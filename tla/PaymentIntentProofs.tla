------------------------ MODULE PaymentIntentProofs ------------------------
(***************************************************************************)
(* The safety of PaymentIntent for every value of its constants, and that  *)
(* it implements PaymentPromise.  The invariants are built in layers, each *)
(* inductive given the ones below it: types (TypeInv), who may hold an     *)
(* intent (ClaimInv), what its reservation says (LedgerAgrees), what its   *)
(* approval says (ApprovalInv) and what the chain may know of a payload    *)
(* (PayloadInv), with which every step maps to an abstract one; then what  *)
(* a settlement rests on (EvidenceInv), and the limits of balance and      *)
(* policy (SpendWithinLimits), which the refinement helps to keep.         *)
(***************************************************************************)
EXTENDS PaymentIntent, SumTheorems

\* The groups of variables and of program counters, throughout.
USE DEF intentRows, attemptRows, settings, requests, AttemptFrame, BeforeClaim, AfterClaim

-----------------------------------------------------------------------------
(* Layer 1: types, with what a program counter says of the call's locals.  *)

CallsWellFormed ==
    \A r \in Requests :
        /\ pc[r] # "idle" => on[r] \in Intents
        /\ pc[r] = "refuse" => report[r] \in {"EXPIRED", "FAILED_BEFORE_SUBMISSION"}
        /\ pc[r] # "refuse" => report[r] \in Requests \cup {None}
        /\ pc[r] \in {"submitted", "settle"} => report[r] \in Requests

\* An attempt, a payload and a sweep's observation belong to a claim.
AttemptsClaimed ==
    /\ \A r \in Requests : attempt[r] # "none" \/ chain[r] # "unsent" => pc[r] \in AfterClaim
    /\ \A k \in Jobs : job[k] # None => pc[job[k].attempt] \in AfterClaim

TypeInv == TypeOK /\ CallsWellFormed /\ AttemptsClaimed

(***************************************************************************)
(* evaluatePolicy answers one of its three outcomes, whatever the facts.   *)
(***************************************************************************)
LEMMA OutcomeType ==
    ASSUME NEW f, NEW p, p.overLimitAction \in OverLimitActions
    PROVE  EvaluatePolicy(f, p) \in PolicyOutcome
BY DEF EvaluatePolicy, OverLimitActions, PolicyOutcome

(***************************************************************************)
(* What releases a reservation leaves every reservation with a status.     *)
(***************************************************************************)
LEMMA ReleaseKeepsType ==
    ASSUME reservation \in [Intents -> ReservationStatus], NEW i,
           NEW to \in ReservationStatus, ReleaseActive(i, to)
    PROVE  reservation' \in [Intents -> ReservationStatus]
BY DEF ReleaseActive

(***************************************************************************)
(* The types hold initially.                                               *)
(***************************************************************************)
LEMMA TypeInit == Init => TypeInv
<1> SUFFICES ASSUME Init PROVE TypeInv
    OBVIOUS
<1> USE DEF Init
<1>1. 1 \in 1 .. MaxPolicyVersion
  BY ConstantsAssumption DEF ConstantsAssumption
<1>2. NoSettlement \in SettlementRow
  BY DEF NoSettlement, SettlementRow
<1>3. TypeOK
  BY <1>1, <1>2 DEF TypeOK, PaymentStatus, ReservationStatus, ApprovalStatus,
     AttemptStatus, Vote, ChainState
<1>4. CallsWellFormed
  BY DEF CallsWellFormed
<1>5. AttemptsClaimed
  BY DEF AttemptsClaimed
<1> QED
  BY <1>3, <1>4, <1>5 DEF TypeInv

(***************************************************************************)
(* Every step keeps the types and the well-formedness of calls.            *)
(***************************************************************************)
LEMMA TypeStep == TypeInv /\ [Next]_vars => TypeInv'
<1>t. SUFFICES ASSUME TypeInv, [Next]_vars PROVE TypeInv'
    OBVIOUS
<1>1. ASSUME NEW r \in Requests, NEW i \in Intents, NEW u \in Users \cup {None}, CreatePaidRequest(r, i, u)
      PROVE  TypeInv'
  <2> DEFINE outcome == EvaluatePolicy(Facts(i), Policy)
             runs == outcome = "ALLOW" /\ i \notin SelfCustody
  <2>0. outcome \in {"ALLOW", "DENY", "REQUIRE_APPROVAL"}
    BY OutcomeType, ConstantsAssumption DEF ConstantsAssumption, PolicyOutcome
  <2>1. TypeOK'
    <3>1. pc' \in [Requests -> BeforeClaim \cup AfterClaim] /\ on' \in [Requests -> Intents \cup {None}]
      BY <1>t, <1>1 DEF TypeInv, TypeOK, CreatePaidRequest
    <3>2. status' \in [Intents -> PaymentStatus]
      <4>1. \E s \in PaymentStatus : status' = [status EXCEPT ![i] = s]
        BY <1>1, <2>0 DEF CreatePaidRequest, PaymentStatus
      <4> QED
        BY <1>t, <4>1 DEF TypeInv, TypeOK
    <3>3. reservation' \in [Intents -> ReservationStatus] /\ approval' \in [Intents -> ApprovalStatus]
      BY <1>t, <1>1 DEF TypeInv, TypeOK, CreatePaidRequest, ReservationStatus,
         ApprovalStatus
    <3>4. initiator' \in [Intents -> Users \cup {None}] /\ decidedUnder' \in [Intents -> 1 .. MaxPolicyVersion]
      BY <1>t, <1>1 DEF TypeInv, TypeOK, CreatePaidRequest
    <3> QED
      BY <1>t, <1>1, <3>1, <3>2, <3>3, <3>4 DEF TypeInv, TypeOK,
         CreatePaidRequest
  <2>2. CallsWellFormed'
    BY <1>t, <1>1 DEF TypeInv, TypeOK, CallsWellFormed, CreatePaidRequest
  <2>3. AttemptsClaimed'
    BY <1>t, <1>1 DEF TypeInv, TypeOK, AttemptsClaimed, CreatePaidRequest,
       Observation
  <2> QED
    BY <2>1, <2>2, <2>3 DEF TypeInv
<1>2. ASSUME NEW r \in Requests, NEW i \in Intents, NEW u \in Users, NEW v \in {"APPROVE", "REJECT"}, Decide(r, i, u, v)
      PROVE  TypeInv'
  <2>1. TypeOK'
    <3>1. votes' \in [Intents -> [Users -> Vote]]
      BY <1>t, <1>2 DEF TypeInv, TypeOK, Decide, Vote
    <3>2. status' \in [Intents -> PaymentStatus] /\ approval' \in [Intents -> ApprovalStatus]
      BY <1>t, <1>2 DEF TypeInv, TypeOK, Decide, PaymentStatus, ApprovalStatus
    <3>3. reservation' \in [Intents -> ReservationStatus]
      <4>1. ReleaseActive(i, "RELEASED") \/ UNCHANGED reservation
        BY <1>2 DEF Decide
      <4> QED
        BY <1>t, <4>1, ReleaseKeepsType DEF TypeInv, TypeOK, ReservationStatus
    <3>4. pc' \in [Requests -> BeforeClaim \cup AfterClaim] /\ on' \in [Requests -> Intents \cup {None}]
      BY <1>t, <1>2 DEF TypeInv, TypeOK, Decide
    <3> QED
      BY <1>t, <1>2, <3>1, <3>2, <3>3, <3>4 DEF TypeInv, TypeOK, Decide
  <2>2. CallsWellFormed'
    BY <1>t, <1>2 DEF TypeInv, TypeOK, CallsWellFormed, Decide
  <2>3. AttemptsClaimed'
    BY <1>t, <1>2 DEF TypeInv, TypeOK, AttemptsClaimed, Decide, Observation
  <2> QED
    BY <2>1, <2>2, <2>3 DEF TypeInv
<1>3. ASSUME NEW r \in Requests, NEW i \in Intents, SubmitSelfCustody(r, i)
      PROVE  TypeInv'
  <2>1. TypeOK'
    BY <1>t, <1>3 DEF TypeInv, TypeOK, CallsWellFormed, PaymentStatus,
       ReservationStatus, ApprovalStatus, AttemptStatus, Vote, ChainState,
       SettlementRow, SubmitSelfCustody, Goto
  <2>2. CallsWellFormed'
    BY <1>t, <1>3 DEF TypeInv, TypeOK, CallsWellFormed, SubmitSelfCustody, Goto
  <2>3. AttemptsClaimed'
    BY <1>t, <1>3 DEF TypeInv, TypeOK, CallsWellFormed, AttemptsClaimed,
       Observation, SubmitSelfCustody, Goto
  <2> QED
    BY <2>1, <2>2, <2>3 DEF TypeInv
<1>4. ASSUME NEW r \in Requests, NEW i \in Intents, CancelRead(r, i)
      PROVE  TypeInv'
  <2>1. TypeOK'
    BY <1>t, <1>4 DEF TypeInv, TypeOK, CallsWellFormed, PaymentStatus,
       ReservationStatus, ApprovalStatus, AttemptStatus, Vote, ChainState,
       SettlementRow, CancelRead, Goto
  <2>2. CallsWellFormed'
    BY <1>t, <1>4 DEF TypeInv, TypeOK, CallsWellFormed, CancelRead, Goto
  <2>3. AttemptsClaimed'
    BY <1>t, <1>4 DEF TypeInv, TypeOK, CallsWellFormed, AttemptsClaimed,
       Observation, CancelRead, Goto
  <2> QED
    BY <2>1, <2>2, <2>3 DEF TypeInv
<1>5. ASSUME NEW r \in Requests, Revalidate(r)
      PROVE  TypeInv'
  <2>1. CASE Goto(r, "read") /\ UNCHANGED <<status, reservation, on, report>>
    <3>1. TypeOK'
      BY <1>t, <1>5, <2>1 DEF TypeInv, TypeOK, CallsWellFormed, PaymentStatus,
         ReservationStatus, ApprovalStatus, AttemptStatus, Vote, ChainState,
         SettlementRow, Revalidate, Goto
    <3>2. CallsWellFormed'
      BY <1>t, <1>5, <2>1 DEF TypeInv, TypeOK, CallsWellFormed, Revalidate, Goto
    <3>3. AttemptsClaimed'
      BY <1>t, <1>5, <2>1 DEF TypeInv, TypeOK, CallsWellFormed, AttemptsClaimed,
         Observation, Revalidate, Goto
    <3> QED
      BY <3>1, <3>2, <3>3 DEF TypeInv
  <2>2. CASE Return(r) /\ status' = [status EXCEPT ![on[r]] =
        "FAILED_BEFORE_SUBMISSION"] /\ ReleaseActive(on[r], "RELEASED")
    <3>1. TypeOK'
      BY <1>t, <1>5, <2>2 DEF TypeInv, TypeOK, CallsWellFormed, PaymentStatus,
         ReservationStatus, ApprovalStatus, AttemptStatus, Vote, ChainState,
         SettlementRow, Revalidate, Return, ReleaseActive
    <3>2. CallsWellFormed'
      BY <1>t, <1>5, <2>2 DEF TypeInv, TypeOK, CallsWellFormed, Revalidate,
         Return, ReleaseActive
    <3>3. AttemptsClaimed'
      BY <1>t, <1>5, <2>2 DEF TypeInv, TypeOK, CallsWellFormed, AttemptsClaimed,
         Observation, Revalidate, Return, ReleaseActive
    <3> QED
      BY <3>1, <3>2, <3>3 DEF TypeInv
  <2>3. CASE Return(r) /\ UNCHANGED <<status, reservation>>
    <3>1. TypeOK'
      BY <1>t, <1>5, <2>3 DEF TypeInv, TypeOK, CallsWellFormed, PaymentStatus,
         ReservationStatus, ApprovalStatus, AttemptStatus, Vote, ChainState,
         SettlementRow, Revalidate, Return
    <3>2. CallsWellFormed'
      BY <1>t, <1>5, <2>3 DEF TypeInv, TypeOK, CallsWellFormed, Revalidate,
         Return
    <3>3. AttemptsClaimed'
      BY <1>t, <1>5, <2>3 DEF TypeInv, TypeOK, CallsWellFormed, AttemptsClaimed,
         Observation, Revalidate, Return
    <3> QED
      BY <3>1, <3>2, <3>3 DEF TypeInv
  <2> QED
    BY <1>5, <2>1, <2>2, <2>3 DEF Revalidate
<1>6. ASSUME NEW r \in Requests, ReadAuthorized(r)
      PROVE  TypeInv'
  <2>1. CASE Return(r)
    <3>1. TypeOK'
      BY <1>t, <1>6, <2>1 DEF TypeInv, TypeOK, CallsWellFormed, PaymentStatus,
         ReservationStatus, ApprovalStatus, AttemptStatus, Vote, ChainState,
         SettlementRow, ReadAuthorized, Return
    <3>2. CallsWellFormed'
      BY <1>t, <1>6, <2>1 DEF TypeInv, TypeOK, CallsWellFormed, ReadAuthorized,
         Return
    <3>3. AttemptsClaimed'
      BY <1>t, <1>6, <2>1 DEF TypeInv, TypeOK, CallsWellFormed, AttemptsClaimed,
         Observation, ReadAuthorized, Return
    <3> QED
      BY <3>1, <3>2, <3>3 DEF TypeInv
  <2>2. CASE Goto(r, "refuse") /\ report' = [report EXCEPT ![r] =
        PreSignRefusal(on[r])] /\ PreSignRefusal(on[r]) # None /\ UNCHANGED on
    <3>1. TypeOK'
      BY <1>t, <1>6, <2>2 DEF TypeInv, TypeOK, CallsWellFormed, PaymentStatus,
         ReservationStatus, ApprovalStatus, AttemptStatus, Vote, ChainState,
         SettlementRow, ReadAuthorized, Goto, PreSignRefusal
    <3>2. CallsWellFormed'
      BY <1>t, <1>6, <2>2 DEF TypeInv, TypeOK, CallsWellFormed, ReadAuthorized,
         Goto, PreSignRefusal
    <3>3. AttemptsClaimed'
      BY <1>t, <1>6, <2>2 DEF TypeInv, TypeOK, CallsWellFormed, AttemptsClaimed,
         Observation, ReadAuthorized, Goto, PreSignRefusal
    <3> QED
      BY <3>1, <3>2, <3>3 DEF TypeInv
  <2>3. CASE Goto(r, "claim") /\ UNCHANGED <<on, report>>
    <3>1. TypeOK'
      BY <1>t, <1>6, <2>3 DEF TypeInv, TypeOK, CallsWellFormed, PaymentStatus,
         ReservationStatus, ApprovalStatus, AttemptStatus, Vote, ChainState,
         SettlementRow, ReadAuthorized, Goto
    <3>2. CallsWellFormed'
      BY <1>t, <1>6, <2>3 DEF TypeInv, TypeOK, CallsWellFormed, ReadAuthorized,
         Goto
    <3>3. AttemptsClaimed'
      BY <1>t, <1>6, <2>3 DEF TypeInv, TypeOK, CallsWellFormed, AttemptsClaimed,
         Observation, ReadAuthorized, Goto
    <3> QED
      BY <3>1, <3>2, <3>3 DEF TypeInv
  <2> QED
    BY <1>6, <2>1, <2>2, <2>3 DEF ReadAuthorized
<1>7. ASSUME NEW r \in Requests, FailBeforeSigning(r)
      PROVE  TypeInv'
  <2>1. CASE Return(r) /\ status' = [status EXCEPT ![on[r]] = report[r]] /\
        ReleaseActive(on[r], IF report[r] = "EXPIRED" THEN "EXPIRED" ELSE "RELEASED")
    <3>1. TypeOK'
      BY <1>t, <1>7, <2>1 DEF TypeInv, TypeOK, CallsWellFormed, PaymentStatus,
         ReservationStatus, ApprovalStatus, AttemptStatus, Vote, ChainState,
         SettlementRow, FailBeforeSigning, Return, ReleaseActive
    <3>2. CallsWellFormed'
      BY <1>t, <1>7, <2>1 DEF TypeInv, TypeOK, CallsWellFormed,
         FailBeforeSigning, Return, ReleaseActive
    <3>3. AttemptsClaimed'
      BY <1>t, <1>7, <2>1 DEF TypeInv, TypeOK, CallsWellFormed, AttemptsClaimed,
         Observation, FailBeforeSigning, Return, ReleaseActive
    <3> QED
      BY <3>1, <3>2, <3>3 DEF TypeInv
  <2>2. CASE Return(r) /\ UNCHANGED <<status, reservation>>
    <3>1. TypeOK'
      BY <1>t, <1>7, <2>2 DEF TypeInv, TypeOK, CallsWellFormed, PaymentStatus,
         ReservationStatus, ApprovalStatus, AttemptStatus, Vote, ChainState,
         SettlementRow, FailBeforeSigning, Return
    <3>2. CallsWellFormed'
      BY <1>t, <1>7, <2>2 DEF TypeInv, TypeOK, CallsWellFormed,
         FailBeforeSigning, Return
    <3>3. AttemptsClaimed'
      BY <1>t, <1>7, <2>2 DEF TypeInv, TypeOK, CallsWellFormed, AttemptsClaimed,
         Observation, FailBeforeSigning, Return
    <3> QED
      BY <3>1, <3>2, <3>3 DEF TypeInv
  <2> QED
    BY <1>7, <2>1, <2>2 DEF FailBeforeSigning
<1>8. ASSUME NEW r \in Requests, Claim(r)
      PROVE  TypeInv'
  <2>1. CASE status' = [status EXCEPT ![on[r]] = "SIGNING"] /\ Goto(r, "attempt") /\
        UNCHANGED <<on, report>>
    <3>1. TypeOK'
      BY <1>t, <1>8, <2>1 DEF TypeInv, TypeOK, CallsWellFormed, PaymentStatus,
         ReservationStatus, ApprovalStatus, AttemptStatus, Vote, ChainState,
         SettlementRow, Claim, Goto
    <3>2. CallsWellFormed'
      BY <1>t, <1>8, <2>1 DEF TypeInv, TypeOK, CallsWellFormed, Claim, Goto
    <3>3. AttemptsClaimed'
      BY <1>t, <1>8, <2>1 DEF TypeInv, TypeOK, CallsWellFormed, AttemptsClaimed,
         Observation, Claim, Goto
    <3> QED
      BY <3>1, <3>2, <3>3 DEF TypeInv
  <2>2. CASE Return(r) /\ UNCHANGED status
    <3>1. TypeOK'
      BY <1>t, <1>8, <2>2 DEF TypeInv, TypeOK, CallsWellFormed, PaymentStatus,
         ReservationStatus, ApprovalStatus, AttemptStatus, Vote, ChainState,
         SettlementRow, Claim, Return
    <3>2. CallsWellFormed'
      BY <1>t, <1>8, <2>2 DEF TypeInv, TypeOK, CallsWellFormed, Claim, Return
    <3>3. AttemptsClaimed'
      BY <1>t, <1>8, <2>2 DEF TypeInv, TypeOK, CallsWellFormed, AttemptsClaimed,
         Observation, Claim, Return
    <3> QED
      BY <3>1, <3>2, <3>3 DEF TypeInv
  <2> QED
    BY <1>8, <2>1, <2>2 DEF Claim
<1>9. ASSUME NEW r \in Requests, CreateAttempt(r)
      PROVE  TypeInv'
  <2>1. TypeOK'
    BY <1>t, <1>9 DEF TypeInv, TypeOK, CallsWellFormed, PaymentStatus,
       ReservationStatus, ApprovalStatus, AttemptStatus, Vote, ChainState,
       SettlementRow, CreateAttempt, Goto
  <2>2. CallsWellFormed'
    BY <1>t, <1>9 DEF TypeInv, TypeOK, CallsWellFormed, CreateAttempt, Goto
  <2>3. AttemptsClaimed'
    BY <1>t, <1>9 DEF TypeInv, TypeOK, CallsWellFormed, AttemptsClaimed,
       Observation, CreateAttempt, Goto
  <2> QED
    BY <2>1, <2>2, <2>3 DEF TypeInv
<1>10. ASSUME NEW r \in Requests, Sign(r)
      PROVE  TypeInv'
  <2>1. CASE attempt' = [attempt EXCEPT ![r] = "SIGNED"] /\ (\E tx \in {r, None} :
        candidate' = [candidate EXCEPT ![r] = tx]) /\ Goto(r, "send")
    <3>1. TypeOK'
      BY <1>t, <1>10, <2>1 DEF TypeInv, TypeOK, CallsWellFormed, PaymentStatus,
         ReservationStatus, ApprovalStatus, AttemptStatus, Vote, ChainState,
         SettlementRow, Sign, Goto
    <3>2. CallsWellFormed'
      BY <1>t, <1>10, <2>1 DEF TypeInv, TypeOK, CallsWellFormed, Sign, Goto
    <3>3. AttemptsClaimed'
      BY <1>t, <1>10, <2>1 DEF TypeInv, TypeOK, CallsWellFormed,
         AttemptsClaimed, Observation, Sign, Goto
    <3> QED
      BY <3>1, <3>2, <3>3 DEF TypeInv
  <2>2. CASE Goto(r, "fail") /\ UNCHANGED <<attempt, candidate>>
    <3>1. TypeOK'
      BY <1>t, <1>10, <2>2 DEF TypeInv, TypeOK, CallsWellFormed, PaymentStatus,
         ReservationStatus, ApprovalStatus, AttemptStatus, Vote, ChainState,
         SettlementRow, Sign, Goto
    <3>2. CallsWellFormed'
      BY <1>t, <1>10, <2>2 DEF TypeInv, TypeOK, CallsWellFormed, Sign, Goto
    <3>3. AttemptsClaimed'
      BY <1>t, <1>10, <2>2 DEF TypeInv, TypeOK, CallsWellFormed,
         AttemptsClaimed, Observation, Sign, Goto
    <3> QED
      BY <3>1, <3>2, <3>3 DEF TypeInv
  <2> QED
    BY <1>10, <2>1, <2>2 DEF Sign
<1>11. ASSUME NEW r \in Requests, Send(r)
      PROVE  TypeInv'
  <2>1. CASE chain' = [chain EXCEPT ![r] = "sent"] /\ Goto(r, "await")
    <3>1. TypeOK'
      BY <1>t, <1>11, <2>1 DEF TypeInv, TypeOK, CallsWellFormed, PaymentStatus,
         ReservationStatus, ApprovalStatus, AttemptStatus, Vote, ChainState,
         SettlementRow, Send, Goto
    <3>2. CallsWellFormed'
      BY <1>t, <1>11, <2>1 DEF TypeInv, TypeOK, CallsWellFormed, Send, Goto
    <3>3. AttemptsClaimed'
      BY <1>t, <1>11, <2>1 DEF TypeInv, TypeOK, CallsWellFormed,
         AttemptsClaimed, Observation, Send, Goto
    <3> QED
      BY <3>1, <3>2, <3>3 DEF TypeInv
  <2>2. CASE Goto(r, "unknown") /\ UNCHANGED chain
    <3>1. TypeOK'
      BY <1>t, <1>11, <2>2 DEF TypeInv, TypeOK, CallsWellFormed, PaymentStatus,
         ReservationStatus, ApprovalStatus, AttemptStatus, Vote, ChainState,
         SettlementRow, Send, Goto
    <3>2. CallsWellFormed'
      BY <1>t, <1>11, <2>2 DEF TypeInv, TypeOK, CallsWellFormed, Send, Goto
    <3>3. AttemptsClaimed'
      BY <1>t, <1>11, <2>2 DEF TypeInv, TypeOK, CallsWellFormed,
         AttemptsClaimed, Observation, Send, Goto
    <3> QED
      BY <3>1, <3>2, <3>3 DEF TypeInv
  <2>3. CASE Goto(r, "fail") /\ UNCHANGED chain
    <3>1. TypeOK'
      BY <1>t, <1>11, <2>3 DEF TypeInv, TypeOK, CallsWellFormed, PaymentStatus,
         ReservationStatus, ApprovalStatus, AttemptStatus, Vote, ChainState,
         SettlementRow, Send, Goto
    <3>2. CallsWellFormed'
      BY <1>t, <1>11, <2>3 DEF TypeInv, TypeOK, CallsWellFormed, Send, Goto
    <3>3. AttemptsClaimed'
      BY <1>t, <1>11, <2>3 DEF TypeInv, TypeOK, CallsWellFormed,
         AttemptsClaimed, Observation, Send, Goto
    <3> QED
      BY <3>1, <3>2, <3>3 DEF TypeInv
  <2> QED
    BY <1>11, <2>1, <2>2, <2>3 DEF Send
<1>12. ASSUME NEW r \in Requests, Fulfilled(r)
      PROVE  TypeInv'
  <2>1. TypeOK'
    BY <1>t, <1>12 DEF TypeInv, TypeOK, CallsWellFormed, PaymentStatus,
       ReservationStatus, ApprovalStatus, AttemptStatus, Vote, ChainState,
       SettlementRow, Fulfilled, Goto, Reportable
  <2>2. CallsWellFormed'
    BY <1>t, <1>12 DEF TypeInv, TypeOK, CallsWellFormed, Fulfilled, Goto,
       Reportable
  <2>3. AttemptsClaimed'
    <3>1. pc[r] = "await" /\ UNCHANGED <<attempt, chain, job>>
      BY <1>12 DEF Fulfilled
    <3>2. \A s \in Requests : pc[s] \in AfterClaim => pc'[s] \in AfterClaim
      BY <1>t, <1>12, <3>1 DEF TypeInv, TypeOK, Fulfilled, Goto
    <3> QED
      BY <1>t, <3>1, <3>2 DEF TypeInv, TypeOK, AttemptsClaimed, Observation
  <2> QED
    BY <2>1, <2>2, <2>3 DEF TypeInv
<1>13. ASSUME NEW r \in Requests, SubmissionUnknown(r)
      PROVE  TypeInv'
  <2>1. TypeOK'
    BY <1>t, <1>13 DEF TypeInv, TypeOK, CallsWellFormed, PaymentStatus,
       ReservationStatus, ApprovalStatus, AttemptStatus, Vote, ChainState,
       SettlementRow, SubmissionUnknown, Goto, Reportable
  <2>2. CallsWellFormed'
    BY <1>t, <1>13 DEF TypeInv, TypeOK, CallsWellFormed, SubmissionUnknown,
       Goto, Reportable
  <2>3. AttemptsClaimed'
    BY <1>t, <1>13 DEF TypeInv, TypeOK, CallsWellFormed, AttemptsClaimed,
       Observation, SubmissionUnknown, Goto, Reportable
  <2> QED
    BY <2>1, <2>2, <2>3 DEF TypeInv
<1>14. ASSUME NEW r \in Requests, ResourceRefuses(r)
      PROVE  TypeInv'
  <2>1. TypeOK'
    BY <1>t, <1>14 DEF TypeInv, TypeOK, CallsWellFormed, PaymentStatus,
       ReservationStatus, ApprovalStatus, AttemptStatus, Vote, ChainState,
       SettlementRow, ResourceRefuses, Goto
  <2>2. CallsWellFormed'
    BY <1>t, <1>14 DEF TypeInv, TypeOK, CallsWellFormed, ResourceRefuses, Goto
  <2>3. AttemptsClaimed'
    BY <1>t, <1>14 DEF TypeInv, TypeOK, CallsWellFormed, AttemptsClaimed,
       Observation, ResourceRefuses, Goto
  <2> QED
    BY <2>1, <2>2, <2>3 DEF TypeInv
<1>15. ASSUME NEW r \in Requests, RecordSubmitted(r)
      PROVE  TypeInv'
  <2>1. CASE attempt' = [attempt EXCEPT ![r] = "SUBMITTED"] /\ candidate' = [candidate
        EXCEPT ![r] = report[r]] /\ (Goto(r, "settle") \/ Goto(r, "unknown"))
    <3>1. TypeOK'
      BY <1>t, <1>15, <2>1 DEF TypeInv, TypeOK, CallsWellFormed, PaymentStatus,
         ReservationStatus, ApprovalStatus, AttemptStatus, Vote, ChainState,
         SettlementRow, RecordSubmitted, Goto
    <3>2. CallsWellFormed'
      BY <1>t, <1>15, <2>1 DEF TypeInv, TypeOK, CallsWellFormed,
         RecordSubmitted, Goto
    <3>3. AttemptsClaimed'
      BY <1>t, <1>15, <2>1 DEF TypeInv, TypeOK, CallsWellFormed,
         AttemptsClaimed, Observation, RecordSubmitted, Goto
    <3> QED
      BY <3>1, <3>2, <3>3 DEF TypeInv
  <2>2. CASE Goto(r, "unknown") /\ UNCHANGED <<attempt, candidate>>
    <3>1. TypeOK'
      BY <1>t, <1>15, <2>2 DEF TypeInv, TypeOK, CallsWellFormed, PaymentStatus,
         ReservationStatus, ApprovalStatus, AttemptStatus, Vote, ChainState,
         SettlementRow, RecordSubmitted, Goto
    <3>2. CallsWellFormed'
      BY <1>t, <1>15, <2>2 DEF TypeInv, TypeOK, CallsWellFormed,
         RecordSubmitted, Goto
    <3>3. AttemptsClaimed'
      BY <1>t, <1>15, <2>2 DEF TypeInv, TypeOK, CallsWellFormed,
         AttemptsClaimed, Observation, RecordSubmitted, Goto
    <3> QED
      BY <3>1, <3>2, <3>3 DEF TypeInv
  <2> QED
    BY <1>15, <2>1, <2>2 DEF RecordSubmitted
<1>16. ASSUME NEW r \in Requests, CommitSettlement(r)
      PROVE  TypeInv'
  <2>1. TypeOK'
    <3>1. pc' \in [Requests -> BeforeClaim \cup AfterClaim]
      BY <1>t, <1>16 DEF TypeInv, TypeOK, CommitSettlement, Goto
    <3>2. attempt' \in [Requests -> AttemptStatus]
      BY <1>t, <1>16 DEF TypeInv, TypeOK, CommitSettlement, Goto, AttemptStatus
    <3>3. candidate' \in [Requests -> Requests \cup {None}]
      BY <1>t, <1>16 DEF TypeInv, TypeOK, CommitSettlement, Goto,
         CallsWellFormed
    <3>4. settlement' \in [Requests -> SettlementRow]
      BY <1>t, <1>16 DEF TypeInv, TypeOK, CommitSettlement, Goto, SettlementRow,
         CallsWellFormed
    <3>5. fulfillment' \in [Intents -> {"none", "PENDING", "FULFILLED", "FAILED"}]
      BY <1>t, <1>16 DEF TypeInv, TypeOK, CommitSettlement, Goto
    <3>6. reservation' \in [Intents -> ReservationStatus]
      BY <1>t, <1>16 DEF TypeInv, TypeOK, CommitSettlement, Goto,
         ReservationStatus
    <3>7. status' \in [Intents -> PaymentStatus]
      BY <1>t, <1>16 DEF TypeInv, TypeOK, CommitSettlement, Goto, PaymentStatus
    <3> QED
      BY <1>t, <1>16, <3>1, <3>2, <3>3, <3>4, <3>5, <3>6, <3>7 DEF TypeInv,
         TypeOK, CommitSettlement
  <2>2. CallsWellFormed'
    BY <1>t, <1>16 DEF TypeInv, TypeOK, CallsWellFormed, CommitSettlement, Goto
  <2>3. AttemptsClaimed'
    BY <1>t, <1>16 DEF TypeInv, TypeOK, CallsWellFormed, AttemptsClaimed,
       Observation, CommitSettlement, Goto
  <2> QED
    BY <2>1, <2>2, <2>3 DEF TypeInv
<1>17. ASSUME NEW r \in Requests, AbortSettlement(r)
      PROVE  TypeInv'
  <2>1. TypeOK'
    BY <1>t, <1>17 DEF TypeInv, TypeOK, CallsWellFormed, PaymentStatus,
       ReservationStatus, ApprovalStatus, AttemptStatus, Vote, ChainState,
       SettlementRow, AbortSettlement, Goto
  <2>2. CallsWellFormed'
    BY <1>t, <1>17 DEF TypeInv, TypeOK, CallsWellFormed, AbortSettlement, Goto
  <2>3. AttemptsClaimed'
    BY <1>t, <1>17 DEF TypeInv, TypeOK, CallsWellFormed, AttemptsClaimed,
       Observation, AbortSettlement, Goto
  <2> QED
    BY <2>1, <2>2, <2>3 DEF TypeInv
<1>18. ASSUME NEW r \in Requests, MarkSubmissionUnknown(r)
      PROVE  TypeInv'
  <2>1. TypeOK'
    <3>1. pc' \in [Requests -> BeforeClaim \cup AfterClaim]
      BY <1>t, <1>18 DEF TypeInv, TypeOK, MarkSubmissionUnknown, Goto
    <3>2. attempt' \in [Requests -> AttemptStatus]
      BY <1>t, <1>18 DEF TypeInv, TypeOK, MarkSubmissionUnknown, Goto,
         AttemptStatus
    <3>3. candidate' \in [Requests -> Requests \cup {None}]
      BY <1>t, <1>18 DEF TypeInv, TypeOK, MarkSubmissionUnknown, Goto,
         CallsWellFormed
    <3>4. status' \in [Intents -> PaymentStatus]
      BY <1>t, <1>18 DEF TypeInv, TypeOK, MarkSubmissionUnknown, Goto,
         PaymentStatus
    <3>5. fulfillment' \in [Intents -> {"none", "PENDING", "FULFILLED", "FAILED"}]
      BY <1>t, <1>18 DEF TypeInv, TypeOK, MarkSubmissionUnknown, Goto
    <3> QED
      BY <1>t, <1>18, <3>1, <3>2, <3>3, <3>4, <3>5 DEF TypeInv, TypeOK,
         MarkSubmissionUnknown
  <2>2. CallsWellFormed'
    BY <1>t, <1>18 DEF TypeInv, TypeOK, CallsWellFormed, MarkSubmissionUnknown,
       Goto
  <2>3. AttemptsClaimed'
    BY <1>t, <1>18 DEF TypeInv, TypeOK, CallsWellFormed, AttemptsClaimed,
       Observation, MarkSubmissionUnknown, Goto
  <2> QED
    BY <2>1, <2>2, <2>3 DEF TypeInv
<1>19. ASSUME NEW r \in Requests, FailAttempt(r)
      PROVE  TypeInv'
  <2>1. TypeOK'
    <3>1. pc' \in [Requests -> BeforeClaim \cup AfterClaim]
      BY <1>t, <1>19 DEF TypeInv, TypeOK, FailAttempt, Goto, ReleaseActive
    <3>2. attempt' \in [Requests -> AttemptStatus]
      BY <1>t, <1>19 DEF TypeInv, TypeOK, FailAttempt, Goto, ReleaseActive,
         AttemptStatus
    <3>3. status' \in [Intents -> PaymentStatus]
      BY <1>t, <1>19 DEF TypeInv, TypeOK, FailAttempt, Goto, ReleaseActive,
         PaymentStatus
    <3>4. reservation' \in [Intents -> ReservationStatus]
      BY <1>t, <1>19 DEF TypeInv, TypeOK, FailAttempt, Goto, ReleaseActive,
         ReservationStatus
    <3> QED
      BY <1>t, <1>19, <3>1, <3>2, <3>3, <3>4 DEF TypeInv, TypeOK, FailAttempt
  <2>2. CallsWellFormed'
    BY <1>t, <1>19 DEF TypeInv, TypeOK, CallsWellFormed, FailAttempt, Goto,
       ReleaseActive
  <2>3. AttemptsClaimed'
    BY <1>t, <1>19 DEF TypeInv, TypeOK, CallsWellFormed, AttemptsClaimed,
       Observation, FailAttempt, Goto, ReleaseActive
  <2> QED
    BY <2>1, <2>2, <2>3 DEF TypeInv
<1>20. ASSUME NEW r \in Requests, CancelWrite(r)
      PROVE  TypeInv'
  <2>1. TypeOK'
    <3>1. status' \in [Intents -> PaymentStatus]
      BY <1>t, <1>20 DEF TypeInv, TypeOK, CancelWrite, Return, ReleaseActive,
         PaymentStatus
    <3>2. approval' \in [Intents -> ApprovalStatus]
      BY <1>t, <1>20 DEF TypeInv, TypeOK, CancelWrite, Return, ReleaseActive,
         ApprovalStatus
    <3>3. reservation' \in [Intents -> ReservationStatus]
      BY <1>t, <1>20 DEF TypeInv, TypeOK, CancelWrite, Return, ReleaseActive,
         ReservationStatus
    <3>4. pc' \in [Requests -> BeforeClaim \cup AfterClaim]
      BY <1>t, <1>20 DEF TypeInv, TypeOK, CancelWrite, Return, ReleaseActive
    <3>5. on' \in [Requests -> Intents \cup {None}]
      BY <1>t, <1>20 DEF TypeInv, TypeOK, CancelWrite, Return, ReleaseActive
    <3>6. report' \in [Requests -> Requests \cup {None, "EXPIRED", "FAILED_BEFORE_SUBMISSION"}]
      BY <1>t, <1>20 DEF TypeInv, TypeOK, CancelWrite, Return, ReleaseActive
    <3> QED
      BY <1>t, <1>20, <3>1, <3>2, <3>3, <3>4, <3>5, <3>6 DEF TypeInv, TypeOK,
         CancelWrite
  <2>2. CallsWellFormed'
    BY <1>t, <1>20 DEF TypeInv, TypeOK, CallsWellFormed, CancelWrite, Return,
       ReleaseActive
  <2>3. AttemptsClaimed'
    BY <1>t, <1>20 DEF TypeInv, TypeOK, CallsWellFormed, AttemptsClaimed,
       Observation, CancelWrite, Return, ReleaseActive
  <2> QED
    BY <2>1, <2>2, <2>3 DEF TypeInv
<1>21. ASSUME NEW r \in Requests, Crash(r)
      PROVE  TypeInv'
  <2>1. CASE pc[r] \in BeforeClaim /\ Return(r)
    <3>1. TypeOK'
      BY <1>t, <1>21, <2>1 DEF TypeInv, TypeOK, CallsWellFormed, PaymentStatus,
         ReservationStatus, ApprovalStatus, AttemptStatus, Vote, ChainState,
         SettlementRow, Crash, Return
    <3>2. CallsWellFormed'
      BY <1>t, <1>21, <2>1 DEF TypeInv, TypeOK, CallsWellFormed, Crash, Return
    <3>3. AttemptsClaimed'
      BY <1>t, <1>21, <2>1 DEF TypeInv, TypeOK, CallsWellFormed,
         AttemptsClaimed, Observation, Crash, Return
    <3> QED
      BY <3>1, <3>2, <3>3 DEF TypeInv
  <2>2. CASE pc[r] \notin BeforeClaim /\ Goto(r, "done") /\ UNCHANGED <<on, report>>
    <3>1. TypeOK'
      BY <1>t, <1>21, <2>2 DEF TypeInv, TypeOK, CallsWellFormed, PaymentStatus,
         ReservationStatus, ApprovalStatus, AttemptStatus, Vote, ChainState,
         SettlementRow, Crash, Goto
    <3>2. CallsWellFormed'
      BY <1>t, <1>21, <2>2 DEF TypeInv, TypeOK, CallsWellFormed, Crash, Goto
    <3>3. AttemptsClaimed'
      BY <1>t, <1>21, <2>2 DEF TypeInv, TypeOK, CallsWellFormed,
         AttemptsClaimed, Observation, Crash, Goto
    <3> QED
      BY <3>1, <3>2, <3>3 DEF TypeInv
  <2> QED
    BY <1>21, <2>1, <2>2 DEF Crash
<1>22. ASSUME NEW r \in Requests, ChainDecides(r)
      PROVE  TypeInv'
  <2>1. TypeOK'
    BY <1>t, <1>22 DEF TypeInv, TypeOK, CallsWellFormed, PaymentStatus,
       ReservationStatus, ApprovalStatus, AttemptStatus, Vote, ChainState,
       SettlementRow, ChainDecides
  <2>2. CallsWellFormed'
    BY <1>t, <1>22 DEF TypeInv, TypeOK, CallsWellFormed, ChainDecides
  <2>3. AttemptsClaimed'
    BY <1>t, <1>22 DEF TypeInv, TypeOK, CallsWellFormed, AttemptsClaimed,
       Observation, ChainDecides
  <2> QED
    BY <2>1, <2>2, <2>3 DEF TypeInv
<1>23. ASSUME NEW i \in Intents, ExpireIntent(i)
      PROVE  TypeInv'
  <2>1. TypeOK'
    BY <1>t, <1>23 DEF TypeInv, TypeOK, CallsWellFormed, PaymentStatus,
       ReservationStatus, ApprovalStatus, AttemptStatus, Vote, ChainState,
       SettlementRow, ExpireIntent, ReleaseActive
  <2>2. CallsWellFormed'
    BY <1>t, <1>23 DEF TypeInv, TypeOK, CallsWellFormed, ExpireIntent,
       ReleaseActive
  <2>3. AttemptsClaimed'
    BY <1>t, <1>23 DEF TypeInv, TypeOK, CallsWellFormed, AttemptsClaimed,
       Observation, ExpireIntent, ReleaseActive
  <2> QED
    BY <2>1, <2>2, <2>3 DEF TypeInv
<1>24. ASSUME NEW i \in Intents, OpenIncident(i)
      PROVE  TypeInv'
  <2>1. TypeOK'
    BY <1>t, <1>24 DEF TypeInv, TypeOK, CallsWellFormed, PaymentStatus,
       ReservationStatus, ApprovalStatus, AttemptStatus, Vote, ChainState,
       SettlementRow, OpenIncident
  <2>2. CallsWellFormed'
    BY <1>t, <1>24 DEF TypeInv, TypeOK, CallsWellFormed, OpenIncident
  <2>3. AttemptsClaimed'
    BY <1>t, <1>24 DEF TypeInv, TypeOK, CallsWellFormed, AttemptsClaimed,
       Observation, OpenIncident
  <2> QED
    BY <2>1, <2>2, <2>3 DEF TypeInv
<1>25. ASSUME NEW i \in Intents, Elapse(i)
      PROVE  TypeInv'
  <2>1. TypeOK'
    BY <1>t, <1>25 DEF TypeInv, TypeOK, CallsWellFormed, PaymentStatus,
       ReservationStatus, ApprovalStatus, AttemptStatus, Vote, ChainState,
       SettlementRow, Elapse
  <2>2. CallsWellFormed'
    BY <1>t, <1>25 DEF TypeInv, TypeOK, CallsWellFormed, Elapse
  <2>3. AttemptsClaimed'
    BY <1>t, <1>25 DEF TypeInv, TypeOK, CallsWellFormed, AttemptsClaimed,
       Observation, Elapse
  <2> QED
    BY <2>1, <2>2, <2>3 DEF TypeInv
<1>26. ASSUME NEW k \in Jobs, Reconcile(k)
      PROVE  TypeInv'
  <2>1. TypeOK'
    <3>1. status' \in [Intents -> PaymentStatus]
      <4>1. \/ status' = status
            \/ \E s \in PaymentStatus :
                   status' = [status EXCEPT ![on[job[k].attempt]] = s]
        BY <1>26 DEF Reconcile, RejectSubmission, PaymentStatus
      <4> QED
        BY <1>t, <4>1 DEF TypeInv, TypeOK
    <3>2. reservation' \in [Intents -> ReservationStatus]
      <4>1. \/ reservation' = reservation
            \/ reservation' = [reservation EXCEPT ![on[job[k].attempt]] = "SETTLED"]
            \/ \E to \in {"CONSUMED", "RELEASED"} : ReleaseActive(on[job[k].attempt], to)
        BY <1>26 DEF Reconcile, RejectSubmission
      <4> QED
        BY <1>t, <4>1, ReleaseKeepsType DEF TypeInv, TypeOK, ReservationStatus
    <3>3. attempt' \in [Requests -> AttemptStatus]
      <4>1. \/ attempt' = attempt
            \/ \E s \in {"CONFIRMED", "FAILED"} :
                   attempt' = [attempt EXCEPT ![job[k].attempt] = s]
        BY <1>26 DEF Reconcile, RejectSubmission
      <4> QED
        BY <1>t, <4>1 DEF TypeInv, TypeOK, AttemptStatus
    <3>4. settlement' \in [Requests -> SettlementRow]
      <4>1. \/ settlement' = settlement
            \/ \E s \in {"CONFIRMED", "FAILED"} :
                   settlement' = [settlement EXCEPT ![job[k].attempt] =
                                    [status |-> s, tx |-> candidate[job[k].attempt]]]
        BY <1>26 DEF Reconcile
      <4>2. candidate[job[k].attempt] \in Requests \cup {None}
        BY <1>t, <1>26 DEF TypeInv, TypeOK, Reconcile, Observation
      <4> QED
        BY <1>t, <4>1, <4>2 DEF TypeInv, TypeOK, SettlementRow
    <3>5. fulfillment' \in [Intents -> {"none", "PENDING", "FULFILLED", "FAILED"}]
      <4>1. \/ fulfillment' = fulfillment
            \/ fulfillment' = [fulfillment EXCEPT ![on[job[k].attempt]] = "FAILED"]
        BY <1>26 DEF Reconcile
      <4> QED
        BY <1>t, <4>1 DEF TypeInv, TypeOK
    <3>6. incident' \subseteq Intents
      <4>1. on[job[k].attempt] \in Intents
        <5>1. job[k] # None
          BY <1>26 DEF Reconcile
        <5>2. job[k].attempt \in Requests
          BY <1>t, <5>1 DEF TypeInv, TypeOK, Observation
        <5>3. pc[job[k].attempt] \in AfterClaim
          BY <1>t, <5>1 DEF TypeInv, AttemptsClaimed
        <5> QED
          BY <1>t, <5>2, <5>3 DEF TypeInv, CallsWellFormed, AfterClaim
      <4>2. incident' = incident \/ incident' = incident \cup {on[job[k].attempt]}
        BY <1>26 DEF Reconcile
      <4> QED
        BY <1>t, <4>1, <4>2 DEF TypeInv, TypeOK
    <3>7. job' \in [Jobs -> Observation \cup {None}]
      BY <1>t, <1>26 DEF TypeInv, TypeOK, Reconcile, RejectSubmission,
         ReleaseActive, Observation
    <3> QED
      BY <1>t, <1>26, <3>1, <3>2, <3>3, <3>4, <3>5, <3>6, <3>7 DEF TypeInv,
         TypeOK, Reconcile
  <2>2. CallsWellFormed'
    BY <1>t, <1>26 DEF TypeInv, TypeOK, CallsWellFormed, Reconcile,
       RejectSubmission, ReleaseActive
  <2>3. AttemptsClaimed'
    <3>1. /\ pc' = pc /\ chain' = chain /\ job[k] # None /\ job' = [job EXCEPT ![k] = None]
          /\ \A r \in Requests : r # job[k].attempt => attempt'[r] = attempt[r]
      <4>1. attempt' = attempt \/ \E s : attempt' = [attempt EXCEPT ![job[k].attempt] = s]
        BY <1>26 DEF Reconcile, RejectSubmission
      <4> QED
        BY <1>t, <1>26, <4>1 DEF TypeInv, TypeOK, Reconcile
    <3> QED
      BY <1>t, <3>1 DEF TypeInv, TypeOK, AttemptsClaimed
  <2> QED
    BY <2>1, <2>2, <2>3 DEF TypeInv
<1>27. ASSUME NEW k \in Jobs, NEW r \in Requests, Observe(k, r)
      PROVE  TypeInv'
  <2>1. TypeOK'
    BY <1>t, <1>27 DEF TypeInv, TypeOK, CallsWellFormed, PaymentStatus,
       ReservationStatus, ApprovalStatus, AttemptStatus, Vote, ChainState,
       SettlementRow, Observe, ReconciliationOutcome, Reconcilable, Observation,
       Outcome
  <2>2. CallsWellFormed'
    BY <1>t, <1>27 DEF TypeInv, TypeOK, CallsWellFormed, Observe,
       ReconciliationOutcome, Reconcilable, Observation, Outcome
  <2>3. AttemptsClaimed'
    BY <1>t, <1>27 DEF TypeInv, TypeOK, CallsWellFormed, AttemptsClaimed,
       Observation, Observe, ReconciliationOutcome, Reconcilable, Observation,
       Outcome
  <2> QED
    BY <2>1, <2>2, <2>3 DEF TypeInv
<1>28. ASSUME SetKillSwitch PROVE TypeInv'
  <2>1. TypeOK'
    BY <1>t, <1>28 DEF TypeInv, TypeOK, CallsWellFormed, PaymentStatus,
       ReservationStatus, ApprovalStatus, AttemptStatus, Vote, ChainState,
       SettlementRow, SetKillSwitch
  <2>2. CallsWellFormed'
    BY <1>t, <1>28 DEF TypeInv, TypeOK, CallsWellFormed, SetKillSwitch
  <2>3. AttemptsClaimed'
    BY <1>t, <1>28 DEF TypeInv, TypeOK, CallsWellFormed, AttemptsClaimed,
       Observation, SetKillSwitch
  <2> QED
    BY <2>1, <2>2, <2>3 DEF TypeInv
<1>29. ASSUME PublishPolicy PROVE TypeInv'
  <2>1. TypeOK'
    BY <1>t, <1>29, ConstantsAssumption DEF TypeInv, TypeOK, CallsWellFormed,
       PaymentStatus, ReservationStatus, ApprovalStatus, AttemptStatus, Vote,
       ChainState, SettlementRow, PublishPolicy, ConstantsAssumption
  <2>2. CallsWellFormed'
    BY <1>t, <1>29, ConstantsAssumption DEF TypeInv, TypeOK, CallsWellFormed,
       PublishPolicy, ConstantsAssumption
  <2>3. AttemptsClaimed'
    BY <1>t, <1>29, ConstantsAssumption DEF TypeInv, TypeOK, CallsWellFormed,
       AttemptsClaimed, Observation, PublishPolicy, ConstantsAssumption
  <2> QED
    BY <2>1, <2>2, <2>3 DEF TypeInv
<1>30. ASSUME UNCHANGED vars PROVE TypeInv'
  <2>1. TypeOK'
    BY <1>t, <1>30 DEF TypeInv, TypeOK, CallsWellFormed, PaymentStatus,
       ReservationStatus, ApprovalStatus, AttemptStatus, Vote, ChainState,
       SettlementRow, vars
  <2>2. CallsWellFormed'
    BY <1>t, <1>30 DEF TypeInv, TypeOK, CallsWellFormed, vars
  <2>3. AttemptsClaimed'
    BY <1>t, <1>30 DEF TypeInv, TypeOK, CallsWellFormed, AttemptsClaimed,
       Observation, vars
  <2> QED
    BY <2>1, <2>2, <2>3 DEF TypeInv
<1> QED
  BY <1>t, <1>1, <1>2, <1>3, <1>4, <1>5, <1>6, <1>7, <1>8, <1>9, <1>10, <1>11,
     <1>12, <1>13, <1>14, <1>15, <1>16, <1>17, <1>18, <1>19, <1>20, <1>21,
     <1>22, <1>23, <1>24, <1>25, <1>26, <1>27, <1>28, <1>29, <1>30 DEF Next,
     Call, Proceed

(***************************************************************************)
(* Type correctness of every reachable state.                              *)
(***************************************************************************)
THEOREM TypeInvariant == Spec => []TypeInv
BY TypeInit, TypeStep, PTL DEF Spec

(***************************************************************************)
(* The checked type invariant, for every value of the constants.           *)
(***************************************************************************)
THEOREM TypeCorrectness == Spec => []TypeOK
<1>1. TypeInv => TypeOK
  BY DEF TypeInv
<1> QED
  BY <1>1, TypeInvariant, PTL

-----------------------------------------------------------------------------
(* Layer 2: claims.                                                        *)

\* No two calls ever claimed the same intent.
OneClaim ==
    \A r, s \in Requests : Claimed(r) /\ Claimed(s) /\ on[r] = on[s] => r = s

\* A claimed intent has left every status a call may find it in.
ClaimedLeft ==
    \A r \in Requests :
        Claimed(r) => status[on[r]] \in
            {"SIGNING", "SUBMISSION_UNKNOWN", "SETTLED", "SETTLEMENT_FAILED",
             "FAILED_BEFORE_SUBMISSION", "CANCELED"}

\* While the claiming call works, its intent is SIGNING or was canceled late.
InFlight ==
    \A r \in Requests :
        Claimed(r) /\ pc[r] # "done" =>
            status[on[r]] = "SIGNING" \/ on[r] \in overtaken

ClaimInv == OneClaim /\ ClaimedLeft /\ InFlight

\* What a sweep's transaction does to the intent r attempts.
Confirmed(r) ==
    /\ status' = [status EXCEPT ![on[r]] = "SETTLED"]
    /\ reservation' = [reservation EXCEPT ![on[r]] = "SETTLED"]
    /\ attempt' = [attempt EXCEPT ![r] = "CONFIRMED"]

ReconcileEffect(k) ==
    LET r == job[k].attempt IN
    /\ r \in Requests /\ on[r] \in Intents /\ pc[r] \in AfterClaim
    /\ UNCHANGED <<approval, votes, initiator, candidate, requests, chain, overtaken>>
    /\ \/ UNCHANGED <<status, reservation, attempt, settlement>>
       \/ status[on[r]] = "SUBMISSION_UNKNOWN" /\ Confirmed(r)
       \/ status[on[r]] = "SUBMISSION_UNKNOWN"
              /\ \E to \in {"CONSUMED", "RELEASED"} : RejectSubmission(r, to)

(***************************************************************************)
(* A sweep's transaction does one of three things to one attempt.          *)
(***************************************************************************)
LEMMA ReconcileEffectLemma ==
    ASSUME TypeInv, NEW k \in Jobs, Reconcile(k)
    PROVE  ReconcileEffect(k)
<1>1. job[k].attempt \in Requests /\ pc[job[k].attempt] \in AfterClaim
  BY DEF TypeInv, TypeOK, AttemptsClaimed, Observation, Reconcile
<1>2. on[job[k].attempt] \in Intents
  BY <1>1 DEF TypeInv, CallsWellFormed
<1> QED
  BY <1>1, <1>2 DEF Reconcile, ReconcileEffect, Confirmed, RejectSubmission

(***************************************************************************)
(* Every step keeps the claim discipline: only the compare-and-set out of  *)
(* AUTHORIZED makes a claim, and nothing leads back to a status it accepts.*)
(***************************************************************************)
LEMMA ClaimStep ==
    ASSUME TypeInv, TypeInv', ClaimInv, [Next]_vars
    PROVE  ClaimInv'
<1>t. TypeInv /\ TypeInv' /\ ClaimInv
  OBVIOUS
<1>1. ASSUME NEW r \in Requests, NEW i \in Intents, NEW u \in Users \cup {None}, CreatePaidRequest(r, i, u)
      PROVE  ClaimInv'
  <2>1. OneClaim'
    BY <1>t, <1>1 DEF TypeInv, TypeOK, CallsWellFormed, AttemptsClaimed,
       ClaimInv, OneClaim, ClaimedLeft, InFlight, Claimed, CreatePaidRequest
  <2>2. ClaimedLeft'
    BY <1>t, <1>1 DEF TypeInv, TypeOK, CallsWellFormed, AttemptsClaimed,
       ClaimInv, OneClaim, ClaimedLeft, InFlight, Claimed, CreatePaidRequest
  <2>3. InFlight'
    BY <1>t, <1>1 DEF TypeInv, TypeOK, CallsWellFormed, AttemptsClaimed,
       ClaimInv, OneClaim, ClaimedLeft, InFlight, Claimed, CreatePaidRequest
  <2> QED
    BY <2>1, <2>2, <2>3 DEF ClaimInv
<1>2. ASSUME NEW r \in Requests, NEW i \in Intents, NEW u \in Users, NEW v \in {"APPROVE", "REJECT"}, Decide(r, i, u, v)
      PROVE  ClaimInv'
  <2>1. OneClaim'
    BY <1>t, <1>2 DEF TypeInv, TypeOK, CallsWellFormed, AttemptsClaimed,
       ClaimInv, OneClaim, ClaimedLeft, InFlight, Claimed, Decide, MayVote,
       ReleaseActive
  <2>2. ClaimedLeft'
    BY <1>t, <1>2 DEF TypeInv, TypeOK, CallsWellFormed, AttemptsClaimed,
       ClaimInv, OneClaim, ClaimedLeft, InFlight, Claimed, Decide, MayVote,
       ReleaseActive
  <2>3. InFlight'
    BY <1>t, <1>2 DEF TypeInv, TypeOK, CallsWellFormed, AttemptsClaimed,
       ClaimInv, OneClaim, ClaimedLeft, InFlight, Claimed, Decide, MayVote,
       ReleaseActive
  <2> QED
    BY <2>1, <2>2, <2>3 DEF ClaimInv
<1>3. ASSUME NEW r \in Requests, NEW i \in Intents, SubmitSelfCustody(r, i)
      PROVE  ClaimInv'
  <2>1. OneClaim'
    BY <1>t, <1>3 DEF TypeInv, TypeOK, CallsWellFormed, AttemptsClaimed,
       ClaimInv, OneClaim, ClaimedLeft, InFlight, Claimed, SubmitSelfCustody,
       Goto
  <2>2. ClaimedLeft'
    BY <1>t, <1>3 DEF TypeInv, TypeOK, CallsWellFormed, AttemptsClaimed,
       ClaimInv, OneClaim, ClaimedLeft, InFlight, Claimed, SubmitSelfCustody,
       Goto
  <2>3. InFlight'
    BY <1>t, <1>3 DEF TypeInv, TypeOK, CallsWellFormed, AttemptsClaimed,
       ClaimInv, OneClaim, ClaimedLeft, InFlight, Claimed, SubmitSelfCustody,
       Goto
  <2> QED
    BY <2>1, <2>2, <2>3 DEF ClaimInv
<1>4. ASSUME NEW r \in Requests, NEW i \in Intents, CancelRead(r, i)
      PROVE  ClaimInv'
  <2>1. OneClaim'
    BY <1>t, <1>4 DEF TypeInv, TypeOK, CallsWellFormed, AttemptsClaimed,
       ClaimInv, OneClaim, ClaimedLeft, InFlight, Claimed, CancelRead, Goto,
       Cancelable
  <2>2. ClaimedLeft'
    BY <1>t, <1>4 DEF TypeInv, TypeOK, CallsWellFormed, AttemptsClaimed,
       ClaimInv, OneClaim, ClaimedLeft, InFlight, Claimed, CancelRead, Goto,
       Cancelable
  <2>3. InFlight'
    BY <1>t, <1>4 DEF TypeInv, TypeOK, CallsWellFormed, AttemptsClaimed,
       ClaimInv, OneClaim, ClaimedLeft, InFlight, Claimed, CancelRead, Goto,
       Cancelable
  <2> QED
    BY <2>1, <2>2, <2>3 DEF ClaimInv
<1>5. ASSUME NEW r \in Requests, Revalidate(r)
      PROVE  ClaimInv'
  <2>1. CASE Goto(r, "read") /\ UNCHANGED <<status, reservation, on, report>>
    <3>1. OneClaim'
      BY <1>t, <1>5, <2>1 DEF TypeInv, TypeOK, CallsWellFormed, AttemptsClaimed,
         ClaimInv, OneClaim, ClaimedLeft, InFlight, Claimed, Revalidate, Goto
    <3>2. ClaimedLeft'
      BY <1>t, <1>5, <2>1 DEF TypeInv, TypeOK, CallsWellFormed, AttemptsClaimed,
         ClaimInv, OneClaim, ClaimedLeft, InFlight, Claimed, Revalidate, Goto
    <3>3. InFlight'
      BY <1>t, <1>5, <2>1 DEF TypeInv, TypeOK, CallsWellFormed, AttemptsClaimed,
         ClaimInv, OneClaim, ClaimedLeft, InFlight, Claimed, Revalidate, Goto
    <3> QED
      BY <3>1, <3>2, <3>3 DEF ClaimInv
  <2>2. CASE StillAuthorized(on[r]) /\ Return(r) /\ status' = [status EXCEPT
            ![on[r]] = "FAILED_BEFORE_SUBMISSION"] /\ ReleaseActive(on[r],
            "RELEASED")
    <3>1. OneClaim'
      BY <1>t, <1>5, <2>2 DEF TypeInv, TypeOK, CallsWellFormed, AttemptsClaimed,
         ClaimInv, OneClaim, ClaimedLeft, InFlight, Claimed, Revalidate, Return,
         ReleaseActive, StillAuthorized
    <3>2. ClaimedLeft'
      BY <1>t, <1>5, <2>2 DEF TypeInv, TypeOK, CallsWellFormed, AttemptsClaimed,
         ClaimInv, OneClaim, ClaimedLeft, InFlight, Claimed, Revalidate, Return,
         ReleaseActive, StillAuthorized
    <3>3. InFlight'
      BY <1>t, <1>5, <2>2 DEF TypeInv, TypeOK, CallsWellFormed, AttemptsClaimed,
         ClaimInv, OneClaim, ClaimedLeft, InFlight, Claimed, Revalidate, Return,
         ReleaseActive, StillAuthorized
    <3> QED
      BY <3>1, <3>2, <3>3 DEF ClaimInv
  <2>3. CASE Return(r) /\ UNCHANGED <<status, reservation>>
    <3>1. OneClaim'
      BY <1>t, <1>5, <2>3 DEF TypeInv, TypeOK, CallsWellFormed, AttemptsClaimed,
         ClaimInv, OneClaim, ClaimedLeft, InFlight, Claimed, Revalidate, Return
    <3>2. ClaimedLeft'
      BY <1>t, <1>5, <2>3 DEF TypeInv, TypeOK, CallsWellFormed, AttemptsClaimed,
         ClaimInv, OneClaim, ClaimedLeft, InFlight, Claimed, Revalidate, Return
    <3>3. InFlight'
      BY <1>t, <1>5, <2>3 DEF TypeInv, TypeOK, CallsWellFormed, AttemptsClaimed,
         ClaimInv, OneClaim, ClaimedLeft, InFlight, Claimed, Revalidate, Return
    <3> QED
      BY <3>1, <3>2, <3>3 DEF ClaimInv
  <2> QED
    BY <1>5, <2>1, <2>2, <2>3 DEF Revalidate
<1>6. ASSUME NEW r \in Requests, ReadAuthorized(r)
      PROVE  ClaimInv'
  <2>1. CASE Return(r)
    <3>1. OneClaim'
      BY <1>t, <1>6, <2>1 DEF TypeInv, TypeOK, CallsWellFormed, AttemptsClaimed,
         ClaimInv, OneClaim, ClaimedLeft, InFlight, Claimed, ReadAuthorized,
         Return
    <3>2. ClaimedLeft'
      BY <1>t, <1>6, <2>1 DEF TypeInv, TypeOK, CallsWellFormed, AttemptsClaimed,
         ClaimInv, OneClaim, ClaimedLeft, InFlight, Claimed, ReadAuthorized,
         Return
    <3>3. InFlight'
      BY <1>t, <1>6, <2>1 DEF TypeInv, TypeOK, CallsWellFormed, AttemptsClaimed,
         ClaimInv, OneClaim, ClaimedLeft, InFlight, Claimed, ReadAuthorized,
         Return
    <3> QED
      BY <3>1, <3>2, <3>3 DEF ClaimInv
  <2>2. CASE Goto(r, "refuse") /\ report' = [report EXCEPT ![r] =
            PreSignRefusal(on[r])] /\ PreSignRefusal(on[r]) # None /\ UNCHANGED
            on
    <3>1. OneClaim'
      BY <1>t, <1>6, <2>2 DEF TypeInv, TypeOK, CallsWellFormed, AttemptsClaimed,
         ClaimInv, OneClaim, ClaimedLeft, InFlight, Claimed, ReadAuthorized,
         Goto
    <3>2. ClaimedLeft'
      BY <1>t, <1>6, <2>2 DEF TypeInv, TypeOK, CallsWellFormed, AttemptsClaimed,
         ClaimInv, OneClaim, ClaimedLeft, InFlight, Claimed, ReadAuthorized,
         Goto
    <3>3. InFlight'
      BY <1>t, <1>6, <2>2 DEF TypeInv, TypeOK, CallsWellFormed, AttemptsClaimed,
         ClaimInv, OneClaim, ClaimedLeft, InFlight, Claimed, ReadAuthorized,
         Goto
    <3> QED
      BY <3>1, <3>2, <3>3 DEF ClaimInv
  <2>3. CASE Goto(r, "claim") /\ UNCHANGED <<on, report>>
    <3>1. OneClaim'
      BY <1>t, <1>6, <2>3 DEF TypeInv, TypeOK, CallsWellFormed, AttemptsClaimed,
         ClaimInv, OneClaim, ClaimedLeft, InFlight, Claimed, ReadAuthorized,
         Goto
    <3>2. ClaimedLeft'
      BY <1>t, <1>6, <2>3 DEF TypeInv, TypeOK, CallsWellFormed, AttemptsClaimed,
         ClaimInv, OneClaim, ClaimedLeft, InFlight, Claimed, ReadAuthorized,
         Goto
    <3>3. InFlight'
      BY <1>t, <1>6, <2>3 DEF TypeInv, TypeOK, CallsWellFormed, AttemptsClaimed,
         ClaimInv, OneClaim, ClaimedLeft, InFlight, Claimed, ReadAuthorized,
         Goto
    <3> QED
      BY <3>1, <3>2, <3>3 DEF ClaimInv
  <2> QED
    BY <1>6, <2>1, <2>2, <2>3 DEF ReadAuthorized
<1>7. ASSUME NEW r \in Requests, FailBeforeSigning(r)
      PROVE  ClaimInv'
  <2>1. CASE StillAuthorized(on[r]) /\ Return(r) /\ status' = [status EXCEPT
            ![on[r]] = report[r]] /\ ReleaseActive(on[r], IF report[r] =
            "EXPIRED" THEN "EXPIRED" ELSE "RELEASED")
    <3>1. OneClaim'
      BY <1>t, <1>7, <2>1 DEF TypeInv, TypeOK, CallsWellFormed, AttemptsClaimed,
         ClaimInv, OneClaim, ClaimedLeft, InFlight, Claimed, FailBeforeSigning,
         Return, ReleaseActive, StillAuthorized
    <3>2. ClaimedLeft'
      BY <1>t, <1>7, <2>1 DEF TypeInv, TypeOK, CallsWellFormed, AttemptsClaimed,
         ClaimInv, OneClaim, ClaimedLeft, InFlight, Claimed, FailBeforeSigning,
         Return, ReleaseActive, StillAuthorized
    <3>3. InFlight'
      BY <1>t, <1>7, <2>1 DEF TypeInv, TypeOK, CallsWellFormed, AttemptsClaimed,
         ClaimInv, OneClaim, ClaimedLeft, InFlight, Claimed, FailBeforeSigning,
         Return, ReleaseActive, StillAuthorized
    <3> QED
      BY <3>1, <3>2, <3>3 DEF ClaimInv
  <2>2. CASE Return(r) /\ UNCHANGED <<status, reservation>>
    <3>1. OneClaim'
      BY <1>t, <1>7, <2>2 DEF TypeInv, TypeOK, CallsWellFormed, AttemptsClaimed,
         ClaimInv, OneClaim, ClaimedLeft, InFlight, Claimed, FailBeforeSigning,
         Return
    <3>2. ClaimedLeft'
      BY <1>t, <1>7, <2>2 DEF TypeInv, TypeOK, CallsWellFormed, AttemptsClaimed,
         ClaimInv, OneClaim, ClaimedLeft, InFlight, Claimed, FailBeforeSigning,
         Return
    <3>3. InFlight'
      BY <1>t, <1>7, <2>2 DEF TypeInv, TypeOK, CallsWellFormed, AttemptsClaimed,
         ClaimInv, OneClaim, ClaimedLeft, InFlight, Claimed, FailBeforeSigning,
         Return
    <3> QED
      BY <3>1, <3>2, <3>3 DEF ClaimInv
  <2> QED
    BY <1>7, <2>1, <2>2 DEF FailBeforeSigning
<1>8. ASSUME NEW r \in Requests, Claim(r)
      PROVE  ClaimInv'
  <2>1. CASE StillAuthorized(on[r]) /\ status' = [status EXCEPT ![on[r]] =
            "SIGNING"] /\ Goto(r, "attempt") /\ UNCHANGED <<on, report>>
    <3>0. \A s \in Requests : Claimed(s) => on[s] # on[r]
      BY <1>t, <2>1 DEF ClaimInv, ClaimedLeft, StillAuthorized
    <3>4. ~Claimed(r)
      BY <1>8 DEF Claim, Claimed
    <3>5. \A s \in Requests : Claimed(s)' => Claimed(s) \/ s = r
      BY <1>t, <2>1 DEF TypeInv, TypeOK, Claimed, Goto
    <3>6. on' = on
      BY <2>1
    <3>1. OneClaim'
      BY <1>t, <3>0, <3>4, <3>5, <3>6 DEF ClaimInv, OneClaim
    <3>2. ClaimedLeft'
      BY <1>t, <1>8, <2>1 DEF TypeInv, TypeOK, CallsWellFormed, AttemptsClaimed,
         ClaimInv, OneClaim, ClaimedLeft, InFlight, Claimed, Claim, Goto,
         StillAuthorized
    <3>3. InFlight'
      BY <1>t, <1>8, <2>1 DEF TypeInv, TypeOK, CallsWellFormed, AttemptsClaimed,
         ClaimInv, OneClaim, ClaimedLeft, InFlight, Claimed, Claim, Goto,
         StillAuthorized
    <3> QED
      BY <3>1, <3>2, <3>3 DEF ClaimInv
  <2>2. CASE Return(r) /\ UNCHANGED status
    <3>1. OneClaim'
      BY <1>t, <1>8, <2>2 DEF TypeInv, TypeOK, CallsWellFormed, AttemptsClaimed,
         ClaimInv, OneClaim, ClaimedLeft, InFlight, Claimed, Claim, Return
    <3>2. ClaimedLeft'
      BY <1>t, <1>8, <2>2 DEF TypeInv, TypeOK, CallsWellFormed, AttemptsClaimed,
         ClaimInv, OneClaim, ClaimedLeft, InFlight, Claimed, Claim, Return
    <3>3. InFlight'
      BY <1>t, <1>8, <2>2 DEF TypeInv, TypeOK, CallsWellFormed, AttemptsClaimed,
         ClaimInv, OneClaim, ClaimedLeft, InFlight, Claimed, Claim, Return
    <3> QED
      BY <3>1, <3>2, <3>3 DEF ClaimInv
  <2> QED
    BY <1>8, <2>1, <2>2 DEF Claim
<1>9. ASSUME NEW r \in Requests, CreateAttempt(r)
      PROVE  ClaimInv'
  <2>1. OneClaim'
    BY <1>t, <1>9 DEF TypeInv, TypeOK, CallsWellFormed, AttemptsClaimed,
       ClaimInv, OneClaim, ClaimedLeft, InFlight, Claimed, CreateAttempt, Goto
  <2>2. ClaimedLeft'
    BY <1>t, <1>9 DEF TypeInv, TypeOK, CallsWellFormed, AttemptsClaimed,
       ClaimInv, OneClaim, ClaimedLeft, InFlight, Claimed, CreateAttempt, Goto
  <2>3. InFlight'
    BY <1>t, <1>9 DEF TypeInv, TypeOK, CallsWellFormed, AttemptsClaimed,
       ClaimInv, OneClaim, ClaimedLeft, InFlight, Claimed, CreateAttempt, Goto
  <2> QED
    BY <2>1, <2>2, <2>3 DEF ClaimInv
<1>10. ASSUME NEW r \in Requests, Sign(r)
      PROVE  ClaimInv'
  <2>1. OneClaim'
    BY <1>t, <1>10 DEF TypeInv, TypeOK, CallsWellFormed, AttemptsClaimed,
       ClaimInv, OneClaim, ClaimedLeft, InFlight, Claimed, Sign, Goto
  <2>2. ClaimedLeft'
    BY <1>t, <1>10 DEF TypeInv, TypeOK, CallsWellFormed, AttemptsClaimed,
       ClaimInv, OneClaim, ClaimedLeft, InFlight, Claimed, Sign, Goto
  <2>3. InFlight'
    BY <1>t, <1>10 DEF TypeInv, TypeOK, CallsWellFormed, AttemptsClaimed,
       ClaimInv, OneClaim, ClaimedLeft, InFlight, Claimed, Sign, Goto
  <2> QED
    BY <2>1, <2>2, <2>3 DEF ClaimInv
<1>11. ASSUME NEW r \in Requests, Send(r)
      PROVE  ClaimInv'
  <2>1. OneClaim'
    BY <1>t, <1>11 DEF TypeInv, TypeOK, CallsWellFormed, AttemptsClaimed,
       ClaimInv, OneClaim, ClaimedLeft, InFlight, Claimed, Send, Goto
  <2>2. ClaimedLeft'
    BY <1>t, <1>11 DEF TypeInv, TypeOK, CallsWellFormed, AttemptsClaimed,
       ClaimInv, OneClaim, ClaimedLeft, InFlight, Claimed, Send, Goto
  <2>3. InFlight'
    BY <1>t, <1>11 DEF TypeInv, TypeOK, CallsWellFormed, AttemptsClaimed,
       ClaimInv, OneClaim, ClaimedLeft, InFlight, Claimed, Send, Goto
  <2> QED
    BY <2>1, <2>2, <2>3 DEF ClaimInv
<1>12. ASSUME NEW r \in Requests, Fulfilled(r)
      PROVE  ClaimInv'
  <2>1. OneClaim'
    BY <1>t, <1>12 DEF TypeInv, TypeOK, CallsWellFormed, AttemptsClaimed,
       ClaimInv, OneClaim, ClaimedLeft, InFlight, Claimed, Fulfilled, Goto,
       Reportable
  <2>2. ClaimedLeft'
    BY <1>t, <1>12 DEF TypeInv, TypeOK, CallsWellFormed, AttemptsClaimed,
       ClaimInv, OneClaim, ClaimedLeft, InFlight, Claimed, Fulfilled, Goto,
       Reportable
  <2>3. InFlight'
    BY <1>t, <1>12 DEF TypeInv, TypeOK, CallsWellFormed, AttemptsClaimed,
       ClaimInv, OneClaim, ClaimedLeft, InFlight, Claimed, Fulfilled, Goto,
       Reportable
  <2> QED
    BY <2>1, <2>2, <2>3 DEF ClaimInv
<1>13. ASSUME NEW r \in Requests, SubmissionUnknown(r)
      PROVE  ClaimInv'
  <2>1. OneClaim'
    BY <1>t, <1>13 DEF TypeInv, TypeOK, CallsWellFormed, AttemptsClaimed,
       ClaimInv, OneClaim, ClaimedLeft, InFlight, Claimed, SubmissionUnknown,
       Goto, Reportable
  <2>2. ClaimedLeft'
    BY <1>t, <1>13 DEF TypeInv, TypeOK, CallsWellFormed, AttemptsClaimed,
       ClaimInv, OneClaim, ClaimedLeft, InFlight, Claimed, SubmissionUnknown,
       Goto, Reportable
  <2>3. InFlight'
    BY <1>t, <1>13 DEF TypeInv, TypeOK, CallsWellFormed, AttemptsClaimed,
       ClaimInv, OneClaim, ClaimedLeft, InFlight, Claimed, SubmissionUnknown,
       Goto, Reportable
  <2> QED
    BY <2>1, <2>2, <2>3 DEF ClaimInv
<1>14. ASSUME NEW r \in Requests, ResourceRefuses(r)
      PROVE  ClaimInv'
  <2>1. OneClaim'
    BY <1>t, <1>14 DEF TypeInv, TypeOK, CallsWellFormed, AttemptsClaimed,
       ClaimInv, OneClaim, ClaimedLeft, InFlight, Claimed, ResourceRefuses, Goto
  <2>2. ClaimedLeft'
    BY <1>t, <1>14 DEF TypeInv, TypeOK, CallsWellFormed, AttemptsClaimed,
       ClaimInv, OneClaim, ClaimedLeft, InFlight, Claimed, ResourceRefuses, Goto
  <2>3. InFlight'
    BY <1>t, <1>14 DEF TypeInv, TypeOK, CallsWellFormed, AttemptsClaimed,
       ClaimInv, OneClaim, ClaimedLeft, InFlight, Claimed, ResourceRefuses, Goto
  <2> QED
    BY <2>1, <2>2, <2>3 DEF ClaimInv
<1>15. ASSUME NEW r \in Requests, RecordSubmitted(r)
      PROVE  ClaimInv'
  <2>1. OneClaim'
    BY <1>t, <1>15 DEF TypeInv, TypeOK, CallsWellFormed, AttemptsClaimed,
       ClaimInv, OneClaim, ClaimedLeft, InFlight, Claimed, RecordSubmitted, Goto
  <2>2. ClaimedLeft'
    BY <1>t, <1>15 DEF TypeInv, TypeOK, CallsWellFormed, AttemptsClaimed,
       ClaimInv, OneClaim, ClaimedLeft, InFlight, Claimed, RecordSubmitted, Goto
  <2>3. InFlight'
    BY <1>t, <1>15 DEF TypeInv, TypeOK, CallsWellFormed, AttemptsClaimed,
       ClaimInv, OneClaim, ClaimedLeft, InFlight, Claimed, RecordSubmitted, Goto
  <2> QED
    BY <2>1, <2>2, <2>3 DEF ClaimInv
<1>16. ASSUME NEW r \in Requests, CommitSettlement(r)
      PROVE  ClaimInv'
  <2>1. OneClaim'
    BY <1>t, <1>16 DEF TypeInv, TypeOK, CallsWellFormed, AttemptsClaimed,
       ClaimInv, OneClaim, ClaimedLeft, InFlight, Claimed, CommitSettlement,
       Goto
  <2>2. ClaimedLeft'
    BY <1>t, <1>16 DEF TypeInv, TypeOK, CallsWellFormed, AttemptsClaimed,
       ClaimInv, OneClaim, ClaimedLeft, InFlight, Claimed, CommitSettlement,
       Goto
  <2>3. InFlight'
    BY <1>t, <1>16 DEF TypeInv, TypeOK, CallsWellFormed, AttemptsClaimed,
       ClaimInv, OneClaim, ClaimedLeft, InFlight, Claimed, CommitSettlement,
       Goto
  <2> QED
    BY <2>1, <2>2, <2>3 DEF ClaimInv
<1>17. ASSUME NEW r \in Requests, AbortSettlement(r)
      PROVE  ClaimInv'
  <2>1. OneClaim'
    BY <1>t, <1>17 DEF TypeInv, TypeOK, CallsWellFormed, AttemptsClaimed,
       ClaimInv, OneClaim, ClaimedLeft, InFlight, Claimed, AbortSettlement, Goto
  <2>2. ClaimedLeft'
    BY <1>t, <1>17 DEF TypeInv, TypeOK, CallsWellFormed, AttemptsClaimed,
       ClaimInv, OneClaim, ClaimedLeft, InFlight, Claimed, AbortSettlement, Goto
  <2>3. InFlight'
    BY <1>t, <1>17 DEF TypeInv, TypeOK, CallsWellFormed, AttemptsClaimed,
       ClaimInv, OneClaim, ClaimedLeft, InFlight, Claimed, AbortSettlement, Goto
  <2> QED
    BY <2>1, <2>2, <2>3 DEF ClaimInv
<1>18. ASSUME NEW r \in Requests, MarkSubmissionUnknown(r)
      PROVE  ClaimInv'
  <2>1. OneClaim'
    BY <1>t, <1>18 DEF TypeInv, TypeOK, CallsWellFormed, AttemptsClaimed,
       ClaimInv, OneClaim, ClaimedLeft, InFlight, Claimed,
       MarkSubmissionUnknown, Goto
  <2>2. ClaimedLeft'
    BY <1>t, <1>18 DEF TypeInv, TypeOK, CallsWellFormed, AttemptsClaimed,
       ClaimInv, OneClaim, ClaimedLeft, InFlight, Claimed,
       MarkSubmissionUnknown, Goto
  <2>3. InFlight'
    BY <1>t, <1>18 DEF TypeInv, TypeOK, CallsWellFormed, AttemptsClaimed,
       ClaimInv, OneClaim, ClaimedLeft, InFlight, Claimed,
       MarkSubmissionUnknown, Goto
  <2> QED
    BY <2>1, <2>2, <2>3 DEF ClaimInv
<1>19. ASSUME NEW r \in Requests, FailAttempt(r)
      PROVE  ClaimInv'
  <2>1. OneClaim'
    BY <1>t, <1>19 DEF TypeInv, TypeOK, CallsWellFormed, AttemptsClaimed,
       ClaimInv, OneClaim, ClaimedLeft, InFlight, Claimed, FailAttempt, Goto,
       ReleaseActive
  <2>2. ClaimedLeft'
    BY <1>t, <1>19 DEF TypeInv, TypeOK, CallsWellFormed, AttemptsClaimed,
       ClaimInv, OneClaim, ClaimedLeft, InFlight, Claimed, FailAttempt, Goto,
       ReleaseActive
  <2>3. InFlight'
    BY <1>t, <1>19 DEF TypeInv, TypeOK, CallsWellFormed, AttemptsClaimed,
       ClaimInv, OneClaim, ClaimedLeft, InFlight, Claimed, FailAttempt, Goto,
       ReleaseActive
  <2> QED
    BY <2>1, <2>2, <2>3 DEF ClaimInv
<1>20. ASSUME NEW r \in Requests, CancelWrite(r)
      PROVE  ClaimInv'
  <2>1. OneClaim'
    BY <1>t, <1>20 DEF TypeInv, TypeOK, CallsWellFormed, AttemptsClaimed,
       ClaimInv, OneClaim, ClaimedLeft, InFlight, Claimed, CancelWrite, Return,
       ReleaseActive, Cancelable
  <2>2. ClaimedLeft'
    BY <1>t, <1>20 DEF TypeInv, TypeOK, CallsWellFormed, AttemptsClaimed,
       ClaimInv, OneClaim, ClaimedLeft, InFlight, Claimed, CancelWrite, Return,
       ReleaseActive, Cancelable
  <2>3. InFlight'
    BY <1>t, <1>20 DEF TypeInv, TypeOK, CallsWellFormed, AttemptsClaimed,
       ClaimInv, OneClaim, ClaimedLeft, InFlight, Claimed, CancelWrite, Return,
       ReleaseActive, Cancelable
  <2> QED
    BY <2>1, <2>2, <2>3 DEF ClaimInv
<1>21. ASSUME NEW r \in Requests, Crash(r)
      PROVE  ClaimInv'
  <2>1. CASE pc[r] \in BeforeClaim /\ Return(r)
    <3>1. OneClaim'
      BY <1>t, <1>21, <2>1 DEF TypeInv, TypeOK, CallsWellFormed,
         AttemptsClaimed, ClaimInv, OneClaim, ClaimedLeft, InFlight, Claimed,
         Crash, Return
    <3>2. ClaimedLeft'
      BY <1>t, <1>21, <2>1 DEF TypeInv, TypeOK, CallsWellFormed,
         AttemptsClaimed, ClaimInv, OneClaim, ClaimedLeft, InFlight, Claimed,
         Crash, Return
    <3>3. InFlight'
      BY <1>t, <1>21, <2>1 DEF TypeInv, TypeOK, CallsWellFormed,
         AttemptsClaimed, ClaimInv, OneClaim, ClaimedLeft, InFlight, Claimed,
         Crash, Return
    <3> QED
      BY <3>1, <3>2, <3>3 DEF ClaimInv
  <2>2. CASE pc[r] \notin BeforeClaim /\ Goto(r, "done") /\ UNCHANGED <<on,
            report>>
    <3>1. OneClaim'
      BY <1>t, <1>21, <2>2 DEF TypeInv, TypeOK, CallsWellFormed,
         AttemptsClaimed, ClaimInv, OneClaim, ClaimedLeft, InFlight, Claimed,
         Crash, Goto
    <3>2. ClaimedLeft'
      BY <1>t, <1>21, <2>2 DEF TypeInv, TypeOK, CallsWellFormed,
         AttemptsClaimed, ClaimInv, OneClaim, ClaimedLeft, InFlight, Claimed,
         Crash, Goto
    <3>3. InFlight'
      BY <1>t, <1>21, <2>2 DEF TypeInv, TypeOK, CallsWellFormed,
         AttemptsClaimed, ClaimInv, OneClaim, ClaimedLeft, InFlight, Claimed,
         Crash, Goto
    <3> QED
      BY <3>1, <3>2, <3>3 DEF ClaimInv
  <2> QED
    BY <1>21, <2>1, <2>2 DEF Crash
<1>22. ASSUME NEW r \in Requests, ChainDecides(r)
      PROVE  ClaimInv'
  <2>1. OneClaim'
    BY <1>t, <1>22 DEF TypeInv, TypeOK, CallsWellFormed, AttemptsClaimed,
       ClaimInv, OneClaim, ClaimedLeft, InFlight, Claimed, ChainDecides
  <2>2. ClaimedLeft'
    BY <1>t, <1>22 DEF TypeInv, TypeOK, CallsWellFormed, AttemptsClaimed,
       ClaimInv, OneClaim, ClaimedLeft, InFlight, Claimed, ChainDecides
  <2>3. InFlight'
    BY <1>t, <1>22 DEF TypeInv, TypeOK, CallsWellFormed, AttemptsClaimed,
       ClaimInv, OneClaim, ClaimedLeft, InFlight, Claimed, ChainDecides
  <2> QED
    BY <2>1, <2>2, <2>3 DEF ClaimInv
<1>23. ASSUME NEW i \in Intents, ExpireIntent(i)
      PROVE  ClaimInv'
  <2>1. OneClaim'
    BY <1>t, <1>23 DEF TypeInv, TypeOK, CallsWellFormed, AttemptsClaimed,
       ClaimInv, OneClaim, ClaimedLeft, InFlight, Claimed, ExpireIntent,
       ReleaseActive, Expirable
  <2>2. ClaimedLeft'
    BY <1>t, <1>23 DEF TypeInv, TypeOK, CallsWellFormed, AttemptsClaimed,
       ClaimInv, OneClaim, ClaimedLeft, InFlight, Claimed, ExpireIntent,
       ReleaseActive, Expirable
  <2>3. InFlight'
    BY <1>t, <1>23 DEF TypeInv, TypeOK, CallsWellFormed, AttemptsClaimed,
       ClaimInv, OneClaim, ClaimedLeft, InFlight, Claimed, ExpireIntent,
       ReleaseActive, Expirable
  <2> QED
    BY <2>1, <2>2, <2>3 DEF ClaimInv
<1>24. ASSUME NEW i \in Intents, OpenIncident(i)
      PROVE  ClaimInv'
  <2>1. OneClaim'
    BY <1>t, <1>24 DEF TypeInv, TypeOK, CallsWellFormed, AttemptsClaimed,
       ClaimInv, OneClaim, ClaimedLeft, InFlight, Claimed, OpenIncident
  <2>2. ClaimedLeft'
    BY <1>t, <1>24 DEF TypeInv, TypeOK, CallsWellFormed, AttemptsClaimed,
       ClaimInv, OneClaim, ClaimedLeft, InFlight, Claimed, OpenIncident
  <2>3. InFlight'
    BY <1>t, <1>24 DEF TypeInv, TypeOK, CallsWellFormed, AttemptsClaimed,
       ClaimInv, OneClaim, ClaimedLeft, InFlight, Claimed, OpenIncident
  <2> QED
    BY <2>1, <2>2, <2>3 DEF ClaimInv
<1>25. ASSUME NEW i \in Intents, Elapse(i)
      PROVE  ClaimInv'
  <2>1. OneClaim'
    BY <1>t, <1>25 DEF TypeInv, TypeOK, CallsWellFormed, AttemptsClaimed,
       ClaimInv, OneClaim, ClaimedLeft, InFlight, Claimed, Elapse
  <2>2. ClaimedLeft'
    BY <1>t, <1>25 DEF TypeInv, TypeOK, CallsWellFormed, AttemptsClaimed,
       ClaimInv, OneClaim, ClaimedLeft, InFlight, Claimed, Elapse
  <2>3. InFlight'
    BY <1>t, <1>25 DEF TypeInv, TypeOK, CallsWellFormed, AttemptsClaimed,
       ClaimInv, OneClaim, ClaimedLeft, InFlight, Claimed, Elapse
  <2> QED
    BY <2>1, <2>2, <2>3 DEF ClaimInv
<1>26. ASSUME NEW k \in Jobs, Reconcile(k)
      PROVE  ClaimInv'
  <2> DEFINE i == on[job[k].attempt]
  <2>1. /\ UNCHANGED <<on, pc, overtaken>> /\ i \in Intents
        /\ \/ UNCHANGED status
           \/ /\ status[i] = "SUBMISSION_UNKNOWN"
              /\ \E s \in {"SETTLED", "SETTLEMENT_FAILED"} : status' = [status EXCEPT ![i] = s]
    BY <1>t, <1>26, ReconcileEffectLemma DEF ReconcileEffect, Confirmed, RejectSubmission
  <2>2. OneClaim'
    BY <1>t, <2>1 DEF ClaimInv, OneClaim, Claimed
  <2>3. ClaimedLeft'
    BY <1>t, <2>1 DEF TypeInv, TypeOK, CallsWellFormed, ClaimInv, ClaimedLeft, Claimed
  <2>4. InFlight'
    BY <1>t, <2>1 DEF TypeInv, TypeOK, CallsWellFormed, ClaimInv, InFlight, Claimed
  <2> QED
    BY <2>2, <2>3, <2>4 DEF ClaimInv
<1>27. ASSUME NEW k \in Jobs, NEW r \in Requests, Observe(k, r)
      PROVE  ClaimInv'
  <2>1. OneClaim'
    BY <1>t, <1>27 DEF TypeInv, TypeOK, CallsWellFormed, AttemptsClaimed,
       ClaimInv, OneClaim, ClaimedLeft, InFlight, Claimed, Observe,
       ReconciliationOutcome, Reconcilable, Observation, Outcome
  <2>2. ClaimedLeft'
    BY <1>t, <1>27 DEF TypeInv, TypeOK, CallsWellFormed, AttemptsClaimed,
       ClaimInv, OneClaim, ClaimedLeft, InFlight, Claimed, Observe,
       ReconciliationOutcome, Reconcilable, Observation, Outcome
  <2>3. InFlight'
    BY <1>t, <1>27 DEF TypeInv, TypeOK, CallsWellFormed, AttemptsClaimed,
       ClaimInv, OneClaim, ClaimedLeft, InFlight, Claimed, Observe,
       ReconciliationOutcome, Reconcilable, Observation, Outcome
  <2> QED
    BY <2>1, <2>2, <2>3 DEF ClaimInv
<1>28. ASSUME SetKillSwitch PROVE ClaimInv'
  <2>1. OneClaim'
    BY <1>t, <1>28 DEF TypeInv, TypeOK, CallsWellFormed, AttemptsClaimed,
       ClaimInv, OneClaim, ClaimedLeft, InFlight, Claimed, SetKillSwitch
  <2>2. ClaimedLeft'
    BY <1>t, <1>28 DEF TypeInv, TypeOK, CallsWellFormed, AttemptsClaimed,
       ClaimInv, OneClaim, ClaimedLeft, InFlight, Claimed, SetKillSwitch
  <2>3. InFlight'
    BY <1>t, <1>28 DEF TypeInv, TypeOK, CallsWellFormed, AttemptsClaimed,
       ClaimInv, OneClaim, ClaimedLeft, InFlight, Claimed, SetKillSwitch
  <2> QED
    BY <2>1, <2>2, <2>3 DEF ClaimInv
<1>29. ASSUME PublishPolicy PROVE ClaimInv'
  <2>1. OneClaim'
    BY <1>t, <1>29 DEF TypeInv, TypeOK, CallsWellFormed, AttemptsClaimed,
       ClaimInv, OneClaim, ClaimedLeft, InFlight, Claimed, PublishPolicy
  <2>2. ClaimedLeft'
    BY <1>t, <1>29 DEF TypeInv, TypeOK, CallsWellFormed, AttemptsClaimed,
       ClaimInv, OneClaim, ClaimedLeft, InFlight, Claimed, PublishPolicy
  <2>3. InFlight'
    BY <1>t, <1>29 DEF TypeInv, TypeOK, CallsWellFormed, AttemptsClaimed,
       ClaimInv, OneClaim, ClaimedLeft, InFlight, Claimed, PublishPolicy
  <2> QED
    BY <2>1, <2>2, <2>3 DEF ClaimInv
<1>30. ASSUME UNCHANGED vars PROVE ClaimInv'
  <2>1. OneClaim'
    BY <1>t, <1>30 DEF TypeInv, TypeOK, CallsWellFormed, AttemptsClaimed,
       ClaimInv, OneClaim, ClaimedLeft, InFlight, Claimed, vars
  <2>2. ClaimedLeft'
    BY <1>t, <1>30 DEF TypeInv, TypeOK, CallsWellFormed, AttemptsClaimed,
       ClaimInv, OneClaim, ClaimedLeft, InFlight, Claimed, vars
  <2>3. InFlight'
    BY <1>t, <1>30 DEF TypeInv, TypeOK, CallsWellFormed, AttemptsClaimed,
       ClaimInv, OneClaim, ClaimedLeft, InFlight, Claimed, vars
  <2> QED
    BY <2>1, <2>2, <2>3 DEF ClaimInv
<1> QED
  BY <1>1, <1>2, <1>3, <1>4, <1>5, <1>6, <1>7, <1>8, <1>9, <1>10, <1>11, <1>12, <1>13, <1>14, <1>15, <1>16, <1>17, <1>18, <1>19, <1>20, <1>21, <1>22, <1>23, <1>24, <1>25, <1>26, <1>27, <1>28, <1>29, <1>30 DEF Next, Call, Proceed

(***************************************************************************)
(* The claim discipline holds in every reachable state.                    *)
(***************************************************************************)
THEOREM ClaimInvariant == Spec => []ClaimInv
<1>1. Init => ClaimInv
  BY DEF Init, ClaimInv, OneClaim, ClaimedLeft, InFlight, Claimed
<1>2. TypeInv /\ TypeInv' /\ ClaimInv /\ [Next]_vars => ClaimInv'
  BY ClaimStep
<1> QED
  BY <1>1, <1>2, TypeInvariant, PTL DEF Spec

(***************************************************************************)
(* No intent is ever paid twice: a payload that left belongs to a claim, and*)
(* two claims of one intent are the same call.                             *)
(***************************************************************************)
THEOREM PaidOnce == Spec => []NoDoublePayment
<1>1. TypeInv /\ ClaimInv => NoDoublePayment
  BY DEF TypeInv, AttemptsClaimed, ClaimInv, OneClaim, Claimed, NoDoublePayment
<1> QED
  BY <1>1, TypeInvariant, ClaimInvariant, PTL

(***************************************************************************)
(* A denied, rejected or expired intent was never claimed.                 *)
(***************************************************************************)
THEOREM RefusalsPrecedeClaims == Spec => []RefusedNeverClaimed
<1>1. ClaimInv => RefusedNeverClaimed
  BY DEF ClaimInv, ClaimedLeft, RefusedNeverClaimed
<1> QED
  BY <1>1, ClaimInvariant, PTL

-----------------------------------------------------------------------------
(* Layer 3: the ledger.                                                    *)

(***************************************************************************)
(* Every step keeps the intent and its reservation in agreement.  InFlight *)
(* is what the writes after the claim need: they find the intent SIGNING,  *)
(* hence its reservation ACTIVE.                                           *)
(***************************************************************************)
LEMMA LedgerStep ==
    ASSUME TypeInv, TypeInv', ClaimInv, LedgerAgrees, [Next]_vars
    PROVE  LedgerAgrees'
<1>t. TypeInv /\ TypeInv' /\ ClaimInv /\ LedgerAgrees
  OBVIOUS
<1>1. ASSUME NEW r \in Requests, NEW i \in Intents, NEW u \in Users \cup {None}, CreatePaidRequest(r, i, u)
      PROVE  LedgerAgrees'
  <2> DEFINE outcome == EvaluatePolicy(Facts(i), Policy)
  <2>0. outcome \in {"ALLOW", "DENY", "REQUIRE_APPROVAL"}
    BY OutcomeType, ConstantsAssumption DEF ConstantsAssumption, PolicyOutcome
  <2>1. \/ /\ status' = [status EXCEPT ![i] = "DENIED"]
           /\ reservation' = [reservation EXCEPT ![i] = "none"]
        \/ /\ \E s \in {"AUTHORIZED", "APPROVAL_PENDING"} : status' = [status EXCEPT ![i] = s]
           /\ reservation' = [reservation EXCEPT ![i] = "ACTIVE"]
    <3> HIDE DEF outcome
    <3>1. CASE outcome = "ALLOW"
      <4>1. status' = [status EXCEPT ![i] = "AUTHORIZED"]
        BY <1>1, <3>1 DEF CreatePaidRequest, outcome
      <4>2. reservation' = [reservation EXCEPT ![i] = "ACTIVE"]
        BY <1>1, <3>1 DEF CreatePaidRequest, outcome
      <4> QED
        BY <4>1, <4>2
    <3>2. CASE outcome = "DENY"
      <4>1. status' = [status EXCEPT ![i] = "DENIED"]
        BY <1>1, <3>2 DEF CreatePaidRequest, outcome
      <4>2. reservation' = [reservation EXCEPT ![i] = "none"]
        BY <1>1, <3>2 DEF CreatePaidRequest, outcome
      <4> QED
        BY <4>1, <4>2
    <3>3. CASE outcome = "REQUIRE_APPROVAL"
      <4>1. status' = [status EXCEPT ![i] = "APPROVAL_PENDING"]
        BY <1>1, <3>3 DEF CreatePaidRequest, outcome
      <4>2. reservation' = [reservation EXCEPT ![i] = "ACTIVE"]
        BY <1>1, <3>3 DEF CreatePaidRequest, outcome
      <4> QED
        BY <4>1, <4>2
    <3> QED
      BY <2>0, <3>1, <3>2, <3>3
  <2>2. overtaken' = overtaken
    BY <1>1 DEF CreatePaidRequest
  <2>3. \E s \in {"DENIED", "AUTHORIZED", "APPROVAL_PENDING"}, v \in {"none", "ACTIVE"} :
            /\ status' = [status EXCEPT ![i] = s] /\ reservation' = [reservation EXCEPT ![i] = v]
            /\ v = "none" <=> s = "DENIED"
    BY <2>1
  <2>4. PICK s \in {"DENIED", "AUTHORIZED", "APPROVAL_PENDING"}, v \in {"none", "ACTIVE"} :
            /\ status' = [status EXCEPT ![i] = s] /\ reservation' = [reservation EXCEPT ![i] = v]
            /\ v = "none" <=> s = "DENIED"
    BY <2>3
  <2>5. /\ status'[i] = s /\ reservation'[i] = v
        /\ \A j \in Intents \ {i} : status'[j] = status[j] /\ reservation'[j] = reservation[j]
    BY <1>t, <2>4 DEF TypeInv, TypeOK
  <2> QED
    BY <1>t, <2>2, <2>4, <2>5 DEF LedgerAgrees, Spent
<1>2. ASSUME NEW r \in Requests, NEW i \in Intents, NEW u \in Users, NEW v \in {"APPROVE", "REJECT"}, Decide(r, i, u, v)
      PROVE  LedgerAgrees'
  BY <1>t, <1>2 DEF TypeInv, TypeOK, CallsWellFormed, AttemptsClaimed, ClaimInv,
     ClaimedLeft, InFlight, Claimed, LedgerAgrees, Spent, Cancelable, Expirable,
     StillAuthorized, Decide, MayVote, ReleaseActive
<1>3. ASSUME NEW r \in Requests, NEW i \in Intents, SubmitSelfCustody(r, i)
      PROVE  LedgerAgrees'
  BY <1>t, <1>3 DEF TypeInv, TypeOK, CallsWellFormed, AttemptsClaimed, ClaimInv,
     ClaimedLeft, InFlight, Claimed, LedgerAgrees, Spent, Cancelable, Expirable,
     StillAuthorized, SubmitSelfCustody, Goto
<1>4. ASSUME NEW r \in Requests, NEW i \in Intents, CancelRead(r, i)
      PROVE  LedgerAgrees'
  BY <1>t, <1>4 DEF TypeInv, TypeOK, CallsWellFormed, AttemptsClaimed, ClaimInv,
     ClaimedLeft, InFlight, Claimed, LedgerAgrees, Spent, Cancelable, Expirable,
     StillAuthorized, CancelRead, Goto
<1>5. ASSUME NEW r \in Requests, Revalidate(r)
      PROVE  LedgerAgrees'
  <2>1. CASE Goto(r, "read") /\ UNCHANGED <<status, reservation, on, report>>
    BY <1>t, <1>5, <2>1 DEF TypeInv, TypeOK, CallsWellFormed, AttemptsClaimed,
       ClaimInv, ClaimedLeft, InFlight, Claimed, LedgerAgrees, Spent,
       Cancelable, Expirable, StillAuthorized, Revalidate, Goto
  <2>2. CASE StillAuthorized(on[r]) /\ Return(r) /\ status' = [status EXCEPT
            ![on[r]] = "FAILED_BEFORE_SUBMISSION"] /\ ReleaseActive(on[r],
            "RELEASED")
    BY <1>t, <1>5, <2>2 DEF TypeInv, TypeOK, CallsWellFormed, AttemptsClaimed,
       ClaimInv, ClaimedLeft, InFlight, Claimed, LedgerAgrees, Spent,
       Cancelable, Expirable, StillAuthorized, Revalidate, Return, ReleaseActive
  <2>3. CASE Return(r) /\ UNCHANGED <<status, reservation>>
    BY <1>t, <1>5, <2>3 DEF TypeInv, TypeOK, CallsWellFormed, AttemptsClaimed,
       ClaimInv, ClaimedLeft, InFlight, Claimed, LedgerAgrees, Spent,
       Cancelable, Expirable, StillAuthorized, Revalidate, Return
  <2> QED
    BY <1>5, <2>1, <2>2, <2>3 DEF Revalidate
<1>6. ASSUME NEW r \in Requests, ReadAuthorized(r)
      PROVE  LedgerAgrees'
  <2>1. CASE Return(r)
    BY <1>t, <1>6, <2>1 DEF TypeInv, TypeOK, CallsWellFormed, AttemptsClaimed,
       ClaimInv, ClaimedLeft, InFlight, Claimed, LedgerAgrees, Spent,
       Cancelable, Expirable, StillAuthorized, ReadAuthorized, Return
  <2>2. CASE Goto(r, "refuse") /\ report' = [report EXCEPT ![r] =
            PreSignRefusal(on[r])] /\ PreSignRefusal(on[r]) # None /\ UNCHANGED
            on
    BY <1>t, <1>6, <2>2 DEF TypeInv, TypeOK, CallsWellFormed, AttemptsClaimed,
       ClaimInv, ClaimedLeft, InFlight, Claimed, LedgerAgrees, Spent,
       Cancelable, Expirable, StillAuthorized, ReadAuthorized, Goto
  <2>3. CASE Goto(r, "claim") /\ UNCHANGED <<on, report>>
    BY <1>t, <1>6, <2>3 DEF TypeInv, TypeOK, CallsWellFormed, AttemptsClaimed,
       ClaimInv, ClaimedLeft, InFlight, Claimed, LedgerAgrees, Spent,
       Cancelable, Expirable, StillAuthorized, ReadAuthorized, Goto
  <2> QED
    BY <1>6, <2>1, <2>2, <2>3 DEF ReadAuthorized
<1>7. ASSUME NEW r \in Requests, FailBeforeSigning(r)
      PROVE  LedgerAgrees'
  <2>1. CASE StillAuthorized(on[r]) /\ Return(r) /\ status' = [status EXCEPT
            ![on[r]] = report[r]] /\ ReleaseActive(on[r], IF report[r] =
            "EXPIRED" THEN "EXPIRED" ELSE "RELEASED")
    BY <1>t, <1>7, <2>1 DEF TypeInv, TypeOK, CallsWellFormed, AttemptsClaimed,
       ClaimInv, ClaimedLeft, InFlight, Claimed, LedgerAgrees, Spent,
       Cancelable, Expirable, StillAuthorized, FailBeforeSigning, Return,
       ReleaseActive
  <2>2. CASE Return(r) /\ UNCHANGED <<status, reservation>>
    BY <1>t, <1>7, <2>2 DEF TypeInv, TypeOK, CallsWellFormed, AttemptsClaimed,
       ClaimInv, ClaimedLeft, InFlight, Claimed, LedgerAgrees, Spent,
       Cancelable, Expirable, StillAuthorized, FailBeforeSigning, Return
  <2> QED
    BY <1>7, <2>1, <2>2 DEF FailBeforeSigning
<1>8. ASSUME NEW r \in Requests, Claim(r)
      PROVE  LedgerAgrees'
  <2>1. CASE StillAuthorized(on[r]) /\ status' = [status EXCEPT ![on[r]] =
            "SIGNING"] /\ Goto(r, "attempt") /\ UNCHANGED <<on, report>>
    BY <1>t, <1>8, <2>1 DEF TypeInv, TypeOK, CallsWellFormed, AttemptsClaimed,
       ClaimInv, ClaimedLeft, InFlight, Claimed, LedgerAgrees, Spent,
       Cancelable, Expirable, StillAuthorized, Claim, Goto
  <2>2. CASE Return(r) /\ UNCHANGED status
    BY <1>t, <1>8, <2>2 DEF TypeInv, TypeOK, CallsWellFormed, AttemptsClaimed,
       ClaimInv, ClaimedLeft, InFlight, Claimed, LedgerAgrees, Spent,
       Cancelable, Expirable, StillAuthorized, Claim, Return
  <2> QED
    BY <1>8, <2>1, <2>2 DEF Claim
<1>9. ASSUME NEW r \in Requests, CreateAttempt(r)
      PROVE  LedgerAgrees'
  BY <1>t, <1>9 DEF TypeInv, TypeOK, CallsWellFormed, AttemptsClaimed, ClaimInv,
     ClaimedLeft, InFlight, Claimed, LedgerAgrees, Spent, Cancelable, Expirable,
     StillAuthorized, CreateAttempt, Goto
<1>10. ASSUME NEW r \in Requests, Sign(r)
      PROVE  LedgerAgrees'
  BY <1>t, <1>10 DEF TypeInv, TypeOK, CallsWellFormed, AttemptsClaimed,
     ClaimInv, ClaimedLeft, InFlight, Claimed, LedgerAgrees, Spent, Cancelable,
     Expirable, StillAuthorized, Sign, Goto
<1>11. ASSUME NEW r \in Requests, Send(r)
      PROVE  LedgerAgrees'
  BY <1>t, <1>11 DEF TypeInv, TypeOK, CallsWellFormed, AttemptsClaimed,
     ClaimInv, ClaimedLeft, InFlight, Claimed, LedgerAgrees, Spent, Cancelable,
     Expirable, StillAuthorized, Send, Goto
<1>12. ASSUME NEW r \in Requests, Fulfilled(r)
      PROVE  LedgerAgrees'
  BY <1>t, <1>12 DEF TypeInv, TypeOK, CallsWellFormed, AttemptsClaimed,
     ClaimInv, ClaimedLeft, InFlight, Claimed, LedgerAgrees, Spent, Cancelable,
     Expirable, StillAuthorized, Fulfilled, Goto, Reportable
<1>13. ASSUME NEW r \in Requests, SubmissionUnknown(r)
      PROVE  LedgerAgrees'
  BY <1>t, <1>13 DEF TypeInv, TypeOK, CallsWellFormed, AttemptsClaimed,
     ClaimInv, ClaimedLeft, InFlight, Claimed, LedgerAgrees, Spent, Cancelable,
     Expirable, StillAuthorized, SubmissionUnknown, Goto, Reportable
<1>14. ASSUME NEW r \in Requests, ResourceRefuses(r)
      PROVE  LedgerAgrees'
  BY <1>t, <1>14 DEF TypeInv, TypeOK, CallsWellFormed, AttemptsClaimed,
     ClaimInv, ClaimedLeft, InFlight, Claimed, LedgerAgrees, Spent, Cancelable,
     Expirable, StillAuthorized, ResourceRefuses, Goto
<1>15. ASSUME NEW r \in Requests, RecordSubmitted(r)
      PROVE  LedgerAgrees'
  BY <1>t, <1>15 DEF TypeInv, TypeOK, CallsWellFormed, AttemptsClaimed,
     ClaimInv, ClaimedLeft, InFlight, Claimed, LedgerAgrees, Spent, Cancelable,
     Expirable, StillAuthorized, RecordSubmitted, Goto
<1>16. ASSUME NEW r \in Requests, CommitSettlement(r)
      PROVE  LedgerAgrees'
  BY <1>t, <1>16 DEF TypeInv, TypeOK, CallsWellFormed, AttemptsClaimed,
     ClaimInv, ClaimedLeft, InFlight, Claimed, LedgerAgrees, Spent, Cancelable,
     Expirable, StillAuthorized, CommitSettlement, Goto
<1>17. ASSUME NEW r \in Requests, AbortSettlement(r)
      PROVE  LedgerAgrees'
  BY <1>t, <1>17 DEF TypeInv, TypeOK, CallsWellFormed, AttemptsClaimed,
     ClaimInv, ClaimedLeft, InFlight, Claimed, LedgerAgrees, Spent, Cancelable,
     Expirable, StillAuthorized, AbortSettlement, Goto
<1>18. ASSUME NEW r \in Requests, MarkSubmissionUnknown(r)
      PROVE  LedgerAgrees'
  BY <1>t, <1>18 DEF TypeInv, TypeOK, CallsWellFormed, AttemptsClaimed,
     ClaimInv, ClaimedLeft, InFlight, Claimed, LedgerAgrees, Spent, Cancelable,
     Expirable, StillAuthorized, MarkSubmissionUnknown, Goto
<1>19. ASSUME NEW r \in Requests, FailAttempt(r)
      PROVE  LedgerAgrees'
  BY <1>t, <1>19 DEF TypeInv, TypeOK, CallsWellFormed, AttemptsClaimed,
     ClaimInv, ClaimedLeft, InFlight, Claimed, LedgerAgrees, Spent, Cancelable,
     Expirable, StillAuthorized, FailAttempt, Goto, ReleaseActive
<1>20. ASSUME NEW r \in Requests, CancelWrite(r)
      PROVE  LedgerAgrees'
  BY <1>t, <1>20 DEF TypeInv, TypeOK, CallsWellFormed, AttemptsClaimed,
     ClaimInv, ClaimedLeft, InFlight, Claimed, LedgerAgrees, Spent, Cancelable,
     Expirable, StillAuthorized, CancelWrite, Return, ReleaseActive
<1>21. ASSUME NEW r \in Requests, Crash(r)
      PROVE  LedgerAgrees'
  <2>1. CASE pc[r] \in BeforeClaim /\ Return(r)
    BY <1>t, <1>21, <2>1 DEF TypeInv, TypeOK, CallsWellFormed, AttemptsClaimed,
       ClaimInv, ClaimedLeft, InFlight, Claimed, LedgerAgrees, Spent,
       Cancelable, Expirable, StillAuthorized, Crash, Return
  <2>2. CASE pc[r] \notin BeforeClaim /\ Goto(r, "done") /\ UNCHANGED <<on,
            report>>
    BY <1>t, <1>21, <2>2 DEF TypeInv, TypeOK, CallsWellFormed, AttemptsClaimed,
       ClaimInv, ClaimedLeft, InFlight, Claimed, LedgerAgrees, Spent,
       Cancelable, Expirable, StillAuthorized, Crash, Goto
  <2> QED
    BY <1>21, <2>1, <2>2 DEF Crash
<1>22. ASSUME NEW r \in Requests, ChainDecides(r)
      PROVE  LedgerAgrees'
  BY <1>t, <1>22 DEF TypeInv, TypeOK, CallsWellFormed, AttemptsClaimed,
     ClaimInv, ClaimedLeft, InFlight, Claimed, LedgerAgrees, Spent, Cancelable,
     Expirable, StillAuthorized, ChainDecides
<1>23. ASSUME NEW i \in Intents, ExpireIntent(i)
      PROVE  LedgerAgrees'
  BY <1>t, <1>23 DEF TypeInv, TypeOK, CallsWellFormed, AttemptsClaimed,
     ClaimInv, ClaimedLeft, InFlight, Claimed, LedgerAgrees, Spent, Cancelable,
     Expirable, StillAuthorized, ExpireIntent, ReleaseActive
<1>24. ASSUME NEW i \in Intents, OpenIncident(i)
      PROVE  LedgerAgrees'
  BY <1>t, <1>24 DEF TypeInv, TypeOK, CallsWellFormed, AttemptsClaimed,
     ClaimInv, ClaimedLeft, InFlight, Claimed, LedgerAgrees, Spent, Cancelable,
     Expirable, StillAuthorized, OpenIncident
<1>25. ASSUME NEW i \in Intents, Elapse(i)
      PROVE  LedgerAgrees'
  BY <1>t, <1>25 DEF TypeInv, TypeOK, CallsWellFormed, AttemptsClaimed,
     ClaimInv, ClaimedLeft, InFlight, Claimed, LedgerAgrees, Spent, Cancelable,
     Expirable, StillAuthorized, Elapse
<1>26. ASSUME NEW k \in Jobs, Reconcile(k)
      PROVE  LedgerAgrees'
  <2> DEFINE r == job[k].attempt
         i == on[r]
  <2>0. ReconcileEffect(k)
    BY <1>t, <1>26, ReconcileEffectLemma
  <2>1. CASE UNCHANGED <<status, reservation, attempt, settlement>>
    BY <1>t, <2>0, <2>1 DEF TypeInv, TypeOK, CallsWellFormed,
       AttemptsClaimed, ClaimInv, ClaimedLeft, InFlight, Claimed, LedgerAgrees,
       Spent, Cancelable, Expirable, StillAuthorized, ReconcileEffect
  <2>2. CASE status[i] = "SUBMISSION_UNKNOWN" /\ Confirmed(r)
    BY <1>t, <2>0, <2>2 DEF TypeInv, TypeOK, CallsWellFormed,
       AttemptsClaimed, ClaimInv, ClaimedLeft, InFlight, Claimed, LedgerAgrees,
       Spent, Cancelable, Expirable, StillAuthorized, ReconcileEffect, Confirmed
  <2>3. CASE status[i] = "SUBMISSION_UNKNOWN" /\ \E to \in {"CONSUMED",
            "RELEASED"} : RejectSubmission(r, to)
    <3>1. /\ UNCHANGED overtaken /\ i \in Intents
          /\ status' = [status EXCEPT ![i] = "SETTLEMENT_FAILED"]
          /\ \E to \in {"CONSUMED", "RELEASED"} : ReleaseActive(i, to)
      BY <2>0, <2>3 DEF ReconcileEffect, RejectSubmission
    <3> QED
      BY <1>t, <3>1 DEF TypeInv, TypeOK, LedgerAgrees, Spent, ReleaseActive
  <2> QED
    BY <2>0, <2>1, <2>2, <2>3 DEF ReconcileEffect
<1>27. ASSUME NEW k \in Jobs, NEW r \in Requests, Observe(k, r)
      PROVE  LedgerAgrees'
  BY <1>t, <1>27 DEF TypeInv, TypeOK, CallsWellFormed, AttemptsClaimed,
     ClaimInv, ClaimedLeft, InFlight, Claimed, LedgerAgrees, Spent, Cancelable,
     Expirable, StillAuthorized, Observe, ReconciliationOutcome, Reconcilable,
     Observation, Outcome
<1>28. ASSUME SetKillSwitch PROVE LedgerAgrees'
  BY <1>t, <1>28 DEF TypeInv, TypeOK, CallsWellFormed, AttemptsClaimed,
     ClaimInv, ClaimedLeft, InFlight, Claimed, LedgerAgrees, Spent, Cancelable,
     Expirable, StillAuthorized, SetKillSwitch
<1>29. ASSUME PublishPolicy PROVE LedgerAgrees'
  BY <1>t, <1>29 DEF TypeInv, TypeOK, CallsWellFormed, AttemptsClaimed,
     ClaimInv, ClaimedLeft, InFlight, Claimed, LedgerAgrees, Spent, Cancelable,
     Expirable, StillAuthorized, PublishPolicy
<1>30. ASSUME UNCHANGED vars PROVE LedgerAgrees'
  BY <1>t, <1>30 DEF TypeInv, TypeOK, CallsWellFormed, AttemptsClaimed,
     ClaimInv, ClaimedLeft, InFlight, Claimed, LedgerAgrees, Spent, Cancelable,
     Expirable, StillAuthorized, vars
<1> QED
  BY <1>1, <1>2, <1>3, <1>4, <1>5, <1>6, <1>7, <1>8, <1>9, <1>10, <1>11, <1>12, <1>13, <1>14, <1>15, <1>16, <1>17, <1>18, <1>19, <1>20, <1>21, <1>22, <1>23, <1>24, <1>25, <1>26, <1>27, <1>28, <1>29, <1>30 DEF Next, Call, Proceed

(***************************************************************************)
(* The intent row and its reservation agree in every reachable state.      *)
(***************************************************************************)
THEOREM LedgerAgreement == Spec => []LedgerAgrees
<1>1. Init => LedgerAgrees
  BY DEF Init, LedgerAgrees, Spent
<1>2. TypeInv /\ TypeInv' /\ ClaimInv /\ LedgerAgrees /\ [Next]_vars => LedgerAgrees'
  BY LedgerStep
<1> QED
  BY <1>1, <1>2, TypeInvariant, ClaimInvariant, PTL DEF Spec

-----------------------------------------------------------------------------
(* Layer 4: approvals.  A consumed approval has its votes, votes are cast  *)
(* while it is pending, and a claim found it consumed or absent.           *)

ApprovalInv ==
    /\ \A i \in Intents :
           /\ approval[i] = "CONSUMED" =>
                  /\ Cardinality(ApprovedBy(i)) >= RequiredApprovals
                  /\ Cardinality(RejectedBy(i)) < RequiredRejections
           /\ initiator[i] \notin ApprovedBy(i)
           /\ status[i] = "none" => approval[i] = "none" /\ ApprovedBy(i) = {}
           /\ status[i] = "AUTHORIZED" => approval[i] \in {"none", "CONSUMED"}
    /\ \A r \in Requests : Claimed(r) => approval[on[r]] \in {"none", "CONSUMED"}

\* What most steps do: the votes stay, nothing becomes AUTHORIZED, and a new
\* claim finds its intent AUTHORIZED.
ApprovalFrame ==
    /\ UNCHANGED <<approval, votes, initiator>>
    /\ \A i \in Intents : status'[i] \in {"none", "AUTHORIZED"} => status'[i] = status[i]
    /\ \A r \in Requests : Claimed(r)' =>
           on'[r] = on[r] /\ (Claimed(r) \/ status[on[r]] = "AUTHORIZED")

(***************************************************************************)
(* Such a step keeps the approvals in order.                               *)
(***************************************************************************)
LEMMA FrameKeepsApprovals ==
    ASSUME TypeInv, TypeInv', ApprovalInv, ApprovalFrame
    PROVE  ApprovalInv'
<1>1. \A i \in Intents : ApprovedBy(i)' = ApprovedBy(i) /\ RejectedBy(i)' = RejectedBy(i)
  BY DEF ApprovalFrame, ApprovedBy, RejectedBy
<1>2. \A r \in Requests : Claimed(r)' => on'[r] \in Intents
  BY DEF TypeInv, CallsWellFormed, Claimed
<1> QED
  BY <1>1, <1>2 DEF ApprovalFrame, ApprovalInv

(***************************************************************************)
(* Closing an intent and its pending approval keeps them in order.         *)
(***************************************************************************)
LEMMA ApprovalCloses ==
    ASSUME TypeInv, TypeInv', ApprovalInv, NEW i, NEW s \in {"CANCELED", "EXPIRED"},
           UNCHANGED <<votes, initiator>>,
           status' = [status EXCEPT ![i] = s],
           approval' = [approval EXCEPT ![i] = IF @ = "PENDING" THEN s ELSE @],
           \A r \in Requests : Claimed(r)' => Claimed(r) /\ on'[r] = on[r]
    PROVE  ApprovalInv'
<1>1. \A j \in Intents : ApprovedBy(j)' = ApprovedBy(j) /\ RejectedBy(j)' = RejectedBy(j)
  BY DEF ApprovedBy, RejectedBy
<1>2. \A r \in Requests : Claimed(r) => on[r] \in Intents
  BY DEF TypeInv, CallsWellFormed, Claimed
<1>3. \A j \in Intents : approval'[j] \in {approval[j], "CANCELED", "EXPIRED"}
  BY DEF TypeInv, TypeOK
<1>4. \A j \in Intents : approval[j] \in {"none", "CONSUMED"} => approval'[j] = approval[j]
  BY DEF TypeInv, TypeOK
<1>5. \A j \in Intents : status'[j] \in {"none", "AUTHORIZED"} => status'[j] = status[j]
  BY DEF TypeInv, TypeOK
<1> QED
  BY <1>1, <1>2, <1>3, <1>4, <1>5 DEF ApprovalInv

(***************************************************************************)
(* Every step keeps the approvals in order.                                *)
(***************************************************************************)
LEMMA ApprovalStep ==
    ASSUME TypeInv, TypeInv', ClaimInv, ApprovalInv, [Next]_vars
    PROVE  ApprovalInv'
<1>t. TypeInv /\ TypeInv' /\ ClaimInv /\ ApprovalInv
  OBVIOUS
<1>1. ASSUME NEW r \in Requests, NEW i \in Intents, NEW u \in Users \cup {None},
            CreatePaidRequest(r, i, u)
      PROVE  ApprovalInv'
  <2> DEFINE outcome == EvaluatePolicy(Facts(i), Policy)
  <2>0. outcome \in {"ALLOW", "DENY", "REQUIRE_APPROVAL"}
    BY OutcomeType, ConstantsAssumption DEF ConstantsAssumption, PolicyOutcome
  <2>1. status[i] = "none" /\ approval[i] = "none" /\ ApprovedBy(i) = {}
    BY <1>t, <1>1 DEF CreatePaidRequest, ApprovalInv
  <2>2. approval'[i] \in {"none", "PENDING"} /\ status'[i] # "none"
    BY <1>t, <1>1, <2>0 DEF CreatePaidRequest, TypeInv, TypeOK
  <2>3. status'[i] = "AUTHORIZED" => approval'[i] = "none"
    <3> HIDE DEF outcome
    <3>1. CASE outcome = "ALLOW"
      BY <1>t, <1>1, <3>1 DEF CreatePaidRequest, TypeInv, TypeOK, outcome
    <3>2. CASE outcome = "DENY"
      BY <1>t, <1>1, <3>2 DEF CreatePaidRequest, TypeInv, TypeOK, outcome
    <3>3. CASE outcome = "REQUIRE_APPROVAL"
      BY <1>t, <1>1, <3>3 DEF CreatePaidRequest, TypeInv, TypeOK, outcome
    <3> QED
      BY <2>0, <3>1, <3>2, <3>3
  <2>4. /\ votes' = votes
        /\ \A j \in Intents \ {i} : /\ status'[j] = status[j] /\ approval'[j] = approval[j]
                                     /\ initiator'[j] = initiator[j]
    BY <1>t, <1>1 DEF CreatePaidRequest, TypeInv, TypeOK
  <2>5. \A s \in Requests : Claimed(s)' => Claimed(s) /\ on'[s] = on[s] /\ on[s] # i
    <3>1. pc' = [pc EXCEPT ![r] = pc'[r]] /\ on' = [on EXCEPT ![r] = on'[r]]
          /\ pc'[r] \in {"read", "idle"}
      BY <1>t, <1>1 DEF CreatePaidRequest, TypeInv, TypeOK
    <3>2. \A s \in Requests : Claimed(s)' => Claimed(s) /\ on'[s] = on[s]
      BY <1>t, <3>1 DEF TypeInv, TypeOK, Claimed
    <3>3. \A s \in Requests : Claimed(s) => on[s] # i
      BY <1>t, <2>1 DEF ClaimInv, ClaimedLeft
    <3> QED
      BY <3>2, <3>3
  <2>6. \A j \in Intents : ApprovedBy(j)' = ApprovedBy(j) /\ RejectedBy(j)' = RejectedBy(j)
    BY <2>4 DEF ApprovedBy, RejectedBy
  <2>7. \A s \in Requests : Claimed(s) => on[s] \in Intents
    BY <1>t DEF TypeInv, CallsWellFormed, Claimed
  <2> QED
    BY <1>t, <2>1, <2>2, <2>3, <2>4, <2>5, <2>6, <2>7 DEF ApprovalInv
<1>2. ASSUME NEW r \in Requests, NEW i \in Intents, NEW u \in Users, NEW v \in
            {"APPROVE", "REJECT"}, Decide(r, i, u, v)
      PROVE  ApprovalInv'
  <2> DEFINE rejected == Cardinality(Voters(i, "REJECT")) >= RequiredRejections
             consumed == ~rejected /\ Cardinality(Voters(i, "APPROVE")) >= RequiredApprovals
  <2>1. approval[i] = "PENDING" /\ status[i] # "none" /\ ~(v = "APPROVE" /\ initiator[i] = u)
    BY <1>t, <1>2 DEF Decide, MayVote, ApprovalInv
  <2>2. votes' = [votes EXCEPT ![i][u] = v] /\ initiator' = initiator
    BY <1>2 DEF Decide
  <2>3. Voters(i, "REJECT") = RejectedBy(i)' /\ Voters(i, "APPROVE") = ApprovedBy(i)'
    BY DEF Voters, ApprovedBy, RejectedBy
  <2>4. initiator'[i] \notin ApprovedBy(i)'
    <3>1. votes'[i] = [votes[i] EXCEPT ![u] = v]
      BY <1>t, <2>2 DEF TypeInv, TypeOK
    <3>2. votes[i] \in [Users -> Vote]
      BY <1>t DEF TypeInv, TypeOK
    <3>3. initiator[i] \notin ApprovedBy(i)
      BY <1>t DEF ApprovalInv
    <3>4. \A w \in Users : votes'[i][w] = IF w = u THEN v ELSE votes[i][w]
      BY <3>1, <3>2
    <3> QED
      BY <2>1, <2>2, <3>3, <3>4 DEF ApprovedBy
  <2>5. /\ status'[i] # "none" /\ (status'[i] = "AUTHORIZED" => consumed \/ status[i] = "AUTHORIZED")
        /\ approval'[i] = IF rejected THEN "REJECTED" ELSE IF consumed THEN "CONSUMED" ELSE "PENDING"
    <3> HIDE DEF rejected, consumed
    <3> QED
      BY <1>t, <1>2, <2>1 DEF Decide, TypeInv, TypeOK, rejected, consumed
  <2>6. status[i] # "AUTHORIZED"
    BY <1>t, <2>1 DEF ApprovalInv
  <2>7. \A j \in Intents \ {i} : /\ status'[j] = status[j] /\ approval'[j] = approval[j]
                                 /\ ApprovedBy(j)' = ApprovedBy(j) /\ RejectedBy(j)' = RejectedBy(j)
    <3>1. \A j \in Intents \ {i} : /\ status'[j] = status[j] /\ approval'[j] = approval[j]
                                   /\ votes'[j] = votes[j]
      BY <1>t, <1>2 DEF Decide, TypeInv, TypeOK
    <3> QED
      BY <3>1 DEF ApprovedBy, RejectedBy
  <2>8. \A s \in Requests : Claimed(s) => on[s] \in Intents /\ on[s] # i
    BY <1>t, <2>1 DEF TypeInv, CallsWellFormed, Claimed, ApprovalInv
  <2>9. \A s \in Requests : Claimed(s)' => Claimed(s) /\ on'[s] = on[s]
    BY <1>t, <1>2 DEF Decide, TypeInv, TypeOK, Claimed
  <2>10. approval'[i] = "CONSUMED" => /\ Cardinality(ApprovedBy(i)') >= RequiredApprovals
                                      /\ ~(Cardinality(RejectedBy(i)') >= RequiredRejections)
    BY <2>3, <2>5
  <2>11. Cardinality(RejectedBy(i)') \in Nat
    <3>1. IsFiniteSet(RejectedBy(i)')
      BY ConstantsAssumption, FS_Subset DEF ConstantsAssumption, RejectedBy
    <3> QED
      BY <3>1, FS_CardinalityType
  <2>12. approval'[i] = "CONSUMED" => Cardinality(RejectedBy(i)') < RequiredRejections
    BY <2>10, <2>11, ConstantsAssumption DEF ConstantsAssumption
  <2> QED
    BY <1>t, <2>2, <2>4, <2>5, <2>6, <2>7, <2>8, <2>9, <2>10, <2>12 DEF ApprovalInv
<1>3. ASSUME NEW r \in Requests, NEW i \in Intents, SubmitSelfCustody(r, i)
      PROVE  ApprovalInv'
  <2>1. ApprovalFrame
    BY <1>t, <1>3 DEF SubmitSelfCustody, Goto, ApprovalFrame, TypeInv, TypeOK,
       CallsWellFormed, Claimed
  <2> QED
    BY <1>t, <2>1, FrameKeepsApprovals
<1>4. ASSUME NEW r \in Requests, NEW i \in Intents, CancelRead(r, i)
      PROVE  ApprovalInv'
  <2>1. ApprovalFrame
    BY <1>t, <1>4 DEF CancelRead, Goto, ApprovalFrame, TypeInv, TypeOK,
       CallsWellFormed, Claimed
  <2> QED
    BY <1>t, <2>1, FrameKeepsApprovals
<1>5. ASSUME NEW r \in Requests, Revalidate(r)
      PROVE  ApprovalInv'
  <2>1. ApprovalFrame
    BY <1>t, <1>5 DEF Revalidate, Goto, Return, StillAuthorized, ReleaseActive,
       ApprovalFrame, TypeInv, TypeOK, CallsWellFormed, Claimed
  <2> QED
    BY <1>t, <2>1, FrameKeepsApprovals
<1>6. ASSUME NEW r \in Requests, ReadAuthorized(r)
      PROVE  ApprovalInv'
  <2>1. ApprovalFrame
    BY <1>t, <1>6 DEF ReadAuthorized, Goto, Return, ApprovalFrame, TypeInv,
       TypeOK, CallsWellFormed, Claimed
  <2> QED
    BY <1>t, <2>1, FrameKeepsApprovals
<1>7. ASSUME NEW r \in Requests, FailBeforeSigning(r)
      PROVE  ApprovalInv'
  <2>1. ApprovalFrame
    BY <1>t, <1>7 DEF FailBeforeSigning, Return, StillAuthorized, ApprovalFrame,
       TypeInv, TypeOK, CallsWellFormed, Claimed
  <2> QED
    BY <1>t, <2>1, FrameKeepsApprovals
<1>8. ASSUME NEW r \in Requests, Claim(r)
      PROVE  ApprovalInv'
  <2>1. ApprovalFrame
    BY <1>t, <1>8 DEF Claim, Goto, Return, StillAuthorized, ApprovalFrame,
       TypeInv, TypeOK, CallsWellFormed, Claimed
  <2> QED
    BY <1>t, <2>1, FrameKeepsApprovals
<1>9. ASSUME NEW r \in Requests, CreateAttempt(r)
      PROVE  ApprovalInv'
  <2>1. ApprovalFrame
    BY <1>t, <1>9 DEF CreateAttempt, Goto, ApprovalFrame, TypeInv, TypeOK,
       CallsWellFormed, Claimed
  <2> QED
    BY <1>t, <2>1, FrameKeepsApprovals
<1>10. ASSUME NEW r \in Requests, Sign(r)
      PROVE  ApprovalInv'
  <2>1. ApprovalFrame
    BY <1>t, <1>10 DEF Sign, Goto, ApprovalFrame, TypeInv, TypeOK,
       CallsWellFormed, Claimed
  <2> QED
    BY <1>t, <2>1, FrameKeepsApprovals
<1>11. ASSUME NEW r \in Requests, Send(r)
      PROVE  ApprovalInv'
  <2>1. ApprovalFrame
    BY <1>t, <1>11 DEF Send, Goto, ApprovalFrame, TypeInv, TypeOK,
       CallsWellFormed, Claimed
  <2> QED
    BY <1>t, <2>1, FrameKeepsApprovals
<1>12. ASSUME NEW r \in Requests, Fulfilled(r)
      PROVE  ApprovalInv'
  <2>1. ApprovalFrame
    BY <1>t, <1>12 DEF Fulfilled, Goto, ApprovalFrame, TypeInv, TypeOK,
       CallsWellFormed, Claimed
  <2> QED
    BY <1>t, <2>1, FrameKeepsApprovals
<1>13. ASSUME NEW r \in Requests, SubmissionUnknown(r)
      PROVE  ApprovalInv'
  <2>1. ApprovalFrame
    BY <1>t, <1>13 DEF SubmissionUnknown, Goto, ApprovalFrame, TypeInv, TypeOK,
       CallsWellFormed, Claimed
  <2> QED
    BY <1>t, <2>1, FrameKeepsApprovals
<1>14. ASSUME NEW r \in Requests, ResourceRefuses(r)
      PROVE  ApprovalInv'
  <2>1. ApprovalFrame
    BY <1>t, <1>14 DEF ResourceRefuses, Goto, ApprovalFrame, TypeInv, TypeOK,
       CallsWellFormed, Claimed
  <2> QED
    BY <1>t, <2>1, FrameKeepsApprovals
<1>15. ASSUME NEW r \in Requests, RecordSubmitted(r)
      PROVE  ApprovalInv'
  <2>1. ApprovalFrame
    BY <1>t, <1>15 DEF RecordSubmitted, Goto, ApprovalFrame, TypeInv, TypeOK,
       CallsWellFormed, Claimed
  <2> QED
    BY <1>t, <2>1, FrameKeepsApprovals
<1>16. ASSUME NEW r \in Requests, CommitSettlement(r)
      PROVE  ApprovalInv'
  <2>1. ApprovalFrame
    BY <1>t, <1>16 DEF CommitSettlement, Goto, ApprovalFrame, TypeInv, TypeOK,
       CallsWellFormed, Claimed
  <2> QED
    BY <1>t, <2>1, FrameKeepsApprovals
<1>17. ASSUME NEW r \in Requests, AbortSettlement(r)
      PROVE  ApprovalInv'
  <2>1. ApprovalFrame
    BY <1>t, <1>17 DEF AbortSettlement, Goto, ApprovalFrame, TypeInv, TypeOK,
       CallsWellFormed, Claimed
  <2> QED
    BY <1>t, <2>1, FrameKeepsApprovals
<1>18. ASSUME NEW r \in Requests, MarkSubmissionUnknown(r)
      PROVE  ApprovalInv'
  <2>1. ApprovalFrame
    BY <1>t, <1>18 DEF MarkSubmissionUnknown, Goto, ApprovalFrame, TypeInv,
       TypeOK, CallsWellFormed, Claimed
  <2> QED
    BY <1>t, <2>1, FrameKeepsApprovals
<1>19. ASSUME NEW r \in Requests, FailAttempt(r)
      PROVE  ApprovalInv'
  <2>1. ApprovalFrame
    BY <1>t, <1>19 DEF FailAttempt, Goto, ApprovalFrame, TypeInv, TypeOK,
       CallsWellFormed, Claimed
  <2> QED
    BY <1>t, <2>1, FrameKeepsApprovals
<1>20. ASSUME NEW r \in Requests, CancelWrite(r)
      PROVE  ApprovalInv'
  <2>1. /\ UNCHANGED <<votes, initiator>>
        /\ status' = [status EXCEPT ![on[r]] = "CANCELED"]
        /\ approval' = [approval EXCEPT ![on[r]] = IF @ = "PENDING" THEN "CANCELED" ELSE @]
    BY <1>20 DEF CancelWrite
  <2>2. \A s \in Requests : Claimed(s)' => Claimed(s) /\ on'[s] = on[s]
    BY <1>t, <1>20 DEF CancelWrite, Return, TypeInv, TypeOK, Claimed
  <2> QED
    BY <1>t, <2>1, <2>2, ApprovalCloses
<1>21. ASSUME NEW r \in Requests, Crash(r)
      PROVE  ApprovalInv'
  <2>1. ApprovalFrame
    BY <1>t, <1>21 DEF Crash, Goto, Return, ApprovalFrame, TypeInv, TypeOK,
       CallsWellFormed, Claimed
  <2> QED
    BY <1>t, <2>1, FrameKeepsApprovals
<1>22. ASSUME NEW r \in Requests, ChainDecides(r)
      PROVE  ApprovalInv'
  <2>1. ApprovalFrame
    BY <1>t, <1>22 DEF ChainDecides, ApprovalFrame, TypeInv, TypeOK,
       CallsWellFormed, Claimed
  <2> QED
    BY <1>t, <2>1, FrameKeepsApprovals
<1>23. ASSUME NEW i \in Intents, ExpireIntent(i)
      PROVE  ApprovalInv'
  <2>1. /\ UNCHANGED <<votes, initiator>>
        /\ status' = [status EXCEPT ![i] = "EXPIRED"]
        /\ approval' = [approval EXCEPT ![i] = IF @ = "PENDING" THEN "EXPIRED" ELSE @]
    BY <1>23 DEF ExpireIntent
  <2>2. \A s \in Requests : Claimed(s)' => Claimed(s) /\ on'[s] = on[s]
    BY <1>t, <1>23 DEF ExpireIntent, TypeInv, TypeOK, Claimed
  <2> QED
    BY <1>t, <2>1, <2>2, ApprovalCloses
<1>24. ASSUME NEW i \in Intents, OpenIncident(i)
      PROVE  ApprovalInv'
  <2>1. ApprovalFrame
    BY <1>t, <1>24 DEF OpenIncident, ApprovalFrame, TypeInv, TypeOK,
       CallsWellFormed, Claimed
  <2> QED
    BY <1>t, <2>1, FrameKeepsApprovals
<1>25. ASSUME NEW i \in Intents, Elapse(i)
      PROVE  ApprovalInv'
  <2>1. ApprovalFrame
    BY <1>t, <1>25 DEF Elapse, ApprovalFrame, TypeInv, TypeOK, CallsWellFormed,
       Claimed
  <2> QED
    BY <1>t, <2>1, FrameKeepsApprovals
<1>26. ASSUME NEW k \in Jobs, Reconcile(k)
      PROVE  ApprovalInv'
  <2>1. ReconcileEffect(k) /\ UNCHANGED <<approval, votes, initiator, pc, on>>
    BY <1>t, <1>26, ReconcileEffectLemma DEF Reconcile
  <2>2. job[k].attempt \in Requests /\ on[job[k].attempt] \in Intents
    BY <2>1 DEF ReconcileEffect
  <2>3. \A i \in Intents : status'[i] \in {"none", "AUTHORIZED"} => status'[i] = status[i]
    BY <1>t, <2>1, <2>2 DEF ReconcileEffect, Confirmed, RejectSubmission, TypeInv, TypeOK
  <2> QED
    BY <1>t, <2>1, <2>3, FrameKeepsApprovals DEF ApprovalFrame, Claimed
<1>27. ASSUME NEW k \in Jobs, NEW r \in Requests, Observe(k, r)
      PROVE  ApprovalInv'
  <2>1. ApprovalFrame
    BY <1>t, <1>27 DEF Observe, ApprovalFrame, TypeInv, TypeOK, CallsWellFormed,
       Claimed
  <2> QED
    BY <1>t, <2>1, FrameKeepsApprovals
<1>28. ASSUME SetKillSwitch
      PROVE  ApprovalInv'
  <2>1. ApprovalFrame
    BY <1>t, <1>28 DEF SetKillSwitch, ApprovalFrame, TypeInv, TypeOK,
       CallsWellFormed, Claimed
  <2> QED
    BY <1>t, <2>1, FrameKeepsApprovals
<1>29. ASSUME PublishPolicy
      PROVE  ApprovalInv'
  <2>1. ApprovalFrame
    BY <1>t, <1>29 DEF PublishPolicy, ApprovalFrame, TypeInv, TypeOK,
       CallsWellFormed, Claimed
  <2> QED
    BY <1>t, <2>1, FrameKeepsApprovals
<1>30. ASSUME UNCHANGED vars PROVE ApprovalInv'
  BY <1>t, <1>30, FrameKeepsApprovals DEF vars, ApprovalFrame, Claimed
<1> QED
  BY <1>1, <1>2, <1>3, <1>4, <1>5, <1>6, <1>7, <1>8, <1>9, <1>10, <1>11, <1>12,
     <1>13, <1>14, <1>15, <1>16, <1>17, <1>18, <1>19, <1>20, <1>21, <1>22,
     <1>23, <1>24, <1>25, <1>26, <1>27, <1>28, <1>29, <1>30 DEF Next, Call,
     Proceed

(***************************************************************************)
(* Nothing is signed for an intent under approval before its approvers     *)
(* consumed the approval, its initiator not among them.                    *)
(***************************************************************************)
THEOREM ApprovedFirst == Spec => []ApprovalBeforeClaim
<1>1. Init => ApprovalInv
  BY ConstantsAssumption DEF Init, ApprovalInv, ApprovedBy, Claimed, ConstantsAssumption
<1>2. TypeInv /\ TypeInv' /\ ClaimInv /\ ApprovalInv /\ [Next]_vars => ApprovalInv'
  BY ApprovalStep
<1>3. TypeInv /\ ApprovalInv => ApprovalBeforeClaim
  BY DEF TypeInv, CallsWellFormed, ApprovalInv, ApprovalBeforeClaim, Claimed
<1> QED
  BY <1>1, <1>2, <1>3, TypeInvariant, ClaimInvariant, PTL DEF Spec

-----------------------------------------------------------------------------
(* Layer 5: payloads.                                                      *)

\* Where the claiming call is says what became of its payload.
PayloadStage ==
    \A r \in Requests :
        /\ pc[r] \in {"attempt", "sign", "send"} => chain[r] = "unsent"
        /\ pc[r] \in {"submitted", "settle"} => Misreports \/ chain[r] = "success"
        /\ pc[r] = "fail" => Misreports \/ chain[r] \notin {"sent", "success"}

\* A transaction named for an attempt is its own, or a misreported one.
Nameable(r, tx) == tx = None \/ tx = r \/ Misreports

Names ==
    \A r \in Requests :
        /\ Nameable(r, candidate[r])
        /\ pc[r] # "refuse" => Nameable(r, report[r])

\* A sweep's observation stays true: the attempt is over, its candidate fixed.
Observed ==
    /\ \A r \in Requests : attempt[r] \in {"UNKNOWN", "FAILED"} => pc[r] = "done"
    /\ \A k \in Jobs : job[k] # None =>
           /\ pc[job[k].attempt] = "done"
           /\ job[k].outcome = "FAILED" /\ ~Misreports
                  => chain[job[k].attempt] = "failed"
           /\ job[k].outcome = "CONFIRMED" /\ ~Misreports
                  => chain[job[k].attempt] = "success"

\* A call works on an intent that exists, and a reservation is of one.
Begun == \A r \in Requests : pc[r] # "idle" => status[on[r]] # "none"
Fresh == \A i \in Intents : status[i] = "none" => reservation[i] = "none"

\* What may still settle, and what has, is counted, unless its attempt failed
\* on a misreport.
LiveCounted ==
    \A r \in Requests :
        chain[r] \in {"sent", "success"} =>
            \/ reservation[on[r]] \in Spent \/ on[r] \in overtaken
            \/ Misreports /\ attempt[r] = "FAILED"

PayloadInv == PayloadStage /\ Names /\ Observed /\ Begun /\ Fresh /\ LiveCounted

(***************************************************************************)
(* No payload is out for an intent that has not been claimed.              *)
(***************************************************************************)
LEMMA Unclaimed ==
    ASSUME TypeInv, ClaimInv, NEW i \in Intents,
           status[i] \in {"none", "APPROVAL_PENDING", "AUTHORIZED"}
    PROVE  \A s \in Requests : pc[s] \in AfterClaim => on[s] # i
BY DEF ClaimInv, ClaimedLeft, Claimed

(***************************************************************************)
(* A step keeps LiveCounted if it sends no payload, moves none to another  *)
(* intent, and takes no reservation from an intent with one out.           *)
(***************************************************************************)
LEMMA LiveKept ==
    ASSUME PayloadInv, overtaken \subseteq overtaken',
           \A s \in Requests : chain'[s] \in {"sent", "success"} =>
               /\ chain[s] \in {"sent", "success"}
               /\ on'[s] = on[s]
               /\ \/ reservation'[on[s]] = reservation[on[s]] /\ attempt'[s] = attempt[s]
                  \/ reservation'[on[s]] \in Spent
                  \/ on[s] \in overtaken'
                  \/ Misreports /\ attempt'[s] = "FAILED"
    PROVE  LiveCounted'
BY DEF PayloadInv, LiveCounted

(***************************************************************************)
(* Every step keeps the payload discipline: a reservation is given back    *)
(* only by a call whose payload is not out, by one that finds the intent   *)
(* unclaimed, or by a sweep that saw the transaction fail.                 *)
(***************************************************************************)
LEMMA PayloadStep ==
    ASSUME TypeInv, TypeInv', ClaimInv, LedgerAgrees, PayloadInv, [Next]_vars
    PROVE  PayloadInv'
<1>t. TypeInv /\ TypeInv' /\ ClaimInv /\ LedgerAgrees /\ PayloadInv
  OBVIOUS
<1>1. ASSUME NEW r \in Requests, NEW i \in Intents, NEW u \in Users \cup {None}, CreatePaidRequest(r, i, u)
      PROVE  PayloadInv'
  <2>1. PayloadStage'
    BY <1>t, <1>1 DEF TypeInv, TypeOK, AttemptsClaimed, PayloadInv,
       PayloadStage, CreatePaidRequest
  <2>2. Names'
    BY <1>t, <1>1 DEF TypeInv, TypeOK, CallsWellFormed, PayloadInv, Names,
       Nameable, PayloadStage, CreatePaidRequest
  <2>3. Observed'
    BY <1>t, <1>1 DEF TypeInv, TypeOK, AttemptsClaimed, PayloadInv, Observed,
       PayloadStage, Observation, CreatePaidRequest
  <2>4. Begun'
    BY <1>t, <1>1 DEF TypeInv, TypeOK, CallsWellFormed, PayloadInv, Begun,
       CreatePaidRequest
  <2>5. Fresh'
    <3> DEFINE outcome == EvaluatePolicy(Facts(i), Policy)
    <3>0. outcome \in {"ALLOW", "DENY", "REQUIRE_APPROVAL"}
      BY OutcomeType, ConstantsAssumption DEF ConstantsAssumption, PolicyOutcome
    <3>1. status' = [status EXCEPT ![i] =
                        CASE outcome = "ALLOW" -> "AUTHORIZED"
                          [] outcome = "DENY" -> "DENIED"
                          [] outcome = "REQUIRE_APPROVAL" -> "APPROVAL_PENDING"]
      BY <1>1 DEF CreatePaidRequest
    <3>2. \E x : reservation' = [reservation EXCEPT ![i] = x]
      BY <1>1 DEF CreatePaidRequest
    <3> HIDE DEF outcome
    <3>3. status'[i] # "none"
      BY <1>t, <3>0, <3>1 DEF TypeInv, TypeOK
    <3>4. \A j \in Intents : j # i => status'[j] = status[j] /\ reservation'[j] = reservation[j]
      BY <1>t, <3>1, <3>2 DEF TypeInv, TypeOK
    <3> QED
      BY <1>t, <3>3, <3>4 DEF PayloadInv, Fresh
  <2>6. LiveCounted'
    BY <1>t, <1>1 DEF TypeInv, TypeOK, CallsWellFormed, AttemptsClaimed,
       ClaimInv, OneClaim, ClaimedLeft, InFlight, Claimed, LedgerAgrees,
       PayloadInv, PayloadStage, LiveCounted, Spent, CreatePaidRequest
  <2> QED
    BY <2>1, <2>2, <2>3, <2>4, <2>5, <2>6 DEF PayloadInv
<1>2. ASSUME NEW r \in Requests, NEW i \in Intents, NEW u \in Users, NEW v \in {"APPROVE", "REJECT"}, Decide(r, i, u, v)
      PROVE  PayloadInv'
  <2>1. PayloadStage'
    BY <1>t, <1>2 DEF TypeInv, TypeOK, AttemptsClaimed, PayloadInv,
       PayloadStage, Decide, ReleaseActive
  <2>2. Names'
    BY <1>t, <1>2 DEF TypeInv, TypeOK, CallsWellFormed, PayloadInv, Names,
       Nameable, PayloadStage, Decide, ReleaseActive
  <2>3. Observed'
    BY <1>t, <1>2 DEF TypeInv, TypeOK, AttemptsClaimed, PayloadInv, Observed,
       PayloadStage, Observation, Decide, ReleaseActive
  <2>4. Begun'
    BY <1>t, <1>2 DEF TypeInv, TypeOK, CallsWellFormed, PayloadInv, Begun,
       Decide, ReleaseActive
  <2>5. Fresh'
    BY <1>t, <1>2 DEF TypeInv, TypeOK, CallsWellFormed, PayloadInv, Fresh,
       Begun, Decide, ReleaseActive
  <2>6. LiveCounted'
    <3>1. UNCHANGED <<chain, overtaken, attempt>>
      BY <1>2 DEF Decide
    <3>2. \A s \in Requests : pc[s] \in AfterClaim => on'[s] = on[s]
      BY <1>t, <1>2 DEF TypeInv, TypeOK, Decide
    <3>3. CASE UNCHANGED reservation
      BY <1>t, <3>1, <3>2, <3>3, LiveKept DEF TypeInv, AttemptsClaimed
    <3>4. CASE status[i] = "APPROVAL_PENDING" /\ ReleaseActive(i, "RELEASED")
      BY <1>t, <3>1, <3>2, <3>4, Unclaimed, LiveKept
      DEF TypeInv, TypeOK, AttemptsClaimed, ReleaseActive
    <3> QED
      BY <1>2, <3>3, <3>4 DEF Decide
  <2> QED
    BY <2>1, <2>2, <2>3, <2>4, <2>5, <2>6 DEF PayloadInv
<1>3. ASSUME NEW r \in Requests, NEW i \in Intents, SubmitSelfCustody(r, i)
      PROVE  PayloadInv'
  <2>1. PayloadStage'
    BY <1>t, <1>3 DEF TypeInv, TypeOK, AttemptsClaimed, PayloadInv,
       PayloadStage, SubmitSelfCustody, Goto
  <2>2. Names'
    BY <1>t, <1>3 DEF TypeInv, TypeOK, CallsWellFormed, PayloadInv, Names,
       Nameable, PayloadStage, SubmitSelfCustody, Goto
  <2>3. Observed'
    BY <1>t, <1>3 DEF TypeInv, TypeOK, AttemptsClaimed, PayloadInv, Observed,
       PayloadStage, Observation, SubmitSelfCustody, Goto
  <2>4. Begun'
    BY <1>t, <1>3 DEF TypeInv, TypeOK, CallsWellFormed, PayloadInv, Begun,
       SubmitSelfCustody, Goto
  <2>5. Fresh'
    BY <1>t, <1>3 DEF TypeInv, TypeOK, CallsWellFormed, PayloadInv, Fresh,
       Begun, SubmitSelfCustody, Goto
  <2>6. LiveCounted'
    BY <1>t, <1>3 DEF TypeInv, TypeOK, CallsWellFormed, AttemptsClaimed,
       ClaimInv, OneClaim, ClaimedLeft, InFlight, Claimed, LedgerAgrees,
       PayloadInv, PayloadStage, LiveCounted, Spent, SubmitSelfCustody, Goto
  <2> QED
    BY <2>1, <2>2, <2>3, <2>4, <2>5, <2>6 DEF PayloadInv
<1>4. ASSUME NEW r \in Requests, NEW i \in Intents, CancelRead(r, i)
      PROVE  PayloadInv'
  <2>1. PayloadStage'
    BY <1>t, <1>4 DEF TypeInv, TypeOK, AttemptsClaimed, PayloadInv,
       PayloadStage, CancelRead, Goto, Cancelable
  <2>2. Names'
    BY <1>t, <1>4 DEF TypeInv, TypeOK, CallsWellFormed, PayloadInv, Names,
       Nameable, PayloadStage, CancelRead, Goto, Cancelable
  <2>3. Observed'
    BY <1>t, <1>4 DEF TypeInv, TypeOK, AttemptsClaimed, PayloadInv, Observed,
       PayloadStage, Observation, CancelRead, Goto, Cancelable
  <2>4. Begun'
    BY <1>t, <1>4 DEF TypeInv, TypeOK, CallsWellFormed, PayloadInv, Begun,
       CancelRead, Goto, Cancelable
  <2>5. Fresh'
    BY <1>t, <1>4 DEF TypeInv, TypeOK, CallsWellFormed, PayloadInv, Fresh,
       Begun, CancelRead, Goto, Cancelable
  <2>6. LiveCounted'
    BY <1>t, <1>4 DEF TypeInv, TypeOK, CallsWellFormed, AttemptsClaimed,
       ClaimInv, OneClaim, ClaimedLeft, InFlight, Claimed, LedgerAgrees,
       PayloadInv, PayloadStage, LiveCounted, Spent, CancelRead, Goto,
       Cancelable
  <2> QED
    BY <2>1, <2>2, <2>3, <2>4, <2>5, <2>6 DEF PayloadInv
<1>5. ASSUME NEW r \in Requests, Revalidate(r)
      PROVE  PayloadInv'
  <2>1. PayloadStage'
    BY <1>t, <1>5 DEF TypeInv, TypeOK, AttemptsClaimed, PayloadInv,
       PayloadStage, Revalidate, Goto, Return, StillAuthorized, ReleaseActive
  <2>2. Names'
    BY <1>t, <1>5 DEF TypeInv, TypeOK, CallsWellFormed, PayloadInv, Names,
       Nameable, PayloadStage, Revalidate, Goto, Return, StillAuthorized,
       ReleaseActive
  <2>3. Observed'
    BY <1>t, <1>5 DEF TypeInv, TypeOK, AttemptsClaimed, PayloadInv, Observed,
       PayloadStage, Observation, Revalidate, Goto, Return, StillAuthorized,
       ReleaseActive
  <2>4. Begun'
    BY <1>t, <1>5 DEF TypeInv, TypeOK, CallsWellFormed, PayloadInv, Begun,
       Revalidate, Goto, Return, StillAuthorized, ReleaseActive
  <2>5. Fresh'
    BY <1>t, <1>5 DEF TypeInv, TypeOK, CallsWellFormed, PayloadInv, Fresh,
       Begun, Revalidate, Goto, Return, StillAuthorized, ReleaseActive
  <2>6. LiveCounted'
    <3>0. on[r] \in Intents /\ r \in Requests /\ pc[r] \notin AfterClaim
      BY <1>t, <1>5 DEF TypeInv, CallsWellFormed, Revalidate
    <3>1. \A s \in Requests : s # r => on'[s] = on[s]
      BY <1>t, <1>5 DEF TypeInv, TypeOK, Revalidate, Goto, Return
    <3>2. UNCHANGED <<chain, overtaken, attempt>>
      BY <1>5 DEF Revalidate
    <3>3. CASE UNCHANGED reservation
      BY <1>t, <3>0, <3>1, <3>2, <3>3, LiveKept DEF TypeInv, AttemptsClaimed
    <3>4. CASE StillAuthorized(on[r]) /\ \E to \in {"RELEASED", "EXPIRED"} : ReleaseActive(on[r], to)
      BY <1>t, <3>0, <3>1, <3>2, <3>4, Unclaimed, LiveKept
      DEF TypeInv, TypeOK, AttemptsClaimed, StillAuthorized, ReleaseActive
    <3> QED
      BY <1>5, <3>3, <3>4 DEF Revalidate
  <2> QED
    BY <2>1, <2>2, <2>3, <2>4, <2>5, <2>6 DEF PayloadInv
<1>6. ASSUME NEW r \in Requests, ReadAuthorized(r)
      PROVE  PayloadInv'
  <2>1. PayloadStage'
    BY <1>t, <1>6 DEF TypeInv, TypeOK, AttemptsClaimed, PayloadInv,
       PayloadStage, ReadAuthorized, Goto, Return
  <2>2. Names'
    <3>1. pc[r] = "read" /\ UNCHANGED <<chain, candidate>>
      BY <1>6 DEF ReadAuthorized
    <3>2. \A s \in Requests \ {r} : pc'[s] = pc[s] /\ report'[s] = report[s]
      BY <1>t, <1>6 DEF TypeInv, TypeOK, ReadAuthorized, Goto, Return
    <3>3. pc'[r] = "refuse" \/ report'[r] \in {None, report[r]}
      BY <1>t, <1>6 DEF TypeInv, TypeOK, ReadAuthorized, Goto, Return
    <3> QED
      BY <1>t, <3>1, <3>2, <3>3 DEF PayloadInv, Names, Nameable
  <2>3. Observed'
    BY <1>t, <1>6 DEF TypeInv, TypeOK, AttemptsClaimed, PayloadInv, Observed,
       PayloadStage, Observation, ReadAuthorized, Goto, Return
  <2>4. Begun'
    BY <1>t, <1>6 DEF TypeInv, TypeOK, CallsWellFormed, PayloadInv, Begun,
       ReadAuthorized, Goto, Return
  <2>5. Fresh'
    BY <1>t, <1>6 DEF TypeInv, TypeOK, CallsWellFormed, PayloadInv, Fresh,
       Begun, ReadAuthorized, Goto, Return
  <2>6. LiveCounted'
    BY <1>t, <1>6 DEF TypeInv, TypeOK, CallsWellFormed, AttemptsClaimed,
       ClaimInv, OneClaim, ClaimedLeft, InFlight, Claimed, LedgerAgrees,
       PayloadInv, PayloadStage, LiveCounted, Spent, ReadAuthorized, Goto,
       Return
  <2> QED
    BY <2>1, <2>2, <2>3, <2>4, <2>5, <2>6 DEF PayloadInv
<1>7. ASSUME NEW r \in Requests, FailBeforeSigning(r)
      PROVE  PayloadInv'
  <2>1. PayloadStage'
    BY <1>t, <1>7 DEF TypeInv, TypeOK, AttemptsClaimed, PayloadInv,
       PayloadStage, FailBeforeSigning, Return, StillAuthorized, ReleaseActive
  <2>2. Names'
    BY <1>t, <1>7 DEF TypeInv, TypeOK, CallsWellFormed, PayloadInv, Names,
       Nameable, PayloadStage, FailBeforeSigning, Return, StillAuthorized,
       ReleaseActive
  <2>3. Observed'
    BY <1>t, <1>7 DEF TypeInv, TypeOK, AttemptsClaimed, PayloadInv, Observed,
       PayloadStage, Observation, FailBeforeSigning, Return, StillAuthorized,
       ReleaseActive
  <2>4. Begun'
    BY <1>t, <1>7 DEF TypeInv, TypeOK, CallsWellFormed, PayloadInv, Begun,
       FailBeforeSigning, Return, StillAuthorized, ReleaseActive
  <2>5. Fresh'
    <3>0. on[r] \in Intents /\ report[r] # "none"
      BY <1>t, <1>7 DEF TypeInv, CallsWellFormed, FailBeforeSigning
    <3>1. CASE UNCHANGED <<status, reservation>>
      BY <1>t, <3>1 DEF PayloadInv, Fresh
    <3>2. CASE /\ status' = [status EXCEPT ![on[r]] = report[r]]
               /\ \E x : reservation' = [reservation EXCEPT ![on[r]] = x]
      BY <1>t, <3>0, <3>2 DEF TypeInv, TypeOK, PayloadInv, Fresh
    <3> QED
      BY <1>7, <3>1, <3>2 DEF FailBeforeSigning, ReleaseActive
  <2>6. LiveCounted'
    <3>0. on[r] \in Intents /\ r \in Requests /\ pc[r] \notin AfterClaim
      BY <1>t, <1>7 DEF TypeInv, CallsWellFormed, FailBeforeSigning
    <3>1. \A s \in Requests : s # r => on'[s] = on[s]
      BY <1>t, <1>7 DEF TypeInv, TypeOK, FailBeforeSigning, Goto, Return
    <3>2. UNCHANGED <<chain, overtaken, attempt>>
      BY <1>7 DEF FailBeforeSigning
    <3>3. CASE UNCHANGED reservation
      BY <1>t, <3>0, <3>1, <3>2, <3>3, LiveKept DEF TypeInv, AttemptsClaimed
    <3>4. CASE StillAuthorized(on[r]) /\ \E to \in {"RELEASED", "EXPIRED"} : ReleaseActive(on[r], to)
      BY <1>t, <3>0, <3>1, <3>2, <3>4, Unclaimed, LiveKept
      DEF TypeInv, TypeOK, AttemptsClaimed, StillAuthorized, ReleaseActive
    <3> QED
      BY <1>7, <3>3, <3>4 DEF FailBeforeSigning
  <2> QED
    BY <2>1, <2>2, <2>3, <2>4, <2>5, <2>6 DEF PayloadInv
<1>8. ASSUME NEW r \in Requests, Claim(r)
      PROVE  PayloadInv'
  <2>1. PayloadStage'
    <3>1. pc[r] = "claim" /\ chain[r] = "unsent" /\ chain' = chain
      BY <1>t, <1>8 DEF TypeInv, TypeOK, AttemptsClaimed, Claim
    <3>2. \A s \in Requests \ {r} : pc'[s] = pc[s]
      BY <1>t, <1>8 DEF TypeInv, TypeOK, Claim, Goto, Return
    <3>3. pc'[r] \in {"attempt", "idle"}
      BY <1>t, <1>8 DEF TypeInv, TypeOK, Claim, Goto, Return
    <3> QED
      BY <1>t, <3>1, <3>2, <3>3 DEF PayloadInv, PayloadStage
  <2>2. Names'
    <3>1. pc[r] = "claim" /\ chain' = chain /\ candidate' = candidate
      BY <1>8 DEF Claim
    <3>2. \A s \in Requests \ {r} : pc'[s] = pc[s] /\ report'[s] = report[s]
      BY <1>t, <1>8 DEF TypeInv, TypeOK, Claim, Goto, Return
    <3>3. report'[r] \in {None, report[r]}
      BY <1>t, <1>8 DEF TypeInv, TypeOK, Claim, Return
    <3> QED
      BY <1>t, <3>1, <3>2, <3>3 DEF PayloadInv, Names, Nameable
  <2>3. Observed'
    BY <1>t, <1>8 DEF TypeInv, TypeOK, AttemptsClaimed, PayloadInv, Observed,
       PayloadStage, Observation, Claim, Goto, Return, StillAuthorized
  <2>4. Begun'
    <3>1. on[r] \in Intents /\ pc[r] = "claim"
      BY <1>t, <1>8 DEF TypeInv, CallsWellFormed, Claim
    <3>2. status' = [status EXCEPT ![on[r]] = "SIGNING"] \/ UNCHANGED status
      BY <1>8 DEF Claim
    <3>3. \A s \in Requests \ {r} : pc'[s] = pc[s] /\ on'[s] = on[s]
      BY <1>t, <1>8 DEF TypeInv, TypeOK, Claim, Goto, Return
    <3>4. pc'[r] = "idle" \/ (on'[r] = on[r])
      BY <1>t, <1>8 DEF TypeInv, TypeOK, Claim, Goto, Return
    <3>5. \A s \in Requests : pc'[s] # "idle" => on'[s] = on[s] /\ pc[s] # "idle"
      BY <3>1, <3>3, <3>4
    <3>6. \A j \in Intents : status[j] # "none" => status'[j] # "none"
      BY <1>t, <3>1, <3>2 DEF TypeInv, TypeOK
    <3> QED
      BY <1>t, <3>5, <3>6 DEF TypeInv, CallsWellFormed, PayloadInv, Begun
  <2>5. Fresh'
    BY <1>t, <1>8 DEF TypeInv, TypeOK, CallsWellFormed, PayloadInv, Fresh,
       Begun, Claim, Goto, Return, StillAuthorized
  <2>6. LiveCounted'
    <3>1. UNCHANGED <<chain, reservation, overtaken, attempt>>
      BY <1>8 DEF Claim
    <3>2. \A s \in Requests : pc[s] \in AfterClaim => on'[s] = on[s]
      BY <1>t, <1>8 DEF TypeInv, TypeOK, Claim, Goto, Return
    <3> QED
      BY <1>t, <3>1, <3>2, LiveKept DEF TypeInv, AttemptsClaimed
  <2> QED
    BY <2>1, <2>2, <2>3, <2>4, <2>5, <2>6 DEF PayloadInv
<1>9. ASSUME NEW r \in Requests, CreateAttempt(r)
      PROVE  PayloadInv'
  <2>1. PayloadStage'
    BY <1>t, <1>9 DEF TypeInv, TypeOK, AttemptsClaimed, PayloadInv,
       PayloadStage, CreateAttempt, Goto
  <2>2. Names'
    BY <1>t, <1>9 DEF TypeInv, TypeOK, CallsWellFormed, PayloadInv, Names,
       Nameable, PayloadStage, CreateAttempt, Goto
  <2>3. Observed'
    BY <1>t, <1>9 DEF TypeInv, TypeOK, AttemptsClaimed, PayloadInv, Observed,
       PayloadStage, Observation, CreateAttempt, Goto
  <2>4. Begun'
    BY <1>t, <1>9 DEF TypeInv, TypeOK, CallsWellFormed, PayloadInv, Begun,
       CreateAttempt, Goto
  <2>5. Fresh'
    BY <1>t, <1>9 DEF TypeInv, TypeOK, CallsWellFormed, PayloadInv, Fresh,
       Begun, CreateAttempt, Goto
  <2>6. LiveCounted'
    BY <1>t, <1>9 DEF TypeInv, TypeOK, CallsWellFormed, AttemptsClaimed,
       ClaimInv, OneClaim, ClaimedLeft, InFlight, Claimed, LedgerAgrees,
       PayloadInv, PayloadStage, LiveCounted, Spent, CreateAttempt, Goto
  <2> QED
    BY <2>1, <2>2, <2>3, <2>4, <2>5, <2>6 DEF PayloadInv
<1>10. ASSUME NEW r \in Requests, Sign(r)
      PROVE  PayloadInv'
  <2>1. PayloadStage'
    BY <1>t, <1>10 DEF TypeInv, TypeOK, AttemptsClaimed, PayloadInv,
       PayloadStage, Sign, Goto
  <2>2. Names'
    BY <1>t, <1>10 DEF TypeInv, TypeOK, CallsWellFormed, PayloadInv, Names,
       Nameable, PayloadStage, Sign, Goto
  <2>3. Observed'
    BY <1>t, <1>10 DEF TypeInv, TypeOK, AttemptsClaimed, PayloadInv, Observed,
       PayloadStage, Observation, Sign, Goto
  <2>4. Begun'
    BY <1>t, <1>10 DEF TypeInv, TypeOK, CallsWellFormed, PayloadInv, Begun,
       Sign, Goto
  <2>5. Fresh'
    BY <1>t, <1>10 DEF TypeInv, TypeOK, CallsWellFormed, PayloadInv, Fresh,
       Begun, Sign, Goto
  <2>6. LiveCounted'
    BY <1>t, <1>10 DEF TypeInv, TypeOK, CallsWellFormed, AttemptsClaimed,
       ClaimInv, OneClaim, ClaimedLeft, InFlight, Claimed, LedgerAgrees,
       PayloadInv, PayloadStage, LiveCounted, Spent, Sign, Goto
  <2> QED
    BY <2>1, <2>2, <2>3, <2>4, <2>5, <2>6 DEF PayloadInv
<1>11. ASSUME NEW r \in Requests, Send(r)
      PROVE  PayloadInv'
  <2>1. PayloadStage'
    BY <1>t, <1>11 DEF TypeInv, TypeOK, AttemptsClaimed, PayloadInv,
       PayloadStage, Send, Goto
  <2>2. Names'
    BY <1>t, <1>11 DEF TypeInv, TypeOK, CallsWellFormed, PayloadInv, Names,
       Nameable, PayloadStage, Send, Goto
  <2>3. Observed'
    BY <1>t, <1>11 DEF TypeInv, TypeOK, AttemptsClaimed, PayloadInv, Observed,
       PayloadStage, Observation, Send, Goto
  <2>4. Begun'
    BY <1>t, <1>11 DEF TypeInv, TypeOK, CallsWellFormed, PayloadInv, Begun,
       Send, Goto
  <2>5. Fresh'
    BY <1>t, <1>11 DEF TypeInv, TypeOK, CallsWellFormed, PayloadInv, Fresh,
       Begun, Send, Goto
  <2>6. LiveCounted'
    BY <1>t, <1>11 DEF TypeInv, TypeOK, CallsWellFormed, AttemptsClaimed,
       ClaimInv, OneClaim, ClaimedLeft, InFlight, Claimed, LedgerAgrees,
       PayloadInv, PayloadStage, LiveCounted, Spent, Send, Goto
  <2> QED
    BY <2>1, <2>2, <2>3, <2>4, <2>5, <2>6 DEF PayloadInv
<1>12. ASSUME NEW r \in Requests, Fulfilled(r)
      PROVE  PayloadInv'
  <2>1. PayloadStage'
    BY <1>t, <1>12 DEF TypeInv, TypeOK, AttemptsClaimed, PayloadInv,
       PayloadStage, Fulfilled, Goto, Reportable
  <2>2. Names'
    BY <1>t, <1>12 DEF TypeInv, TypeOK, CallsWellFormed, PayloadInv, Names,
       Nameable, PayloadStage, Fulfilled, Goto, Reportable
  <2>3. Observed'
    BY <1>t, <1>12 DEF TypeInv, TypeOK, AttemptsClaimed, PayloadInv, Observed,
       PayloadStage, Observation, Fulfilled, Goto, Reportable
  <2>4. Begun'
    BY <1>t, <1>12 DEF TypeInv, TypeOK, CallsWellFormed, PayloadInv, Begun,
       Fulfilled, Goto, Reportable
  <2>5. Fresh'
    BY <1>t, <1>12 DEF TypeInv, TypeOK, CallsWellFormed, PayloadInv, Fresh,
       Begun, Fulfilled, Goto, Reportable
  <2>6. LiveCounted'
    BY <1>t, <1>12 DEF TypeInv, TypeOK, CallsWellFormed, AttemptsClaimed,
       ClaimInv, OneClaim, ClaimedLeft, InFlight, Claimed, LedgerAgrees,
       PayloadInv, PayloadStage, LiveCounted, Spent, Fulfilled, Goto, Reportable
  <2> QED
    BY <2>1, <2>2, <2>3, <2>4, <2>5, <2>6 DEF PayloadInv
<1>13. ASSUME NEW r \in Requests, SubmissionUnknown(r)
      PROVE  PayloadInv'
  <2>1. PayloadStage'
    BY <1>t, <1>13 DEF TypeInv, TypeOK, AttemptsClaimed, PayloadInv,
       PayloadStage, SubmissionUnknown, Goto, Reportable
  <2>2. Names'
    BY <1>t, <1>13 DEF TypeInv, TypeOK, CallsWellFormed, PayloadInv, Names,
       Nameable, PayloadStage, SubmissionUnknown, Goto, Reportable
  <2>3. Observed'
    BY <1>t, <1>13 DEF TypeInv, TypeOK, AttemptsClaimed, PayloadInv, Observed,
       PayloadStage, Observation, SubmissionUnknown, Goto, Reportable
  <2>4. Begun'
    BY <1>t, <1>13 DEF TypeInv, TypeOK, CallsWellFormed, PayloadInv, Begun,
       SubmissionUnknown, Goto, Reportable
  <2>5. Fresh'
    BY <1>t, <1>13 DEF TypeInv, TypeOK, CallsWellFormed, PayloadInv, Fresh,
       Begun, SubmissionUnknown, Goto, Reportable
  <2>6. LiveCounted'
    BY <1>t, <1>13 DEF TypeInv, TypeOK, CallsWellFormed, AttemptsClaimed,
       ClaimInv, OneClaim, ClaimedLeft, InFlight, Claimed, LedgerAgrees,
       PayloadInv, PayloadStage, LiveCounted, Spent, SubmissionUnknown, Goto,
       Reportable
  <2> QED
    BY <2>1, <2>2, <2>3, <2>4, <2>5, <2>6 DEF PayloadInv
<1>14. ASSUME NEW r \in Requests, ResourceRefuses(r)
      PROVE  PayloadInv'
  <2>1. PayloadStage'
    BY <1>t, <1>14 DEF TypeInv, TypeOK, AttemptsClaimed, PayloadInv,
       PayloadStage, ResourceRefuses, Goto
  <2>2. Names'
    BY <1>t, <1>14 DEF TypeInv, TypeOK, CallsWellFormed, PayloadInv, Names,
       Nameable, PayloadStage, ResourceRefuses, Goto
  <2>3. Observed'
    BY <1>t, <1>14 DEF TypeInv, TypeOK, AttemptsClaimed, PayloadInv, Observed,
       PayloadStage, Observation, ResourceRefuses, Goto
  <2>4. Begun'
    BY <1>t, <1>14 DEF TypeInv, TypeOK, CallsWellFormed, PayloadInv, Begun,
       ResourceRefuses, Goto
  <2>5. Fresh'
    BY <1>t, <1>14 DEF TypeInv, TypeOK, CallsWellFormed, PayloadInv, Fresh,
       Begun, ResourceRefuses, Goto
  <2>6. LiveCounted'
    BY <1>t, <1>14 DEF TypeInv, TypeOK, CallsWellFormed, AttemptsClaimed,
       ClaimInv, OneClaim, ClaimedLeft, InFlight, Claimed, LedgerAgrees,
       PayloadInv, PayloadStage, LiveCounted, Spent, ResourceRefuses, Goto
  <2> QED
    BY <2>1, <2>2, <2>3, <2>4, <2>5, <2>6 DEF PayloadInv
<1>15. ASSUME NEW r \in Requests, RecordSubmitted(r)
      PROVE  PayloadInv'
  <2>1. PayloadStage'
    BY <1>t, <1>15 DEF TypeInv, TypeOK, AttemptsClaimed, PayloadInv,
       PayloadStage, RecordSubmitted, Goto
  <2>2. Names'
    <3>1. /\ pc[r] = "submitted" /\ pc'[r] # "refuse"
          /\ UNCHANGED <<report, chain>>
          /\ candidate' = [candidate EXCEPT ![r] = report[r]] \/ candidate' = candidate
      BY <1>t, <1>15 DEF TypeInv, TypeOK, RecordSubmitted, Goto
    <3>2. \A s \in Requests \ {r} : pc'[s] = pc[s] /\ candidate'[s] = candidate[s]
      BY <1>t, <1>15 DEF TypeInv, TypeOK, RecordSubmitted, Goto
    <3>3. candidate'[r] \in {candidate[r], report[r]}
      BY <1>t, <3>1 DEF TypeInv, TypeOK
    <3> QED
      BY <1>t, <3>1, <3>2, <3>3 DEF PayloadInv, Names, Nameable
  <2>3. Observed'
    <3>1. pc[r] = "submitted" /\ pc'[r] \in {"settle", "unknown"} /\ UNCHANGED <<job, chain>>
      BY <1>t, <1>15 DEF TypeInv, TypeOK, RecordSubmitted, Goto
    <3>2. \A s \in Requests \ {r} : pc'[s] = pc[s] /\ attempt'[s] = attempt[s]
      BY <1>t, <1>15 DEF TypeInv, TypeOK, RecordSubmitted, Goto
    <3>3. attempt'[r] \notin {"UNKNOWN", "FAILED"}
      BY <1>t, <1>15 DEF TypeInv, TypeOK, RecordSubmitted, PayloadInv, Observed
    <3>4. \A k \in Jobs : job[k] # None => job[k].attempt \in Requests
      BY <1>t DEF TypeInv, TypeOK, Observation
    <3> QED
      BY <1>t, <3>1, <3>2, <3>3, <3>4 DEF PayloadInv, Observed
  <2>4. Begun'
    BY <1>t, <1>15 DEF TypeInv, TypeOK, CallsWellFormed, PayloadInv, Begun,
       RecordSubmitted, Goto
  <2>5. Fresh'
    BY <1>t, <1>15 DEF TypeInv, TypeOK, CallsWellFormed, PayloadInv, Fresh,
       Begun, RecordSubmitted, Goto
  <2>6. LiveCounted'
    BY <1>t, <1>15 DEF TypeInv, TypeOK, CallsWellFormed, AttemptsClaimed,
       ClaimInv, OneClaim, ClaimedLeft, InFlight, Claimed, LedgerAgrees,
       PayloadInv, PayloadStage, LiveCounted, Spent, RecordSubmitted, Goto
  <2> QED
    BY <2>1, <2>2, <2>3, <2>4, <2>5, <2>6 DEF PayloadInv
<1>16. ASSUME NEW r \in Requests, CommitSettlement(r)
      PROVE  PayloadInv'
  <2>1. PayloadStage'
    BY <1>t, <1>16 DEF TypeInv, TypeOK, AttemptsClaimed, PayloadInv,
       PayloadStage, CommitSettlement, Goto
  <2>2. Names'
    BY <1>t, <1>16 DEF TypeInv, TypeOK, CallsWellFormed, PayloadInv, Names,
       Nameable, PayloadStage, CommitSettlement, Goto
  <2>3. Observed'
    BY <1>t, <1>16 DEF TypeInv, TypeOK, AttemptsClaimed, PayloadInv, Observed,
       PayloadStage, Observation, CommitSettlement, Goto
  <2>4. Begun'
    BY <1>t, <1>16 DEF TypeInv, TypeOK, CallsWellFormed, PayloadInv, Begun,
       CommitSettlement, Goto
  <2>5. Fresh'
    BY <1>t, <1>16 DEF TypeInv, TypeOK, CallsWellFormed, PayloadInv, Fresh,
       Begun, CommitSettlement, Goto
  <2>6. LiveCounted'
    BY <1>t, <1>16 DEF TypeInv, TypeOK, CallsWellFormed, AttemptsClaimed,
       ClaimInv, OneClaim, ClaimedLeft, InFlight, Claimed, LedgerAgrees,
       PayloadInv, PayloadStage, LiveCounted, Spent, CommitSettlement, Goto
  <2> QED
    BY <2>1, <2>2, <2>3, <2>4, <2>5, <2>6 DEF PayloadInv
<1>17. ASSUME NEW r \in Requests, AbortSettlement(r)
      PROVE  PayloadInv'
  <2>1. PayloadStage'
    BY <1>t, <1>17 DEF TypeInv, TypeOK, AttemptsClaimed, PayloadInv,
       PayloadStage, AbortSettlement, Goto
  <2>2. Names'
    BY <1>t, <1>17 DEF TypeInv, TypeOK, CallsWellFormed, PayloadInv, Names,
       Nameable, PayloadStage, AbortSettlement, Goto
  <2>3. Observed'
    BY <1>t, <1>17 DEF TypeInv, TypeOK, AttemptsClaimed, PayloadInv, Observed,
       PayloadStage, Observation, AbortSettlement, Goto
  <2>4. Begun'
    BY <1>t, <1>17 DEF TypeInv, TypeOK, CallsWellFormed, PayloadInv, Begun,
       AbortSettlement, Goto
  <2>5. Fresh'
    BY <1>t, <1>17 DEF TypeInv, TypeOK, CallsWellFormed, PayloadInv, Fresh,
       Begun, AbortSettlement, Goto
  <2>6. LiveCounted'
    BY <1>t, <1>17 DEF TypeInv, TypeOK, CallsWellFormed, AttemptsClaimed,
       ClaimInv, OneClaim, ClaimedLeft, InFlight, Claimed, LedgerAgrees,
       PayloadInv, PayloadStage, LiveCounted, Spent, AbortSettlement, Goto
  <2> QED
    BY <2>1, <2>2, <2>3, <2>4, <2>5, <2>6 DEF PayloadInv
<1>18. ASSUME NEW r \in Requests, MarkSubmissionUnknown(r)
      PROVE  PayloadInv'
  <2>1. PayloadStage'
    BY <1>t, <1>18 DEF TypeInv, TypeOK, AttemptsClaimed, PayloadInv,
       PayloadStage, MarkSubmissionUnknown, Goto
  <2>2. Names'
    BY <1>t, <1>18 DEF TypeInv, TypeOK, CallsWellFormed, PayloadInv, Names,
       Nameable, PayloadStage, MarkSubmissionUnknown, Goto
  <2>3. Observed'
    BY <1>t, <1>18 DEF TypeInv, TypeOK, AttemptsClaimed, PayloadInv, Observed,
       PayloadStage, Observation, MarkSubmissionUnknown, Goto
  <2>4. Begun'
    BY <1>t, <1>18 DEF TypeInv, TypeOK, CallsWellFormed, PayloadInv, Begun,
       MarkSubmissionUnknown, Goto
  <2>5. Fresh'
    BY <1>t, <1>18 DEF TypeInv, TypeOK, CallsWellFormed, PayloadInv, Fresh,
       Begun, MarkSubmissionUnknown, Goto
  <2>6. LiveCounted'
    BY <1>t, <1>18 DEF TypeInv, TypeOK, CallsWellFormed, AttemptsClaimed,
       ClaimInv, OneClaim, ClaimedLeft, InFlight, Claimed, LedgerAgrees,
       PayloadInv, PayloadStage, LiveCounted, Spent, MarkSubmissionUnknown, Goto
  <2> QED
    BY <2>1, <2>2, <2>3, <2>4, <2>5, <2>6 DEF PayloadInv
<1>19. ASSUME NEW r \in Requests, FailAttempt(r)
      PROVE  PayloadInv'
  <2>1. PayloadStage'
    BY <1>t, <1>19 DEF TypeInv, TypeOK, AttemptsClaimed, PayloadInv,
       PayloadStage, FailAttempt, Goto, ReleaseActive
  <2>2. Names'
    BY <1>t, <1>19 DEF TypeInv, TypeOK, CallsWellFormed, PayloadInv, Names,
       Nameable, PayloadStage, FailAttempt, Goto, ReleaseActive
  <2>3. Observed'
    BY <1>t, <1>19 DEF TypeInv, TypeOK, AttemptsClaimed, PayloadInv, Observed,
       PayloadStage, Observation, FailAttempt, Goto, ReleaseActive
  <2>4. Begun'
    BY <1>t, <1>19 DEF TypeInv, TypeOK, CallsWellFormed, PayloadInv, Begun,
       FailAttempt, Goto, ReleaseActive
  <2>5. Fresh'
    BY <1>t, <1>19 DEF TypeInv, TypeOK, CallsWellFormed, PayloadInv, Fresh,
       Begun, FailAttempt, Goto, ReleaseActive
  <2>6. LiveCounted'
    BY <1>t, <1>19 DEF TypeInv, TypeOK, CallsWellFormed, AttemptsClaimed,
       ClaimInv, OneClaim, ClaimedLeft, InFlight, Claimed, LedgerAgrees,
       PayloadInv, PayloadStage, LiveCounted, Spent, FailAttempt, Goto,
       ReleaseActive
  <2> QED
    BY <2>1, <2>2, <2>3, <2>4, <2>5, <2>6 DEF PayloadInv
<1>20. ASSUME NEW r \in Requests, CancelWrite(r)
      PROVE  PayloadInv'
  <2>1. PayloadStage'
    BY <1>t, <1>20 DEF TypeInv, TypeOK, AttemptsClaimed, PayloadInv,
       PayloadStage, CancelWrite, Return, ReleaseActive, Cancelable
  <2>2. Names'
    BY <1>t, <1>20 DEF TypeInv, TypeOK, CallsWellFormed, PayloadInv, Names,
       Nameable, PayloadStage, CancelWrite, Return, ReleaseActive, Cancelable
  <2>3. Observed'
    BY <1>t, <1>20 DEF TypeInv, TypeOK, AttemptsClaimed, PayloadInv, Observed,
       PayloadStage, Observation, CancelWrite, Return, ReleaseActive, Cancelable
  <2>4. Begun'
    BY <1>t, <1>20 DEF TypeInv, TypeOK, CallsWellFormed, PayloadInv, Begun,
       CancelWrite, Return, ReleaseActive, Cancelable
  <2>5. Fresh'
    BY <1>t, <1>20 DEF TypeInv, TypeOK, CallsWellFormed, PayloadInv, Fresh,
       Begun, CancelWrite, Return, ReleaseActive, Cancelable
  <2>6. LiveCounted'
    <3>1. UNCHANGED <<chain, attempt>> /\ overtaken \subseteq overtaken' /\ on[r] \in Intents /\ pc[r] = "cancel"
      BY <1>t, <1>20 DEF TypeInv, CallsWellFormed, CancelWrite
    <3>2. \A s \in Requests : pc[s] \in AfterClaim => on'[s] = on[s]
      BY <1>t, <1>20, <3>1 DEF TypeInv, TypeOK, CancelWrite, Return
    <3>3. \A j \in Intents \ {on[r]} : reservation'[j] = reservation[j]
      BY <1>t, <1>20 DEF TypeInv, TypeOK, CancelWrite, ReleaseActive
    <3>4. CASE status[on[r]] \in Cancelable
      BY <1>t, <3>1, <3>2, <3>3, <3>4, Unclaimed, LiveKept DEF TypeInv, CallsWellFormed, AttemptsClaimed, Cancelable
    <3>5. CASE status[on[r]] \notin Cancelable
      BY <1>t, <1>20, <3>1, <3>2, <3>3, <3>5, LiveKept DEF TypeInv, CallsWellFormed, AttemptsClaimed, CancelWrite
    <3> QED
      BY <3>4, <3>5
  <2> QED
    BY <2>1, <2>2, <2>3, <2>4, <2>5, <2>6 DEF PayloadInv
<1>21. ASSUME NEW r \in Requests, Crash(r)
      PROVE  PayloadInv'
  <2>1. PayloadStage'
    BY <1>t, <1>21 DEF TypeInv, TypeOK, AttemptsClaimed, PayloadInv,
       PayloadStage, Crash, Goto, Return
  <2>2. Names'
    BY <1>t, <1>21 DEF TypeInv, TypeOK, CallsWellFormed, PayloadInv, Names,
       Nameable, PayloadStage, Crash, Goto, Return
  <2>3. Observed'
    BY <1>t, <1>21 DEF TypeInv, TypeOK, AttemptsClaimed, PayloadInv, Observed,
       PayloadStage, Observation, Crash, Goto, Return
  <2>4. Begun'
    BY <1>t, <1>21 DEF TypeInv, TypeOK, CallsWellFormed, PayloadInv, Begun,
       Crash, Goto, Return
  <2>5. Fresh'
    BY <1>t, <1>21 DEF TypeInv, TypeOK, CallsWellFormed, PayloadInv, Fresh,
       Begun, Crash, Goto, Return
  <2>6. LiveCounted'
    <3>1. UNCHANGED <<chain, reservation, overtaken, attempt>>
      BY <1>21 DEF Crash
    <3>2. \A s \in Requests : pc[s] \in AfterClaim => on'[s] = on[s]
      BY <1>t, <1>21 DEF TypeInv, TypeOK, Crash, Goto, Return
    <3> QED
      BY <1>t, <3>1, <3>2, LiveKept DEF TypeInv, AttemptsClaimed
  <2> QED
    BY <2>1, <2>2, <2>3, <2>4, <2>5, <2>6 DEF PayloadInv
<1>22. ASSUME NEW r \in Requests, ChainDecides(r)
      PROVE  PayloadInv'
  <2>1. PayloadStage'
    BY <1>t, <1>22 DEF TypeInv, TypeOK, AttemptsClaimed, PayloadInv,
       PayloadStage, ChainDecides
  <2>2. Names'
    BY <1>t, <1>22 DEF TypeInv, TypeOK, CallsWellFormed, PayloadInv, Names,
       Nameable, PayloadStage, ChainDecides
  <2>3. Observed'
    BY <1>t, <1>22 DEF TypeInv, TypeOK, AttemptsClaimed, PayloadInv, Observed,
       PayloadStage, Observation, ChainDecides
  <2>4. Begun'
    BY <1>t, <1>22 DEF TypeInv, TypeOK, CallsWellFormed, PayloadInv, Begun,
       ChainDecides
  <2>5. Fresh'
    BY <1>t, <1>22 DEF TypeInv, TypeOK, CallsWellFormed, PayloadInv, Fresh,
       Begun, ChainDecides
  <2>6. LiveCounted'
    BY <1>t, <1>22 DEF TypeInv, TypeOK, CallsWellFormed, AttemptsClaimed,
       ClaimInv, OneClaim, ClaimedLeft, InFlight, Claimed, LedgerAgrees,
       PayloadInv, PayloadStage, LiveCounted, Spent, ChainDecides
  <2> QED
    BY <2>1, <2>2, <2>3, <2>4, <2>5, <2>6 DEF PayloadInv
<1>23. ASSUME NEW i \in Intents, ExpireIntent(i)
      PROVE  PayloadInv'
  <2>1. PayloadStage'
    BY <1>t, <1>23 DEF TypeInv, TypeOK, AttemptsClaimed, PayloadInv,
       PayloadStage, ExpireIntent, ReleaseActive, Expirable
  <2>2. Names'
    BY <1>t, <1>23 DEF TypeInv, TypeOK, CallsWellFormed, PayloadInv, Names,
       Nameable, PayloadStage, ExpireIntent, ReleaseActive, Expirable
  <2>3. Observed'
    BY <1>t, <1>23 DEF TypeInv, TypeOK, AttemptsClaimed, PayloadInv, Observed,
       PayloadStage, Observation, ExpireIntent, ReleaseActive, Expirable
  <2>4. Begun'
    BY <1>t, <1>23 DEF TypeInv, TypeOK, CallsWellFormed, PayloadInv, Begun,
       ExpireIntent, ReleaseActive, Expirable
  <2>5. Fresh'
    BY <1>t, <1>23 DEF TypeInv, TypeOK, CallsWellFormed, PayloadInv, Fresh,
       Begun, ExpireIntent, ReleaseActive, Expirable
  <2>6. LiveCounted'
    <3>1. /\ UNCHANGED <<chain, overtaken, attempt, on>>
          /\ status[i] \in {"APPROVAL_PENDING", "AUTHORIZED"}
          /\ ReleaseActive(i, "EXPIRED")
      BY <1>23 DEF ExpireIntent, Expirable
    <3>2. \A j \in Intents \ {i} : reservation'[j] = reservation[j]
      BY <1>t, <3>1 DEF TypeInv, TypeOK, ReleaseActive
    <3>3. \A s \in Requests : chain[s] # "unsent" => on[s] \in Intents \ {i}
      BY <1>t, <3>1, Unclaimed DEF TypeInv, CallsWellFormed, AttemptsClaimed
    <3> QED
      BY <1>t, <3>1, <3>2, <3>3, LiveKept
  <2> QED
    BY <2>1, <2>2, <2>3, <2>4, <2>5, <2>6 DEF PayloadInv
<1>24. ASSUME NEW i \in Intents, OpenIncident(i)
      PROVE  PayloadInv'
  <2>1. PayloadStage'
    BY <1>t, <1>24 DEF TypeInv, TypeOK, AttemptsClaimed, PayloadInv,
       PayloadStage, OpenIncident
  <2>2. Names'
    BY <1>t, <1>24 DEF TypeInv, TypeOK, CallsWellFormed, PayloadInv, Names,
       Nameable, PayloadStage, OpenIncident
  <2>3. Observed'
    BY <1>t, <1>24 DEF TypeInv, TypeOK, AttemptsClaimed, PayloadInv, Observed,
       PayloadStage, Observation, OpenIncident
  <2>4. Begun'
    BY <1>t, <1>24 DEF TypeInv, TypeOK, CallsWellFormed, PayloadInv, Begun,
       OpenIncident
  <2>5. Fresh'
    BY <1>t, <1>24 DEF TypeInv, TypeOK, CallsWellFormed, PayloadInv, Fresh,
       Begun, OpenIncident
  <2>6. LiveCounted'
    BY <1>t, <1>24 DEF TypeInv, TypeOK, CallsWellFormed, AttemptsClaimed,
       ClaimInv, OneClaim, ClaimedLeft, InFlight, Claimed, LedgerAgrees,
       PayloadInv, PayloadStage, LiveCounted, Spent, OpenIncident
  <2> QED
    BY <2>1, <2>2, <2>3, <2>4, <2>5, <2>6 DEF PayloadInv
<1>25. ASSUME NEW i \in Intents, Elapse(i)
      PROVE  PayloadInv'
  <2>1. PayloadStage'
    BY <1>t, <1>25 DEF TypeInv, TypeOK, AttemptsClaimed, PayloadInv,
       PayloadStage, Elapse
  <2>2. Names'
    BY <1>t, <1>25 DEF TypeInv, TypeOK, CallsWellFormed, PayloadInv, Names,
       Nameable, PayloadStage, Elapse
  <2>3. Observed'
    BY <1>t, <1>25 DEF TypeInv, TypeOK, AttemptsClaimed, PayloadInv, Observed,
       PayloadStage, Observation, Elapse
  <2>4. Begun'
    BY <1>t, <1>25 DEF TypeInv, TypeOK, CallsWellFormed, PayloadInv, Begun,
       Elapse
  <2>5. Fresh'
    BY <1>t, <1>25 DEF TypeInv, TypeOK, CallsWellFormed, PayloadInv, Fresh,
       Begun, Elapse
  <2>6. LiveCounted'
    BY <1>t, <1>25 DEF TypeInv, TypeOK, CallsWellFormed, AttemptsClaimed,
       ClaimInv, OneClaim, ClaimedLeft, InFlight, Claimed, LedgerAgrees,
       PayloadInv, PayloadStage, LiveCounted, Spent, Elapse
  <2> QED
    BY <2>1, <2>2, <2>3, <2>4, <2>5, <2>6 DEF PayloadInv
<1>26. ASSUME NEW k \in Jobs, Reconcile(k)
      PROVE  PayloadInv'
  <2>1. PayloadStage'
    BY <1>t, <1>26 DEF TypeInv, TypeOK, AttemptsClaimed, PayloadInv,
       PayloadStage, Reconcile, RejectSubmission
  <2>2. Names'
    BY <1>t, <1>26 DEF TypeInv, TypeOK, CallsWellFormed, PayloadInv, Names,
       Nameable, PayloadStage, Reconcile, RejectSubmission
  <2>3. Observed'
    <3>1. UNCHANGED <<pc, chain>> /\ job' = [job EXCEPT ![k] = None]
      BY <1>26 DEF Reconcile
    <3>2. \A s \in Requests : attempt'[s] \in {"UNKNOWN", "FAILED"} =>
              attempt[s] \in {"UNKNOWN", "FAILED"} \/ s = job[k].attempt
      <4>1. \A s \in Requests : s # job[k].attempt => attempt'[s] = attempt[s]
        <5>1. UNCHANGED attempt \/ \E x : attempt' = [attempt EXCEPT ![job[k].attempt] = x]
          BY <1>t, <1>26, ReconcileEffectLemma
          DEF ReconcileEffect, Confirmed, RejectSubmission
        <5> QED
          BY <1>t, <5>1 DEF TypeInv, TypeOK
      <4> QED
        BY <4>1
    <3>3. job[k] # None
      BY <1>26 DEF Reconcile
    <3>4. \A l \in Jobs : job'[l] # None => job'[l] = job[l]
      BY <1>t, <3>1 DEF TypeInv, TypeOK
    <3>5. pc[job[k].attempt] = "done"
      BY <1>t, <3>3 DEF PayloadInv, Observed
    <3>6. \A s \in Requests : attempt'[s] \in {"UNKNOWN", "FAILED"} => pc'[s] = "done"
      BY <1>t, <3>1, <3>2, <3>5 DEF PayloadInv, Observed
    <3>7. \A l \in Jobs : job'[l] # None =>
              /\ pc[job[l].attempt] = "done"
              /\ job[l].outcome = "FAILED" /\ ~Misreports => chain[job[l].attempt] = "failed"
              /\ job[l].outcome = "CONFIRMED" /\ ~Misreports => chain[job[l].attempt] = "success"
      BY <1>t, <3>4 DEF PayloadInv, Observed
    <3> QED
      BY <3>1, <3>4, <3>6, <3>7 DEF Observed
  <2>4. Begun'
    <3>1. UNCHANGED <<pc, on>>
      BY <1>26 DEF Reconcile
    <3>2. UNCHANGED status \/ \E s \in {"SETTLED", "SETTLEMENT_FAILED"} :
              status' = [status EXCEPT ![on[job[k].attempt]] = s]
      BY <1>26 DEF Reconcile, RejectSubmission
    <3> QED
      BY <1>t, <3>1, <3>2 DEF TypeInv, TypeOK, CallsWellFormed, PayloadInv, Begun
  <2>5. Fresh'
    <3>0. on[job[k].attempt] \in Intents
      BY <1>t, <1>26, ReconcileEffectLemma DEF ReconcileEffect
    <3>1. CASE UNCHANGED <<status, reservation>>
      BY <1>t, <3>1 DEF PayloadInv, Fresh
    <3>2. CASE \E x : \E s \in {"SETTLED", "SETTLEMENT_FAILED"} :
                   /\ status' = [status EXCEPT ![on[job[k].attempt]] = s]
                   /\ reservation' = [reservation EXCEPT ![on[job[k].attempt]] = x]
      BY <1>t, <3>0, <3>2 DEF TypeInv, TypeOK, PayloadInv, Fresh
    <3> QED
      BY <1>26, <3>1, <3>2 DEF Reconcile, RejectSubmission, ReleaseActive
  <2>6. LiveCounted'
    <3> DEFINE a == job[k].attempt
    <3>1. /\ a \in Requests /\ on[a] \in Intents /\ pc[a] \in AfterClaim
          /\ UNCHANGED <<on, chain, overtaken>>
      BY <1>t, <1>26, ReconcileEffectLemma DEF ReconcileEffect
    <3>2. \/ UNCHANGED <<reservation, attempt>>
          \/ Confirmed(a)
          \/ RejectSubmission(a, "CONSUMED")
          \/ job[k].outcome = "FAILED" /\ RejectSubmission(a, "RELEASED")
      BY <1>26 DEF Reconcile, Confirmed
    <3>3. \A s \in Requests \ {a} : chain[s] \in {"sent", "success"} =>
              /\ on[s] \in Intents /\ on[s] # on[a]
              /\ reservation'[on[s]] = reservation[on[s]] /\ attempt'[s] = attempt[s]
      <4>1. \A s \in Requests \ {a} : chain[s] \in {"sent", "success"} =>
                on[s] \in Intents /\ on[s] # on[a]
        BY <1>t, <3>1 DEF TypeInv, CallsWellFormed, AttemptsClaimed, ClaimInv, OneClaim, Claimed
      <4> QED
        BY <1>t, <3>1, <3>2, <4>1 DEF TypeInv, TypeOK, Confirmed, RejectSubmission, ReleaseActive
    <3>4. chain[a] \in {"sent", "success"} =>
              \/ reservation'[on[a]] = reservation[on[a]] /\ attempt'[a] = attempt[a]
              \/ reservation'[on[a]] \in Spent
              \/ on[a] \in overtaken
              \/ Misreports /\ attempt'[a] = "FAILED"
      <4> SUFFICES ASSUME chain[a] \in {"sent", "success"}
                   PROVE  \/ reservation'[on[a]] = reservation[on[a]] /\ attempt'[a] = attempt[a]
                          \/ reservation'[on[a]] \in Spent
                          \/ on[a] \in overtaken
                          \/ Misreports /\ attempt'[a] = "FAILED"
        OBVIOUS
      <4>1. CASE Confirmed(a)
        BY <1>t, <3>1, <4>1 DEF TypeInv, TypeOK, Confirmed, Spent
      <4>2. CASE RejectSubmission(a, "CONSUMED")
        <5>1. /\ attempt'[a] = "FAILED"
              /\ reservation[on[a]] \in Spent => reservation'[on[a]] \in Spent
          BY <1>t, <3>1, <4>2 DEF TypeInv, TypeOK, RejectSubmission, ReleaseActive, Spent
        <5> QED
          BY <1>t, <3>1, <5>1 DEF PayloadInv, LiveCounted
      <4>3. CASE job[k].outcome = "FAILED" /\ RejectSubmission(a, "RELEASED")
        <5>1. attempt'[a] = "FAILED"
          BY <1>t, <3>1, <4>3 DEF TypeInv, TypeOK, RejectSubmission
        <5>2. Misreports
          BY <1>t, <1>26, <4>3 DEF PayloadInv, Observed, Reconcile
        <5> QED
          BY <5>1, <5>2
      <4> QED
        BY <3>2, <4>1, <4>2, <4>3
    <3> HIDE DEF a
    <3> QED
      BY <1>t, <3>1, <3>3, <3>4, LiveKept
  <2> QED
    BY <2>1, <2>2, <2>3, <2>4, <2>5, <2>6 DEF PayloadInv
<1>27. ASSUME NEW k \in Jobs, NEW r \in Requests, Observe(k, r)
      PROVE  PayloadInv'
  <2>1. PayloadStage'
    BY <1>t, <1>27 DEF TypeInv, TypeOK, AttemptsClaimed, PayloadInv,
       PayloadStage, Observe, Reconcilable, ReconciliationOutcome, Observation
  <2>2. Names'
    BY <1>t, <1>27 DEF TypeInv, TypeOK, CallsWellFormed, PayloadInv, Names,
       Nameable, PayloadStage, Observe, Reconcilable, ReconciliationOutcome,
       Observation
  <2>3. Observed'
    <3>1. /\ r \in Requests /\ attempt[r] = "UNKNOWN" /\ candidate[r] # None
          /\ chain[candidate[r]] \in {"success", "failed"}
          /\ job' = [job EXCEPT ![k] = [attempt |-> r, outcome |-> ReconciliationOutcome(r)]]
          /\ UNCHANGED <<pc, chain, attempt>>
      BY <1>t, <1>27 DEF Observe, Reconcilable
    <3>2. candidate[r] = r \/ Misreports
      BY <1>t, <3>1 DEF PayloadInv, Names, Nameable
    <3>3. /\ ReconciliationOutcome(r) = "FAILED" /\ ~Misreports => chain[r] = "failed"
          /\ ReconciliationOutcome(r) = "CONFIRMED" /\ ~Misreports => chain[r] = "success"
      BY <3>1, <3>2 DEF ReconciliationOutcome
    <3> QED
      BY <1>t, <3>1, <3>3 DEF TypeInv, TypeOK, PayloadInv, Observed
  <2>4. Begun'
    BY <1>t, <1>27 DEF TypeInv, TypeOK, CallsWellFormed, PayloadInv, Begun,
       Observe, Reconcilable, ReconciliationOutcome, Observation
  <2>5. Fresh'
    BY <1>t, <1>27 DEF TypeInv, TypeOK, CallsWellFormed, PayloadInv, Fresh,
       Begun, Observe, Reconcilable, ReconciliationOutcome, Observation
  <2>6. LiveCounted'
    BY <1>t, <1>27 DEF TypeInv, TypeOK, CallsWellFormed, AttemptsClaimed,
       ClaimInv, OneClaim, ClaimedLeft, InFlight, Claimed, LedgerAgrees,
       PayloadInv, PayloadStage, LiveCounted, Spent, Observe, Reconcilable,
       ReconciliationOutcome, Observation
  <2> QED
    BY <2>1, <2>2, <2>3, <2>4, <2>5, <2>6 DEF PayloadInv
<1>28. ASSUME SetKillSwitch PROVE PayloadInv'
  <2>1. PayloadStage'
    BY <1>t, <1>28 DEF TypeInv, TypeOK, AttemptsClaimed, PayloadInv,
       PayloadStage, SetKillSwitch
  <2>2. Names'
    BY <1>t, <1>28 DEF TypeInv, TypeOK, CallsWellFormed, PayloadInv, Names,
       Nameable, PayloadStage, SetKillSwitch
  <2>3. Observed'
    BY <1>t, <1>28 DEF TypeInv, TypeOK, AttemptsClaimed, PayloadInv, Observed,
       PayloadStage, Observation, SetKillSwitch
  <2>4. Begun'
    BY <1>t, <1>28 DEF TypeInv, TypeOK, CallsWellFormed, PayloadInv, Begun,
       SetKillSwitch
  <2>5. Fresh'
    BY <1>t, <1>28 DEF TypeInv, TypeOK, CallsWellFormed, PayloadInv, Fresh,
       Begun, SetKillSwitch
  <2>6. LiveCounted'
    BY <1>t, <1>28 DEF TypeInv, TypeOK, CallsWellFormed, AttemptsClaimed,
       ClaimInv, OneClaim, ClaimedLeft, InFlight, Claimed, LedgerAgrees,
       PayloadInv, PayloadStage, LiveCounted, Spent, SetKillSwitch
  <2> QED
    BY <2>1, <2>2, <2>3, <2>4, <2>5, <2>6 DEF PayloadInv
<1>29. ASSUME PublishPolicy PROVE PayloadInv'
  <2>1. PayloadStage'
    BY <1>t, <1>29 DEF TypeInv, TypeOK, AttemptsClaimed, PayloadInv,
       PayloadStage, PublishPolicy
  <2>2. Names'
    BY <1>t, <1>29 DEF TypeInv, TypeOK, CallsWellFormed, PayloadInv, Names,
       Nameable, PayloadStage, PublishPolicy
  <2>3. Observed'
    BY <1>t, <1>29 DEF TypeInv, TypeOK, AttemptsClaimed, PayloadInv, Observed,
       PayloadStage, Observation, PublishPolicy
  <2>4. Begun'
    BY <1>t, <1>29 DEF TypeInv, TypeOK, CallsWellFormed, PayloadInv, Begun,
       PublishPolicy
  <2>5. Fresh'
    BY <1>t, <1>29 DEF TypeInv, TypeOK, CallsWellFormed, PayloadInv, Fresh,
       Begun, PublishPolicy
  <2>6. LiveCounted'
    BY <1>t, <1>29 DEF TypeInv, TypeOK, CallsWellFormed, AttemptsClaimed,
       ClaimInv, OneClaim, ClaimedLeft, InFlight, Claimed, LedgerAgrees,
       PayloadInv, PayloadStage, LiveCounted, Spent, PublishPolicy
  <2> QED
    BY <2>1, <2>2, <2>3, <2>4, <2>5, <2>6 DEF PayloadInv
<1>30. ASSUME UNCHANGED vars PROVE PayloadInv'
  <2>1. PayloadStage'
    BY <1>t, <1>30 DEF TypeInv, TypeOK, AttemptsClaimed, PayloadInv,
       PayloadStage, vars
  <2>2. Names'
    BY <1>t, <1>30 DEF TypeInv, TypeOK, CallsWellFormed, PayloadInv, Names,
       Nameable, PayloadStage, vars
  <2>3. Observed'
    BY <1>t, <1>30 DEF TypeInv, TypeOK, AttemptsClaimed, PayloadInv, Observed,
       PayloadStage, Observation, vars
  <2>4. Begun'
    BY <1>t, <1>30 DEF TypeInv, TypeOK, CallsWellFormed, PayloadInv, Begun, vars
  <2>5. Fresh'
    BY <1>t, <1>30 DEF TypeInv, TypeOK, CallsWellFormed, PayloadInv, Fresh,
       Begun, vars
  <2>6. LiveCounted'
    BY <1>t, <1>30 DEF TypeInv, TypeOK, CallsWellFormed, AttemptsClaimed,
       ClaimInv, OneClaim, ClaimedLeft, InFlight, Claimed, LedgerAgrees,
       PayloadInv, PayloadStage, LiveCounted, Spent, vars
  <2> QED
    BY <2>1, <2>2, <2>3, <2>4, <2>5, <2>6 DEF PayloadInv
<1> QED
  BY <1>1, <1>2, <1>3, <1>4, <1>5, <1>6, <1>7, <1>8, <1>9, <1>10, <1>11, <1>12,
     <1>13, <1>14, <1>15, <1>16, <1>17, <1>18, <1>19, <1>20, <1>21, <1>22,
     <1>23, <1>24, <1>25, <1>26, <1>27, <1>28, <1>29, <1>30 DEF Next, Call,
     Proceed

(***************************************************************************)
(* The payload discipline, from the start.                                 *)
(***************************************************************************)
LEMMA PayloadInvariant == Spec => [](TypeInv /\ ClaimInv /\ LedgerAgrees /\ PayloadInv)
<1>1. Init => PayloadInv
  BY DEF Init, PayloadInv, PayloadStage, Names, Nameable, Observed, Begun, Fresh,
     LiveCounted
<1>2. TypeInv /\ TypeInv' /\ ClaimInv /\ LedgerAgrees /\ PayloadInv /\ [Next]_vars => PayloadInv'
  BY PayloadStep
<1> QED
  BY <1>1, <1>2, TypeInvariant, ClaimInvariant, LedgerAgreement, PTL DEF Spec

(***************************************************************************)
(* Money that moved stays counted against the budget, through timeouts,    *)
(* crashes, replays and reconciliation (payment-service.ts and the         *)
(* reconciliation services), unless a late cancellation overtook it or its *)
(* attempt failed on a resource's misreport.                               *)
(***************************************************************************)
THEOREM PaidIsCommitted == Spec => []PaidStaysCommitted
<1>1. PayloadInv => PaidStaysCommitted
  BY DEF PayloadInv, LiveCounted, PaidStaysCommitted
<1> QED
  BY <1>1, PayloadInvariant, PTL

-----------------------------------------------------------------------------
(* The refinement mapping, and what a step does to it.                     *)

PhaseBar == [i \in Intents |-> PhaseOf(status[i])]
CountedBar == {i \in Intents : reservation[i] \in Spent}
MovedBar == [r \in Requests |-> IF chain[r] = "success" THEN on[r] ELSE None]

(***************************************************************************)
(* The phase of every status.                                              *)
(***************************************************************************)
LEMMA PhaseTable ==
    /\ PhaseOf("none") = "new"
    /\ \A s \in {"APPROVAL_PENDING", "AUTHORIZED"} : PhaseOf(s) = "open"
    /\ \A s \in {"SIGNING", "SUBMISSION_UNKNOWN"} : PhaseOf(s) = "working"
    /\ PhaseOf("SETTLED") = "settled"
    /\ \A s \in PaymentStatus \ {"none", "APPROVAL_PENDING", "AUTHORIZED", "SIGNING",
                                 "SUBMISSION_UNKNOWN", "SETTLED"} : PhaseOf(s) = "refused"
BY DEF PhaseOf, PaymentStatus

(***************************************************************************)
(* Nothing moved for an intent that no successful payload is for.          *)
(***************************************************************************)
LEMMA NotMoved ==
    ASSUME TypeInv, NEW i \in Intents, \A s \in Requests : chain[s] = "success" => on[s] # i
    PROVE  i \notin Promised!Moved
BY ConstantsAssumption DEF ConstantsAssumption, Promised!Moved

(***************************************************************************)
(* The abstract state after a write of one intent and its reservation.     *)
(***************************************************************************)
LEMMA RowsBar ==
    ASSUME TypeInv, NEW i \in Intents, NEW s, NEW x, UNCHANGED chain,
           status' = [status EXCEPT ![i] = s],
           reservation' = [reservation EXCEPT ![i] = x],
           \A r \in Requests : chain[r] = "success" => on'[r] = on[r]
    PROVE  /\ PhaseBar' = [PhaseBar EXCEPT ![i] = PhaseOf(s)]
           /\ CountedBar' = IF x \in Spent THEN CountedBar \cup {i} ELSE CountedBar \ {i}
           /\ MovedBar' = MovedBar
<1>1. PhaseBar' = [PhaseBar EXCEPT ![i] = PhaseOf(s)]
  BY DEF PhaseBar, TypeInv, TypeOK
<1>2. CountedBar' = IF x \in Spent THEN CountedBar \cup {i} ELSE CountedBar \ {i}
  BY DEF CountedBar, TypeInv, TypeOK
<1>3. MovedBar' = MovedBar
  BY DEF MovedBar
<1> QED
  BY <1>1, <1>2, <1>3

(***************************************************************************)
(* A step that leaves rows, cancellations and successes alone stutters.    *)
(***************************************************************************)
LEMMA QuietStep ==
    ASSUME TypeInv, UNCHANGED <<status, reservation, overtaken>>,
           \A r \in Requests : /\ chain'[r] = "success" <=> chain[r] = "success"
                               /\ chain[r] = "success" => on'[r] = on[r]
    PROVE  UNCHANGED Promised!promised
BY DEF Promised!promised

(***************************************************************************)
(* Giving up an intent that is not paid, as far as an honest resource      *)
(* says, with its reservation.                                             *)
(***************************************************************************)
LEMMA GiveUpStep ==
    ASSUME TypeInv, NEW i \in Intents, NEW s, NEW x, UNCHANGED <<chain, overtaken>>,
           status[i] \in {"APPROVAL_PENDING", "AUTHORIZED", "SIGNING", "SUBMISSION_UNKNOWN"},
           \A r \in Requests : chain[r] = "success" => on'[r] = on[r],
           \A r \in Requests : chain[r] = "success" /\ on[r] = i =>
               Misreports /\ status[i] \notin {"APPROVAL_PENDING", "AUTHORIZED"},
           PhaseOf(s) = "refused", x \notin Spent,
           status' = [status EXCEPT ![i] = s],
           reservation' = [reservation EXCEPT ![i] = x]
    PROVE  Promised!Next
<1>1. PhaseBar[i] \in {"open", "working"}
  BY PhaseTable DEF PhaseBar
<1>2. ~Misreports \/ PhaseBar[i] = "open" => i \notin Promised!Moved
  <2>1. PhaseBar[i] = "open" => status[i] \in {"APPROVAL_PENDING", "AUTHORIZED"}
    BY PhaseTable DEF PhaseBar
  <2> QED
    BY <2>1, NotMoved
<1>3. /\ PhaseBar' = [PhaseBar EXCEPT ![i] = "refused"]
      /\ CountedBar' = CountedBar \ {i}
      /\ MovedBar' = MovedBar
  BY RowsBar
<1>4. Promised!GiveUp(i)
  BY <1>1, <1>2, <1>3 DEF Promised!GiveUp, Promised!Become, PhaseBar, CountedBar, MovedBar
<1> QED
  BY <1>4 DEF Promised!Next

(***************************************************************************)
(* Whatever happens to the rows of an intent canceled late is foreseen.    *)
(***************************************************************************)
LEMMA UnrulyStep ==
    ASSUME TypeInv, NEW i \in overtaken, NEW s, NEW x, UNCHANGED <<chain, overtaken>>,
           \A r \in Requests : chain[r] = "success" => on'[r] = on[r],
           PhaseOf(s) \in {"working", "settled", "refused"},
           status' = [status EXCEPT ![i] = s],
           reservation' = [reservation EXCEPT ![i] = x]
    PROVE  Promised!Next
<1>0. i \in Intents
  BY DEF TypeInv, TypeOK
<1>1. /\ PhaseBar' = [PhaseBar EXCEPT ![i] = PhaseOf(s)]
      /\ CountedBar' \in {CountedBar \cup {i}, CountedBar \ {i}}
      /\ MovedBar' = MovedBar
  BY <1>0, RowsBar
<1>2. Promised!Unruly(i)
  BY <1>1 DEF Promised!Unruly, Promised!Become, PhaseBar, CountedBar, MovedBar
<1> QED
  BY <1>0, <1>2 DEF Promised!Next

(***************************************************************************)
(* A late cancellation, or money that moves, is a step of the promise.     *)
(***************************************************************************)
LEMMA OvertakeNext == ASSUME NEW i \in Intents, Promised!Overtake(i) PROVE Promised!Next
BY DEF Promised!Next

LEMMA MoveNext ==
    ASSUME NEW i \in Intents, NEW r \in Requests, Promised!Move(r, i) PROVE Promised!Next
BY DEF Promised!Next

(***************************************************************************)
(* A reservation given back with an intent that is not paid.               *)
(***************************************************************************)
LEMMA Released ==
    ASSUME TypeInv, NEW i \in Intents, UNCHANGED <<chain, overtaken>>,
           status[i] \in {"APPROVAL_PENDING", "AUTHORIZED", "SIGNING", "SUBMISSION_UNKNOWN"},
           LedgerAgrees,
           \A r \in Requests : chain[r] = "success" => on'[r] = on[r],
           \A r \in Requests : chain[r] = "success" /\ on[r] = i =>
               Misreports /\ status[i] \notin {"APPROVAL_PENDING", "AUTHORIZED"},
           NEW s \in {"REJECTED", "EXPIRED", "CANCELED", "FAILED_BEFORE_SUBMISSION",
                      "SETTLEMENT_FAILED"},
           NEW to \in {"RELEASED", "EXPIRED"},
           status' = [status EXCEPT ![i] = s], ReleaseActive(i, to)
    PROVE  Promised!Next
<1>1. PhaseOf(s) = "refused"
  BY PhaseTable DEF PaymentStatus
<1>2. CASE i \in overtaken
  <2>1. \E x : reservation' = [reservation EXCEPT ![i] = x]
    BY DEF ReleaseActive
  <2> QED
    BY <1>1, <1>2, <2>1, UnrulyStep
<1>3. CASE i \notin overtaken
  <2>1. reservation[i] = "ACTIVE"
    BY <1>3 DEF LedgerAgrees
  <2>2. reservation' = [reservation EXCEPT ![i] = to]
    BY <2>1 DEF ReleaseActive
  <2> QED
    BY <1>1, <2>2, GiveUpStep DEF Spent
<1> QED
  BY <1>2, <1>3

(***************************************************************************)
(* A settlement, by the executor or by a sweep.                            *)
(***************************************************************************)
LEMMA SettleStep ==
    ASSUME TypeInv, LedgerAgrees, NEW r \in Requests, on[r] \in Intents,
           UNCHANGED <<on, chain, overtaken>>,
           status[on[r]] \in {"SIGNING", "SUBMISSION_UNKNOWN"} \/ on[r] \in overtaken,
           ~Misreports => chain[r] = "success",
           status' = [status EXCEPT ![on[r]] = "SETTLED"],
           reservation' = [reservation EXCEPT ![on[r]] = "SETTLED"]
    PROVE  Promised!Next
<1>1. CASE on[r] \in overtaken
  BY <1>1, UnrulyStep, PhaseTable
<1>2. CASE on[r] \notin overtaken
  <2>1. reservation[on[r]] = "ACTIVE"
    BY <1>2 DEF LedgerAgrees
  <2>2. /\ PhaseBar' = [PhaseBar EXCEPT ![on[r]] = "settled"]
        /\ CountedBar' = CountedBar \cup {on[r]}
        /\ MovedBar' = MovedBar
    BY RowsBar, PhaseTable DEF Spent
  <2>3. PhaseBar[on[r]] = "working" /\ on[r] \in CountedBar
    BY <1>2, <2>1, PhaseTable DEF PhaseBar, CountedBar, Spent
  <2>4. ~Misreports => on[r] \in Promised!Moved
    BY DEF Promised!Moved
  <2>5. Promised!Settle(on[r])
    BY <2>2, <2>3, <2>4
    DEF Promised!Settle, Promised!Become, PhaseBar, CountedBar, MovedBar
  <2> QED
    BY <2>5 DEF Promised!Next
<1> QED
  BY <1>1, <1>2

(***************************************************************************)
(* Every step is a step of the promise, or none.                           *)
(***************************************************************************)
LEMMA RefineStep ==
    ASSUME TypeInv, ClaimInv, LedgerAgrees, PayloadInv, [Next]_vars
    PROVE  [Promised!Next]_(Promised!promised)
<1>t. TypeInv /\ ClaimInv /\ LedgerAgrees /\ PayloadInv
  OBVIOUS
<1>1. ASSUME NEW r \in Requests, NEW i \in Intents, NEW u \in Users \cup {None}, CreatePaidRequest(r, i, u)
      PROVE  [Promised!Next]_(Promised!promised)
  <2> DEFINE outcome == EvaluatePolicy(Facts(i), Policy)
  <2>0. outcome \in {"ALLOW", "DENY", "REQUIRE_APPROVAL"}
    BY OutcomeType, ConstantsAssumption DEF ConstantsAssumption, PolicyOutcome
  <2>1. \A s \in Requests : chain[s] = "success" => on'[s] = on[s]
    BY <1>t, <1>1 DEF TypeInv, TypeOK, AttemptsClaimed, CreatePaidRequest
  <2>2. status[i] = "none" /\ UNCHANGED <<chain, overtaken>>
    BY <1>1 DEF CreatePaidRequest
  <2>3. PhaseBar[i] = "new"
    BY <2>2, PhaseTable DEF PhaseBar
  <2> HIDE DEF outcome
  <2>4. CASE outcome = "DENY"
    <3>1. status' = [status EXCEPT ![i] = "DENIED"]
      BY <1>1, <2>4 DEF CreatePaidRequest, outcome
    <3>2. reservation' = [reservation EXCEPT ![i] = "none"]
      BY <1>1, <2>4 DEF CreatePaidRequest, outcome
    <3>3. /\ PhaseBar' = [PhaseBar EXCEPT ![i] = PhaseOf("DENIED")]
          /\ CountedBar' = CountedBar \ {i}
          /\ MovedBar' = MovedBar
      BY <1>t, <2>1, <2>2, <3>1, <3>2, RowsBar DEF Spent
    <3>4. i \notin CountedBar
      BY <1>t, <2>2 DEF CountedBar, PayloadInv, Fresh, Spent
    <3>5. Promised!Deny(i)
      BY <2>2, <2>3, <3>3, <3>4, PhaseTable
      DEF Promised!Deny, Promised!Become, PhaseBar, CountedBar, MovedBar, PaymentStatus
    <3> QED
      BY <3>5 DEF Promised!Next
  <2>5. CASE outcome # "DENY"
    <3>1. PICK s \in {"AUTHORIZED", "APPROVAL_PENDING"} : status' = [status EXCEPT ![i] = s]
      <4>1. CASE outcome = "ALLOW"
        <5>1. status' = [status EXCEPT ![i] = "AUTHORIZED"]
          BY <1>1, <4>1 DEF CreatePaidRequest, outcome
        <5> QED
          BY <5>1
      <4>2. CASE outcome = "REQUIRE_APPROVAL"
        <5>1. status' = [status EXCEPT ![i] = "APPROVAL_PENDING"]
          BY <1>1, <4>2 DEF CreatePaidRequest, outcome
        <5> QED
          BY <5>1
      <4> QED
        BY <2>0, <2>5, <4>1, <4>2
    <3>2. reservation' = [reservation EXCEPT ![i] = "ACTIVE"]
      BY <1>1, <2>5 DEF CreatePaidRequest, outcome
    <3>3. /\ PhaseBar' = [PhaseBar EXCEPT ![i] = "open"]
          /\ CountedBar' = CountedBar \cup {i}
          /\ MovedBar' = MovedBar
      <4>1. PhaseOf(s) = "open"
        BY PhaseTable
      <4> QED
        BY <1>t, <2>1, <2>2, <3>1, <3>2, <4>1, RowsBar DEF Spent
    <3>4. Promised!Promise(i)
      BY <2>2, <2>3, <3>3
      DEF Promised!Promise, Promised!Become, PhaseBar, CountedBar, MovedBar
    <3> QED
      BY <3>4 DEF Promised!Next
  <2> QED
    BY <2>4, <2>5
<1>2. ASSUME NEW r \in Requests, NEW i \in Intents, NEW u \in Users, NEW v \in {"APPROVE", "REJECT"}, Decide(r, i, u, v)
      PROVE  [Promised!Next]_(Promised!promised)
  <2>1. \A s \in Requests : chain[s] = "success" => on'[s] = on[s]
    BY <1>t, <1>2 DEF TypeInv, TypeOK, AttemptsClaimed, Decide
  <2>2. UNCHANGED <<chain, overtaken>>
    BY <1>2 DEF Decide
  <2>3. CASE UNCHANGED status /\ UNCHANGED reservation
    BY <1>t, <2>1, <2>2, <2>3, QuietStep DEF TypeInv, AttemptsClaimed
  <2>4. CASE /\ status[i] = "APPROVAL_PENDING" /\ UNCHANGED reservation
             /\ status' = [status EXCEPT ![i] = "AUTHORIZED"]
    <3>1. reservation' = [reservation EXCEPT ![i] = reservation[i]]
      BY <1>t, <2>4 DEF TypeInv, TypeOK
    <3>2. /\ PhaseBar' = [PhaseBar EXCEPT ![i] = "open"]
          /\ CountedBar' = IF reservation[i] \in Spent THEN CountedBar \cup {i} ELSE CountedBar \ {i}
          /\ MovedBar' = MovedBar
      <4>1. PhaseOf("AUTHORIZED") = "open"
        BY PhaseTable
      <4>2. /\ PhaseBar' = [PhaseBar EXCEPT ![i] = PhaseOf("AUTHORIZED")]
            /\ CountedBar' = IF reservation[i] \in Spent THEN CountedBar \cup {i} ELSE CountedBar \ {i}
            /\ MovedBar' = MovedBar
        BY <1>t, <2>1, <2>2, <2>4, <3>1, RowsBar
      <4> QED
        BY <4>1, <4>2
    <3>3. PhaseBar[i] = "open" /\ (i \in CountedBar <=> reservation[i] \in Spent)
      BY <2>4, PhaseTable DEF PhaseBar, CountedBar
    <3> QED
      BY <2>2, <3>2, <3>3 DEF Promised!promised, PhaseBar, CountedBar, MovedBar
  <2>5. CASE /\ status[i] = "APPROVAL_PENDING" /\ ReleaseActive(i, "RELEASED")
             /\ status' = [status EXCEPT ![i] = "REJECTED"]
    BY <1>t, <2>1, <2>2, <2>5, Unclaimed, Released DEF TypeInv, AttemptsClaimed
  <2> QED
    <3> DEFINE rejected == Cardinality(Voters(i, "REJECT")) >= RequiredRejections
               consumed == ~rejected /\ Cardinality(Voters(i, "APPROVE")) >= RequiredApprovals
    <3> HIDE DEF rejected, consumed
    <3>1. rejected \/ consumed => status[i] = "APPROVAL_PENDING"
      BY <1>2 DEF Decide, rejected, consumed
    <3>5. status' = [status EXCEPT ![i] = IF rejected THEN "REJECTED"
                                          ELSE IF consumed THEN "AUTHORIZED" ELSE @]
      BY <1>2 DEF Decide, rejected, consumed
    <3>6. IF rejected THEN ReleaseActive(i, "RELEASED") ELSE UNCHANGED reservation
      BY <1>2 DEF Decide, rejected
    <3>2. CASE rejected
      BY <3>1, <3>5, <3>6, <3>2, <2>5
    <3>3. CASE ~rejected /\ consumed
      BY <3>1, <3>5, <3>6, <3>3, <2>4
    <3>4. CASE ~rejected /\ ~consumed
      <4>1. status' = status
        BY <1>t, <3>4, <3>5 DEF TypeInv, TypeOK
      <4> QED
        BY <3>4, <3>6, <4>1, <2>3
    <3> QED
      BY <3>2, <3>3, <3>4
<1>3. ASSUME NEW r \in Requests, NEW i \in Intents, SubmitSelfCustody(r, i)
      PROVE  [Promised!Next]_(Promised!promised)
  BY <1>t, <1>3, QuietStep DEF TypeInv, TypeOK, AttemptsClaimed,
     SubmitSelfCustody, Goto
<1>4. ASSUME NEW r \in Requests, NEW i \in Intents, CancelRead(r, i)
      PROVE  [Promised!Next]_(Promised!promised)
  BY <1>t, <1>4, QuietStep DEF TypeInv, TypeOK, AttemptsClaimed, CancelRead,
     Goto, Cancelable
<1>5. ASSUME NEW r \in Requests, Revalidate(r)
      PROVE  [Promised!Next]_(Promised!promised)
  <2>1. \A s \in Requests : pc[s] \in AfterClaim => on'[s] = on[s]
    BY <1>t, <1>5 DEF TypeInv, TypeOK, Revalidate, Goto, Return
  <2>2. UNCHANGED <<chain, overtaken>> /\ on[r] \in Intents
    BY <1>t, <1>5 DEF TypeInv, CallsWellFormed, Revalidate
  <2>3. CASE UNCHANGED <<status, reservation>>
    BY <1>t, <2>1, <2>2, <2>3, QuietStep DEF TypeInv, AttemptsClaimed
  <2>4. CASE /\ StillAuthorized(on[r])
             /\ \E s \in {"FAILED_BEFORE_SUBMISSION"} : status' = [status EXCEPT ![on[r]] = s]
             /\ \E to \in {"RELEASED", "EXPIRED"} : ReleaseActive(on[r], to)
    <3>1. PICK s \in {"FAILED_BEFORE_SUBMISSION"} : status' = [status EXCEPT ![on[r]] = s]
      BY <2>4
    <3>2. PICK to \in {"RELEASED", "EXPIRED"} : ReleaseActive(on[r], to)
      BY <2>4
    <3>3. \A q \in Requests : chain[q] = "success" => on[q] # on[r] /\ on'[q] = on[q]
      BY <1>t, <2>1, <2>2, <2>4, Unclaimed DEF TypeInv, AttemptsClaimed, StillAuthorized
    <3> QED
      BY <1>t, <2>2, <2>4, <3>1, <3>2, <3>3, Released DEF StillAuthorized
  <2> QED
    BY <1>t, <1>5, <2>3, <2>4 DEF Revalidate, TypeInv, CallsWellFormed
<1>6. ASSUME NEW r \in Requests, ReadAuthorized(r)
      PROVE  [Promised!Next]_(Promised!promised)
  BY <1>t, <1>6, QuietStep DEF TypeInv, TypeOK, AttemptsClaimed, ReadAuthorized,
     Goto, Return
<1>7. ASSUME NEW r \in Requests, FailBeforeSigning(r)
      PROVE  [Promised!Next]_(Promised!promised)
  <2>1. \A s \in Requests : pc[s] \in AfterClaim => on'[s] = on[s]
    BY <1>t, <1>7 DEF TypeInv, TypeOK, FailBeforeSigning, Goto, Return
  <2>2. UNCHANGED <<chain, overtaken>> /\ on[r] \in Intents
    BY <1>t, <1>7 DEF TypeInv, CallsWellFormed, FailBeforeSigning
  <2>3. CASE UNCHANGED <<status, reservation>>
    BY <1>t, <2>1, <2>2, <2>3, QuietStep DEF TypeInv, AttemptsClaimed
  <2>4. CASE /\ StillAuthorized(on[r])
             /\ \E s \in {"EXPIRED", "FAILED_BEFORE_SUBMISSION"} : status' = [status EXCEPT ![on[r]] = s]
             /\ \E to \in {"RELEASED", "EXPIRED"} : ReleaseActive(on[r], to)
    <3>1. PICK s \in {"EXPIRED", "FAILED_BEFORE_SUBMISSION"} : status' = [status EXCEPT ![on[r]] = s]
      BY <2>4
    <3>2. PICK to \in {"RELEASED", "EXPIRED"} : ReleaseActive(on[r], to)
      BY <2>4
    <3>3. \A q \in Requests : chain[q] = "success" => on[q] # on[r] /\ on'[q] = on[q]
      BY <1>t, <2>1, <2>2, <2>4, Unclaimed DEF TypeInv, AttemptsClaimed, StillAuthorized
    <3> QED
      BY <1>t, <2>2, <2>4, <3>1, <3>2, <3>3, Released DEF StillAuthorized
  <2> QED
    BY <1>t, <1>7, <2>3, <2>4 DEF FailBeforeSigning, TypeInv, CallsWellFormed
<1>8. ASSUME NEW r \in Requests, Claim(r)
      PROVE  [Promised!Next]_(Promised!promised)
  <2>1. \A s \in Requests : pc[s] \in AfterClaim => on'[s] = on[s]
    BY <1>t, <1>8 DEF TypeInv, TypeOK, Claim, Goto, Return
  <2>2. UNCHANGED <<reservation, chain, overtaken>> /\ on[r] \in Intents
    BY <1>t, <1>8 DEF TypeInv, CallsWellFormed, Claim
  <2>3. CASE UNCHANGED status
    BY <1>t, <2>1, <2>2, <2>3, QuietStep DEF TypeInv, AttemptsClaimed
  <2>4. CASE StillAuthorized(on[r]) /\ status' = [status EXCEPT ![on[r]] = "SIGNING"]
    <3>1. reservation' = [reservation EXCEPT ![on[r]] = reservation[on[r]]]
      BY <1>t, <2>2 DEF TypeInv, TypeOK
    <3>2. CASE on[r] \in overtaken
      BY <1>t, <2>1, <2>2, <2>4, <3>1, <3>2, UnrulyStep, PhaseTable DEF TypeInv, AttemptsClaimed
    <3>3. CASE on[r] \notin overtaken
      <4>1. reservation[on[r]] = "ACTIVE"
        BY <1>t, <2>2, <2>4, <3>3 DEF LedgerAgrees, StillAuthorized
      <4>2. /\ PhaseBar' = [PhaseBar EXCEPT ![on[r]] = "working"]
            /\ CountedBar' = CountedBar \cup {on[r]}
            /\ MovedBar' = MovedBar
        BY <1>t, <2>1, <2>2, <2>4, <3>1, <4>1, RowsBar, PhaseTable
        DEF TypeInv, AttemptsClaimed, Spent
      <4>3. PhaseBar[on[r]] = "open" /\ on[r] \in CountedBar
        BY <2>2, <2>4, <4>1, PhaseTable DEF PhaseBar, CountedBar, StillAuthorized, Spent
      <4>4. Promised!Start(on[r])
        BY <2>2, <4>2, <4>3
        DEF Promised!Start, Promised!Become, PhaseBar, CountedBar, MovedBar
      <4> QED
        BY <2>2, <4>4 DEF Promised!Next
    <3> QED
      BY <3>2, <3>3
  <2> QED
    BY <1>8, <2>3, <2>4 DEF Claim
<1>9. ASSUME NEW r \in Requests, CreateAttempt(r)
      PROVE  [Promised!Next]_(Promised!promised)
  BY <1>t, <1>9, QuietStep DEF TypeInv, TypeOK, AttemptsClaimed, CreateAttempt,
     Goto
<1>10. ASSUME NEW r \in Requests, Sign(r)
      PROVE  [Promised!Next]_(Promised!promised)
  BY <1>t, <1>10, QuietStep DEF TypeInv, TypeOK, AttemptsClaimed, Sign, Goto
<1>11. ASSUME NEW r \in Requests, Send(r)
      PROVE  [Promised!Next]_(Promised!promised)
  BY <1>t, <1>11, QuietStep DEF TypeInv, TypeOK, AttemptsClaimed, PayloadInv,
     PayloadStage, Send, Goto
<1>12. ASSUME NEW r \in Requests, Fulfilled(r)
      PROVE  [Promised!Next]_(Promised!promised)
  BY <1>t, <1>12, QuietStep DEF TypeInv, TypeOK, AttemptsClaimed, Fulfilled,
     Goto, Reportable
<1>13. ASSUME NEW r \in Requests, SubmissionUnknown(r)
      PROVE  [Promised!Next]_(Promised!promised)
  BY <1>t, <1>13, QuietStep DEF TypeInv, TypeOK, AttemptsClaimed,
     SubmissionUnknown, Goto, Reportable
<1>14. ASSUME NEW r \in Requests, ResourceRefuses(r)
      PROVE  [Promised!Next]_(Promised!promised)
  BY <1>t, <1>14, QuietStep DEF TypeInv, TypeOK, AttemptsClaimed, PayloadInv,
     PayloadStage, ResourceRefuses, Goto
<1>15. ASSUME NEW r \in Requests, RecordSubmitted(r)
      PROVE  [Promised!Next]_(Promised!promised)
  BY <1>t, <1>15, QuietStep DEF TypeInv, TypeOK, AttemptsClaimed,
     RecordSubmitted, Goto
<1>16. ASSUME NEW r \in Requests, CommitSettlement(r)
      PROVE  [Promised!Next]_(Promised!promised)
  <2>1. /\ UNCHANGED <<on, chain, overtaken>> /\ on[r] \in Intents /\ Claimed(r) /\ pc[r] # "done"
        /\ status' = [status EXCEPT ![on[r]] = "SETTLED"]
        /\ reservation' = [reservation EXCEPT ![on[r]] = "SETTLED"]
    BY <1>t, <1>16 DEF TypeInv, CallsWellFormed, CommitSettlement, Claimed
  <2>2. ~Misreports => chain[r] = "success"
    BY <1>t, <1>16 DEF PayloadInv, PayloadStage, CommitSettlement
  <2>3. status[on[r]] = "SIGNING" \/ on[r] \in overtaken
    BY <1>t, <2>1 DEF ClaimInv, InFlight
  <2> QED
    BY <1>t, <2>1, <2>2, <2>3, SettleStep
<1>17. ASSUME NEW r \in Requests, AbortSettlement(r)
      PROVE  [Promised!Next]_(Promised!promised)
  BY <1>t, <1>17, QuietStep DEF TypeInv, TypeOK, AttemptsClaimed,
     AbortSettlement, Goto
<1>18. ASSUME NEW r \in Requests, MarkSubmissionUnknown(r)
      PROVE  [Promised!Next]_(Promised!promised)
  <2>1. /\ UNCHANGED <<on, chain, overtaken, reservation>> /\ on[r] \in Intents
        /\ Claimed(r) /\ pc[r] # "done"
        /\ status' = [status EXCEPT ![on[r]] = "SUBMISSION_UNKNOWN"]
    BY <1>t, <1>18 DEF TypeInv, CallsWellFormed, MarkSubmissionUnknown, Claimed
  <2>2. reservation' = [reservation EXCEPT ![on[r]] = reservation[on[r]]]
    BY <1>t, <2>1 DEF TypeInv, TypeOK
  <2>3. CASE on[r] \in overtaken
    BY <1>t, <2>1, <2>2, <2>3, UnrulyStep, PhaseTable
  <2>4. CASE status[on[r]] = "SIGNING"
    <3>1. /\ PhaseBar' = [PhaseBar EXCEPT ![on[r]] = "working"]
          /\ MovedBar' = MovedBar /\ CountedBar' = CountedBar
      BY <1>t, <2>1, <2>2, RowsBar, PhaseTable DEF CountedBar
    <3>2. PhaseBar[on[r]] = "working"
      BY <2>1, <2>4, PhaseTable DEF PhaseBar
    <3> QED
      BY <2>1, <3>1, <3>2 DEF Promised!promised, PhaseBar, CountedBar, MovedBar
  <2> QED
    BY <1>t, <2>1, <2>3, <2>4 DEF ClaimInv, InFlight
<1>19. ASSUME NEW r \in Requests, FailAttempt(r)
      PROVE  [Promised!Next]_(Promised!promised)
  <2>1. /\ UNCHANGED <<on, chain, overtaken>> /\ on[r] \in Intents /\ Claimed(r) /\ pc[r] = "fail"
        /\ status' = [status EXCEPT ![on[r]] = "FAILED_BEFORE_SUBMISSION"]
        /\ ReleaseActive(on[r], "RELEASED")
    BY <1>t, <1>19 DEF TypeInv, CallsWellFormed, FailAttempt, Claimed
  <2>2. \A s \in Requests : chain[s] = "success" => on[s] # on[r] \/ Misreports
    BY <1>t, <2>1 DEF TypeInv, AttemptsClaimed, ClaimInv, OneClaim, Claimed, PayloadInv, PayloadStage
  <2>3. status[on[r]] = "SIGNING" \/ on[r] \in overtaken
    BY <1>t, <2>1 DEF ClaimInv, InFlight
  <2>4. CASE on[r] \in overtaken
    <3>1. \E x : reservation' = [reservation EXCEPT ![on[r]] = x]
      BY <2>1 DEF ReleaseActive
    <3> QED
      BY <1>t, <2>1, <2>4, <3>1, UnrulyStep, PhaseTable DEF PaymentStatus
  <2>5. CASE status[on[r]] = "SIGNING" /\ on[r] \notin overtaken
    BY <1>t, <2>1, <2>2, <2>5, Released DEF PaymentStatus
  <2> QED
    BY <2>3, <2>4, <2>5
<1>20. ASSUME NEW r \in Requests, CancelWrite(r)
      PROVE  [Promised!Next]_(Promised!promised)
  <2>1. /\ chain' = chain /\ on[r] \in Intents /\ pc[r] = "cancel"
        /\ status' = [status EXCEPT ![on[r]] = "CANCELED"]
        /\ ReleaseActive(on[r], "RELEASED")
        /\ overtaken' = IF status[on[r]] \in Cancelable THEN overtaken ELSE overtaken \cup {on[r]}
    BY <1>t, <1>20 DEF TypeInv, CallsWellFormed, CancelWrite
  <2>2. \A s \in Requests : chain[s] = "success" => on'[s] = on[s]
    <3>1. on' = [on EXCEPT ![r] = None]
      BY <1>20 DEF CancelWrite, Return
    <3>2. chain[r] = "unsent"
      BY <1>t, <2>1 DEF TypeInv, AttemptsClaimed
    <3> QED
      BY <1>t, <3>1, <3>2 DEF TypeInv, TypeOK
  <2>3. CASE status[on[r]] \in Cancelable
    BY <1>t, <2>1, <2>2, <2>3, Unclaimed, Released
    DEF TypeInv, AttemptsClaimed, Cancelable, PaymentStatus
  <2>4. CASE status[on[r]] \notin Cancelable
    <3>1. PICK x : reservation' = [reservation EXCEPT ![on[r]] = x]
      BY <2>1 DEF ReleaseActive
    <3>2. /\ PhaseBar' = [PhaseBar EXCEPT ![on[r]] = "refused"]
          /\ CountedBar' \in {CountedBar \cup {on[r]}, CountedBar \ {on[r]}}
          /\ MovedBar' = MovedBar
      <4>1. PhaseOf("CANCELED") = "refused"
        BY PhaseTable DEF PaymentStatus
      <4>2. /\ PhaseBar' = [PhaseBar EXCEPT ![on[r]] = PhaseOf("CANCELED")]
            /\ CountedBar' = IF x \in Spent THEN CountedBar \cup {on[r]} ELSE CountedBar \ {on[r]}
            /\ MovedBar' = MovedBar
        BY <1>t, <2>1, <2>2, <3>1, RowsBar
      <4> QED
        BY <4>1, <4>2
    <3>3. on[r] \notin CountedBar => CountedBar' = CountedBar
      BY <1>t, <2>1 DEF TypeInv, TypeOK, CountedBar, ReleaseActive, Spent
    <3>4. PhaseBar[on[r]] \notin {"new", "open"}
      <4>1. status[on[r]] \in PaymentStatus \ {"none", "APPROVAL_PENDING", "AUTHORIZED"}
        BY <1>t, <2>1, <2>4 DEF TypeInv, TypeOK, Cancelable, PayloadInv, Begun
      <4> QED
        BY <2>1, <4>1, PhaseTable DEF PhaseBar
    <3>5. Promised!Overtake(on[r])
      <4>1. CountedBar' \in {CountedBar, CountedBar \ {on[r]}}
        BY <3>2, <3>3
      <4> QED
        BY <2>1, <2>4, <3>2, <3>4, <4>1
        DEF Promised!Overtake, Promised!Become, PhaseBar, CountedBar, MovedBar
    <3>6. Promised!Next
      <4>1. PICK i \in Intents : i = on[r]
        BY <2>1
      <4>2. Promised!Overtake(i)
        BY <3>5, <4>1 DEF Promised!Overtake, Promised!Become
      <4> QED
        BY <4>2, OvertakeNext
    <3> QED
      BY <3>6
  <2> QED
    BY <2>3, <2>4
<1>21. ASSUME NEW r \in Requests, Crash(r)
      PROVE  [Promised!Next]_(Promised!promised)
  BY <1>t, <1>21, QuietStep DEF TypeInv, TypeOK, AttemptsClaimed, Crash, Goto,
     Return
<1>22. ASSUME NEW r \in Requests, ChainDecides(r)
      PROVE  [Promised!Next]_(Promised!promised)
  <2>1. /\ chain[r] = "sent" /\ UNCHANGED <<status, reservation, on, overtaken>>
        /\ \E fate \in {"success", "failed"} : chain' = [chain EXCEPT ![r] = fate]
    BY <1>22 DEF ChainDecides
  <2>2. CASE chain' = [chain EXCEPT ![r] = "failed"]
    BY <1>t, <2>1, <2>2, QuietStep DEF TypeInv, TypeOK
  <2>3. CASE chain' = [chain EXCEPT ![r] = "success"]
    <3>1. pc[r] \in AfterClaim /\ on[r] \in Intents
      BY <1>t, <2>1 DEF TypeInv, CallsWellFormed, AttemptsClaimed
    <3>2. \A s \in Requests : chain[s] = "success" => on[s] # on[r]
      BY <1>t, <2>1, <3>1 DEF TypeInv, AttemptsClaimed, ClaimInv, OneClaim, Claimed
    <3>3. on[r] \notin Promised!Moved
      BY <1>t, <3>1, <3>2, NotMoved
    <3>4. ~Misreports => on[r] \in CountedBar \/ on[r] \in overtaken
      BY <1>t, <2>1, <3>1 DEF PayloadInv, LiveCounted, CountedBar
    <3>5. PhaseBar[on[r]] \notin {"new", "open"}
      BY <1>t, <3>1, PhaseTable DEF PhaseBar, ClaimInv, ClaimedLeft, Claimed, PaymentStatus
    <3>6. MovedBar[r] = None /\ MovedBar' = [MovedBar EXCEPT ![r] = on[r]]
      BY <1>t, <2>1, <2>3 DEF MovedBar, TypeInv, TypeOK
    <3>7. Promised!Move(r, on[r])
      BY <2>1, <3>3, <3>4, <3>5, <3>6 DEF Promised!Move, PhaseBar, CountedBar, MovedBar
    <3>8. Promised!Next
      <4>1. PICK i \in Intents : i = on[r]
        BY <3>1
      <4>2. Promised!Move(r, i)
        BY <3>7, <4>1 DEF Promised!Move
      <4> QED
        BY <4>2, MoveNext
    <3> QED
      BY <3>8
  <2> QED
    BY <2>1, <2>2, <2>3
<1>23. ASSUME NEW i \in Intents, ExpireIntent(i)
      PROVE  [Promised!Next]_(Promised!promised)
  <2>1. UNCHANGED <<on, chain, overtaken>> /\ status[i] \in {"APPROVAL_PENDING", "AUTHORIZED"}
    BY <1>23 DEF ExpireIntent, Expirable
  <2>2. status' = [status EXCEPT ![i] = "EXPIRED"] /\ ReleaseActive(i, "EXPIRED")
    BY <1>23 DEF ExpireIntent
  <2> QED
    BY <1>t, <2>1, <2>2, Unclaimed, Released DEF TypeInv, AttemptsClaimed, PaymentStatus
<1>24. ASSUME NEW i \in Intents, OpenIncident(i)
      PROVE  [Promised!Next]_(Promised!promised)
  BY <1>t, <1>24, QuietStep DEF TypeInv, TypeOK, AttemptsClaimed, OpenIncident
<1>25. ASSUME NEW i \in Intents, Elapse(i)
      PROVE  [Promised!Next]_(Promised!promised)
  BY <1>t, <1>25, QuietStep DEF TypeInv, TypeOK, AttemptsClaimed, Elapse
<1>26. ASSUME NEW k \in Jobs, Reconcile(k)
      PROVE  [Promised!Next]_(Promised!promised)
  <2> DEFINE a == job[k].attempt
  <2>1. /\ a \in Requests /\ on[a] \in Intents /\ pc[a] \in AfterClaim
        /\ UNCHANGED <<on, chain, overtaken>>
    BY <1>t, <1>26, ReconcileEffectLemma DEF ReconcileEffect
  <2>2. CASE UNCHANGED <<status, reservation>>
    BY <1>t, <2>1, <2>2, QuietStep
  <2>3. CASE /\ status[on[a]] = "SUBMISSION_UNKNOWN" /\ job[k].outcome = "CONFIRMED"
             /\ status' = [status EXCEPT ![on[a]] = "SETTLED"]
             /\ reservation' = [reservation EXCEPT ![on[a]] = "SETTLED"]
    <3>1. ~Misreports => chain[a] = "success"
      BY <1>t, <1>26, <2>3 DEF PayloadInv, Observed, Reconcile
    <3> QED
      BY <1>t, <2>1, <2>3, <3>1, SettleStep
  <2>4. CASE /\ status[on[a]] = "SUBMISSION_UNKNOWN" /\ job[k].outcome = "FAILED"
             /\ RejectSubmission(a, "RELEASED")
    <3>1. chain[a] = "failed" \/ Misreports
      BY <1>t, <1>26, <2>4 DEF PayloadInv, Observed, Reconcile
    <3>2. \A s \in Requests : chain[s] = "success" => on[s] # on[a] \/ Misreports
      BY <1>t, <2>1, <3>1 DEF TypeInv, AttemptsClaimed, ClaimInv, OneClaim, Claimed
    <3> QED
      BY <1>t, <2>1, <2>4, <3>2, Released DEF RejectSubmission, PaymentStatus
  <2>5. CASE status[on[a]] = "SUBMISSION_UNKNOWN" /\ RejectSubmission(a, "CONSUMED")
    <3>1. PICK x : /\ reservation' = [reservation EXCEPT ![on[a]] = x]
                   /\ x \in Spent <=> reservation[on[a]] \in Spent
      BY <2>5 DEF RejectSubmission, ReleaseActive, Spent
    <3>2. /\ PhaseBar' = [PhaseBar EXCEPT ![on[a]] = "refused"]
          /\ CountedBar' = IF x \in Spent THEN CountedBar \cup {on[a]} ELSE CountedBar \ {on[a]}
          /\ MovedBar' = MovedBar
      <4>1. PhaseOf("SETTLEMENT_FAILED") = "refused"
        BY PhaseTable DEF PaymentStatus
      <4>2. status' = [status EXCEPT ![on[a]] = "SETTLEMENT_FAILED"]
        BY <2>5 DEF RejectSubmission
      <4> QED
        BY <1>t, <2>1, <3>1, <4>1, <4>2, RowsBar
    <3>3. PhaseBar[on[a]] = "working" /\ CountedBar' = CountedBar
      BY <2>1, <2>5, <3>1, <3>2, PhaseTable DEF PhaseBar, CountedBar
    <3>4. Promised!GiveUpInDoubt(on[a])
      BY <2>1, <3>2, <3>3
      DEF Promised!GiveUpInDoubt, Promised!Become, PhaseBar, CountedBar, MovedBar
    <3> QED
      BY <2>1, <3>4 DEF Promised!Next
  <2> QED
    BY <1>26, <2>2, <2>3, <2>4, <2>5 DEF Reconcile
<1>27. ASSUME NEW k \in Jobs, NEW r \in Requests, Observe(k, r)
      PROVE  [Promised!Next]_(Promised!promised)
  BY <1>t, <1>27, QuietStep DEF TypeInv, TypeOK, AttemptsClaimed, Observe,
     Reconcilable, ReconciliationOutcome, Observation
<1>28. ASSUME SetKillSwitch PROVE [Promised!Next]_(Promised!promised)
  BY <1>t, <1>28, QuietStep DEF TypeInv, TypeOK, AttemptsClaimed, SetKillSwitch
<1>29. ASSUME PublishPolicy PROVE [Promised!Next]_(Promised!promised)
  BY <1>t, <1>29, QuietStep DEF TypeInv, TypeOK, AttemptsClaimed, PublishPolicy
<1>30. ASSUME UNCHANGED vars PROVE [Promised!Next]_(Promised!promised)
  BY <1>t, <1>30, QuietStep DEF TypeInv, TypeOK, AttemptsClaimed, vars
<1> QED
  BY <1>1, <1>2, <1>3, <1>4, <1>5, <1>6, <1>7, <1>8, <1>9, <1>10, <1>11, <1>12,
     <1>13, <1>14, <1>15, <1>16, <1>17, <1>18, <1>19, <1>20, <1>21, <1>22,
     <1>23, <1>24, <1>25, <1>26, <1>27, <1>28, <1>29, <1>30 DEF Next, Call,
     Proceed

(***************************************************************************)
(* The payment service keeps the promise: however requests, votes,         *)
(* cancellations, expiry, crashes and reconciliation interleave, money     *)
(* moves at most once per payment, after its claim and while it is         *)
(* counted, and a settled or given-up payment stays so.                    *)
(***************************************************************************)
THEOREM PromiseKept == Spec => KeepsPromise
<1>1. Init => Promised!Init
  BY DEF Init, Promised!Init, PhaseOf, Spent
<1>2. TypeInv /\ ClaimInv /\ LedgerAgrees /\ PayloadInv /\ [Next]_vars
          => [Promised!Next]_(Promised!promised)
  BY RefineStep
<1> QED
  BY <1>1, <1>2, PayloadInvariant, PTL DEF Spec, KeepsPromise, Promised!Spec

-----------------------------------------------------------------------------
(* Layer 6: evidence.                                                      *)

\* A settlement row belongs to an attempt that is over, and names a
\* transaction.
RowsOver ==
    \A r \in Requests :
        /\ settlement[r].status # "none" \/ settlement[r].tx # None => pc[r] = "done"
        /\ settlement[r].status = "CONFIRMED" => settlement[r].tx \in Requests

\* A sweep saw a transaction; one it calls CONFIRMED succeeded, for the
\* quoted amount.
Seen ==
    \A k \in Jobs : job[k] # None =>
        LET a == job[k].attempt
            tx == candidate[a]
        IN /\ tx \in Requests
           /\ job[k].outcome = "CONFIRMED" =>
                  chain[tx] = "success" /\ Amount[on[tx]] = Amount[on[a]]

\* A confirmed attempt is over and its payment is no longer in doubt; one that
\* a sweep confirmed succeeded, for the quoted amount.
Matched ==
    \A r \in Requests : attempt[r] = "CONFIRMED" =>
        /\ pc[r] = "done"
        /\ status[on[r]] # "SUBMISSION_UNKNOWN"
        /\ settlement[r].tx \in Requests
        /\ fulfillment[on[r]] = "FAILED" =>
               /\ chain[settlement[r].tx] = "success"
               /\ Amount[on[settlement[r].tx]] = Amount[on[r]]

\* The two halves of SettledOnEvidence.
Rested ==
    \A i \in Intents : status[i] = "SETTLED" =>
        \E r \in Requests : on[r] = i /\ settlement[r].status = "CONFIRMED" /\ Backed(r)

CreditedOnce ==
    \A r, s \in Requests :
        settlement[r].tx # None /\ settlement[r].tx = settlement[s].tx => r = s

EvidenceInv == RowsOver /\ Seen /\ Matched /\ Rested /\ CreditedOnce

\* What most steps leave as it is: settlement rows, attempts that are over,
\* claims, what the chain decided ...
CallsKept ==
    /\ UNCHANGED <<settlement, job>>
    /\ \A s \in Requests :
           /\ pc[s] \in AfterClaim => on'[s] = on[s]
           /\ pc[s] = "done" => /\ pc'[s] = "done" /\ candidate'[s] = candidate[s]
                                /\ report'[s] = report[s]
           /\ attempt'[s] = "CONFIRMED" => attempt[s] = "CONFIRMED"
           /\ chain[s] = "success" => chain'[s] = "success"

\* ... and no payment settles, falls in doubt once its attempt is over, or is
\* no longer fulfilled.
PaymentsKept ==
    /\ \A i \in Intents : /\ status'[i] = "SETTLED" => status[i] = "SETTLED"
                          /\ fulfillment'[i] = "FAILED" => fulfillment[i] = "FAILED"
    /\ \A s \in Requests :
           pc[s] = "done" =>
               /\ status'[on[s]] = "SUBMISSION_UNKNOWN" => status[on[s]] = "SUBMISSION_UNKNOWN"
               /\ fulfillment[on[s]] = "FULFILLED" => fulfillment'[on[s]] = "FULFILLED"

(***************************************************************************)
(* A transaction that succeeded stays so and stays its payment's, and an   *)
(* attempt that is over keeps its candidate.                               *)
(***************************************************************************)
LEMMA FixedByCalls ==
    ASSUME TypeInv, CallsKept
    PROVE  /\ \A s \in Requests : chain[s] = "success" => chain'[s] = "success" /\ on'[s] = on[s]
           /\ \A s \in Requests : pc[s] = "done" =>
                  /\ pc'[s] = "done" /\ on'[s] = on[s] /\ on[s] \in Intents
                  /\ candidate'[s] = candidate[s] /\ report'[s] = report[s]
BY DEF TypeInv, CallsWellFormed, AttemptsClaimed, CallsKept

(***************************************************************************)
(* A step of that kind keeps the evidence.                                 *)
(***************************************************************************)
LEMMA EvidenceKept ==
    ASSUME TypeInv, PayloadInv, EvidenceInv, CallsKept, PaymentsKept
    PROVE  EvidenceInv'
<1>1. RowsOver'
  BY FixedByCalls DEF EvidenceInv, RowsOver, CallsKept
<1>2. Seen'
  <2> SUFFICES ASSUME NEW k \in Jobs, job[k] # None
               PROVE  /\ candidate'[job[k].attempt] \in Requests
                      /\ job[k].outcome = "CONFIRMED" =>
                             /\ chain'[candidate'[job[k].attempt]] = "success"
                             /\ Amount[on'[candidate'[job[k].attempt]]] = Amount[on'[job[k].attempt]]
    BY DEF Seen, CallsKept
  <2>1. job[k].attempt \in Requests /\ pc[job[k].attempt] = "done"
    BY DEF TypeInv, TypeOK, Observation, PayloadInv, Observed
  <2> QED
    BY <2>1, FixedByCalls DEF EvidenceInv, Seen
<1>3. Matched'
  BY FixedByCalls DEF EvidenceInv, Matched, CallsKept, PaymentsKept
<1>4. Rested'
  <2> SUFFICES ASSUME NEW i \in Intents, status'[i] = "SETTLED"
               PROVE  \E r \in Requests : /\ on'[r] = i
                                          /\ settlement'[r].status = "CONFIRMED"
                                          /\ Backed(r)'
    BY DEF Rested
  <2>1. PICK r \in Requests : on[r] = i /\ settlement[r].status = "CONFIRMED" /\ Backed(r)
    BY DEF EvidenceInv, Rested, PaymentsKept
  <2>2. pc[r] = "done" /\ settlement[r].tx \in Requests /\ settlement' = settlement
    BY <2>1 DEF EvidenceInv, RowsOver, CallsKept
  <2>3. Backed(r)'
    BY <2>1, <2>2, FixedByCalls DEF Backed, PaymentsKept
  <2> QED
    BY <2>1, <2>2, <2>3, FixedByCalls
<1>5. CreditedOnce'
  BY DEF EvidenceInv, CreditedOnce, CallsKept
<1> QED
  BY <1>1, <1>2, <1>3, <1>4, <1>5 DEF EvidenceInv

(***************************************************************************)
(* Every step keeps the evidence: only the settlement transaction and the  *)
(* sweep's write settlement rows, both behind the unique transaction id.   *)
(***************************************************************************)
LEMMA EvidenceStep ==
    ASSUME TypeInv, TypeInv', ClaimInv, PayloadInv, EvidenceInv, [Next]_vars
    PROVE  EvidenceInv'
<1>t. TypeInv /\ TypeInv' /\ ClaimInv /\ PayloadInv /\ EvidenceInv
  OBVIOUS
<1>1. ASSUME NEW r \in Requests, NEW i \in Intents, NEW u \in Users, NEW v \in {"APPROVE", "REJECT"}, Decide(r, i, u, v)
      PROVE  EvidenceInv'
  <2>1. CallsKept
    BY <1>t, <1>1 DEF TypeInv, TypeOK, CallsWellFormed, CallsKept, Decide
  <2>2. PaymentsKept
    BY <1>t, <1>1 DEF TypeInv, TypeOK, PaymentsKept, Decide
  <2> QED
    BY <1>t, <2>1, <2>2, EvidenceKept
<1>2. ASSUME NEW r \in Requests, NEW i \in Intents, SubmitSelfCustody(r, i)
      PROVE  EvidenceInv'
  <2>1. CallsKept
    BY <1>t, <1>2 DEF TypeInv, TypeOK, CallsWellFormed, CallsKept,
       SubmitSelfCustody, Goto
  <2>2. PaymentsKept
    BY <1>t, <1>2 DEF TypeInv, TypeOK, PaymentsKept, SubmitSelfCustody
  <2> QED
    BY <1>t, <2>1, <2>2, EvidenceKept
<1>3. ASSUME NEW r \in Requests, NEW i \in Intents, CancelRead(r, i)
      PROVE  EvidenceInv'
  <2>1. CallsKept
    BY <1>t, <1>3 DEF TypeInv, TypeOK, CallsWellFormed, CallsKept, CancelRead,
       Goto
  <2>2. PaymentsKept
    BY <1>t, <1>3 DEF TypeInv, TypeOK, PaymentsKept, CancelRead
  <2> QED
    BY <1>t, <2>1, <2>2, EvidenceKept
<1>4. ASSUME NEW r \in Requests, Revalidate(r) PROVE EvidenceInv'
  <2>1. CallsKept
    BY <1>t, <1>4 DEF TypeInv, TypeOK, CallsWellFormed, CallsKept, Revalidate,
       Goto, Return
  <2>2. PaymentsKept
    BY <1>t, <1>4 DEF TypeInv, TypeOK, CallsWellFormed, PaymentsKept,
       Revalidate
  <2> QED
    BY <1>t, <2>1, <2>2, EvidenceKept
<1>5. ASSUME NEW r \in Requests, ReadAuthorized(r) PROVE EvidenceInv'
  <2>1. CallsKept
    BY <1>t, <1>5 DEF TypeInv, TypeOK, CallsWellFormed, CallsKept,
       ReadAuthorized, Goto, Return
  <2>2. PaymentsKept
    BY <1>t, <1>5 DEF TypeInv, TypeOK, PaymentsKept, ReadAuthorized
  <2> QED
    BY <1>t, <2>1, <2>2, EvidenceKept
<1>6. ASSUME NEW r \in Requests, FailBeforeSigning(r) PROVE EvidenceInv'
  <2>1. CallsKept
    BY <1>t, <1>6 DEF TypeInv, TypeOK, CallsWellFormed, CallsKept,
       FailBeforeSigning, Return
  <2>2. PaymentsKept
    BY <1>t, <1>6 DEF TypeInv, TypeOK, CallsWellFormed, PaymentsKept,
       FailBeforeSigning
  <2> QED
    BY <1>t, <2>1, <2>2, EvidenceKept
<1>7. ASSUME NEW r \in Requests, Claim(r) PROVE EvidenceInv'
  <2>1. CallsKept
    BY <1>t, <1>7 DEF TypeInv, TypeOK, CallsWellFormed, CallsKept, Claim,
       Goto, Return
  <2>2. PaymentsKept
    BY <1>t, <1>7 DEF TypeInv, TypeOK, CallsWellFormed, PaymentsKept, Claim
  <2> QED
    BY <1>t, <2>1, <2>2, EvidenceKept
<1>8. ASSUME NEW r \in Requests, CreateAttempt(r) PROVE EvidenceInv'
  <2>1. CallsKept
    BY <1>t, <1>8 DEF TypeInv, TypeOK, CallsWellFormed, CallsKept,
       CreateAttempt, Goto
  <2>2. PaymentsKept
    BY <1>t, <1>8 DEF TypeInv, TypeOK, PaymentsKept, CreateAttempt
  <2> QED
    BY <1>t, <2>1, <2>2, EvidenceKept
<1>9. ASSUME NEW r \in Requests, Sign(r) PROVE EvidenceInv'
  <2>1. CallsKept
    BY <1>t, <1>9 DEF TypeInv, TypeOK, CallsWellFormed, CallsKept, Sign, Goto
  <2>2. PaymentsKept
    BY <1>t, <1>9 DEF TypeInv, TypeOK, PaymentsKept, Sign
  <2> QED
    BY <1>t, <2>1, <2>2, EvidenceKept
<1>10. ASSUME NEW r \in Requests, Send(r) PROVE EvidenceInv'
  <2>1. CallsKept
    <3>1. pc[r] = "send" /\ UNCHANGED <<on, attempt, candidate, settlement, job, report>>
      BY <1>10 DEF Send
    <3>2. \A s \in Requests \ {r} : pc'[s] = pc[s]
      BY <1>t, <1>10 DEF TypeInv, TypeOK, Send, Goto
    <3>3. \A s \in Requests : chain[s] = "success" => chain'[s] = "success"
      BY <1>t, <1>10 DEF TypeInv, TypeOK, PayloadInv, PayloadStage, Send
    <3> QED
      BY <3>1, <3>2, <3>3 DEF CallsKept
  <2>2. PaymentsKept
    BY <1>t, <1>10 DEF TypeInv, TypeOK, PaymentsKept, Send
  <2> QED
    BY <1>t, <2>1, <2>2, EvidenceKept
<1>11. ASSUME NEW r \in Requests, Fulfilled(r) PROVE EvidenceInv'
  <2>1. CallsKept
    BY <1>t, <1>11 DEF TypeInv, TypeOK, CallsWellFormed, CallsKept, Fulfilled,
       Goto
  <2>2. PaymentsKept
    BY <1>t, <1>11 DEF TypeInv, TypeOK, PaymentsKept, Fulfilled
  <2> QED
    BY <1>t, <2>1, <2>2, EvidenceKept
<1>12. ASSUME NEW r \in Requests, SubmissionUnknown(r) PROVE EvidenceInv'
  <2>1. CallsKept
    BY <1>t, <1>12 DEF TypeInv, TypeOK, CallsWellFormed, CallsKept,
       SubmissionUnknown, Goto
  <2>2. PaymentsKept
    BY <1>t, <1>12 DEF TypeInv, TypeOK, PaymentsKept, SubmissionUnknown
  <2> QED
    BY <1>t, <2>1, <2>2, EvidenceKept
<1>13. ASSUME NEW r \in Requests, ResourceRefuses(r) PROVE EvidenceInv'
  <2>1. CallsKept
    BY <1>t, <1>13 DEF TypeInv, TypeOK, CallsWellFormed, CallsKept,
       ResourceRefuses, Goto
  <2>2. PaymentsKept
    BY <1>t, <1>13 DEF TypeInv, TypeOK, PaymentsKept, ResourceRefuses
  <2> QED
    BY <1>t, <2>1, <2>2, EvidenceKept
<1>14. ASSUME NEW r \in Requests, RecordSubmitted(r) PROVE EvidenceInv'
  <2>1. CallsKept
    BY <1>t, <1>14 DEF TypeInv, TypeOK, CallsWellFormed, CallsKept,
       RecordSubmitted, Goto
  <2>2. PaymentsKept
    BY <1>t, <1>14 DEF TypeInv, TypeOK, PaymentsKept, RecordSubmitted
  <2> QED
    BY <1>t, <2>1, <2>2, EvidenceKept
<1>15. ASSUME NEW r \in Requests, AbortSettlement(r) PROVE EvidenceInv'
  <2>1. CallsKept
    BY <1>t, <1>15 DEF TypeInv, TypeOK, CallsWellFormed, CallsKept,
       AbortSettlement, Goto
  <2>2. PaymentsKept
    BY <1>t, <1>15 DEF TypeInv, TypeOK, PaymentsKept, AbortSettlement
  <2> QED
    BY <1>t, <2>1, <2>2, EvidenceKept
<1>16. ASSUME NEW r \in Requests, MarkSubmissionUnknown(r) PROVE EvidenceInv'
  <2>1. CallsKept
    BY <1>t, <1>16 DEF TypeInv, TypeOK, CallsWellFormed, CallsKept,
       MarkSubmissionUnknown, Goto
  <2>2. PaymentsKept
    BY <1>t, <1>16 DEF TypeInv, TypeOK, CallsWellFormed, ClaimInv, OneClaim,
       Claimed, PaymentsKept, MarkSubmissionUnknown
  <2> QED
    BY <1>t, <2>1, <2>2, EvidenceKept
<1>17. ASSUME NEW r \in Requests, FailAttempt(r) PROVE EvidenceInv'
  <2>1. CallsKept
    BY <1>t, <1>17 DEF TypeInv, TypeOK, CallsWellFormed, CallsKept,
       FailAttempt, Goto
  <2>2. PaymentsKept
    BY <1>t, <1>17 DEF TypeInv, TypeOK, CallsWellFormed, PaymentsKept,
       FailAttempt
  <2> QED
    BY <1>t, <2>1, <2>2, EvidenceKept
<1>18. ASSUME NEW r \in Requests, CancelWrite(r) PROVE EvidenceInv'
  <2>1. CallsKept
    BY <1>t, <1>18 DEF TypeInv, TypeOK, CallsWellFormed, CallsKept,
       CancelWrite, Return
  <2>2. PaymentsKept
    BY <1>t, <1>18 DEF TypeInv, TypeOK, CallsWellFormed, PaymentsKept,
       CancelWrite
  <2> QED
    BY <1>t, <2>1, <2>2, EvidenceKept
<1>19. ASSUME NEW r \in Requests, Crash(r) PROVE EvidenceInv'
  <2>1. CallsKept
    BY <1>t, <1>19 DEF TypeInv, TypeOK, CallsWellFormed, CallsKept, Crash,
       Goto, Return
  <2>2. PaymentsKept
    BY <1>t, <1>19 DEF TypeInv, TypeOK, PaymentsKept, Crash
  <2> QED
    BY <1>t, <2>1, <2>2, EvidenceKept
<1>20. ASSUME NEW r \in Requests, ChainDecides(r) PROVE EvidenceInv'
  <2>1. CallsKept
    BY <1>t, <1>20 DEF TypeInv, TypeOK, CallsWellFormed, CallsKept,
       ChainDecides
  <2>2. PaymentsKept
    BY <1>t, <1>20 DEF TypeInv, TypeOK, PaymentsKept, ChainDecides
  <2> QED
    BY <1>t, <2>1, <2>2, EvidenceKept
<1>21. ASSUME NEW i \in Intents, ExpireIntent(i) PROVE EvidenceInv'
  <2>1. CallsKept
    BY <1>t, <1>21 DEF TypeInv, TypeOK, CallsWellFormed, CallsKept,
       ExpireIntent
  <2>2. PaymentsKept
    BY <1>t, <1>21 DEF TypeInv, TypeOK, PaymentsKept, ExpireIntent
  <2> QED
    BY <1>t, <2>1, <2>2, EvidenceKept
<1>22. ASSUME NEW i \in Intents, OpenIncident(i) PROVE EvidenceInv'
  <2>1. CallsKept
    BY <1>t, <1>22 DEF TypeInv, TypeOK, CallsWellFormed, CallsKept,
       OpenIncident
  <2>2. PaymentsKept
    BY <1>t, <1>22 DEF TypeInv, TypeOK, PaymentsKept, OpenIncident
  <2> QED
    BY <1>t, <2>1, <2>2, EvidenceKept
<1>23. ASSUME NEW i \in Intents, Elapse(i) PROVE EvidenceInv'
  <2>1. CallsKept
    BY <1>t, <1>23 DEF TypeInv, TypeOK, CallsWellFormed, CallsKept, Elapse
  <2>2. PaymentsKept
    BY <1>t, <1>23 DEF TypeInv, TypeOK, PaymentsKept, Elapse
  <2> QED
    BY <1>t, <2>1, <2>2, EvidenceKept
<1>24. ASSUME SetKillSwitch PROVE EvidenceInv'
  <2>1. CallsKept
    BY <1>t, <1>24 DEF TypeInv, TypeOK, CallsWellFormed, CallsKept,
       SetKillSwitch
  <2>2. PaymentsKept
    BY <1>t, <1>24 DEF TypeInv, TypeOK, PaymentsKept, SetKillSwitch
  <2> QED
    BY <1>t, <2>1, <2>2, EvidenceKept
<1>25. ASSUME PublishPolicy PROVE EvidenceInv'
  <2>1. CallsKept
    BY <1>t, <1>25 DEF TypeInv, TypeOK, CallsWellFormed, CallsKept,
       PublishPolicy
  <2>2. PaymentsKept
    BY <1>t, <1>25 DEF TypeInv, TypeOK, PaymentsKept, PublishPolicy
  <2> QED
    BY <1>t, <2>1, <2>2, EvidenceKept
<1>26. ASSUME UNCHANGED vars PROVE EvidenceInv'
  <2>1. CallsKept
    BY <1>t, <1>26 DEF TypeInv, TypeOK, CallsWellFormed, CallsKept, vars
  <2>2. PaymentsKept
    BY <1>t, <1>26 DEF TypeInv, TypeOK, PaymentsKept, vars
  <2> QED
    BY <1>t, <2>1, <2>2, EvidenceKept
<1>27. ASSUME NEW r \in Requests, NEW i \in Intents, NEW u \in Users \cup {None},
              CreatePaidRequest(r, i, u)
       PROVE  EvidenceInv'
  <2> DEFINE outcome == EvaluatePolicy(Facts(i), Policy)
  <2>1. CallsKept
    <3>1. pc[r] = "idle" /\ UNCHANGED <<attempt, candidate, settlement, job, chain, report>>
      BY <1>27 DEF CreatePaidRequest
    <3>2. \A s \in Requests \ {r} : pc'[s] = pc[s] /\ on'[s] = on[s]
      BY <1>t, <1>27 DEF TypeInv, TypeOK, CreatePaidRequest
    <3> QED
      BY <3>1, <3>2 DEF CallsKept
  <2>2. PaymentsKept
    <3>1. outcome \in {"ALLOW", "DENY", "REQUIRE_APPROVAL"}
      BY OutcomeType, ConstantsAssumption DEF ConstantsAssumption, PolicyOutcome
    <3>2. /\ fulfillment' = fulfillment
          /\ status' = [status EXCEPT ![i] =
                           CASE outcome = "ALLOW" -> "AUTHORIZED"
                             [] outcome = "DENY" -> "DENIED"
                             [] outcome = "REQUIRE_APPROVAL" -> "APPROVAL_PENDING"]
      BY <1>27 DEF CreatePaidRequest
    <3> HIDE DEF outcome
    <3>3. status'[i] \notin {"SETTLED", "SUBMISSION_UNKNOWN"}
      BY <1>t, <3>1, <3>2 DEF TypeInv, TypeOK
    <3>4. \A j \in Intents : j # i => status'[j] = status[j]
      BY <1>t, <3>2 DEF TypeInv, TypeOK
    <3> QED
      BY <1>t, <3>2, <3>3, <3>4 DEF TypeInv, CallsWellFormed, PaymentsKept
  <2> QED
    BY <1>t, <2>1, <2>2, EvidenceKept
<1>28. ASSUME NEW r \in Requests, CommitSettlement(r) PROVE EvidenceInv'
  <2>1. /\ on[r] \in Intents /\ pc[r] = "settle" /\ report[r] \in Requests
        /\ report[r] # None /\ (Misreports \/ (report[r] = r /\ chain[r] = "success"))
    BY <1>t, <1>28, ConstantsAssumption
    DEF TypeInv, CallsWellFormed, PayloadInv, PayloadStage, Names, Nameable,
        ConstantsAssumption, CommitSettlement
  <2>2. UNCHANGED <<on, job, chain, report>> /\ ~TxTaken(r, report[r])
    BY <1>28 DEF CommitSettlement
  <2>3. /\ pc'[r] = "done" /\ attempt'[r] = "CONFIRMED" /\ candidate'[r] = report[r]
        /\ settlement'[r] = [status |-> "CONFIRMED", tx |-> report[r]]
        /\ status'[on[r]] = "SETTLED" /\ fulfillment'[on[r]] = "FULFILLED"
    BY <1>t, <1>28, <2>1 DEF TypeInv, TypeOK, CommitSettlement, Goto
  <2>4. \A s \in Requests \ {r} :
            /\ pc'[s] = pc[s] /\ attempt'[s] = attempt[s]
            /\ candidate'[s] = candidate[s] /\ settlement'[s] = settlement[s]
    BY <1>t, <1>28 DEF TypeInv, TypeOK, CommitSettlement, Goto
  <2>5. \A j \in Intents : j # on[r] =>
            status'[j] = status[j] /\ fulfillment'[j] = fulfillment[j]
    BY <1>t, <1>28 DEF TypeInv, TypeOK, CommitSettlement
  <2>6. \A s \in Requests : pc[s] = "done" => s # r /\ on[s] \in Intents /\ on[s] # on[r]
    BY <1>t, <2>1 DEF TypeInv, CallsWellFormed, ClaimInv, OneClaim, Claimed
  <2>7. RowsOver'
    BY <1>t, <2>1, <2>3, <2>4 DEF EvidenceInv, RowsOver
  <2>8. Seen'
    <3>1. \A k \in Jobs : job[k] # None =>
              /\ job[k].attempt \in Requests \ {r}
              /\ candidate'[job[k].attempt] = candidate[job[k].attempt]
      BY <1>t, <2>1, <2>4 DEF TypeInv, TypeOK, Observation, PayloadInv, Observed
    <3> QED
      BY <1>t, <2>2, <3>1 DEF EvidenceInv, Seen
  <2>9. Matched'
    BY <1>t, <2>1, <2>2, <2>3, <2>4, <2>5, <2>6 DEF EvidenceInv, Matched
  <2>10. Rested'
    <3> SUFFICES ASSUME NEW j \in Intents, status'[j] = "SETTLED"
                 PROVE  \E s \in Requests : /\ on[s] = j
                                            /\ settlement'[s].status = "CONFIRMED"
                                            /\ Backed(s)'
      BY <2>2 DEF Rested
    <3>1. CASE j = on[r]
      <4>1. Backed(r)'
        BY <2>1, <2>2, <2>3 DEF Backed
      <4> QED
        BY <2>3, <3>1, <4>1
    <3>2. CASE j # on[r]
      <4>1. PICK s \in Requests : on[s] = j /\ settlement[s].status = "CONFIRMED" /\ Backed(s)
        BY <1>t, <2>5, <3>2 DEF EvidenceInv, Rested
      <4>2. Backed(s)'
        BY <2>2, <2>4, <2>5, <3>2, <4>1 DEF Backed
      <4> QED
        BY <2>4, <3>2, <4>1, <4>2
    <3> QED
      BY <3>1, <3>2
  <2>11. CreditedOnce'
    BY <1>t, <2>2, <2>3, <2>4 DEF EvidenceInv, CreditedOnce, TxTaken
  <2> QED
    BY <2>7, <2>8, <2>9, <2>10, <2>11 DEF EvidenceInv
<1>29. ASSUME NEW k \in Jobs, Reconcile(k) PROVE EvidenceInv'
  <2> DEFINE a == job[k].attempt
             tx == candidate[a]
  <2>1. a \in Requests /\ on[a] \in Intents /\ pc[a] = "done" /\ job[k] # None
    <3>1. job[k] # None
      BY <1>29 DEF Reconcile
    <3>2. a \in Requests
      BY <1>t, <3>1 DEF TypeInv, TypeOK, Observation
    <3>3. pc[a] = "done"
      BY <1>t, <3>1 DEF PayloadInv, Observed
    <3> QED
      BY <1>t, <3>1, <3>2, <3>3 DEF TypeInv, CallsWellFormed
  <2>2. tx \in Requests /\ tx # None
    BY <1>t, <2>1, ConstantsAssumption DEF EvidenceInv, Seen, ConstantsAssumption
  <2>3. UNCHANGED <<candidate, pc, on, chain, report>>
    BY <1>29 DEF Reconcile
  <2>4. \A l \in Jobs : job'[l] # None => job'[l] = job[l]
    BY <1>t, <1>29 DEF TypeInv, TypeOK, Reconcile
  <2>5. Seen'
    BY <1>t, <2>3, <2>4 DEF EvidenceInv, Seen
  <2> HIDE DEF a, tx
  <2>6. CASE UNCHANGED <<attempt, status, settlement, fulfillment>>
    <3>1. RowsOver' /\ Matched' /\ Rested' /\ CreditedOnce'
      BY <1>t, <2>3, <2>6
      DEF EvidenceInv, RowsOver, Matched, Rested, Backed, CreditedOnce
    <3> QED
      BY <2>5, <3>1 DEF EvidenceInv
  \* One of the three writes of the outcome, or of a replay.
  <2>7. ASSUME NEW row \in SettlementRow, NEW st \in {"CONFIRMED", "FAILED"},
               NEW ful \in {"FAILED", fulfillment[on[a]]},
               status[on[a]] = "SUBMISSION_UNKNOWN",
               settlement' = [settlement EXCEPT ![a] = row],
               \/ row = settlement[a] /\ st = "FAILED"
               \/ ~TxTaken(a, tx) /\ row = [status |-> st, tx |-> tx],
               attempt' = [attempt EXCEPT ![a] = st],
               fulfillment' = [fulfillment EXCEPT ![on[a]] = ful],
               status' = [status EXCEPT ![on[a]] =
                              IF st = "CONFIRMED" THEN "SETTLED" ELSE "SETTLEMENT_FAILED"],
               st = "CONFIRMED" => chain[tx] = "success" /\ Amount[on[tx]] = Amount[on[a]]
        PROVE  EvidenceInv'
    <3>1. /\ settlement'[a] = row /\ attempt'[a] = st /\ fulfillment'[on[a]] = ful
          /\ status'[on[a]] = IF st = "CONFIRMED" THEN "SETTLED" ELSE "SETTLEMENT_FAILED"
      BY <1>t, <2>1, <2>7 DEF TypeInv, TypeOK
    <3>2. \A s \in Requests \ {a} : settlement'[s] = settlement[s] /\ attempt'[s] = attempt[s]
      BY <1>t, <2>7 DEF TypeInv, TypeOK
    <3>3. \A j \in Intents : j # on[a] =>
              status'[j] = status[j] /\ fulfillment'[j] = fulfillment[j]
      BY <1>t, <2>7 DEF TypeInv, TypeOK
    <3>4. \A s \in Requests : pc[s] = "done" /\ s # a => on[s] \in Intents /\ on[s] # on[a]
      BY <1>t, <2>1 DEF TypeInv, CallsWellFormed, ClaimInv, OneClaim, Claimed
    <3>5. RowsOver'
      BY <1>t, <2>1, <2>2, <2>3, <2>7, <3>1, <3>2 DEF EvidenceInv, RowsOver
    <3>6. Matched'
      <4> SUFFICES ASSUME NEW s \in Requests, attempt'[s] = "CONFIRMED"
                   PROVE  /\ pc[s] = "done"
                          /\ status'[on[s]] # "SUBMISSION_UNKNOWN"
                          /\ settlement'[s].tx \in Requests
                          /\ fulfillment'[on[s]] = "FAILED" =>
                                 /\ chain[settlement'[s].tx] = "success"
                                 /\ Amount[on[settlement'[s].tx]] = Amount[on[s]]
        BY <2>3 DEF Matched
      <4>1. CASE s = a
        BY <2>1, <2>2, <2>7, <3>1, <4>1
      <4>2. CASE s # a
        BY <1>t, <3>2, <3>3, <3>4, <4>2 DEF EvidenceInv, Matched
      <4> QED
        BY <4>1, <4>2
    <3>7. Rested'
      <4> SUFFICES ASSUME NEW j \in Intents, status'[j] = "SETTLED"
                   PROVE  \E s \in Requests : /\ on[s] = j
                                              /\ settlement'[s].status = "CONFIRMED"
                                              /\ Backed(s)'
        BY <2>3 DEF Rested
      <4>1. CASE j = on[a]
        <5>1. st = "CONFIRMED" /\ row = [status |-> "CONFIRMED", tx |-> tx]
          BY <2>7, <3>1, <4>1
        <5>2. PICK b \in Requests : b = a
          BY <2>1
        <5>3. settlement'[b] = row /\ on[b] = j
          BY <3>1, <4>1, <5>2
        <5>4. Backed(b)'
          BY <2>3, <2>7, <5>1, <5>2, <5>3 DEF Backed
        <5> QED
          BY <5>1, <5>3, <5>4
      <4>2. CASE j # on[a]
        <5>1. PICK s \in Requests : on[s] = j /\ settlement[s].status = "CONFIRMED" /\ Backed(s)
          BY <1>t, <3>3, <4>2 DEF EvidenceInv, Rested
        <5>2. Backed(s)'
          BY <2>3, <3>2, <3>3, <4>2, <5>1 DEF Backed
        <5> QED
          BY <3>2, <4>2, <5>1, <5>2
      <4> QED
        BY <4>1, <4>2
    <3>8. CreditedOnce'
      BY <1>t, <2>7, <3>1, <3>2 DEF EvidenceInv, CreditedOnce, TxTaken
    <3> QED
      BY <2>5, <3>5, <3>6, <3>7, <3>8 DEF EvidenceInv
  <2>8. ASSUME status[on[a]] = "SUBMISSION_UNKNOWN",
               UNCHANGED <<settlement, fulfillment>>,
               attempt' = [attempt EXCEPT ![a] = "FAILED"],
               status' = [status EXCEPT ![on[a]] = "SETTLEMENT_FAILED"]
        PROVE  EvidenceInv'
    <3>1. /\ settlement' = [settlement EXCEPT ![a] = settlement[a]]
          /\ fulfillment' = [fulfillment EXCEPT ![on[a]] = fulfillment[on[a]]]
          /\ settlement[a] \in SettlementRow
      BY <1>t, <2>1, <2>8 DEF TypeInv, TypeOK
    <3> QED
      BY <2>7, <2>8, <3>1
  <2>9. ASSUME NEW st \in {"CONFIRMED", "FAILED"},
               status[on[a]] = "SUBMISSION_UNKNOWN", ~TxTaken(a, tx),
               settlement' = [settlement EXCEPT ![a] = [status |-> st, tx |-> tx]],
               attempt' = [attempt EXCEPT ![a] = st],
               fulfillment' = [fulfillment EXCEPT ![on[a]] = "FAILED"],
               status' = [status EXCEPT ![on[a]] =
                              IF st = "CONFIRMED" THEN "SETTLED" ELSE "SETTLEMENT_FAILED"],
               st = "CONFIRMED" => job[k].outcome = "CONFIRMED"
        PROVE  EvidenceInv'
    <3>1. [status |-> st, tx |-> tx] \in SettlementRow
      BY <2>2, <2>9 DEF SettlementRow
    <3>2. st = "CONFIRMED" => chain[tx] = "success" /\ Amount[on[tx]] = Amount[on[a]]
      BY <1>t, <2>1, <2>9 DEF EvidenceInv, Seen, a, tx
    <3> QED
      BY <2>7, <2>9, <3>1, <3>2
  <2> QED
    BY <1>29, <2>6, <2>8, <2>9 DEF Reconcile, RejectSubmission, a, tx
<1>30. ASSUME NEW k \in Jobs, NEW r \in Requests, Observe(k, r) PROVE EvidenceInv'
  <2>1. /\ UNCHANGED <<status, attempt, settlement, fulfillment, candidate, pc, on, chain, report>>
        /\ job' = [job EXCEPT ![k] = [attempt |-> r, outcome |-> ReconciliationOutcome(r)]]
        /\ candidate[r] # None /\ chain[candidate[r]] \in {"success", "failed"}
    BY <1>30 DEF Observe, Reconcilable
  <2>2. RowsOver' /\ Matched' /\ Rested' /\ CreditedOnce'
    BY <1>t, <2>1 DEF EvidenceInv, RowsOver, Matched, Rested, Backed, CreditedOnce
  <2>3. Seen'
    <3>1. candidate[r] \in Requests
      BY <1>t, <2>1 DEF TypeInv, TypeOK
    <3>2. ReconciliationOutcome(r) = "CONFIRMED" =>
              chain[candidate[r]] = "success" /\ Amount[on[candidate[r]]] = Amount[on[r]]
      BY <2>1 DEF ReconciliationOutcome
    <3>3. job'[k] = [attempt |-> r, outcome |-> ReconciliationOutcome(r)]
      BY <1>t, <2>1 DEF TypeInv, TypeOK
    <3>4. \A l \in Jobs \ {k} : job'[l] = job[l]
      BY <1>t, <2>1 DEF TypeInv, TypeOK
    <3> SUFFICES ASSUME NEW l \in Jobs, job'[l] # None
                 PROVE  /\ candidate'[job'[l].attempt] \in Requests
                        /\ job'[l].outcome = "CONFIRMED" =>
                               /\ chain'[candidate'[job'[l].attempt]] = "success"
                               /\ Amount[on'[candidate'[job'[l].attempt]]] = Amount[on'[job'[l].attempt]]
      BY DEF Seen
    <3>5. CASE l = k
      BY <2>1, <3>1, <3>2, <3>3, <3>5
    <3>6. CASE l # k
      BY <1>t, <2>1, <3>4, <3>6 DEF EvidenceInv, Seen
    <3> QED
      BY <3>5, <3>6
  <2> QED
    BY <2>2, <2>3 DEF EvidenceInv
<1> QED
  BY <1>1, <1>2, <1>3, <1>4, <1>5, <1>6, <1>7, <1>8, <1>9, <1>10, <1>11,
     <1>12, <1>13, <1>14, <1>15, <1>16, <1>17, <1>18, <1>19, <1>20, <1>21,
     <1>22, <1>23, <1>24, <1>25, <1>26, <1>27, <1>28, <1>29, <1>30 DEF Next, Call,
     Proceed

(***************************************************************************)
(* The evidence, from the start.                                           *)
(***************************************************************************)
LEMMA EvidenceInvariant == Spec => []EvidenceInv
<1>1. Init => EvidenceInv
  BY DEF Init, NoSettlement, EvidenceInv, RowsOver, Seen, Matched, Rested, CreditedOnce
<1>2. TypeInv /\ TypeInv' /\ ClaimInv /\ PayloadInv /\ EvidenceInv /\ [Next]_vars
          => EvidenceInv'
  BY EvidenceStep
<1> QED
  BY <1>1, <1>2, PayloadInvariant, PTL DEF Spec

(***************************************************************************)
(* A settled payment rests on a confirmed settlement of its own attempt,   *)
(* for a transaction that succeeded with the quoted amount or, where       *)
(* resources misreport, on the one the resource named in a 2xx answer; and *)
(* no transaction is credited twice (CommitSettlement and the              *)
(* reconciliation services, behind the unique index on Settlement).        *)
(***************************************************************************)
THEOREM EvidenceBehindSettlement == Spec => []SettledOnEvidence
<1>1. EvidenceInv => SettledOnEvidence
  BY DEF EvidenceInv, Rested, CreditedOnce, SettledOnEvidence
<1> QED
  BY <1>1, EvidenceInvariant, PTL

(***************************************************************************)
(* A settlement a sweep found moved the quoted amount, even when resources *)
(* name each other's transactions (the amount check of the reconciliation  *)
(* services).                                                              *)
(***************************************************************************)
THEOREM AmountsMatch == Spec => []ReconciledAmountMatches
<1>1. EvidenceInv => ReconciledAmountMatches
  BY DEF EvidenceInv, Matched, ReconciledAmountMatches
<1> QED
  BY <1>1, EvidenceInvariant, PTL

-----------------------------------------------------------------------------
(* Layer 7: limits.                                                        *)

(***************************************************************************)
(* Without late cancellations only a new intent adds to what is counted:   *)
(* read off the refinement.                                                *)
(***************************************************************************)
LEMMA CountedByCreation ==
    ASSUME TypeInv, [Promised!Next]_(Promised!promised), overtaken' = {}
    PROVE  /\ overtaken = {}
           /\ \A i \in Spending' \ Spending : status[i] = "none" /\ status'[i] # "none"
<1>1. CASE UNCHANGED Promised!promised
  <2>1. UNCHANGED overtaken /\ CountedBar' = CountedBar
    BY <1>1 DEF Promised!promised, CountedBar
  <2> QED
    BY <2>1 DEF CountedBar, Spending
<1>2. CASE Promised!Next
  <2>1. PICK p \in Intents :
            \/ Promised!Promise(p) \/ Promised!Deny(p) \/ Promised!Start(p)
            \/ Promised!Settle(p) \/ Promised!GiveUp(p) \/ Promised!GiveUpInDoubt(p)
            \/ Promised!Overtake(p) \/ Promised!Unruly(p)
            \/ \E x \in Requests : Promised!Move(x, p)
    BY <1>2 DEF Promised!Next
  <2>2. ASSUME UNCHANGED overtaken, CountedBar' \in {CountedBar, CountedBar \ {p}}
        PROVE  overtaken = {} /\ Spending' \subseteq Spending
    BY <2>2 DEF CountedBar, Spending
  <2>3. CASE Promised!Promise(p)
    <3>1. UNCHANGED overtaken /\ CountedBar' = CountedBar \cup {p}
      BY <2>3 DEF Promised!Promise, CountedBar
    <3>2. PhaseBar[p] = "new" /\ PhaseBar' = [PhaseBar EXCEPT ![p] = "open"]
      BY <2>3 DEF Promised!Promise, Promised!Become, PhaseBar
    <3>3. PhaseOf(status[p]) = "new" /\ PhaseOf(status'[p]) = "open"
      BY <3>2 DEF PhaseBar
    <3>4. status[p] = "none" /\ status'[p] # "none"
      BY <3>3, PhaseTable DEF TypeInv, TypeOK
    <3> QED
      BY <3>1, <3>4 DEF CountedBar, Spending
  <2>4. CASE Promised!Deny(p) \/ Promised!Start(p) \/ Promised!Settle(p) \/ Promised!GiveUpInDoubt(p)
    BY <2>2, <2>4 DEF Promised!Deny, Promised!Start, Promised!Settle, Promised!GiveUpInDoubt, CountedBar
  <2>5. CASE Promised!GiveUp(p)
    BY <2>2, <2>5 DEF Promised!GiveUp, CountedBar
  <2>6. CASE Promised!Overtake(p)
    BY <2>6 DEF Promised!Overtake
  <2>7. CASE Promised!Unruly(p)
    BY <2>7 DEF Promised!Unruly
  <2>8. CASE \E x \in Requests : Promised!Move(x, p)
    BY <2>2, <2>8 DEF Promised!Move, CountedBar
  <2> QED
    BY <2>1, <2>3, <2>4, <2>5, <2>6, <2>7, <2>8
<1> QED
  BY <1>1, <1>2

\* What every step but a creation does to the rows of an intent: a row is not
\* inserted, and an approval not dropped.
NothingNew ==
    \A i \in Intents : /\ status[i] = "none" => status'[i] = "none"
                       /\ approval'[i] = "none" => approval[i] = "none"

(***************************************************************************)
(* Such a step commits no more than was committed before.                  *)
(***************************************************************************)
LEMMA NothingNewKeepsLimits ==
    ASSUME TypeInv, SpendWithinLimits, NothingNew, [Promised!Next]_(Promised!promised)
    PROVE  SpendWithinLimits'
<1> SUFFICES ASSUME overtaken' = {}
             PROVE  /\ SumFunctionOnSet(Amount, Spending') <= Balance
                    /\ SumFunctionOnSet(Amount, AutoAllowed') <= Policy.dailyLimit
  BY DEF SpendWithinLimits
<1>1. overtaken = {} /\ Spending' \subseteq Spending
  BY CountedByCreation DEF NothingNew, Spending
<1>2. AutoAllowed' \subseteq AutoAllowed
  BY <1>1 DEF NothingNew, AutoAllowed, Spending
<1>3. /\ IsFiniteSet(Spending) /\ IsFiniteSet(AutoAllowed)
      /\ \A i \in Spending : Amount[i] \in Nat
      /\ \A i \in AutoAllowed : Amount[i] \in Nat
  BY ConstantsAssumption, FS_Subset DEF ConstantsAssumption, Spending, AutoAllowed
<1>4. /\ SumFunctionOnSet(Amount, Spending') <= SumFunctionOnSet(Amount, Spending)
      /\ SumFunctionOnSet(Amount, AutoAllowed') <= SumFunctionOnSet(Amount, AutoAllowed)
  BY <1>1, <1>2, <1>3, SumMonotone
<1>5. /\ SumFunctionOnSet(Amount, Spending') \in Nat
      /\ SumFunctionOnSet(Amount, Spending) \in Nat
      /\ SumFunctionOnSet(Amount, AutoAllowed') \in Nat
      /\ SumFunctionOnSet(Amount, AutoAllowed) \in Nat
  BY <1>1, <1>2, <1>3, FS_Subset, SumNat
<1>6. Balance \in Nat /\ Policy.dailyLimit \in Nat
  BY ConstantsAssumption DEF ConstantsAssumption
<1> QED
  BY <1>1, <1>4, <1>5, <1>6 DEF SpendWithinLimits

(***************************************************************************)
(* evaluatePolicy lets nothing pass that exceeds the balance, and nothing  *)
(* without an approval that exceeds the daily limit.                       *)
(***************************************************************************)
LEMMA PolicyBounds ==
    ASSUME NEW f, NEW p, p.overLimitAction \in OverLimitActions
    PROVE  /\ EvaluatePolicy(f, p) # "DENY" => ~(f.amount <= 0) /\ ~(f.amount > f.balance)
           /\ EvaluatePolicy(f, p) = "ALLOW" => ~(f.reservedToday + f.amount > p.dailyLimit)
<1>1. Denials(f) = {} => ~(f.amount <= 0) /\ ~(f.amount > f.balance)
  BY DEF Denials, When
<1>2. Breaches(f, p) = {} => ~(f.reservedToday + f.amount > p.dailyLimit)
  BY DEF Breaches, When
<1> QED
  BY <1>1, <1>2 DEF EvaluatePolicy, OverLimitActions

(***************************************************************************)
(* A created intent fits what was left when its transaction read the sums. *)
(***************************************************************************)
LEMMA CreationKeepsLimits ==
    ASSUME TypeInv, Fresh, SpendWithinLimits, NEW r \in Requests, NEW i \in Intents,
           NEW u \in Users \cup {None}, CreatePaidRequest(r, i, u)
    PROVE  SpendWithinLimits'
<1> DEFINE outcome == EvaluatePolicy(Facts(i), Policy)
           Sum(S) == SumFunctionOnSet(Amount, S)
<1>c. /\ IsFiniteSet(Intents) /\ Amount \in [Intents -> Nat]
      /\ Balance \in Nat /\ Policy.dailyLimit \in Nat
      /\ Policy.overLimitAction \in OverLimitActions
  BY ConstantsAssumption DEF ConstantsAssumption
<1>1. /\ status[i] = "none" /\ UNCHANGED overtaken
      /\ reservation' = [reservation EXCEPT ![i] = IF outcome = "DENY" THEN "none" ELSE "ACTIVE"]
      /\ approval' = [approval EXCEPT ![i] =
                         IF outcome = "REQUIRE_APPROVAL" THEN "PENDING" ELSE "none"]
  BY DEF CreatePaidRequest
<1>2. outcome \in {"ALLOW", "DENY", "REQUIRE_APPROVAL"}
  BY <1>c, OutcomeType DEF PolicyOutcome
<1>3. i \notin Spending
  BY <1>1 DEF Fresh, Spending, Spent
<1>4. \A S \in SUBSET Intents : IsFiniteSet(S) /\ Sum(S) \in Nat
  BY <1>c, FS_Subset, SumNat
<1>5. Spending \in SUBSET Intents /\ AutoAllowed \in SUBSET Spending /\ Committed = Sum(Spending)
  BY DEF Spending, AutoAllowed, Committed, Counted, Spent
<1>6. Sum(AutoAllowed) <= Sum(Spending)
  BY <1>c, <1>4, <1>5, SumMonotone
<1>7. \A S \in SUBSET Intents : i \notin S => Sum(S \cup {i}) = Amount[i] + Sum(S)
  BY <1>c, <1>4, SumAdd
<1>8. Spending' = IF outcome = "DENY" THEN Spending ELSE Spending \cup {i}
  BY <1>1, <1>3 DEF Spending, Spent, TypeInv, TypeOK
<1>9. AutoAllowed' = IF outcome = "ALLOW" THEN AutoAllowed \cup {i} ELSE AutoAllowed
  BY <1>1, <1>2, <1>3, <1>8 DEF AutoAllowed, Spending, TypeInv, TypeOK
<1>10. outcome # "DENY" => Sum(Spending \cup {i}) <= Balance
  <2> SUFFICES ASSUME outcome # "DENY" PROVE Sum(Spending \cup {i}) <= Balance
    OBVIOUS
  <2>1. ~(Amount[i] <= 0) /\ ~(Amount[i] > AvailableBalance)
    BY <1>c, PolicyBounds DEF Facts
  <2>2. Amount[i] \in Nat /\ Committed \in Nat
    BY <1>c, <1>4, <1>5
  <2>3. Amount[i] + Committed <= Balance
    BY <1>c, <2>1, <2>2 DEF AvailableBalance
  <2> HIDE DEF Sum
  <2> QED
    BY <1>3, <1>5, <1>7, <2>3
<1>11. outcome = "ALLOW" => Sum(AutoAllowed \cup {i}) <= Policy.dailyLimit
  <2> SUFFICES ASSUME outcome = "ALLOW" PROVE Sum(AutoAllowed \cup {i}) <= Policy.dailyLimit
    OBVIOUS
  <2>1. ~(Committed + Amount[i] > Policy.dailyLimit)
    BY <1>c, PolicyBounds DEF Facts
  <2>2. i \notin AutoAllowed /\ AutoAllowed \in SUBSET Intents
    BY <1>3, <1>5
  <2>3. Sum(AutoAllowed \cup {i}) = Amount[i] + Sum(AutoAllowed)
    BY <1>7, <2>2
  <2>4. Amount[i] \in Nat /\ Committed \in Nat /\ Sum(AutoAllowed) \in Nat
    BY <1>c, <1>4, <1>5, <2>2
  <2> HIDE DEF Sum
  <2> QED
    BY <1>c, <1>5, <1>6, <2>1, <2>3, <2>4
<1> HIDE DEF outcome, Sum
<1>12. SpendWithinLimits' <=>
           (overtaken' = {} => Sum(Spending') <= Balance /\ Sum(AutoAllowed') <= Policy.dailyLimit)
  BY DEF SpendWithinLimits, Sum
<1>13. overtaken = {} => Sum(Spending) <= Balance /\ Sum(AutoAllowed) <= Policy.dailyLimit
  BY DEF SpendWithinLimits, Sum
<1> QED
  BY <1>1, <1>8, <1>9, <1>10, <1>11, <1>12, <1>13

(***************************************************************************)
(* Every step but a creation does so: what writes the row of an intent     *)
(* found it there.                                                         *)
(***************************************************************************)
LEMMA OnlyCreationIsNew ==
    ASSUME TypeInv, Begun, [Next]_vars,
           ~ \E r \in Requests, i \in Intents, u \in Users \cup {None} : CreatePaidRequest(r, i, u)
    PROVE  NothingNew
<1>t. /\ TypeInv /\ Begun
      /\ ~ \E r \in Requests, i \in Intents, u \in Users \cup {None} : CreatePaidRequest(r, i, u)
  OBVIOUS
<1>1. ASSUME NEW r \in Requests, NEW i \in Intents, NEW u \in Users, NEW v \in {"APPROVE", "REJECT"}, Decide(r, i, u, v)
      PROVE  NothingNew
  <2> DEFINE rejected == Cardinality(Voters(i, "REJECT")) >= RequiredRejections
             consumed == ~rejected /\ Cardinality(Voters(i, "APPROVE")) >= RequiredApprovals
  <2>1. /\ rejected \/ consumed => status[i] = "APPROVAL_PENDING"
        /\ status' = [status EXCEPT ![i] = IF rejected THEN "REJECTED"
                                           ELSE IF consumed THEN "AUTHORIZED" ELSE @]
        /\ approval' = [approval EXCEPT ![i] = IF rejected THEN "REJECTED"
                                               ELSE IF consumed THEN "CONSUMED" ELSE @]
    BY <1>1 DEF Decide
  <2> HIDE DEF rejected, consumed
  <2> QED
    BY <1>t, <2>1 DEF NothingNew, TypeInv, TypeOK
<1>2. ASSUME NEW r \in Requests, NEW i \in Intents, SubmitSelfCustody(r, i)
      PROVE  NothingNew
  BY <1>2 DEF NothingNew, SubmitSelfCustody
<1>3. ASSUME NEW r \in Requests, NEW i \in Intents, CancelRead(r, i)
      PROVE  NothingNew
  BY <1>3 DEF NothingNew, CancelRead
<1>4. ASSUME NEW r \in Requests, Revalidate(r) PROVE NothingNew
  <2>1. on[r] \in Intents /\ status[on[r]] # "none"
    BY <1>t, <1>4 DEF TypeInv, CallsWellFormed, Begun, Revalidate
  <2> QED
    BY <1>t, <1>4, <2>1 DEF NothingNew, TypeInv, TypeOK, Revalidate, StillAuthorized
<1>5. ASSUME NEW r \in Requests, ReadAuthorized(r)
      PROVE  NothingNew
  BY <1>5 DEF NothingNew, ReadAuthorized
<1>6. ASSUME NEW r \in Requests, FailBeforeSigning(r)
      PROVE  NothingNew
  <2>1. on[r] \in Intents /\ status[on[r]] # "none"
    BY <1>t, <1>6 DEF TypeInv, CallsWellFormed, Begun, FailBeforeSigning
  <2> QED
    BY <1>t, <1>6, <2>1 DEF NothingNew, TypeInv, TypeOK, FailBeforeSigning, StillAuthorized
<1>7. ASSUME NEW r \in Requests, Claim(r) PROVE NothingNew
  <2>1. on[r] \in Intents /\ status[on[r]] # "none"
    BY <1>t, <1>7 DEF TypeInv, CallsWellFormed, Begun, Claim
  <2> QED
    BY <1>t, <1>7, <2>1 DEF NothingNew, TypeInv, TypeOK, Claim, StillAuthorized
<1>8. ASSUME NEW r \in Requests, CreateAttempt(r)
      PROVE  NothingNew
  BY <1>8 DEF NothingNew, CreateAttempt
<1>9. ASSUME NEW r \in Requests, Sign(r) PROVE NothingNew
  BY <1>9 DEF NothingNew, Sign
<1>10. ASSUME NEW r \in Requests, Send(r) PROVE NothingNew
  BY <1>10 DEF NothingNew, Send
<1>11. ASSUME NEW r \in Requests, Fulfilled(r) PROVE NothingNew
  BY <1>11 DEF NothingNew, Fulfilled
<1>12. ASSUME NEW r \in Requests, SubmissionUnknown(r)
      PROVE  NothingNew
  BY <1>12 DEF NothingNew, SubmissionUnknown
<1>13. ASSUME NEW r \in Requests, ResourceRefuses(r)
      PROVE  NothingNew
  BY <1>13 DEF NothingNew, ResourceRefuses
<1>14. ASSUME NEW r \in Requests, RecordSubmitted(r)
      PROVE  NothingNew
  BY <1>14 DEF NothingNew, RecordSubmitted
<1>15. ASSUME NEW r \in Requests, CommitSettlement(r)
      PROVE  NothingNew
  <2>1. on[r] \in Intents /\ status[on[r]] # "none"
    BY <1>t, <1>15 DEF TypeInv, CallsWellFormed, Begun, CommitSettlement
  <2> QED
    BY <1>t, <1>15, <2>1 DEF NothingNew, TypeInv, TypeOK, CommitSettlement
<1>16. ASSUME NEW r \in Requests, AbortSettlement(r)
      PROVE  NothingNew
  BY <1>16 DEF NothingNew, AbortSettlement
<1>17. ASSUME NEW r \in Requests, MarkSubmissionUnknown(r)
      PROVE  NothingNew
  <2>1. on[r] \in Intents /\ status[on[r]] # "none"
    BY <1>t, <1>17 DEF TypeInv, CallsWellFormed, Begun, MarkSubmissionUnknown
  <2> QED
    BY <1>t, <1>17, <2>1 DEF NothingNew, TypeInv, TypeOK, MarkSubmissionUnknown
<1>18. ASSUME NEW r \in Requests, FailAttempt(r)
      PROVE  NothingNew
  <2>1. on[r] \in Intents /\ status[on[r]] # "none"
    BY <1>t, <1>18 DEF TypeInv, CallsWellFormed, Begun, FailAttempt
  <2> QED
    BY <1>t, <1>18, <2>1 DEF NothingNew, TypeInv, TypeOK, FailAttempt
<1>19. ASSUME NEW r \in Requests, CancelWrite(r)
      PROVE  NothingNew
  <2>1. on[r] \in Intents /\ status[on[r]] # "none"
    BY <1>t, <1>19 DEF TypeInv, CallsWellFormed, Begun, CancelWrite
  <2> QED
    BY <1>t, <1>19, <2>1 DEF NothingNew, TypeInv, TypeOK, CancelWrite
<1>20. ASSUME NEW r \in Requests, Crash(r) PROVE NothingNew
  BY <1>20 DEF NothingNew, Crash
<1>21. ASSUME NEW r \in Requests, ChainDecides(r)
      PROVE  NothingNew
  BY <1>21 DEF NothingNew, ChainDecides
<1>22. ASSUME NEW i \in Intents, ExpireIntent(i)
      PROVE  NothingNew
  BY <1>t, <1>22 DEF NothingNew, TypeInv, TypeOK, ExpireIntent, Expirable
<1>23. ASSUME NEW i \in Intents, OpenIncident(i)
      PROVE  NothingNew
  BY <1>23 DEF NothingNew, OpenIncident
<1>24. ASSUME NEW i \in Intents, Elapse(i) PROVE NothingNew
  BY <1>24 DEF NothingNew, Elapse
<1>25. ASSUME NEW k \in Jobs, Reconcile(k) PROVE NothingNew
  <2>1. ReconcileEffect(k)
    BY <1>t, <1>25, ReconcileEffectLemma
  <2> QED
    BY <1>t, <2>1 DEF ReconcileEffect, Confirmed, RejectSubmission, NothingNew, TypeInv, TypeOK
<1>26. ASSUME NEW k \in Jobs, NEW r \in Requests, Observe(k, r) PROVE NothingNew
  BY <1>26 DEF NothingNew, Observe
<1>27. ASSUME SetKillSwitch PROVE NothingNew
  BY <1>27 DEF NothingNew, SetKillSwitch
<1>28. ASSUME PublishPolicy PROVE NothingNew
  BY <1>28 DEF NothingNew, PublishPolicy
<1>29. ASSUME UNCHANGED vars PROVE NothingNew
  BY <1>29 DEF NothingNew, vars
<1> QED
  BY <1>t, <1>1, <1>2, <1>3, <1>4, <1>5, <1>6, <1>7, <1>8, <1>9, <1>10,
     <1>11, <1>12, <1>13, <1>14, <1>15, <1>16, <1>17, <1>18, <1>19, <1>20,
     <1>21, <1>22, <1>23, <1>24, <1>25, <1>26, <1>27, <1>28, <1>29 DEF
     Next, Call, Proceed

(***************************************************************************)
(* The layer, inductive given the others and the refinement.               *)
(***************************************************************************)
LEMMA LimitStep ==
    ASSUME TypeInv, ClaimInv, LedgerAgrees, PayloadInv, SpendWithinLimits, [Next]_vars
    PROVE  SpendWithinLimits'
<1>1. CASE \E r \in Requests, i \in Intents, u \in Users \cup {None} : CreatePaidRequest(r, i, u)
  BY <1>1, CreationKeepsLimits DEF PayloadInv
<1>2. CASE ~ \E r \in Requests, i \in Intents, u \in Users \cup {None} : CreatePaidRequest(r, i, u)
  <2>1. NothingNew
    BY <1>2, OnlyCreationIsNew DEF PayloadInv
  <2>2. [Promised!Next]_(Promised!promised)
    BY RefineStep
  <2> QED
    BY <2>1, <2>2, NothingNewKeepsLimits
<1> QED
  BY <1>1, <1>2

(***************************************************************************)
(* The serializable creation transaction never lets concurrent requests    *)
(* commit more than the balance, nor, without an approval, more than the   *)
(* daily limit (payment-service.ts and policy.ts), unless a cancellation   *)
(* overtook a claim: whatever follows, only a creation adds to the sums.   *)
(***************************************************************************)
THEOREM LimitsHold == Spec => []SpendWithinLimits
<1>1. Init => SpendWithinLimits
  <2> SUFFICES ASSUME Init PROVE SpendWithinLimits
    OBVIOUS
  <2>1. Spending = {} /\ AutoAllowed = {}
    BY DEF Init, Spending, AutoAllowed, Spent
  <2>2. SumFunctionOnSet(Amount, {}) = 0 /\ Balance \in Nat /\ Policy.dailyLimit \in Nat
    BY SumEmpty, ConstantsAssumption DEF ConstantsAssumption
  <2> QED
    BY <2>1, <2>2 DEF SpendWithinLimits
<1>2. TypeInv /\ ClaimInv /\ LedgerAgrees /\ PayloadInv /\ SpendWithinLimits /\ [Next]_vars
          => SpendWithinLimits'
  BY LimitStep
<1> QED
  BY <1>1, <1>2, PayloadInvariant, PTL DEF Spec

-----------------------------------------------------------------------------
(* Layer 8: doubt.  What the liveness properties DoubtSurfaces and         *)
(* DecidedSubmissionsResolve start from.                                   *)

\* A payment in doubt has an attempt in doubt, and an attempt in doubt a
\* payment in doubt or one that a cancellation overtook.
DoubtIsFound ==
    /\ \A i \in Intents : status[i] = "SUBMISSION_UNKNOWN" =>
           \E r \in Requests : on[r] = i /\ attempt[r] = "UNKNOWN"
    /\ \A r \in Requests : attempt[r] = "UNKNOWN" =>
           status[on[r]] = "SUBMISSION_UNKNOWN" \/ on[r] \in overtaken

\* What most steps leave as it is: which attempts and which intents are in
\* doubt, but for an intent a cancellation overtakes.
DoubtKept ==
    /\ \A s \in Requests : /\ pc[s] \in AfterClaim => on'[s] = on[s]
                           /\ attempt'[s] = "UNKNOWN" <=> attempt[s] = "UNKNOWN"
    /\ \A j \in Intents : /\ status'[j] = "SUBMISSION_UNKNOWN" => status[j] = "SUBMISSION_UNKNOWN"
                          /\ status[j] = "SUBMISSION_UNKNOWN" =>
                                 status'[j] = "SUBMISSION_UNKNOWN" \/ j \in overtaken'
    /\ overtaken \subseteq overtaken'

(***************************************************************************)
(* Every step does so but the two that declare a doubt and resolve it.     *)
(***************************************************************************)
LEMMA OnlyTwoChangeDoubt ==
    ASSUME TypeInv, ClaimInv, PayloadInv, [Next]_vars,
           ~ \E r \in Requests : MarkSubmissionUnknown(r),
           ~ \E k \in Jobs : Reconcile(k)
    PROVE  DoubtKept
<1>t. /\ TypeInv /\ ClaimInv /\ PayloadInv
      /\ ~ \E r \in Requests : MarkSubmissionUnknown(r)
      /\ ~ \E k \in Jobs : Reconcile(k)
  OBVIOUS
<1>1. ASSUME NEW r \in Requests, NEW i \in Intents, SubmitSelfCustody(r, i) PROVE DoubtKept
  BY <1>t, <1>1 DEF DoubtKept, TypeInv, TypeOK, CallsWellFormed, SubmitSelfCustody, Goto, Return
<1>2. ASSUME NEW r \in Requests, NEW i \in Intents, CancelRead(r, i) PROVE DoubtKept
  BY <1>t, <1>2 DEF DoubtKept, TypeInv, TypeOK, CallsWellFormed, CancelRead, Goto, Return
<1>3. ASSUME NEW r \in Requests, ReadAuthorized(r) PROVE DoubtKept
  BY <1>t, <1>3 DEF DoubtKept, TypeInv, TypeOK, CallsWellFormed, ReadAuthorized, Goto, Return
<1>4. ASSUME NEW r \in Requests, Sign(r) PROVE DoubtKept
  <2>1. attempt[r] # "UNKNOWN" /\ UNCHANGED <<status, on, overtaken>>
    BY <1>t, <1>4 DEF PayloadInv, Observed, Sign
  <2>2. \/ attempt' = [attempt EXCEPT ![r] = "SIGNED"]
        \/ attempt' = attempt
    BY <1>4 DEF Sign
  <2> QED
    BY <1>t, <2>1, <2>2 DEF DoubtKept, TypeInv, TypeOK
<1>5. ASSUME NEW r \in Requests, Send(r) PROVE DoubtKept
  BY <1>t, <1>5 DEF DoubtKept, TypeInv, TypeOK, CallsWellFormed, Send, Goto, Return
<1>6. ASSUME NEW r \in Requests, Fulfilled(r) PROVE DoubtKept
  BY <1>t, <1>6 DEF DoubtKept, TypeInv, TypeOK, CallsWellFormed, Fulfilled, Goto, Return
<1>7. ASSUME NEW r \in Requests, SubmissionUnknown(r) PROVE DoubtKept
  BY <1>t, <1>7 DEF DoubtKept, TypeInv, TypeOK, CallsWellFormed, SubmissionUnknown, Goto, Return
<1>8. ASSUME NEW r \in Requests, ResourceRefuses(r) PROVE DoubtKept
  BY <1>t, <1>8 DEF DoubtKept, TypeInv, TypeOK, CallsWellFormed, ResourceRefuses, Goto, Return
<1>9. ASSUME NEW r \in Requests, AbortSettlement(r) PROVE DoubtKept
  BY <1>t, <1>9 DEF DoubtKept, TypeInv, TypeOK, CallsWellFormed, AbortSettlement, Goto, Return
<1>10. ASSUME NEW r \in Requests, ChainDecides(r) PROVE DoubtKept
  BY <1>t, <1>10 DEF DoubtKept, TypeInv, TypeOK, CallsWellFormed, ChainDecides, Goto, Return
<1>11. ASSUME NEW i \in Intents, OpenIncident(i) PROVE DoubtKept
  BY <1>t, <1>11 DEF DoubtKept, TypeInv, TypeOK, CallsWellFormed, OpenIncident, Goto, Return
<1>12. ASSUME NEW i \in Intents, Elapse(i) PROVE DoubtKept
  BY <1>t, <1>12 DEF DoubtKept, TypeInv, TypeOK, CallsWellFormed, Elapse, Goto, Return
<1>13. ASSUME NEW r \in Requests, Revalidate(r) PROVE DoubtKept
  <2>1. on[r] \in Intents
    BY <1>t, <1>13 DEF TypeInv, CallsWellFormed, Revalidate
  <2> QED
    BY <1>t, <1>13, <2>1 DEF DoubtKept, TypeInv, TypeOK, Revalidate, StillAuthorized, Goto, Return
<1>14. ASSUME NEW r \in Requests, FailBeforeSigning(r) PROVE DoubtKept
  <2>1. on[r] \in Intents /\ report[r] # "SUBMISSION_UNKNOWN"
    BY <1>t, <1>14 DEF TypeInv, CallsWellFormed, FailBeforeSigning
  <2> QED
    BY <1>t, <1>14, <2>1 DEF DoubtKept, TypeInv, TypeOK, FailBeforeSigning, StillAuthorized, Goto, Return
<1>15. ASSUME NEW r \in Requests, Claim(r) PROVE DoubtKept
  <2>1. on[r] \in Intents
    BY <1>t, <1>15 DEF TypeInv, CallsWellFormed, Claim
  <2> QED
    BY <1>t, <1>15, <2>1 DEF DoubtKept, TypeInv, TypeOK, Claim, StillAuthorized, Goto, Return
<1>16. ASSUME NEW r \in Requests, CancelWrite(r) PROVE DoubtKept
  <2>1. on[r] \in Intents
    BY <1>t, <1>16 DEF TypeInv, CallsWellFormed, CancelWrite
  <2> QED
    BY <1>t, <1>16, <2>1 DEF DoubtKept, TypeInv, TypeOK, CancelWrite, Return, Cancelable
<1>17. ASSUME NEW r \in Requests, CreateAttempt(r) PROVE DoubtKept
  <2>1. attempt[r] # "UNKNOWN" /\ UNCHANGED <<status, on, overtaken>>
    BY <1>t, <1>17 DEF PayloadInv, Observed, CreateAttempt, AttemptFrame
  <2> QED
    BY <1>t, <1>17, <2>1 DEF DoubtKept, TypeInv, TypeOK, CreateAttempt, Goto
<1>18. ASSUME NEW r \in Requests, RecordSubmitted(r) PROVE DoubtKept
  <2>1. attempt[r] # "UNKNOWN" /\ UNCHANGED <<status, on, overtaken>>
    BY <1>t, <1>18 DEF PayloadInv, Observed, RecordSubmitted, AttemptFrame
  <2> QED
    BY <1>t, <1>18, <2>1 DEF DoubtKept, TypeInv, TypeOK, RecordSubmitted, Goto
<1>19. ASSUME NEW r \in Requests, CommitSettlement(r) PROVE DoubtKept
  <2>1. /\ attempt[r] # "UNKNOWN" /\ on[r] \in Intents
        /\ status[on[r]] = "SIGNING" \/ on[r] \in overtaken
        /\ UNCHANGED <<on, overtaken>>
    BY <1>t, <1>19 DEF TypeInv, CallsWellFormed, PayloadInv, Observed, ClaimInv, InFlight, Claimed,
       AfterClaim, CommitSettlement, AttemptFrame
  <2> QED
    BY <1>t, <1>19, <2>1 DEF DoubtKept, TypeInv, TypeOK, CommitSettlement
<1>20. ASSUME NEW r \in Requests, FailAttempt(r) PROVE DoubtKept
  <2>1. /\ attempt[r] # "UNKNOWN" /\ on[r] \in Intents
        /\ status[on[r]] = "SIGNING" \/ on[r] \in overtaken
        /\ UNCHANGED <<on, overtaken>>
    BY <1>t, <1>20 DEF TypeInv, CallsWellFormed, PayloadInv, Observed, ClaimInv, InFlight, Claimed,
       AfterClaim, FailAttempt, AttemptFrame
  <2> QED
    BY <1>t, <1>20, <2>1 DEF DoubtKept, TypeInv, TypeOK, FailAttempt
<1>21. ASSUME NEW r \in Requests, NEW i \in Intents, NEW u \in Users,
               NEW v \in {"APPROVE", "REJECT"}, Decide(r, i, u, v) PROVE DoubtKept
  <2> DEFINE rejected == Cardinality(Voters(i, "REJECT")) >= RequiredRejections
             consumed == ~rejected /\ Cardinality(Voters(i, "APPROVE")) >= RequiredApprovals
  <2>1. /\ rejected \/ consumed => status[i] = "APPROVAL_PENDING"
        /\ status' = [status EXCEPT ![i] = IF rejected THEN "REJECTED"
                                           ELSE IF consumed THEN "AUTHORIZED" ELSE @]
        /\ pc[r] = "idle" /\ UNCHANGED <<attempt, overtaken>>
        /\ on' = [on EXCEPT ![r] = IF consumed THEN i ELSE None]
    BY <1>21 DEF Decide
  <2> HIDE DEF rejected, consumed
  <2> QED
    BY <1>t, <2>1 DEF DoubtKept, TypeInv, TypeOK, AfterClaim
<1>22. ASSUME NEW r \in Requests, NEW i \in Intents, NEW u \in Users \cup {None},
               CreatePaidRequest(r, i, u) PROVE DoubtKept
  <2> DEFINE outcome == EvaluatePolicy(Facts(i), Policy)
             runs == outcome = "ALLOW" /\ i \notin SelfCustody
  <2>1. /\ pc[r] = "idle" /\ status[i] = "none"
        /\ UNCHANGED <<attempt, overtaken>>
        /\ on' = [on EXCEPT ![r] = IF runs THEN i ELSE None]
        /\ status' = [status EXCEPT ![i] = CASE outcome = "ALLOW" -> "AUTHORIZED"
                                             [] outcome = "DENY" -> "DENIED"
                                             [] outcome = "REQUIRE_APPROVAL" -> "APPROVAL_PENDING"]
    BY <1>22 DEF CreatePaidRequest
  <2>2. outcome \in PolicyOutcome
    BY OutcomeType, ConstantsAssumption DEF ConstantsAssumption
  <2> HIDE DEF outcome, runs
  <2> QED
    BY <1>t, <2>1, <2>2 DEF DoubtKept, PolicyOutcome, TypeInv, TypeOK, AfterClaim
<1>23. ASSUME NEW r \in Requests, Crash(r) PROVE DoubtKept
  BY <1>t, <1>23 DEF DoubtKept, TypeInv, TypeOK, Crash, Return, AfterClaim, BeforeClaim, intentRows
<1>24. ASSUME NEW i \in Intents, ExpireIntent(i) PROVE DoubtKept
  BY <1>t, <1>24 DEF DoubtKept, TypeInv, TypeOK, ExpireIntent, Expirable
<1>25. ASSUME NEW k \in Jobs, NEW r \in Requests, Observe(k, r) PROVE DoubtKept
  BY <1>25 DEF DoubtKept, Observe, intentRows
<1>26. ASSUME SetKillSwitch \/ PublishPolicy PROVE DoubtKept
  BY <1>26 DEF DoubtKept, SetKillSwitch, PublishPolicy, intentRows
<1>27. ASSUME UNCHANGED vars PROVE DoubtKept
  BY <1>27 DEF DoubtKept, vars, intentRows
<1> QED
  BY <1>t, <1>1, <1>2, <1>3, <1>4, <1>5, <1>6, <1>7, <1>8, <1>9, <1>10, <1>11, <1>12,
     <1>13, <1>14, <1>15, <1>16, <1>17, <1>18, <1>19, <1>20, <1>21, <1>22,
     <1>23, <1>24, <1>25, <1>26, <1>27
     DEF Next, Call, Proceed

(***************************************************************************)
(* Every step keeps the two in agreement.                                  *)
(***************************************************************************)
LEMMA DoubtStep ==
    ASSUME TypeInv, ClaimInv, PayloadInv, DoubtIsFound, [Next]_vars
    PROVE  DoubtIsFound'
<1>t. TypeInv /\ ClaimInv /\ PayloadInv /\ DoubtIsFound
  OBVIOUS
<1>1. \A r \in Requests : attempt[r] = "UNKNOWN" => pc[r] \in AfterClaim /\ on[r] \in Intents
  BY DEF TypeInv, AttemptsClaimed, CallsWellFormed, AfterClaim
<1>2. CASE DoubtKept
  <2>1. ASSUME NEW i \in Intents, status'[i] = "SUBMISSION_UNKNOWN"
        PROVE  \E r \in Requests : on'[r] = i /\ attempt'[r] = "UNKNOWN"
    <3>0. status[i] = "SUBMISSION_UNKNOWN"
      BY <1>2, <2>1 DEF DoubtKept
    <3>1. PICK r \in Requests : on[r] = i /\ attempt[r] = "UNKNOWN"
      BY <1>t, <3>0 DEF DoubtIsFound
    <3>2. on'[r] = on[r] /\ attempt'[r] = "UNKNOWN"
      BY <1>1, <1>2, <3>1 DEF DoubtKept
    <3> QED
      BY <3>1, <3>2
  <2>2. ASSUME NEW r \in Requests, attempt'[r] = "UNKNOWN"
        PROVE  status'[on'[r]] = "SUBMISSION_UNKNOWN" \/ on'[r] \in overtaken'
    <3>1. attempt[r] = "UNKNOWN" /\ on'[r] = on[r] /\ on[r] \in Intents
      BY <1>1, <1>2, <2>2 DEF DoubtKept
    <3>2. status[on[r]] = "SUBMISSION_UNKNOWN" \/ on[r] \in overtaken
      BY <1>t, <3>1 DEF DoubtIsFound
    <3>3. status'[on[r]] = "SUBMISSION_UNKNOWN" \/ on[r] \in overtaken'
      BY <1>2, <3>1, <3>2 DEF DoubtKept
    <3> QED
      BY <3>1, <3>3
  <2> QED
    BY <2>1, <2>2 DEF DoubtIsFound
<1>3. ASSUME NEW r \in Requests, MarkSubmissionUnknown(r) PROVE DoubtIsFound'
  <2>1. /\ attempt' = [attempt EXCEPT ![r] = "UNKNOWN"]
        /\ status' = [status EXCEPT ![on[r]] = "SUBMISSION_UNKNOWN"]
        /\ UNCHANGED <<on, overtaken>>
    BY <1>3 DEF MarkSubmissionUnknown, AttemptFrame
  <2>2. on[r] \in Intents
    BY <1>t, <1>3 DEF TypeInv, CallsWellFormed, MarkSubmissionUnknown
  <2> QED
    BY <1>t, <1>1, <2>1, <2>2 DEF DoubtIsFound, TypeInv, TypeOK
<1>4. ASSUME NEW k \in Jobs, Reconcile(k) PROVE DoubtIsFound'
  <2> DEFINE r == job[k].attempt
  <2>1. r \in Requests /\ on[r] \in Intents /\ Claimed(r)
    <3>1. job[k] # None
      BY <1>4 DEF Reconcile
    <3>2. r \in Requests
      BY <1>t, <3>1 DEF TypeInv, TypeOK, Observation
    <3>3. pc[r] \in AfterClaim
      BY <1>t, <3>1 DEF TypeInv, AttemptsClaimed
    <3> QED
      BY <1>t, <3>2, <3>3 DEF TypeInv, CallsWellFormed, Claimed, AfterClaim
  <2>2. UNCHANGED <<on, overtaken>>
    BY <1>4 DEF Reconcile, requests
  <2>3. \/ UNCHANGED <<attempt, status>>
        \/ \E a \in {"CONFIRMED", "FAILED"}, s \in {"SETTLED", "SETTLEMENT_FAILED"} :
               /\ attempt' = [attempt EXCEPT ![r] = a]
               /\ status' = [status EXCEPT ![on[r]] = s]
    BY <1>4 DEF Reconcile, RejectSubmission
  <2> HIDE DEF r
  <2>4. CASE UNCHANGED <<attempt, status>>
    BY <1>t, <2>2, <2>4 DEF DoubtIsFound
  <2>5. ASSUME NEW a \in {"CONFIRMED", "FAILED"}, NEW s \in {"SETTLED", "SETTLEMENT_FAILED"},
               attempt' = [attempt EXCEPT ![r] = a], status' = [status EXCEPT ![on[r]] = s]
        PROVE  DoubtIsFound'
    <3>1. attempt'[r] # "UNKNOWN" /\ \A q \in Requests \ {r} : attempt'[q] = attempt[q]
      BY <1>t, <2>1, <2>5 DEF TypeInv, TypeOK
    <3>2. status'[on[r]] # "SUBMISSION_UNKNOWN"
          /\ \A j \in Intents : j # on[r] => status'[j] = status[j]
      BY <1>t, <2>1, <2>5 DEF TypeInv, TypeOK
    <3>3. \A q \in Requests : attempt[q] = "UNKNOWN" /\ on[q] = on[r] => q = r
      BY <1>t, <1>1, <2>1 DEF ClaimInv, OneClaim, Claimed
    <3> QED
      BY <1>t, <1>1, <2>1, <2>2, <3>1, <3>2, <3>3 DEF DoubtIsFound
  <2> QED
    BY <2>3, <2>4, <2>5
<1> QED
  BY <1>2, <1>3, <1>4, OnlyTwoChangeDoubt

(***************************************************************************)
(* The maintenance job looks for intents SUBMISSION_UNKNOWN, a             *)
(* reconciliation sweep for attempts UNKNOWN of such intents: neither      *)
(* status outlives the other, but for an intent a cancellation overtook,   *)
(* whatever the interleaving of calls, crashes and sweeps                  *)
(* (markSubmissionUnknown and the reconciliation services).                *)
(***************************************************************************)
THEOREM DoubtsAreFound == Spec => []DoubtIsFound
<1>1. Init => DoubtIsFound
  BY DEF Init, DoubtIsFound
<1>2. TypeInv /\ ClaimInv /\ PayloadInv /\ DoubtIsFound /\ [Next]_vars => DoubtIsFound'
  BY DoubtStep
<1> QED
  BY <1>1, <1>2, PayloadInvariant, PTL DEF Spec
=============================================================================
