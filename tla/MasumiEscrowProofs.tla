-------------------------- MODULE MasumiEscrowProofs --------------------------
(***************************************************************************)
(* Theorems about MasumiEscrow for any number of workers.  The invariants  *)
(* are built in layers: types, the buyer, the provider's evidence, the     *)
(* money, and the one-shot mutations.                                      *)
(***************************************************************************)
EXTENDS MasumiEscrow, TLAPS

\* The groups of variables and the moves of a worker, throughout.
USE DEF funds, evidence, At, Goes, Rests, Idle, Judged, Refunds, Operations

-----------------------------------------------------------------------------
(* Layer 1: types, with what a worker's step says of what it carries.      *)

StepFits(s) ==
  /\ s.pc \in {"job", "bind", "attempt", "escrow"} => s.op = "PURCHASE"
  /\ s.pc \in {"call", "reply", "judged"} => s.op \in Operations
  /\ s.pc \in {"claim", "lookup", "mark", "confirm"} => s.op \in Refunds
  /\ s.pc \in {"idle", "look", "apply"} => s.op = "none"
  /\ s.pc = "judged" => s.seen \in {"good", "ambiguous", "refused"}
  /\ s.pc \in {"escrow", "mark"} => s.seen \in {"SUBMISSION_UNKNOWN", "FAILED"}
  /\ s.pc = "apply" => s.seen \in MasumiEscrowState
  /\ s.pc = "confirm" => s.seen \in {"RefundRequested", "RefundAuthorized"} /\ TargetReached(s.op, s.seen)

TypeInv == TypeOK /\ \A w \in Workers : StepFits(workers[w])

(***************************************************************************)
(* The types hold initially.                                               *)
(***************************************************************************)
LEMMA TypeInit == Init => TypeInv
BY DEF Init, TypeInv, TypeOK, StepFits, IntentStatus, MasumiEscrowState, MutationStatus, Steps

(***************************************************************************)
(* Every step keeps the types, and every worker goes on with what its      *)
(* step needs.                                                             *)
(***************************************************************************)
LEMMA TypeStep ==
    ASSUME TypeInv, [Next]_vars
    PROVE  TypeInv'
<1>t. TypeInv
  OBVIOUS
<1>1. ASSUME NEW w \in Workers, StartJob(w)
      PROVE  TypeInv'
  BY <1>t, <1>1 DEF TypeInv, TypeOK, StepFits, IntentStatus, MasumiEscrowState,
     MutationStatus, Steps, StartJob
<1>2. ASSUME NEW w \in Workers, StartReconcile(w)
      PROVE  TypeInv'
  BY <1>t, <1>2 DEF TypeInv, TypeOK, StepFits, IntentStatus, MasumiEscrowState,
     MutationStatus, Steps, StartReconcile
<1>3. ASSUME NEW w \in Workers, ClaimIntent(w)
      PROVE  TypeInv'
  BY <1>t, <1>3 DEF TypeInv, TypeOK, StepFits, IntentStatus, MasumiEscrowState,
     MutationStatus, Steps, ClaimIntent
<1>4. ASSUME NEW w \in Workers, BindJob(w)
      PROVE  TypeInv'
  BY <1>t, <1>4 DEF TypeInv, TypeOK, StepFits, IntentStatus, MasumiEscrowState,
     MutationStatus, Steps, BindJob
<1>5. ASSUME NEW w \in Workers, CreateAttempt(w)
      PROVE  TypeInv'
  BY <1>t, <1>5 DEF TypeInv, TypeOK, StepFits, IntentStatus, MasumiEscrowState,
     MutationStatus, Steps, CreateAttempt
<1>6. ASSUME NEW w \in Workers, Call(w)
      PROVE  TypeInv'
  <2>1. workers[w].op \in Operations
    BY <1>t, <1>6 DEF TypeInv, StepFits, Call
  <2>2. Goes(w, "reply", workers[w].op, "none") \/ Goes(w, "judged", workers[w].op, "refused")
    BY <1>6 DEF Call
  <2>3. UNCHANGED <<provider, carried, misjudged, funds, escrow, claims>> /\ calls' \subseteq Operations
    BY <1>t, <2>1, <1>6 DEF TypeInv, TypeOK, Call
  <2>4. workers' \in [Workers -> [pc : Steps, op : Operations \cup {"none"},
                                  seen : MasumiEscrowState \cup {"none", "good", "ambiguous", "refused",
                                                                "SUBMISSION_UNKNOWN", "FAILED"}]]
    BY <1>t, <2>1, <2>2 DEF TypeInv, TypeOK, Steps
  <2>8. TypeOK'
    BY <1>t, <2>3, <2>4 DEF TypeInv, TypeOK
  <2>9. ASSUME NEW v \in Workers PROVE StepFits(workers'[v])
    BY <1>t, <2>1, <2>2 DEF TypeInv, TypeOK, StepFits
  <2> QED
    BY <2>8, <2>9 DEF TypeInv
<1>7. ASSUME NEW w \in Workers, Reply(w)
      PROVE  TypeInv'
  BY <1>t, <1>7 DEF TypeInv, TypeOK, StepFits, IntentStatus, MasumiEscrowState,
     MutationStatus, Steps, Reply, Replies
<1>8. ASSUME NEW w \in Workers, RecordPurchase(w)
      PROVE  TypeInv'
  BY <1>t, <1>8 DEF TypeInv, TypeOK, StepFits, IntentStatus, MasumiEscrowState,
     MutationStatus, Steps, RecordPurchase, Result
<1>9. ASSUME NEW w \in Workers, PurchaseUnknown(w)
      PROVE  TypeInv'
  BY <1>t, <1>9 DEF TypeInv, TypeOK, StepFits, IntentStatus, MasumiEscrowState,
     MutationStatus, Steps, PurchaseUnknown
<1>10. ASSUME NEW w \in Workers, PurchaseFailed(w)
      PROVE  TypeInv'
  BY <1>t, <1>10 DEF TypeInv, TypeOK, StepFits, IntentStatus, MasumiEscrowState,
     MutationStatus, Steps, PurchaseFailed, Misjudge
<1>11. ASSUME NEW w \in Workers, RecordEscrow(w)
      PROVE  TypeInv'
  BY <1>t, <1>11 DEF TypeInv, TypeOK, StepFits, IntentStatus, MasumiEscrowState,
     MutationStatus, Steps, RecordEscrow
<1>12. ASSUME NEW w \in Workers, Found(w)
      PROVE  TypeInv'
  BY <1>t, <1>12 DEF TypeInv, TypeOK, StepFits, IntentStatus, MasumiEscrowState,
     MutationStatus, Steps, Found
<1>13. ASSUME NEW w \in Workers, NotFound(w)
      PROVE  TypeInv'
  BY <1>t, <1>13 DEF TypeInv, TypeOK, StepFits, IntentStatus, MasumiEscrowState,
     MutationStatus, Steps, NotFound
<1>14. ASSUME NEW w \in Workers, ApplyReconcile(w)
      PROVE  TypeInv'
  <2> DEFINE s == workers[w]
  <2>1. s.seen \in MasumiEscrowState /\ s.op \in Operations \cup {"none"}
    BY <1>t, <1>14 DEF TypeInv, TypeOK, StepFits, MasumiEscrowState, ApplyReconcile
  <2>2. escrow' \in [state : MasumiEscrowState \cup {"PREPARED", "SUBMISSION_UNKNOWN", "FAILED"},
                      job : Workers \cup {"pending"}, requested : BOOLEAN, authorized : BOOLEAN]
    BY <1>t, <1>14, <2>1 DEF TypeInv, TypeOK, ApplyReconcile
  <2>3. Trigger(s.seen, reservation) \in {"ACTIVE", "CONSUMED", "SETTLED", "RELEASED"}
    BY <1>t DEF TypeInv, TypeOK, Trigger
  <2>4. intent' \in IntentStatus /\ reservation' \in {"ACTIVE", "CONSUMED", "SETTLED", "RELEASED"}
    BY <1>t, <1>14, <2>3 DEF TypeInv, TypeOK, IntentStatus, ApplyReconcile
  <2>5. workers' = [workers EXCEPT ![w] = Idle] /\ UNCHANGED <<evidence, misjudged>>
    BY <1>14 DEF ApplyReconcile
  <2>6. attempt' \in {attempt, "CONFIRMED"} /\ UNCHANGED claims
    BY <1>14 DEF ApplyReconcile
  <2>8. TypeOK'
    BY <1>t, <2>2, <2>4, <2>5, <2>6 DEF TypeInv, TypeOK, Steps
  <2>9. ASSUME NEW v \in Workers PROVE StepFits(workers'[v])
    BY <1>t, <2>5 DEF TypeInv, TypeOK, StepFits
  <2> QED
    BY <2>8, <2>9 DEF TypeInv
<1>15. ASSUME NEW w \in Workers, NEW op \in Refunds, MutationAnswered(w, op)
      PROVE  TypeInv'
  <2>1. /\ UNCHANGED <<evidence, funds, escrow, claims>>
        /\ misjudged' = misjudged \/ (op \in carried /\ misjudged' = misjudged \cup {op})
    BY <1>15 DEF MutationAnswered, Misjudge
  <2>2. \/ Goes(w, "confirm", op, Result(op))
        \/ \E s \in {"SUBMISSION_UNKNOWN", "FAILED"} : Goes(w, "mark", op, s)
    BY <1>15 DEF MutationAnswered, OutcomeOf
  <2>3. Result(op) \in {"RefundRequested", "RefundAuthorized"} /\ TargetReached(op, Result(op))
    BY DEF Result, TargetReached
  <2>4. workers' \in [Workers -> [pc : Steps, op : Operations \cup {"none"},
                                  seen : MasumiEscrowState \cup {"none", "good", "ambiguous", "refused",
                                                                "SUBMISSION_UNKNOWN", "FAILED"}]]
    BY <1>t, <2>2, <2>3 DEF TypeInv, TypeOK, Steps, MasumiEscrowState
  <2>5. misjudged' \subseteq carried'
    BY <1>t, <2>1 DEF TypeInv, TypeOK
  <2>8. TypeOK'
    BY <1>t, <2>1, <2>4, <2>5 DEF TypeInv, TypeOK
  <2>9. ASSUME NEW v \in Workers PROVE StepFits(workers'[v])
    BY <1>t, <2>2, <2>3 DEF TypeInv, TypeOK, StepFits
  <2> QED
    BY <2>1, <2>8, <2>9 DEF TypeInv
<1>16. ASSUME NEW w \in Workers, ReadClaim(w)
      PROVE  TypeInv'
  BY <1>t, <1>16 DEF TypeInv, TypeOK, StepFits, IntentStatus, MasumiEscrowState,
     MutationStatus, Steps, ReadClaim
<1>17. ASSUME NEW w \in Workers, FoundClaim(w)
      PROVE  TypeInv'
  BY <1>t, <1>17 DEF TypeInv, TypeOK, StepFits, IntentStatus, MasumiEscrowState,
     MutationStatus, Steps, FoundClaim, Classify, TargetReached, Precluded
<1>18. ASSUME NEW w \in Workers, NotFoundClaim(w)
      PROVE  TypeInv'
  BY <1>t, <1>18 DEF TypeInv, TypeOK, StepFits, IntentStatus, MasumiEscrowState,
     MutationStatus, Steps, NotFoundClaim
<1>19. ASSUME NEW w \in Workers, MarkMutation(w)
      PROVE  TypeInv'
  BY <1>t, <1>19 DEF TypeInv, TypeOK, StepFits, IntentStatus, MasumiEscrowState,
     MutationStatus, Steps, MarkMutation, SetClaim
<1>20. ASSUME NEW w \in Workers, RecordConfirmed(w)
      PROVE  TypeInv'
  <2> DEFINE s == workers[w]
  <2>1. s.seen \in MasumiEscrowState /\ s.op \in Operations \cup {"none"}
    BY <1>t, <1>20 DEF TypeInv, TypeOK, StepFits, MasumiEscrowState, RecordConfirmed
  <2>2. escrow' \in [state : MasumiEscrowState \cup {"PREPARED", "SUBMISSION_UNKNOWN", "FAILED"},
                      job : Workers \cup {"pending"}, requested : BOOLEAN, authorized : BOOLEAN]
    BY <1>t, <1>20, <2>1 DEF TypeInv, TypeOK, RecordConfirmed
  <2>3. Trigger(s.seen, reservation) \in {"ACTIVE", "CONSUMED", "SETTLED", "RELEASED"}
    BY <1>t DEF TypeInv, TypeOK, Trigger
  <2>4. intent' \in IntentStatus /\ reservation' \in {"ACTIVE", "CONSUMED", "SETTLED", "RELEASED"}
    BY <1>t, <1>20, <2>3 DEF TypeInv, TypeOK, IntentStatus, RecordConfirmed
  <2>5. workers' = [workers EXCEPT ![w] = Idle] /\ UNCHANGED <<evidence, misjudged>>
    BY <1>20 DEF RecordConfirmed
  <2>6. UNCHANGED attempt /\ claims' \in [Refunds -> MutationStatus \cup {"NONE"}]
    BY <1>t, <1>20 DEF TypeInv, TypeOK, StepFits, RecordConfirmed, SetClaim, MutationStatus
  <2>8. TypeOK'
    BY <1>t, <2>2, <2>4, <2>5, <2>6 DEF TypeInv, TypeOK, Steps
  <2>9. ASSUME NEW v \in Workers PROVE StepFits(workers'[v])
    BY <1>t, <2>5 DEF TypeInv, TypeOK, StepFits
  <2> QED
    BY <2>8, <2>9 DEF TypeInv
<1>21. ASSUME NEW w \in Workers, Crash(w)
      PROVE  TypeInv'
  BY <1>t, <1>21 DEF TypeInv, TypeOK, StepFits, IntentStatus, MasumiEscrowState,
     MutationStatus, Steps, Crash
<1>22. ASSUME NEW w \in Workers, NEW op \in Refunds, Reserve(w, op)
      PROVE  TypeInv'
  BY <1>t, <1>22 DEF TypeInv, TypeOK, StepFits, IntentStatus, MasumiEscrowState,
     MutationStatus, Steps, Reserve, SetClaim, LocallyConfirmed, InDoubt, Available,
     TargetReached
<1>23. ASSUME NEW w \in Workers, NEW op \in Refunds, SweepClaim(w, op)
      PROVE  TypeInv'
  BY <1>t, <1>23 DEF TypeInv, TypeOK, StepFits, IntentStatus, MasumiEscrowState,
     MutationStatus, Steps, SweepClaim, InDoubt
<1>24. ASSUME NEW op \in Operations, Deliver(op)
      PROVE  TypeInv'
  <2>1. UNCHANGED <<misjudged, funds, escrow, claims, workers>> /\ calls' \subseteq calls
    BY <1>24 DEF Deliver
  <2>2. provider' \in MasumiEscrowState \cup {"ABSENT"}
    BY <1>t, <1>24 DEF TypeInv, TypeOK, Deliver, Result, MasumiEscrowState
  <2>3. carried' \subseteq Operations /\ carried \subseteq carried'
    BY <1>t, <1>24 DEF TypeInv, TypeOK, Deliver
  <2>8. TypeOK'
    BY <1>t, <2>1, <2>2, <2>3 DEF TypeInv, TypeOK
  <2> QED
    BY <1>t, <2>1, <2>8 DEF TypeInv
<1>25. ASSUME Progress
      PROVE  TypeInv'
  BY <1>t, <1>25 DEF TypeInv, TypeOK, StepFits, IntentStatus, MasumiEscrowState,
     MutationStatus, Steps, Progress
<1>26. ASSUME UNCHANGED vars
      PROVE  TypeInv'
  BY <1>t, <1>26 DEF TypeInv, TypeOK, StepFits, IntentStatus, MasumiEscrowState,
     MutationStatus, Steps, vars
<1> QED
  BY <1>t, <1>1, <1>2, <1>3, <1>4, <1>5, <1>6, <1>7, <1>8, <1>9, <1>10, <1>11, <1>12, <1>13,
     <1>14, <1>15, <1>16, <1>17, <1>18, <1>19, <1>20, <1>21, <1>22, <1>23, <1>24, <1>25,
     <1>26 DEF Next, Continue

(***************************************************************************)
(* Every column holds an allowed value and every worker is at a step it    *)
(* can have come to, in every reachable state.                             *)
(***************************************************************************)
THEOREM TypeCorrectness == Spec => []TypeOK
<1>1. TypeInv => TypeOK
  BY DEF TypeInv
<1> QED
  BY <1>1, TypeInit, TypeStep, PTL DEF Spec

-----------------------------------------------------------------------------
(* Layer 2: one worker at most carries the purchase on after the claim,    *)
(* and nobody else touches the purchase before that worker has recorded    *)
(* what came of it.                                                        *)

Buys(w) == workers[w].op = "PURCHASE" /\ workers[w].pc \in {"bind", "attempt", "call", "reply", "judged", "escrow"}
OneBuyer == \A v, w \in Workers : Buys(v) /\ Buys(w) => v = w

\* What the buyer can rely on.
BuyerKnows ==
  \A w \in Workers : Buys(w) =>
    /\ intent # "AUTHORIZED" /\ escrow.state = "PREPARED"
    /\ workers[w].pc # "bind" => escrow.job = w
    /\ workers[w].pc # "escrow" => intent = "SIGNING" /\ reservation = "ACTIVE"
    /\ workers[w].pc \in {"bind", "attempt", "call"} => "PURCHASE" \notin calls /\ provider = "ABSENT"
    /\ workers[w].pc = "judged" /\ workers[w].seen # "ambiguous" => "PURCHASE" \notin calls

Unclaimed ==
  intent = "AUTHORIZED" =>
    escrow.state = "PREPARED" /\ reservation = "ACTIVE" /\ provider = "ABSENT" /\ "PURCHASE" \notin calls

\* Before the purchase is recorded nothing reconciles or refunds it.
Unrecorded ==
  escrow.state = "PREPARED" =>
    /\ ~escrow.requested /\ ~escrow.authorized
    /\ \A op \in Refunds : claims[op] = "NONE"
    /\ \A w \in Workers : /\ workers[w].pc \notin {"look", "apply", "claim", "lookup", "mark", "confirm"}
                          /\ workers[w].op \notin Refunds

BuyerInv == OneBuyer /\ BuyerKnows /\ Unclaimed /\ Unrecorded

(***************************************************************************)
(* Nobody has started when the intent is authorized.                       *)
(***************************************************************************)
LEMMA BuyerInit == Init => BuyerInv
BY DEF Init, BuyerInv, OneBuyer, BuyerKnows, Unclaimed, Unrecorded, Buys, MasumiEscrowState

(***************************************************************************)
(* Every step keeps the purchase with one worker: the claim is a compare-  *)
(* and-set, and no reconciler or refund starts before the purchase is      *)
(* recorded.                                                               *)
(***************************************************************************)
LEMMA BuyerStep ==
    ASSUME TypeInv, TypeInv', BuyerInv, [Next]_vars
    PROVE  BuyerInv'
<1>t. TypeInv /\ TypeInv' /\ BuyerInv
  OBVIOUS
<1>1. ASSUME NEW w \in Workers, StartJob(w)
      PROVE  BuyerInv'
  BY <1>t, <1>1 DEF TypeInv, TypeOK, StepFits, BuyerInv, OneBuyer, BuyerKnows, Unclaimed,
     Unrecorded, Buys, MasumiEscrowState, StartJob
<1>2. ASSUME NEW w \in Workers, StartReconcile(w)
      PROVE  BuyerInv'
  BY <1>t, <1>2 DEF TypeInv, TypeOK, StepFits, BuyerInv, OneBuyer, BuyerKnows, Unclaimed,
     Unrecorded, Buys, MasumiEscrowState, StartReconcile
<1>3. ASSUME NEW w \in Workers, ClaimIntent(w)
      PROVE  BuyerInv'
  <2>1. CASE intent = "AUTHORIZED"
    <3>1. \A v \in Workers : ~Buys(v)
      BY <1>t, <2>1 DEF BuyerInv, BuyerKnows
    <3>2. /\ \A v \in Workers : v # w => workers'[v] = workers[v]
          /\ workers'[w] = [pc |-> "bind", op |-> "PURCHASE", seen |-> "none"] /\ intent' = "SIGNING"
          /\ UNCHANGED <<evidence, reservation, escrow, claims>>
      BY <1>t, <1>3, <2>1 DEF TypeInv, TypeOK, ClaimIntent
    <3>3. OneBuyer' /\ BuyerKnows'
      BY <1>t, <2>1, <3>1, <3>2 DEF BuyerInv, OneBuyer, BuyerKnows, Unclaimed, Buys
    <3>4. Unclaimed' /\ Unrecorded'
      BY <1>t, <2>1, <3>2 DEF BuyerInv, Unclaimed, Unrecorded
    <3> QED
      BY <3>3, <3>4 DEF BuyerInv
  <2>2. CASE intent # "AUTHORIZED"
    <3>1. /\ \A v \in Workers : v # w => workers'[v] = workers[v]
          /\ workers'[w].pc = "idle" /\ workers'[w].op = "none" /\ UNCHANGED <<evidence, funds, escrow, claims>>
      BY <1>t, <1>3, <2>2 DEF TypeInv, TypeOK, ClaimIntent
    <3> QED
      BY <1>t, <2>2, <3>1 DEF BuyerInv, OneBuyer, BuyerKnows, Unclaimed, Unrecorded, Buys
  <2> QED
    BY <2>1, <2>2
<1>4. ASSUME NEW w \in Workers, BindJob(w)
      PROVE  BuyerInv'
  <2>1. Buys(w) /\ \A v \in Workers : v # w => ~Buys(v) /\ workers'[v] = workers[v]
    BY <1>t, <1>4 DEF TypeInv, TypeOK, StepFits, BuyerInv, OneBuyer, Buys, BindJob
  <2>2. intent # "AUTHORIZED" /\ escrow.state = "PREPARED"
    BY <1>t, <2>1 DEF BuyerInv, BuyerKnows
  <2>3. /\ workers[w].pc = "bind"
        /\ workers'[w] = [pc |-> "attempt", op |-> "PURCHASE", seen |-> "none"] /\ escrow' = [escrow EXCEPT !.job = w]
        /\ escrow'.job = w /\ escrow'.state = escrow.state
        /\ escrow'.requested = escrow.requested /\ escrow'.authorized = escrow.authorized
        /\ UNCHANGED <<evidence, funds, claims>>
    BY <1>t, <1>4 DEF TypeInv, TypeOK, BindJob
  <2>4. OneBuyer' /\ BuyerKnows'
    BY <1>t, <1>4, <2>1, <2>2, <2>3 DEF BuyerInv, OneBuyer, BuyerKnows, Buys
  <2>5. Unclaimed' /\ Unrecorded'
    BY <1>t, <1>4, <2>1, <2>2, <2>3 DEF BuyerInv, Unclaimed, Unrecorded
  <2> QED
    BY <2>4, <2>5 DEF BuyerInv
<1>5. ASSUME NEW w \in Workers, CreateAttempt(w)
      PROVE  BuyerInv'
  BY <1>t, <1>5 DEF TypeInv, TypeOK, StepFits, BuyerInv, OneBuyer, BuyerKnows, Unclaimed,
     Unrecorded, Buys, MasumiEscrowState, CreateAttempt
<1>6. ASSUME NEW w \in Workers, Call(w)
      PROVE  BuyerInv'
  <2>1. CASE workers[w].op \in Refunds
    <3>1. escrow.state # "PREPARED"
      BY <1>t, <2>1 DEF BuyerInv, Unrecorded
    <3>2. intent # "AUTHORIZED" /\ \A v \in Workers : ~Buys(v)
      BY <1>t, <3>1 DEF BuyerInv, BuyerKnows, Unclaimed
    <3>3. /\ UNCHANGED <<funds, escrow>> /\ \A v \in Workers : v # w => workers'[v] = workers[v]
          /\ workers'[w].op \in Refunds
      BY <1>t, <1>6, <2>1 DEF TypeInv, TypeOK, Call
    <3>4. \A v \in Workers : ~Buys(v)'
      BY <3>2, <3>3 DEF Buys
    <3> QED
      BY <3>1, <3>2, <3>3, <3>4 DEF BuyerInv, OneBuyer, BuyerKnows, Unclaimed, Unrecorded
  <2>2. CASE workers[w].op = "PURCHASE"
    <3>1. Buys(w) /\ \A v \in Workers : v # w => ~Buys(v) /\ workers'[v] = workers[v]
      BY <1>t, <1>6, <2>2 DEF TypeInv, TypeOK, BuyerInv, OneBuyer, Buys, Call
    <3>2. /\ intent # "AUTHORIZED" /\ escrow.state = "PREPARED" /\ escrow.job = w
          /\ intent = "SIGNING" /\ reservation = "ACTIVE" /\ "PURCHASE" \notin calls
      BY <1>t, <1>6, <3>1 DEF BuyerInv, BuyerKnows, Call
    <3>3. /\ UNCHANGED <<funds, escrow, claims>>
          /\ \/ workers'[w] = [pc |-> "reply", op |-> "PURCHASE", seen |-> "none"]
             \/ UNCHANGED calls /\ workers'[w] = [pc |-> "judged", op |-> "PURCHASE", seen |-> "refused"]
      BY <1>t, <1>6, <2>2 DEF TypeInv, TypeOK, Call
    <3>4. OneBuyer' /\ BuyerKnows'
      BY <3>1, <3>2, <3>3 DEF OneBuyer, BuyerKnows, Buys
    <3>5. Unclaimed' /\ Unrecorded'
      BY <1>t, <3>1, <3>2, <3>3 DEF BuyerInv, Unclaimed, Unrecorded
    <3> QED
      BY <3>4, <3>5 DEF BuyerInv
  <2> QED
    BY <1>t, <1>6, <2>1, <2>2 DEF TypeInv, StepFits, Call
<1>7. ASSUME NEW w \in Workers, Reply(w)
      PROVE  BuyerInv'
  BY <1>t, <1>7 DEF TypeInv, TypeOK, StepFits, BuyerInv, OneBuyer, BuyerKnows, Unclaimed,
     Unrecorded, Buys, MasumiEscrowState, Reply, Replies
<1>8. ASSUME NEW w \in Workers, RecordPurchase(w)
      PROVE  BuyerInv'
  <2>1. Buys(w) /\ \A v \in Workers : v # w => ~Buys(v) /\ workers'[v] = workers[v]
    BY <1>t, <1>8 DEF TypeInv, TypeOK, StepFits, BuyerInv, OneBuyer, Buys, RecordPurchase
  <2>2. intent # "AUTHORIZED" /\ escrow.state = "PREPARED"
    BY <1>t, <2>1 DEF BuyerInv, BuyerKnows
  <2>3. \/ /\ workers'[w] = [pc |-> "look", op |-> "none", seen |-> "none"]
           /\ intent' = "SUBMITTED" /\ escrow'.state = "FundsLockingRequested"
           /\ UNCHANGED <<evidence, reservation, claims>>
        \/ /\ workers'[w] = [pc |-> "judged", op |-> "PURCHASE", seen |-> "refused"]
           /\ UNCHANGED <<evidence, intent, reservation, escrow, claims>>
    BY <1>t, <1>8 DEF TypeInv, TypeOK, RecordPurchase, Result
  <2>4. OneBuyer' /\ BuyerKnows'
    BY <1>t, <1>8, <2>1, <2>2, <2>3 DEF BuyerInv, OneBuyer, BuyerKnows, Buys, RecordPurchase
  <2>5. Unclaimed' /\ Unrecorded'
    BY <1>t, <1>8, <2>1, <2>2, <2>3 DEF BuyerInv, Unclaimed, Unrecorded, RecordPurchase
  <2> QED
    BY <2>4, <2>5 DEF BuyerInv
<1>9. ASSUME NEW w \in Workers, PurchaseUnknown(w)
      PROVE  BuyerInv'
  <2>1. Buys(w) /\ \A v \in Workers : v # w => ~Buys(v) /\ workers'[v] = workers[v]
    BY <1>t, <1>9 DEF TypeInv, TypeOK, StepFits, BuyerInv, OneBuyer, Buys, PurchaseUnknown
  <2>2. intent # "AUTHORIZED" /\ escrow.state = "PREPARED"
    BY <1>t, <2>1 DEF BuyerInv, BuyerKnows
  <2>3. /\ workers'[w] = [pc |-> "escrow", op |-> "PURCHASE", seen |-> "SUBMISSION_UNKNOWN"]
        /\ workers[w].pc = "judged" /\ intent' = "SUBMISSION_UNKNOWN"
        /\ UNCHANGED <<evidence, escrow, claims>>
    BY <1>t, <1>9 DEF TypeInv, TypeOK, PurchaseUnknown
  <2>4. OneBuyer' /\ BuyerKnows'
    BY <1>t, <1>9, <2>1, <2>2, <2>3 DEF BuyerInv, OneBuyer, BuyerKnows, Buys
  <2>5. Unclaimed' /\ Unrecorded'
    BY <1>t, <1>9, <2>1, <2>2, <2>3 DEF BuyerInv, Unclaimed, Unrecorded
  <2> QED
    BY <2>4, <2>5 DEF BuyerInv
<1>10. ASSUME NEW w \in Workers, PurchaseFailed(w)
      PROVE  BuyerInv'
  <2>1. Buys(w) /\ \A v \in Workers : v # w => ~Buys(v) /\ workers'[v] = workers[v]
    BY <1>t, <1>10 DEF TypeInv, TypeOK, StepFits, BuyerInv, OneBuyer, Buys, PurchaseFailed
  <2>2. intent # "AUTHORIZED" /\ escrow.state = "PREPARED"
    BY <1>t, <2>1 DEF BuyerInv, BuyerKnows
  <2>3. /\ workers'[w] = [pc |-> "escrow", op |-> "PURCHASE", seen |-> "FAILED"]
        /\ workers[w].pc = "judged" /\ intent' = "FAILED_BEFORE_SUBMISSION"
        /\ UNCHANGED <<evidence, escrow, claims>>
    BY <1>t, <1>10 DEF TypeInv, TypeOK, PurchaseFailed
  <2>4. OneBuyer' /\ BuyerKnows'
    BY <1>t, <1>10, <2>1, <2>2, <2>3 DEF BuyerInv, OneBuyer, BuyerKnows, Buys
  <2>5. Unclaimed' /\ Unrecorded'
    BY <1>t, <1>10, <2>1, <2>2, <2>3 DEF BuyerInv, Unclaimed, Unrecorded
  <2> QED
    BY <2>4, <2>5 DEF BuyerInv
<1>11. ASSUME NEW w \in Workers, RecordEscrow(w)
      PROVE  BuyerInv'
  <2>1. Buys(w) /\ \A v \in Workers : v # w => ~Buys(v) /\ workers'[v] = workers[v]
    BY <1>t, <1>11 DEF TypeInv, TypeOK, StepFits, BuyerInv, OneBuyer, Buys, RecordEscrow
  <2>2. intent # "AUTHORIZED" /\ escrow.state = "PREPARED"
    BY <1>t, <2>1 DEF BuyerInv, BuyerKnows
  <2>3. /\ workers'[w] = Idle /\ escrow'.state # "PREPARED"
        /\ UNCHANGED <<evidence, funds, claims>>
    BY <1>t, <1>11 DEF TypeInv, TypeOK, StepFits, RecordEscrow
  <2>4. OneBuyer' /\ BuyerKnows'
    BY <1>t, <1>11, <2>1, <2>2, <2>3 DEF BuyerInv, OneBuyer, BuyerKnows, Buys
  <2>5. Unclaimed' /\ Unrecorded'
    BY <1>t, <1>11, <2>1, <2>2, <2>3 DEF BuyerInv, Unclaimed, Unrecorded
  <2> QED
    BY <2>4, <2>5 DEF BuyerInv
<1>12. ASSUME NEW w \in Workers, Found(w)
      PROVE  BuyerInv'
  BY <1>t, <1>12 DEF TypeInv, TypeOK, StepFits, BuyerInv, OneBuyer, BuyerKnows, Unclaimed,
     Unrecorded, Buys, MasumiEscrowState, Found
<1>13. ASSUME NEW w \in Workers, NotFound(w)
      PROVE  BuyerInv'
  BY <1>t, <1>13 DEF TypeInv, TypeOK, StepFits, BuyerInv, OneBuyer, BuyerKnows, Unclaimed,
     Unrecorded, Buys, MasumiEscrowState, NotFound
<1>14. ASSUME NEW w \in Workers, ApplyReconcile(w)
      PROVE  BuyerInv'
  <2>1. escrow.state # "PREPARED"
    BY <1>t, <1>14 DEF TypeInv, StepFits, BuyerInv, Unrecorded, ApplyReconcile
  <2>2. intent # "AUTHORIZED" /\ \A v \in Workers : ~Buys(v)
    BY <1>t, <2>1 DEF BuyerInv, BuyerKnows, Unclaimed
  <2>a. workers' = [workers EXCEPT ![w] = Idle] /\ intent' # "AUTHORIZED"
    BY <1>14, <2>2 DEF ApplyReconcile
  <2>b. workers[w].seen # "PREPARED"
    BY <1>t, <1>14 DEF TypeInv, StepFits, MasumiEscrowState, ApplyReconcile
  <2>c. escrow'.state = workers[w].seen
    BY <1>t, <1>14 DEF TypeInv, TypeOK, ApplyReconcile
  <2>3. /\ workers' = [workers EXCEPT ![w] = Idle]
        /\ intent' # "AUTHORIZED" /\ escrow'.state # "PREPARED"
    BY <2>a, <2>b, <2>c
  <2>4. \A v \in Workers : ~Buys(v)'
    BY <1>t, <2>2, <2>3 DEF TypeInv, TypeOK, Buys
  <2> QED
    BY <2>3, <2>4 DEF BuyerInv, OneBuyer, BuyerKnows, Unclaimed, Unrecorded
<1>15. ASSUME NEW w \in Workers, NEW op \in Refunds, MutationAnswered(w, op)
      PROVE  BuyerInv'
  BY <1>t, <1>15 DEF TypeInv, TypeOK, StepFits, BuyerInv, OneBuyer, BuyerKnows, Unclaimed,
     Unrecorded, Buys, MasumiEscrowState, MutationAnswered, OutcomeOf, Misjudge, Result
<1>16. ASSUME NEW w \in Workers, ReadClaim(w)
      PROVE  BuyerInv'
  BY <1>t, <1>16 DEF TypeInv, TypeOK, StepFits, BuyerInv, OneBuyer, BuyerKnows, Unclaimed,
     Unrecorded, Buys, MasumiEscrowState, ReadClaim
<1>17. ASSUME NEW w \in Workers, FoundClaim(w)
      PROVE  BuyerInv'
  BY <1>t, <1>17 DEF TypeInv, TypeOK, StepFits, BuyerInv, OneBuyer, BuyerKnows, Unclaimed,
     Unrecorded, Buys, MasumiEscrowState, FoundClaim, Classify, TargetReached, Precluded
<1>18. ASSUME NEW w \in Workers, NotFoundClaim(w)
      PROVE  BuyerInv'
  BY <1>t, <1>18 DEF TypeInv, TypeOK, StepFits, BuyerInv, OneBuyer, BuyerKnows, Unclaimed,
     Unrecorded, Buys, MasumiEscrowState, NotFoundClaim
<1>19. ASSUME NEW w \in Workers, MarkMutation(w)
      PROVE  BuyerInv'
  BY <1>t, <1>19 DEF TypeInv, TypeOK, StepFits, BuyerInv, OneBuyer, BuyerKnows, Unclaimed,
     Unrecorded, Buys, MasumiEscrowState, MarkMutation, SetClaim
<1>20. ASSUME NEW w \in Workers, RecordConfirmed(w)
      PROVE  BuyerInv'
  <2>1. escrow.state # "PREPARED"
    BY <1>t, <1>20 DEF TypeInv, StepFits, BuyerInv, Unrecorded, RecordConfirmed
  <2>2. intent # "AUTHORIZED" /\ \A v \in Workers : ~Buys(v)
    BY <1>t, <2>1 DEF BuyerInv, BuyerKnows, Unclaimed
  <2>3. /\ workers' = [workers EXCEPT ![w] = Idle]
        /\ intent' # "AUTHORIZED" /\ escrow'.state # "PREPARED"
    BY <1>t, <1>20, <2>2 DEF TypeInv, TypeOK, StepFits, RecordConfirmed
  <2>4. \A v \in Workers : ~Buys(v)'
    BY <1>t, <2>2, <2>3 DEF TypeInv, TypeOK, Buys
  <2> QED
    BY <2>3, <2>4 DEF BuyerInv, OneBuyer, BuyerKnows, Unclaimed, Unrecorded
<1>21. ASSUME NEW w \in Workers, Crash(w)
      PROVE  BuyerInv'
  BY <1>t, <1>21 DEF TypeInv, TypeOK, StepFits, BuyerInv, OneBuyer, BuyerKnows, Unclaimed,
     Unrecorded, Buys, MasumiEscrowState, Crash
<1>22. ASSUME NEW w \in Workers, NEW op \in Refunds, Reserve(w, op)
      PROVE  BuyerInv'
  BY <1>t, <1>22 DEF TypeInv, TypeOK, StepFits, BuyerInv, OneBuyer, BuyerKnows, Unclaimed,
     Unrecorded, Buys, MasumiEscrowState, Reserve, SetClaim, LocallyConfirmed, InDoubt,
     Available, TargetReached
<1>23. ASSUME NEW w \in Workers, NEW op \in Refunds, SweepClaim(w, op)
      PROVE  BuyerInv'
  BY <1>t, <1>23 DEF TypeInv, TypeOK, StepFits, BuyerInv, OneBuyer, BuyerKnows, Unclaimed,
     Unrecorded, Buys, MasumiEscrowState, SweepClaim, InDoubt
<1>24. ASSUME NEW op \in Operations, Deliver(op)
      PROVE  BuyerInv'
  <2>1. /\ UNCHANGED <<funds, escrow, claims, workers>> /\ calls' = calls \ {op}
        /\ provider' = provider \/ provider # "ABSENT" \/ "PURCHASE" \in calls
    BY <1>24 DEF Deliver, Accepts
  <2>2. OneBuyer' /\ Unrecorded'
    BY <1>t, <2>1 DEF BuyerInv, OneBuyer, Unrecorded, Buys
  <2>3. BuyerKnows'
    BY <1>t, <2>1 DEF BuyerInv, BuyerKnows, Buys
  <2>4. Unclaimed'
    BY <1>t, <2>1 DEF BuyerInv, Unclaimed
  <2> QED
    BY <2>2, <2>3, <2>4 DEF BuyerInv
<1>25. ASSUME Progress
      PROVE  BuyerInv'
  BY <1>t, <1>25 DEF TypeInv, TypeOK, StepFits, BuyerInv, OneBuyer, BuyerKnows, Unclaimed,
     Unrecorded, Buys, MasumiEscrowState, Progress
<1>26. ASSUME UNCHANGED vars
      PROVE  BuyerInv'
  BY <1>t, <1>26 DEF TypeInv, TypeOK, StepFits, BuyerInv, OneBuyer, BuyerKnows, Unclaimed,
     Unrecorded, Buys, MasumiEscrowState, vars
<1> QED
  BY <1>t, <1>1, <1>2, <1>3, <1>4, <1>5, <1>6, <1>7, <1>8, <1>9, <1>10, <1>11, <1>12, <1>13,
     <1>14, <1>15, <1>16, <1>17, <1>18, <1>19, <1>20, <1>21, <1>22, <1>23, <1>24, <1>25,
     <1>26 DEF Next, Continue

(***************************************************************************)
(* However many executors start a job, the row is bound to the job of the  *)
(* one that goes on to create the purchase.                                *)
(***************************************************************************)
THEOREM JobIsBound == Spec => []JobBound
<1>1. TypeInv /\ BuyerInv => JobBound
  BY DEF BuyerInv, BuyerKnows, Buys, JobBound
<1>2. Spec => [](TypeInv /\ BuyerInv)
  <2>1. TypeInv /\ BuyerInv /\ [Next]_vars => (TypeInv /\ BuyerInv)'
    BY TypeStep, BuyerStep
  <2> QED
    BY <2>1, TypeInit, BuyerInit, PTL DEF Spec
<1> QED
  BY <1>1, <1>2, PTL

-----------------------------------------------------------------------------
(* Layer 3: what the rows and the workers take for done, the provider did. *)

Since(state) == IF state = "RefundRequested" THEN provider \in {"RefundRequested", "RefundAuthorized", "Disputed"}
                ELSE state \in Terminal => provider = state

CarriedOut ==
  /\ "PURCHASE" \in carried <=> provider # "ABSENT"
  /\ "REQUEST_REFUND" \in carried => Since("RefundRequested")
  /\ "AUTHORIZE_REFUND" \in carried => Since("RefundAuthorized")

SeenTrue ==
  \A w \in Workers :
    /\ workers[w].pc \in {"apply", "confirm"} => Since(workers[w].seen)
    /\ workers[w].pc = "judged" /\ workers[w].seen = "good" => workers[w].op \in carried

RecordedTrue ==
  /\ Since(escrow.state)
  /\ escrow.requested => Since("RefundRequested")
  /\ escrow.authorized => Since("RefundAuthorized")
  /\ claims["REQUEST_REFUND"] = "CONFIRMED" => Since("RefundRequested")
  /\ claims["AUTHORIZE_REFUND"] = "CONFIRMED" => Since("RefundAuthorized")

EvidenceInv == CarriedOut /\ SeenTrue /\ RecordedTrue

(***************************************************************************)
(* Nothing has been done, seen or recorded initially.                      *)
(***************************************************************************)
LEMMA EvidenceInit == Init => EvidenceInv
BY DEF Init, EvidenceInv, CarriedOut, SeenTrue, RecordedTrue, Since, Terminal, MasumiEscrowState

(***************************************************************************)
(* Every step keeps what is seen and recorded true: the provider never     *)
(* goes back.                                                              *)
(***************************************************************************)
LEMMA EvidenceStep ==
    ASSUME TypeInv, EvidenceInv, [Next]_vars
    PROVE  EvidenceInv'
<1>t. TypeInv /\ EvidenceInv
  OBVIOUS
<1>1. ASSUME NEW w \in Workers, StartJob(w)
      PROVE  EvidenceInv'
  BY <1>t, <1>1 DEF TypeInv, TypeOK, StepFits, EvidenceInv, CarriedOut, SeenTrue,
     RecordedTrue, Since, Terminal, MasumiEscrowState, StartJob
<1>2. ASSUME NEW w \in Workers, StartReconcile(w)
      PROVE  EvidenceInv'
  BY <1>t, <1>2 DEF TypeInv, TypeOK, StepFits, EvidenceInv, CarriedOut, SeenTrue,
     RecordedTrue, Since, Terminal, MasumiEscrowState, StartReconcile
<1>3. ASSUME NEW w \in Workers, ClaimIntent(w)
      PROVE  EvidenceInv'
  <2>1. CarriedOut'
    BY <1>t, <1>3 DEF TypeInv, TypeOK, StepFits, EvidenceInv, CarriedOut, Since, Terminal,
       MasumiEscrowState, ClaimIntent
  <2>2. SeenTrue'
    BY <1>t, <1>3 DEF TypeInv, TypeOK, StepFits, EvidenceInv, SeenTrue, Since, Terminal,
       MasumiEscrowState, ClaimIntent
  <2>3. RecordedTrue'
    BY <1>t, <1>3 DEF TypeInv, TypeOK, StepFits, EvidenceInv, RecordedTrue, Since, Terminal,
       MasumiEscrowState, ClaimIntent
  <2> QED
    BY <2>1, <2>2, <2>3 DEF EvidenceInv
<1>4. ASSUME NEW w \in Workers, BindJob(w)
      PROVE  EvidenceInv'
  <2>1. CarriedOut'
    BY <1>t, <1>4 DEF TypeInv, TypeOK, StepFits, EvidenceInv, CarriedOut, Since, Terminal,
       MasumiEscrowState, BindJob
  <2>2. SeenTrue'
    BY <1>t, <1>4 DEF TypeInv, TypeOK, StepFits, EvidenceInv, SeenTrue, Since, Terminal,
       MasumiEscrowState, BindJob
  <2>3. RecordedTrue'
    BY <1>t, <1>4 DEF TypeInv, TypeOK, StepFits, EvidenceInv, RecordedTrue, Since, Terminal,
       MasumiEscrowState, BindJob
  <2> QED
    BY <2>1, <2>2, <2>3 DEF EvidenceInv
<1>5. ASSUME NEW w \in Workers, CreateAttempt(w)
      PROVE  EvidenceInv'
  BY <1>t, <1>5 DEF TypeInv, TypeOK, StepFits, EvidenceInv, CarriedOut, SeenTrue,
     RecordedTrue, Since, Terminal, MasumiEscrowState, CreateAttempt
<1>6. ASSUME NEW w \in Workers, Call(w)
      PROVE  EvidenceInv'
  <2>1. CarriedOut'
    BY <1>t, <1>6 DEF TypeInv, TypeOK, StepFits, EvidenceInv, CarriedOut, Since, Terminal,
       MasumiEscrowState, Call
  <2>2. SeenTrue'
    BY <1>t, <1>6 DEF TypeInv, TypeOK, StepFits, EvidenceInv, SeenTrue, Since, Terminal,
       MasumiEscrowState, Call
  <2>3. RecordedTrue'
    BY <1>t, <1>6 DEF TypeInv, TypeOK, StepFits, EvidenceInv, RecordedTrue, Since, Terminal,
       MasumiEscrowState, Call
  <2> QED
    BY <2>1, <2>2, <2>3 DEF EvidenceInv
<1>7. ASSUME NEW w \in Workers, Reply(w)
      PROVE  EvidenceInv'
  BY <1>t, <1>7 DEF TypeInv, TypeOK, StepFits, EvidenceInv, CarriedOut, SeenTrue,
     RecordedTrue, Since, Terminal, MasumiEscrowState, Reply, Replies
<1>8. ASSUME NEW w \in Workers, RecordPurchase(w)
      PROVE  EvidenceInv'
  <2>1. CarriedOut'
    BY <1>t, <1>8 DEF TypeInv, TypeOK, StepFits, EvidenceInv, CarriedOut, Since, Terminal,
       MasumiEscrowState, RecordPurchase, Result
  <2>2. SeenTrue'
    BY <1>t, <1>8 DEF TypeInv, TypeOK, StepFits, EvidenceInv, SeenTrue, Since, Terminal,
       MasumiEscrowState, RecordPurchase, Result
  <2>3. RecordedTrue'
    BY <1>t, <1>8 DEF TypeInv, TypeOK, StepFits, EvidenceInv, RecordedTrue, Since, Terminal,
       MasumiEscrowState, RecordPurchase, Result
  <2> QED
    BY <2>1, <2>2, <2>3 DEF EvidenceInv
<1>9. ASSUME NEW w \in Workers, PurchaseUnknown(w)
      PROVE  EvidenceInv'
  <2>1. CarriedOut'
    BY <1>t, <1>9 DEF TypeInv, TypeOK, StepFits, EvidenceInv, CarriedOut, Since, Terminal,
       MasumiEscrowState, PurchaseUnknown
  <2>2. SeenTrue'
    BY <1>t, <1>9 DEF TypeInv, TypeOK, StepFits, EvidenceInv, SeenTrue, Since, Terminal,
       MasumiEscrowState, PurchaseUnknown
  <2>3. RecordedTrue'
    BY <1>t, <1>9 DEF TypeInv, TypeOK, StepFits, EvidenceInv, RecordedTrue, Since, Terminal,
       MasumiEscrowState, PurchaseUnknown
  <2> QED
    BY <2>1, <2>2, <2>3 DEF EvidenceInv
<1>10. ASSUME NEW w \in Workers, PurchaseFailed(w)
      PROVE  EvidenceInv'
  <2>1. CarriedOut'
    BY <1>t, <1>10 DEF TypeInv, TypeOK, StepFits, EvidenceInv, CarriedOut, Since, Terminal,
       MasumiEscrowState, PurchaseFailed, Misjudge
  <2>2. SeenTrue'
    BY <1>t, <1>10 DEF TypeInv, TypeOK, StepFits, EvidenceInv, SeenTrue, Since, Terminal,
       MasumiEscrowState, PurchaseFailed, Misjudge
  <2>3. RecordedTrue'
    BY <1>t, <1>10 DEF TypeInv, TypeOK, StepFits, EvidenceInv, RecordedTrue, Since,
       Terminal, MasumiEscrowState, PurchaseFailed, Misjudge
  <2> QED
    BY <2>1, <2>2, <2>3 DEF EvidenceInv
<1>11. ASSUME NEW w \in Workers, RecordEscrow(w)
      PROVE  EvidenceInv'
  <2>1. CarriedOut'
    BY <1>t, <1>11 DEF TypeInv, TypeOK, StepFits, EvidenceInv, CarriedOut, Since, Terminal,
       MasumiEscrowState, RecordEscrow
  <2>2. SeenTrue'
    BY <1>t, <1>11 DEF TypeInv, TypeOK, StepFits, EvidenceInv, SeenTrue, Since, Terminal,
       MasumiEscrowState, RecordEscrow
  <2>3. RecordedTrue'
    BY <1>t, <1>11 DEF TypeInv, TypeOK, StepFits, EvidenceInv, RecordedTrue, Since,
       Terminal, MasumiEscrowState, RecordEscrow
  <2> QED
    BY <2>1, <2>2, <2>3 DEF EvidenceInv
<1>12. ASSUME NEW w \in Workers, Found(w)
      PROVE  EvidenceInv'
  BY <1>t, <1>12 DEF TypeInv, TypeOK, StepFits, EvidenceInv, CarriedOut, SeenTrue,
     RecordedTrue, Since, Terminal, MasumiEscrowState, Found
<1>13. ASSUME NEW w \in Workers, NotFound(w)
      PROVE  EvidenceInv'
  BY <1>t, <1>13 DEF TypeInv, TypeOK, StepFits, EvidenceInv, CarriedOut, SeenTrue,
     RecordedTrue, Since, Terminal, MasumiEscrowState, NotFound
<1>14. ASSUME NEW w \in Workers, ApplyReconcile(w)
      PROVE  EvidenceInv'
  <2>1. Since(workers[w].seen)
    BY <1>t, <1>14 DEF TypeInv, StepFits, EvidenceInv, SeenTrue, ApplyReconcile
  <2>2. /\ UNCHANGED <<provider, carried>> /\ escrow'.state = workers[w].seen
        /\ escrow'.requested = (escrow.requested \/ workers[w].seen = "RefundRequested")
        /\ escrow'.authorized = (escrow.authorized \/ workers[w].seen = "RefundAuthorized")
        /\ UNCHANGED claims
        /\ \A v \in Workers : workers'[v] = IF v = w THEN Idle ELSE workers[v]
    BY <1>t, <1>14 DEF TypeInv, TypeOK, StepFits, SetClaim, ApplyReconcile
  <2>3. CarriedOut'
    BY <1>t, <2>2 DEF EvidenceInv, CarriedOut, Since
  <2>4. SeenTrue'
    BY <1>t, <2>2 DEF EvidenceInv, SeenTrue, Since
  <2>5. RecordedTrue'
    BY <1>t, <2>1, <2>2 DEF EvidenceInv, RecordedTrue, Since, Terminal
  <2> QED
    BY <2>3, <2>4, <2>5 DEF EvidenceInv
<1>15. ASSUME NEW w \in Workers, NEW op \in Refunds, MutationAnswered(w, op)
      PROVE  EvidenceInv'
  <2>1. /\ UNCHANGED <<evidence, escrow, claims>> /\ \A v \in Workers : v # w => workers'[v] = workers[v]
        /\ workers'[w].pc \in {"confirm", "mark"}
        /\ workers'[w].pc = "confirm" => workers'[w].seen = Result(op) /\ Judged(w, op, "good")
    BY <1>t, <1>15 DEF TypeInv, TypeOK, MutationAnswered
  <2>2. Judged(w, op, "good") => Since(Result(op))
    BY <1>t DEF EvidenceInv, SeenTrue, CarriedOut, Result
  <2>3. CarriedOut' /\ RecordedTrue'
    BY <1>t, <2>1 DEF EvidenceInv, CarriedOut, RecordedTrue, Since
  <2>4. SeenTrue'
    BY <1>t, <2>1, <2>2 DEF EvidenceInv, SeenTrue, Since
  <2> QED
    BY <2>3, <2>4 DEF EvidenceInv
<1>16. ASSUME NEW w \in Workers, ReadClaim(w)
      PROVE  EvidenceInv'
  BY <1>t, <1>16 DEF TypeInv, TypeOK, StepFits, EvidenceInv, CarriedOut, SeenTrue,
     RecordedTrue, Since, Terminal, MasumiEscrowState, ReadClaim
<1>17. ASSUME NEW w \in Workers, FoundClaim(w)
      PROVE  EvidenceInv'
  BY <1>t, <1>17 DEF TypeInv, TypeOK, StepFits, EvidenceInv, CarriedOut, SeenTrue,
     RecordedTrue, Since, Terminal, MasumiEscrowState, FoundClaim, Classify, TargetReached,
     Precluded
<1>18. ASSUME NEW w \in Workers, NotFoundClaim(w)
      PROVE  EvidenceInv'
  BY <1>t, <1>18 DEF TypeInv, TypeOK, StepFits, EvidenceInv, CarriedOut, SeenTrue,
     RecordedTrue, Since, Terminal, MasumiEscrowState, NotFoundClaim
<1>19. ASSUME NEW w \in Workers, MarkMutation(w)
      PROVE  EvidenceInv'
  BY <1>t, <1>19 DEF TypeInv, TypeOK, StepFits, EvidenceInv, CarriedOut, SeenTrue,
     RecordedTrue, Since, Terminal, MasumiEscrowState, MarkMutation, SetClaim
<1>20. ASSUME NEW w \in Workers, RecordConfirmed(w)
      PROVE  EvidenceInv'
  <2>1. Since(workers[w].seen) /\ workers[w].op \in Refunds /\ TargetReached(workers[w].op, workers[w].seen)
    BY <1>t, <1>20 DEF TypeInv, StepFits, EvidenceInv, SeenTrue, RecordConfirmed
  <2>2. /\ UNCHANGED <<provider, carried>> /\ escrow'.state = workers[w].seen
        /\ workers[w].seen \in {"RefundRequested", "RefundAuthorized"}
        /\ escrow'.authorized = (escrow.authorized \/ workers[w].seen = "RefundAuthorized")
        /\ \A op \in Refunds : claims'[op] = IF op = workers[w].op THEN "CONFIRMED" ELSE claims[op]
        /\ \A v \in Workers : workers'[v] = IF v = w THEN Idle ELSE workers[v]
    BY <1>t, <1>20 DEF TypeInv, TypeOK, StepFits, SetClaim, RecordConfirmed
  <2>3. CarriedOut'
    BY <1>t, <2>2 DEF EvidenceInv, CarriedOut, Since
  <2>4. SeenTrue'
    BY <1>t, <2>2 DEF EvidenceInv, SeenTrue, Since
  <2>5. RecordedTrue'
    BY <1>t, <2>1, <2>2 DEF EvidenceInv, RecordedTrue, Since, Terminal, TargetReached, TypeInv, StepFits
  <2> QED
    BY <2>3, <2>4, <2>5 DEF EvidenceInv
<1>21. ASSUME NEW w \in Workers, Crash(w)
      PROVE  EvidenceInv'
  BY <1>t, <1>21 DEF TypeInv, TypeOK, StepFits, EvidenceInv, CarriedOut, SeenTrue,
     RecordedTrue, Since, Terminal, MasumiEscrowState, Crash
<1>22. ASSUME NEW w \in Workers, NEW op \in Refunds, Reserve(w, op)
      PROVE  EvidenceInv'
  BY <1>t, <1>22 DEF TypeInv, TypeOK, StepFits, EvidenceInv, CarriedOut, SeenTrue,
     RecordedTrue, Since, Terminal, MasumiEscrowState, Reserve, SetClaim, LocallyConfirmed,
     InDoubt, Available, TargetReached
<1>23. ASSUME NEW w \in Workers, NEW op \in Refunds, SweepClaim(w, op)
      PROVE  EvidenceInv'
  BY <1>t, <1>23 DEF TypeInv, TypeOK, StepFits, EvidenceInv, CarriedOut, SeenTrue,
     RecordedTrue, Since, Terminal, MasumiEscrowState, SweepClaim, InDoubt
<1>24. ASSUME NEW op \in Operations, Deliver(op)
      PROVE  EvidenceInv'
  <2>1. /\ UNCHANGED <<escrow, claims, workers>>
        /\ \/ UNCHANGED <<provider, carried>>
           \/ Accepts(op) /\ provider' = Result(op) /\ carried' = carried \cup {op}
    BY <1>24 DEF Deliver
  <2>2. \A state : Since(state) => Since(state)'
    BY <2>1 DEF Since, Terminal, Accepts, Result
  <2>3. CarriedOut'
    BY <1>t, <2>1, <2>2 DEF EvidenceInv, CarriedOut, Since, Terminal, Accepts, Result
  <2>4. SeenTrue'
    BY <1>t, <2>1, <2>2 DEF EvidenceInv, SeenTrue
  <2>5. RecordedTrue'
    BY <1>t, <2>1, <2>2 DEF EvidenceInv, RecordedTrue
  <2> QED
    BY <2>3, <2>4, <2>5 DEF EvidenceInv
<1>25. ASSUME Progress
      PROVE  EvidenceInv'
  BY <1>t, <1>25 DEF TypeInv, TypeOK, StepFits, EvidenceInv, CarriedOut, SeenTrue,
     RecordedTrue, Since, Terminal, MasumiEscrowState, Progress
<1>26. ASSUME UNCHANGED vars
      PROVE  EvidenceInv'
  BY <1>t, <1>26 DEF TypeInv, TypeOK, StepFits, EvidenceInv, CarriedOut, SeenTrue,
     RecordedTrue, Since, Terminal, MasumiEscrowState, vars
<1> QED
  BY <1>t, <1>1, <1>2, <1>3, <1>4, <1>5, <1>6, <1>7, <1>8, <1>9, <1>10, <1>11, <1>12, <1>13,
     <1>14, <1>15, <1>16, <1>17, <1>18, <1>19, <1>20, <1>21, <1>22, <1>23, <1>24, <1>25,
     <1>26 DEF Next, Continue

(***************************************************************************)
(* A confirmed refund mutation is one the provider made.                   *)
(***************************************************************************)
THEOREM ConfirmationsAreTrue == Spec => []ConfirmedIsTrue
<1>1. EvidenceInv => ConfirmedIsTrue
  BY DEF EvidenceInv, RecordedTrue, Since, Terminal, ConfirmedIsTrue, TargetReached
<1>2. Spec => [](TypeInv /\ EvidenceInv)
  <2>1. TypeInv /\ EvidenceInv /\ [Next]_vars => (TypeInv /\ EvidenceInv)'
    BY TypeStep, EvidenceStep
  <2> QED
    BY <2>1, TypeInit, EvidenceInit, PTL DEF Spec
<1> QED
  BY <1>1, <1>2, PTL

-----------------------------------------------------------------------------
(* Layer 4: the intent, its reservation and the refund agree.              *)

FundsAgree ==
  /\ intent \in {"AUTHORIZED", "SIGNING", "SUBMITTED", "SUBMISSION_UNKNOWN"} => reservation = "ACTIVE"
  /\ intent = "FAILED_BEFORE_SUBMISSION" => reservation = "RELEASED"
  /\ (intent = "SETTLED") <=> (reservation = "SETTLED")
  /\ intent = "SETTLED" => provider = "Completed"
  /\ intent = "SETTLEMENT_FAILED" =>
       reservation \in {"RELEASED", "CONSUMED"} /\ provider \in {"RefundAuthorized", "Disputed"}

RefundRecorded ==
  escrow.authorized \/ escrow.state = "RefundAuthorized" =>
    reservation = "RELEASED" /\ intent = "SETTLEMENT_FAILED"

\* A reservation is given back for a refund, for a purchase that is not and
\* will not be made, or for one the service misjudged.
ReleasedForCause ==
  reservation = "RELEASED" =>
    \/ provider = "RefundAuthorized" \/ "PURCHASE" \in misjudged
    \/ provider = "ABSENT" /\ "PURCHASE" \notin calls

FundsInv == FundsAgree /\ RefundRecorded /\ ReleasedForCause

(***************************************************************************)
(* The reservation is active and nothing has been refunded initially.      *)
(***************************************************************************)
LEMMA FundsInit == Init => FundsInv
BY DEF Init, FundsInv, FundsAgree, RefundRecorded, ReleasedForCause, MasumiEscrowState

(***************************************************************************)
(* Every step keeps the intent, its reservation and the refund in          *)
(* agreement.                                                              *)
(***************************************************************************)
LEMMA FundsStep ==
    ASSUME TypeInv, BuyerInv, EvidenceInv, FundsInv, [Next]_vars
    PROVE  FundsInv'
<1>t. TypeInv /\ BuyerInv /\ EvidenceInv /\ FundsInv
  OBVIOUS
<1>1. ASSUME NEW w \in Workers, StartJob(w)
      PROVE  FundsInv'
  BY <1>t, <1>1 DEF TypeInv, TypeOK, StepFits, FundsInv, FundsAgree, RefundRecorded,
     ReleasedForCause, MasumiEscrowState, StartJob
<1>2. ASSUME NEW w \in Workers, StartReconcile(w)
      PROVE  FundsInv'
  BY <1>t, <1>2 DEF TypeInv, TypeOK, StepFits, FundsInv, FundsAgree, RefundRecorded,
     ReleasedForCause, MasumiEscrowState, StartReconcile
<1>3. ASSUME NEW w \in Workers, ClaimIntent(w)
      PROVE  FundsInv'
  <2>1. FundsAgree'
    BY <1>t, <1>3 DEF TypeInv, TypeOK, StepFits, FundsInv, FundsAgree, MasumiEscrowState,
       ClaimIntent
  <2>2. RefundRecorded'
    BY <1>t, <1>3 DEF TypeInv, TypeOK, StepFits, FundsInv, RefundRecorded,
       MasumiEscrowState, ClaimIntent
  <2>3. ReleasedForCause'
    BY <1>t, <1>3 DEF TypeInv, TypeOK, StepFits, FundsInv, ReleasedForCause,
       MasumiEscrowState, ClaimIntent
  <2> QED
    BY <2>1, <2>2, <2>3 DEF FundsInv
<1>4. ASSUME NEW w \in Workers, BindJob(w)
      PROVE  FundsInv'
  <2>1. FundsAgree'
    BY <1>t, <1>4 DEF TypeInv, TypeOK, StepFits, FundsInv, FundsAgree, MasumiEscrowState,
       BindJob
  <2>2. RefundRecorded'
    BY <1>t, <1>4 DEF TypeInv, TypeOK, StepFits, FundsInv, RefundRecorded,
       MasumiEscrowState, BindJob
  <2>3. ReleasedForCause'
    BY <1>t, <1>4 DEF TypeInv, TypeOK, StepFits, FundsInv, ReleasedForCause,
       MasumiEscrowState, BindJob
  <2> QED
    BY <2>1, <2>2, <2>3 DEF FundsInv
<1>5. ASSUME NEW w \in Workers, CreateAttempt(w)
      PROVE  FundsInv'
  BY <1>t, <1>5 DEF TypeInv, TypeOK, StepFits, FundsInv, FundsAgree, RefundRecorded,
     ReleasedForCause, MasumiEscrowState, CreateAttempt
<1>6. ASSUME NEW w \in Workers, Call(w)
      PROVE  FundsInv'
  <2>1. UNCHANGED <<provider, misjudged, funds, escrow>> /\ (calls' = calls \/ calls' = calls \cup {workers[w].op})
    BY <1>6 DEF Call
  <2>2. workers[w].op = "PURCHASE" => reservation = "ACTIVE"
    BY <1>t, <1>6 DEF BuyerInv, BuyerKnows, Buys, Call
  <2> QED
    BY <1>t, <2>1, <2>2 DEF FundsInv, FundsAgree, RefundRecorded, ReleasedForCause
<1>7. ASSUME NEW w \in Workers, Reply(w)
      PROVE  FundsInv'
  BY <1>t, <1>7 DEF TypeInv, TypeOK, StepFits, FundsInv, FundsAgree, RefundRecorded,
     ReleasedForCause, MasumiEscrowState, Reply, Replies
<1>8. ASSUME NEW w \in Workers, RecordPurchase(w)
      PROVE  FundsInv'
  <2>1. /\ intent = "SIGNING" /\ reservation = "ACTIVE" /\ ~escrow.authorized /\ escrow.state = "PREPARED"
        /\ workers[w].seen # "ambiguous" => "PURCHASE" \notin calls
    BY <1>t, <1>8 DEF BuyerInv, BuyerKnows, Unrecorded, Buys, RecordPurchase
  <2>2. /\ UNCHANGED <<provider, reservation>> /\ intent' \in {"SIGNING", "SUBMITTED"}
        /\ ~escrow'.authorized /\ escrow'.state \in {"PREPARED", "FundsLockingRequested"}
    BY <1>t, <1>8, <2>1 DEF TypeInv, TypeOK, Misjudge, Result, RecordPurchase
  <2>4. FundsAgree'
    BY <1>t, <2>1, <2>2 DEF FundsInv, FundsAgree
  <2>5. RefundRecorded'
    BY <2>1, <2>2 DEF RefundRecorded
  <2>6. ReleasedForCause'
    BY <2>1, <2>2 DEF ReleasedForCause
  <2> QED
    BY <2>4, <2>5, <2>6 DEF FundsInv
<1>9. ASSUME NEW w \in Workers, PurchaseUnknown(w)
      PROVE  FundsInv'
  <2>1. /\ intent = "SIGNING" /\ reservation = "ACTIVE" /\ ~escrow.authorized /\ escrow.state = "PREPARED"
        /\ workers[w].seen # "ambiguous" => "PURCHASE" \notin calls
    BY <1>t, <1>9 DEF BuyerInv, BuyerKnows, Unrecorded, Buys, PurchaseUnknown
  <2>2. UNCHANGED <<provider, reservation, escrow>> /\ intent' = "SUBMISSION_UNKNOWN"
    BY <1>t, <1>9, <2>1 DEF TypeInv, TypeOK, Misjudge, Result, PurchaseUnknown
  <2>4. FundsAgree'
    BY <1>t, <2>1, <2>2 DEF FundsInv, FundsAgree
  <2>5. RefundRecorded'
    BY <2>1, <2>2 DEF RefundRecorded
  <2>6. ReleasedForCause'
    BY <2>1, <2>2 DEF ReleasedForCause
  <2> QED
    BY <2>4, <2>5, <2>6 DEF FundsInv
<1>10. ASSUME NEW w \in Workers, PurchaseFailed(w)
      PROVE  FundsInv'
  <2>1. /\ intent = "SIGNING" /\ reservation = "ACTIVE" /\ ~escrow.authorized /\ escrow.state = "PREPARED"
        /\ workers[w].seen # "ambiguous" => "PURCHASE" \notin calls
    BY <1>t, <1>10 DEF BuyerInv, BuyerKnows, Unrecorded, Buys, PurchaseFailed
  <2>2. /\ UNCHANGED <<provider, calls, escrow>> /\ intent' = "FAILED_BEFORE_SUBMISSION" /\ reservation' = "RELEASED"
        /\ workers[w].seen = "refused" /\ ("PURCHASE" \in carried => "PURCHASE" \in misjudged')
    BY <1>t, <1>10, <2>1 DEF TypeInv, TypeOK, Misjudge, Result, PurchaseFailed
  <2>3. provider = "ABSENT" <=> "PURCHASE" \notin carried
    BY <1>t DEF EvidenceInv, CarriedOut
  <2>4. FundsAgree'
    BY <1>t, <2>1, <2>2 DEF FundsInv, FundsAgree
  <2>5. RefundRecorded'
    BY <2>1, <2>2 DEF RefundRecorded
  <2>6. ReleasedForCause'
    BY <2>1, <2>2, <2>3 DEF ReleasedForCause
  <2> QED
    BY <2>4, <2>5, <2>6 DEF FundsInv
<1>11. ASSUME NEW w \in Workers, RecordEscrow(w)
      PROVE  FundsInv'
  <2>1. FundsAgree'
    BY <1>t, <1>11 DEF TypeInv, TypeOK, StepFits, FundsInv, FundsAgree, MasumiEscrowState,
       RecordEscrow
  <2>2. RefundRecorded'
    BY <1>t, <1>11 DEF TypeInv, TypeOK, StepFits, FundsInv, RefundRecorded,
       MasumiEscrowState, RecordEscrow
  <2>3. ReleasedForCause'
    BY <1>t, <1>11 DEF TypeInv, TypeOK, StepFits, FundsInv, ReleasedForCause,
       MasumiEscrowState, RecordEscrow
  <2> QED
    BY <2>1, <2>2, <2>3 DEF FundsInv
<1>12. ASSUME NEW w \in Workers, Found(w)
      PROVE  FundsInv'
  BY <1>t, <1>12 DEF TypeInv, TypeOK, StepFits, FundsInv, FundsAgree, RefundRecorded,
     ReleasedForCause, MasumiEscrowState, Found
<1>13. ASSUME NEW w \in Workers, NotFound(w)
      PROVE  FundsInv'
  BY <1>t, <1>13 DEF TypeInv, TypeOK, StepFits, FundsInv, FundsAgree, RefundRecorded,
     ReleasedForCause, MasumiEscrowState, NotFound
<1>14. ASSUME NEW w \in Workers, ApplyReconcile(w)
      PROVE  FundsInv'
  <2> DEFINE state == workers[w].seen
             held == Trigger(state, reservation)
  <2>1. /\ state \in MasumiEscrowState /\ Since(state) /\ Since(escrow.state)
        /\ (escrow.authorized => provider = "RefundAuthorized")
    BY <1>t, <1>14 DEF TypeInv, StepFits, EvidenceInv, SeenTrue, RecordedTrue, Since, Terminal, ApplyReconcile
  <2>2. /\ UNCHANGED <<provider, calls, misjudged>> /\ escrow'.state = state
        /\ escrow'.authorized = (escrow.authorized \/ state = "RefundAuthorized")
    BY <1>t, <1>14 DEF TypeInv, TypeOK, ApplyReconcile
  <2>3. intent # "AUTHORIZED"
    BY <1>t, <1>14 DEF TypeInv, StepFits, BuyerInv, Unclaimed, Unrecorded, ApplyReconcile
  <2>4. CASE state = "RefundAuthorized"
    <3>1. provider = "RefundAuthorized" /\ intent # "SETTLED" /\ reservation # "SETTLED"
      BY <1>t, <2>1, <2>4 DEF FundsInv, FundsAgree, Since, Terminal
    <3>2. held = "RELEASED"
      BY <1>t, <2>4, <3>1 DEF TypeInv, TypeOK, Trigger, FundsInv, RefundRecorded
    <3>3. reservation' = "RELEASED" /\ intent' = "SETTLEMENT_FAILED"
      BY <1>t, <1>14, <2>4, <3>1, <3>2 DEF TypeInv, TypeOK, IntentStatus, ApplyReconcile, Paid, Unsettled
    <3> QED
      BY <2>2, <3>1, <3>3 DEF FundsInv, FundsAgree, RefundRecorded, ReleasedForCause
  <2>5. CASE state = "Disputed"
    <3>1. provider = "Disputed" /\ intent # "SETTLED" /\ reservation # "SETTLED" /\ ~escrow.authorized
      BY <1>t, <2>1, <2>5 DEF FundsInv, FundsAgree, Since, Terminal
    <3>2. intent' = "SETTLEMENT_FAILED"
      BY <1>t, <1>14, <2>5, <3>1 DEF TypeInv, TypeOK, IntentStatus, ApplyReconcile, Paid, Unsettled
    <3>3. /\ reservation' \in {"CONSUMED", "RELEASED"}
          /\ (reservation' = "RELEASED" => reservation = "RELEASED")
      BY <1>t, <1>14, <2>5, <3>1 DEF TypeInv, TypeOK, ApplyReconcile, Paid, Trigger
    <3> QED
      BY <1>t, <2>2, <2>5, <3>1, <3>2, <3>3 DEF FundsInv, FundsAgree, RefundRecorded, ReleasedForCause
  <2>6. CASE state = "Completed"
    <3>1. provider = "Completed" /\ intent # "SETTLEMENT_FAILED" /\ ~escrow.authorized
      BY <1>t, <2>1, <2>6 DEF FundsInv, FundsAgree, Since, Terminal
    <3>2. held = reservation
      BY <2>6 DEF Trigger
    <3>3. /\ intent' = IF intent \in {"SUBMITTED", "SUBMISSION_UNKNOWN", "SIGNING"} THEN "SETTLED" ELSE intent
          /\ reservation' = IF reservation \in {"ACTIVE", "CONSUMED"} THEN "SETTLED" ELSE reservation
      BY <1>14, <2>6, <3>2 DEF ApplyReconcile, Paid
    <3>4. FundsAgree'
      BY <1>t, <2>2, <2>3, <3>1, <3>3 DEF TypeInv, TypeOK, IntentStatus, FundsInv, FundsAgree
    <3> QED
      BY <1>t, <2>2, <2>6, <3>1, <3>3, <3>4 DEF FundsInv, RefundRecorded, ReleasedForCause
  <2>7. CASE state \notin {"RefundAuthorized", "Disputed", "Completed"}
    <3>1. UNCHANGED <<intent, reservation>>
      BY <1>14, <2>7 DEF ApplyReconcile, Paid, Trigger
    <3> QED
      BY <1>t, <2>2, <2>7, <3>1 DEF FundsInv, FundsAgree, RefundRecorded, ReleasedForCause
  <2> QED
    BY <2>4, <2>5, <2>6, <2>7
<1>15. ASSUME NEW w \in Workers, NEW op \in Refunds, MutationAnswered(w, op)
      PROVE  FundsInv'
  BY <1>t, <1>15 DEF TypeInv, TypeOK, StepFits, FundsInv, FundsAgree, RefundRecorded,
     ReleasedForCause, MasumiEscrowState, MutationAnswered, OutcomeOf, Misjudge, Result
<1>16. ASSUME NEW w \in Workers, ReadClaim(w)
      PROVE  FundsInv'
  BY <1>t, <1>16 DEF TypeInv, TypeOK, StepFits, FundsInv, FundsAgree, RefundRecorded,
     ReleasedForCause, MasumiEscrowState, ReadClaim
<1>17. ASSUME NEW w \in Workers, FoundClaim(w)
      PROVE  FundsInv'
  BY <1>t, <1>17 DEF TypeInv, TypeOK, StepFits, FundsInv, FundsAgree, RefundRecorded,
     ReleasedForCause, MasumiEscrowState, FoundClaim, Classify, TargetReached, Precluded
<1>18. ASSUME NEW w \in Workers, NotFoundClaim(w)
      PROVE  FundsInv'
  BY <1>t, <1>18 DEF TypeInv, TypeOK, StepFits, FundsInv, FundsAgree, RefundRecorded,
     ReleasedForCause, MasumiEscrowState, NotFoundClaim
<1>19. ASSUME NEW w \in Workers, MarkMutation(w)
      PROVE  FundsInv'
  BY <1>t, <1>19 DEF TypeInv, TypeOK, StepFits, FundsInv, FundsAgree, RefundRecorded,
     ReleasedForCause, MasumiEscrowState, MarkMutation, SetClaim
<1>20. ASSUME NEW w \in Workers, RecordConfirmed(w)
      PROVE  FundsInv'
  <2> DEFINE state == workers[w].seen
  <2>1. state \in {"RefundRequested", "RefundAuthorized"} /\ Since(state)
    BY <1>t, <1>20 DEF TypeInv, StepFits, EvidenceInv, SeenTrue, RecordConfirmed
  <2>2. /\ UNCHANGED <<provider, calls, misjudged>> /\ escrow'.state = state
        /\ escrow'.authorized = (escrow.authorized \/ state = "RefundAuthorized")
    BY <1>t, <1>20 DEF TypeInv, TypeOK, RecordConfirmed
  <2>3. CASE state = "RefundAuthorized"
    <3>1. provider = "RefundAuthorized" /\ intent # "SETTLED" /\ reservation # "SETTLED"
      BY <1>t, <2>1, <2>3 DEF FundsInv, FundsAgree, Since, Terminal
    <3>2. reservation' = "RELEASED" /\ intent' = "SETTLEMENT_FAILED"
      BY <1>t, <1>20, <2>3, <3>1 DEF TypeInv, TypeOK, IntentStatus, RecordConfirmed, Trigger, Unsettled, FundsInv, RefundRecorded
    <3> QED
      BY <2>2, <3>1, <3>2 DEF FundsInv, FundsAgree, RefundRecorded, ReleasedForCause
  <2>4. CASE state = "RefundRequested"
    <3>1. UNCHANGED <<intent, reservation>>
      BY <1>20, <2>4 DEF RecordConfirmed, Trigger
    <3> QED
      BY <1>t, <2>2, <2>4, <3>1 DEF FundsInv, FundsAgree, RefundRecorded, ReleasedForCause
  <2> QED
    BY <2>1, <2>3, <2>4
<1>21. ASSUME NEW w \in Workers, Crash(w)
      PROVE  FundsInv'
  BY <1>t, <1>21 DEF TypeInv, TypeOK, StepFits, FundsInv, FundsAgree, RefundRecorded,
     ReleasedForCause, MasumiEscrowState, Crash
<1>22. ASSUME NEW w \in Workers, NEW op \in Refunds, Reserve(w, op)
      PROVE  FundsInv'
  BY <1>t, <1>22 DEF TypeInv, TypeOK, StepFits, FundsInv, FundsAgree, RefundRecorded,
     ReleasedForCause, MasumiEscrowState, Reserve, SetClaim, LocallyConfirmed, InDoubt,
     Available, TargetReached
<1>23. ASSUME NEW w \in Workers, NEW op \in Refunds, SweepClaim(w, op)
      PROVE  FundsInv'
  BY <1>t, <1>23 DEF TypeInv, TypeOK, StepFits, FundsInv, FundsAgree, RefundRecorded,
     ReleasedForCause, MasumiEscrowState, SweepClaim, InDoubt
<1>24. ASSUME NEW op \in Operations, Deliver(op)
      PROVE  FundsInv'
  <2>1. FundsAgree'
    BY <1>t, <1>24 DEF TypeInv, TypeOK, StepFits, FundsInv, FundsAgree, MasumiEscrowState,
       Deliver, Accepts, Result
  <2>2. RefundRecorded'
    BY <1>t, <1>24 DEF TypeInv, TypeOK, StepFits, FundsInv, RefundRecorded,
       MasumiEscrowState, Deliver, Accepts, Result
  <2>3. ReleasedForCause'
    BY <1>t, <1>24 DEF TypeInv, TypeOK, StepFits, FundsInv, ReleasedForCause,
       MasumiEscrowState, Deliver, Accepts, Result
  <2> QED
    BY <2>1, <2>2, <2>3 DEF FundsInv
<1>25. ASSUME Progress
      PROVE  FundsInv'
  BY <1>t, <1>25 DEF TypeInv, TypeOK, StepFits, FundsInv, FundsAgree, RefundRecorded,
     ReleasedForCause, MasumiEscrowState, Progress
<1>26. ASSUME UNCHANGED vars
      PROVE  FundsInv'
  BY <1>t, <1>26 DEF TypeInv, TypeOK, StepFits, FundsInv, FundsAgree, RefundRecorded,
     ReleasedForCause, MasumiEscrowState, vars
<1> QED
  BY <1>t, <1>1, <1>2, <1>3, <1>4, <1>5, <1>6, <1>7, <1>8, <1>9, <1>10, <1>11, <1>12, <1>13,
     <1>14, <1>15, <1>16, <1>17, <1>18, <1>19, <1>20, <1>21, <1>22, <1>23, <1>24, <1>25,
     <1>26 DEF Next, Continue

(***************************************************************************)
(* The three layers above hold together in every reachable state.          *)
(***************************************************************************)
LEMMA FundsInvariant == Spec => [](TypeInv /\ BuyerInv /\ EvidenceInv /\ FundsInv)
<1>1. TypeInv /\ BuyerInv /\ EvidenceInv /\ FundsInv /\ [Next]_vars
        => (TypeInv /\ BuyerInv /\ EvidenceInv /\ FundsInv)'
  BY TypeStep, BuyerStep, EvidenceStep, FundsStep
<1> QED
  BY <1>1, TypeInit, BuyerInit, EvidenceInit, FundsInit, PTL DEF Spec

(***************************************************************************)
(* While the provider holds or has paid out the money the reservation      *)
(* counts it, except for a purchase whose answer was taken for a refusal.  *)
(***************************************************************************)
THEOREM HeldFundsAreCounted == Spec => []HeldFundsCounted
<1>1. EvidenceInv /\ FundsInv => HeldFundsCounted
  BY DEF FundsInv, ReleasedForCause, HeldFundsCounted
<1> QED
  BY <1>1, FundsInvariant, PTL

(***************************************************************************)
(* Intent and reservation are settled together, and only by a purchase     *)
(* the provider completed.                                                 *)
(***************************************************************************)
THEOREM SettlementsAgree == Spec => []SettledTogether
<1>1. FundsInv => SettledTogether
  BY DEF FundsInv, FundsAgree, SettledTogether
<1> QED
  BY <1>1, FundsInvariant, PTL

(***************************************************************************)
(* A recorded refund has returned the budget and failed the intent.        *)
(***************************************************************************)
THEOREM RefundsReturnBudget == Spec => []RefundReturnsBudget
<1>1. FundsInv => RefundReturnsBudget
  BY DEF FundsInv, RefundRecorded, RefundReturnsBudget
<1> QED
  BY <1>1, FundsInvariant, PTL

-----------------------------------------------------------------------------
(* Layer 5: one caller at a time per refund mutation.  Once the provider   *)
(* has completed or disputed the purchase a claim may fail for good and a  *)
(* late caller is refused, so nothing is claimed of those states.          *)

Live == provider \notin {"Completed", "Disputed"}
\* w will call, has called, or is about to write that its call failed.
Sends(w, op) == /\ workers[w].op = op
                /\ \/ workers[w].pc \in {"call", "reply", "judged"}
                   \/ workers[w].pc = "mark" /\ workers[w].seen = "FAILED"
MayCall(op) == claims[op] \in {"NONE", "FAILED"}

OneSender ==
  \A op \in Refunds : Live =>
    /\ \A v, w \in Workers : Sends(v, op) /\ Sends(w, op) => v = w
    /\ \A w \in Workers : Sends(w, op) => ~MayCall(op)

\* While a call is on its way nobody takes it for failed or makes another.
CallsGuarded ==
  \A op \in Refunds : Live /\ op \in calls =>
    /\ ~MayCall(op)
    /\ \A w \in Workers : workers[w].op = op =>
         /\ workers[w].pc # "call"
         /\ workers[w].pc \in {"judged", "mark"} => workers[w].seen \notin {"refused", "FAILED"}

\* Nor once it has been carried out, unless its answer was misjudged.
EffectsGuarded ==
  \A op \in Refunds : Live /\ op \in carried \ misjudged =>
    /\ ~MayCall(op)
    /\ \A w \in Workers : workers[w].op = op =>
         /\ workers[w].pc # "call"
         /\ ~(workers[w].pc = "mark" /\ workers[w].seen = "FAILED")

OneShotInv == OneSender /\ CallsGuarded /\ EffectsGuarded

(***************************************************************************)
(* No refund is under way initially.                                       *)
(***************************************************************************)
LEMMA OneShotInit == Init => OneShotInv
BY DEF Init, OneShotInv, OneSender, CallsGuarded, EffectsGuarded, Sends, MayCall, Live

(***************************************************************************)
(* Every step keeps one sender per mutation: a claim opens only when the   *)
(* last call is known to have had no effect.                               *)
(***************************************************************************)
LEMMA OneShotStep ==
    ASSUME TypeInv, OneShotInv, [Next]_vars
    PROVE  OneShotInv'
<1>t. TypeInv /\ OneShotInv
  OBVIOUS
<1>1. ASSUME NEW w \in Workers, StartJob(w)
      PROVE  OneShotInv'
  BY <1>t, <1>1 DEF TypeInv, TypeOK, StepFits, OneShotInv, OneSender, CallsGuarded,
     EffectsGuarded, Sends, MayCall, Live, StartJob
<1>2. ASSUME NEW w \in Workers, StartReconcile(w)
      PROVE  OneShotInv'
  BY <1>t, <1>2 DEF TypeInv, TypeOK, StepFits, OneShotInv, OneSender, CallsGuarded,
     EffectsGuarded, Sends, MayCall, Live, StartReconcile
<1>3. ASSUME NEW w \in Workers, ClaimIntent(w)
      PROVE  OneShotInv'
  <2>1. OneSender'
    BY <1>t, <1>3 DEF TypeInv, TypeOK, StepFits, OneShotInv, OneSender, Sends, MayCall,
       Live, ClaimIntent
  <2>2. CallsGuarded'
    BY <1>t, <1>3 DEF TypeInv, TypeOK, StepFits, OneShotInv, CallsGuarded, Sends, MayCall,
       Live, ClaimIntent
  <2>3. EffectsGuarded'
    BY <1>t, <1>3 DEF TypeInv, TypeOK, StepFits, OneShotInv, EffectsGuarded, Sends, MayCall,
       Live, ClaimIntent
  <2> QED
    BY <2>1, <2>2, <2>3 DEF OneShotInv
<1>4. ASSUME NEW w \in Workers, BindJob(w)
      PROVE  OneShotInv'
  <2>1. OneSender'
    BY <1>t, <1>4 DEF TypeInv, TypeOK, StepFits, OneShotInv, OneSender, Sends, MayCall,
       Live, BindJob
  <2>2. CallsGuarded'
    BY <1>t, <1>4 DEF TypeInv, TypeOK, StepFits, OneShotInv, CallsGuarded, Sends, MayCall,
       Live, BindJob
  <2>3. EffectsGuarded'
    BY <1>t, <1>4 DEF TypeInv, TypeOK, StepFits, OneShotInv, EffectsGuarded, Sends, MayCall,
       Live, BindJob
  <2> QED
    BY <2>1, <2>2, <2>3 DEF OneShotInv
<1>5. ASSUME NEW w \in Workers, CreateAttempt(w)
      PROVE  OneShotInv'
  BY <1>t, <1>5 DEF TypeInv, TypeOK, StepFits, OneShotInv, OneSender, CallsGuarded,
     EffectsGuarded, Sends, MayCall, Live, CreateAttempt
<1>6. ASSUME NEW w \in Workers, Call(w)
      PROVE  OneShotInv'
  <2>1. /\ UNCHANGED <<provider, carried, misjudged, claims>> /\ \A v \in Workers : v # w => workers'[v] = workers[v]
        /\ workers[w].pc = "call" /\ workers'[w].op = workers[w].op
        /\ \/ calls' = calls \cup {workers[w].op} /\ workers'[w].pc = "reply"
           \/ calls' = calls /\ workers'[w].pc = "judged" /\ workers'[w].seen = "refused"
    BY <1>t, <1>6 DEF TypeInv, TypeOK, Call
  <2>2. OneSender'
    BY <1>t, <2>1 DEF OneShotInv, OneSender, Sends, MayCall, Live
  <2>3. CallsGuarded'
    <3> SUFFICES ASSUME NEW op \in Refunds, Live', op \in calls'
                 PROVE  /\ ~MayCall(op)'
                        /\ \A v \in Workers : workers'[v].op = op =>
                             /\ workers'[v].pc # "call"
                             /\ workers'[v].pc \in {"judged", "mark"} => workers'[v].seen \notin {"refused", "FAILED"}
      BY DEF CallsGuarded
    <3>1. Live /\ (MayCall(op)' <=> MayCall(op))
      BY <2>1 DEF Live, MayCall
    <3>2. CASE op \in calls
      BY <1>t, <2>1, <3>1, <3>2 DEF OneShotInv, CallsGuarded
    <3>3. CASE op \notin calls
      <4>1. Sends(w, op) /\ workers'[w].pc = "reply"
        BY <2>1, <3>3 DEF Sends
      <4>2. ~MayCall(op) /\ \A u \in Workers : Sends(u, op) => u = w
        BY <1>t, <3>1, <4>1 DEF OneShotInv, OneSender
      <4>3. ASSUME NEW v \in Workers, v # w, workers[v].op = op
            PROVE  /\ workers[v].pc \notin {"call", "judged"}
                   /\ workers[v].pc = "mark" => workers[v].seen = "SUBMISSION_UNKNOWN"
        BY <1>t, <4>2, <4>3 DEF Sends, TypeInv, StepFits
      <4> QED
        BY <2>1, <3>1, <4>1, <4>2, <4>3
    <3> QED
      BY <3>2, <3>3
  <2>4. EffectsGuarded'
    BY <1>t, <2>1 DEF OneShotInv, EffectsGuarded, MayCall, Live
  <2> QED
    BY <2>2, <2>3, <2>4 DEF OneShotInv
<1>7. ASSUME NEW w \in Workers, Reply(w)
      PROVE  OneShotInv'
  BY <1>t, <1>7 DEF TypeInv, TypeOK, StepFits, OneShotInv, OneSender, CallsGuarded,
     EffectsGuarded, Sends, MayCall, Live, Reply, Replies
<1>8. ASSUME NEW w \in Workers, RecordPurchase(w)
      PROVE  OneShotInv'
  <2>1. OneSender'
    BY <1>t, <1>8 DEF TypeInv, TypeOK, StepFits, OneShotInv, OneSender, Sends, MayCall,
       Live, RecordPurchase, Result
  <2>2. CallsGuarded'
    BY <1>t, <1>8 DEF TypeInv, TypeOK, StepFits, OneShotInv, CallsGuarded, Sends, MayCall,
       Live, RecordPurchase, Result
  <2>3. EffectsGuarded'
    BY <1>t, <1>8 DEF TypeInv, TypeOK, StepFits, OneShotInv, EffectsGuarded, Sends, MayCall,
       Live, RecordPurchase, Result
  <2> QED
    BY <2>1, <2>2, <2>3 DEF OneShotInv
<1>9. ASSUME NEW w \in Workers, PurchaseUnknown(w)
      PROVE  OneShotInv'
  <2>1. OneSender'
    BY <1>t, <1>9 DEF TypeInv, TypeOK, StepFits, OneShotInv, OneSender, Sends, MayCall,
       Live, PurchaseUnknown
  <2>2. CallsGuarded'
    BY <1>t, <1>9 DEF TypeInv, TypeOK, StepFits, OneShotInv, CallsGuarded, Sends, MayCall,
       Live, PurchaseUnknown
  <2>3. EffectsGuarded'
    BY <1>t, <1>9 DEF TypeInv, TypeOK, StepFits, OneShotInv, EffectsGuarded, Sends, MayCall,
       Live, PurchaseUnknown
  <2> QED
    BY <2>1, <2>2, <2>3 DEF OneShotInv
<1>10. ASSUME NEW w \in Workers, PurchaseFailed(w)
      PROVE  OneShotInv'
  <2>1. OneSender'
    BY <1>t, <1>10 DEF TypeInv, TypeOK, StepFits, OneShotInv, OneSender, Sends, MayCall,
       Live, PurchaseFailed, Misjudge
  <2>2. CallsGuarded'
    BY <1>t, <1>10 DEF TypeInv, TypeOK, StepFits, OneShotInv, CallsGuarded, Sends, MayCall,
       Live, PurchaseFailed, Misjudge
  <2>3. EffectsGuarded'
    BY <1>t, <1>10 DEF TypeInv, TypeOK, StepFits, OneShotInv, EffectsGuarded, Sends,
       MayCall, Live, PurchaseFailed, Misjudge
  <2> QED
    BY <2>1, <2>2, <2>3 DEF OneShotInv
<1>11. ASSUME NEW w \in Workers, RecordEscrow(w)
      PROVE  OneShotInv'
  <2>1. OneSender'
    BY <1>t, <1>11 DEF TypeInv, TypeOK, StepFits, OneShotInv, OneSender, Sends, MayCall,
       Live, RecordEscrow
  <2>2. CallsGuarded'
    BY <1>t, <1>11 DEF TypeInv, TypeOK, StepFits, OneShotInv, CallsGuarded, Sends, MayCall,
       Live, RecordEscrow
  <2>3. EffectsGuarded'
    BY <1>t, <1>11 DEF TypeInv, TypeOK, StepFits, OneShotInv, EffectsGuarded, Sends,
       MayCall, Live, RecordEscrow
  <2> QED
    BY <2>1, <2>2, <2>3 DEF OneShotInv
<1>12. ASSUME NEW w \in Workers, Found(w)
      PROVE  OneShotInv'
  BY <1>t, <1>12 DEF TypeInv, TypeOK, StepFits, OneShotInv, OneSender, CallsGuarded,
     EffectsGuarded, Sends, MayCall, Live, Found
<1>13. ASSUME NEW w \in Workers, NotFound(w)
      PROVE  OneShotInv'
  BY <1>t, <1>13 DEF TypeInv, TypeOK, StepFits, OneShotInv, OneSender, CallsGuarded,
     EffectsGuarded, Sends, MayCall, Live, NotFound
<1>14. ASSUME NEW w \in Workers, ApplyReconcile(w)
      PROVE  OneShotInv'
  <2>1. OneSender'
    BY <1>t, <1>14 DEF TypeInv, TypeOK, StepFits, OneShotInv, OneSender, Sends, MayCall,
       Live, ApplyReconcile, Paid, Trigger, Unsettled
  <2>2. CallsGuarded'
    BY <1>t, <1>14 DEF TypeInv, TypeOK, StepFits, OneShotInv, CallsGuarded, Sends, MayCall,
       Live, ApplyReconcile, Paid, Trigger, Unsettled
  <2>3. EffectsGuarded'
    BY <1>t, <1>14 DEF TypeInv, TypeOK, StepFits, OneShotInv, EffectsGuarded, Sends,
       MayCall, Live, ApplyReconcile, Paid, Trigger, Unsettled
  <2> QED
    BY <2>1, <2>2, <2>3 DEF OneShotInv
<1>15. ASSUME NEW w \in Workers, NEW op \in Refunds, MutationAnswered(w, op)
      PROVE  OneShotInv'
  BY <1>t, <1>15 DEF TypeInv, TypeOK, StepFits, OneShotInv, OneSender, CallsGuarded,
     EffectsGuarded, Sends, MayCall, Live, MutationAnswered, OutcomeOf, Misjudge, Result
<1>16. ASSUME NEW w \in Workers, ReadClaim(w)
      PROVE  OneShotInv'
  BY <1>t, <1>16 DEF TypeInv, TypeOK, StepFits, OneShotInv, OneSender, CallsGuarded,
     EffectsGuarded, Sends, MayCall, Live, ReadClaim
<1>17. ASSUME NEW w \in Workers, FoundClaim(w)
      PROVE  OneShotInv'
  <2>1. /\ UNCHANGED <<evidence, misjudged, claims>> /\ \A v \in Workers : v # w => workers'[v] = workers[v]
        /\ workers'[w].pc \in {"confirm", "mark"}
        /\ workers'[w].pc = "mark" => workers'[w].seen = Classify(workers[w].op, provider)
    BY <1>t, <1>17 DEF TypeInv, TypeOK, FoundClaim
  <2>2. Live => Classify(workers[w].op, provider) # "FAILED"
    BY DEF Live, Classify, Precluded
  <2>3. Classify(workers[w].op, provider) # "refused"
    BY DEF Classify
  <2>4. OneSender'
    BY <1>t, <2>1, <2>2 DEF OneShotInv, OneSender, Sends, MayCall, Live
  <2>5. CallsGuarded'
    BY <1>t, <2>1, <2>2, <2>3 DEF OneShotInv, CallsGuarded, MayCall, Live
  <2>6. EffectsGuarded'
    BY <1>t, <2>1, <2>2 DEF OneShotInv, EffectsGuarded, MayCall, Live
  <2> QED
    BY <2>4, <2>5, <2>6 DEF OneShotInv
<1>18. ASSUME NEW w \in Workers, NotFoundClaim(w)
      PROVE  OneShotInv'
  BY <1>t, <1>18 DEF TypeInv, TypeOK, StepFits, OneShotInv, OneSender, CallsGuarded,
     EffectsGuarded, Sends, MayCall, Live, NotFoundClaim
<1>19. ASSUME NEW w \in Workers, MarkMutation(w)
      PROVE  OneShotInv'
  BY <1>t, <1>19 DEF TypeInv, TypeOK, StepFits, OneShotInv, OneSender, CallsGuarded,
     EffectsGuarded, Sends, MayCall, Live, MarkMutation, SetClaim
<1>20. ASSUME NEW w \in Workers, RecordConfirmed(w)
      PROVE  OneShotInv'
  <2>1. OneSender'
    BY <1>t, <1>20 DEF TypeInv, TypeOK, StepFits, OneShotInv, OneSender, Sends, MayCall,
       Live, RecordConfirmed, SetClaim, Trigger, Unsettled
  <2>2. CallsGuarded'
    BY <1>t, <1>20 DEF TypeInv, TypeOK, StepFits, OneShotInv, CallsGuarded, Sends, MayCall,
       Live, RecordConfirmed, SetClaim, Trigger, Unsettled
  <2>3. EffectsGuarded'
    BY <1>t, <1>20 DEF TypeInv, TypeOK, StepFits, OneShotInv, EffectsGuarded, Sends,
       MayCall, Live, RecordConfirmed, SetClaim, Trigger, Unsettled
  <2> QED
    BY <2>1, <2>2, <2>3 DEF OneShotInv
<1>21. ASSUME NEW w \in Workers, Crash(w)
      PROVE  OneShotInv'
  BY <1>t, <1>21 DEF TypeInv, TypeOK, StepFits, OneShotInv, OneSender, CallsGuarded,
     EffectsGuarded, Sends, MayCall, Live, Crash
<1>22. ASSUME NEW w \in Workers, NEW op \in Refunds, Reserve(w, op)
      PROVE  OneShotInv'
  <2>1. UNCHANGED <<evidence, misjudged>> /\ \A v \in Workers : v # w => workers'[v] = workers[v]
    BY <1>t, <1>22 DEF TypeInv, TypeOK, Reserve
  <2>2. CASE workers'[w].pc = "call"
    <3>1. MayCall(op) /\ workers'[w].op = op /\ claims' = [claims EXCEPT ![op] = "PREPARED"]
      BY <1>t, <1>22, <2>2 DEF TypeInv, TypeOK, Reserve, SetClaim, InDoubt, MayCall, MutationStatus
    <3>2. Live => /\ \A v \in Workers : ~Sends(v, op)
                  /\ op \notin calls /\ op \notin carried \ misjudged
      BY <1>t, <3>1 DEF OneShotInv, OneSender, CallsGuarded, EffectsGuarded
    <3>3. \A p \in Refunds : p # op => claims'[p] = claims[p]
      BY <1>t, <3>1 DEF TypeInv, TypeOK
    <3>4. claims'[op] = "PREPARED"
      BY <1>t, <3>1 DEF TypeInv, TypeOK
    <3>5. OneSender'
      BY <1>t, <2>1, <3>1, <3>2, <3>3, <3>4 DEF OneShotInv, OneSender, Sends, MayCall, Live
    <3>6. CallsGuarded'
      BY <1>t, <2>1, <3>1, <3>2, <3>3 DEF OneShotInv, CallsGuarded, MayCall, Live
    <3>7. EffectsGuarded'
      BY <1>t, <2>1, <3>1, <3>2, <3>3 DEF OneShotInv, EffectsGuarded, MayCall, Live
    <3> QED
      BY <3>5, <3>6, <3>7 DEF OneShotInv
  <2>3. CASE workers'[w].pc # "call"
    <3>1. /\ workers'[w].pc \in {"idle", "claim"}
          /\ claims' = claims \/ \E s \in {"CONFIRMED", "SUBMISSION_UNKNOWN"} : claims' = [claims EXCEPT ![op] = s]
      BY <1>t, <1>22, <2>3 DEF TypeInv, TypeOK, Reserve, SetClaim, InDoubt
    <3>2. \A p \in Refunds : MayCall(p)' => MayCall(p)
      BY <1>t, <3>1 DEF TypeInv, TypeOK, MayCall
    <3>3. OneSender'
      BY <1>t, <2>1, <3>1, <3>2 DEF OneShotInv, OneSender, Sends, Live
    <3>4. CallsGuarded'
      BY <1>t, <2>1, <3>1, <3>2 DEF OneShotInv, CallsGuarded, Live
    <3>5. EffectsGuarded'
      BY <1>t, <2>1, <3>1, <3>2 DEF OneShotInv, EffectsGuarded, Live
    <3> QED
      BY <3>3, <3>4, <3>5 DEF OneShotInv
  <2> QED
    BY <2>2, <2>3
<1>23. ASSUME NEW w \in Workers, NEW op \in Refunds, SweepClaim(w, op)
      PROVE  OneShotInv'
  BY <1>t, <1>23 DEF TypeInv, TypeOK, StepFits, OneShotInv, OneSender, CallsGuarded,
     EffectsGuarded, Sends, MayCall, Live, SweepClaim, InDoubt
<1>24. ASSUME NEW op \in Operations, Deliver(op)
      PROVE  OneShotInv'
  <2>1. /\ UNCHANGED <<misjudged, claims, workers>> /\ calls' = calls \ {op} /\ op \in calls
        /\ carried' = carried \/ carried' = carried \cup {op}
    BY <1>24 DEF Deliver
  <2>2. Live' => Live
    BY <1>24 DEF Deliver, Accepts, Live
  <2>3. OneSender'
    BY <1>t, <2>1, <2>2 DEF OneShotInv, OneSender, Sends, MayCall
  <2>4. CallsGuarded'
    BY <1>t, <2>1, <2>2 DEF OneShotInv, CallsGuarded, MayCall
  <2>5. EffectsGuarded'
    BY <1>t, <2>1, <2>2 DEF OneShotInv, CallsGuarded, EffectsGuarded, MayCall
  <2> QED
    BY <2>3, <2>4, <2>5 DEF OneShotInv
<1>25. ASSUME Progress
      PROVE  OneShotInv'
  BY <1>t, <1>25 DEF TypeInv, TypeOK, StepFits, OneShotInv, OneSender, CallsGuarded,
     EffectsGuarded, Sends, MayCall, Live, Progress
<1>26. ASSUME UNCHANGED vars
      PROVE  OneShotInv'
  BY <1>t, <1>26 DEF TypeInv, TypeOK, StepFits, OneShotInv, OneSender, CallsGuarded,
     EffectsGuarded, Sends, MayCall, Live, vars
<1> QED
  BY <1>t, <1>1, <1>2, <1>3, <1>4, <1>5, <1>6, <1>7, <1>8, <1>9, <1>10, <1>11, <1>12, <1>13,
     <1>14, <1>15, <1>16, <1>17, <1>18, <1>19, <1>20, <1>21, <1>22, <1>23, <1>24, <1>25,
     <1>26 DEF Next, Continue

(***************************************************************************)
(* Evidence and one-shot discipline hold together in every reachable       *)
(* state.                                                                  *)
(***************************************************************************)
LEMMA OneShotInvariant == Spec => [](TypeInv /\ EvidenceInv /\ OneShotInv)
<1>1. TypeInv /\ EvidenceInv /\ OneShotInv /\ [Next]_vars => (TypeInv /\ EvidenceInv /\ OneShotInv)'
  BY TypeStep, EvidenceStep, OneShotStep
<1> QED
  BY <1>1, TypeInit, EvidenceInit, OneShotInit, PTL DEF Spec

(***************************************************************************)
(* A mutation the provider carried out is recorded as failed only when a   *)
(* dispute has overtaken it or its answer could not be read.               *)
(***************************************************************************)
THEOREM FailuresAreDefinite == Spec => []FailedIsDefinite
<1>1. TypeInv /\ EvidenceInv /\ OneShotInv => FailedIsDefinite
  <2> SUFFICES ASSUME TypeInv, EvidenceInv, OneShotInv, NEW op \in Refunds,
                      claims[op] = "FAILED", op \in carried \ misjudged
               PROVE  provider = "Disputed"
    BY DEF FailedIsDefinite
  <2>1. provider \in {"Completed", "Disputed"}
    BY DEF OneShotInv, EffectsGuarded, MayCall, Live
  <2> QED
    BY <2>1 DEF EvidenceInv, CarriedOut, Since, Terminal
<1> QED
  BY <1>1, OneShotInvariant, PTL

(***************************************************************************)
(* One-shot: while a call may still arrive, or what it did stands, nobody  *)
(* makes it again.                                                         *)
(***************************************************************************)
THEOREM CalledOnce == Spec => NoSecondCall
<1>1. TypeInv /\ EvidenceInv /\ OneShotInv /\ [Next]_vars =>
        [\A w \in Workers, op \in Refunds :
           At(w, "call") /\ workers[w].op = op /\ At(w, "reply")' /\ op \notin misjudged
             => provider \in Terminal \/ (op \notin calls /\ ~(op \in carried /\ TargetReached(op, provider)))]_vars
  <2> SUFFICES ASSUME OneShotInv, NEW w \in Workers, NEW op \in Refunds,
                      At(w, "call"), workers[w].op = op, op \notin misjudged, provider \notin Terminal
               PROVE  op \notin calls /\ op \notin carried
    OBVIOUS
  <2>1. Live
    BY DEF Live, Terminal
  <2> QED
    BY <2>1 DEF OneShotInv, CallsGuarded, EffectsGuarded
<1> QED
  BY <1>1, OneShotInvariant, PTL DEF Spec, NoSecondCall

=============================================================================
