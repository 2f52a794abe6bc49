--------------------------- MODULE PaymentIntent ---------------------------
(***************************************************************************)
(* The life of a payment intent (dashboard/src/domain/payment-service.ts   *)
(* and the routes and jobs that write the same rows): creation under the   *)
(* policy, approval votes, execution by a request handler, cancellation,   *)
(* expiry, and reconciliation of ambiguous submissions with the chain.     *)
(*                                                                         *)
(* A request is one HTTP call.  Its database transactions are atomic steps *)
(* and everything may happen between two of them; what it read before is   *)
(* kept in its program counter.  The process may stop at any step (Crash). *)
(* A request id that never reached the claim becomes idle again, so a few  *)
(* ids stand for any number of calls; the id of a request that did claim   *)
(* also names its PaymentAttempt row and the payload it signed.            *)
(***************************************************************************)
EXTENDS SpendPolicy, FiniteSets, Functions

CONSTANTS
    Intents,             \* payment intents (one per idempotency key)
    Requests,            \* HTTP calls
    Users,               \* members allowed to vote on approvals
    Jobs,                \* concurrent reconciliation sweeps
    None,                \* a null column
    SelfCustody,         \* intents whose payer account is signed by a wallet
    Amount,              \* quote.amountAtomic of each intent
    Balance,             \* spendable balance snapshot of the paying account
    Policy,              \* limits of the agent's effective policy
    RequiredApprovals, RequiredRejections,
    MaxPolicyVersion,    \* bound: policy versions published
    Misreports,          \* may a resource's answer differ from what became of the payload?
    Crashes              \* may the process serving a request stop?

ASSUME ConstantsAssumption ==
    /\ SelfCustody \subseteq Intents
    /\ IsFiniteSet(Intents)
    /\ Amount \in [Intents -> Nat]
    /\ Balance \in Nat
    /\ Policy.dailyLimit \in Nat
    /\ Policy.overLimitAction \in OverLimitActions
    /\ RequiredApprovals \in Nat \ {0}
    /\ RequiredRejections \in Nat \ {0}
    /\ MaxPolicyVersion \in Nat \ {0}
    /\ Misreports \in BOOLEAN
    /\ Crashes \in BOOLEAN
    /\ None \notin Intents \cup Requests \cup Users
    /\ IsFiniteSet(Users)

VARIABLES
    status,         \* PaymentIntent.status, "none" before the row exists
    reservation,    \* SpendReservation.status
    approval,       \* ApprovalRequest.status
    votes,          \* ApprovalDecision rows
    initiator,      \* actorId of PAYMENT_REQUEST_INITIATED (None: the agent)
    decidedUnder,   \* policyVersionId of the intent's PolicyDecision
    fulfillment,    \* ResourceFulfillment.status
    incident,       \* intents with a RECONCILIATION_INCIDENT support case
    attempt,        \* PaymentAttempt.status of the attempt a request made
    candidate,      \* PaymentAttempt.candidateTransactionId
    settlement,     \* Settlement row of an attempt: [status, tx]
    killSwitch,     \* Organization.killSwitchEnabled
    policyVersion,  \* Agent.effectivePolicyId
    pc, on,         \* where each request is, and the intent it works on
    report,         \* what a request learnt: refusal status or transaction
    job,            \* what a reconciliation sweep observed
    expired,        \* intents whose validUntil has passed
    chain,          \* fate of the payload a request signed
    overtaken       \* history: intents canceled after they left a cancelable status

intentRows == <<status, reservation, approval, votes, initiator, decidedUnder,
                fulfillment, incident>>
attemptRows == <<attempt, candidate, settlement>>
settings == <<killSwitch, policyVersion>>
requests == <<pc, on, report>>
vars == <<intentRows, attemptRows, settings, requests, job, expired, chain, overtaken>>

-----------------------------------------------------------------------------
PaymentStatus ==
    {"none", "DENIED", "APPROVAL_PENDING", "REJECTED", "EXPIRED", "AUTHORIZED",
     "SIGNING", "SUBMISSION_UNKNOWN", "SETTLED", "SETTLEMENT_FAILED",
     "FAILED_BEFORE_SUBMISSION", "CANCELED"}
ReservationStatus == {"none", "ACTIVE", "CONSUMED", "SETTLED", "RELEASED", "EXPIRED"}
ApprovalStatus == {"none", "PENDING", "CONSUMED", "REJECTED", "EXPIRED", "CANCELED"}
AttemptStatus == {"none", "STARTED", "SIGNED", "SUBMITTED", "CONFIRMED", "FAILED", "UNKNOWN"}
Vote == {"none", "APPROVE", "REJECT"}
ChainState == {"unsent", "sent", "success", "failed", "refused"}

\* A request before its claim, and after it.
BeforeClaim == {"idle", "revalidate", "read", "refuse", "claim", "cancel"}
AfterClaim == {"attempt", "sign", "send", "await", "submitted", "settle",
               "unknown", "fail", "done"}

SettlementRow == [status : {"none", "CONFIRMED", "FAILED"}, tx : Requests \cup {None}]
NoSettlement == [status |-> "none", tx |-> None]
Outcome == {"CONFIRMED", "FAILED", "MISMATCH"}
Observation == [attempt : Requests, outcome : Outcome]

TypeOK ==
    /\ status \in [Intents -> PaymentStatus]
    /\ reservation \in [Intents -> ReservationStatus]
    /\ approval \in [Intents -> ApprovalStatus]
    /\ votes \in [Intents -> [Users -> Vote]]
    /\ initiator \in [Intents -> Users \cup {None}]
    /\ decidedUnder \in [Intents -> 1 .. MaxPolicyVersion]
    /\ fulfillment \in [Intents -> {"none", "PENDING", "FULFILLED", "FAILED"}]
    /\ incident \subseteq Intents
    /\ attempt \in [Requests -> AttemptStatus]
    /\ candidate \in [Requests -> Requests \cup {None}]
    /\ settlement \in [Requests -> SettlementRow]
    /\ killSwitch \in BOOLEAN
    /\ policyVersion \in 1 .. MaxPolicyVersion
    /\ pc \in [Requests -> BeforeClaim \cup AfterClaim]
    /\ on \in [Requests -> Intents \cup {None}]
    /\ report \in [Requests -> Requests \cup {None, "EXPIRED", "FAILED_BEFORE_SUBMISSION"}]
    /\ job \in [Jobs -> Observation \cup {None}]
    /\ expired \subseteq Intents
    /\ chain \in [Requests -> ChainState]
    /\ overtaken \subseteq Intents

Init ==
    /\ status = [i \in Intents |-> "none"]
    /\ reservation = [i \in Intents |-> "none"]
    /\ approval = [i \in Intents |-> "none"]
    /\ votes = [i \in Intents |-> [u \in Users |-> "none"]]
    /\ initiator = [i \in Intents |-> None]
    /\ decidedUnder = [i \in Intents |-> 1]
    /\ fulfillment = [i \in Intents |-> "none"]
    /\ incident = {}
    /\ attempt = [r \in Requests |-> "none"]
    /\ candidate = [r \in Requests |-> None]
    /\ settlement = [r \in Requests |-> NoSettlement]
    /\ killSwitch = FALSE
    /\ policyVersion = 1
    /\ pc = [r \in Requests |-> "idle"]
    /\ on = [r \in Requests |-> None]
    /\ report = [r \in Requests |-> None]
    /\ job = [k \in Jobs |-> None]
    /\ expired = {}
    /\ chain = [r \in Requests |-> "unsent"]
    /\ overtaken = {}

-----------------------------------------------------------------------------
(* Requests: program counters.                                             *)

Goto(r, label) == pc' = [pc EXCEPT ![r] = label]

\* The call returned, or died, without having claimed an intent.
Return(r) ==
    /\ pc' = [pc EXCEPT ![r] = "idle"]
    /\ on' = [on EXCEPT ![r] = None]
    /\ report' = [report EXCEPT ![r] = None]

\* The guard of every compare-and-set that leaves AUTHORIZED.  Mutant: a
\* plain update by id.
UpdateById(i) == TRUE
StillAuthorized(i) == status[i] = "AUTHORIZED"

\* updateMany({where: {status: "ACTIVE"}}) on the reservation of an intent.
\* Mutant: the intent is updated and its reservation forgotten.
ForgetReservation(i, to) == UNCHANGED reservation
ReleaseActive(i, to) ==
    reservation' = [reservation EXCEPT ![i] = IF @ = "ACTIVE" THEN to ELSE @]

-----------------------------------------------------------------------------
(* Creation: one serializable transaction re-checks the idempotency key,   *)
(* sums the reservations, decides, and writes the intent with its          *)
(* reservation and approval.  All reservations fall in one spend window    *)
(* and after the last balance snapshot here.                               *)

\* Statuses the spend sums count.  Mutant: settled spend no longer counts.
CountedOpen == {"ACTIVE", "CONSUMED"}
Counted == {"ACTIVE", "CONSUMED", "SETTLED"}
Committed == SumFunctionOnSet(Amount, {i \in Intents : reservation[i] \in Counted})
AvailableBalance == IF Balance > Committed THEN Balance - Committed ELSE 0

Facts(i) ==
    [killSwitch |-> killSwitch, agentActive |-> TRUE, scheduleViolations |-> {},
     merchantAllowed |-> TRUE, amount |-> Amount[i], balance |-> AvailableBalance,
     reservedToday |-> Committed, hourlySpend |-> Committed, monthlySpend |-> Committed,
     transactionsLastHour |-> 0, sinceLastTransaction |-> NoLimit]

CreatePaidRequest(r, i, u) ==
    LET outcome == EvaluatePolicy(Facts(i), Policy)
        runs == outcome = "ALLOW" /\ i \notin SelfCustody
    IN /\ pc[r] = "idle"
       /\ status[i] = "none"
       /\ status' = [status EXCEPT ![i] =
                        CASE outcome = "ALLOW" -> "AUTHORIZED"
                          [] outcome = "DENY" -> "DENIED"
                          [] outcome = "REQUIRE_APPROVAL" -> "APPROVAL_PENDING"]
       /\ reservation' = [reservation EXCEPT ![i] = IF outcome = "DENY" THEN "none" ELSE "ACTIVE"]
       /\ approval' = [approval EXCEPT ![i] = IF outcome = "REQUIRE_APPROVAL" THEN "PENDING" ELSE "none"]
       /\ initiator' = [initiator EXCEPT ![i] = u]
       /\ decidedUnder' = [decidedUnder EXCEPT ![i] = policyVersion]
       /\ pc' = [pc EXCEPT ![r] = IF runs THEN "read" ELSE "idle"]
       /\ on' = [on EXCEPT ![r] = IF runs THEN i ELSE None]
       /\ UNCHANGED <<votes, fulfillment, incident, attemptRows, settings, report,
                      job, expired, chain, overtaken>>

-----------------------------------------------------------------------------
(* Approval votes: dashboard/src/app/api/v1/approvals/.../decision.        *)

Voters(i, v) == {u \in Users : votes'[i][u] = v}

\* One vote per member; the initiator may reject, not approve.  Mutant: the
\* separation of duties is not checked.
MayVoteOnce(i, u, v) == votes[i][u] = "none"
MayVote(i, u, v) == votes[i][u] = "none" /\ ~(v = "APPROVE" /\ initiator[i] = u)

\* The transaction of the decision route; the call goes on to execute the
\* intent when this vote reached the approval threshold.
Decide(r, i, u, v) ==
    LET rejected == Cardinality(Voters(i, "REJECT")) >= RequiredRejections
        consumed == ~rejected /\ Cardinality(Voters(i, "APPROVE")) >= RequiredApprovals
    IN /\ pc[r] = "idle"
       /\ approval[i] = "PENDING"
       /\ i \notin expired
       /\ MayVote(i, u, v)
       /\ votes' = [votes EXCEPT ![i][u] = v]
       /\ rejected \/ consumed => status[i] = "APPROVAL_PENDING"
       /\ status' = [status EXCEPT ![i] = IF rejected THEN "REJECTED"
                                          ELSE IF consumed THEN "AUTHORIZED" ELSE @]
       /\ approval' = [approval EXCEPT ![i] = IF rejected THEN "REJECTED"
                                              ELSE IF consumed THEN "CONSUMED" ELSE @]
       /\ IF rejected THEN ReleaseActive(i, "RELEASED") ELSE UNCHANGED reservation
       /\ pc' = [pc EXCEPT ![r] = IF consumed THEN "revalidate" ELSE "idle"]
       /\ on' = [on EXCEPT ![r] = IF consumed THEN i ELSE None]
       /\ UNCHANGED <<initiator, decidedUnder, fulfillment, incident, attemptRows,
                      settings, report, job, expired, chain, overtaken>>

\* revalidateOracleAuthorizationBeforeExecution: the oracle still agrees, or
\* failApprovedIntent gives the authorization up.
Revalidate(r) ==
    /\ pc[r] = "revalidate"
    /\ \/ Goto(r, "read") /\ UNCHANGED <<status, reservation, on, report>>
       \/ /\ Return(r)
          /\ IF StillAuthorized(on[r])
             THEN /\ status' = [status EXCEPT ![on[r]] = "FAILED_BEFORE_SUBMISSION"]
                  /\ ReleaseActive(on[r], "RELEASED")
             ELSE UNCHANGED <<status, reservation>>
    /\ UNCHANGED <<approval, votes, initiator, decidedUnder, fulfillment, incident,
                   attemptRows, settings, job, expired, chain, overtaken>>

-----------------------------------------------------------------------------
(* Execution: executeAuthorizedIntent and submitSelfCustodyPayment.        *)

\* The status failBeforeSigning gives an intent for the first check that
\* fails on the snapshot, or None when every check passes.  The checks on the
\* agent's status and schedule behave like the kill switch, which stands for
\* them.
PreSignRefusal(i) ==
    IF killSwitch THEN "FAILED_BEFORE_SUBMISSION"
    ELSE IF i \in expired \/ reservation[i] # "ACTIVE" THEN "EXPIRED"
    ELSE IF \/ approval[i] \notin {"none", "CONSUMED"}
            \/ decidedUnder[i] # policyVersion
         THEN "FAILED_BEFORE_SUBMISSION"
    ELSE None

\* executeAuthorizedIntent reads the intent and checks that snapshot.  An
\* intent of a self-custody account throws MANAGED_SIGNER_REQUIRED.
ReadAuthorized(r) ==
    LET i == on[r] IN
    /\ pc[r] = "read"
    /\ IF status[i] # "AUTHORIZED" THEN Return(r)
       ELSE IF PreSignRefusal(i) # None
            THEN /\ Goto(r, "refuse")
                 /\ report' = [report EXCEPT ![r] = PreSignRefusal(i)]
                 /\ UNCHANGED on
       ELSE IF i \in SelfCustody THEN Return(r)
       ELSE Goto(r, "claim") /\ UNCHANGED <<on, report>>
    /\ UNCHANGED <<intentRows, attemptRows, settings, job, expired, chain, overtaken>>

\* failBeforeSigning: compare-and-set from AUTHORIZED, then the reservation.
FailBeforeSigning(r) ==
    LET i == on[r] IN
    /\ pc[r] = "refuse"
    /\ IF StillAuthorized(i)
       THEN /\ status' = [status EXCEPT ![i] = report[r]]
            /\ ReleaseActive(i, IF report[r] = "EXPIRED" THEN "EXPIRED" ELSE "RELEASED")
       ELSE UNCHANGED <<status, reservation>>
    /\ Return(r)
    /\ UNCHANGED <<approval, votes, initiator, decidedUnder, fulfillment, incident,
                   attemptRows, settings, job, expired, chain, overtaken>>

\* submitSelfCustodyPayment, up to its claim: prepareSelfCustodyPayment's
\* checks on the snapshot (a failing one throws and changes nothing).
SubmitSelfCustody(r, i) ==
    /\ pc[r] = "idle"
    /\ i \in SelfCustody
    /\ status[i] = "AUTHORIZED"
    /\ i \notin expired
    /\ reservation[i] = "ACTIVE"
    /\ Goto(r, "claim")
    /\ on' = [on EXCEPT ![r] = i]
    /\ UNCHANGED <<intentRows, attemptRows, settings, report, job, expired, chain, overtaken>>

\* The claim: updateMany AUTHORIZED -> SIGNING, PAYMENT_ALREADY_CLAIMED when
\* no row changed.
Claim(r) ==
    /\ pc[r] = "claim"
    /\ IF StillAuthorized(on[r])
       THEN /\ status' = [status EXCEPT ![on[r]] = "SIGNING"]
            /\ Goto(r, "attempt")
            /\ UNCHANGED <<on, report>>
       ELSE Return(r) /\ UNCHANGED status
    /\ UNCHANGED <<reservation, approval, votes, initiator, decidedUnder, fulfillment,
                   incident, attemptRows, settings, job, expired, chain, overtaken>>

\* The steps of one attempt after the claim leave everything else alone.
AttemptFrame == UNCHANGED <<approval, votes, initiator, decidedUnder, incident,
                            settings, on, job, expired, overtaken>>

CreateAttempt(r) ==
    LET wallet == on[r] \in SelfCustody IN
    /\ pc[r] = "attempt"
    /\ attempt' = [attempt EXCEPT ![r] = IF wallet THEN "SIGNED" ELSE "STARTED"]
    /\ Goto(r, IF wallet THEN "send" ELSE "sign")
    /\ UNCHANGED <<status, reservation, fulfillment, candidate, settlement, report, chain>>
    /\ AttemptFrame

\* createManagedPaymentPayload and the SIGNED update; either may fail.  None
\* stands for a signer's transaction id that no chain lookup can resolve.
Sign(r) ==
    /\ pc[r] = "sign"
    /\ \/ \E tx \in {r, None} :
             /\ attempt' = [attempt EXCEPT ![r] = "SIGNED"]
             /\ candidate' = [candidate EXCEPT ![r] = tx]
             /\ Goto(r, "send")
       \/ Goto(r, "fail") /\ UNCHANGED <<attempt, candidate>>
    /\ UNCHANGED <<status, reservation, fulfillment, settlement, report, chain>>
    /\ AttemptFrame

\* fulfillX402Resource hands the signed payload to the resource.  A request
\* that never left is unknown all the same; a wallet's call first reads the
\* resource's address, whose failure is definite.
Send(r) ==
    /\ pc[r] = "send"
    /\ \/ chain' = [chain EXCEPT ![r] = "sent"] /\ Goto(r, "await")
       \/ Goto(r, "unknown") /\ UNCHANGED chain
       \/ on[r] \in SelfCustody /\ Goto(r, "fail") /\ UNCHANGED chain
    /\ UNCHANGED <<status, reservation, fulfillment, attemptRows, report>>
    /\ AttemptFrame

\* The transaction a resource names: any id is taken as it comes.  The id of
\* a request that sent nothing stands for one that no lookup resolves.
Reportable(r) == {r} \cup IF Misreports THEN Requests ELSE {}

\* A 2xx answer that names a transaction (confirmedSettlement is set); nobody
\* looks at the chain.  A resource that does not misreport answers so only
\* for a payload that settled.  A wallet's call checks the reported network
\* before it writes anything.
Fulfilled(r) ==
    /\ pc[r] = "await"
    /\ Misreports \/ chain[r] = "success"
    /\ \E tx \in Reportable(r) : report' = [report EXCEPT ![r] = tx]
    /\ IF on[r] \in SelfCustody
       THEN Goto(r, "settle") \/ Goto(r, "unknown")
       ELSE Goto(r, "submitted")
    /\ UNCHANGED <<status, reservation, fulfillment, attemptRows, chain>>
    /\ AttemptFrame

\* X402SubmissionUnknownError: timeout, 5xx, unreadable or missing evidence.
\* The payload may have settled, may settle later, or may never.
SubmissionUnknown(r) ==
    /\ pc[r] = "await"
    /\ \E tx \in Reportable(r) \cup {None} : report' = [report EXCEPT ![r] = tx]
    /\ Goto(r, "unknown")
    /\ UNCHANGED <<status, reservation, fulfillment, attemptRows, chain>>
    /\ AttemptFrame

\* A definite refusal (RESOURCE_FULFILLMENT_...): the resource gave the
\* payload up, or saw it fail; one that misreports may keep it.
ResourceRefuses(r) ==
    /\ pc[r] = "await"
    /\ \/ chain[r] = "sent" /\ chain' = [chain EXCEPT ![r] = "refused"]
       \/ (Misreports \/ chain[r] = "failed") /\ UNCHANGED chain
    /\ Goto(r, "fail")
    /\ UNCHANGED <<status, reservation, fulfillment, attemptRows, report>>
    /\ AttemptFrame

\* The SUBMITTED update; it may fail, or the reported network may differ, and
\* both end in the catch block with confirmedSettlement set.
RecordSubmitted(r) ==
    /\ pc[r] = "submitted"
    /\ \/ /\ attempt' = [attempt EXCEPT ![r] = "SUBMITTED"]
          /\ candidate' = [candidate EXCEPT ![r] = report[r]]
          /\ Goto(r, "settle") \/ Goto(r, "unknown")
       \/ Goto(r, "unknown") /\ UNCHANGED <<attempt, candidate>>
    /\ UNCHANGED <<status, reservation, fulfillment, settlement, report, chain>>
    /\ AttemptFrame

\* Unique (network, transactionId) on Settlement.  Mutant: never checked.
NeverTaken(r, tx) == FALSE
TxTaken(r, tx) == \E s \in Requests \ {r} : settlement[s].tx = tx

\* The settlement transaction.
CommitSettlement(r) ==
    LET i == on[r] IN
    /\ pc[r] = "settle"
    /\ ~TxTaken(r, report[r])
    /\ attempt' = [attempt EXCEPT ![r] = "CONFIRMED"]
    /\ candidate' = [candidate EXCEPT ![r] = report[r]]
    /\ settlement' = [settlement EXCEPT ![r] = [status |-> "CONFIRMED", tx |-> report[r]]]
    /\ fulfillment' = [fulfillment EXCEPT ![i] = "FULFILLED"]
    /\ reservation' = [reservation EXCEPT ![i] = "SETTLED"]
    /\ status' = [status EXCEPT ![i] = "SETTLED"]
    /\ Goto(r, "done")
    /\ UNCHANGED <<report, chain>>
    /\ AttemptFrame

\* The settlement transaction is rejected (unique violation or database
\* error).  Its promise is returned without await, so the catch block that
\* would mark the submission unknown does not run.
AbortSettlement(r) ==
    /\ pc[r] = "settle"
    /\ Goto(r, "done")
    /\ UNCHANGED <<status, reservation, fulfillment, attemptRows, report, chain>>
    /\ AttemptFrame

\* markSubmissionUnknown: one unconditional transaction.
MarkSubmissionUnknown(r) ==
    LET i == on[r] IN
    /\ pc[r] = "unknown"
    /\ attempt' = [attempt EXCEPT ![r] = "UNKNOWN"]
    /\ candidate' = [candidate EXCEPT ![r] = IF report[r] = None THEN @ ELSE report[r]]
    /\ status' = [status EXCEPT ![i] = "SUBMISSION_UNKNOWN"]
    /\ fulfillment' = [fulfillment EXCEPT ![i] = "PENDING"]
    /\ Goto(r, "done")
    /\ UNCHANGED <<reservation, settlement, report, chain>>
    /\ AttemptFrame

\* The catch block for a definite failure.
FailAttempt(r) ==
    LET i == on[r] IN
    /\ pc[r] = "fail"
    /\ attempt' = [attempt EXCEPT ![r] = "FAILED"]
    /\ status' = [status EXCEPT ![i] = "FAILED_BEFORE_SUBMISSION"]
    /\ ReleaseActive(i, "RELEASED")
    /\ Goto(r, "done")
    /\ UNCHANGED <<fulfillment, candidate, settlement, report, chain>>
    /\ AttemptFrame

\* The process stops, or a write outside any catch block fails.
Crash(r) ==
    /\ Crashes
    /\ pc[r] \notin {"idle", "done"}
    /\ IF pc[r] \in BeforeClaim THEN Return(r) ELSE Goto(r, "done") /\ UNCHANGED <<on, report>>
    /\ UNCHANGED <<intentRows, attemptRows, settings, job, expired, chain, overtaken>>

-----------------------------------------------------------------------------
(* Cancellation and expiry.                                                *)

Cancelable == {"APPROVAL_PENDING", "AUTHORIZED"}

\* EXPIRABLE_INTENT_STATUSES.  Mutant: work in progress expires too.
ExpirableOrSigning == {"APPROVAL_PENDING", "AUTHORIZED", "SIGNING"}
Expirable == {"APPROVAL_PENDING", "AUTHORIZED"}

\* The cancel route reads the intent outside its transaction ...
CancelRead(r, i) ==
    /\ pc[r] = "idle"
    /\ status[i] \in Cancelable
    /\ Goto(r, "cancel")
    /\ on' = [on EXCEPT ![r] = i]
    /\ UNCHANGED <<intentRows, attemptRows, settings, report, job, expired, chain, overtaken>>

\* ... and its transaction writes CANCELED whatever the status is by then.
CancelWrite(r) ==
    LET i == on[r] IN
    /\ pc[r] = "cancel"
    /\ status' = [status EXCEPT ![i] = "CANCELED"]
    /\ approval' = [approval EXCEPT ![i] = IF @ = "PENDING" THEN "CANCELED" ELSE @]
    /\ ReleaseActive(i, "RELEASED")
    /\ overtaken' = IF status[i] \in Cancelable THEN overtaken ELSE overtaken \cup {i}
    /\ Return(r)
    /\ UNCHANGED <<votes, initiator, decidedUnder, fulfillment, incident, attemptRows,
                   settings, job, expired, chain>>

\* expireIntent of the maintenance job: compare-and-set from an expirable
\* status.  Its candidates (a passed validUntil) never stop being candidates.
ExpireIntent(i) ==
    /\ i \in expired
    /\ status[i] \in Expirable
    /\ status' = [status EXCEPT ![i] = "EXPIRED"]
    /\ ReleaseActive(i, "EXPIRED")
    /\ approval' = [approval EXCEPT ![i] = IF @ = "PENDING" THEN "EXPIRED" ELSE @]
    /\ UNCHANGED <<votes, initiator, decidedUnder, fulfillment, incident, attemptRows,
                   settings, requests, job, expired, chain, overtaken>>

\* openUnresolvedSubmissionIncidents, once the threshold has passed.  Mutant:
\* only submissions whose resource failed are looked for.
UnresolvedAndFailed(i) == status[i] = "SUBMISSION_UNKNOWN" /\ fulfillment[i] = "FAILED"
Unresolved(i) == status[i] = "SUBMISSION_UNKNOWN"

OpenIncident(i) ==
    /\ Unresolved(i)
    /\ i \notin incident
    /\ incident' = incident \cup {i}
    /\ UNCHANGED <<status, reservation, approval, votes, initiator, decidedUnder, fulfillment,
                   attemptRows, settings, requests, job, expired, chain, overtaken>>

-----------------------------------------------------------------------------
(* Reconciliation (Hedera, Arc and Cardano services share this shape).     *)

\* What chain evidence says of the transaction an attempt is a candidate
\* for: other payments move another amount, or the same one.
ReconciliationOutcome(r) ==
    LET tx == candidate[r] IN
    IF chain[tx] = "failed" THEN "FAILED"
    ELSE IF Amount[on[tx]] = Amount[on[r]] THEN "CONFIRMED" ELSE "MISMATCH"

\* The attempts a sweep selects.  Mutant: the status of an attempt whose
\* evidence was recorded, which an ambiguous one never has.
RecordedAttempt(r) == attempt[r] = "SUBMITTED" /\ candidate[r] # None
Reconcilable(r) == attempt[r] = "UNKNOWN" /\ candidate[r] # None

\* A sweep selects an unknown attempt with a candidate and reads the chain;
\* an absent or unconfirmed transaction is left pending.
Observe(k, r) ==
    /\ job[k] = None
    /\ on[r] # None
    /\ status[on[r]] = "SUBMISSION_UNKNOWN"
    /\ Reconcilable(r)
    /\ chain[candidate[r]] \in {"success", "failed"}
    /\ job' = [job EXCEPT ![k] = [attempt |-> r, outcome |-> ReconciliationOutcome(r)]]
    /\ UNCHANGED <<intentRows, attemptRows, settings, requests, expired, chain, overtaken>>

\* Attempt FAILED, intent SETTLEMENT_FAILED, an ACTIVE reservation moves on.
RejectSubmission(r, to) ==
    /\ attempt' = [attempt EXCEPT ![r] = "FAILED"]
    /\ status' = [status EXCEPT ![on[r]] = "SETTLEMENT_FAILED"]
    /\ ReleaseActive(on[r], to)

\* The sweep's transaction: advisory lock, status re-check, replay check,
\* settlement row, then the outcome's writes.
Reconcile(k) ==
    LET r == job[k].attempt
        i == on[r]
        outcome == job[k].outcome
        tx == candidate[r]
        settle(s) == settlement' = [settlement EXCEPT ![r] = [status |-> s, tx |-> tx]]
        flag == incident' = incident \cup {i}
        unfulfilled == fulfillment' = [fulfillment EXCEPT ![i] = "FAILED"]
    IN /\ job[k] # None
       /\ job' = [job EXCEPT ![k] = None]
       /\ \/ /\ status[i] # "SUBMISSION_UNKNOWN"
             /\ UNCHANGED <<attempt, status, reservation, settlement, fulfillment, incident>>
          \/ /\ status[i] = "SUBMISSION_UNKNOWN"
             /\ TxTaken(r, tx)
             /\ RejectSubmission(r, "CONSUMED")
             /\ flag
             /\ UNCHANGED <<settlement, fulfillment>>
          \/ /\ status[i] = "SUBMISSION_UNKNOWN"
             /\ ~TxTaken(r, tx)
             /\ outcome = "CONFIRMED"
             /\ settle("CONFIRMED")
             /\ attempt' = [attempt EXCEPT ![r] = "CONFIRMED"]
             /\ status' = [status EXCEPT ![i] = "SETTLED"]
             /\ reservation' = [reservation EXCEPT ![i] = "SETTLED"]
             /\ unfulfilled /\ flag
          \/ /\ status[i] = "SUBMISSION_UNKNOWN"
             /\ ~TxTaken(r, tx)
             /\ outcome = "FAILED"
             /\ settle("FAILED")
             /\ RejectSubmission(r, "RELEASED")
             /\ unfulfilled /\ UNCHANGED incident
          \/ /\ status[i] = "SUBMISSION_UNKNOWN"
             /\ ~TxTaken(r, tx)
             /\ outcome = "MISMATCH"
             /\ settle("FAILED")
             /\ RejectSubmission(r, "CONSUMED")
             /\ unfulfilled /\ flag
       /\ UNCHANGED <<approval, votes, initiator, decidedUnder, candidate, settings,
                      requests, expired, chain, overtaken>>

-----------------------------------------------------------------------------
(* The world outside: time, operators, and the chain.                      *)

Elapse(i) ==
    /\ status[i] # "none"
    /\ i \notin expired
    /\ expired' = expired \cup {i}
    /\ UNCHANGED <<intentRows, attemptRows, settings, requests, job, chain, overtaken>>

SetKillSwitch ==
    /\ killSwitch' = ~killSwitch
    /\ UNCHANGED <<intentRows, attemptRows, policyVersion, requests, job, expired, chain, overtaken>>

PublishPolicy ==
    /\ policyVersion < MaxPolicyVersion
    /\ policyVersion' = policyVersion + 1
    /\ UNCHANGED <<intentRows, attemptRows, killSwitch, requests, job, expired, chain, overtaken>>

\* A payload the resource holds reaches finality, even long after the call
\* that sent it gave up.
ChainDecides(r) ==
    /\ chain[r] = "sent"
    /\ \E fate \in {"success", "failed"} : chain' = [chain EXCEPT ![r] = fate]
    /\ UNCHANGED <<intentRows, attemptRows, settings, requests, job, expired, overtaken>>

-----------------------------------------------------------------------------
Proceed(r) ==
    \/ Revalidate(r) \/ ReadAuthorized(r) \/ FailBeforeSigning(r) \/ Claim(r)
    \/ CreateAttempt(r) \/ Sign(r) \/ Send(r)
    \/ Fulfilled(r) \/ SubmissionUnknown(r) \/ ResourceRefuses(r)
    \/ RecordSubmitted(r) \/ CommitSettlement(r) \/ AbortSettlement(r)
    \/ MarkSubmissionUnknown(r) \/ FailAttempt(r) \/ CancelWrite(r)

Call(r, i) ==
    \/ \E u \in Users \cup {None} : CreatePaidRequest(r, i, u)
    \/ \E u \in Users, v \in {"APPROVE", "REJECT"} : Decide(r, i, u, v)
    \/ SubmitSelfCustody(r, i)
    \/ CancelRead(r, i)

Next ==
    \/ \E r \in Requests, i \in Intents : Call(r, i)
    \/ \E r \in Requests : Proceed(r) \/ Crash(r) \/ ChainDecides(r)
    \/ \E i \in Intents : ExpireIntent(i) \/ OpenIncident(i) \/ Elapse(i)
    \/ \E k \in Jobs : Reconcile(k) \/ \E r \in Requests : Observe(k, r)
    \/ SetKillSwitch \/ PublishPolicy

Spec == Init /\ [][Next]_vars

\* Scheduled jobs run forever (the maintenance and reconcile cron routes).
Sweeps ==
    /\ \A k \in Jobs : WF_vars(Reconcile(k)) /\ WF_vars(\E r \in Requests : Observe(k, r))
    /\ \A i \in Intents : WF_vars(ExpireIntent(i)) /\ WF_vars(OpenIncident(i))

FairSpec == Spec /\ Sweeps

-----------------------------------------------------------------------------
(* Properties.                                                             *)

Claimed(r) == pc[r] \in AfterClaim

\* A reservation that stands for money spent or promised.
Spent == {"ACTIVE", "CONSUMED", "SETTLED"}

(***************************************************************************)
(* At most one signed payload of an intent ever leaves the process, so at  *)
(* most one can settle: the AUTHORIZED -> SIGNING claim admits one request *)
(* among executors, wallet submissions and cancellations in any order.     *)
(***************************************************************************)
NoDoublePayment ==
    \A r, s \in Requests :
        chain[r] # "unsent" /\ chain[s] # "unsent" /\ on[r] = on[s] => r = s

(***************************************************************************)
(* A payment that settled on chain keeps its reservation counted against   *)
(* the budget, through timeouts, crashes, replays and reconciliation; the  *)
(* exceptions are an intent whose late cancellation overtook its claim and *)
(* an attempt that failed on the word of a resource that misreports: it    *)
(* kept a payload it refused, or named another's transaction.              *)
(***************************************************************************)
PaidStaysCommitted ==
    \A r \in Requests :
        chain[r] = "success" => \/ reservation[on[r]] \in Spent
                                \/ on[r] \in overtaken
                                \/ Misreports /\ attempt[r] = "FAILED"

(***************************************************************************)
(* Nothing is signed for an intent under approval before enough members    *)
(* other than its initiator approved it and while too few rejected it.     *)
(***************************************************************************)
ApprovedBy(i) == {u \in Users : votes[i][u] = "APPROVE"}
RejectedBy(i) == {u \in Users : votes[i][u] = "REJECT"}

ApprovalBeforeClaim ==
    \A r \in Requests :
        Claimed(r) /\ approval[on[r]] # "none" =>
            /\ approval[on[r]] = "CONSUMED"
            /\ Cardinality(ApprovedBy(on[r])) >= RequiredApprovals
            /\ Cardinality(RejectedBy(on[r])) < RequiredRejections
            /\ initiator[on[r]] \notin ApprovedBy(on[r])

(***************************************************************************)
(* An intent that was denied, rejected or expired was never claimed: no    *)
(* refusal arrives after a payload was signed, and none is undone by one.  *)
(***************************************************************************)
RefusedNeverClaimed ==
    \A r \in Requests :
        Claimed(r) => status[on[r]] \notin {"DENIED", "REJECTED", "EXPIRED"}

(***************************************************************************)
(* Concurrent requests never reserve more than the spendable balance, nor, *)
(* without an approval, more than the daily limit; a late cancellation can *)
(* break this (it frees a reservation whose payment proceeds) and nothing  *)
(* else can.                                                               *)
(***************************************************************************)
Spending == {i \in Intents : reservation[i] \in Spent}
AutoAllowed == {i \in Spending : approval[i] = "none"}

SpendWithinLimits ==
    overtaken = {} => /\ SumFunctionOnSet(Amount, Spending) <= Balance
                      /\ SumFunctionOnSet(Amount, AutoAllowed) <= Policy.dailyLimit

(***************************************************************************)
(* The intent row and its reservation agree: work in progress or in doubt  *)
(* holds an ACTIVE reservation, a settled intent a SETTLED one, and a      *)
(* refused or definitely failed one holds none.                            *)
(***************************************************************************)
LedgerAgrees ==
    \A i \in Intents \ overtaken :
        /\ status[i] \in {"APPROVAL_PENDING", "AUTHORIZED", "SIGNING", "SUBMISSION_UNKNOWN"}
               => reservation[i] = "ACTIVE"
        /\ status[i] = "SETTLED" => reservation[i] = "SETTLED"
        /\ status[i] \in {"DENIED", "REJECTED", "EXPIRED", "CANCELED", "FAILED_BEFORE_SUBMISSION"}
               => reservation[i] \notin Spent

(***************************************************************************)
(* A settled intent rests on a confirmed settlement of one of its own      *)
(* attempts, whose transaction succeeded on chain and moved the quoted     *)
(* amount - or, when resources misreport, is the one its resource named    *)
(* with a 2xx answer, which the executor believes without looking; a sweep *)
(* believes nobody.  No transaction is credited to two attempts.           *)
(***************************************************************************)
Backed(r) ==
    LET tx == settlement[r].tx IN
    \/ chain[tx] = "success" /\ Amount[on[tx]] = Amount[on[r]]
    \/ Misreports /\ fulfillment[on[r]] = "FULFILLED" /\ tx = report[r]

SettledOnEvidence ==
    /\ \A i \in Intents : status[i] = "SETTLED" =>
           \E r \in Requests : /\ on[r] = i
                               /\ settlement[r].status = "CONFIRMED"
                               /\ Backed(r)
    /\ \A r, s \in Requests :
           settlement[r].tx # None /\ settlement[r].tx = settlement[s].tx => r = s

(***************************************************************************)
(* A settlement found by reconciliation moved the quoted amount.           *)
(***************************************************************************)
ReconciledAmountMatches ==
    \A r \in Requests :
        attempt[r] = "CONFIRMED" /\ fulfillment[on[r]] = "FAILED"
            => Amount[on[settlement[r].tx]] = Amount[on[r]]

(***************************************************************************)
(* The refinement: seen from outside, every step of creation, voting,      *)
(* execution, cancellation, expiry and reconciliation is a step of         *)
(* PaymentPromise or none.  An intent in doubt is still under way; a       *)
(* payload has moved the money when the chain says so, known or not.       *)
(***************************************************************************)
PhaseOf(s) ==
    CASE s = "none" -> "new"
      [] s \in {"APPROVAL_PENDING", "AUTHORIZED"} -> "open"
      [] s \in {"SIGNING", "SUBMISSION_UNKNOWN"} -> "working"
      [] s = "SETTLED" -> "settled"
      [] OTHER -> "refused"

Promised == INSTANCE PaymentPromise WITH
    Payments <- Intents, Payloads <- Requests, Nobody <- None, Honest <- ~Misreports,
    phase <- [i \in Intents |-> PhaseOf(status[i])],
    counted <- {i \in Intents : reservation[i] \in Spent},
    moved <- [r \in Requests |-> IF chain[r] = "success" THEN on[r] ELSE None],
    overtaken <- overtaken

KeepsPromise == Promised!Spec

(***************************************************************************)
(* Liveness, with the sweeps scheduled: a submission in doubt whose        *)
(* candidate the chain has decided is resolved; every submission in doubt  *)
(* is resolved or becomes an incident; a lapsed authorization returns its  *)
(* budget unless a claim holds it.                                         *)
(***************************************************************************)
DecidedSubmissionsResolve ==
    \A r \in Requests, i \in Intents :
        (/\ on[r] = i /\ status[i] = "SUBMISSION_UNKNOWN"
         /\ attempt[r] = "UNKNOWN" /\ candidate[r] # None
         /\ chain[candidate[r]] \in {"success", "failed"})
            ~> (status[i] # "SUBMISSION_UNKNOWN")

DoubtSurfaces ==
    \A i \in Intents :
        status[i] = "SUBMISSION_UNKNOWN"
            ~> (status[i] # "SUBMISSION_UNKNOWN" \/ i \in incident)

LapsedBudgetReturns ==
    \A i \in Intents :
        (i \in expired /\ reservation[i] = "ACTIVE")
            ~> (reservation[i] # "ACTIVE" \/ \E r \in Requests : on[r] = i /\ Claimed(r))
=============================================================================
