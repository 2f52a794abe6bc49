----------------------------- MODULE Automation -----------------------------
(***************************************************************************)
(* Automation rules and their executions                                   *)
(* (dashboard/src/domain/automation-service.ts and its routes): a trigger  *)
(* creates one execution per idempotency key, members approve it, a call   *)
(* claims it and runs its action, a contract call through the facilitator  *)
(* or a payment through createPaidRequest, and sweeps resume payments that *)
(* waited for approval and reconcile contract calls of unknown outcome.    *)
(*                                                                         *)
(* The module has one rule.  A caller is an HTTP request or a pass of a    *)
(* cron sweep: its transactions are atomic, what it keeps between them is  *)
(* its program counter, and it may die at any point.                       *)
(* Payments are seen as the statuses PaymentIntent gives them, those that  *)
(* refuse or fail as CLOSED.                                               *)
(***************************************************************************)
EXTENDS Naturals, FiniteSets

CONSTANTS
    Callers,        \* requests and cron passes
    Jobs,           \* concurrent passes of reconcileUnknownContractExecutions
    Events,         \* idempotency keys of manual, webhook and event triggers
    Users,          \* members allowed to trigger and to decide
    Creator,        \* AutomationRule.createdBy
    None,           \* a null column
    Actions,        \* action types the rule may have
    Thresholds,     \* values approvalThreshold may have
    MaxPerDay,      \* maxExecutionsPerDay; the module covers one day
    MaxSlot,        \* bound: scheduled runs that come due
    MaxVersion      \* bound: versions of the rule

Slots == 1 .. MaxSlot
Executions == Slots \cup Events

ASSUME ConstantsAssumption ==
    /\ Creator \in Users
    /\ None \notin Users \cup Executions
    /\ Actions \subseteq {"CONTRACT_CALL", "X402_PAYMENT"}
    /\ Thresholds \subseteq Nat
    /\ MaxPerDay \in Nat
    /\ MaxSlot \in Nat
    /\ MaxVersion \in Nat /\ MaxVersion > MaxSlot
    /\ IsFiniteSet(Users) /\ IsFiniteSet(Events)

VARIABLES
    rule,         \* AutomationRule: [action, threshold, status, version, next]
    killSwitch,   \* Organization.killSwitchEnabled
    deleted,      \* has the organization been deleted?
    status,       \* AutomationExecution.status, "none" before the row exists
    code,         \* errorCode
    triggeredBy,  \* triggeredByUserId
    approvers,    \* users with an APPROVE AutomationExecutionDecision
    payment,      \* status of the intent with key automation:<execution>
    chain,        \* fate of the contract transaction
    sends,        \* history: calls that handed the transaction over
    aged,         \* executions whose reconciliation wait has passed
    pc, on,       \* where each caller is, and the execution it works on
    seen,         \* what a caller read: rule version and slot
    job           \* what a reconciliation pass observed

rows == <<status, code, triggeredBy, approvers>>
world == <<payment, chain, sends, aged>>
callers == <<pc, on, seen>>
vars == <<rule, killSwitch, deleted, rows, world, callers, job>>

-----------------------------------------------------------------------------
RuleStatus == {"DRAFT", "ACTIVE", "PAUSED", "ARCHIVED"}
AutomationRule ==
    [action : Actions, threshold : Thresholds, status : RuleStatus,
     version : 1 .. MaxVersion, next : 1 .. (MaxSlot + 1)]
ExecutionStatus ==
    {"none", "PENDING", "AWAITING_APPROVAL", "EXECUTING", "SUBMISSION_UNKNOWN",
     "SUCCEEDED", "FAILED", "CANCELED"}
Codes ==
    {"none", "PAYMENT_APPROVAL_PENDING", "APPROVAL_REJECTED", "ORGANIZATION_DELETED",
     "CONTRACT_SUBMISSION_UNKNOWN", "CONTRACT_TRANSACTION_NOT_FOUND",
     "CONTRACT_TRANSACTION_FAILED", "OTHER"}
PaymentState ==
    {"none", "APPROVAL_PENDING", "AUTHORIZED", "SIGNING", "SUBMISSION_UNKNOWN",
     "SETTLED", "CLOSED"}
ChainState == {"unsent", "sent", "success", "failed", "lost"}
Working == {"check", "record", "send", "await", "pay", "judge", "defer",
            "complete", "fail", "unknown"}
ScheduleRead == [version : 1 .. MaxVersion, slot : Slots]
Observation == [execution : Executions, outcome : {"SUCCEEDED", "FAILED", "UNKNOWN"}]

TypeOK ==
    /\ rule \in AutomationRule
    /\ killSwitch \in BOOLEAN /\ deleted \in BOOLEAN
    /\ status \in [Executions -> ExecutionStatus]
    /\ code \in [Executions -> Codes]
    /\ triggeredBy \in [Executions -> Users \cup {None}]
    /\ approvers \in [Executions -> SUBSET Users]
    /\ payment \in [Executions -> PaymentState]
    /\ chain \in [Executions -> ChainState]
    /\ sends \in [Executions -> Nat]
    /\ aged \subseteq Executions
    /\ pc \in [Callers -> {"idle", "schedule", "trigger", "claim"} \cup Working]
    /\ on \in [Callers -> Executions \cup {None}]
    /\ seen \in [Callers -> ScheduleRead \cup {None}]
    /\ job \in [Jobs -> Observation \cup {None}]

Init ==
    /\ rule \in [action : Actions, threshold : Thresholds, status : {"DRAFT"},
                 version : {1}, next : {1}]
    /\ killSwitch = FALSE /\ deleted = FALSE
    /\ status = [e \in Executions |-> "none"]
    /\ code = [e \in Executions |-> "none"]
    /\ triggeredBy = [e \in Executions |-> None]
    /\ approvers = [e \in Executions |-> {}]
    /\ payment = [e \in Executions |-> "none"]
    /\ chain = [e \in Executions |-> "unsent"]
    /\ sends = [e \in Executions |-> 0]
    /\ aged = {}
    /\ pc = [c \in Callers |-> "idle"]
    /\ on = [c \in Callers |-> None]
    /\ seen = [c \in Callers |-> None]
    /\ job = [k \in Jobs |-> None]

-----------------------------------------------------------------------------
Goto(c, label) == pc' = [pc EXCEPT ![c] = label] /\ UNCHANGED <<on, seen>>

Return(c) ==
    /\ pc' = [pc EXCEPT ![c] = "idle"]
    /\ on' = [on EXCEPT ![c] = None]
    /\ seen' = [seen EXCEPT ![c] = None]

\* executeAutomation is entered with the row a transaction returned.
Enter(c, e, row) ==
    IF row = "PENDING"
    THEN pc' = [pc EXCEPT ![c] = "claim"] /\ on' = [on EXCEPT ![c] = e]
         /\ seen' = [seen EXCEPT ![c] = None]
    ELSE Return(c)

-----------------------------------------------------------------------------
(* The rule: its owner, and the deletion of its organization.              *)

\* Bound: versions are left for the scheduled runs to come.
VersionsLeft == rule.version + (MaxSlot + 1 - rule.next) < MaxVersion

\* PATCH with the version the owner names.  Activation reads the kill switch
\* off in a statement of its own, before the update; it is off at first, so
\* whatever it is by now, the request may have read it then.
PatchRule(s) ==
    /\ rule.status # "ARCHIVED"
    /\ VersionsLeft
    /\ rule' = [rule EXCEPT !.status = s, !.version = @ + 1]
    /\ UNCHANGED <<killSwitch, deleted, rows, world, callers, job>>

SetKillSwitch ==
    /\ ~deleted
    /\ killSwitch' = ~killSwitch
    /\ UNCHANGED <<rule, deleted, rows, world, callers, job>>

\* finalizeDeletionRequests: the kill switch goes on, the rule is archived,
\* and what no call has claimed is canceled.
DeleteOrganization ==
    LET waiting == {e \in Executions : status[e] \in {"PENDING", "AWAITING_APPROVAL"}}
    IN /\ ~deleted
       /\ VersionsLeft
       /\ deleted' = TRUE /\ killSwitch' = TRUE
       /\ rule' = IF rule.status = "ARCHIVED" THEN rule
                  ELSE [rule EXCEPT !.status = "ARCHIVED", !.version = @ + 1]
       /\ status' = [e \in Executions |-> IF e \in waiting THEN "CANCELED" ELSE status[e]]
       /\ code' = [e \in Executions |-> IF e \in waiting THEN "ORGANIZATION_DELETED" ELSE code[e]]
       /\ UNCHANGED <<triggeredBy, approvers, world, callers, job>>

-----------------------------------------------------------------------------
(* Triggers.                                                               *)

\* Executions counted against maxExecutionsPerDay.  Mutant: those that
\* finished no longer count.
CountedOpen(e) == status[e] \notin {"none", "CANCELED", "SUCCEEDED", "FAILED"}
CountedToday(e) == status[e] \notin {"none", "CANCELED"}

\* triggerAutomation's serializable transaction: the row of a known key is
\* returned as it is, else the limits are checked and a row created.
TriggerAutomation(c, e, u) ==
    LET first == IF rule.threshold > 0 THEN "AWAITING_APPROVAL" ELSE "PENDING"
    IN /\ rule.status = "ACTIVE"
       /\ \/ /\ status[e] # "none"
             /\ UNCHANGED <<status, triggeredBy>>
          \/ /\ status[e] = "none"
             /\ ~killSwitch
             /\ Cardinality({x \in Executions : CountedToday(x)}) < MaxPerDay
             /\ status' = [status EXCEPT ![e] = first]
             /\ triggeredBy' = [triggeredBy EXCEPT ![e] = u]
       /\ Enter(c, e, status'[e])
       /\ UNCHANGED <<rule, killSwitch, deleted, code, approvers, world, job>>

\* A manual, webhook, balance or invoice trigger; only a member is recorded.
Trigger(c, e, u) ==
    /\ pc[c] = "idle"
    /\ e \in Events
    /\ TriggerAutomation(c, e, u)

\* runScheduledAutomations reads a rule whose run is due ...
ReadSchedule(c) ==
    /\ pc[c] = "idle"
    /\ rule.status = "ACTIVE"
    /\ rule.next \in Slots
    /\ pc' = [pc EXCEPT ![c] = "schedule"]
    /\ seen' = [seen EXCEPT ![c] = [version |-> rule.version, slot |-> rule.next]]
    /\ UNCHANGED <<rule, killSwitch, deleted, rows, world, on, job>>

\* ... takes the run by moving nextRunAt on, if the rule has not changed.
Unchanged(c) == rule.next = seen[c].slot /\ rule.version = seen[c].version

TakeSlot(c) ==
    /\ pc[c] = "schedule"
    /\ IF Unchanged(c)
       THEN /\ rule' = [rule EXCEPT !.next = @ + 1, !.version = @ + 1]
            /\ Goto(c, "trigger")
       ELSE Return(c) /\ UNCHANGED rule
    /\ UNCHANGED <<killSwitch, deleted, rows, world, job>>

\* ... and triggers it with the slot as its key.  A refusal, or the death of
\* the pass, loses the run.
TriggerSlot(c) ==
    /\ pc[c] = "trigger"
    /\ TriggerAutomation(c, seen[c].slot, None)

LoseSlot(c) ==
    /\ pc[c] = "trigger"
    /\ Return(c)
    /\ UNCHANGED <<rule, killSwitch, deleted, rows, world, job>>

-----------------------------------------------------------------------------
(* Decisions.                                                              *)

\* Mutant: only the rule's creator is excluded.
NotCreator(e, u) == Creator # u
AutomationApproverIsIndependent(e, u) == Creator # u /\ triggeredBy[e] # u

\* One decision per member, of an execution that still awaits approval.
Approve(c, e, u) ==
    LET enough == Cardinality(approvers[e] \cup {u}) >= rule.threshold
    IN /\ pc[c] = "idle"
       /\ status[e] = "AWAITING_APPROVAL"
       /\ u \notin approvers[e]
       /\ AutomationApproverIsIndependent(e, u)
       /\ approvers' = [approvers EXCEPT ![e] = @ \cup {u}]
       /\ status' = [status EXCEPT ![e] = IF enough THEN "PENDING" ELSE @]
       /\ Enter(c, e, status'[e])
       /\ UNCHANGED <<rule, killSwitch, deleted, code, triggeredBy, world, job>>

Reject(e, u) ==
    /\ status[e] = "AWAITING_APPROVAL"
    /\ u \notin approvers[e]
    /\ AutomationApproverIsIndependent(e, u)
    /\ status' = [status EXCEPT ![e] = "CANCELED"]
    /\ code' = [code EXCEPT ![e] = "APPROVAL_REJECTED"]
    /\ UNCHANGED <<rule, killSwitch, deleted, triggeredBy, approvers, world, callers, job>>

-----------------------------------------------------------------------------
(* executeAutomation.                                                      *)

\* The guard of the claim.  Mutant: a plain update of an unfinished row.
Unfinished(e) == status[e] \in {"PENDING", "EXECUTING"}
Claimable(e) == status[e] = "PENDING"

Claim(c) ==
    /\ pc[c] = "claim"
    /\ IF Claimable(on[c])
       THEN status' = [status EXCEPT ![on[c]] = "EXECUTING"] /\ Goto(c, "check")
       ELSE Return(c) /\ UNCHANGED status
    /\ UNCHANGED <<rule, killSwitch, deleted, code, triggeredBy, approvers, world, job>>

\* The organization's state, then validateAutomationAction, which may fail.
Check(c) ==
    /\ pc[c] = "check"
    /\ \/ Goto(c, "fail")
       \/ /\ ~killSwitch
          /\ Goto(c, IF rule.action = "CONTRACT_CALL" THEN "record" ELSE "pay")
    /\ UNCHANGED <<rule, killSwitch, deleted, rows, world, job>>

\* The candidate transaction id is stored before the call.
Record(c) ==
    /\ pc[c] = "record"
    /\ Goto(c, "send")
    /\ UNCHANGED <<rule, killSwitch, deleted, rows, world, job>>

\* The facilitator gets the call, or it is lost on the way.
Send(c) ==
    LET e == on[c]
    IN /\ pc[c] = "send"
       /\ \/ /\ chain' = [chain EXCEPT ![e] = IF @ = "unsent" THEN "sent" ELSE @]
             /\ sends' = [sends EXCEPT ![e] = @ + 1]
             /\ Goto(c, "await")
          \/ Goto(c, "unknown") /\ UNCHANGED <<chain, sends>>
       /\ UNCHANGED <<rule, killSwitch, deleted, rows, payment, aged, job>>

\* Its answer: the receipt says SUCCESS; or it refused before submitting; or
\* a timeout, a 5xx or an unreadable body leaves the outcome open.
Await(c) ==
    LET e == on[c]
    IN /\ pc[c] = "await"
       /\ \/ chain[e] = "success" /\ Goto(c, "complete") /\ UNCHANGED chain
          \/ /\ chain[e] = "sent"
             /\ chain' = [chain EXCEPT ![e] = "lost"]
             /\ Goto(c, "fail")
          \/ Goto(c, "unknown") /\ UNCHANGED chain
       /\ UNCHANGED <<rule, killSwitch, deleted, rows, payment, sends, aged, job>>

\* createPaidRequest: the intent is created under the policy, or the one of
\* an earlier run is returned; finding the quote may fail.
Pay(c) ==
    LET e == on[c]
    IN /\ pc[c] = "pay"
       /\ \/ /\ payment[e] = "none"
             /\ \E p \in IF killSwitch THEN {"CLOSED"}
                         ELSE {"APPROVAL_PENDING", "AUTHORIZED", "CLOSED"} :
                    payment' = [payment EXCEPT ![e] = p]
             /\ Goto(c, "judge")
          \/ payment[e] # "none" /\ Goto(c, "judge") /\ UNCHANGED payment
          \/ payment[e] = "none" /\ Goto(c, "fail") /\ UNCHANGED payment
       /\ UNCHANGED <<rule, killSwitch, deleted, rows, chain, sends, aged, job>>

AutomationPaymentOutcome(s) ==
    IF s = "APPROVAL_PENDING" THEN "DEFER"
    ELSE IF s = "SETTLED" THEN "SUCCEED" ELSE "FAIL"

Judge(c) ==
    LET outcome == AutomationPaymentOutcome(payment[on[c]])
    IN /\ pc[c] = "judge"
       /\ Goto(c, CASE outcome = "DEFER" -> "defer"
                    [] outcome = "SUCCEED" -> "complete"
                    [] outcome = "FAIL" -> "fail")
       /\ UNCHANGED <<rule, killSwitch, deleted, rows, world, job>>

\* The final writes name the row by its id alone.
Finish(c, s, why) ==
    /\ status' = [status EXCEPT ![on[c]] = s]
    /\ code' = [code EXCEPT ![on[c]] = IF why = None THEN @ ELSE why]
    /\ Return(c)
    /\ UNCHANGED <<rule, killSwitch, deleted, triggeredBy, approvers, world, job>>

Defer(c) == pc[c] = "defer" /\ Finish(c, "PENDING", "PAYMENT_APPROVAL_PENDING")
MarkUnknown(c) ==
    pc[c] = "unknown" /\ Finish(c, "SUBMISSION_UNKNOWN", "CONTRACT_SUBMISSION_UNKNOWN")
Fail(c) == pc[c] = "fail" /\ Finish(c, "FAILED", "OTHER")

\* The transaction that records success; if it aborts, the catch block runs.
Complete(c) ==
    /\ pc[c] = "complete"
    /\ \/ Finish(c, "SUCCEEDED", None)
       \/ /\ Goto(c, "fail")
          /\ UNCHANGED <<rule, killSwitch, deleted, rows, world, job>>

\* The process dies: the row stays PENDING, or EXECUTING, as it is.
Stop(c) ==
    /\ pc[c] \in Working \cup {"claim"}
    /\ Return(c)
    /\ UNCHANGED <<rule, killSwitch, deleted, rows, world, job>>

-----------------------------------------------------------------------------
(* Sweeps.                                                                 *)

\* What resumeDeferredAutomationPayments selects.  Mutant: it looks for a
\* status a deferred execution never has.
NeverDeferred(e) == status[e] = "AWAITING_APPROVAL" /\ code[e] = "PAYMENT_APPROVAL_PENDING"
Deferred(e) == status[e] = "PENDING" /\ code[e] = "PAYMENT_APPROVAL_PENDING"

Resume(c, e) ==
    /\ pc[c] = "idle"
    /\ rule.status = "ACTIVE"
    /\ Deferred(e)
    /\ Enter(c, e, status[e])
    /\ UNCHANGED <<rule, killSwitch, deleted, rows, world, job>>

\* contractMirrorOutcome, from a mirror that shows a transaction at the latest
\* when the wait has passed.
ContractMirrorOutcome(e) ==
    {outcome \in {"SUCCEEDED", "FAILED", "UNKNOWN"} :
        \/ outcome = "SUCCEEDED" /\ chain[e] = "success"
        \/ outcome = "FAILED" /\ chain[e] = "failed"
        \/ outcome = "UNKNOWN" /\ (e \in aged => chain[e] \notin {"success", "failed"})}

\* A transaction the mirror does not show is given ten minutes.  Mutants: none,
\* or for ever.
AlwaysConclusive(e, outcome) == TRUE
FoundOnly(e, outcome) == outcome # "UNKNOWN"
Conclusive(e, outcome) == outcome # "UNKNOWN" \/ e \in aged

\* What reconcileUnknownContractExecutions selects.
InDoubt(e) == status[e] = "SUBMISSION_UNKNOWN"

Observe(k, e) ==
    /\ job[k] = None
    /\ InDoubt(e)
    /\ \E outcome \in ContractMirrorOutcome(e) :
           /\ Conclusive(e, outcome)
           /\ job' = [job EXCEPT ![k] = [execution |-> e, outcome |-> outcome]]
    /\ UNCHANGED <<rule, killSwitch, deleted, rows, world, callers>>

\* The compare-and-set of its transaction; a row already resolved is left.
Reconcile(k) ==
    LET e == job[k].execution
        found == job[k].outcome
    IN /\ job[k] # None
       /\ job' = [job EXCEPT ![k] = None]
       /\ IF InDoubt(e)
          THEN /\ status' = [status EXCEPT ![e] = IF found = "SUCCEEDED" THEN found ELSE "FAILED"]
               /\ code' = [code EXCEPT ![e] =
                      CASE found = "SUCCEEDED" -> "none"
                        [] found = "FAILED" -> "CONTRACT_TRANSACTION_FAILED"
                        [] found = "UNKNOWN" -> "CONTRACT_TRANSACTION_NOT_FOUND"]
          ELSE UNCHANGED <<status, code>>
       /\ UNCHANGED <<rule, killSwitch, deleted, triggeredBy, approvers, world, callers>>

-----------------------------------------------------------------------------
(* Outside: the chain, the payment of an execution, and time.              *)

ChainDecides(e) ==
    /\ chain[e] = "sent"
    /\ \E fate \in {"success", "failed", "lost"} : chain' = [chain EXCEPT ![e] = fate]
    /\ UNCHANGED <<rule, killSwitch, deleted, rows, payment, sends, aged, callers, job>>

PaymentSteps ==
    [none |-> {}, CLOSED |-> {}, SETTLED |-> {},
     APPROVAL_PENDING |-> {"AUTHORIZED", "CLOSED"},
     AUTHORIZED |-> {"SIGNING", "CLOSED"},
     SIGNING |-> {"SETTLED", "SUBMISSION_UNKNOWN", "CLOSED"},
     SUBMISSION_UNKNOWN |-> {"SETTLED", "CLOSED"}]

PaymentMoves(e) ==
    /\ \E s \in PaymentSteps[payment[e]] : payment' = [payment EXCEPT ![e] = s]
    /\ UNCHANGED <<rule, killSwitch, deleted, rows, chain, sends, aged, callers, job>>

\* Ten minutes since startedAt: a transaction's validity (two minutes) and the
\* call that sent it (thirty seconds) have ended long before.
Elapse(e) ==
    /\ InDoubt(e)
    /\ chain[e] # "sent"
    /\ e \notin aged
    /\ aged' = aged \cup {e}
    /\ UNCHANGED <<rule, killSwitch, deleted, rows, payment, chain, sends, callers, job>>

-----------------------------------------------------------------------------
Proceed(c) ==
    \/ TakeSlot(c) \/ TriggerSlot(c) \/ LoseSlot(c)
    \/ Claim(c) \/ Check(c) \/ Record(c) \/ Send(c) \/ Await(c)
    \/ Pay(c) \/ Judge(c) \/ Defer(c) \/ MarkUnknown(c) \/ Fail(c) \/ Complete(c)

Call(c) ==
    \/ ReadSchedule(c)
    \/ \E e \in Executions, u \in Users \cup {None} : Trigger(c, e, u)
    \/ \E e \in Executions, u \in Users : Approve(c, e, u)
    \/ \E e \in Executions : Resume(c, e)

Next ==
    \/ \E c \in Callers : Call(c) \/ Proceed(c) \/ Stop(c)
    \/ \E e \in Executions, u \in Users : Reject(e, u)
    \/ \E k \in Jobs : Reconcile(k) \/ \E e \in Executions : Observe(k, e)
    \/ \E e \in Executions : ChainDecides(e) \/ PaymentMoves(e) \/ Elapse(e)
    \/ \E s \in {"ACTIVE", "PAUSED", "ARCHIVED"} : PatchRule(s)
    \/ SetKillSwitch \/ DeleteOrganization

Spec == Init /\ [][Next]_vars

\* Calls run to their end unless they die, which they do not each time at the
\* same claim; the chain decides, time passes, and each pass of the sweeps
\* takes every execution it finds.
FairSpec ==
    /\ Spec
    /\ \A c \in Callers : WF_vars(Proceed(c))
    /\ \A k \in Jobs : WF_vars(Reconcile(k)) /\ WF_vars(\E e \in Executions : Observe(k, e))
    /\ \A e \in Executions : /\ SF_vars(\E c \in Callers : Resume(c, e))
                             /\ SF_vars(\E c \in Callers : on[c] = e /\ Claim(c))
                             /\ WF_vars(ChainDecides(e)) /\ WF_vars(Elapse(e))

-----------------------------------------------------------------------------
(* Properties.                                                             *)

Submitted(e) == sends[e] > 0 \/ payment[e] # "none"

(***************************************************************************)
(* An execution's contract call is handed over at most once: no repeated   *)
(* trigger, decision, resumption or reconciliation sends it again, not     *)
(* even when its first caller died or its outcome is unknown.              *)
(***************************************************************************)
SentOnce == \A e \in Executions : sends[e] <= 1

(***************************************************************************)
(* Nothing leaves for an execution under approval before enough members    *)
(* other than the rule's creator and the one who triggered it approved,    *)
(* and no contract call ever belongs to a canceled execution.              *)
(***************************************************************************)
ApprovedIndependently ==
    \A e \in Executions :
        /\ Submitted(e) => /\ Cardinality(approvers[e]) >= rule.threshold
                           /\ approvers[e] \cap {Creator, triggeredBy[e]} = {}
        /\ status[e] = "CANCELED" => sends[e] = 0

(***************************************************************************)
(* Overlapping triggers never exceed the rule's daily number of            *)
(* submissions; only executions that submitted nothing leave the count.    *)
(* (An organization's deletion ends the rule, so what it cancels is moot.) *)
(***************************************************************************)
DailyLimitHolds == Cardinality({e \in Executions : Submitted(e)}) <= MaxPerDay

(***************************************************************************)
(* SUCCEEDED is the chain's word or a settled payment.  A contract call    *)
(* reported as failed on chain or as never found did not and will not      *)
(* take effect: an empty mirror answer is believed only once the           *)
(* transaction can no longer run.                                          *)
(***************************************************************************)
OutcomeIsTrue ==
    \A e \in Executions :
        /\ status[e] = "SUCCEEDED" => chain[e] = "success" \/ payment[e] = "SETTLED"
        /\ code[e] \in {"CONTRACT_TRANSACTION_NOT_FOUND", "CONTRACT_TRANSACTION_FAILED"}
               => chain[e] \notin {"sent", "success"}

(***************************************************************************)
(* A finished execution stays as it is, although its final writes name it  *)
(* by id alone: one call works on it at a time.                            *)
(***************************************************************************)
FinishedStays ==
    [][\A e \in Executions :
           status[e] \in {"SUCCEEDED", "FAILED", "CANCELED"} => status'[e] = status[e]]_vars

(***************************************************************************)
(* A scheduled run is taken only while the rule is active, although a pass *)
(* reads the rule before it takes the run.                                 *)
(***************************************************************************)
SlotsTakenWhileActive == [][rule'.next # rule.next => rule.status = "ACTIVE"]_vars

(***************************************************************************)
(* A contract call in doubt is resolved.                                   *)
(***************************************************************************)
DoubtResolves == \A e \in Executions : InDoubt(e) ~> ~InDoubt(e)

(***************************************************************************)
(* An execution that waits for its payment's approval is taken up once the *)
(* payment was decided, as long as its rule is active.                     *)
(***************************************************************************)
DeferredResumes ==
    \A e \in Executions :
        (status[e] = "PENDING" /\ code[e] = "PAYMENT_APPROVAL_PENDING"
            /\ payment[e] # "APPROVAL_PENDING")
            ~> (status[e] # "PENDING" \/ rule.status # "ACTIVE")
=============================================================================
