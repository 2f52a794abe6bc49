---------------------------- MODULE CardPurchase ----------------------------
(***************************************************************************)
(* Autonomous purchases on one virtual card: the agent's request, its      *)
(* approval, the lease an external executor takes on it, the checkpoint    *)
(* before card credentials enter the merchant's page, and the card         *)
(* provider's authorizations (dashboard/src/domain/card-autonomy-*.ts,     *)
(* card-authorization-service.ts, card-executor/src).                      *)
(*                                                                         *)
(* Each database transaction is a step; what a handler or an executor read *)
(* before is kept in its program counter.  All authorizations fall in one  *)
(* spending window.                                                        *)
(***************************************************************************)
EXTENDS Integers, FiniteSets, Sequences, Functions

CONSTANTS
    Purchases,        \* autonomous_card_purchase rows (one per idempotency key)
    Executors,        \* workers of the card executor
    Auths,            \* authorizations the card provider asks for
    None,             \* a null column
    Amount,           \* amount_minor of each purchase
    ChargeAmounts,    \* amounts merchants ask for
    OtherCharges,     \* is the card also charged outside purchases?
    SpendingLimit,    \* VirtualCard.spendingLimitMinor
    AutoLimit,        \* per_purchase_auto_limit_minor
    OverLimitAction,  \* over_limit_action
    MaxAttempts,      \* CARD_EXECUTOR_MAX_ATTEMPTS
    MaxPolicyVersion  \* bound: updates of the autonomy policy

\* LIMITED and MERCHANT_ALLOWLIST differ from BROAD by the hosts they allow.
Modes == {"DISABLED", "BROAD", "APPROVAL_REQUIRED"}

ASSUME CardConstants ==
    /\ IsFiniteSet(Purchases)
    /\ IsFiniteSet(Auths)
    /\ Amount \in [Purchases -> Nat \ {0}]
    /\ ChargeAmounts \subseteq Nat \ {0}
    /\ OtherCharges \in BOOLEAN
    /\ SpendingLimit \in Nat
    /\ AutoLimit \in Nat
    /\ OverLimitAction \in {"DENY", "REQUIRE_APPROVAL"}
    /\ MaxAttempts \in Nat \ {0}
    /\ MaxPolicyVersion \in Nat \ {0}
    /\ None \notin Purchases \cup Executors \cup Auths

VARIABLES
    status,        \* autonomous_card_purchase.status ("none": no row)
    attempts,      \* executor_attempt; its value names the lease token
    lease,         \* lease_token (0: null)
    live,          \* purchases whose lease_expires_at has not passed
    submitted,     \* purchases with submission_started_at set
    bound,         \* card_authorization_id
    decided,       \* policy_version a purchase was evaluated under
    intent,        \* PaymentIntent.status of the purchase
    request,       \* the creating call: what it will insert
    resume,        \* the decision route after its transaction
    canceling,     \* cancel routes between their read and their write
    policy,        \* card_autonomy_policy: [version, mode]
    halted,        \* is the agent, or else the card or its organization, stopped?
    pc, task,      \* executors: where they are, and [purchase, token] they hold
    charge,        \* what a merchant asked the provider for: [purchase, amount]
    provider,      \* the provider's own state of an authorization
    row,           \* CardAuthorization: [status, approved]
    due,           \* webhook calls between their two transactions
    recent,        \* purchases whose checkpoint is at most 30 minutes old, oldest first
    near,          \* those with a checkpoint from 30 minutes before an authorization's
                   \* requestedAt to 5 minutes after it
    exposed        \* history: leases whose credentials entered a merchant page

purchaseRows == <<status, attempts, lease, live, submitted, bound, decided>>
calls == <<request, resume, canceling>>
settings == <<policy, halted>>
executors == <<pc, task, exposed>>
clock == <<recent, near>>
provision == <<charge, provider, row, due, clock>>
vars == <<purchaseRows, intent, calls, settings, executors, provision>>

-----------------------------------------------------------------------------
PurchaseStatus ==
    {"none", "APPROVAL_PENDING", "READY", "EXECUTING", "REQUIRES_HUMAN",
     "CHECKOUT_SUCCEEDED", "CHECKOUT_FAILED", "CANCELED", "REJECTED"}
IntentStatus ==
    {"none", "APPROVAL_PENDING", "AUTHORIZED", "SUBMITTED", "SUBMISSION_UNKNOWN", "SETTLED",
     "SETTLEMENT_FAILED", "FAILED_BEFORE_SUBMISSION", "CANCELED", "REJECTED", "EXPIRED"}
NoTask == [purchase |-> None, token |-> 0]
NoCharge == [purchase |-> None, amount |-> 0]
NoRow == [status |-> "none", approved |-> FALSE]
Row == [status : {"none", "APPROVED", "DECLINED", "CLOSED", "REVERSED"}, approved : BOOLEAN]

TypeOK ==
    /\ status \in [Purchases -> PurchaseStatus]
    /\ attempts \in [Purchases -> 0 .. MaxAttempts]
    /\ lease \in [Purchases -> 0 .. MaxAttempts]
    /\ live \subseteq Purchases
    /\ submitted \subseteq Purchases
    /\ bound \in [Purchases -> Auths \cup {None}]
    /\ decided \in [Purchases -> 1 .. MaxPolicyVersion]
    /\ intent \in [Purchases -> IntentStatus]
    /\ request \in [Purchases -> {"none", "READY", "APPROVAL_PENDING"}]
    /\ resume \in [Purchases -> {"none", "check", "ready", "give up", "reject"}]
    /\ canceling \subseteq Purchases
    /\ policy \in [version : 1 .. MaxPolicyVersion, mode : Modes]
    /\ halted \in {"nothing", "agent", "card"}
    /\ pc \in [Executors -> {"idle", "materialize", "revoke", "browse", "mark", "enter",
                             "checkout", "failed"}]
    /\ task \in [Executors -> [purchase : Purchases \cup {None}, token : 0 .. MaxAttempts]]
    /\ charge \in [Auths -> [purchase : Purchases \cup {None}, amount : ChargeAmounts \cup {0}]]
    /\ provider \in [Auths -> {"none", "requested", "pending", "declined", "closed", "reversed"}]
    /\ row \in [Auths -> Row]
    /\ due \subseteq Auths
    /\ recent \in Seq(Purchases)
    /\ near \in [Auths -> SUBSET Purchases]
    /\ exposed \subseteq Purchases \X (1 .. MaxAttempts)

Init ==
    /\ status = [p \in Purchases |-> "none"]
    /\ attempts = [p \in Purchases |-> 0]
    /\ lease = [p \in Purchases |-> 0]
    /\ live = {}
    /\ submitted = {}
    /\ bound = [p \in Purchases |-> None]
    /\ decided = [p \in Purchases |-> 1]
    /\ intent = [p \in Purchases |-> "none"]
    /\ request = [p \in Purchases |-> "none"]
    /\ resume = [p \in Purchases |-> "none"]
    /\ canceling = {}
    /\ policy = [version |-> 1, mode |-> "BROAD"]
    /\ halted = "nothing"
    /\ pc = [w \in Executors |-> "idle"]
    /\ task = [w \in Executors |-> NoTask]
    /\ charge = [a \in Auths |-> NoCharge]
    /\ provider = [a \in Auths |-> "none"]
    /\ row = [a \in Auths |-> NoRow]
    /\ due = {}
    /\ recent = <<>>
    /\ near = [a \in Auths |-> {}]
    /\ exposed = {}

-----------------------------------------------------------------------------
(* What the card has committed, and what its policy says of a purchase.    *)

\* Mutant: captured money is forgotten.
HeldAuths == {a \in Auths : row[a].approved /\ row[a].status = "APPROVED"}
ApprovedAuths == {a \in Auths : row[a].approved /\ row[a].status \in {"APPROVED", "CLOSED"}}
ChargeAmount == [a \in Auths |-> charge[a].amount]

\* sumReservedCardPurchases.
Reserved(p) == status[p] \in {"READY", "EXECUTING"}

\* evaluateCardAuthorization of an amount, leaving out the purchase it pays
\* and its own authorization.
CardApproves(amount, p, a) ==
    /\ halted # "card"
    /\ amount + SumFunctionOnSet(ChargeAmount, ApprovedAuths \ {a})
              + SumFunctionOnSet(Amount, {q \in Purchases \ {p} : Reserved(q)})
         <= SpendingLimit

\* evaluateCardAutonomy; every host is allowed here.
Autonomy(p) ==
    IF policy.mode = "DISABLED" \/ ~CardApproves(Amount[p], p, None) THEN "DENY"
    ELSE IF policy.mode = "APPROVAL_REQUIRED" THEN "REQUIRE_APPROVAL"
    ELSE IF Amount[p] > AutoLimit THEN OverLimitAction
    ELSE "ALLOW"

\* materializeLeasedCardPurchase's checks.
Usable(p) ==
    /\ halted = "nothing"
    /\ policy.version = decided[p]
    /\ Autonomy(p) # "DENY"

\* updateMany({where: {status: from}}) on the intent of a purchase.
MoveIntent(p, from, to) ==
    intent' = [intent EXCEPT ![p] = IF @ \in from THEN to ELSE @]

-----------------------------------------------------------------------------
(* Creation and approval.                                                  *)

\* createAutonomousCardPurchase evaluates the policy outside any transaction ...
Evaluate(p) ==
    /\ status[p] = "none"
    /\ request[p] = "none"
    /\ halted = "nothing"
    /\ Autonomy(p) # "DENY"
    /\ request' = [request EXCEPT ![p] =
                       IF Autonomy(p) = "ALLOW" THEN "READY" ELSE "APPROVAL_PENDING"]
    /\ decided' = [decided EXCEPT ![p] = policy.version]
    /\ UNCHANGED <<status, attempts, lease, live, submitted, bound, intent, resume,
                   canceling, settings, executors, provision>>

\* ... and createCardPurchaseRecord inserts what that decided.
Create(p) ==
    /\ request[p] # "none"
    /\ status' = [status EXCEPT ![p] = request[p]]
    /\ intent' = [intent EXCEPT ![p] = IF request[p] = "READY" THEN "AUTHORIZED"
                                       ELSE "APPROVAL_PENDING"]
    /\ request' = [request EXCEPT ![p] = "none"]
    /\ UNCHANGED <<attempts, lease, live, submitted, bound, decided, resume, canceling,
                   settings, executors, provision>>

\* The decision route's transaction; one vote decides a card purchase.
Decide(p, vote) ==
    /\ intent[p] = "APPROVAL_PENDING"
    /\ intent' = [intent EXCEPT ![p] = IF vote = "APPROVE" THEN "AUTHORIZED" ELSE "REJECTED"]
    /\ resume' = [resume EXCEPT ![p] = IF vote = "APPROVE" THEN "check" ELSE "reject"]
    /\ UNCHANGED <<purchaseRows, request, canceling, settings, executors, provision>>

\* resumeApprovedCardPurchase: what it reads ...
Resume(p) ==
    /\ resume[p] = "check"
    /\ resume' = [resume EXCEPT ![p] =
                      IF status[p] # "APPROVAL_PENDING" \/ halted # "nothing" THEN "none"
                      ELSE IF Usable(p) THEN "ready" ELSE "give up"]
    /\ UNCHANGED <<purchaseRows, intent, request, canceling, settings, executors, provision>>

\* ... and what it writes: the authorization is given up, the purchase is
\* made READY, or (rejectAutonomousCardPurchase) it is rejected.
ResumeWrite(p) ==
    LET to == IF resume[p] = "ready" THEN "READY" ELSE "REJECTED" IN
    /\ resume[p] \in {"ready", "give up", "reject"}
    /\ resume' = [resume EXCEPT ![p] = "none"]
    /\ IF resume[p] = "give up"
       THEN MoveIntent(p, {"AUTHORIZED"}, "CANCELED") /\ UNCHANGED status
       ELSE /\ status' = [status EXCEPT ![p] = IF @ = "APPROVAL_PENDING" THEN to ELSE @]
            /\ UNCHANGED intent
    /\ UNCHANGED <<attempts, lease, live, submitted, bound, decided, request, canceling,
                   settings, executors, provision>>

\* The cancel route reads the intent, then writes CANCELED unconditionally;
\* it knows nothing of the purchase.
CancelRead(p) ==
    /\ intent[p] \in {"APPROVAL_PENDING", "AUTHORIZED"}
    /\ p \notin canceling
    /\ canceling' = canceling \cup {p}
    /\ UNCHANGED <<purchaseRows, intent, request, resume, settings, executors, provision>>

CancelWrite(p) ==
    /\ p \in canceling
    /\ canceling' = canceling \ {p}
    /\ intent' = [intent EXCEPT ![p] = "CANCELED"]
    /\ UNCHANGED <<purchaseRows, request, resume, settings, executors, provision>>

\* expireIntent of the maintenance job, once the approval request lapsed, even
\* if a vote authorized the intent after the job saw it pending.
ExpireIntent(p) ==
    /\ \/ intent[p] = "APPROVAL_PENDING"
       \/ intent[p] = "AUTHORIZED" /\ resume[p] # "none"
    /\ intent' = [intent EXCEPT ![p] = "EXPIRED"]
    /\ UNCHANGED <<purchaseRows, calls, settings, executors, provision>>

-----------------------------------------------------------------------------
(* Settings.                                                               *)

\* The purchases a disabled policy cancels.  Mutant: the checkpoint is not
\* looked at.
CancelsAll(p) == status[p] \in {"READY", "APPROVAL_PENDING", "EXECUTING"}
CancelsUnsubmitted(p) ==
    \/ status[p] \in {"READY", "APPROVAL_PENDING"}
    \/ status[p] = "EXECUTING" /\ p \notin submitted

\* putCardAutonomyPolicySafely: a new version; DISABLED also stops every
\* purchase, and one past its checkpoint becomes ambiguous.
PutPolicy(mode) ==
    LET canceled == {p \in Purchases : mode = "DISABLED" /\ CancelsUnsubmitted(p)}
        ambiguous == {p \in Purchases \ canceled : mode = "DISABLED" /\ status[p] = "EXECUTING"}
    IN /\ policy.version < MaxPolicyVersion
       /\ policy' = [version |-> policy.version + 1, mode |-> mode]
       /\ status' = [p \in Purchases |-> IF p \in canceled THEN "CANCELED"
                                         ELSE IF p \in ambiguous THEN "REQUIRES_HUMAN" ELSE status[p]]
       /\ lease' = [p \in Purchases |-> IF p \in canceled \cup ambiguous THEN 0 ELSE lease[p]]
       /\ live' = live \ (canceled \cup ambiguous)
       /\ intent' = [p \in Purchases |->
              IF p \in canceled /\ intent[p] \in {"AUTHORIZED", "APPROVAL_PENDING"} THEN "CANCELED"
              ELSE IF p \in ambiguous /\ intent[p] = "AUTHORIZED" THEN "SUBMISSION_UNKNOWN"
              ELSE intent[p]]
       /\ UNCHANGED <<attempts, submitted, bound, decided, calls, halted, executors, provision>>

\* The kill switch, agent status and card status routes.
SetHalted ==
    /\ \E what \in {"nothing", "agent", "card"} \ {halted} : halted' = what
    /\ UNCHANGED <<purchaseRows, intent, calls, policy, executors, provision>>

-----------------------------------------------------------------------------
(* Leases.                                                                 *)

\* The compare-and-set of every executor call: its token, still leased.
Holds(w) ==
    LET p == task[w].purchase IN
    status[p] = "EXECUTING" /\ lease[p] = task[w].token /\ p \in live

Release(w) ==
    /\ pc' = [pc EXCEPT ![w] = "idle"]
    /\ task' = [task EXCEPT ![w] = NoTask]

Goto(w, label) == pc' = [pc EXCEPT ![w] = label] /\ UNCHANGED task

\* Executions whose lease ran out after the checkpoint.  Mutant: only those
\* with an attempt left.
StaleRetryable ==
    {p \in Purchases : status[p] = "EXECUTING" /\ p \notin live /\ p \in submitted
                           /\ attempts[p] < MaxAttempts}
Stale == {p \in Purchases : status[p] = "EXECUTING" /\ p \notin live /\ p \in submitted}

\* What may be leased (again).  Mutant: attempts are not limited.
LeasableForever(p) ==
    status[p] = "READY" \/ (status[p] = "EXECUTING" /\ p \notin live /\ p \notin submitted)
Leasable(p) ==
    /\ \/ status[p] = "READY"
       \/ status[p] = "EXECUTING" /\ p \notin live /\ p \notin submitted
    /\ attempts[p] < MaxAttempts

\* At most one purchase of a card is executed at a time.  Mutant: not checked.
CardShared(p) == TRUE
CardFree(p) == \A q \in Purchases \ {p} : ~(status[q] = "EXECUTING" /\ q \in live)

\* leaseCrashSafeCardPurchase: stale executions go to a human, then one
\* purchase is leased (the code takes the oldest).
Lease(w) ==
    LET candidates == {p \in Purchases : Leasable(p) /\ CardFree(p)}
        swept == [p \in Purchases |-> IF p \in Stale THEN "REQUIRES_HUMAN" ELSE status[p]]
        unleased == [p \in Purchases |-> IF p \in Stale THEN 0 ELSE lease[p]]
    IN /\ pc[w] = "idle"
       /\ \/ /\ candidates = {}
             /\ status' = swept
             /\ lease' = unleased
             /\ UNCHANGED <<attempts, live, pc, task>>
          \/ \E p \in candidates :
                /\ status' = [swept EXCEPT ![p] = "EXECUTING"]
                /\ attempts' = [attempts EXCEPT ![p] = @ + 1]
                /\ lease' = [unleased EXCEPT ![p] = attempts[p] + 1]
                /\ live' = live \cup {p}
                /\ task' = [task EXCEPT ![w] = [purchase |-> p, token |-> attempts[p] + 1]]
                /\ pc' = [pc EXCEPT ![w] = "materialize"]
       /\ UNCHANGED <<submitted, bound, decided, intent, calls, settings, provision, exposed>>

\* The lease route evaluates the purchase again before it hands it out.
Materialize(w) ==
    /\ pc[w] = "materialize"
    /\ Goto(w, IF Usable(task[w].purchase) THEN "browse" ELSE "revoke")
    /\ UNCHANGED <<purchaseRows, intent, calls, settings, provision, exposed>>

\* cancelLeasedCardPurchaseSafely: its status, by the checkpoint.
Revoke(w) ==
    LET p == task[w].purchase
        owned == status[p] = "EXECUTING" /\ lease[p] = task[w].token
        ambiguous == p \in submitted
    IN /\ pc[w] = "revoke"
       /\ IF owned
          THEN /\ status' = [status EXCEPT ![p] = IF ambiguous THEN "REQUIRES_HUMAN" ELSE "CANCELED"]
               /\ lease' = [lease EXCEPT ![p] = 0]
               /\ live' = live \ {p}
               /\ MoveIntent(p, {"AUTHORIZED"}, IF ambiguous THEN "SUBMISSION_UNKNOWN" ELSE "CANCELED")
          ELSE UNCHANGED <<status, lease, live, intent>>
       /\ Release(w)
       /\ UNCHANGED <<attempts, submitted, bound, decided, calls, settings, provision, exposed>>

\* validateCardExecutorLease, for a heartbeat or the checkpoint.
Validate(w) ==
    LET p == task[w].purchase IN
    /\ pc[w] = "browse"
    /\ Goto(w, IF ~Holds(w) THEN "failed"
               ELSE IF p \in submitted \/ Usable(p) THEN "mark" ELSE "revoke")
    /\ UNCHANGED <<purchaseRows, intent, calls, settings, provision, exposed>>

\* markCardPurchaseSubmitting, the checkpoint; its answer may be lost.
\* Mutant: the row is updated by its id and status only.
MarkableById(w) == status[task[w].purchase] = "EXECUTING"
Markable(w) == Holds(w) /\ task[w].purchase \notin submitted

\* What was requested in the last five minutes, and is yet to be recorded, has
\* it near.
Mark(w) ==
    LET p == task[w].purchase IN
    /\ pc[w] = "mark"
    /\ IF Markable(w)
       THEN /\ submitted' = submitted \cup {p}
            /\ recent' = Append(recent, p)
            /\ \E lately \in SUBSET {a \in Auths : provider[a] # "none" /\ row[a] = NoRow} :
                   near' = [a \in Auths |-> IF a \in lately THEN near[a] \cup {p} ELSE near[a]]
            /\ Goto(w, "enter") \/ Goto(w, "failed")
       ELSE Goto(w, "failed") /\ UNCHANGED <<submitted, clock>>
    /\ UNCHANGED <<status, attempts, lease, live, bound, decided, intent, calls, settings,
                   charge, provider, row, due, exposed>>

\* The executor types the card's secrets into the merchant's page.
Enter(w) ==
    /\ pc[w] = "enter"
    /\ exposed' = exposed \cup {<<task[w].purchase, task[w].token>>}
    /\ Goto(w, "checkout")
    /\ UNCHANGED <<purchaseRows, intent, calls, settings, provision>>

\* What executeTask reports, by whether it recorded the checkpoint.
Results(w) ==
    {result \in {"CHECKOUT_SUCCEEDED", "CHECKOUT_FAILED", "REQUIRES_HUMAN"} :
        \/ result = "CHECKOUT_SUCCEEDED" /\ pc[w] \in {"browse", "checkout"}
        \/ result = "CHECKOUT_FAILED" /\ pc[w] \in {"browse", "failed"}
        \/ result = "REQUIRES_HUMAN" /\ pc[w] \in {"browse", "enter", "checkout"}}

\* The status a reported result is worth.
EffectiveStatus(p, result) ==
    IF result = "CHECKOUT_SUCCEEDED" /\ p \notin submitted THEN "REQUIRES_HUMAN"
    ELSE IF result = "CHECKOUT_FAILED" /\ p \in submitted THEN "REQUIRES_HUMAN"
    ELSE result

\* The complete route (success needs an authorization it has seen bound) and
\* completeLeasedCardPurchaseSafely.
Complete(w, result, seen) ==
    LET p == task[w].purchase
        to == EffectiveStatus(p, IF result = "CHECKOUT_SUCCEEDED" /\ ~seen
                                 THEN "REQUIRES_HUMAN" ELSE result)
    IN /\ result \in Results(w)
       /\ seen => bound[p] # None
       /\ IF Holds(w)
          THEN /\ status' = [status EXCEPT ![p] = to]
               /\ lease' = [lease EXCEPT ![p] = 0]
               /\ live' = live \ {p}
               /\ CASE to = "CHECKOUT_SUCCEEDED" -> MoveIntent(p, {"AUTHORIZED"}, "SUBMITTED")
                    [] to = "CHECKOUT_FAILED" -> MoveIntent(p, {"AUTHORIZED"}, "FAILED_BEFORE_SUBMISSION")
                    [] OTHER -> IF p \in submitted
                                THEN MoveIntent(p, {"AUTHORIZED", "SUBMITTED"}, "SUBMISSION_UNKNOWN")
                                ELSE UNCHANGED intent
          ELSE UNCHANGED <<status, lease, live, intent>>
       /\ Release(w)
       /\ UNCHANGED <<attempts, submitted, bound, decided, calls, settings, provision, exposed>>

\* An executor dies, or its last call is lost.
Stop(w) ==
    /\ pc[w] # "idle"
    /\ Release(w)
    /\ UNCHANGED <<purchaseRows, intent, calls, settings, provision, exposed>>

LeaseExpires(p) ==
    /\ p \in live
    /\ live' = live \ {p}
    /\ UNCHANGED <<status, attempts, lease, submitted, bound, decided, intent, calls, settings,
                   executors, provision>>

-----------------------------------------------------------------------------
(* The card provider and its webhook.                                      *)

Exposed(p) == \E t \in 1 .. MaxAttempts : <<p, t>> \in exposed

\* A merchant asks for money: once for a purchase whose credentials it was
\* given, or for something else the card pays.  It declines what is not
\* answered in time.
Charge(a, p, n) ==
    /\ provider[a] = "none"
    /\ IF p = None THEN OtherCharges
       ELSE Exposed(p) /\ \A b \in Auths : charge[b].purchase # p
    /\ charge' = [charge EXCEPT ![a] = [purchase |-> p, amount |-> n]]
    /\ provider' = [provider EXCEPT ![a] = "requested"]
    /\ near' = [near EXCEPT ![a] = Range(recent)]
    /\ UNCHANGED <<purchaseRows, intent, calls, settings, executors, row, due, recent>>

\* Half an hour passed since a checkpoint.
WindowCloses ==
    /\ recent # <<>>
    /\ recent' = Tail(recent)
    /\ UNCHANGED <<purchaseRows, intent, calls, settings, executors, charge, provider, row, due,
                   near>>

ProviderDeclines(a) ==
    /\ provider[a] = "requested"
    /\ provider' = [provider EXCEPT ![a] = "declined"]
    /\ UNCHANGED <<purchaseRows, intent, calls, settings, executors, charge, row, due, clock>>

ProviderFinishes(a) ==
    /\ provider[a] = "pending"
    /\ \E end \in {"closed", "reversed"} : provider' = [provider EXCEPT ![a] = end]
    /\ UNCHANGED <<purchaseRows, intent, calls, settings, executors, charge, row, due, clock>>

\* Purchases an authorization may belong to: past the checkpoint at about the
\* time it was requested, unbound.
Awaiting(a) ==
    {p \in submitted \cap near[a] :
        status[p] \in {"EXECUTING", "REQUIRES_HUMAN"} /\ bound[p] = None}

\* The purchase it is taken to pay.  Mutant: the first of several.
FirstCandidate(S) == IF S = {} THEN None ELSE CHOOSE p \in S : TRUE
OnlyCandidate(S) == IF Cardinality(S) = 1 THEN CHOOSE p \in S : TRUE ELSE None

\* recordCardAuthorization, for the request and the created event; under the
\* card's advisory lock.  The answer may come too late for the provider.
RecordAuthorization(a) ==
    LET only == OnlyCandidate(Awaiting(a))
        approved == /\ Cardinality(Awaiting(a)) <= 1
                    /\ CardApproves(charge[a].amount, only, a)
                    /\ only # None => Amount[only] = charge[a].amount
        answer == IF approved THEN "pending" ELSE "declined"
    IN /\ provider[a] \in {"requested", "declined"}
       /\ row[a] = NoRow
       /\ row' = [row EXCEPT ![a] = IF approved THEN [status |-> "APPROVED", approved |-> TRUE]
                                    ELSE [status |-> "DECLINED", approved |-> FALSE]]
       /\ bound' = IF only = None THEN bound ELSE [bound EXCEPT ![only] = a]
       /\ due' = due \cup {a}
       /\ provider' = [provider EXCEPT ![a] = IF @ = "requested" THEN answer ELSE @]
       /\ UNCHANGED <<status, attempts, lease, live, submitted, decided, intent, calls, settings,
                      executors, charge, clock>>

\* What authorization.updated events say, late ones included.
Sent(a) ==
    {event \in Row :
        \/ event = [status |-> "APPROVED", approved |-> TRUE]
               /\ provider[a] \in {"pending", "closed", "reversed"}
        \/ event = [status |-> "CLOSED", approved |-> TRUE] /\ provider[a] = "closed"
        \/ event = [status |-> "REVERSED", approved |-> TRUE] /\ provider[a] = "reversed"
        \/ event = [status |-> "CLOSED", approved |-> FALSE] /\ provider[a] = "declined"}

\* The webhook's update of an existing row, in whatever order events arrive.
UpdateAuthorization(a) ==
    /\ row[a] # NoRow
    /\ \E event \in Sent(a) : row' = [row EXCEPT ![a] = event]
    /\ due' = due \cup {a}
    /\ UNCHANGED <<purchaseRows, intent, calls, settings, executors, charge, provider, clock>>

\* The statuses reconciliation may move an intent from.
OpenIntent == {"AUTHORIZED", "SUBMITTED", "SUBMISSION_UNKNOWN"}

\* When provider state settles a purchase.  Mutant: a closed authorization is
\* a captured one, whether it was approved or not.
CapturedIfClosed(a) == row[a].status = "CLOSED"
Captured(a) == row[a].approved /\ row[a].status = "CLOSED"

\* reconcileAutonomousCardAuthorization: the second transaction of a webhook.
ReconcileAuthorization(a) ==
    LET owner == {p \in Purchases : bound[p] = a}
        failed == ~row[a].approved \/ row[a].status \in {"DECLINED", "REVERSED"}
        finish(p, to) ==
            IF status[p] \in {"EXECUTING", "REQUIRES_HUMAN", "CHECKOUT_SUCCEEDED"}
            THEN /\ status' = [status EXCEPT ![p] = to]
                 /\ lease' = [lease EXCEPT ![p] = 0]
                 /\ live' = live \ {p}
            ELSE UNCHANGED <<status, lease, live>>
    IN /\ a \in due
       /\ due' = due \ {a}
       /\ \/ owner = {} /\ UNCHANGED <<status, lease, live, intent>>
          \/ \E p \in owner :
                \/ /\ Captured(a)
                   /\ finish(p, "CHECKOUT_SUCCEEDED")
                   /\ MoveIntent(p, OpenIntent, "SETTLED")
                \/ /\ ~Captured(a) /\ failed
                   /\ finish(p, "CHECKOUT_FAILED")
                   /\ MoveIntent(p, OpenIntent, "SETTLEMENT_FAILED")
                \/ /\ ~Captured(a) /\ ~failed
                   /\ UNCHANGED <<status, lease, live>>
                   /\ MoveIntent(p, OpenIntent \ {"SUBMITTED"}, "SUBMITTED")
       /\ UNCHANGED <<attempts, submitted, bound, decided, calls, settings, executors, charge,
                      provider, row, clock>>

-----------------------------------------------------------------------------
Purchase(p) ==
    \/ Evaluate(p) \/ Create(p) \/ Resume(p) \/ ResumeWrite(p)
    \/ \E vote \in {"APPROVE", "REJECT"} : Decide(p, vote)
    \/ CancelRead(p) \/ CancelWrite(p) \/ ExpireIntent(p) \/ LeaseExpires(p)

Work(w) ==
    \/ Materialize(w) \/ Revoke(w) \/ Validate(w) \/ Mark(w) \/ Enter(w)
    \/ \E result \in {"CHECKOUT_SUCCEEDED", "CHECKOUT_FAILED", "REQUIRES_HUMAN"}, seen \in BOOLEAN :
           Complete(w, result, seen)

Authorize(a) ==
    \/ \E p \in Purchases \cup {None}, n \in ChargeAmounts : Charge(a, p, n)
    \/ ProviderDeclines(a) \/ ProviderFinishes(a)
    \/ RecordAuthorization(a) \/ UpdateAuthorization(a) \/ ReconcileAuthorization(a)

Next ==
    \/ \E p \in Purchases : Purchase(p)
    \/ \E w \in Executors : Lease(w) \/ Work(w) \/ Stop(w)
    \/ \E a \in Auths : Authorize(a)
    \/ \E mode \in Modes : PutPolicy(mode)
    \/ SetHalted \/ WindowCloses

Spec == Init /\ [][Next]_vars

\* Executors poll forever, and a checkout ends (it has a deadline).
Fairness == \A w \in Executors : WF_vars(Lease(w)) /\ WF_vars(Work(w))
FairSpec == Spec /\ Fairness

-----------------------------------------------------------------------------
(* Properties.                                                             *)

(***************************************************************************)
(* Card credentials enter a merchant page for a purchase under one lease   *)
(* only, whatever leases expire, executors stop and answers get lost.      *)
(***************************************************************************)
CredentialsOnce ==
    \A p \in Purchases, s, t \in 1 .. MaxAttempts :
        <<p, s>> \in exposed /\ <<p, t>> \in exposed => s = t

(***************************************************************************)
(* A purchase whose credentials are out is never canceled, rejected or     *)
(* ready again, and only the provider's refusal makes it a failure: policy *)
(* changes, stale executors and expired leases leave it to reconciliation. *)
(***************************************************************************)
ExposedStaysOpen ==
    \A p \in Purchases : Exposed(p) =>
        /\ status[p] \in {"EXECUTING", "REQUIRES_HUMAN", "CHECKOUT_SUCCEEDED", "CHECKOUT_FAILED"}
        /\ status[p] = "CHECKOUT_FAILED" =>
               bound[p] # None /\ provider[bound[p]] \in {"declined", "reversed"}

(***************************************************************************)
(* The money held or captured on the card never exceeds its limit, however *)
(* many purchases were evaluated at once and in whatever order provider    *)
(* events arrive.                                                          *)
(***************************************************************************)
CardSpendWithinLimit ==
    SumFunctionOnSet(ChargeAmount, {a \in Auths : provider[a] \in {"pending", "closed"}})
        <= SpendingLimit

(***************************************************************************)
(* One authorization is evidence for one purchase.  It is the authorization *)
(* of that very purchase, however late or in whatever order the provider's *)
(* calls come, as long as the card only paid purchases and no merchant     *)
(* asked for its money outside the 35 minutes the search looks at: a stray *)
(* request is taken for the one other purchase that is in the window.      *)
(***************************************************************************)
Timely == \A a \in Auths : provider[a] # "none" => charge[a].purchase \in near[a]

BindingFaithful ==
    /\ \A p, q \in Purchases : bound[p] # None /\ bound[p] = bound[q] => p = q
    /\ Timely => \A p \in Purchases : bound[p] # None => charge[bound[p]].purchase = p

(***************************************************************************)
(* An intent's financial outcome is the provider's: settled when the       *)
(* authorization was captured, failed when it was declined or reversed.    *)
(***************************************************************************)
OutcomeIsProviders ==
    \A p \in Purchases :
        /\ intent[p] = "SETTLED" => bound[p] # None /\ provider[bound[p]] = "closed"
        /\ intent[p] = "SETTLEMENT_FAILED" =>
               bound[p] # None /\ provider[bound[p]] \in {"declined", "reversed"}

(***************************************************************************)
(* Only one purchase of the card is being executed under a live lease.     *)
(***************************************************************************)
OneLiveExecution ==
    \A p, q \in Purchases \cap live :
        status[p] = "EXECUTING" /\ status[q] = "EXECUTING" => p = q

(***************************************************************************)
(* "Stale post-boundary leases are recovered server-side" (card-executor,  *)
(* index.mjs): an execution past its checkpoint whose lease ran out does   *)
(* not stay EXECUTING, since some executor polls.                          *)
(***************************************************************************)
StaleSubmissionSurfaces ==
    \A p \in Purchases :
        (status[p] = "EXECUTING" /\ p \notin live /\ p \in submitted) ~> (status[p] # "EXECUTING")
=============================================================================
