---------------------------- MODULE MasumiEscrow ----------------------------
(***************************************************************************)
(* One escrow purchase at the Masumi payment provider: handed over from an *)
(* AUTHORIZED intent (domain/masumi-escrow-service.ts), reconciled against *)
(* the provider, refunded through the two one-shot mutation claims         *)
(* (domain/masumi-refund-mutation-service.ts), with the reservation        *)
(* trigger of the database.                                                *)
(*                                                                         *)
(* Workers are the requests and maintenance sweeps running at the same     *)
(* time.  A worker's record is its stack: where it is (pc), the operation  *)
(* it serves (op), and what an earlier step read (seen).  One transaction, *)
(* one raw UPDATE or one call to the provider is one action; a worker may  *)
(* die between any two.  A call travels: it may arrive after the worker    *)
(* that made it has given up, or never.  How the intent became AUTHORIZED, *)
(* and its cancellation and expiry, are PaymentIntent's.                   *)
(***************************************************************************)
CONSTANT Workers    \* concurrent requests and sweeps

VARIABLES provider,      \* the purchase at the provider, "ABSENT" before it exists
          calls,         \* operations on their way to the provider
          carried,       \* operations whose call the provider carried out
          misjudged,     \* carried-out operations the service recorded as failed
          intent, reservation, attempt,
          escrow,        \* the MasumiEscrowPurchase row
          claims,        \* MasumiEscrowMutationClaim: operation |-> status, "NONE" before the row
          workers

funds == <<intent, reservation, attempt>>
evidence == <<provider, calls, carried>>
vars == <<evidence, misjudged, funds, escrow, claims, workers>>

Refunds == {"REQUEST_REFUND", "AUTHORIZE_REFUND"}
Operations == Refunds \cup {"PURCHASE"}
MasumiEscrowState == {"FundsLockingRequested", "FundsLocked", "ResultSubmitted", "Completed",
                      "RefundRequested", "RefundAuthorized", "Disputed"}
Terminal == {"Completed", "RefundAuthorized", "Disputed"}
MutationStatus == {"PREPARED", "SUBMISSION_UNKNOWN", "CONFIRMED", "FAILED"}
IntentStatus == {"AUTHORIZED", "SIGNING", "SUBMITTED", "SUBMISSION_UNKNOWN", "SETTLED",
                 "SETTLEMENT_FAILED", "FAILED_BEFORE_SUBMISSION"}
\* A claim whose call may have been made.  Mutant: only one that says so.
OnlyUnknown == {"SUBMISSION_UNKNOWN"}
InDoubt == {"PREPARED", "SUBMISSION_UNKNOWN"}

TargetReached(op, state) ==
  state \in IF op = "REQUEST_REFUND" THEN {"RefundRequested", "RefundAuthorized"} ELSE {"RefundAuthorized"}
Precluded(op, state) == ~TargetReached(op, state) /\ state \in {"Completed", "Disputed"}
Classify(op, state) == CASE TargetReached(op, state) -> "CONFIRMED"
                         [] Precluded(op, state) -> "FAILED"
                         [] OTHER -> "SUBMISSION_UNKNOWN"

\* Where a worker can be: executing, reconciling, or at a refund mutation.
Steps == {"idle", "job", "bind", "attempt", "call", "reply", "judged", "escrow", "look", "apply",
          "claim", "lookup", "mark", "confirm"}
Idle == [pc |-> "idle", op |-> "none", seen |-> "none"]
\* Worker w goes on at step pc with what it saw.
Goes(w, pc, op, seen) == workers' = [workers EXCEPT ![w] = [pc |-> pc, op |-> op, seen |-> seen]]
Rests(w) == workers' = [workers EXCEPT ![w] = Idle]
At(w, pc) == workers[w].pc = pc

Init ==
  /\ provider = "ABSENT" /\ calls = {} /\ carried = {} /\ misjudged = {}
  /\ intent = "AUTHORIZED" /\ reservation = "ACTIVE" /\ attempt = "NONE"
  /\ escrow = [state |-> "PREPARED", job |-> "pending", requested |-> FALSE, authorized |-> FALSE]
  /\ claims = [op \in Refunds |-> "NONE"]
  /\ workers = [w \in Workers |-> Idle]

-----------------------------------------------------------------------------
(* The provider: external, known by its replies.                           *)

\* What the purchase becomes when the provider carries out an operation.
Accepts(op) ==
  CASE op = "PURCHASE" -> provider = "ABSENT"
    [] op = "REQUEST_REFUND" -> provider \in {"FundsLocked", "ResultSubmitted"}
    [] op = "AUTHORIZE_REFUND" -> provider = "RefundRequested"
Result(op) == CASE op = "PURCHASE" -> "FundsLockingRequested"
                [] op = "REQUEST_REFUND" -> "RefundRequested"
                [] op = "AUTHORIZE_REFUND" -> "RefundAuthorized"

Deliver(op) ==
  /\ op \in calls /\ calls' = calls \ {op}
  /\ \/ /\ Accepts(op)
        /\ provider' = Result(op) /\ carried' = carried \cup {op}
     \/ UNCHANGED <<provider, carried>>     \* lost, or refused by the provider
  /\ UNCHANGED <<misjudged, funds, escrow, claims, workers>>

Progress ==
  /\ \E step \in {<<"FundsLockingRequested", "FundsLocked">>, <<"FundsLocked", "ResultSubmitted">>,
                  <<"ResultSubmitted", "Completed">>, <<"RefundRequested", "Disputed">>,
                  <<"RefundRequested", "RefundAuthorized">>} :
       provider = step[1] /\ provider' = step[2]
  /\ UNCHANGED <<calls, carried, misjudged, funds, escrow, claims, workers>>

\* How a caller sees its call end: an answer it can read and trust, an error
\* that leaves the outcome open, or one its catch takes for a refusal (the
\* call never left, or the answer to a call that has ended was not readable).
Replies(op) == {"ambiguous"} \cup (IF op \in calls THEN {} ELSE {"refused"})
                             \cup (IF op \in carried \ calls THEN {"good"} ELSE {})

-----------------------------------------------------------------------------
(* executeAuthorizedMasumiIntent                                           *)

\* The checks, then the job at the agent's own API, before the claim.
StartJob(w) ==
  /\ At(w, "idle") /\ intent = "AUTHORIZED" /\ reservation = "ACTIVE"
  /\ Goes(w, "job", "PURCHASE", "none")
  /\ UNCHANGED <<evidence, misjudged, funds, escrow, claims>>

ClaimIntent(w) ==
  /\ At(w, "job")
  /\ IF intent = "AUTHORIZED" THEN intent' = "SIGNING" /\ Goes(w, "bind", "PURCHASE", "none")
                              ELSE UNCHANGED intent /\ Rests(w)
  /\ UNCHANGED <<evidence, misjudged, reservation, attempt, escrow, claims>>

\* Every worker starts a job of its own: the row takes the claimant's.
BindJob(w) ==
  /\ At(w, "bind") /\ escrow' = [escrow EXCEPT !.job = w] /\ Goes(w, "attempt", "PURCHASE", "none")
  /\ UNCHANGED <<evidence, misjudged, funds, claims>>

CreateAttempt(w) ==
  /\ At(w, "attempt") /\ attempt' = "STARTED" /\ Goes(w, "call", "PURCHASE", "none")
  /\ UNCHANGED <<evidence, misjudged, intent, reservation, escrow, claims>>

\* The call leaves, or fails before it does (configuration, address checks).
Call(w) ==
  /\ At(w, "call")
  /\ \/ calls' = calls \cup {workers[w].op} /\ Goes(w, "reply", workers[w].op, "none")
     \/ UNCHANGED calls /\ Goes(w, "judged", workers[w].op, "refused")
  /\ UNCHANGED <<provider, carried, misjudged, funds, escrow, claims>>

Reply(w) ==
  /\ At(w, "reply")
  /\ \E reply \in Replies(workers[w].op) : Goes(w, "judged", workers[w].op, reply)
  /\ UNCHANGED <<evidence, misjudged, funds, escrow, claims>>

Judged(w, op, reply) == workers[w] = [pc |-> "judged", op |-> op, seen |-> reply]
\* The service decides that a call which was carried out has failed.
Misjudge(op) == misjudged' = IF op \in carried THEN misjudged \cup {op} ELSE misjudged

\* The transaction after a good answer; an error in it reaches the same catch
\* as a refusal.
RecordPurchase(w) ==
  /\ Judged(w, "PURCHASE", "good")
  /\ \/ /\ attempt' = "SUBMITTED" /\ intent' = "SUBMITTED"
        /\ escrow' = [escrow EXCEPT !.state = Result("PURCHASE")]
        /\ Goes(w, "look", "none", "none")
     \/ UNCHANGED <<attempt, intent, escrow>> /\ Goes(w, "judged", "PURCHASE", "refused")
  /\ UNCHANGED <<evidence, misjudged, reservation, claims>>

\* Mutant: the budget goes back when the answer is lost.
UnknownReleases(w) ==
  /\ Judged(w, "PURCHASE", "ambiguous")
  /\ attempt' = "UNKNOWN" /\ intent' = "SUBMISSION_UNKNOWN" /\ reservation' = "RELEASED"
  /\ Goes(w, "escrow", "PURCHASE", "SUBMISSION_UNKNOWN")
  /\ UNCHANGED <<evidence, misjudged, escrow, claims>>
PurchaseUnknown(w) ==
  /\ Judged(w, "PURCHASE", "ambiguous")
  /\ attempt' = "UNKNOWN" /\ intent' = "SUBMISSION_UNKNOWN"
  /\ Goes(w, "escrow", "PURCHASE", "SUBMISSION_UNKNOWN")
  /\ UNCHANGED <<evidence, misjudged, reservation, escrow, claims>>

PurchaseFailed(w) ==
  /\ Judged(w, "PURCHASE", "refused")
  /\ attempt' = "FAILED" /\ intent' = "FAILED_BEFORE_SUBMISSION"
  /\ reservation' = IF reservation = "ACTIVE" THEN "RELEASED" ELSE reservation
  /\ Misjudge("PURCHASE") /\ Goes(w, "escrow", "PURCHASE", "FAILED")
  /\ UNCHANGED <<evidence, escrow, claims>>

\* The raw UPDATE of the escrow row, after the catch's transaction.
RecordEscrow(w) ==
  /\ At(w, "escrow") /\ escrow' = [escrow EXCEPT !.state = workers[w].seen] /\ Rests(w)
  /\ UNCHANGED <<evidence, misjudged, funds, claims>>

-----------------------------------------------------------------------------
(* What a change of the escrow row does to the money.                      *)

\* The row's trigger: a refund releases what the purchase reserved.
\* Mutant: it consumes the reservation, as a dispute does.
TriggerConsumes(state, held) ==
  IF escrow.state # state /\ state \in {"RefundAuthorized", "Disputed"} /\ held = "ACTIVE" THEN "CONSUMED" ELSE held
Trigger(state, held) ==
  CASE escrow.state # state /\ state = "RefundAuthorized" /\ held \in {"ACTIVE", "CONSUMED"} -> "RELEASED"
    [] escrow.state # state /\ state = "Disputed" /\ held = "ACTIVE" -> "CONSUMED"
    [] OTHER -> held

\* The states that settle the payment.
Paid(state) == state = "Completed"
Unsettled == intent \notin {"SETTLED", "CANCELED"}

-----------------------------------------------------------------------------
(* reconcileMasumiEscrowPurchase, for a member or for the sweep            *)

StartReconcile(w) ==
  /\ At(w, "idle") /\ escrow.state # "PREPARED"
  /\ Goes(w, "look", "none", "none")
  /\ UNCHANGED <<evidence, misjudged, funds, escrow, claims>>

\* A purchase with a result is believed only with the agent's matching result.
Found(w) ==
  /\ At(w, "look") /\ provider # "ABSENT" /\ Goes(w, "apply", "none", provider)
  /\ UNCHANGED <<evidence, misjudged, funds, escrow, claims>>

\* Not listed, unreachable, or the result does not match: nothing is written.
NotFound(w) ==
  /\ At(w, "look") /\ Rests(w)
  /\ UNCHANGED <<evidence, misjudged, funds, escrow, claims>>

\* The state seen is written whatever the row has become since.
ApplyReconcile(w) ==
  LET state == workers[w].seen
      held == Trigger(state, reservation) IN
  /\ At(w, "apply") /\ Rests(w)
  /\ escrow' = [escrow EXCEPT !.state = state,
                  !.requested = @ \/ state = "RefundRequested",
                  !.authorized = @ \/ state = "RefundAuthorized"]
  /\ \/ /\ Paid(state) /\ attempt' = "CONFIRMED"
        /\ intent' = IF intent \in {"SUBMITTED", "SUBMISSION_UNKNOWN", "SIGNING"} THEN "SETTLED" ELSE intent
        /\ reservation' = IF held \in {"ACTIVE", "CONSUMED"} THEN "SETTLED" ELSE held
     \/ /\ state \in {"RefundAuthorized", "Disputed"} /\ UNCHANGED attempt
        /\ intent' = IF Unsettled THEN "SETTLEMENT_FAILED" ELSE intent
        /\ reservation' = IF held = "ACTIVE" THEN "CONSUMED" ELSE held
     \/ state \notin {"RefundAuthorized", "Disputed"} /\ ~Paid(state) /\ reservation' = held /\ UNCHANGED <<intent, attempt>>
  /\ UNCHANGED <<evidence, misjudged, claims>>

-----------------------------------------------------------------------------
(* The one-shot refund mutations                                           *)

LocallyConfirmed(op) ==
  \/ IF op = "REQUEST_REFUND" THEN escrow.requested ELSE escrow.authorized
  \/ TargetReached(op, escrow.state)
Available(op) == escrow.state \in IF op = "REQUEST_REFUND" THEN {"ResultSubmitted", "FundsLocked"}
                                                           ELSE {"RefundRequested"}
SetClaim(op, status) == claims' = [claims EXCEPT ![op] = status]

\* reserveMutation, one serializable transaction under the claim's lock.
Reserve(w, op) ==
  /\ At(w, "idle")
  /\ \/ LocallyConfirmed(op) /\ SetClaim(op, "CONFIRMED") /\ UNCHANGED workers
     \/ /\ ~LocallyConfirmed(op) /\ claims[op] \in InDoubt
        /\ IF claims[op] = "PREPARED" THEN SetClaim(op, "SUBMISSION_UNKNOWN")
                                      ELSE UNCHANGED claims
        /\ Goes(w, "claim", op, "none")
     \/ /\ ~LocallyConfirmed(op) /\ claims[op] \notin InDoubt \cup {"CONFIRMED"} /\ Available(op)
        /\ SetClaim(op, "PREPARED") /\ Goes(w, "call", op, "none")
  /\ UNCHANGED <<evidence, misjudged, funds, escrow>>

\* executeMutation: a good answer (asserted to be the exact state) is
\* recorded, any other goes to the catch.
\* Mutant: there every error counts as a refusal.
EveryErrorFails(reply) == "FAILED"
OutcomeOf(reply) == IF reply = "ambiguous" THEN "SUBMISSION_UNKNOWN" ELSE "FAILED"
MutationAnswered(w, op) ==
  /\ \/ Judged(w, op, "good") /\ Goes(w, "confirm", op, Result(op)) /\ UNCHANGED misjudged
     \/ /\ workers[w].seen # "good" /\ Judged(w, op, workers[w].seen)
        /\ Goes(w, "mark", op, OutcomeOf(workers[w].seen))
        /\ IF workers[w].seen = "refused" THEN Misjudge(op) ELSE UNCHANGED misjudged
  /\ UNCHANGED <<evidence, funds, escrow, claims>>

\* The maintenance sweep takes up a claim in doubt.
SweepClaim(w, op) ==
  /\ At(w, "idle") /\ claims[op] \in InDoubt /\ Goes(w, "claim", op, "none")
  /\ UNCHANGED <<evidence, misjudged, funds, escrow, claims>>

\* reconcileMasumiRefundMutation: its read of the claim, outside any lock.
ReadClaim(w) ==
  /\ At(w, "claim")
  /\ IF claims[workers[w].op] = "CONFIRMED" THEN Rests(w) ELSE Goes(w, "lookup", workers[w].op, "none")
  /\ UNCHANGED <<evidence, misjudged, funds, escrow, claims>>

FoundClaim(w) ==
  LET op == workers[w].op
      status == Classify(op, provider) IN
  /\ At(w, "lookup") /\ provider # "ABSENT"
  /\ IF status = "CONFIRMED" THEN Goes(w, "confirm", op, provider) ELSE Goes(w, "mark", op, status)
  /\ UNCHANGED <<evidence, misjudged, funds, escrow, claims>>

\* Not listed: still in doubt.  Unreachable: the error ends the attempt.
NotFoundClaim(w) ==
  /\ At(w, "lookup")
  /\ Goes(w, "mark", workers[w].op, "SUBMISSION_UNKNOWN") \/ Rests(w)
  /\ UNCHANGED <<evidence, misjudged, funds, escrow, claims>>

\* markMutation writes over whatever status the claim has by then.
MarkMutation(w) ==
  /\ At(w, "mark") /\ SetClaim(workers[w].op, workers[w].seen) /\ Rests(w)
  /\ UNCHANGED <<evidence, misjudged, funds, escrow>>

RecordConfirmed(w) ==
  LET state == workers[w].seen IN
  /\ At(w, "confirm") /\ Rests(w)
  /\ SetClaim(workers[w].op, "CONFIRMED")
  /\ escrow' = [escrow EXCEPT !.state = state, !.requested = TRUE,
                  !.authorized = @ \/ state = "RefundAuthorized"]
  /\ reservation' = Trigger(state, reservation)
  /\ intent' = IF state = "RefundAuthorized" /\ Unsettled THEN "SETTLEMENT_FAILED" ELSE intent
  /\ UNCHANGED <<evidence, misjudged, attempt>>

-----------------------------------------------------------------------------
Crash(w) ==
  /\ ~At(w, "idle") /\ Rests(w)
  /\ UNCHANGED <<evidence, misjudged, funds, escrow, claims>>

\* The next step of a worker that is under way.
Continue(w) ==
  \/ ClaimIntent(w) \/ BindJob(w) \/ CreateAttempt(w) \/ Call(w) \/ Reply(w)
  \/ RecordPurchase(w) \/ PurchaseUnknown(w) \/ PurchaseFailed(w) \/ RecordEscrow(w)
  \/ Found(w) \/ NotFound(w) \/ ApplyReconcile(w)
  \/ (\E op \in Refunds : MutationAnswered(w, op)) \/ ReadClaim(w) \/ FoundClaim(w) \/ NotFoundClaim(w)
  \/ MarkMutation(w) \/ RecordConfirmed(w)

Next ==
  \/ \E w \in Workers :
       \/ StartJob(w) \/ StartReconcile(w) \/ Continue(w) \/ Crash(w)
       \/ \E op \in Refunds : Reserve(w, op) \/ SweepClaim(w, op)
  \/ \E op \in Operations : Deliver(op)
  \/ Progress

Spec == Init /\ [][Next]_vars

-----------------------------------------------------------------------------
(* Properties                                                              *)

\* Every column holds one of the values its check constraint or enum allows,
\* and a worker is at a step it can have come to.
TypeOK ==
  /\ provider \in MasumiEscrowState \cup {"ABSENT"}
  /\ calls \subseteq Operations /\ carried \subseteq Operations /\ misjudged \subseteq carried
  /\ intent \in IntentStatus
  /\ reservation \in {"ACTIVE", "CONSUMED", "SETTLED", "RELEASED"}
  /\ attempt \in {"NONE", "STARTED", "SUBMITTED", "UNKNOWN", "FAILED", "CONFIRMED"}
  /\ escrow \in [state : MasumiEscrowState \cup {"PREPARED", "SUBMISSION_UNKNOWN", "FAILED"},
                 job : Workers \cup {"pending"}, requested : BOOLEAN, authorized : BOOLEAN]
  /\ claims \in [Refunds -> MutationStatus \cup {"NONE"}]
  /\ workers \in [Workers -> [pc : Steps, op : Operations \cup {"none"},
                              seen : MasumiEscrowState \cup {"none", "good", "ambiguous", "refused",
                                                            "SUBMISSION_UNKNOWN", "FAILED"}]]

\* However many executors start a job at the agent, the row is bound to the
\* job of the one that goes on to create the purchase: reconciliation then
\* asks the provider for the purchase that was really made.
JobBound ==
  \A w \in Workers : workers[w].op = "PURCHASE" /\ workers[w].pc \in {"attempt", "call", "reply", "judged", "escrow"}
                       => escrow.job = w

\* While the provider holds or has paid out the money, the reservation still
\* counts it against the agent's limits, through lost answers and
\* late deliveries.  The exception is an answer the catch takes for a refusal
\* (not readable, or its transaction failed): then the budget is returned
\* although the purchase exists.
HeldFundsCounted ==
  provider \notin {"ABSENT", "RefundAuthorized"} /\ "PURCHASE" \notin misjudged => reservation # "RELEASED"

\* The intent is settled exactly when its reservation is, and only by a
\* purchase the provider completed: a stale reconciliation never settles.
SettledTogether ==
  /\ (intent = "SETTLED") <=> (reservation = "SETTLED")
  /\ intent = "SETTLED" => provider = "Completed"

\* A refund the row has recorded has returned the budget, whichever of the
\* two reconcilers recorded it and whatever stale state was written since,
\* and the intent is not left as if the payment could still succeed.
RefundReturnsBudget ==
  escrow.authorized => reservation = "RELEASED" /\ intent = "SETTLEMENT_FAILED"

\* A confirmed mutation is one the provider made (a refund that was requested
\* may have been disputed since).
ConfirmedIsTrue ==
  \A op \in Refunds : claims[op] = "CONFIRMED" =>
    TargetReached(op, provider) \/ (op = "REQUEST_REFUND" /\ provider = "Disputed")

\* A mutation the provider carried out is recorded as failed only when a
\* dispute has overtaken it, or its answer could not be read.
FailedIsDefinite ==
  \A op \in Refunds : claims[op] = "FAILED" /\ op \in carried \ misjudged => provider = "Disputed"

\* One-shot: while a call may still arrive, or what it did stands, neither a
\* retry by a member nor one after a crash makes the call again.
NoSecondCall ==
  [][\A w \in Workers, op \in Refunds :
       At(w, "call") /\ workers[w].op = op /\ At(w, "reply")' /\ op \notin misjudged
         => provider \in Terminal \/ (op \notin calls /\ ~(op \in carried /\ TargetReached(op, provider)))]_vars
=============================================================================
