---------------------------- MODULE FiatTransfer ----------------------------
(***************************************************************************)
(* One fiat transfer (dashboard/src/app/api/v1/fiat-transfers, the worker  *)
(* in domain/fiat-reconciliation-service.ts, the transfer events of the    *)
(* Stripe webhook): requests with the same Idempotency-Key, sweeps and     *)
(* webhook deliveries work on the same row, each in separate statements;   *)
(* events of the account and of its other transfers, and requests to open  *)
(* it again, write the provider's total over the account's.                *)
(*                                                                         *)
(* The provider is external: it keeps one movement per idempotency key,    *)
(* settles it some time, may return it, and sends an event for each state. *)
(***************************************************************************)
EXTENDS Naturals, FiniteSets

CONSTANTS
    Posts,          \* requests to create the transfer, or to repeat that
    Sweeps,         \* passes of reconcileUnknownFiatTransfers
    Hooks,          \* deliveries of the transfer's webhook events
    Totals,         \* whoever else writes the provider's total to the account
    None,
    MaxFaults,      \* bound: calls that fail, processes that die
    MaxStops        \* bound: changes of the kill switch

Callers == Posts \cup Sweeps

\* The states of the provider's movement, and what mapMoneyMovement makes of
\* them.  A posted movement may still be returned.
Ends == {"SUCCEEDED", "FAILED", "CANCELED"}
Final == Ends \cup {"RETURNED"}
Movement == {"PENDING", "PROCESSING"} \cup Final
External == {"PENDING", "PROCESSING"} \cup Ends
Mapped(s) == IF s = "RETURNED" THEN "FAILED" ELSE s

\* How often the provider's own total of what is pending may count it.
Counts(s) == IF s = "PROCESSING" THEN {1} ELSE IF s = "PENDING" THEN {0, 1} ELSE {0}

ASSUME ConstantsAssumption ==
    /\ MaxFaults \in Nat /\ MaxStops \in Nat
    /\ Posts \cap Sweeps = {}
    /\ None \notin External \cup {"SUBMISSION_UNKNOWN"}

VARIABLES
    status,         \* FiatTransfer.status, "none" before the row exists
    recorded,       \* externalTransferId is the provider's, not pending_...
    pending,        \* times FiatAccount.pendingMinor counts its amount, up to 2
    stopped,        \* killSwitchEnabled, or the organization is not ACTIVE
    call,           \* what each request and sweep is doing
    hook,           \* what each webhook delivery is doing
    total,          \* the account's total that was read and not yet written
    external,       \* the provider's movement
    first,          \* its first state
    late,           \* a request that timed out may still arrive
    events,         \* states the provider has still to notify
    faults, stops,
    busy,           \* callers at work when the transfer was canceled, or None
    calls,          \* calls to the provider, counted up to 2
    ignored,        \* final states whose event came before the provider's id
    reopened,       \* a failure was written over a recorded row, or a stale state
                    \* over the final one
    foreseen        \* the account counted the amount before the id was recorded

row == <<status, recorded, pending>>
provider == <<external, first, late, events>>
totals == <<total, foreseen>>
history == <<faults, stops, busy, calls, ignored, reopened>>
vars == <<row, stopped, call, hook, totals, provider, history>>

-----------------------------------------------------------------------------
Status == External \cup {"none", "SUBMISSION_UNKNOWN"}

Idle == [at |-> "idle", fresh |-> FALSE, answer |-> None]
Asleep == [at |-> "idle", event |-> None, transfer |-> None, account |-> 0]

Call == [at : {"idle", "create", "check", "call", "record", "fail"}, fresh : BOOLEAN,
         answer : External \cup {None, "SUBMISSION_UNKNOWN"}]
Delivery == [at : {"idle", "transfer", "account", "write"}, event : Movement \cup {None},
             transfer : External \cup {None}, account : 0 .. 1]

TypeOK ==
    /\ status \in Status
    /\ recorded \in BOOLEAN /\ stopped \in BOOLEAN
    /\ pending \in 0 .. 2
    /\ call \in [Callers -> Call] /\ hook \in [Hooks -> Delivery]
    /\ total \in [Totals -> {None, 0, 1}]
    /\ external \in Movement \cup {"none"} /\ first \in {"none", "PENDING", "PROCESSING"}
    /\ late \in BOOLEAN /\ events \subseteq Movement
    /\ faults \in 0 .. MaxFaults /\ stops \in 0 .. MaxStops
    /\ busy \in (SUBSET Callers) \cup {None} /\ calls \in 0 .. 2
    /\ ignored \subseteq Final /\ reopened \in BOOLEAN /\ foreseen \in BOOLEAN

Init ==
    /\ status = "none" /\ recorded = FALSE /\ pending = 0
    /\ stopped = FALSE
    /\ call = [c \in Callers |-> Idle]
    /\ hook = [h \in Hooks |-> Asleep]
    /\ total = [t \in Totals |-> None]
    /\ external = "none" /\ first = "none" /\ late = FALSE /\ events = {}
    /\ faults = 0 /\ stops = 0
    /\ busy = None /\ calls = 0 /\ ignored = {} /\ reopened = FALSE /\ foreseen = FALSE

-----------------------------------------------------------------------------
(* POST /fiat-transfers.                                                   *)

\* isRetryableFiatSubmission.  Mutant: only what is known to be in doubt.
OnlyUnknown == status = "SUBMISSION_UNKNOWN" /\ ~recorded
Retryable == status \in {"PENDING", "SUBMISSION_UNKNOWN"} /\ ~recorded

\* The workspace is not stopped; a row that is not to be recalls is returned.
Arrive(c) ==
    /\ c \in Posts /\ call[c].at = "idle"
    /\ ~stopped
    /\ status = "none" \/ Retryable
    /\ call' = [call EXCEPT ![c].at = IF status = "none" THEN "create" ELSE "check",
                            ![c].fresh = status = "PENDING"]
    /\ UNCHANGED <<row, stopped, hook, totals, provider, history>>

\* Serializable, under the account's lock: the row another request has
\* created since is taken as it is.
Create(c) ==
    /\ call[c].at = "create"
    /\ IF stopped THEN status' = status /\ call' = [call EXCEPT ![c] = Idle]
       ELSE /\ status' = IF status = "none" THEN "PENDING" ELSE status
            /\ call' = [call EXCEPT ![c].at = "check",
                                    ![c].fresh = status' = "PENDING" /\ ~recorded]
    /\ UNCHANGED <<recorded, pending, stopped, hook, totals, provider, history>>

\* The organization is read again; a stopped one cancels what is not sent.
Cancels(fresh) == fresh /\ status = "PENDING" /\ ~recorded

Check(c) ==
    /\ call[c].at = "check"
    /\ IF ~stopped
       THEN call' = [call EXCEPT ![c].at = "call"] /\ UNCHANGED <<status, busy>>
       ELSE /\ call' = [call EXCEPT ![c] = Idle]
            /\ IF Cancels(call[c].fresh)
               THEN /\ status' = "CANCELED"
                    /\ busy' = {d \in Callers \ {c} : call[d].at # "idle"}
               ELSE UNCHANGED <<status, busy>>
    /\ UNCHANGED <<recorded, pending, stopped, hook, totals, provider, faults, stops, calls,
                   ignored, reopened>>

-----------------------------------------------------------------------------
(* The call, and what becomes of it.                                       *)

\* reconcileUnknownFiatTransfers selects rows with no word from the provider.
\* It does not look at the kill switch.
Select(c) ==
    /\ c \in Sweeps /\ call[c].at = "idle"
    /\ Retryable
    /\ call' = [call EXCEPT ![c].at = "call"]
    /\ UNCHANGED <<row, stopped, hook, totals, provider, history>>

\* Counts up to 2.
More(n) == IF n < 2 THEN n + 1 ELSE n

Accept ==
    IF external = "none"
    THEN /\ first' \in {"PENDING", "PROCESSING"}
         /\ external' = first' /\ events' = events \cup {first'}
    ELSE UNCHANGED <<external, first, events>>

\* A repeated request is answered as the first one was, or with the state.
Answered(c) ==
    /\ call[c].at = "call"
    /\ Accept
    /\ \E answer \in {first', Mapped(external')} :
           call' = [call EXCEPT ![c].at = "record", ![c].answer = answer]
    /\ calls' = More(calls)
    /\ UNCHANGED <<row, stopped, hook, totals, late, faults, stops, busy, ignored, reopened>>

\* fiatSubmissionFailureStatus: 401, 403 and 404 say the request was not
\* accepted.  Mutant: any error does.
AnyErrorFails == {"refused", "lost", "late"}
DefiniteErrors == {"refused"}

\* The provider refuses the request, the answer is lost, or the request is
\* late.
Fault(c) ==
    /\ call[c].at = "call"
    /\ faults < MaxFaults
    /\ faults' = faults + 1
    /\ \E how \in {"refused", "lost", "late"} :
           /\ IF how = "lost" THEN Accept ELSE UNCHANGED <<external, first, events>>
           /\ late' = (late \/ how = "late")
           /\ call' = [call EXCEPT ![c].at = "fail",
                           ![c].answer = IF how \in DefiniteErrors THEN "FAILED"
                                         ELSE "SUBMISSION_UNKNOWN"]
    /\ calls' = More(calls)
    /\ UNCHANGED <<row, stopped, hook, totals, stops, busy, ignored, reopened>>

LateArrival ==
    /\ late
    /\ late' = FALSE
    /\ Accept
    /\ UNCHANGED <<row, stopped, call, hook, totals, history>>

\* A request leaves a row alone that another call has settled; a sweep leaves
\* any row alone that has the provider's id.  Mutant: nobody looks.
AlwaysRecords(c) == TRUE
Records(c) == ~recorded \/ (c \in Posts /\ status = "SUBMISSION_UNKNOWN")

Record(c) ==
    /\ call[c].at = "record"
    /\ IF Records(c)
       THEN /\ recorded' = TRUE
            /\ status' = call[c].answer
            /\ pending' = IF call[c].answer = "PROCESSING" THEN More(pending) ELSE pending
       ELSE UNCHANGED row
    /\ call' = [call EXCEPT ![c] = Idle]
    /\ UNCHANGED <<stopped, hook, totals, provider, history>>

\* The transaction fails: to the handler that is a failed submission.
RecordFails(c) ==
    /\ call[c].at = "record"
    /\ faults < MaxFaults
    /\ faults' = faults + 1
    /\ call' = [call EXCEPT ![c].at = "fail", ![c].answer = "SUBMISSION_UNKNOWN"]
    /\ UNCHANGED <<row, stopped, hook, totals, provider, stops, busy, calls, ignored, reopened>>

\* The catch block updates by id, whatever the row holds by now.
Fail(c) ==
    /\ call[c].at = "fail"
    /\ status' = call[c].answer
    /\ reopened' = (reopened \/ recorded)
    /\ call' = [call EXCEPT ![c] = Idle]
    /\ UNCHANGED <<recorded, pending, stopped, hook, totals, provider, faults, stops, busy,
                   calls, ignored>>

Die(c) ==
    /\ call[c].at # "idle"
    /\ faults < MaxFaults
    /\ faults' = faults + 1
    /\ call' = [call EXCEPT ![c] = Idle]
    /\ UNCHANGED <<row, stopped, hook, totals, provider, stops, busy, calls, ignored, reopened>>

-----------------------------------------------------------------------------
(* The webhook, the provider and the kill switch.                          *)

\* An event of a transfer nobody knows is IGNORED: it is not sent again.
Receive(h) ==
    /\ hook[h].at = "idle"
    /\ \E e \in events :
           IF recorded
           THEN /\ hook' = [hook EXCEPT ![h].at = "transfer", ![h].event = e]
                /\ UNCHANGED <<events, ignored>>
           ELSE /\ events' = events \ {e}
                /\ ignored' = ignored \cup ({e} \cap Final)
                /\ UNCHANGED hook
    /\ UNCHANGED <<row, stopped, call, totals, external, first, late, faults, stops, busy,
                   calls, reopened>>

\* retrieveFiatTransfer
ReadTransfer(h) ==
    /\ hook[h].at = "transfer"
    /\ hook' = [hook EXCEPT ![h].at = "account", ![h].transfer = Mapped(external)]
    /\ UNCHANGED <<row, stopped, call, totals, provider, history>>

\* retrieveFiatAccount
ReadAccount(h) ==
    /\ hook[h].at = "account"
    /\ \E n \in Counts(external) : hook' = [hook EXCEPT ![h].at = "write", ![h].account = n]
    /\ UNCHANGED <<row, stopped, call, totals, provider, history>>

\* Both rows in one transaction, by id; the event is PROCESSED.
WriteBoth(h) ==
    /\ hook[h].at = "write"
    /\ status' = hook[h].transfer
    /\ pending' = hook[h].account
    /\ reopened' = (reopened \/ (external \in Final /\ status = Mapped(external)
                                 /\ status' # status))
    /\ events' = events \ {hook[h].event}
    /\ hook' = [hook EXCEPT ![h] = Asleep]
    /\ UNCHANGED <<recorded, stopped, call, totals, external, first, late, faults, stops, busy,
                   calls, ignored>>

\* The delivery fails: the event is FAILED, not a duplicate when it is sent
\* again.  Mutant: it is taken for one.
Closed(h) == {hook[h].event}
Dropped(h) == {}

HookFails(h) ==
    /\ hook[h].at # "idle"
    /\ faults < MaxFaults
    /\ faults' = faults + 1
    /\ events' = events \ Dropped(h)
    /\ hook' = [hook EXCEPT ![h] = Asleep]
    /\ UNCHANGED <<row, stopped, call, totals, external, first, late, stops, busy, calls,
                   ignored, reopened>>

\* Events of the account, of other transfers of the account, and repeated
\* requests to open it: the provider's total is read ...
ReadTotal(t) ==
    /\ total[t] = None
    /\ \E n \in Counts(external) : total' = [total EXCEPT ![t] = n]
    /\ UNCHANGED <<row, stopped, call, hook, foreseen, provider, history>>

\* ... and written by id, whatever has been recorded since.
WriteTotal(t) ==
    /\ total[t] # None
    /\ pending' = total[t]
    /\ foreseen' = IF recorded THEN foreseen ELSE total[t] = 1
    /\ total' = [total EXCEPT ![t] = None]
    /\ UNCHANGED <<status, recorded, stopped, call, hook, provider, faults, stops, busy, calls,
                   ignored, reopened>>

Becomes(s) ==
    /\ external' = s
    /\ events' = events \cup {s}
    /\ UNCHANGED <<row, stopped, call, hook, totals, first, late, history>>

Settle ==
    \/ external = "PENDING" /\ \E s \in {"PROCESSING"} \cup Ends : Becomes(s)
    \/ external = "PROCESSING" /\ \E s \in Ends : Becomes(s)

Return == external = "SUCCEEDED" /\ Becomes("RETURNED")

Switch ==
    /\ stops < MaxStops
    /\ stops' = stops + 1
    /\ stopped' = ~stopped
    /\ UNCHANGED <<row, call, hook, totals, provider, faults, busy, calls, ignored, reopened>>

Proceed(c) == Create(c) \/ Check(c) \/ Answered(c) \/ Record(c) \/ Fail(c)
Handle(h) == Receive(h) \/ ReadTransfer(h) \/ ReadAccount(h) \/ WriteBoth(h)

Next ==
    \/ \E c \in Callers : Arrive(c) \/ Select(c) \/ Proceed(c)
                          \/ Fault(c) \/ RecordFails(c) \/ Die(c)
    \/ \E h \in Hooks : Handle(h) \/ HookFails(h)
    \/ \E t \in Totals : ReadTotal(t) \/ WriteTotal(t)
    \/ LateArrival \/ Settle \/ Return \/ Switch

Spec == Init /\ [][Next]_vars

\* Handlers run to their end, the maintenance route sweeps for ever, the
\* provider settles and sends its events until they are answered.
Fairness ==
    /\ \A c \in Callers : WF_vars(Proceed(c))
    /\ \A c \in Sweeps : WF_vars(Select(c))
    /\ \A h \in Hooks : WF_vars(Handle(h))
    /\ WF_vars(Settle)

FairSpec == Spec /\ Fairness

-----------------------------------------------------------------------------
(* Properties.                                                             *)

(***************************************************************************)
(* A transfer counts as succeeded only if the provider's did (it may have  *)
(* been returned since); and a FAILED one moves no money, as long as one   *)
(* call alone was made (the refusal of a repeated request says nothing of  *)
(* the first).                                                             *)
(***************************************************************************)
OutcomeIsProviders ==
    /\ status = "SUCCEEDED" => external \in {"SUCCEEDED", "RETURNED"}
    /\ status = "FAILED" /\ external \in {"PENDING", "PROCESSING", "SUCCEEDED"} => calls > 1

(***************************************************************************)
(* The account counts a transfer's pending amount at most once, whichever  *)
(* request, sweep and webhook record it, unless a failure was written over *)
(* a row that had the provider's id, or the provider's total, written to   *)
(* the account before the id was recorded, held the amount already (the    *)
(* webhook's financial_account and other transfers' events).               *)
(***************************************************************************)
CountedOnce == pending > 1 => reopened \/ foreseen

(***************************************************************************)
(* The first call to the provider of a transfer that the emergency stop    *)
(* canceled is made by a caller that was at work on it then.  Only the     *)
(* first: the lost answer of that call is written over CANCELED, and then  *)
(* any sweep may repeat it.                                                *)
(***************************************************************************)
CanceledUnsent ==
    [][\A c \in Callers :
           (busy # None /\ calls = 0 /\ calls' = 1 /\ call'[c] # call[c]) => c \in busy]_vars

(***************************************************************************)
(* Liveness: a transfer with no word from the provider gets the provider's *)
(* id or an end, through lost and late answers and handlers that die.      *)
(***************************************************************************)
DoubtResolves == status # "none" ~> (recorded \/ status \in {"FAILED", "CANCELED"})

(***************************************************************************)
(* Liveness: the provider's final state is taken over, also when a         *)
(* succeeded movement is returned, unless its event came before the id was *)
(* recorded (it is not sent again), or a failure was written over the id   *)
(* or a stale event over the final state.                                  *)
(***************************************************************************)
FinalArrives ==
    external \in Final ~> \/ status = Mapped(external) \/ external \in ignored \/ reopened
                          \/ (status \in {"FAILED", "CANCELED"} /\ ~recorded)
=============================================================================
