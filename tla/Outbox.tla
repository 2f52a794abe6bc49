------------------------------- MODULE Outbox -------------------------------
(***************************************************************************)
(* The notification outbox (dashboard/src/domain/notification-service.ts): *)
(* business transactions write events, passes of several workers claim     *)
(* them, deliver them to the organization's endpoints or to one address,   *)
(* and record what became of every delivery.                               *)
(*                                                                         *)
(* Every statement on the database and every HTTP call is a step of its    *)
(* own.  Time appears as three moments: a claim becomes older than five    *)
(* minutes, the backoff of an event ends, a delivery row falls due.        *)
(***************************************************************************)
EXTENDS Naturals, FiniteSets

CONSTANTS
    Last,           \* events are 1 .. Last, in the order of their createdAt
    DirectEvents,   \* events with a directChannel and a directDestination
    Endpoints,      \* notification endpoints subscribed to every event type
    Pausable,       \* bound: those whose status is changed
    Direct,         \* stands for the directDestination
    Workers,        \* processes that run passes
    None,           \* a null column
    Lost,           \* the claim token of a pass that died
    MaxAttempts,    \* MAX_ATTEMPTS
    Limit,          \* events claimed by a pass
    Slow,           \* bound: events whose claim expires under a live pass
    MaxMishaps      \* bound: passes that die or are that slow

Events == 1 .. Last
Targets == Endpoints \cup {Direct}

ASSUME ConstantsAssumption ==
    /\ Last \in Nat /\ DirectEvents \subseteq Events /\ Slow \subseteq Events
    /\ MaxAttempts \in Nat \ {0} /\ Limit \in Nat \ {0} /\ MaxMishaps \in Nat
    /\ Direct \notin Endpoints
    /\ None \notin Workers \cup Targets \cup Events /\ Lost \notin Workers \cup {None}
    /\ IsFiniteSet(Endpoints) /\ Pausable \subseteq Endpoints

VARIABLES
    written,            \* events that exist
    processed, dead,    \* processedAt and deadLetteredAt are set
    ready,              \* availableAt has come
    claim,              \* claimToken: the worker whose pass holds it
    stale,              \* events whose claimedAt is five minutes old
    attempts,           \* OutboxEvent.attempts up to MaxAttempts, where it is read:
                        \* of direct events
    row,                \* NotificationDelivery.status by event and endpoint
    tries,              \* NotificationDelivery.attemptCount
    active,             \* endpoints with status ACTIVE
    pass,               \* what each worker's pass is doing
    received,           \* deliveries that arrived
    repeated,           \* events of which one arrived again
    refused,            \* events of which one was definitely refused
    doubtful,           \* events delivered with no record of the answer left
    sent,               \* calls of deliver by event and target, up to MaxAttempts
    unused,             \* claims of an event that died before the call, up to MaxAttempts
    overtaken,          \* events claimed while their former holder still worked
    unsubscribed,       \* events processed for want of an active endpoint
    mishaps             \* passes that died or were slower than a claim

eventRows == <<written, processed, dead, ready, claim, stale, attempts>>
deliveryRows == <<row, tries>>
history == <<received, repeated, refused, doubtful, sent, unused, overtaken, unsubscribed, mishaps>>
vars == <<eventRows, deliveryRows, active, pass, history>>

-----------------------------------------------------------------------------
\* RETRY_SCHEDULED is split by whether nextAttemptAt has come.
RowStatus == {"none", "PENDING", "WAITING", "DUE", "DELIVERED", "DEAD_LETTER"}
Deliverable == {"PENDING", "DUE"}
Undelivered == {"PENDING", "WAITING", "DUE"}

Answer == {"ok", "transient", "refusal"}
Verdict == {"done", "unheard", "dead", "later", "now"}
Step == {"idle", "load", "open", "send", "record", "conclude", "close"}

\* batch: events claimed and not yet looked at; to: the endpoints of the
\* event, then the deliveries not yet attempted; seen: the attempt counters
\* as the pass read them; result: an answer or a verdict.
Idle == [at |-> "idle", batch |-> {}, event |-> None, to |-> {},
         seen |-> [n \in Targets |-> 0], target |-> None, result |-> None]

PassState == [at : Step, batch : SUBSET Events, event : Events \cup {None}, to : SUBSET Targets,
              seen : [Targets -> 0 .. MaxAttempts], target : Targets \cup {None},
              result : Answer \cup Verdict \cup {None}]

TypeOK ==
    /\ written \subseteq Events /\ processed \subseteq written /\ dead \subseteq written
    /\ ready \subseteq Events /\ stale \subseteq Events
    /\ claim \in [Events -> Workers \cup {None, Lost}]
    /\ attempts \in [Events -> 0 .. MaxAttempts]
    /\ row \in [Events -> [Endpoints -> RowStatus]]
    /\ tries \in [Events -> [Endpoints -> 0 .. MaxAttempts]]
    /\ active \subseteq Endpoints
    /\ pass \in [Workers -> PassState]
    /\ received \subseteq Events \X Targets
    /\ repeated \cup refused \cup doubtful \cup overtaken \cup unsubscribed \subseteq Events
    /\ sent \in [Events -> [Targets -> 0 .. MaxAttempts]]
    /\ unused \in [Events -> 0 .. MaxAttempts]
    /\ mishaps \in 0 .. MaxMishaps

Init ==
    /\ written = {} /\ processed = {} /\ dead = {}
    /\ ready = {} /\ stale = {}
    /\ claim = [e \in Events |-> None]
    /\ attempts = [e \in Events |-> 0]
    /\ row = [e \in Events |-> [n \in Endpoints |-> "none"]]
    /\ tries = [e \in Events |-> [n \in Endpoints |-> 0]]
    /\ active = Endpoints
    /\ pass = [w \in Workers |-> Idle]
    /\ received = {} /\ repeated = {} /\ refused = {}
    /\ doubtful = {} /\ overtaken = {} /\ unsubscribed = {}
    /\ sent = [e \in Events |-> [n \in Targets |-> 0]]
    /\ unused = [e \in Events |-> 0]
    /\ mishaps = 0

-----------------------------------------------------------------------------
\* An open event some of whose rows belong to a paused endpoint.
HeldOpen(e) ==
    e \notin processed \cup dead /\ \E n \in Endpoints \ active : row[e][n] \in Undelivered

\* outboxEvent.create in a business transaction.
Write(e) ==
    /\ e = Cardinality(written) + 1
    /\ written' = written \cup {e}
    /\ ready' = ready \cup {e}
    /\ UNCHANGED <<processed, dead, claim, stale, attempts, deliveryRows, active, pass, history>>

\* The rows a pass may take.  Mutants: the claim of another pass is not looked
\* at; the claim of a dead one is never given up.
ClaimIgnored(e) == TRUE
ClaimForEver(e) == claim[e] = None
Claimable(e) == claim[e] = None \/ e \in stale

Candidates == {e \in written \ (processed \cup dead) : e \in ready /\ Claimable(e)}
Oldest(S) == {e \in S : Cardinality({f \in S : f < e}) < Limit}

AtMost(n) == IF n < MaxAttempts THEN n ELSE MaxAttempts
WorksOn(w) == pass[w].batch \cup ({pass[w].event} \ {None})

\* claimEvents: the oldest rows that are due, unclaimed or abandoned.
ClaimEvents(w) ==
    LET taken == Oldest(Candidates) IN
    /\ pass[w].at = "idle"
    /\ taken # {}
    /\ claim' = [e \in Events |-> IF e \in taken THEN w ELSE claim[e]]
    /\ stale' = stale \ taken
    /\ attempts' = [e \in Events |-> IF e \in taken \cap DirectEvents
                                     THEN AtMost(attempts[e] + 1) ELSE attempts[e]]
    /\ overtaken' = overtaken \cup
           {e \in taken \cap stale : \E v \in Workers \ {w} : e \in WorksOn(v)}
    /\ pass' = [pass EXCEPT ![w].at = "load", ![w].batch = taken]
    /\ UNCHANGED <<written, processed, dead, ready, deliveryRows, active, received, repeated,
                   refused, doubtful, sent, unused, unsubscribed, mishaps>>

\* The pass goes on with the rest of its batch.
NextEvent(w, rest) ==
    pass' = [pass EXCEPT ![w] =
                 [Idle EXCEPT !.batch = rest, !.at = IF rest = {} THEN "idle" ELSE "load"]]

\* processEvent reads the event by id and claim token, with the endpoints
\* that are active now.
Load(w) ==
    /\ pass[w].at = "load"
    /\ \E e \in pass[w].batch :
           LET rest == pass[w].batch \ {e}
               on == [Idle EXCEPT !.batch = rest, !.event = e]
           IN IF claim[e] # w THEN NextEvent(w, rest)
              ELSE pass' = [pass EXCEPT ![w] =
                       IF e \in DirectEvents
                       THEN [on EXCEPT !.at = "send", !.to = {Direct}, !.seen[Direct] = attempts[e]]
                       ELSE IF active = {} THEN [on EXCEPT !.at = "close", !.result = "unheard"]
                       ELSE [on EXCEPT !.at = "open", !.to = active]]
    /\ UNCHANGED <<eventRows, deliveryRows, active, history>>

\* createMany skips the rows that exist; findMany selects the deliverable ones.
Opened(e, to) ==
    [n \in Endpoints |-> IF n \in to /\ row[e][n] = "none" THEN "PENDING" ELSE row[e][n]]
Due(rows, to) == {n \in to : rows[n] \in Deliverable}
Attempted(e, to) == [n \in Targets |-> IF n \in to THEN tries[e][n] ELSE 0]

Open(w) ==
    LET p == pass[w]
        rows == Opened(p.event, p.to)
        due == Due(rows, p.to)
    IN /\ p.at = "open"
       /\ row' = [row EXCEPT ![p.event] = rows]
       /\ pass' = [pass EXCEPT ![w].to = due, ![w].seen = Attempted(p.event, due),
                               ![w].at = IF due = {} THEN "conclude" ELSE "send"]
       /\ UNCHANGED <<eventRows, tries, active, history>>

Delivered(e, n) == <<e, n>> \in received

\* deliver: what the request to n brings.  One that fails or times out may
\* have arrived.
Request(w, n, answer, arrived) ==
    LET e == pass[w].event IN
    /\ answer = "ok" => arrived
    /\ answer = "refusal" => ~arrived
    /\ pass' = [pass EXCEPT ![w].at = "record", ![w].to = pass[w].to \ {n},
                            ![w].target = n, ![w].result = answer]
    /\ received' = IF arrived THEN received \cup {<<e, n>>} ELSE received
    /\ repeated' = IF arrived /\ Delivered(e, n) THEN repeated \cup {e} ELSE repeated
    /\ refused' = IF answer = "refusal" THEN refused \cup {e} ELSE refused
    /\ doubtful' = IF answer = "transient" /\ arrived THEN doubtful \cup {e} ELSE doubtful
    /\ sent' = [sent EXCEPT ![e][n] = AtMost(@ + 1)]

Send(w) ==
    /\ pass[w].at = "send"
    /\ \E n \in pass[w].to, answer \in Answer, arrived \in BOOLEAN :
           Request(w, n, answer, arrived)
    /\ UNCHANGED <<eventRows, deliveryRows, active, unused, overtaken, unsubscribed, mishaps>>

\* Mutant: 408, 429 and 5xx are final as well.
GivesUpAtOnce(answer, attempt) == answer # "ok"
GivesUp(answer, attempt) == answer = "refusal" \/ (answer = "transient" /\ attempt >= MaxAttempts)

\* notificationDelivery.update by id, with the attempt counter the pass read.
Outcome(result, attempt) ==
    IF result = "ok" THEN "DELIVERED"
    ELSE IF GivesUp(result, attempt) THEN "DEAD_LETTER" ELSE "WAITING"

\* What is recorded of an answer: when the update fails, the catch records a
\* failed attempt instead, which leaves no record of a good answer.
Recordable(answer) == {answer, "transient"}
Doubted(w, result) ==
    doubtful' = IF pass[w].result = "ok" /\ result # "ok" THEN doubtful \cup {pass[w].event}
                ELSE doubtful

RecordDelivery(w) ==
    LET p == pass[w]
        attempt == AtMost(p.seen[p.target] + 1)
    IN /\ p.at = "record" /\ p.target # Direct
       /\ \E result \in Recordable(p.result) :
              /\ row' = [row EXCEPT ![p.event][p.target] = Outcome(result, attempt)]
              /\ Doubted(w, result)
       /\ tries' = [tries EXCEPT ![p.event][p.target] = attempt]
       /\ pass' = [pass EXCEPT ![w].target = None, ![w].result = None,
                               ![w].at = IF p.to = {} THEN "conclude" ELSE "send"]
       /\ UNCHANGED <<eventRows, active, received, repeated, refused, sent, unused, overtaken,
                      unsubscribed, mishaps>>

\* Rows that keep an event open.  Mutant: rows waiting for a retry do not.
NotYetTried(rows) == {n \in Endpoints : rows[n] = "PENDING"}
StillOpen(rows) == {n \in Endpoints : rows[n] \in Undelivered}

\* findMany over all rows of the event, its subscribers or not.
Conclude(w) ==
    LET p == pass[w]
        rows == row[p.event]
        verdict == IF \E n \in Endpoints : rows[n] = "DEAD_LETTER" THEN "dead"
                   ELSE IF StillOpen(rows) = {} THEN "done"
                   ELSE IF \E n \in StillOpen(rows) : rows[n] \in Deliverable THEN "now"
                   ELSE "later"
    IN /\ p.at = "conclude"
       /\ pass' = [pass EXCEPT ![w].at = "close", ![w].to = {}, ![w].result = verdict]
       /\ UNCHANGED <<eventRows, deliveryRows, active, history>>

\* outboxEvent.update by id: whoever holds the claim by now loses it.
CloseWith(w, verdict) ==
    LET e == pass[w].event IN
    /\ processed' = IF verdict \in {"done", "unheard"} THEN processed \cup {e} ELSE processed
    /\ dead' = IF verdict = "dead" THEN dead \cup {e} ELSE dead
    /\ ready' = IF verdict = "later" THEN ready \ {e}
                ELSE IF verdict = "now" THEN ready \cup {e} ELSE ready
    /\ claim' = [claim EXCEPT ![e] = None]
    /\ stale' = stale \ {e}
    /\ unsubscribed' = IF verdict = "unheard" THEN unsubscribed \cup {e} ELSE unsubscribed
    /\ NextEvent(w, pass[w].batch)
    /\ UNCHANGED <<written, attempts, deliveryRows, active, received, repeated, refused,
                   sent, unused, overtaken, mishaps>>

Close(w) == pass[w].at = "close" /\ CloseWith(w, pass[w].result) /\ UNCHANGED doubtful

\* The answer of a direct delivery decides over the event itself.
CloseDirect(w) ==
    LET p == pass[w] IN
    /\ p.at = "record" /\ p.target = Direct
    /\ \E result \in Recordable(p.result) :
           /\ CloseWith(w, IF result = "ok" THEN "done"
                           ELSE IF GivesUp(result, p.seen[Direct]) THEN "dead" ELSE "later")
           /\ Doubted(w, result)

\* The events of a pass that it has made no request of.
Unsent(w) == pass[w].batch \cup IF pass[w].at = "send" THEN {pass[w].event} ELSE {}

\* The process dies, or the update in a catch fails, which ends the pass.  Its
\* claims stay, under a token nobody has.
Crash(w) ==
    /\ pass[w].at # "idle"
    /\ mishaps < MaxMishaps
    /\ mishaps' = mishaps + 1
    /\ claim' = [e \in Events |-> IF claim[e] = w THEN Lost ELSE claim[e]]
    /\ doubtful' = IF pass[w].at = "record" THEN doubtful \cup {pass[w].event} ELSE doubtful
    /\ unused' = [e \in Events |-> IF e \in DirectEvents \cap Unsent(w)
                                   THEN AtMost(unused[e] + 1) ELSE unused[e]]
    /\ pass' = [pass EXCEPT ![w] = Idle]
    /\ UNCHANGED <<written, processed, dead, ready, stale, attempts, deliveryRows, active,
                   received, repeated, refused, sent, overtaken, unsubscribed>>

-----------------------------------------------------------------------------
(* Time, and the endpoint routes.                                          *)

\* claimedAt of an abandoned event becomes five minutes old ...
ClaimExpires(e) ==
    /\ claim[e] = Lost /\ e \notin stale
    /\ stale' = stale \cup {e}
    /\ UNCHANGED <<written, processed, dead, ready, claim, attempts, deliveryRows, active,
                   pass, history>>

\* ... or does so while its pass is still at work.
PassTooSlow(e) ==
    /\ e \in Slow /\ claim[e] \in Workers /\ e \notin stale
    /\ mishaps < MaxMishaps
    /\ mishaps' = mishaps + 1
    /\ stale' = stale \cup {e}
    /\ UNCHANGED <<written, processed, dead, ready, claim, attempts, deliveryRows, active,
                   pass, received, repeated, refused, doubtful, sent, unused, overtaken,
                   unsubscribed>>

\* nextAttemptAt of a row has come, which each pass looks at for itself.
FallsDue(e, n) ==
    /\ e \notin processed \cup dead /\ row[e][n] = "WAITING"
    /\ row' = [row EXCEPT ![e][n] = "DUE"]
    /\ UNCHANGED <<eventRows, tries, active, pass, history>>

\* availableAt has come: the earliest nextAttemptAt of the rows, or the time of
\* a direct event's next attempt.
BackoffEnds(e) ==
    /\ e \in written \ (processed \cup dead \cup ready)
    /\ \/ \E n \in Endpoints : row[e][n] = "DUE"
       \/ \A n \in Endpoints : row[e][n] # "WAITING"
    /\ ready' = ready \cup {e}
    /\ UNCHANGED <<written, processed, dead, claim, stale, attempts, deliveryRows, active, pass,
                   history>>

\* PATCH of an endpoint: ACTIVE or PAUSED (deleting one pauses it).
SetStatus(n) ==
    /\ active' = IF n \in active THEN active \ {n} ELSE active \cup {n}
    /\ UNCHANGED <<eventRows, deliveryRows, pass, history>>

Proceed(w) ==
    \/ Load(w) \/ Open(w) \/ Send(w) \/ RecordDelivery(w) \/ Conclude(w)
    \/ Close(w) \/ CloseDirect(w)

Elapse(e) ==
    ClaimExpires(e) \/ BackoffEnds(e) \/ \E n \in Endpoints : FallsDue(e, n)

Next ==
    \/ \E e \in Events : Write(e) \/ Elapse(e) \/ PassTooSlow(e)
    \/ \E w \in Workers : ClaimEvents(w) \/ Proceed(w) \/ Crash(w)
    \/ \E n \in Pausable : SetStatus(n)

Spec == Init /\ [][Next]_vars

\* The cron route starts passes for ever, a pass that lives goes on, time passes.
Fairness ==
    /\ \A w \in Workers : WF_vars(ClaimEvents(w) \/ Proceed(w))
    /\ \A e \in Events : WF_vars(Elapse(e))

FairSpec == Spec /\ Fairness

-----------------------------------------------------------------------------
(* Properties.                                                             *)

(***************************************************************************)
(* No endpoint receives an event a second time, however passes overlap and *)
(* retry, unless no record of the first delivery was left (its answer was  *)
(* lost, its pass died) or a pass was slower than its claim.               *)
(***************************************************************************)
DeliveredOnce == repeated \subseteq doubtful \cup overtaken

(***************************************************************************)
(* An event that counts as processed has reached every endpoint it was     *)
(* opened for; only one that found no active endpoint left is given up     *)
(* silently, and only a pass slower than its claim can break this.         *)
(***************************************************************************)
ProcessedReached ==
    \A e \in processed \ (overtaken \cup unsubscribed) :
        /\ e \in DirectEvents => Delivered(e, Direct)
        /\ \A n \in Endpoints : row[e][n] # "none" => Delivered(e, n)

(***************************************************************************)
(* An event becomes a dead letter only after a definite refusal or after   *)
(* MAX_ATTEMPTS calls of deliver for one destination, however passes crash *)
(* and retry.  The one thing that costs an attempt without a call is the   *)
(* claim of a direct event whose pass dies first, because claimEvents has  *)
(* counted it already (notification-service.ts:58, compared at 82 and 86). *)
(***************************************************************************)
GivenUp(e) ==
    \/ e \in refused
    \/ \E n \in Endpoints : row[e][n] = "DEAD_LETTER" /\ sent[e][n] >= MaxAttempts
    \/ e \in DirectEvents /\ sent[e][Direct] + unused[e] >= MaxAttempts

DeadLetterEarned == \A e \in dead \ overtaken : GivenUp(e)

(***************************************************************************)
(* Liveness: every event is processed or given up in the end (there is     *)
(* none open, again and again), through lost answers, failed updates and   *)
(* dead passes, unless an endpoint paused with a delivery outstanding      *)
(* keeps one open: such an event is due in every pass.                     *)
(***************************************************************************)
EventsSettle == []<>(\E e \in Events : HeldOpen(e)) \/ []<>(written = processed \cup dead)
=============================================================================
