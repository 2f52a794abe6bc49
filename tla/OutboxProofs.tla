---------------------------- MODULE OutboxProofs ----------------------------
(***************************************************************************)
(* The safety of Outbox for every value of its constants.  Four layers,    *)
(* proved as one inductive invariant: types, who holds the claim of an     *)
(* event, what its delivery rows say of what arrived, and what its         *)
(* counters say of the calls made.                                         *)
(***************************************************************************)
EXTENDS Outbox, TLAPS

USE DEF eventRows, deliveryRows, history

-----------------------------------------------------------------------------
(* Layer 1: types, with what the step of a pass says of its locals.        *)

WellFormed(w) ==
    LET p == pass[w] IN
    /\ WorksOn(w) \subseteq written
    /\ p.at = "idle" => WorksOn(w) = {}
    /\ p.at \in {"idle", "load"} <=> p.event = None
    /\ p.event \notin p.batch
    /\ p.at \in {"open", "conclude", "close"} => p.event \notin DirectEvents
    /\ p.at \in {"open", "send", "record"} =>
           p.to \subseteq IF p.event \in DirectEvents THEN {Direct} ELSE Endpoints
    /\ p.at = "record" =>
           /\ p.target \in IF p.event \in DirectEvents THEN {Direct} ELSE Endpoints
           /\ p.target \notin p.to
           /\ p.result \in Answer
    /\ p.at = "close" => p.result \in Verdict

PassWellFormed == \A w \in Workers : WellFormed(w)

TypeInv == TypeOK /\ PassWellFormed

-----------------------------------------------------------------------------
(* Layer 2: claims.                                                        *)

\* Who works on an event holds its claim, and it is open, unless a claim was
\* taken over from a live pass.
Held ==
    \A w \in Workers : \A e \in WorksOn(w) \ overtaken :
        claim[e] = w /\ e \notin processed \cup dead

-----------------------------------------------------------------------------
(* Layer 3: deliveries.                                                    *)

\* What a pass is about to send, or has sent, is not yet recorded.
InHand ==
    \A w \in Workers : pass[w].at \in {"send", "record"} /\ pass[w].event \notin overtaken =>
        \A n \in Endpoints :
            n \in pass[w].to \/ (pass[w].at = "record" /\ pass[w].target = n)
                => row[pass[w].event][n] \in Deliverable

\* A recorded delivery arrived, and so did the one a pass is about to record.
RowsArrived == \A e \in Events, n \in Endpoints : row[e][n] = "DELIVERED" => Delivered(e, n)

Recording(w, e, n) ==
    /\ pass[w].at = "record" /\ pass[w].result = "ok"
    /\ pass[w].event = e /\ pass[w].target = n

AnswersArrived ==
    \A w \in Workers, e \in Events, n \in Targets : Recording(w, e, n) => Delivered(e, n)

\* What arrived is recorded, or about to be, or left no record of its answer.
Recorded(e, n) == (n \in Endpoints /\ row[e][n] = "DELIVERED") \/ (n = Direct /\ e \in processed)

ArrivedRecorded ==
    \A e \in Events \ (doubtful \cup overtaken), n \in Targets :
        Delivered(e, n) => Recorded(e, n) \/ \E w \in Workers : Recording(w, e, n)

\* A row is given up for a reason.  Direct events have none: their attempts
\* are counted in the event.
RowsGivenUp ==
    \A e \in Events, n \in Endpoints :
        /\ e \in DirectEvents => row[e][n] = "none"
        /\ row[e][n] = "DEAD_LETTER" => e \in refused \/ sent[e][n] >= MaxAttempts

Refusals ==
    \A w \in Workers : pass[w].at = "record" /\ pass[w].result = "refusal" =>
        pass[w].event \in refused

AttemptsRead ==
    \A w \in Workers : pass[w].at \in {"send", "record"} /\ pass[w].event \in DirectEvents =>
        pass[w].seen[Direct] <= attempts[pass[w].event]

\* A verdict stays true of the rows it was drawn from.
AllReached(e) == \A n \in Endpoints : row[e][n] \in {"none", "DELIVERED"}
OneGivenUp(e) == \E n \in Endpoints : row[e][n] = "DEAD_LETTER"

VerdictTrue ==
    \A w \in Workers : pass[w].at = "close" /\ pass[w].event \notin overtaken =>
        /\ pass[w].result = "done" => AllReached(pass[w].event)
        /\ pass[w].result = "dead" => OneGivenUp(pass[w].event)

ProcessedTrue ==
    \A e \in processed \ (overtaken \cup unsubscribed) :
        /\ AllReached(e)
        /\ e \in DirectEvents => Delivered(e, Direct)

DeadTrue ==
    \A e \in dead \ overtaken :
        \/ OneGivenUp(e)
        \/ e \in DirectEvents /\ (e \in refused \/ sent[e][Direct] + unused[e] >= MaxAttempts)

-----------------------------------------------------------------------------
(* Layer 4: attempts and requests.                                         *)

\* The counter of a row never runs ahead of the calls made, nor does what
\* a pass has read of it or is about to write.
TriesSent == \A e \in Events, n \in Endpoints : tries[e][n] <= sent[e][n]

SeenSent ==
    \A w \in Workers :
        pass[w].at \in {"send", "record"} /\ pass[w].event \notin DirectEvents =>
            /\ \A n \in pass[w].to : pass[w].seen[n] <= sent[pass[w].event][n]
            /\ pass[w].at = "record" =>
                   AtMost(pass[w].seen[pass[w].target] + 1) <= sent[pass[w].event][pass[w].target]

\* The attempts of a direct event run ahead by the claim whose call is to come.
ClaimsUsed ==
    \A e \in DirectEvents \ overtaken :
        /\ attempts[e] <= sent[e][Direct] + unused[e] + 1
        /\ (\A w \in Workers : e \notin Unsent(w)) => attempts[e] <= sent[e][Direct] + unused[e]

Counted == TriesSent /\ SeenSent /\ ClaimsUsed

IInv ==
    /\ TypeInv /\ Held
    /\ InHand /\ RowsArrived /\ AnswersArrived /\ ArrivedRecorded
    /\ RowsGivenUp /\ Refusals /\ AttemptsRead
    /\ VerdictTrue /\ ProcessedTrue /\ DeadTrue
    /\ Counted
    /\ DeliveredOnce

-----------------------------------------------------------------------------
(***************************************************************************)
(* What the module assumes of its constants, and of the tokens.            *)
(***************************************************************************)
LEMMA Constants ==
    /\ DirectEvents \subseteq Events /\ Pausable \subseteq Endpoints
    /\ MaxAttempts \in Nat /\ MaxAttempts # 0 /\ MaxMishaps \in Nat
    /\ Direct \notin Endpoints /\ Targets = Endpoints \cup {Direct}
    /\ None \notin Workers /\ None \notin Targets /\ None \notin Events
    /\ Lost \notin Workers /\ Lost # None
BY ConstantsAssumption DEF ConstantsAssumption, Targets

(***************************************************************************)
(* A fresh record of a pass.                                               *)
(***************************************************************************)
LEMMA IdleType ==
    /\ Idle \in PassState
    /\ Idle.at = "idle" /\ Idle.batch = {} /\ Idle.event = None /\ Idle.to = {}
    /\ Idle.seen = [n \in Targets |-> 0] /\ Idle.target = None /\ Idle.result = None
BY Constants DEF Idle, PassState, Step

(***************************************************************************)
(* The fields of a well typed record.                                      *)
(***************************************************************************)
LEMMA Fields ==
    ASSUME TypeInv, NEW w \in Workers
    PROVE  /\ pass[w] \in PassState
           /\ pass[w].batch \subseteq Events /\ pass[w].event \in Events \cup {None}
           /\ pass[w].to \subseteq Targets /\ pass[w].target \in Targets \cup {None}
           /\ pass[w].seen \in [Targets -> 0 .. MaxAttempts]
           /\ pass[w].at \notin {"idle", "load"} =>
                  pass[w].event \in Events /\ pass[w].event \in WorksOn(w)
BY Constants DEF TypeInv, TypeOK, PassState, PassWellFormed, WellFormed, WorksOn

(***************************************************************************)
(* No two passes work on an event, unless its claim was taken over.        *)
(***************************************************************************)
LEMMA Alone ==
    ASSUME Held, NEW v \in Workers, NEW w \in Workers, v # w, NEW e,
           e \in WorksOn(v), e \in WorksOn(w)
    PROVE  e \in overtaken
BY DEF Held

(***************************************************************************)
(* What arrived stays recorded if no record is taken back and no answer    *)
(* in hand is dropped without a trace.                                     *)
(***************************************************************************)
LEMMA ArrivedKept ==
    ASSUME ArrivedRecorded, received' = received,
           doubtful \subseteq doubtful', overtaken \subseteq overtaken',
           processed \subseteq processed',
           \A e \in Events \ overtaken', n \in Endpoints :
               row[e][n] = "DELIVERED" => row'[e][n] = "DELIVERED",
           \A w \in Workers, e \in Events \ (doubtful' \cup overtaken'), n \in Targets :
               Recording(w, e, n) => Recording(w, e, n)' \/ Recorded(e, n)'
    PROVE  ArrivedRecorded'
<1> SUFFICES ASSUME NEW e \in Events \ (doubtful' \cup overtaken'), NEW n \in Targets,
                    Delivered(e, n)'
             PROVE  Recorded(e, n)' \/ \E w \in Workers : Recording(w, e, n)'
  BY DEF ArrivedRecorded
<1>1. Recorded(e, n) \/ \E w \in Workers : Recording(w, e, n)
  BY DEF ArrivedRecorded, Delivered
<1>2. Recorded(e, n) => Recorded(e, n)'
  BY DEF Recorded
<1> QED
  BY <1>1, <1>2

(***************************************************************************)
(* Verdicts stay true of an event no pass writes to: its rows are the same.*)
(***************************************************************************)
RowsKept(e) ==
    /\ AllReached(e) => AllReached(e)'
    /\ OneGivenUp(e) => OneGivenUp(e)'

LEMMA SameRows == ASSUME NEW e, row'[e] = row[e] PROVE RowsKept(e)
BY DEF RowsKept, AllReached, OneGivenUp

LEMMA ClosedKept ==
    ASSUME ProcessedTrue, DeadTrue, processed' = processed, dead' = dead,
           received \subseteq received', refused \subseteq refused',
           overtaken \subseteq overtaken', unsubscribed' = unsubscribed,
           \A e \in Events :
               /\ sent[e][Direct] \in Nat /\ sent'[e][Direct] \in Nat /\ sent[e][Direct] <= sent'[e][Direct]
               /\ unused[e] \in Nat /\ unused'[e] \in Nat /\ unused[e] <= unused'[e],
           dead \subseteq Events,
           \A e \in (processed \cup dead) \ overtaken' : RowsKept(e)
    PROVE  ProcessedTrue' /\ DeadTrue'
<1>1. ProcessedTrue'
  BY DEF ProcessedTrue, RowsKept, Delivered
<1>2. DeadTrue'
  BY Constants DEF DeadTrue, RowsKept
<1> QED
  BY <1>1, <1>2

LEMMA VerdictsKept ==
    ASSUME VerdictTrue, overtaken \subseteq overtaken',
           \A w \in Workers : pass'[w].at = "close" =>
               /\ pass[w].at = "close" /\ pass[w].event = pass'[w].event
               /\ pass[w].result = pass'[w].result
               /\ pass[w].event \notin overtaken' => RowsKept(pass[w].event)
    PROVE  VerdictTrue'
BY DEF VerdictTrue, RowsKept

(***************************************************************************)
(* A step that neither sends nor claims keeps the counters in their order. *)
(***************************************************************************)
LEMMA CountedKept ==
    ASSUME Counted, tries' = tries, attempts' = attempts, sent' = sent, unused' = unused,
           overtaken \subseteq overtaken',
           \A w \in Workers :
               /\ pass'[w].at \in {"send", "record"} /\ pass'[w].event \notin DirectEvents =>
                      pass'[w] = pass[w]
               /\ \A e \in DirectEvents \ overtaken' : e \in Unsent(w) => e \in Unsent(w)'
    PROVE  Counted'
<1>1. TriesSent'
  BY DEF Counted, TriesSent
<1>2. SeenSent'
  BY DEF Counted, SeenSent
<1>3. ClaimsUsed'
  BY DEF Counted, ClaimsUsed
<1> QED
  BY <1>1, <1>2, <1>3 DEF Counted

(***************************************************************************)
(* A step of one pass.                                                     *)
(***************************************************************************)
LEMMA PassStep ==
    ASSUME TypeInv, NEW w \in Workers, NEW q \in PassState, pass' = [pass EXCEPT ![w] = q]
    PROVE  /\ pass' \in [Workers -> PassState]
           /\ pass'[w] = q
           /\ \A v \in Workers \ {w} : pass'[v] = pass[v]
BY DEF TypeInv, TypeOK

(***************************************************************************)
(* Every step keeps the invariant.                                         *)
(***************************************************************************)
LEMMA InvStep ==
    ASSUME IInv, [Next]_vars
    PROVE  IInv'
<1>t. IInv
  OBVIOUS
<1>f. \A v \in Workers :
          /\ pass[v] \in PassState
          /\ pass[v].batch \subseteq Events /\ pass[v].event \in Events \cup {None}
          /\ pass[v].to \subseteq Targets /\ pass[v].target \in Targets \cup {None}
          /\ pass[v].seen \in [Targets -> 0 .. MaxAttempts]
          /\ pass[v].at \notin {"idle", "load"} =>
                 pass[v].event \in Events /\ pass[v].event \in WorksOn(v)
  BY <1>t, Fields DEF IInv
<1>n. \A e \in Events :
          /\ unused[e] \in 0 .. MaxAttempts /\ attempts[e] \in 0 .. MaxAttempts
          /\ \A n \in Targets : sent[e][n] \in 0 .. MaxAttempts
          /\ sent[e][Direct] \in Nat /\ unused[e] \in Nat
  BY <1>t, Constants DEF IInv, TypeInv, TypeOK
<1>1. ASSUME NEW e \in Events, Write(e) PROVE IInv'
  <2>1. /\ written' = written \cup {e} /\ ready' = ready \cup {e}
        /\ UNCHANGED <<processed, dead, claim, stale, attempts, deliveryRows, active, pass, history>>
    BY <1>1 DEF Write
  <2>2. TypeOK'
    BY <1>t, <2>1 DEF IInv, TypeInv, TypeOK
  <2>3. PassWellFormed'
    BY <1>t, <2>1 DEF IInv, TypeInv, PassWellFormed, WellFormed, WorksOn
  <2>4. Held'
    BY <1>t, <2>1 DEF IInv, Held, WorksOn
  <2>5. InHand'
    BY <1>t, <2>1 DEF IInv, InHand
  <2>6. RowsArrived'
    BY <1>t, <2>1 DEF IInv, RowsArrived, Delivered
  <2>7. AnswersArrived'
    BY <1>t, <2>1 DEF IInv, AnswersArrived, Recording, Delivered
  <2>8. ArrivedRecorded'
    BY <1>t, <2>1, ArrivedKept DEF IInv, Recording
  <2>9. RowsGivenUp'
    BY <1>t, <2>1 DEF IInv, RowsGivenUp
  <2>10. Refusals'
    BY <1>t, <2>1 DEF IInv, Refusals
  <2>11. AttemptsRead'
    BY <1>t, <2>1 DEF IInv, AttemptsRead
  <2>12. VerdictTrue'
    BY <1>t, <2>1, VerdictsKept, SameRows DEF IInv
  <2>13. ProcessedTrue' /\ DeadTrue'
    BY <1>t, <2>1, <1>n, ClosedKept, SameRows DEF IInv, TypeInv, TypeOK
  <2>14. DeliveredOnce'
    BY <1>t, <2>1 DEF IInv, DeliveredOnce
  <2>c. Counted'
    BY <1>t, <2>1, CountedKept DEF IInv, Unsent
  <2> QED
    BY <2>2, <2>3, <2>4, <2>5, <2>6, <2>7, <2>8, <2>9, <2>10, <2>11, <2>12,
       <2>13, <2>14, <2>c DEF IInv, TypeInv
<1>2. ASSUME NEW e \in Events, ClaimExpires(e) PROVE IInv'
  <2>1. /\ stale' = stale \cup {e}
        /\ UNCHANGED <<written, processed, dead, ready, claim, attempts, deliveryRows, active,
                       pass, history>>
    BY <1>2 DEF ClaimExpires
  <2>2. TypeOK'
    BY <1>t, <2>1 DEF IInv, TypeInv, TypeOK
  <2>3. PassWellFormed'
    BY <1>t, <2>1 DEF IInv, TypeInv, PassWellFormed, WellFormed, WorksOn
  <2>4. Held'
    BY <1>t, <2>1 DEF IInv, Held, WorksOn
  <2>5. InHand'
    BY <1>t, <2>1 DEF IInv, InHand
  <2>6. RowsArrived'
    BY <1>t, <2>1 DEF IInv, RowsArrived, Delivered
  <2>7. AnswersArrived'
    BY <1>t, <2>1 DEF IInv, AnswersArrived, Recording, Delivered
  <2>8. ArrivedRecorded'
    BY <1>t, <2>1, ArrivedKept DEF IInv, Recording
  <2>9. RowsGivenUp'
    BY <1>t, <2>1 DEF IInv, RowsGivenUp
  <2>10. Refusals'
    BY <1>t, <2>1 DEF IInv, Refusals
  <2>11. AttemptsRead'
    BY <1>t, <2>1 DEF IInv, AttemptsRead
  <2>12. VerdictTrue'
    BY <1>t, <2>1, VerdictsKept, SameRows DEF IInv
  <2>13. ProcessedTrue' /\ DeadTrue'
    BY <1>t, <2>1, <1>n, ClosedKept, SameRows DEF IInv, TypeInv, TypeOK
  <2>14. DeliveredOnce'
    BY <1>t, <2>1 DEF IInv, DeliveredOnce
  <2>c. Counted'
    BY <1>t, <2>1, CountedKept DEF IInv, Unsent
  <2> QED
    BY <2>2, <2>3, <2>4, <2>5, <2>6, <2>7, <2>8, <2>9, <2>10, <2>11, <2>12,
       <2>13, <2>14, <2>c DEF IInv, TypeInv
<1>3. ASSUME NEW e \in Events, PassTooSlow(e) PROVE IInv'
  <2>1. /\ mishaps < MaxMishaps /\ mishaps' = mishaps + 1 /\ stale' = stale \cup {e}
        /\ UNCHANGED <<written, processed, dead, ready, claim, attempts, deliveryRows, active, pass,
                       received, repeated, refused, doubtful, sent, unused, overtaken,
                       unsubscribed>>
    BY <1>3 DEF PassTooSlow
  <2>m. mishaps' \in 0 .. MaxMishaps
    BY <1>t, Constants, <2>1 DEF IInv, TypeInv, TypeOK
  <2>2. TypeOK'
    BY <1>t, <2>1, <2>m DEF IInv, TypeInv, TypeOK
  <2>3. PassWellFormed'
    BY <1>t, <2>1 DEF IInv, TypeInv, PassWellFormed, WellFormed, WorksOn
  <2>4. Held'
    BY <1>t, <2>1 DEF IInv, Held, WorksOn
  <2>5. InHand'
    BY <1>t, <2>1 DEF IInv, InHand
  <2>6. RowsArrived'
    BY <1>t, <2>1 DEF IInv, RowsArrived, Delivered
  <2>7. AnswersArrived'
    BY <1>t, <2>1 DEF IInv, AnswersArrived, Recording, Delivered
  <2>8. ArrivedRecorded'
    BY <1>t, <2>1, ArrivedKept DEF IInv, Recording
  <2>9. RowsGivenUp'
    BY <1>t, <2>1 DEF IInv, RowsGivenUp
  <2>10. Refusals'
    BY <1>t, <2>1 DEF IInv, Refusals
  <2>11. AttemptsRead'
    BY <1>t, <2>1 DEF IInv, AttemptsRead
  <2>12. VerdictTrue'
    BY <1>t, <2>1, VerdictsKept, SameRows DEF IInv
  <2>13. ProcessedTrue' /\ DeadTrue'
    BY <1>t, <2>1, <1>n, ClosedKept, SameRows DEF IInv, TypeInv, TypeOK
  <2>14. DeliveredOnce'
    BY <1>t, <2>1 DEF IInv, DeliveredOnce
  <2>c. Counted'
    BY <1>t, <2>1, CountedKept DEF IInv, Unsent
  <2> QED
    BY <2>2, <2>3, <2>4, <2>5, <2>6, <2>7, <2>8, <2>9, <2>10, <2>11, <2>12,
       <2>13, <2>14, <2>c DEF IInv, TypeInv
<1>4. ASSUME NEW e \in Events, NEW m \in Endpoints, FallsDue(e, m) PROVE IInv'
  <2>1. UNCHANGED <<eventRows, tries, active, pass, history>>
    BY <1>4 DEF FallsDue
  <2>2. /\ row' \in [Events -> [Endpoints -> RowStatus]]
        /\ \A f \in Events, n \in Endpoints :
               row'[f][n] = row[f][n] \/ (row[f][n] = "WAITING" /\ row'[f][n] = "DUE")
    BY <1>t, <1>4 DEF IInv, TypeInv, TypeOK, RowStatus, FallsDue
  <2>3. \A f \in Events : RowsKept(f)
    BY <2>2 DEF RowsKept, AllReached, OneGivenUp
  <2>4. TypeOK'
    BY <1>t, <2>1, <2>2 DEF IInv, TypeInv, TypeOK
  <2>5. PassWellFormed'
    BY <1>t, <2>1 DEF IInv, TypeInv, PassWellFormed, WellFormed, WorksOn
  <2>6. Held'
    BY <1>t, <2>1 DEF IInv, Held, WorksOn
  <2>7. InHand'
    BY <1>t, <1>f, <2>1, <2>2 DEF IInv, InHand, Deliverable
  <2>8. RowsArrived'
    BY <1>t, <2>1, <2>2 DEF IInv, RowsArrived, Delivered
  <2>9. AnswersArrived'
    BY <1>t, <2>1 DEF IInv, AnswersArrived, Recording, Delivered
  <2>10. ArrivedRecorded'
    BY <1>t, <2>1, <2>2, ArrivedKept DEF IInv, Recording
  <2>11. RowsGivenUp'
    BY <1>t, <2>1, <2>2 DEF IInv, RowsGivenUp
  <2>12. Refusals'
    BY <1>t, <2>1 DEF IInv, Refusals
  <2>13. AttemptsRead'
    BY <1>t, <2>1 DEF IInv, AttemptsRead
  <2>14. VerdictTrue'
    BY <1>t, <1>f, <2>1, <2>3, VerdictsKept DEF IInv
  <2>15. ProcessedTrue' /\ DeadTrue'
    BY <1>t, <2>1, <2>3, <1>n, ClosedKept DEF IInv, TypeInv, TypeOK
  <2>16. DeliveredOnce'
    BY <1>t, <2>1 DEF IInv, DeliveredOnce
  <2>c. Counted'
    BY <1>t, <2>1, CountedKept DEF IInv, Unsent
  <2> QED
    BY <2>4, <2>5, <2>6, <2>7, <2>8, <2>9, <2>10, <2>11, <2>12, <2>13, <2>14,
       <2>15, <2>16, <2>c DEF IInv, TypeInv
<1>5. ASSUME NEW w \in Workers, ClaimEvents(w) PROVE IInv'
  <2>1. PICK taken : /\ taken \subseteq Candidates
                     /\ claim' = [e \in Events |-> IF e \in taken THEN w ELSE claim[e]]
                     /\ stale' = stale \ taken
                     /\ attempts' = [e \in Events |-> IF e \in taken \cap DirectEvents
                                                      THEN AtMost(attempts[e] + 1) ELSE attempts[e]]
                     /\ overtaken' = overtaken \cup
                            {e \in taken \cap stale : \E v \in Workers \ {w} : e \in WorksOn(v)}
                     /\ pass' = [pass EXCEPT ![w].at = "load", ![w].batch = taken]
    BY <1>5 DEF ClaimEvents, Oldest
  <2>2. /\ pass[w].at = "idle" /\ pass[w].event = None
        /\ UNCHANGED <<written, processed, dead, ready, deliveryRows, active, received, repeated,
                       refused, doubtful, sent, unused, unsubscribed, mishaps>>
    BY <1>t, <1>5 DEF IInv, TypeInv, PassWellFormed, WellFormed, ClaimEvents
  <2>3. /\ taken \subseteq written /\ taken \subseteq Events
        /\ taken \cap (processed \cup dead) = {}
    BY <1>t, <2>1 DEF IInv, TypeInv, TypeOK, Candidates
  <2>4. PICK q \in PassState :
            /\ pass' = [pass EXCEPT ![w] = q]
            /\ q.at = "load" /\ q.batch = taken /\ q.event = pass[w].event
    <3> DEFINE x == [pass[w] EXCEPT !.at = "load", !.batch = taken]
    <3>2. pass' = [pass EXCEPT ![w] = x]
      BY <1>t, <1>5, <2>1 DEF IInv, TypeInv, TypeOK, PassState, ClaimEvents
    <3>p. pass[w] \in PassState
      BY <1>f
    <3>1. x \in PassState
      BY <3>p, <2>3 DEF PassState, Step, Answer, Verdict
    <3>3. /\ x.at = "load" /\ x.batch = taken /\ x.event = pass[w].event
      BY <3>p DEF PassState
    <3> HIDE DEF x
    <3> QED
      BY <3>1, <3>2, <3>3
  <2>5. /\ pass' \in [Workers -> PassState] /\ pass'[w] = q
        /\ \A v \in Workers \ {w} : pass'[v] = pass[v]
    BY <1>t, PassStep, <2>4 DEF IInv
  <2>6. \A e \in taken \ overtaken' : \A v \in Workers : e \notin WorksOn(v)
    <3> SUFFICES ASSUME NEW e \in taken \ overtaken', NEW v \in Workers, e \in WorksOn(v)
                 PROVE  FALSE
      OBVIOUS
    <3>1. v # w
      BY <1>t, <2>2 DEF IInv, TypeInv, PassWellFormed, WellFormed
    <3>2. e \notin stale /\ e \notin overtaken
      BY <2>1, <3>1
    <3>3. claim[e] = v
      BY <1>t, <3>2 DEF IInv, Held
    <3> QED
      BY <2>1, <3>2, <3>3, Constants DEF Candidates, Claimable
  <2>7. \A e \in Events : attempts'[e] \in 0 .. MaxAttempts /\ attempts[e] <= attempts'[e]
    BY <1>t, Constants, <2>1 DEF IInv, TypeInv, TypeOK, AtMost
  <2>8. TypeOK'
    BY <1>t, <2>1, <2>2, <2>5, <2>7 DEF IInv, TypeInv, TypeOK
  <2>9. PassWellFormed'
    BY <1>t, Constants, <2>2, <2>3, <2>4
    DEF IInv, TypeInv, PassWellFormed, WellFormed, WorksOn
  <2>10. Held'
    BY <1>t, <2>1, <2>2, <2>3, <2>6
    DEF IInv, TypeInv, TypeOK, Held, WorksOn, PassWellFormed, WellFormed
  <2>11. InHand'
    BY <1>t, <2>1, <2>2, <2>5 DEF IInv, InHand
  <2>12. RowsArrived'
    BY <1>t, <2>2 DEF IInv, RowsArrived, Delivered
  <2>13. AnswersArrived'
    BY <1>t, <2>2, <2>4 DEF IInv, AnswersArrived, Recording, Delivered
  <2>14. ArrivedRecorded'
    BY <1>t, <2>1, <2>2, <2>5, ArrivedKept DEF IInv, Recording
  <2>15. RowsGivenUp'
    BY <1>t, <2>2 DEF IInv, RowsGivenUp
  <2>16. Refusals'
    BY <1>t, <2>2, <2>4 DEF IInv, Refusals
  <2>17. AttemptsRead'
    BY <1>t, Constants, <1>f, <2>4, <2>7 DEF IInv, TypeInv, TypeOK, AttemptsRead
  <2>18. VerdictTrue'
    BY <1>t, <2>1, <2>2, <2>5, VerdictsKept, SameRows DEF IInv
  <2>19. ProcessedTrue' /\ DeadTrue'
    BY <1>t, <2>1, <2>2, <2>7, <1>n, ClosedKept, SameRows DEF IInv, TypeInv, TypeOK
  <2>20. DeliveredOnce'
    BY <1>t, <2>1, <2>2 DEF IInv, DeliveredOnce
  <2>c. Counted'
    <3>1. TriesSent'
      BY <1>t, <2>2 DEF IInv, Counted, TriesSent
    <3>2. SeenSent'
      BY <1>t, <2>2, <2>4, <2>5 DEF IInv, Counted, SeenSent
    <3>3. ASSUME NEW e \in DirectEvents \ overtaken'
          PROVE  /\ attempts'[e] <= sent[e][Direct] + unused[e] + 1
                 /\ (\A v \in Workers : e \notin Unsent(v)') => attempts'[e] <= sent[e][Direct] + unused[e]
      <4>1. e \in Events /\ e \notin overtaken
        BY <2>1, Constants
      <4>2. CASE e \in taken
        <5>1. \A v \in Workers : e \notin Unsent(v)
          BY <2>6, <4>1, <4>2, Constants DEF Unsent, WorksOn
        <5>2. attempts[e] <= sent[e][Direct] + unused[e]
          BY <1>t, <4>1, <5>1 DEF IInv, Counted, ClaimsUsed
        <5>3. attempts'[e] <= attempts[e] + 1
          BY <1>n, <2>1, <4>1, <4>2, Constants DEF AtMost
        <5>4. e \in Unsent(w)'
          BY <2>4, <2>5, <4>2 DEF Unsent
        <5> QED
          BY <1>n, <2>7, <4>1, <5>2, <5>3, <5>4
      <4>3. CASE e \notin taken
        <5>1. attempts'[e] = attempts[e]
          BY <2>1, <4>1, <4>3
        <5>2. \A v \in Workers : e \in Unsent(v) => e \in Unsent(v)'
          BY <1>t, <2>2, <2>5 DEF IInv, TypeInv, PassWellFormed, WellFormed, Unsent, WorksOn
        <5> QED
          BY <1>t, <4>1, <5>1, <5>2 DEF IInv, Counted, ClaimsUsed
      <4> QED
        BY <4>2, <4>3
    <3>4. ClaimsUsed'
      BY <2>2, <3>3 DEF ClaimsUsed
    <3> QED
      BY <3>1, <3>2, <3>4 DEF Counted
  <2> QED
    BY <2>8, <2>9, <2>10, <2>11, <2>12, <2>13, <2>14, <2>15, <2>16, <2>17,
       <2>18, <2>19, <2>20, <2>c DEF IInv, TypeInv
<1>6. ASSUME NEW w \in Workers, Load(w) PROVE IInv'
  <2>1. /\ pass[w].at = "load" /\ pass[w].event = None
        /\ UNCHANGED <<eventRows, deliveryRows, active, history>>
    BY <1>t, <1>6 DEF IInv, TypeInv, PassWellFormed, WellFormed, Load
  <2>2. PICK e \in pass[w].batch :
            IF claim[e] # w THEN NextEvent(w, pass[w].batch \ {e})
            ELSE pass' = [pass EXCEPT ![w] =
                     IF e \in DirectEvents
                     THEN [[Idle EXCEPT !.batch = pass[w].batch \ {e}, !.event = e]
                              EXCEPT !.at = "send", !.to = {Direct}, !.seen[Direct] = attempts[e]]
                     ELSE IF active = {}
                     THEN [[Idle EXCEPT !.batch = pass[w].batch \ {e}, !.event = e]
                              EXCEPT !.at = "close", !.result = "unheard"]
                     ELSE [[Idle EXCEPT !.batch = pass[w].batch \ {e}, !.event = e]
                              EXCEPT !.at = "open", !.to = active]]
    BY <1>6 DEF Load
  <2>3. /\ e \in Events /\ e \in WorksOn(w) /\ e # None
        /\ active \subseteq Endpoints /\ pass[w].batch \subseteq WorksOn(w)
    BY <1>t, <1>f, Constants DEF IInv, TypeInv, TypeOK, WorksOn
  <2>4. PICK q \in PassState :
            /\ pass' = [pass EXCEPT ![w] = q]
            /\ q.batch = pass[w].batch \ {e}
            /\ \/ /\ claim[e] # w /\ q.event = None
                  /\ q.at \in {"idle", "load"} /\ (q.at = "idle" <=> pass[w].batch \ {e} = {})
               \/ /\ claim[e] = w /\ q.event = e
                  /\ \/ /\ e \in DirectEvents /\ q.at = "send" /\ q.to = {Direct}
                        /\ q.seen[Direct] = attempts[e]
                     \/ e \notin DirectEvents /\ q.at = "close" /\ q.result = "unheard"
                     \/ e \notin DirectEvents /\ q.at = "open" /\ q.to \subseteq Endpoints
    <3> DEFINE on == [Idle EXCEPT !.batch = pass[w].batch \ {e}, !.event = e]
    <3>p. Idle \in PassState /\ pass[w].batch \in SUBSET Events
      BY <1>f, IdleType
    <3>1. CASE claim[e] # w
      <4> DEFINE a == IF pass[w].batch \ {e} = {} THEN "idle" ELSE "load"
                 x == [Idle EXCEPT !.batch = pass[w].batch \ {e}, !.at = a]
      <4>a. a \in Step /\ a \in {"idle", "load"} /\ (a = "idle" <=> pass[w].batch \ {e} = {})
        BY DEF Step
      <4>2. pass' = [pass EXCEPT ![w] = x]
        BY <2>2, <3>1 DEF NextEvent
      <4> HIDE DEF a
      <4>1. x \in PassState
        BY <3>p, <4>a DEF PassState, Step
      <4>3. /\ x.batch = pass[w].batch \ {e} /\ x.event = None
            /\ x.at \in {"idle", "load"} /\ (x.at = "idle" <=> pass[w].batch \ {e} = {})
        BY IdleType, <4>a DEF PassState
      <4> HIDE DEF x
      <4> QED
        BY <3>1, <4>1, <4>2, <4>3, <2>3
    <3>2. CASE claim[e] = w /\ e \in DirectEvents
      <4> DEFINE x == [on EXCEPT !.at = "send", !.to = {Direct}, !.seen[Direct] = attempts[e]]
      <4>1. x \in PassState
        BY <1>t, <1>f, IdleType, Constants, <2>2 DEF IInv, TypeInv, TypeOK, PassState, Step, Verdict
      <4>2. pass' = [pass EXCEPT ![w] = x]
        BY <2>2, <3>2 DEF NextEvent
      <4>3. /\ x.batch = pass[w].batch \ {e} /\ x.event = e /\ x.at = "send"
            /\ x.to = {Direct} /\ x.seen[Direct] = attempts[e]
        BY IdleType, Constants, <3>2 DEF PassState
      <4> HIDE DEF x
      <4> QED
        BY <3>2, <4>1, <4>2, <4>3, <2>3
    <3>3. CASE claim[e] = w /\ e \notin DirectEvents /\ active = {}
      <4> DEFINE x == [on EXCEPT !.at = "close", !.result = "unheard"]
      <4>1. x \in PassState
        BY <1>t, <1>f, IdleType, Constants, <2>2 DEF IInv, TypeInv, TypeOK, PassState, Step, Verdict
      <4>2. pass' = [pass EXCEPT ![w] = x]
        BY <2>2, <3>3 DEF NextEvent
      <4>3. /\ x.batch = pass[w].batch \ {e} /\ x.event = e /\ x.at = "close"
            /\ x.result = "unheard"
        BY IdleType, Constants, <3>3 DEF PassState
      <4> HIDE DEF x
      <4> QED
        BY <3>3, <4>1, <4>2, <4>3, <2>3
    <3>4. CASE claim[e] = w /\ e \notin DirectEvents /\ active # {}
      <4> DEFINE x == [on EXCEPT !.at = "open", !.to = active]
      <4>1. x \in PassState
        BY <1>t, <1>f, IdleType, Constants, <2>2 DEF IInv, TypeInv, TypeOK, PassState, Step, Verdict
      <4>2. pass' = [pass EXCEPT ![w] = x]
        BY <2>2, <3>4 DEF NextEvent
      <4>3. /\ x.batch = pass[w].batch \ {e} /\ x.event = e /\ x.at = "open"
            /\ x.to = active
        BY IdleType, Constants, <3>4 DEF PassState
      <4> HIDE DEF x
      <4> QED
        BY <3>4, <4>1, <4>2, <4>3, <2>3
    <3> QED
      BY <3>1, <3>2, <3>3, <3>4
  <2>5. /\ pass' \in [Workers -> PassState] /\ pass'[w] = q
        /\ \A v \in Workers \ {w} : pass'[v] = pass[v]
    BY <1>t, PassStep, <2>4 DEF IInv
  <2>6. TypeOK'
    BY <1>t, <2>1, <2>4 DEF IInv, TypeInv, TypeOK
  <2>7. PassWellFormed'
    <3>1. ASSUME NEW v \in Workers, v # w PROVE WellFormed(v)'
      BY <1>t, <2>1, <2>5, <3>1 DEF IInv, TypeInv, PassWellFormed, WellFormed, WorksOn
    <3>2. WellFormed(w)'
      <4>1. pass[w].batch \subseteq written
        BY <1>t DEF IInv, TypeInv, PassWellFormed, WellFormed, WorksOn
      <4>2. CASE q.event = None
        <5>1. /\ q.at \in {"idle", "load"} /\ (q.at = "idle" <=> q.batch = {})
              /\ q.batch \subseteq written /\ None \notin q.batch
          BY <1>f, <2>3, <2>4, <4>1, <4>2, Constants
        <5>2. WorksOn(w)' = q.batch
          BY <2>5, <4>2 DEF WorksOn
        <5> QED
          BY <2>1, <2>5, <4>2, <5>1, <5>2 DEF WellFormed
      <4>3. CASE q.event = e
        BY <2>1, <2>3, <2>4, <2>5, <4>1, <4>3, Constants DEF WellFormed, WorksOn, Verdict
      <4> QED
        BY <2>4, <4>2, <4>3
    <3> QED
      BY <3>1, <3>2 DEF PassWellFormed, WellFormed
  <2>8. Held'
    BY <1>t, <2>1, <2>4 DEF IInv, Held, WorksOn
  <2>9. InHand'
    BY <1>t, Constants, <2>1, <2>4 DEF IInv, InHand
  <2>10. RowsArrived'
    BY <1>t, <2>1 DEF IInv, RowsArrived, Delivered
  <2>11. AnswersArrived'
    BY <1>t, <2>1, <2>4 DEF IInv, AnswersArrived, Recording, Delivered
  <2>12. ArrivedRecorded'
    BY <1>t, <2>1, <2>4, ArrivedKept DEF IInv, Recording
  <2>13. RowsGivenUp'
    BY <1>t, <2>1 DEF IInv, RowsGivenUp
  <2>14. Refusals'
    BY <1>t, <2>1, <2>4 DEF IInv, Refusals
  <2>15. AttemptsRead'
    BY <1>t, <2>1, <2>3, <2>4 DEF IInv, TypeInv, TypeOK, AttemptsRead
  <2>16. VerdictTrue'
    <3> SUFFICES ASSUME NEW v \in Workers, pass'[v].at = "close",
                        pass'[v].event \notin overtaken
                 PROVE  (/\ pass[v].result = "done" => AllReached(pass[v].event)
                         /\ pass[v].result = "dead" => OneGivenUp(pass[v].event))'
      BY <2>1 DEF VerdictTrue
    <3>1. CASE v = w
      BY <2>4, <2>5, <3>1
    <3>2. CASE v # w
      <4>1. /\ pass[v].result = "done" => AllReached(pass[v].event)
            /\ pass[v].result = "dead" => OneGivenUp(pass[v].event)
        BY <1>t, <2>5, <3>2 DEF IInv, VerdictTrue
      <4> QED
        BY <2>1, <2>5, <3>2, <4>1 DEF AllReached, OneGivenUp
    <3> QED
      BY <3>1, <3>2
  <2>17. ProcessedTrue' /\ DeadTrue'
    BY <1>t, <2>1, <1>n, ClosedKept, SameRows DEF IInv, TypeInv, TypeOK
  <2>18. DeliveredOnce'
    BY <1>t, <2>1 DEF IInv, DeliveredOnce
  <2>c. Counted'
    <3>1. \A d \in DirectEvents \ overtaken : d \in Unsent(w) => d \in Unsent(w)'
      <4>1. claim[e] = w \/ e \in overtaken
        BY <1>t, <2>3 DEF IInv, Held
      <4>2. Unsent(w) = pass[w].batch
        BY <2>1 DEF Unsent
      <4>3. Unsent(w)' = q.batch \cup IF q.at = "send" THEN {q.event} ELSE {}
        BY <2>5 DEF Unsent
      <4>4. ASSUME e \in DirectEvents, e \notin overtaken
            PROVE  q.at = "send" /\ q.event = e
        BY <2>4, <4>1, <4>4
      <4> QED
        BY <2>4, <4>2, <4>3, <4>4
    <3> QED
      BY <1>t, <2>1, <2>4, <2>5, <3>1, CountedKept DEF IInv, Unsent
  <2> QED
    BY <2>6, <2>7, <2>8, <2>9, <2>10, <2>11, <2>12, <2>13, <2>14, <2>15,
       <2>16, <2>17, <2>18, <2>c DEF IInv, TypeInv
<1>7. ASSUME NEW w \in Workers, Open(w) PROVE IInv'
  <2>1. pass[w].at = "open" /\ UNCHANGED <<eventRows, tries, active, history>>
    BY <1>7 DEF Open
  <2>2. /\ pass[w].event \in Events \ DirectEvents /\ pass[w].event \in WorksOn(w)
        /\ pass[w].to \subseteq Endpoints
    BY <1>t, <1>f, <2>1 DEF IInv, TypeInv, PassWellFormed, WellFormed
  <2>3. PICK rows : rows = Opened(pass[w].event, pass[w].to)
    OBVIOUS
  <2>4. PICK due : due = Due(rows, pass[w].to)
    OBVIOUS
  <2>5. PICK a \in {"conclude", "send"} : a = IF due = {} THEN "conclude" ELSE "send"
    OBVIOUS
  <2>6. /\ rows \in [Endpoints -> RowStatus]
        /\ \A n \in Endpoints :
               \/ rows[n] = row[pass[w].event][n]
               \/ row[pass[w].event][n] = "none" /\ rows[n] = "PENDING"
    BY <1>t, <2>2, <2>3 DEF IInv, TypeInv, TypeOK, RowStatus, Opened
  <2>7. due \subseteq pass[w].to /\ \A n \in due : rows[n] \in Deliverable
    BY <2>4 DEF Due
  <2>8. row' = [row EXCEPT ![pass[w].event] = rows]
    BY <1>7, <2>3 DEF Open
  <2>9. pass' = [pass EXCEPT ![w].to = due, ![w].seen = Attempted(pass[w].event, due), ![w].at = a]
    BY <1>7, <2>3, <2>4, <2>5 DEF Open
  <2>10. /\ row' \in [Events -> [Endpoints -> RowStatus]] /\ row'[pass[w].event] = rows
        /\ \A f \in Events \ {pass[w].event} : row'[f] = row[f]
    BY <1>t, <2>2, <2>6, <2>8 DEF IInv, TypeInv, TypeOK
  <2>11. Attempted(pass[w].event, due) \in [Targets -> 0 .. MaxAttempts]
    BY <1>t, <2>2, <2>7, Constants DEF IInv, TypeInv, TypeOK, Attempted
  <2>12. PICK q \in PassState :
            /\ pass' = [pass EXCEPT ![w] = q]
            /\ q.to = due /\ q.at = a /\ q.seen = Attempted(pass[w].event, due)
            /\ q.batch = pass[w].batch /\ q.event = pass[w].event
    <3> DEFINE x == [pass[w] EXCEPT !.to = due, !.seen = Attempted(pass[w].event, due), !.at = a]
    <3>2. pass' = [pass EXCEPT ![w] = x]
      BY <1>t, <1>7, <2>9 DEF IInv, TypeInv, TypeOK, PassState, Open
    <3>p. pass[w] \in PassState
      BY <1>f
    <3>1. x \in PassState
      BY <3>p, <2>7, <2>11 DEF PassState, Step, Answer, Verdict
    <3>3. /\ x.to = due /\ x.at = a /\ x.seen = Attempted(pass[w].event, due)
          /\ x.batch = pass[w].batch /\ x.event = pass[w].event
      BY <3>p DEF PassState
    <3> HIDE DEF x
    <3> QED
      BY <3>1, <3>2, <3>3
  <2>13. /\ pass' \in [Workers -> PassState] /\ pass'[w] = q
        /\ \A v \in Workers \ {w} : pass'[v] = pass[v]
    BY <1>t, PassStep, <2>12 DEF IInv
  <2>14. \A v \in Workers \ {w} : pass[w].event \in WorksOn(v) => pass[w].event \in overtaken
    BY <1>t, <1>f, Alone, <2>2 DEF IInv
  <2>15. \A v \in Workers \ {w} :
            pass[v].at \notin {"idle", "load"} /\ pass[v].event = pass[w].event =>
                pass[w].event \in overtaken
    BY <1>f, <2>14
  <2>16. TypeOK'
    BY <1>t, <2>1, <2>10, <2>12 DEF IInv, TypeInv, TypeOK
  <2>17. PassWellFormed'
    BY <1>t, <2>1, <2>7, <2>12 DEF IInv, TypeInv, PassWellFormed, WellFormed, WorksOn
  <2>18. Held'
    BY <1>t, <2>1, <2>12 DEF IInv, Held, WorksOn
  <2>19. InHand'
    BY <1>t, <2>1, <2>7, <2>8, <2>10, <2>12, <2>15 DEF IInv, InHand
  <2>20. RowsArrived'
    BY <1>t, <2>1, <2>6, <2>10 DEF IInv, RowsArrived, Delivered
  <2>21. AnswersArrived'
    BY <1>t, <2>1, <2>12 DEF IInv, AnswersArrived, Recording, Delivered
  <2>22. ArrivedRecorded'
    BY <1>t, <2>1, <2>6, <2>10, <2>12, ArrivedKept DEF IInv, Recording
  <2>23. RowsGivenUp'
    BY <1>t, <2>1, <2>2, <2>6, <2>10 DEF IInv, RowsGivenUp
  <2>24. Refusals'
    BY <1>t, <2>1, <2>12 DEF IInv, Refusals
  <2>25. AttemptsRead'
    BY <1>t, <2>1, <2>2, <2>12 DEF IInv, AttemptsRead
  <2>26. VerdictTrue'
    BY <1>t, <2>1, <2>8, <2>12, <2>15, VerdictsKept, SameRows DEF IInv
  <2>27. ProcessedTrue' /\ DeadTrue'
    BY <1>t, <2>1, <2>2, <2>10, <1>n, ClosedKept, SameRows DEF IInv, TypeInv, TypeOK, Held
  <2>28. DeliveredOnce'
    BY <1>t, <2>1 DEF IInv, DeliveredOnce
  <2>c. Counted'
    <3>1. TriesSent'
      BY <1>t, <2>1 DEF IInv, Counted, TriesSent
    <3>2. SeenSent'
      <4>1. \A n \in q.to : q.seen[n] <= sent[pass[w].event][n]
        <5> SUFFICES ASSUME NEW n \in q.to PROVE q.seen[n] <= sent[pass[w].event][n]
          OBVIOUS
        <5>1. n \in Endpoints /\ n \in Targets /\ q.seen[n] = tries[pass[w].event][n]
          BY <2>2, <2>7, <2>12, Constants DEF Attempted
        <5> QED
          BY <1>t, <2>2, <5>1 DEF IInv, Counted, TriesSent
      <4>2. q.at # "record"
        BY <2>12
      <4> QED
        BY <1>t, <2>1, <2>12, <2>13, <4>1, <4>2 DEF IInv, Counted, SeenSent
    <3>3. \A v \in Workers, e \in DirectEvents : e \in Unsent(v) => e \in Unsent(v)'
      BY <2>1, <2>12, <2>13 DEF Unsent
    <3>4. ClaimsUsed'
      BY <1>t, <2>1, <3>3 DEF IInv, Counted, ClaimsUsed
    <3> QED
      BY <3>1, <3>2, <3>4 DEF Counted
  <2> QED
    BY <2>16, <2>17, <2>18, <2>19, <2>20, <2>21, <2>22, <2>23, <2>24, <2>25,
       <2>26, <2>27, <2>28, <2>c DEF IInv, TypeInv
<1>8. ASSUME NEW w \in Workers, Send(w) PROVE IInv'
  <2>1. /\ pass[w].at = "send"
        /\ UNCHANGED <<eventRows, deliveryRows, active, unused, overtaken, unsubscribed, mishaps>>
    BY <1>8 DEF Send
  <2>2. /\ pass[w].event \in Events /\ pass[w].event \in WorksOn(w)
        /\ pass[w].to \subseteq IF pass[w].event \in DirectEvents THEN {Direct} ELSE Endpoints
    BY <1>t, <1>f, <2>1 DEF IInv, TypeInv, PassWellFormed, WellFormed
  <2>3. PICK n \in pass[w].to, answer \in Answer, arrived \in BOOLEAN : Request(w, n, answer, arrived)
    BY <1>8 DEF Send
  <2>4. /\ answer = "ok" => arrived
        /\ answer = "refusal" => ~arrived
        /\ received' = IF arrived THEN received \cup {<<pass[w].event, n>>} ELSE received
        /\ repeated' = IF arrived /\ Delivered(pass[w].event, n)
                       THEN repeated \cup {pass[w].event} ELSE repeated
        /\ refused' = IF answer = "refusal" THEN refused \cup {pass[w].event} ELSE refused
        /\ doubtful' = IF answer = "transient" /\ arrived
                       THEN doubtful \cup {pass[w].event} ELSE doubtful
        /\ sent' = [sent EXCEPT ![pass[w].event][n] = AtMost(@ + 1)]
    BY <2>3 DEF Request
  <2>5. PICK q \in PassState :
            /\ pass' = [pass EXCEPT ![w] = q]
            /\ q.at = "record" /\ q.to = pass[w].to \ {n} /\ q.target = n /\ q.result = answer
            /\ q.batch = pass[w].batch /\ q.event = pass[w].event /\ q.seen = pass[w].seen
    <3> DEFINE x == [pass[w] EXCEPT !.at = "record", !.to = pass[w].to \ {n},
                                  !.target = n, !.result = answer]
    <3>2. pass' = [pass EXCEPT ![w] = x]
      BY <1>t, <1>8, <2>3 DEF IInv, TypeInv, TypeOK, PassState, Request
    <3>p. pass[w] \in PassState
      BY <1>f
    <3>1. x \in PassState
      BY <3>p DEF PassState, Step, Answer, Verdict
    <3>3. /\ x.at = "record" /\ x.to = pass[w].to \ {n} /\ x.target = n /\ x.result = answer
          /\ x.batch = pass[w].batch /\ x.event = pass[w].event /\ x.seen = pass[w].seen
      BY <3>p DEF PassState
    <3> HIDE DEF x
    <3> QED
      BY <3>1, <3>2, <3>3
  <2>6. /\ pass' \in [Workers -> PassState] /\ pass'[w] = q
        /\ \A v \in Workers \ {w} : pass'[v] = pass[v]
    BY <1>t, PassStep, <2>5 DEF IInv
  <2>7. \A v \in Workers \ {w} : pass[w].event \in WorksOn(v) => pass[w].event \in overtaken
    BY <1>t, <1>f, Alone, <2>2 DEF IInv
  <2>8. \A v \in Workers \ {w} :
            pass[v].at \notin {"idle", "load"} /\ pass[v].event = pass[w].event =>
                pass[w].event \in overtaken
    BY <1>f, <2>7
  <2>9. /\ n \in Targets /\ n \in Endpoints \cup {Direct}
        /\ n \in Endpoints <=> pass[w].event \notin DirectEvents
    BY <2>2, <2>3, Constants
  <2>s. /\ sent' \in [Events -> [Targets -> 0 .. MaxAttempts]]
        /\ sent'[pass[w].event][n] = AtMost(sent[pass[w].event][n] + 1)
        /\ \A f \in Events, m \in Targets : f # pass[w].event \/ m # n => sent'[f][m] = sent[f][m]
        /\ \A f \in Events, m \in Targets :
               sent'[f][m] \in 0 .. MaxAttempts /\ sent[f][m] <= sent'[f][m]
    <3>1. AtMost(sent[pass[w].event][n] + 1) \in 0 .. MaxAttempts
      BY <1>n, <2>2, <2>9, Constants DEF AtMost
    <3>2. /\ sent' \in [Events -> [Targets -> 0 .. MaxAttempts]]
          /\ sent'[pass[w].event][n] = AtMost(sent[pass[w].event][n] + 1)
          /\ \A f \in Events, m \in Targets : f # pass[w].event \/ m # n => sent'[f][m] = sent[f][m]
      BY <1>t, <2>2, <2>4, <2>9, <3>1 DEF IInv, TypeInv, TypeOK
    <3>3. sent[pass[w].event][n] <= AtMost(sent[pass[w].event][n] + 1)
      BY <1>n, <2>2, <2>9, Constants DEF AtMost
    <3>4. \A f \in Events, m \in Targets : sent[f][m] <= sent'[f][m]
      BY <1>n, <3>2, <3>3
    <3> QED
      BY <3>2, <3>4
  <2>10. <<pass[w].event, n>> \in received => pass[w].event \in doubtful \cup overtaken
    <3> SUFFICES ASSUME Delivered(pass[w].event, n), pass[w].event \notin doubtful \cup overtaken
                 PROVE  FALSE
      BY DEF Delivered
    <3>1. ~Recorded(pass[w].event, n)
      BY <1>t, <2>1, <2>2, <2>9, Constants DEF IInv, InHand, Held, Recorded, Deliverable
    <3>2. \A v \in Workers : ~Recording(v, pass[w].event, n)
      BY <2>1, <2>8 DEF Recording
    <3> QED
      BY <1>t, <2>2, <2>9, <3>1, <3>2 DEF IInv, ArrivedRecorded
  <2>11. TypeOK'
    BY <1>t, <2>1, <2>2, <2>4, <2>6, <2>9, <2>s DEF IInv, TypeInv, TypeOK
  <2>12. PassWellFormed'
    BY <1>t, <2>1, <2>5 DEF IInv, TypeInv, PassWellFormed, WellFormed, WorksOn
  <2>13. Held'
    BY <1>t, <2>1, <2>5 DEF IInv, Held, WorksOn
  <2>14. InHand'
    BY <1>t, <2>1, <2>5 DEF IInv, InHand
  <2>15. RowsArrived'
    BY <1>t, <2>1, <2>4 DEF IInv, RowsArrived, Delivered
  <2>16. AnswersArrived'
    BY <1>t, <2>4, <2>5 DEF IInv, AnswersArrived, Recording, Delivered
  <2>17. ArrivedRecorded'
    <3> SUFFICES ASSUME NEW e \in Events \ (doubtful' \cup overtaken'), NEW m \in Targets,
                        Delivered(e, m)'
                 PROVE  Recorded(e, m)' \/ \E v \in Workers : Recording(v, e, m)'
      BY DEF ArrivedRecorded
    <3>1. CASE e = pass[w].event /\ m = n /\ arrived
      <4>1. answer = "ok"
        BY <2>1, <2>4, <3>1 DEF Answer
      <4> QED
        BY <2>5, <2>6, <3>1, <4>1 DEF Recording
    <3>2. CASE ~(e = pass[w].event /\ m = n /\ arrived)
      <4>1. Delivered(e, m) /\ e \notin doubtful \cup overtaken
        BY <2>1, <2>4, <3>2 DEF Delivered
      <4>2. Recorded(e, m) \/ \E v \in Workers : Recording(v, e, m)
        BY <1>t, <4>1 DEF IInv, ArrivedRecorded
      <4>3. Recorded(e, m) => Recorded(e, m)'
        BY <2>1 DEF Recorded
      <4>4. \A v \in Workers : Recording(v, e, m) => Recording(v, e, m)'
        BY <2>1, <2>6 DEF Recording
      <4> QED
        BY <4>2, <4>3, <4>4
    <3> QED
      BY <3>1, <3>2
  <2>18. RowsGivenUp'
    BY <1>t, <1>n, Constants, <2>1, <2>4, <2>s DEF IInv, RowsGivenUp
  <2>19. Refusals'
    BY <1>t, <2>4, <2>5 DEF IInv, Refusals
  <2>20. AttemptsRead'
    BY <1>t, <2>1, <2>5 DEF IInv, AttemptsRead
  <2>21. VerdictTrue'
    BY <1>t, <2>1, <2>5, VerdictsKept, SameRows DEF IInv
  <2>22. ProcessedTrue' /\ DeadTrue'
    BY <1>t, <2>1, <2>4, <2>s, Constants, <1>n, ClosedKept, SameRows DEF IInv, TypeInv, TypeOK
  <2>23. DeliveredOnce'
    BY <1>t, <2>1, <2>4, <2>10 DEF IInv, DeliveredOnce, Delivered
  <2>c. Counted'
    <3>1. TriesSent'
      BY <1>t, <1>n, <2>1, <2>s, Constants DEF IInv, TypeInv, TypeOK, Counted, TriesSent
    <3>2. ASSUME NEW v \in Workers, v # w, pass[v].at \in {"send", "record"},
                 pass[v].event \notin DirectEvents
          PROVE  /\ \A m \in pass[v].to : pass[v].seen[m] <= sent'[pass[v].event][m]
                 /\ pass[v].at = "record" =>
                        AtMost(pass[v].seen[pass[v].target] + 1) <= sent'[pass[v].event][pass[v].target]
      <4>1. /\ \A m \in pass[v].to : pass[v].seen[m] <= sent[pass[v].event][m]
            /\ pass[v].at = "record" =>
                   AtMost(pass[v].seen[pass[v].target] + 1) <= sent[pass[v].event][pass[v].target]
        BY <1>t, <3>2 DEF IInv, Counted, SeenSent
      <4>2. /\ pass[v].event \in Events /\ pass[v].to \subseteq Targets
            /\ pass[v].at = "record" => pass[v].target \in Targets
            /\ pass[v].seen \in [Targets -> 0 .. MaxAttempts]
        BY <1>t, <1>f, <3>2, Constants DEF IInv, TypeInv, PassWellFormed, WellFormed
      <4>3. \A m \in pass[v].to : pass[v].seen[m] <= sent'[pass[v].event][m]
        BY <1>n, <2>s, <4>1, <4>2, Constants
      <4>4. ASSUME pass[v].at = "record"
            PROVE  AtMost(pass[v].seen[pass[v].target] + 1) <= sent'[pass[v].event][pass[v].target]
        BY <1>n, <2>s, <4>1, <4>2, <4>4, Constants DEF AtMost
      <4> QED
        BY <4>3, <4>4
    <3>3. ASSUME pass[w].event \notin DirectEvents
          PROVE  /\ \A m \in q.to : q.seen[m] <= sent'[pass[w].event][m]
                 /\ AtMost(q.seen[n] + 1) <= sent'[pass[w].event][n]
      <4>1. \A m \in pass[w].to : pass[w].seen[m] <= sent[pass[w].event][m]
        BY <1>t, <2>1, <3>3 DEF IInv, Counted, SeenSent
      <4>2. pass[w].to \subseteq Targets /\ pass[w].seen \in [Targets -> 0 .. MaxAttempts]
        BY <1>f
      <4>3. \A m \in q.to : q.seen[m] <= sent'[pass[w].event][m]
        BY <1>n, <2>2, <2>5, <2>s, <4>1, <4>2, Constants
      <4>4. AtMost(q.seen[n] + 1) <= sent'[pass[w].event][n]
        BY <1>n, <2>2, <2>3, <2>5, <2>9, <2>s, <4>1, <4>2, Constants DEF AtMost
      <4> QED
        BY <4>3, <4>4
    <3>4. SeenSent'
      BY <2>5, <2>6, <3>2, <3>3 DEF SeenSent, AtMost
    <3>5. ASSUME NEW e \in DirectEvents \ overtaken'
          PROVE  /\ attempts[e] <= sent'[e][Direct] + unused[e] + 1
                 /\ (\A v \in Workers : e \notin Unsent(v)') => attempts[e] <= sent'[e][Direct] + unused[e]
      <4>1. e \in Events /\ e \notin overtaken /\ Direct \in Targets
        BY <2>1, Constants
      <4>2. /\ attempts[e] <= sent[e][Direct] + unused[e] + 1
            /\ (\A v \in Workers : e \notin Unsent(v)) => attempts[e] <= sent[e][Direct] + unused[e]
        BY <1>t, <4>1 DEF IInv, Counted, ClaimsUsed
      <4>3. CASE e = pass[w].event
        <5>1. n = Direct
          BY <2>2, <2>3, <4>3
        <5> QED
          BY <1>n, <2>s, <4>1, <4>2, <4>3, <5>1, Constants DEF AtMost
      <4>4. CASE e # pass[w].event
        <5>1. \A v \in Workers : e \in Unsent(v) => e \in Unsent(v)'
          BY <2>5, <2>6, <4>4 DEF Unsent
        <5> QED
          BY <2>s, <4>1, <4>2, <4>4, <5>1
      <4> QED
        BY <4>3, <4>4
    <3>6. ClaimsUsed'
      BY <2>1, <3>5 DEF ClaimsUsed
    <3> QED
      BY <3>1, <3>4, <3>6 DEF Counted
  <2> QED
    BY <2>11, <2>12, <2>13, <2>14, <2>15, <2>16, <2>17, <2>18, <2>19, <2>20,
       <2>21, <2>22, <2>23, <2>c DEF IInv, TypeInv
<1>9. ASSUME NEW w \in Workers, RecordDelivery(w) PROVE IInv'
  <2>1. /\ pass[w].at = "record" /\ pass[w].target # Direct
        /\ UNCHANGED <<eventRows, active, received, repeated, refused, sent, unused, overtaken,
                       unsubscribed, mishaps>>
    BY <1>9 DEF RecordDelivery
  <2>2. /\ pass[w].event \in Events \ DirectEvents /\ pass[w].event \in WorksOn(w)
        /\ pass[w].target \in Endpoints /\ pass[w].target \in Targets
        /\ pass[w].target \notin pass[w].to /\ pass[w].to \subseteq Endpoints
        /\ pass[w].result \in Answer
    BY <1>t, <1>f, <2>1, Constants DEF IInv, TypeInv, PassWellFormed, WellFormed
  <2>3. PICK q \in PassState :
            /\ pass' = [pass EXCEPT ![w] = q]
            /\ q.at \in {"conclude", "send"} /\ q.to = pass[w].to /\ q.seen = pass[w].seen
            /\ q.batch = pass[w].batch /\ q.event = pass[w].event
    <3> DEFINE a == IF pass[w].to = {} THEN "conclude" ELSE "send"
               x == [pass[w] EXCEPT !.target = None, !.result = None, !.at = a]
    <3>a. a \in Step /\ a \in {"conclude", "send"}
      BY DEF Step
    <3>2. pass' = [pass EXCEPT ![w] = x]
      BY <1>t, <1>9 DEF IInv, TypeInv, TypeOK, PassState, RecordDelivery
    <3> HIDE DEF a
    <3>p. pass[w] \in PassState
      BY <1>f
    <3>1. x \in PassState
      BY <3>p, <3>a DEF PassState, Step, Answer, Verdict
    <3>3. /\ x.at \in {"conclude", "send"} /\ x.to = pass[w].to /\ x.seen = pass[w].seen
          /\ x.batch = pass[w].batch /\ x.event = pass[w].event
      BY <3>p, <3>a DEF PassState
    <3> HIDE DEF x
    <3> QED
      BY <3>1, <3>2, <3>3
  <2>4. /\ pass' \in [Workers -> PassState] /\ pass'[w] = q
        /\ \A v \in Workers \ {w} : pass'[v] = pass[v]
    BY <1>t, PassStep, <2>3 DEF IInv
  <2>5. PICK attempt \in 0 .. MaxAttempts, outcome \in {"DELIVERED", "WAITING", "DEAD_LETTER"} :
            /\ row' = [row EXCEPT ![pass[w].event][pass[w].target] = outcome]
            /\ tries' = [tries EXCEPT ![pass[w].event][pass[w].target] = attempt]
            /\ attempt = AtMost(pass[w].seen[pass[w].target] + 1)
            /\ outcome = "DELIVERED" => pass[w].result = "ok"
            /\ outcome = "DEAD_LETTER" => pass[w].result = "refusal" \/ attempt >= MaxAttempts
            /\ doubtful' = IF pass[w].result = "ok" /\ outcome # "DELIVERED"
                           THEN doubtful \cup {pass[w].event} ELSE doubtful
    <3> DEFINE attempt == AtMost(pass[w].seen[pass[w].target] + 1)
    <3>r. PICK result \in Recordable(pass[w].result) :
              /\ row' = [row EXCEPT ![pass[w].event][pass[w].target] = Outcome(result, attempt)]
              /\ Doubted(w, result)
      BY <1>9 DEF RecordDelivery
    <3> DEFINE outcome == Outcome(result, attempt)
    <3>1. attempt \in 0 .. MaxAttempts
      BY <1>f, <2>2, Constants DEF AtMost
    <3>2. /\ row' = [row EXCEPT ![pass[w].event][pass[w].target] = outcome]
          /\ tries' = [tries EXCEPT ![pass[w].event][pass[w].target] = attempt]
      BY <1>9, <3>r DEF RecordDelivery
    <3>3. /\ outcome \in {"DELIVERED", "WAITING", "DEAD_LETTER"}
          /\ outcome = "DELIVERED" <=> result = "ok"
          /\ outcome = "DEAD_LETTER" => result = "refusal" \/ attempt >= MaxAttempts
      BY DEF Outcome, GivesUp
    <3>4. attempt = AtMost(pass[w].seen[pass[w].target] + 1)
      OBVIOUS
    <3> HIDE DEF attempt, outcome
    <3>5. /\ outcome = "DELIVERED" => pass[w].result = "ok"
          /\ outcome = "DEAD_LETTER" => pass[w].result = "refusal" \/ attempt >= MaxAttempts
      BY <3>r, <3>3 DEF Recordable
    <3>6. doubtful' = IF pass[w].result = "ok" /\ outcome # "DELIVERED"
                      THEN doubtful \cup {pass[w].event} ELSE doubtful
      BY <3>r, <3>3 DEF Doubted
    <3> QED
      BY <3>1, <3>2, <3>3, <3>4, <3>5, <3>6
  <2>6. /\ row' \in [Events -> [Endpoints -> RowStatus]]
        /\ tries' \in [Events -> [Endpoints -> 0 .. MaxAttempts]]
        /\ row'[pass[w].event][pass[w].target] = outcome
        /\ tries'[pass[w].event][pass[w].target] = attempt
        /\ \A f \in Events, m \in Endpoints : f # pass[w].event \/ m # pass[w].target =>
               row'[f][m] = row[f][m] /\ tries'[f][m] = tries[f][m]
    BY <1>t, <2>2, <2>5 DEF IInv, TypeInv, TypeOK, RowStatus
  <2>7. \A v \in Workers \ {w} : pass[w].event \in WorksOn(v) => pass[w].event \in overtaken
    BY <1>t, <1>f, Alone, <2>2 DEF IInv
  <2>8. \A v \in Workers \ {w} :
            pass[v].at \notin {"idle", "load"} /\ pass[v].event = pass[w].event =>
                pass[w].event \in overtaken
    BY <1>f, <2>7
  <2>9. \A f \in Events \ {pass[w].event} : RowsKept(f)
    BY <2>6 DEF RowsKept, AllReached, OneGivenUp
  <2>10. TypeOK'
    BY <1>t, <2>1, <2>2, <2>4, <2>5, <2>6 DEF IInv, TypeInv, TypeOK
  <2>11. PassWellFormed'
    BY <1>t, <2>1, <2>3 DEF IInv, TypeInv, PassWellFormed, WellFormed, WorksOn
  <2>12. Held'
    BY <1>t, <2>1, <2>3 DEF IInv, Held, WorksOn
  <2>13. InHand'
    BY <1>t, <2>1, <2>2, <2>3, <2>4, <2>5, <2>8 DEF IInv, InHand
  <2>14. RowsArrived'
    <3> SUFFICES ASSUME NEW e \in Events, NEW n \in Endpoints, row'[e][n] = "DELIVERED"
                 PROVE  Delivered(e, n)
      BY <2>1 DEF RowsArrived, Delivered
    <3>1. CASE e = pass[w].event /\ n = pass[w].target
      <4>1. Recording(w, e, n)
        BY <2>1, <2>5, <2>6, <3>1 DEF Recording
      <4> QED
        BY <1>t, <2>2, <3>1, <4>1 DEF IInv, AnswersArrived
    <3>2. CASE ~(e = pass[w].event /\ n = pass[w].target)
      BY <1>t, <2>6, <3>2 DEF IInv, RowsArrived
    <3> QED
      BY <3>1, <3>2
  <2>15. AnswersArrived'
    BY <1>t, <2>1, <2>3 DEF IInv, AnswersArrived, Recording, Delivered
  <2>16. ArrivedRecorded'
    <3>1. ASSUME NEW e \in Events \ overtaken, NEW n \in Endpoints, row[e][n] = "DELIVERED"
          PROVE  row'[e][n] = "DELIVERED"
      BY <1>t, <2>1, <2>6, <3>1 DEF IInv, InHand, Deliverable
    <3>2. ASSUME NEW v \in Workers, NEW e \in Events \ doubtful', NEW n \in Targets, Recording(v, e, n)
          PROVE  Recording(v, e, n)' \/ Recorded(e, n)'
      <4>1. CASE v = w
        BY <2>2, <2>5, <2>6, <3>2, <4>1 DEF Recording, Recorded
      <4>2. CASE v # w
        BY <2>4, <3>2, <4>2 DEF Recording
      <4> QED
        BY <4>1, <4>2
    <3> QED
      BY <1>t, <2>1, <2>5, <3>1, <3>2, ArrivedKept DEF IInv
  <2>17. RowsGivenUp'
    <3> SUFFICES ASSUME NEW e \in Events, NEW n \in Endpoints
                 PROVE  /\ e \in DirectEvents => row'[e][n] = "none"
                        /\ row'[e][n] = "DEAD_LETTER" =>
                               e \in refused \/ sent[e][n] >= MaxAttempts
      BY <2>1 DEF RowsGivenUp
    <3>1. CASE e = pass[w].event /\ n = pass[w].target
      <4>1. attempt <= sent[e][n]
        BY <1>t, <2>1, <2>2, <2>5, <3>1 DEF IInv, Counted, SeenSent
      <4>2. sent[e][n] \in Nat /\ MaxAttempts \in Nat
        BY <1>n, <2>2, <3>1, Constants
      <4> QED
        <5>1. row'[e][n] = outcome /\ e \notin DirectEvents
          BY <2>2, <2>6, <3>1
        <5>2. outcome = "DEAD_LETTER" => e \in refused \/ attempt >= MaxAttempts
          BY <1>t, <2>1, <2>5, <3>1 DEF IInv, Refusals
        <5>3. attempt >= MaxAttempts => sent[e][n] >= MaxAttempts
          BY <4>1, <4>2
        <5> QED
          BY <5>1, <5>2, <5>3
    <3>2. CASE ~(e = pass[w].event /\ n = pass[w].target)
      BY <1>t, <2>6, <3>2 DEF IInv, RowsGivenUp
    <3> QED
      BY <3>1, <3>2
  <2>18. Refusals'
    BY <1>t, <2>1, <2>3 DEF IInv, Refusals
  <2>19. AttemptsRead'
    BY <1>t, <2>1, <2>3 DEF IInv, AttemptsRead
  <2>20. VerdictTrue'
    BY <1>t, <1>f, <2>1, <2>3, <2>7, <2>9, VerdictsKept DEF IInv
  <2>21. ProcessedTrue' /\ DeadTrue'
    BY <1>t, <2>1, <2>2, <2>9, <1>n, ClosedKept DEF IInv, TypeInv, TypeOK, Held
  <2>22. DeliveredOnce'
    BY <1>t, <2>1, <2>5 DEF IInv, DeliveredOnce
  <2>c. Counted'
    <3>1. attempt <= sent[pass[w].event][pass[w].target]
      BY <1>t, <2>1, <2>2, <2>5 DEF IInv, Counted, SeenSent
    <3>2. TriesSent'
      BY <1>t, <2>1, <2>2, <2>6, <3>1 DEF IInv, Counted, TriesSent
    <3>3. SeenSent'
      BY <1>t, <2>1, <2>2, <2>3, <2>4 DEF IInv, Counted, SeenSent
    <3>4. \A v \in Workers, e \in DirectEvents : e \in Unsent(v) => e \in Unsent(v)'
      BY <2>1, <2>3, <2>4 DEF Unsent
    <3>5. ClaimsUsed'
      BY <1>t, <2>1, <3>4 DEF IInv, Counted, ClaimsUsed
    <3> QED
      BY <3>2, <3>3, <3>5 DEF Counted
  <2> QED
    BY <2>10, <2>11, <2>12, <2>13, <2>14, <2>15, <2>16, <2>17, <2>18, <2>19,
       <2>20, <2>21, <2>22, <2>c DEF IInv, TypeInv
<1>10. ASSUME NEW w \in Workers, Conclude(w) PROVE IInv'
  <2>1. /\ pass[w].at = "conclude" /\ UNCHANGED <<eventRows, deliveryRows, active, history>>
    BY <1>10 DEF Conclude
  <2>2. pass[w].event \in Events \ DirectEvents /\ pass[w].event \in WorksOn(w)
    BY <1>t, <1>f, <2>1 DEF IInv, TypeInv, PassWellFormed, WellFormed
  <2>3. PICK verdict \in Verdict :
            /\ pass' = [pass EXCEPT ![w].at = "close", ![w].to = {}, ![w].result = verdict]
            /\ verdict = "done" => AllReached(pass[w].event)
            /\ verdict = "dead" => OneGivenUp(pass[w].event)
    <3> DEFINE rows == row[pass[w].event]
               verdict == IF \E n \in Endpoints : rows[n] = "DEAD_LETTER" THEN "dead"
                          ELSE IF StillOpen(rows) = {} THEN "done"
                          ELSE IF \E n \in StillOpen(rows) : rows[n] \in Deliverable THEN "now"
                          ELSE "later"
    <3>1. pass' = [pass EXCEPT ![w].at = "close", ![w].to = {}, ![w].result = verdict]
      BY <1>10 DEF Conclude
    <3>2. verdict \in Verdict
      BY DEF Verdict
    <3>3. verdict = "dead" => OneGivenUp(pass[w].event)
      BY DEF OneGivenUp
    <3>4. verdict = "done" => AllReached(pass[w].event)
      BY <1>t, <2>2 DEF IInv, TypeInv, TypeOK, RowStatus, StillOpen, Undelivered, AllReached
    <3> HIDE DEF verdict
    <3> QED
      BY <3>1, <3>2, <3>3, <3>4
  <2>4. PICK q \in PassState :
            /\ pass' = [pass EXCEPT ![w] = q]
            /\ q.at = "close" /\ q.to = {} /\ q.result = verdict
            /\ q.batch = pass[w].batch /\ q.event = pass[w].event
    <3> DEFINE x == [pass[w] EXCEPT !.at = "close", !.to = {}, !.result = verdict]
    <3>2. pass' = [pass EXCEPT ![w] = x]
      BY <1>t, <1>10, <2>3 DEF IInv, TypeInv, TypeOK, PassState, Conclude
    <3>p. pass[w] \in PassState
      BY <1>f
    <3>1. x \in PassState
      BY <3>p, <2>3 DEF PassState, Step, Answer, Verdict
    <3>3. /\ x.at = "close" /\ x.to = {} /\ x.result = verdict
          /\ x.batch = pass[w].batch /\ x.event = pass[w].event
      BY <3>p DEF PassState
    <3> HIDE DEF x
    <3> QED
      BY <3>1, <3>2, <3>3
  <2>5. /\ pass' \in [Workers -> PassState] /\ pass'[w] = q
        /\ \A v \in Workers \ {w} : pass'[v] = pass[v]
    BY <1>t, PassStep, <2>4 DEF IInv
  <2>6. TypeOK'
    BY <1>t, <2>1, <2>5 DEF IInv, TypeInv, TypeOK
  <2>7. PassWellFormed'
    BY <1>t, <2>1, <2>4 DEF IInv, TypeInv, PassWellFormed, WellFormed, WorksOn
  <2>8. Held'
    BY <1>t, <2>1, <2>4 DEF IInv, Held, WorksOn
  <2>9. InHand'
    BY <1>t, <2>1, <2>3, <2>5 DEF IInv, InHand
  <2>10. RowsArrived'
    BY <1>t, <2>1 DEF IInv, RowsArrived, Delivered
  <2>11. AnswersArrived'
    BY <1>t, <2>1, <2>4 DEF IInv, AnswersArrived, Recording, Delivered
  <2>12. ArrivedRecorded'
    BY <1>t, <2>1, <2>4, ArrivedKept DEF IInv, Recording
  <2>13. RowsGivenUp'
    BY <1>t, <2>1 DEF IInv, RowsGivenUp
  <2>14. Refusals'
    BY <1>t, <2>1, <2>3, <2>5 DEF IInv, Refusals
  <2>15. AttemptsRead'
    BY <1>t, <2>1, <2>3, <2>5 DEF IInv, AttemptsRead
  <2>16. VerdictTrue'
    BY <1>t, <2>1, <2>3, <2>4, <2>5
    DEF IInv, VerdictTrue, AllReached, OneGivenUp
  <2>17. ProcessedTrue' /\ DeadTrue'
    BY <1>t, <2>1, <1>n, ClosedKept, SameRows DEF IInv, TypeInv, TypeOK
  <2>18. DeliveredOnce'
    BY <1>t, <2>1 DEF IInv, DeliveredOnce
  <2>c. Counted'
    BY <1>t, <2>1, <2>4, <2>5, CountedKept DEF IInv, Unsent
  <2> QED
    BY <2>6, <2>7, <2>8, <2>9, <2>10, <2>11, <2>12, <2>13, <2>14, <2>15,
       <2>16, <2>17, <2>18, <2>c DEF IInv, TypeInv
<1>11. ASSUME NEW w \in Workers, NEW verdict \in Verdict,
              pass[w].at \in {"record", "close"}, CloseWith(w, verdict),
              pass[w].event \notin overtaken /\ verdict = "done" =>
                  /\ AllReached(pass[w].event)
                  /\ pass[w].event \in DirectEvents => Delivered(pass[w].event, Direct),
              pass[w].event \notin overtaken /\ verdict = "dead" =>
                  \/ OneGivenUp(pass[w].event)
                  \/ /\ pass[w].event \in DirectEvents
                     /\ \/ pass[w].event \in refused
                        \/ sent[pass[w].event][Direct] + unused[pass[w].event] >= MaxAttempts,
              doubtful' = IF pass[w].at = "record" /\ pass[w].result = "ok" /\ verdict # "done"
                          THEN doubtful \cup {pass[w].event} ELSE doubtful,
              pass[w].at = "record" => pass[w].target = Direct
       PROVE  IInv'
  <2>1. /\ pass[w].event \in Events /\ pass[w].event \in WorksOn(w)
        /\ pass[w].event \in written /\ pass[w].event \notin pass[w].batch
        /\ pass[w].event \notin overtaken => pass[w].event \notin processed \cup dead
    BY <1>t, <1>f, <1>11 DEF IInv, TypeInv, PassWellFormed, WellFormed, Held
  <2>2. /\ processed' = IF verdict \in {"done", "unheard"} THEN processed \cup {pass[w].event} ELSE processed
        /\ dead' = IF verdict = "dead" THEN dead \cup {pass[w].event} ELSE dead
        /\ claim' = [claim EXCEPT ![pass[w].event] = None]
        /\ unsubscribed' = IF verdict = "unheard" THEN unsubscribed \cup {pass[w].event} ELSE unsubscribed
        /\ UNCHANGED <<written, attempts, deliveryRows, active, received, repeated, refused,
                       sent, unused, overtaken, mishaps>>
    BY <1>11 DEF CloseWith
  <2>3. ready' \subseteq ready \cup {pass[w].event} /\ stale' \subseteq stale
    BY <1>11 DEF CloseWith
  <2>4. PICK q \in PassState :
            /\ pass' = [pass EXCEPT ![w] = q]
            /\ q.at \in {"idle", "load"} /\ (q.at = "idle" <=> pass[w].batch = {})
            /\ q.batch = pass[w].batch /\ q.event = None
    <3> DEFINE a == IF pass[w].batch = {} THEN "idle" ELSE "load"
               x == [Idle EXCEPT !.batch = pass[w].batch, !.at = a]
    <3>a. a \in Step /\ a \in {"idle", "load"} /\ (a = "idle" <=> pass[w].batch = {})
      BY DEF Step
    <3>2. pass' = [pass EXCEPT ![w] = x]
      BY <1>t, <1>11 DEF IInv, TypeInv, TypeOK, PassState, CloseWith, NextEvent
    <3> HIDE DEF a
    <3>p. Idle \in PassState /\ pass[w].batch \in SUBSET Events
      BY <1>f, IdleType
    <3>1. x \in PassState
      BY <3>p, <3>a DEF PassState, Step, Answer, Verdict
    <3>3. /\ x.at \in {"idle", "load"} /\ (x.at = "idle" <=> pass[w].batch = {})
          /\ x.batch = pass[w].batch /\ x.event = None
      BY <3>p, IdleType, <3>a DEF PassState
    <3> HIDE DEF x
    <3> QED
      BY <3>1, <3>2, <3>3
  <2>5. /\ pass' \in [Workers -> PassState] /\ pass'[w] = q
        /\ \A v \in Workers \ {w} : pass'[v] = pass[v]
    BY <1>t, PassStep, <2>4 DEF IInv
  <2>6. \A v \in Workers \ {w} : pass[w].event \in WorksOn(v) => pass[w].event \in overtaken
    BY <1>t, <1>f, Alone, <2>1 DEF IInv
  <2>7. \A v \in Workers \ {w} :
            pass[v].at \notin {"idle", "load"} /\ pass[v].event = pass[w].event =>
                pass[w].event \in overtaken
    BY <1>f, <2>6
  <2>8. TypeOK'
    BY <1>t, <1>11, <2>1, <2>2, <2>3, <2>5 DEF IInv, TypeInv, TypeOK
  <2>9. PassWellFormed'
    BY <1>t, Constants, <2>2, <2>4
    DEF IInv, TypeInv, TypeOK, PassWellFormed, WellFormed, WorksOn
  <2>10. Held'
    BY <1>t, <2>1, <2>2, <2>4, <2>5 DEF IInv, Held, WorksOn
  <2>11. InHand'
    BY <1>t, <2>2, <2>4 DEF IInv, InHand
  <2>12. RowsArrived'
    BY <1>t, <2>2 DEF IInv, RowsArrived, Delivered
  <2>13. AnswersArrived'
    BY <1>t, <2>2, <2>4 DEF IInv, AnswersArrived, Recording, Delivered
  <2>14. ArrivedRecorded'
    BY <1>t, <2>2, <2>5, ArrivedKept, <1>11 DEF IInv, Recording, Recorded
  <2>15. RowsGivenUp'
    BY <1>t, <2>2 DEF IInv, RowsGivenUp
  <2>16. Refusals'
    BY <1>t, <2>2, <2>4 DEF IInv, Refusals
  <2>17. AttemptsRead'
    BY <1>t, <2>2, <2>4 DEF IInv, AttemptsRead
  <2>18. VerdictTrue'
    BY <1>t, <2>2, <2>4, VerdictsKept, SameRows DEF IInv
  <2>19. ProcessedTrue' /\ DeadTrue'
    <3>1. ProcessedTrue'
      BY <1>t, <1>11, <2>1, <2>2 DEF IInv, ProcessedTrue, AllReached, Delivered
    <3>2. DeadTrue'
      BY <1>t, <1>11, <2>1, <2>2 DEF IInv, DeadTrue, OneGivenUp
    <3> QED
      BY <3>1, <3>2
  <2>20. DeliveredOnce'
    BY <1>t, <1>11, <2>2 DEF IInv, DeliveredOnce
  <2>c. Counted'
    <3>1. \A d : d \in Unsent(w) => d \in Unsent(w)'
      BY <1>11, <2>4, <2>5 DEF Unsent
    <3> QED
      BY <1>t, <2>2, <2>4, <2>5, <3>1, CountedKept DEF IInv, Unsent
  <2> QED
    BY <2>8, <2>9, <2>10, <2>11, <2>12, <2>13, <2>14, <2>15, <2>16, <2>17,
       <2>18, <2>19, <2>20, <2>c DEF IInv, TypeInv
<1>12. ASSUME NEW w \in Workers, Close(w) PROVE IInv'
  <2>1. pass[w].at = "close" /\ CloseWith(w, pass[w].result) /\ doubtful' = doubtful
    BY <1>12 DEF Close
  <2>2. pass[w].result \in Verdict /\ pass[w].event \notin DirectEvents
    BY <1>t, <2>1 DEF IInv, TypeInv, PassWellFormed, WellFormed
  <2>3. pass[w].event \notin overtaken =>
            /\ pass[w].result = "done" => AllReached(pass[w].event)
            /\ pass[w].result = "dead" => OneGivenUp(pass[w].event)
    BY <1>t, <2>1 DEF IInv, VerdictTrue
  <2> QED
    BY <1>11, <2>1, <2>2, <2>3
<1>13. ASSUME NEW w \in Workers, CloseDirect(w) PROVE IInv'
  <2> DEFINE p == pass[w]
             e == pass[w].event
  <2>1. p.at = "record" /\ p.target = Direct
    BY <1>13 DEF CloseDirect
  <2>r. PICK result \in Recordable(p.result) :
            /\ CloseWith(w, IF result = "ok" THEN "done"
                            ELSE IF GivesUp(result, p.seen[Direct]) THEN "dead" ELSE "later")
            /\ Doubted(w, result)
    BY <1>13 DEF CloseDirect
  <2> DEFINE verdict == IF result = "ok" THEN "done"
                        ELSE IF GivesUp(result, p.seen[Direct]) THEN "dead" ELSE "later"
  <2>2. /\ e \in DirectEvents /\ e \in Events /\ Direct \in Targets
        /\ e \in WorksOn(w) /\ e \notin p.batch
    BY <1>t, <1>f, Constants, <2>1 DEF IInv, TypeInv, PassWellFormed, WellFormed
  <2>3. /\ verdict \in Verdict /\ CloseWith(w, verdict)
        /\ result = "ok" <=> verdict = "done"
        /\ result = "ok" => p.result = "ok"
        /\ result = "refusal" => p.result = "refusal"
    BY <2>r DEF Verdict, Recordable
  <2>4. verdict = "done" => AllReached(e) /\ Delivered(e, Direct)
    BY <1>t, <2>1, <2>2, <2>3 DEF IInv, RowsGivenUp, AnswersArrived, Recording, AllReached
  <2>5. ASSUME verdict = "dead", e \notin overtaken
        PROVE  e \in refused \/ sent[e][Direct] + unused[e] >= MaxAttempts
    <3>1. p.result = "refusal" \/ p.seen[Direct] >= MaxAttempts
      BY <2>3, <2>5 DEF GivesUp
    <3>2. /\ p.result = "refusal" => e \in refused
          /\ p.seen[Direct] <= attempts[e]
      BY <1>t, <2>1, <2>2 DEF IInv, Refusals, AttemptsRead
    <3>3. \A v \in Workers : e \notin Unsent(v)
      <4>1. e \notin Unsent(w)
        BY <2>1, <2>2 DEF Unsent
      <4>2. \A v \in Workers \ {w} : e \notin WorksOn(v)
        BY <1>t, <2>2, <2>5, Alone DEF IInv
      <4> QED
        BY <1>f, <2>2, <4>1, <4>2, Constants DEF Unsent, WorksOn
    <3>4. attempts[e] <= sent[e][Direct] + unused[e]
      BY <1>t, <2>2, <2>5, <3>3 DEF IInv, Counted, ClaimsUsed
    <3>5. p.seen[Direct] \in Nat /\ MaxAttempts \in Nat
      BY <1>f, Constants, <2>2
    <3> QED
      BY <1>n, <2>2, <3>1, <3>2, <3>4, <3>5
  <2>6. doubtful' = IF p.at = "record" /\ p.result = "ok" /\ verdict # "done"
                    THEN doubtful \cup {e} ELSE doubtful
    BY <2>1, <2>r, <2>3 DEF Doubted
  <2> HIDE DEF verdict
  <2> QED
    BY <1>11, <2>1, <2>2, <2>3, <2>4, <2>5, <2>6
<1>14. ASSUME NEW w \in Workers, Crash(w) PROVE IInv'
  <2>1. /\ mishaps < MaxMishaps /\ mishaps' = mishaps + 1
        /\ claim' = [e \in Events |-> IF claim[e] = w THEN Lost ELSE claim[e]]
        /\ doubtful' = IF pass[w].at = "record" THEN doubtful \cup {pass[w].event} ELSE doubtful
        /\ pass' = [pass EXCEPT ![w] = Idle]
        /\ UNCHANGED <<written, processed, dead, ready, stale, attempts, deliveryRows, active,
                       received, repeated, refused, sent, overtaken, unsubscribed>>
        /\ unused' = [e \in Events |-> IF e \in DirectEvents \cap Unsent(w)
                                       THEN AtMost(unused[e] + 1) ELSE unused[e]]
    BY <1>14 DEF Crash
  <2>2. PICK q \in PassState :
            /\ pass' = [pass EXCEPT ![w] = q]
            /\ q.at = "idle" /\ q.batch = {} /\ q.event = None
    BY <2>1, IdleType
  <2>3. /\ pass' \in [Workers -> PassState] /\ pass'[w] = q
        /\ \A v \in Workers \ {w} : pass'[v] = pass[v]
    BY <1>t, PassStep, <2>2 DEF IInv
  <2>4. pass[w].at = "record" => pass[w].event \in Events
    BY <1>f
  <2>u. \A e \in Events :
            /\ unused'[e] \in 0 .. MaxAttempts /\ unused[e] <= unused'[e]
            /\ e \in DirectEvents \cap Unsent(w) =>
                   unused'[e] = MaxAttempts \/ unused'[e] = unused[e] + 1
    BY <1>n, <2>1, Constants DEF AtMost
  <2>m. mishaps' \in 0 .. MaxMishaps /\ unused' \in [Events -> 0 .. MaxAttempts]
    <3>1. mishaps' \in 0 .. MaxMishaps
      BY <1>t, Constants, <2>1 DEF IInv, TypeInv, TypeOK
    <3>2. unused' \in [Events -> 0 .. MaxAttempts]
      BY <2>1, <2>u
    <3> QED
      BY <3>1, <3>2
  <2>n. doubtful' \subseteq Events /\ claim' \in [Events -> Workers \cup {None, Lost}]
    BY <1>t, <2>1, <2>4 DEF IInv, TypeInv, TypeOK
  <2>5. TypeOK'
    BY <1>t, <2>1, <2>3, <2>m, <2>n DEF IInv, TypeInv, TypeOK
  <2>6. PassWellFormed'
    BY <1>t, <2>1, <2>2 DEF IInv, TypeInv, PassWellFormed, WellFormed, WorksOn
  <2>7. Held'
    BY <1>t, <2>1, <2>2
    DEF IInv, TypeInv, TypeOK, Held, WorksOn, PassWellFormed, WellFormed
  <2>8. InHand'
    BY <1>t, <2>1, <2>2 DEF IInv, InHand
  <2>9. RowsArrived'
    BY <1>t, <2>1 DEF IInv, RowsArrived, Delivered
  <2>10. AnswersArrived'
    BY <1>t, <2>1, <2>2 DEF IInv, AnswersArrived, Recording, Delivered
  <2>11. ArrivedRecorded'
    BY <1>t, <2>1, ArrivedKept DEF IInv, Recording
  <2>12. RowsGivenUp'
    BY <1>t, <2>1 DEF IInv, RowsGivenUp
  <2>13. Refusals'
    BY <1>t, <2>1, <2>2 DEF IInv, Refusals
  <2>14. AttemptsRead'
    BY <1>t, <2>1, <2>2 DEF IInv, AttemptsRead
  <2>15. VerdictTrue'
    BY <1>t, <2>1, <2>2, VerdictsKept, SameRows DEF IInv
  <2>16. ProcessedTrue' /\ DeadTrue'
    BY <1>t, <2>1, <2>u, <1>n, ClosedKept, SameRows DEF IInv, TypeInv, TypeOK
  <2>17. DeliveredOnce'
    BY <1>t, <2>1 DEF IInv, DeliveredOnce
  <2>c. Counted'
    <3>1. TriesSent'
      BY <1>t, <2>1 DEF IInv, Counted, TriesSent
    <3>2. SeenSent'
      BY <1>t, <2>1, <2>2, <2>3 DEF IInv, Counted, SeenSent
    <3>3. ASSUME NEW e \in DirectEvents \ overtaken'
          PROVE  /\ attempts[e] <= sent[e][Direct] + unused'[e] + 1
                 /\ (\A v \in Workers : e \notin Unsent(v)') => attempts[e] <= sent[e][Direct] + unused'[e]
      <4>1. e \in Events /\ e \notin overtaken
        BY <2>1, Constants
      <4>2. /\ attempts[e] <= sent[e][Direct] + unused[e] + 1
            /\ (\A v \in Workers : e \notin Unsent(v)) => attempts[e] <= sent[e][Direct] + unused[e]
        BY <1>t, <4>1 DEF IInv, Counted, ClaimsUsed
      <4>3. CASE e \in Unsent(w)
        BY <1>n, <2>u, <4>1, <4>2, <4>3
      <4>4. CASE e \notin Unsent(w)
        <5>1. \A v \in Workers : e \in Unsent(v) => e \in Unsent(v)'
          BY <2>3, <4>4 DEF Unsent
        <5> QED
          BY <1>n, <2>u, <4>1, <4>2, <5>1
      <4> QED
        BY <4>3, <4>4
    <3>4. ClaimsUsed'
      BY <2>1, <3>3 DEF ClaimsUsed
    <3> QED
      BY <3>1, <3>2, <3>4 DEF Counted
  <2> QED
    BY <2>5, <2>6, <2>7, <2>8, <2>9, <2>10, <2>11, <2>12, <2>13, <2>14, <2>15,
       <2>16, <2>17, <2>c DEF IInv, TypeInv
<1>15. ASSUME NEW n \in Pausable, SetStatus(n) PROVE IInv'
  <2>1. /\ active' \subseteq active \cup {n}
        /\ UNCHANGED <<eventRows, deliveryRows, pass, history>>
    BY <1>15 DEF SetStatus
  <2>2. TypeOK'
    BY <1>t, Constants, <2>1 DEF IInv, TypeInv, TypeOK
  <2>3. PassWellFormed'
    BY <1>t, <2>1 DEF IInv, TypeInv, PassWellFormed, WellFormed, WorksOn
  <2>4. Held'
    BY <1>t, <2>1 DEF IInv, Held, WorksOn
  <2>5. InHand'
    BY <1>t, <2>1 DEF IInv, InHand
  <2>6. RowsArrived'
    BY <1>t, <2>1 DEF IInv, RowsArrived, Delivered
  <2>7. AnswersArrived'
    BY <1>t, <2>1 DEF IInv, AnswersArrived, Recording, Delivered
  <2>8. ArrivedRecorded'
    BY <1>t, <2>1, ArrivedKept DEF IInv, Recording
  <2>9. RowsGivenUp'
    BY <1>t, <2>1 DEF IInv, RowsGivenUp
  <2>10. Refusals'
    BY <1>t, <2>1 DEF IInv, Refusals
  <2>11. AttemptsRead'
    BY <1>t, <2>1 DEF IInv, AttemptsRead
  <2>12. VerdictTrue'
    BY <1>t, <2>1, VerdictsKept, SameRows DEF IInv
  <2>13. ProcessedTrue' /\ DeadTrue'
    BY <1>t, <2>1, <1>n, ClosedKept, SameRows DEF IInv, TypeInv, TypeOK
  <2>14. DeliveredOnce'
    BY <1>t, <2>1 DEF IInv, DeliveredOnce
  <2>c. Counted'
    BY <1>t, <2>1, CountedKept DEF IInv, Unsent
  <2> QED
    BY <2>2, <2>3, <2>4, <2>5, <2>6, <2>7, <2>8, <2>9, <2>10, <2>11, <2>12,
       <2>13, <2>14, <2>c DEF IInv, TypeInv
<1>16. ASSUME UNCHANGED vars PROVE IInv'
  <2>1. UNCHANGED <<eventRows, deliveryRows, active, pass, history>>
    BY <1>16 DEF vars
  <2>2. TypeOK'
    BY <1>t, <2>1 DEF IInv, TypeInv, TypeOK
  <2>3. PassWellFormed'
    BY <1>t, <2>1 DEF IInv, TypeInv, PassWellFormed, WellFormed, WorksOn
  <2>4. Held'
    BY <1>t, <2>1 DEF IInv, Held, WorksOn
  <2>5. InHand'
    BY <1>t, <2>1 DEF IInv, InHand
  <2>6. RowsArrived'
    BY <1>t, <2>1 DEF IInv, RowsArrived, Delivered
  <2>7. AnswersArrived'
    BY <1>t, <2>1 DEF IInv, AnswersArrived, Recording, Delivered
  <2>8. ArrivedRecorded'
    BY <1>t, <2>1, ArrivedKept DEF IInv, Recording
  <2>9. RowsGivenUp'
    BY <1>t, <2>1 DEF IInv, RowsGivenUp
  <2>10. Refusals'
    BY <1>t, <2>1 DEF IInv, Refusals
  <2>11. AttemptsRead'
    BY <1>t, <2>1 DEF IInv, AttemptsRead
  <2>12. VerdictTrue'
    BY <1>t, <2>1, VerdictsKept, SameRows DEF IInv
  <2>13. ProcessedTrue' /\ DeadTrue'
    BY <1>t, <2>1, <1>n, ClosedKept, SameRows DEF IInv, TypeInv, TypeOK
  <2>14. DeliveredOnce'
    BY <1>t, <2>1 DEF IInv, DeliveredOnce
  <2>c. Counted'
    BY <1>t, <2>1, CountedKept DEF IInv, Unsent
  <2> QED
    BY <2>2, <2>3, <2>4, <2>5, <2>6, <2>7, <2>8, <2>9, <2>10, <2>11, <2>12,
       <2>13, <2>14, <2>c DEF IInv, TypeInv
<1>17. ASSUME NEW e \in Events, BackoffEnds(e) PROVE IInv'
  <2>1. /\ ready' = ready \cup {e}
        /\ UNCHANGED <<written, processed, dead, claim, stale, attempts, deliveryRows, active,
                       pass, history>>
    BY <1>17 DEF BackoffEnds
  <2>2. TypeOK'
    BY <1>t, <2>1 DEF IInv, TypeInv, TypeOK
  <2>3. PassWellFormed'
    BY <1>t, <2>1 DEF IInv, TypeInv, PassWellFormed, WellFormed, WorksOn
  <2>4. Held'
    BY <1>t, <2>1 DEF IInv, Held, WorksOn
  <2>5. InHand'
    BY <1>t, <2>1 DEF IInv, InHand
  <2>6. RowsArrived'
    BY <1>t, <2>1 DEF IInv, RowsArrived, Delivered
  <2>7. AnswersArrived'
    BY <1>t, <2>1 DEF IInv, AnswersArrived, Recording, Delivered
  <2>8. ArrivedRecorded'
    BY <1>t, <2>1, ArrivedKept DEF IInv, Recording
  <2>9. RowsGivenUp'
    BY <1>t, <2>1 DEF IInv, RowsGivenUp
  <2>10. Refusals'
    BY <1>t, <2>1 DEF IInv, Refusals
  <2>11. AttemptsRead'
    BY <1>t, <2>1 DEF IInv, AttemptsRead
  <2>12. VerdictTrue'
    BY <1>t, <2>1, VerdictsKept, SameRows DEF IInv
  <2>13. ProcessedTrue' /\ DeadTrue'
    BY <1>t, <2>1, <1>n, ClosedKept, SameRows DEF IInv, TypeInv, TypeOK
  <2>14. DeliveredOnce'
    BY <1>t, <2>1 DEF IInv, DeliveredOnce
  <2>c. Counted'
    BY <1>t, <2>1, CountedKept DEF IInv, Unsent
  <2> QED
    BY <2>2, <2>3, <2>4, <2>5, <2>6, <2>7, <2>8, <2>9, <2>10, <2>11, <2>12,
       <2>13, <2>14, <2>c DEF IInv, TypeInv
<1> QED
  BY <1>1, <1>2, <1>3, <1>4, <1>5, <1>6, <1>7, <1>8, <1>9, <1>10, <1>12,
     <1>13, <1>14, <1>15, <1>16, <1>17 DEF Next, Proceed, Elapse

(***************************************************************************)
(* The invariant, from the start.                                          *)
(***************************************************************************)
THEOREM OutboxInvariant == Spec => []IInv
<1>1. Init => IInv
  <2> SUFFICES ASSUME Init PROVE IInv
    OBVIOUS
  <2>1. \A w \in Workers :
            /\ pass[w].at = "idle" /\ pass[w].batch = {} /\ pass[w].event = None
    BY IdleType DEF Init
  <2>2. TypeOK
    BY Constants, IdleType DEF Init, TypeOK, RowStatus
  <2>3. PassWellFormed /\ Held
    BY <2>1, Constants DEF Init, PassWellFormed, WellFormed, Held, WorksOn
  <2>4. /\ InHand /\ RowsArrived /\ AnswersArrived /\ ArrivedRecorded
        /\ RowsGivenUp /\ Refusals /\ AttemptsRead
        /\ VerdictTrue /\ ProcessedTrue /\ DeadTrue /\ DeliveredOnce
        /\ Counted
    BY <2>1, Constants
    DEF Init, InHand, RowsArrived, AnswersArrived, Recording, ArrivedRecorded, RowsGivenUp,
        Refusals, AttemptsRead, VerdictTrue, ProcessedTrue, DeadTrue, DeliveredOnce, Delivered,
        Counted, TriesSent, SeenSent, ClaimsUsed
  <2> QED
    BY <2>2, <2>3, <2>4 DEF IInv, TypeInv
<1>2. IInv /\ [Next]_vars => IInv'
  BY InvStep
<1> QED
  BY <1>1, <1>2, PTL DEF Spec

(***************************************************************************)
(* Every reachable state is well typed.                                    *)
(***************************************************************************)
THEOREM TypeCorrect == Spec => []TypeOK
<1>1. IInv => TypeOK
  BY DEF IInv, TypeInv
<1> QED
  BY <1>1, OutboxInvariant, PTL

(***************************************************************************)
(* No endpoint receives an event twice, however passes overlap and retry   *)
(* (claimEvents, deliver, processEvent), unless the answer of the first    *)
(* delivery left no record or a pass was slower than its claim.            *)
(***************************************************************************)
THEOREM OneDelivery == Spec => []DeliveredOnce
<1>1. IInv => DeliveredOnce
  BY DEF IInv
<1> QED
  BY <1>1, OutboxInvariant, PTL

(***************************************************************************)
(* A processed event reached every endpoint it was opened for              *)
(* (processEvent's verdict over the delivery rows).                        *)
(***************************************************************************)
THEOREM ProcessedIsReached == Spec => []ProcessedReached
<1>1. IInv => ProcessedReached
  BY DEF IInv, TypeInv, TypeOK, ProcessedTrue, AllReached, RowsArrived, ProcessedReached
<1> QED
  BY <1>1, OutboxInvariant, PTL

(***************************************************************************)
(* A dead letter was refused, or deliver was called MAX_ATTEMPTS times for *)
(* one destination; of a direct event the claims whose pass died before    *)
(* its call count as well (claimEvents and processEvent).                  *)
(***************************************************************************)
THEOREM DeadLettersEarned == Spec => []DeadLetterEarned
<1>1. IInv => DeadLetterEarned
  BY DEF IInv, TypeInv, TypeOK, DeadTrue, OneGivenUp, RowsGivenUp, GivenUp, DeadLetterEarned
<1> QED
  BY <1>1, OutboxInvariant, PTL
=============================================================================
