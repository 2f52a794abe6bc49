------------------------- MODULE FiatTransferProofs -------------------------
(***************************************************************************)
(* Proofs about FiatTransfer, for any number of requests, sweeps, webhook  *)
(* deliveries, faults and stops.  The inductive invariant says what each   *)
(* of them knows of the provider's movement, which only moves forward, and *)
(* when the account may hold its amount before the row has its id.         *)
(***************************************************************************)
EXTENDS FiatTransfer, TLAPS

USE DEF row, provider, totals, history, Ends, Movement

-----------------------------------------------------------------------------
(* The invariant.                                                          *)

\* Nothing is at the provider that was not sent, nor recorded that is not
\* there; webhook deliveries go on only with a transfer that is recorded; the
\* account counts it before that only through the provider's own total.
Contact ==
    /\ external # "none" \/ late => calls > 0
    /\ external # "none" => first # "none"
    /\ recorded => external # "none"
    /\ ~recorded => pending <= 1 /\ (pending = 1 => foreseen)
    /\ \A c \in Callers :
           /\ call[c].at = "record" => external # "none"
           /\ call[c].at = "fail" => calls > 0
    /\ \A h \in Hooks : hook[h].at # "idle" => recorded

\* The provider's final state, where anything claims to know it.
Told(s) ==
    /\ s \in External
    /\ s = "SUCCEEDED" => external \in {"SUCCEEDED", "RETURNED"}
    /\ s = "FAILED" => external \in {"FAILED", "RETURNED"}
    /\ s = "CANCELED" => external = "CANCELED"

\* A refusal: no money moves, or another call was made.
Refused ==
    /\ calls > 0
    /\ \/ external = "none" /\ ~late
       \/ external \in {"FAILED", "CANCELED", "RETURNED"}
       \/ calls > 1

Answers ==
    /\ \A c \in Callers :
           /\ call[c].at = "record" => Told(call[c].answer)
           /\ call[c].at = "fail" => \/ call[c].answer = "SUBMISSION_UNKNOWN"
                                     \/ call[c].answer = "FAILED" /\ Refused
    /\ \A h \in Hooks : hook[h].at \in {"account", "write"} => Told(hook[h].transfer)

Outcome ==
    /\ status = "SUCCEEDED" => external \in {"SUCCEEDED", "RETURNED"}
    /\ status = "FAILED" => Refused

\* What allows a second record, or a second count.
Doubt ==
    /\ recorded /\ status = "SUBMISSION_UNKNOWN" => reopened
    /\ CountedOnce

\* Before the first call, those at work on a canceled transfer were so then.
Canceled ==
    busy # None /\ calls = 0 =>
        /\ status = "CANCELED"
        /\ \A c \in Callers : call[c].at # "idle" => c \in busy

IInv == TypeOK /\ Contact /\ Answers /\ Outcome /\ Doubt /\ Canceled

(***************************************************************************)
(* Where a caller or a delivery is, and what it holds, stay of their type. *)
(***************************************************************************)
LEMMA Placed ==
    ASSUME NEW f \in [Callers -> Call], NEW c \in Callers, NEW b \in BOOLEAN,
           NEW a \in {"idle", "create", "check", "call", "record", "fail"}
    PROVE  [f EXCEPT ![c].at = a, ![c].fresh = b] \in [Callers -> Call]
BY DEF Call

LEMMA Answering ==
    ASSUME NEW f \in [Callers -> Call], NEW c \in Callers,
           NEW b \in External \cup {"SUBMISSION_UNKNOWN"}, NEW a \in {"record", "fail"}
    PROVE  [f EXCEPT ![c].at = a, ![c].answer = b] \in [Callers -> Call]
BY DEF Call

LEMMA TransferRead ==
    ASSUME NEW f \in [Hooks -> Delivery], NEW h \in Hooks, NEW b \in External
    PROVE  [f EXCEPT ![h].at = "account", ![h].transfer = b] \in [Hooks -> Delivery]
BY DEF Delivery

LEMMA AccountRead ==
    ASSUME NEW f \in [Hooks -> Delivery], NEW h \in Hooks, NEW n \in 0 .. 1
    PROVE  [f EXCEPT ![h].at = "write", ![h].account = n] \in [Hooks -> Delivery]
BY DEF Delivery

(***************************************************************************)
(* Every step of a request, a sweep, a delivery or the provider keeps what *)
(* is known of the movement.                                               *)
(***************************************************************************)
LEMMA StepHolds == ASSUME IInv, [Next]_vars PROVE IInv'
<1>t. TypeOK /\ Contact /\ Answers /\ Outcome /\ Doubt /\ Canceled
  BY DEF IInv
<1>1. ASSUME NEW c \in Callers, Arrive(c) PROVE IInv'
  <2>1. TypeOK'
    <3>1. call' \in [Callers -> Call]
      <4>1. call' = [call EXCEPT ![c].at = IF status = "none" THEN "create" ELSE "check",
                                 ![c].fresh = (status = "PENDING")]
        BY <1>1 DEF Arrive
      <4>2. (status = "PENDING") \in BOOLEAN
        OBVIOUS
      <4> HIDE DEF TypeOK
      <4>3. call \in [Callers -> Call]
        BY <1>t DEF TypeOK
      <4>4. CASE status = "none"
        BY <4>1, <4>2, <4>3, <4>4, Placed
      <4>5. CASE status # "none"
        BY <4>1, <4>2, <4>3, <4>5, Placed
      <4> QED
        BY <4>4, <4>5
    <3>2. hook' \in [Hooks -> Delivery]
      BY <1>t, <1>1 DEF TypeOK, Arrive
    <3> QED
      BY <1>t, <1>1, <3>1, <3>2, ConstantsAssumption DEF ConstantsAssumption, TypeOK,
         Status, External, Final, Arrive
  <2>2. Contact'
    BY <1>t, <1>1, ConstantsAssumption DEF ConstantsAssumption, TypeOK, Call, Delivery,
       Contact, External, Final, Arrive, Retryable
  <2>3. Answers'
    BY <1>t, <1>1, ConstantsAssumption DEF ConstantsAssumption, TypeOK, Call, Delivery,
       Contact, Answers, Told, Refused, External, Final, Arrive, Retryable
  <2>4. Outcome'
    BY <1>t, <1>1, ConstantsAssumption DEF ConstantsAssumption, TypeOK, Call, Delivery,
       Contact, Answers, Told, Outcome, Refused, External, Final, Arrive, Retryable
  <2>5. Doubt'
    BY <1>t, <1>1, ConstantsAssumption DEF ConstantsAssumption, TypeOK, Call, Delivery,
       Contact, Answers, Told, Doubt, CountedOnce, External, Final, Status, Arrive,
       Retryable
  <2>6. Canceled'
    BY <1>t, <1>1, ConstantsAssumption DEF ConstantsAssumption, TypeOK, Call, Delivery,
       Contact, Canceled, External, Final, Arrive, Retryable
  <2> QED
    BY <2>1, <2>2, <2>3, <2>4, <2>5, <2>6 DEF IInv
<1>2. ASSUME NEW c \in Callers, Create(c) PROVE IInv'
  <2>1. TypeOK'
    <3>1. call' \in [Callers -> Call]
      <4>1. call \in [Callers -> Call] /\ Idle \in Call
        BY <1>t DEF TypeOK, Idle, Call
      <4>2. CASE call' = [call EXCEPT ![c] = Idle]
        BY <4>1, <4>2
      <4>3. CASE \E b \in BOOLEAN : call' = [call EXCEPT ![c].at = "check", ![c].fresh = b]
        <5>1. PICK b \in BOOLEAN : call' = [call EXCEPT ![c].at = "check", ![c].fresh = b]
          BY <4>3
        <5> QED
          BY <4>1, <5>1, Placed
      <4> QED
        BY <1>2, <4>2, <4>3 DEF Create
    <3>2. hook' \in [Hooks -> Delivery]
      BY <1>t, <1>2 DEF TypeOK, Create
    <3> QED
      BY <1>t, <1>2, <3>1, <3>2, ConstantsAssumption DEF ConstantsAssumption, TypeOK,
         Status, External, Final, Create
  <2>2. Contact'
    BY <1>t, <1>2, ConstantsAssumption DEF ConstantsAssumption, TypeOK, Call, Delivery,
       Contact, External, Final, Create, Idle
  <2>3. Answers'
    BY <1>t, <1>2, ConstantsAssumption DEF ConstantsAssumption, TypeOK, Call, Delivery,
       Contact, Answers, Told, Refused, External, Final, Create, Idle
  <2>4. Outcome'
    BY <1>t, <1>2, ConstantsAssumption DEF ConstantsAssumption, TypeOK, Call, Delivery,
       Contact, Answers, Told, Outcome, Refused, External, Final, Create, Idle
  <2>5. Doubt'
    BY <1>t, <1>2, ConstantsAssumption DEF ConstantsAssumption, TypeOK, Call, Delivery,
       Contact, Answers, Told, Doubt, CountedOnce, External, Final, Status, Create, Idle
  <2>6. Canceled'
    BY <1>t, <1>2, ConstantsAssumption DEF ConstantsAssumption, TypeOK, Call, Delivery,
       Contact, Canceled, External, Final, Create, Idle
  <2> QED
    BY <2>1, <2>2, <2>3, <2>4, <2>5, <2>6 DEF IInv
<1>3. ASSUME NEW c \in Callers, Check(c) PROVE IInv'
  <2>1. TypeOK'
    <3>1. call' \in [Callers -> Call]
      <4>1. call \in [Callers -> Call] /\ Idle \in Call
        BY <1>t DEF TypeOK, Idle, Call
      <4>2. CASE call' = [call EXCEPT ![c].at = "call"]
        BY <4>1, <4>2 DEF Call
      <4>3. CASE call' = [call EXCEPT ![c] = Idle]
        BY <4>1, <4>3
      <4> QED
        BY <1>3, <4>2, <4>3 DEF Check
    <3>2. hook' \in [Hooks -> Delivery]
      BY <1>t, <1>3 DEF TypeOK, Check
    <3> QED
      BY <1>t, <1>3, <3>1, <3>2, ConstantsAssumption DEF ConstantsAssumption, TypeOK,
         Status, External, Final, Check, Cancels
  <2>2. Contact'
    BY <1>t, <1>3, ConstantsAssumption DEF ConstantsAssumption, TypeOK, Call, Delivery,
       Contact, External, Final, Check, Idle, Cancels
  <2>3. Answers'
    BY <1>t, <1>3, ConstantsAssumption DEF ConstantsAssumption, TypeOK, Call, Delivery,
       Contact, Answers, Told, Refused, External, Final, Check, Idle, Cancels
  <2>4. Outcome'
    BY <1>t, <1>3, ConstantsAssumption DEF ConstantsAssumption, TypeOK, Call, Delivery,
       Contact, Answers, Told, Outcome, Refused, External, Final, Check, Idle, Cancels
  <2>5. Doubt'
    BY <1>t, <1>3, ConstantsAssumption DEF ConstantsAssumption, TypeOK, Call, Delivery,
       Contact, Answers, Told, Doubt, CountedOnce, External, Final, Status, Check, Idle,
       Cancels
  <2>6. Canceled'
    BY <1>t, <1>3, ConstantsAssumption DEF ConstantsAssumption, TypeOK, Call, Delivery,
       Contact, Canceled, External, Final, Check, Idle, Cancels
  <2> QED
    BY <2>1, <2>2, <2>3, <2>4, <2>5, <2>6 DEF IInv
<1>4. ASSUME NEW c \in Callers, Select(c) PROVE IInv'
  <2>1. TypeOK'
    <3>1. call' \in [Callers -> Call]
      BY <1>t, <1>4, ConstantsAssumption DEF ConstantsAssumption, TypeOK, Call, External,
         Final, Select
    <3>2. hook' \in [Hooks -> Delivery]
      BY <1>t, <1>4 DEF TypeOK, Select
    <3> QED
      BY <1>t, <1>4, <3>1, <3>2, ConstantsAssumption DEF ConstantsAssumption, TypeOK,
         Status, External, Final, Call, Select
  <2>2. Contact'
    BY <1>t, <1>4, ConstantsAssumption DEF ConstantsAssumption, TypeOK, Call, Delivery,
       Contact, External, Final, Select, Retryable
  <2>3. Answers'
    BY <1>t, <1>4, ConstantsAssumption DEF ConstantsAssumption, TypeOK, Call, Delivery,
       Contact, Answers, Told, Refused, External, Final, Select, Retryable
  <2>4. Outcome'
    BY <1>t, <1>4, ConstantsAssumption DEF ConstantsAssumption, TypeOK, Call, Delivery,
       Contact, Answers, Told, Outcome, Refused, External, Final, Select, Retryable
  <2>5. Doubt'
    BY <1>t, <1>4, ConstantsAssumption DEF ConstantsAssumption, TypeOK, Call, Delivery,
       Contact, Answers, Told, Doubt, CountedOnce, External, Final, Status, Select,
       Retryable
  <2>6. Canceled'
    BY <1>t, <1>4, ConstantsAssumption DEF ConstantsAssumption, TypeOK, Call, Delivery,
       Contact, Canceled, External, Final, Select, Retryable
  <2> QED
    BY <2>1, <2>2, <2>3, <2>4, <2>5, <2>6 DEF IInv
<1>5. ASSUME NEW c \in Callers, Answered(c) PROVE IInv'
  <2>1. TypeOK'
    <3>1. call' \in [Callers -> Call]
      <4>1. /\ Mapped(external') \in External /\ first' \in External
            /\ call \in [Callers -> Call]
        BY <1>t, <1>5 DEF TypeOK, Contact, Answered, Accept, External, Final, Mapped
      <4>2. PICK b \in {first', Mapped(external')} :
                call' = [call EXCEPT ![c].at = "record", ![c].answer = b]
        BY <1>5 DEF Answered
      <4>3. b \in External
        BY <4>1
      <4> QED
        BY <4>1, <4>2, <4>3, Answering
    <3>2. hook' \in [Hooks -> Delivery]
      BY <1>t, <1>5 DEF TypeOK, Answered
    <3> QED
      BY <1>t, <1>5, <3>1, <3>2, ConstantsAssumption DEF ConstantsAssumption, Mapped,
         TypeOK, Status, External, Final, Answered, Accept, More
  <2>2. Contact'
    BY <1>t, <1>5, ConstantsAssumption DEF ConstantsAssumption, Mapped, TypeOK, Call,
       Delivery, Contact, External, Final, Answered, Accept, More
  <2>3. Answers'
    BY <1>t, <1>5, ConstantsAssumption DEF ConstantsAssumption, Mapped, TypeOK, Call,
       Delivery, Contact, Answers, Told, Refused, External, Final, Answered, Accept, More
  <2>4. Outcome'
    BY <1>t, <1>5, ConstantsAssumption DEF ConstantsAssumption, Mapped, TypeOK, Call,
       Delivery, Contact, Answers, Told, Outcome, Refused, External, Final, Answered,
       Accept, More
  <2>5. Doubt'
    BY <1>t, <1>5, ConstantsAssumption DEF ConstantsAssumption, Mapped, TypeOK, Call,
       Delivery, Contact, Answers, Told, Doubt, CountedOnce, External, Final, Status,
       Answered, Accept, More
  <2>6. Canceled'
    BY <1>t, <1>5, ConstantsAssumption DEF ConstantsAssumption, Mapped, TypeOK, Call,
       Delivery, Contact, Canceled, External, Final, Answered, Accept, More
  <2> QED
    BY <2>1, <2>2, <2>3, <2>4, <2>5, <2>6 DEF IInv
<1>6. ASSUME NEW c \in Callers, Fault(c) PROVE IInv'
  <2>1. TypeOK'
    <3>1. call' \in [Callers -> Call]
      <4>1. PICK b \in {"FAILED", "SUBMISSION_UNKNOWN"} :
                call' = [call EXCEPT ![c].at = "fail", ![c].answer = b]
        BY <1>6 DEF Fault
      <4>2. call \in [Callers -> Call] /\ b \in External \cup {"SUBMISSION_UNKNOWN"}
        BY <1>t DEF TypeOK, External, Final
      <4> QED
        BY <4>1, <4>2, Answering
    <3>2. hook' \in [Hooks -> Delivery]
      BY <1>t, <1>6 DEF TypeOK, Fault
    <3> QED
      BY <1>t, <1>6, <3>1, <3>2, ConstantsAssumption DEF ConstantsAssumption, TypeOK,
         Status, External, Final, Fault, Accept, More
  <2>2. Contact'
    BY <1>t, <1>6, ConstantsAssumption DEF ConstantsAssumption, TypeOK, Call, Delivery,
       Contact, External, Final, Fault, Accept, More, DefiniteErrors
  <2>3. Answers'
    BY <1>t, <1>6, ConstantsAssumption DEF ConstantsAssumption, TypeOK, Call, Delivery,
       Contact, Answers, Told, Refused, External, Final, Fault, Accept, More, DefiniteErrors
  <2>4. Outcome'
    BY <1>t, <1>6, ConstantsAssumption DEF ConstantsAssumption, TypeOK, Call, Delivery,
       Contact, Answers, Told, Outcome, Refused, External, Final, Fault, Accept, More,
       DefiniteErrors
  <2>5. Doubt'
    BY <1>t, <1>6, ConstantsAssumption DEF ConstantsAssumption, TypeOK, Call, Delivery,
       Contact, Answers, Told, Doubt, CountedOnce, External, Final, Status, Fault, Accept,
       More, DefiniteErrors
  <2>6. Canceled'
    BY <1>t, <1>6, ConstantsAssumption DEF ConstantsAssumption, TypeOK, Call, Delivery,
       Contact, Canceled, External, Final, Fault, Accept, More, DefiniteErrors
  <2> QED
    BY <2>1, <2>2, <2>3, <2>4, <2>5, <2>6 DEF IInv
<1>7. ASSUME NEW c \in Callers, Record(c) PROVE IInv'
  <2>1. TypeOK'
    <3>1. call' \in [Callers -> Call] /\ hook' \in [Hooks -> Delivery]
      BY <1>t, <1>7 DEF TypeOK, Call, Record, Idle
    <3>2. UNCHANGED <<stopped, totals, provider, history>>
      BY <1>7 DEF Record
    <3>6. \/ UNCHANGED <<status, recorded, pending>>
          \/ /\ recorded' = TRUE /\ status' = call[c].answer
             /\ pending' = IF call[c].answer = "PROCESSING" THEN More(pending) ELSE pending
      BY <1>7 DEF Record
    <3>3. call[c].answer \in Status
      BY <1>t, <1>7 DEF Answers, Told, Record, Status
    <3>4. pending \in 0 .. 2 /\ More(pending) \in 0 .. 2
      BY <1>t DEF TypeOK, More
    <3>5. status' \in Status /\ recorded' \in BOOLEAN /\ pending' \in 0 .. 2
      BY <1>t, <3>6, <3>3, <3>4 DEF TypeOK
    <3> QED
      BY <1>t, <3>1, <3>2, <3>5 DEF TypeOK
  <2>2. Contact'
    BY <1>t, <1>7, ConstantsAssumption DEF ConstantsAssumption, TypeOK, Call, Delivery,
       Contact, External, Final, Record, Records, More, Idle
  <2>3. Answers'
    BY <1>t, <1>7, ConstantsAssumption DEF ConstantsAssumption, TypeOK, Call, Delivery,
       Contact, Answers, Told, Refused, External, Final, Record, Records, More, Idle
  <2>4. Outcome'
    BY <1>t, <1>7, ConstantsAssumption DEF ConstantsAssumption, TypeOK, Call, Delivery,
       Contact, Answers, Told, Outcome, Refused, External, Final, Record, Records, More,
       Idle
  <2>5. Doubt'
    BY <1>t, <1>7, ConstantsAssumption DEF ConstantsAssumption, TypeOK, Call, Delivery,
       Contact, Answers, Told, Doubt, CountedOnce, External, Final, Status, Record, Records,
       More, Idle
  <2>6. Canceled'
    BY <1>t, <1>7, ConstantsAssumption DEF ConstantsAssumption, TypeOK, Call, Delivery,
       Contact, Canceled, External, Final, Record, Records, More, Idle
  <2> QED
    BY <2>1, <2>2, <2>3, <2>4, <2>5, <2>6 DEF IInv
<1>8. ASSUME NEW c \in Callers, RecordFails(c) PROVE IInv'
  <2>1. TypeOK'
    <3>1. call' \in [Callers -> Call]
      <4>1. call' = [call EXCEPT ![c].at = "fail", ![c].answer = "SUBMISSION_UNKNOWN"]
        BY <1>8 DEF RecordFails
      <4>2. call \in [Callers -> Call]
        BY <1>t DEF TypeOK
      <4> QED
        BY <4>1, <4>2, Answering
    <3>2. hook' \in [Hooks -> Delivery]
      BY <1>t, <1>8 DEF TypeOK, RecordFails
    <3> QED
      BY <1>t, <1>8, <3>1, <3>2, ConstantsAssumption DEF ConstantsAssumption, TypeOK,
         Status, External, Final, RecordFails
  <2>2. Contact'
    BY <1>t, <1>8, ConstantsAssumption DEF ConstantsAssumption, TypeOK, Call, Delivery,
       Contact, External, Final, RecordFails
  <2>3. Answers'
    BY <1>t, <1>8, ConstantsAssumption DEF ConstantsAssumption, TypeOK, Call, Delivery,
       Contact, Answers, Told, Refused, External, Final, RecordFails
  <2>4. Outcome'
    BY <1>t, <1>8, ConstantsAssumption DEF ConstantsAssumption, TypeOK, Call, Delivery,
       Contact, Answers, Told, Outcome, Refused, External, Final, RecordFails
  <2>5. Doubt'
    BY <1>t, <1>8, ConstantsAssumption DEF ConstantsAssumption, TypeOK, Call, Delivery,
       Contact, Answers, Told, Doubt, CountedOnce, External, Final, Status, RecordFails
  <2>6. Canceled'
    BY <1>t, <1>8, ConstantsAssumption DEF ConstantsAssumption, TypeOK, Call, Delivery,
       Contact, Canceled, External, Final, RecordFails
  <2> QED
    BY <2>1, <2>2, <2>3, <2>4, <2>5, <2>6 DEF IInv
<1>9. ASSUME NEW c \in Callers, Fail(c) PROVE IInv'
  <2>1. TypeOK'
    <3>1. call' \in [Callers -> Call]
      BY <1>t, <1>9, ConstantsAssumption DEF ConstantsAssumption, TypeOK, Call, External,
         Final, Fail, Idle
    <3>2. hook' \in [Hooks -> Delivery]
      BY <1>t, <1>9 DEF TypeOK, Fail
    <3> QED
      BY <1>t, <1>9, <3>1, <3>2, ConstantsAssumption DEF ConstantsAssumption, TypeOK,
         Contact, Answers, Told, Status, External, Final, Call, Fail
  <2>2. Contact'
    BY <1>t, <1>9, ConstantsAssumption DEF ConstantsAssumption, TypeOK, Call, Delivery,
       Contact, External, Final, Fail, Idle
  <2>3. Answers'
    BY <1>t, <1>9, ConstantsAssumption DEF ConstantsAssumption, TypeOK, Call, Delivery,
       Contact, Answers, Told, Refused, External, Final, Fail, Idle
  <2>4. Outcome'
    BY <1>t, <1>9, ConstantsAssumption DEF ConstantsAssumption, TypeOK, Call, Delivery,
       Contact, Answers, Told, Outcome, Refused, External, Final, Fail, Idle
  <2>5. Doubt'
    BY <1>t, <1>9, ConstantsAssumption DEF ConstantsAssumption, TypeOK, Call, Delivery,
       Contact, Answers, Told, Doubt, CountedOnce, External, Final, Status, Fail, Idle
  <2>6. Canceled'
    BY <1>t, <1>9, ConstantsAssumption DEF ConstantsAssumption, TypeOK, Call, Delivery,
       Contact, Canceled, External, Final, Fail, Idle
  <2> QED
    BY <2>1, <2>2, <2>3, <2>4, <2>5, <2>6 DEF IInv
<1>10. ASSUME NEW c \in Callers, Die(c) PROVE IInv'
  <2>1. TypeOK'
    <3>1. call' \in [Callers -> Call]
      BY <1>t, <1>10, ConstantsAssumption DEF ConstantsAssumption, TypeOK, Call, External,
         Final, Die, Idle
    <3>2. hook' \in [Hooks -> Delivery]
      BY <1>t, <1>10 DEF TypeOK, Die
    <3> QED
      BY <1>t, <1>10, <3>1, <3>2, ConstantsAssumption DEF ConstantsAssumption, TypeOK,
         Status, External, Final, Call, Die
  <2>2. Contact'
    BY <1>t, <1>10, ConstantsAssumption DEF ConstantsAssumption, TypeOK, Call, Delivery,
       Contact, External, Final, Die, Idle
  <2>3. Answers'
    BY <1>t, <1>10, ConstantsAssumption DEF ConstantsAssumption, TypeOK, Call, Delivery,
       Contact, Answers, Told, Refused, External, Final, Die, Idle
  <2>4. Outcome'
    BY <1>t, <1>10, ConstantsAssumption DEF ConstantsAssumption, TypeOK, Call, Delivery,
       Contact, Answers, Told, Outcome, Refused, External, Final, Die, Idle
  <2>5. Doubt'
    BY <1>t, <1>10, ConstantsAssumption DEF ConstantsAssumption, TypeOK, Call, Delivery,
       Contact, Answers, Told, Doubt, CountedOnce, External, Final, Status, Die, Idle
  <2>6. Canceled'
    BY <1>t, <1>10, ConstantsAssumption DEF ConstantsAssumption, TypeOK, Call, Delivery,
       Contact, Canceled, External, Final, Die, Idle
  <2> QED
    BY <2>1, <2>2, <2>3, <2>4, <2>5, <2>6 DEF IInv
<1>11. ASSUME LateArrival PROVE IInv'
  <2>1. TypeOK'
    <3>1. /\ external' \in Movement \cup {"none"} /\ first' \in {"none", "PENDING", "PROCESSING"}
          /\ events' \subseteq Movement /\ late' \in BOOLEAN
      BY <1>t, <1>11 DEF TypeOK, LateArrival, Accept
    <3>2. UNCHANGED <<row, stopped, call, hook, totals, history>>
      BY <1>11 DEF LateArrival
    <3> QED
      BY <1>t, <3>1, <3>2 DEF TypeOK
  <2>2. Contact'
    BY <1>t, <1>11, ConstantsAssumption DEF ConstantsAssumption, TypeOK, Call, Delivery,
       Contact, External, Final, LateArrival, Accept
  <2>3. Answers'
    BY <1>t, <1>11, ConstantsAssumption DEF ConstantsAssumption, TypeOK, Call, Delivery,
       Contact, Answers, Told, Refused, External, Final, LateArrival, Accept
  <2>4. Outcome'
    BY <1>t, <1>11, ConstantsAssumption DEF ConstantsAssumption, TypeOK, Call, Delivery,
       Contact, Answers, Told, Outcome, Refused, External, Final, LateArrival, Accept
  <2>5. Doubt'
    BY <1>t, <1>11, ConstantsAssumption DEF ConstantsAssumption, TypeOK, Call, Delivery,
       Contact, Answers, Told, Doubt, CountedOnce, External, Final, Status, LateArrival,
       Accept
  <2>6. Canceled'
    BY <1>t, <1>11, ConstantsAssumption DEF ConstantsAssumption, TypeOK, Call, Delivery,
       Contact, Canceled, External, Final, LateArrival, Accept
  <2> QED
    BY <2>1, <2>2, <2>3, <2>4, <2>5, <2>6 DEF IInv
<1>12. ASSUME NEW h \in Hooks, Receive(h) PROVE IInv'
  <2>1. TypeOK'
    <3>1. hook' \in [Hooks -> Delivery]
      BY <1>t, <1>12 DEF TypeOK, Contact, Delivery, External, Final, Receive
    <3>2. call' \in [Callers -> Call]
      BY <1>t, <1>12 DEF TypeOK, Receive
    <3> QED
      BY <1>t, <1>12, <3>1, <3>2, ConstantsAssumption DEF ConstantsAssumption, TypeOK,
         Contact, Answers, Told, Status, External, Final, Delivery, Receive, Dropped
  <2>2. Contact'
    BY <1>t, <1>12, ConstantsAssumption DEF ConstantsAssumption, TypeOK, Call, Delivery,
       Contact, External, Final, Receive
  <2>3. Answers'
    BY <1>t, <1>12, ConstantsAssumption DEF ConstantsAssumption, TypeOK, Call, Delivery,
       Contact, Answers, Told, Refused, External, Final, Receive
  <2>4. Outcome'
    BY <1>t, <1>12, ConstantsAssumption DEF ConstantsAssumption, TypeOK, Call, Delivery,
       Contact, Answers, Told, Outcome, Refused, External, Final, Receive
  <2>5. Doubt'
    BY <1>t, <1>12, ConstantsAssumption DEF ConstantsAssumption, TypeOK, Call, Delivery,
       Contact, Answers, Told, Doubt, CountedOnce, External, Final, Status, Receive
  <2>6. Canceled'
    BY <1>t, <1>12, ConstantsAssumption DEF ConstantsAssumption, TypeOK, Call, Delivery,
       Contact, Canceled, External, Final, Receive
  <2> QED
    BY <2>1, <2>2, <2>3, <2>4, <2>5, <2>6 DEF IInv
<1>13. ASSUME NEW h \in Hooks, ReadTransfer(h) PROVE IInv'
  <2>1. TypeOK'
    <3>1. hook' \in [Hooks -> Delivery]
      <4>1. Mapped(external) \in External
        BY <1>t, <1>13 DEF TypeOK, Contact, ReadTransfer, Mapped, External, Final
      <4>2. hook' = [hook EXCEPT ![h].at = "account", ![h].transfer = Mapped(external)]
        BY <1>13 DEF ReadTransfer
      <4>3. hook \in [Hooks -> Delivery]
        BY <1>t DEF TypeOK
      <4> QED
        BY <4>1, <4>2, <4>3, TransferRead
    <3>2. call' \in [Callers -> Call]
      BY <1>t, <1>13 DEF TypeOK, ReadTransfer
    <3> QED
      BY <1>t, <1>13, <3>1, <3>2 DEF TypeOK, ReadTransfer
  <2>2. Contact'
    BY <1>t, <1>13, ConstantsAssumption DEF ConstantsAssumption, Mapped, TypeOK, Call,
       Delivery, Contact, External, Final, ReadTransfer
  <2>3. Answers'
    BY <1>t, <1>13, ConstantsAssumption DEF ConstantsAssumption, Mapped, TypeOK, Call,
       Delivery, Contact, Answers, Told, Refused, External, Final, ReadTransfer
  <2>4. Outcome'
    BY <1>t, <1>13, ConstantsAssumption DEF ConstantsAssumption, Mapped, TypeOK, Call,
       Delivery, Contact, Answers, Told, Outcome, Refused, External, Final, ReadTransfer
  <2>5. Doubt'
    BY <1>t, <1>13, ConstantsAssumption DEF ConstantsAssumption, Mapped, TypeOK, Call,
       Delivery, Contact, Answers, Told, Doubt, CountedOnce, External, Final, Status,
       ReadTransfer
  <2>6. Canceled'
    BY <1>t, <1>13, ConstantsAssumption DEF ConstantsAssumption, Mapped, TypeOK, Call,
       Delivery, Contact, Canceled, External, Final, ReadTransfer
  <2> QED
    BY <2>1, <2>2, <2>3, <2>4, <2>5, <2>6 DEF IInv
<1>14. ASSUME NEW h \in Hooks, ReadAccount(h) PROVE IInv'
  <2>1. TypeOK'
    <3>1. hook' \in [Hooks -> Delivery]
      <4>1. Counts(external) \subseteq 0 .. 1
        BY DEF Counts
      <4>2. PICK n \in 0 .. 1 : hook' = [hook EXCEPT ![h].at = "write", ![h].account = n]
        BY <1>14, <4>1 DEF ReadAccount
      <4>3. hook \in [Hooks -> Delivery]
        BY <1>t DEF TypeOK
      <4> QED
        BY <4>1, <4>2, <4>3, AccountRead
    <3>2. call' \in [Callers -> Call]
      BY <1>t, <1>14 DEF TypeOK, ReadAccount
    <3> QED
      BY <1>t, <1>14, <3>1, <3>2 DEF TypeOK, ReadAccount
  <2>2. Contact'
    BY <1>t, <1>14, ConstantsAssumption DEF ConstantsAssumption, TypeOK, Call, Delivery,
       Contact, External, Final, ReadAccount
  <2>3. Answers'
    BY <1>t, <1>14, ConstantsAssumption DEF ConstantsAssumption, TypeOK, Call, Delivery,
       Contact, Answers, Told, Refused, External, Final, ReadAccount
  <2>4. Outcome'
    BY <1>t, <1>14, ConstantsAssumption DEF ConstantsAssumption, TypeOK, Call, Delivery,
       Contact, Answers, Told, Outcome, Refused, External, Final, ReadAccount
  <2>5. Doubt'
    BY <1>t, <1>14, ConstantsAssumption DEF ConstantsAssumption, TypeOK, Call, Delivery,
       Contact, Answers, Told, Doubt, CountedOnce, External, Final, Status, ReadAccount
  <2>6. Canceled'
    BY <1>t, <1>14, ConstantsAssumption DEF ConstantsAssumption, TypeOK, Call, Delivery,
       Contact, Canceled, External, Final, ReadAccount
  <2> QED
    BY <2>1, <2>2, <2>3, <2>4, <2>5, <2>6 DEF IInv
<1>15. ASSUME NEW h \in Hooks, WriteBoth(h) PROVE IInv'
  <2>1. TypeOK'
    <3>1. hook' \in [Hooks -> Delivery]
      BY <1>t, <1>15 DEF TypeOK, WriteBoth, Asleep, Delivery
    <3>2. UNCHANGED <<call, recorded, stopped, totals, external, first, late, faults, stops, busy,
                      calls, ignored>>
      BY <1>15 DEF WriteBoth
    <3>3. status' \in Status /\ pending' \in 0 .. 2
      BY <1>t, <1>15 DEF TypeOK, Answers, Told, WriteBoth, Status, Delivery
    <3>4. events' \subseteq Movement /\ reopened' \in BOOLEAN
      BY <1>t, <1>15 DEF TypeOK, WriteBoth
    <3> QED
      BY <1>t, <3>1, <3>2, <3>3, <3>4 DEF TypeOK
  <2>2. Contact'
    BY <1>t, <1>15, ConstantsAssumption DEF ConstantsAssumption, TypeOK, Call, Delivery,
       Contact, External, Final, WriteBoth, Asleep
  <2>3. Answers'
    BY <1>t, <1>15, ConstantsAssumption DEF ConstantsAssumption, TypeOK, Call, Delivery,
       Contact, Answers, Told, Refused, External, Final, WriteBoth, Asleep
  <2>4. Outcome'
    BY <1>t, <1>15, ConstantsAssumption DEF ConstantsAssumption, TypeOK, Call, Delivery,
       Contact, Answers, Told, Outcome, Refused, External, Final, WriteBoth, Asleep
  <2>5. Doubt'
    BY <1>t, <1>15, ConstantsAssumption DEF ConstantsAssumption, TypeOK, Call, Delivery,
       Contact, Answers, Told, Doubt, CountedOnce, External, Final, Status, WriteBoth,
       Asleep
  <2>6. Canceled'
    BY <1>t, <1>15, ConstantsAssumption DEF ConstantsAssumption, TypeOK, Call, Delivery,
       Contact, Canceled, External, Final, WriteBoth, Asleep
  <2> QED
    BY <2>1, <2>2, <2>3, <2>4, <2>5, <2>6 DEF IInv
<1>16. ASSUME NEW h \in Hooks, HookFails(h) PROVE IInv'
  <2>1. TypeOK'
    <3>1. hook' \in [Hooks -> Delivery]
      BY <1>t, <1>16 DEF TypeOK, Contact, Delivery, External, Final, HookFails, Asleep
    <3>2. call' \in [Callers -> Call]
      BY <1>t, <1>16 DEF TypeOK, HookFails
    <3> QED
      BY <1>t, <1>16, <3>1, <3>2, ConstantsAssumption DEF ConstantsAssumption, TypeOK,
         Contact, Answers, Told, Status, External, Final, Delivery, HookFails, Dropped
  <2>2. Contact'
    BY <1>t, <1>16, ConstantsAssumption DEF ConstantsAssumption, TypeOK, Call, Delivery,
       Contact, External, Final, HookFails, Asleep, Dropped
  <2>3. Answers'
    BY <1>t, <1>16, ConstantsAssumption DEF ConstantsAssumption, TypeOK, Call, Delivery,
       Contact, Answers, Told, Refused, External, Final, HookFails, Asleep, Dropped
  <2>4. Outcome'
    BY <1>t, <1>16, ConstantsAssumption DEF ConstantsAssumption, TypeOK, Call, Delivery,
       Contact, Answers, Told, Outcome, Refused, External, Final, HookFails, Asleep, Dropped
  <2>5. Doubt'
    BY <1>t, <1>16, ConstantsAssumption DEF ConstantsAssumption, TypeOK, Call, Delivery,
       Contact, Answers, Told, Doubt, CountedOnce, External, Final, Status, HookFails,
       Asleep, Dropped
  <2>6. Canceled'
    BY <1>t, <1>16, ConstantsAssumption DEF ConstantsAssumption, TypeOK, Call, Delivery,
       Contact, Canceled, External, Final, HookFails, Asleep, Dropped
  <2> QED
    BY <2>1, <2>2, <2>3, <2>4, <2>5, <2>6 DEF IInv
<1>17. ASSUME Settle PROVE IInv'
  <2>1. TypeOK'
    <3>1. external' \in Movement /\ events' \subseteq Movement
      <4>1. PICK s \in Movement : external' = s /\ events' = events \cup {s}
        BY <1>17 DEF Settle, Becomes, Final
      <4>2. events \subseteq Movement
        BY <1>t DEF TypeOK
      <4> QED
        BY <4>1, <4>2
    <3>2. UNCHANGED <<row, stopped, call, hook, totals, first, late, history>>
      BY <1>17 DEF Settle, Becomes
    <3> QED
      BY <1>t, <3>1, <3>2 DEF TypeOK
  <2>2. Contact'
    BY <1>t, <1>17, ConstantsAssumption DEF ConstantsAssumption, TypeOK, Call, Delivery,
       Contact, External, Final, Settle, Becomes
  <2>3. Answers'
    BY <1>t, <1>17, ConstantsAssumption DEF ConstantsAssumption, TypeOK, Call, Delivery,
       Contact, Answers, Told, Refused, External, Final, Settle, Becomes
  <2>4. Outcome'
    BY <1>t, <1>17, ConstantsAssumption DEF ConstantsAssumption, TypeOK, Call, Delivery,
       Contact, Answers, Told, Outcome, Refused, External, Final, Settle, Becomes
  <2>5. Doubt'
    BY <1>t, <1>17, ConstantsAssumption DEF ConstantsAssumption, TypeOK, Call, Delivery,
       Contact, Answers, Told, Doubt, CountedOnce, External, Final, Status, Settle, Becomes
  <2>6. Canceled'
    BY <1>t, <1>17, ConstantsAssumption DEF ConstantsAssumption, TypeOK, Call, Delivery,
       Contact, Canceled, External, Final, Settle, Becomes
  <2> QED
    BY <2>1, <2>2, <2>3, <2>4, <2>5, <2>6 DEF IInv
<1>18. ASSUME Switch PROVE IInv'
  <2>1. TypeOK'
    BY <1>t, <1>18, ConstantsAssumption DEF ConstantsAssumption, TypeOK, Status, Final,
       External, Switch
  <2>2. Contact'
    BY <1>t, <1>18, ConstantsAssumption DEF ConstantsAssumption, TypeOK, Call, Delivery,
       Contact, External, Final, Switch
  <2>3. Answers'
    BY <1>t, <1>18, ConstantsAssumption DEF ConstantsAssumption, TypeOK, Call, Delivery,
       Contact, Answers, Told, Refused, External, Final, Switch
  <2>4. Outcome'
    BY <1>t, <1>18, ConstantsAssumption DEF ConstantsAssumption, TypeOK, Call, Delivery,
       Contact, Answers, Told, Outcome, Refused, External, Final, Switch
  <2>5. Doubt'
    BY <1>t, <1>18, ConstantsAssumption DEF ConstantsAssumption, TypeOK, Call, Delivery,
       Contact, Answers, Told, Doubt, CountedOnce, External, Final, Status, Switch
  <2>6. Canceled'
    BY <1>t, <1>18, ConstantsAssumption DEF ConstantsAssumption, TypeOK, Call, Delivery,
       Contact, Canceled, External, Final, Switch
  <2> QED
    BY <2>1, <2>2, <2>3, <2>4, <2>5, <2>6 DEF IInv
<1>19. ASSUME Return PROVE IInv'
  <2>1. TypeOK'
    BY <1>t, <1>19, ConstantsAssumption DEF ConstantsAssumption, TypeOK, Status, Final,
       External, Return, Becomes
  <2>2. Contact'
    BY <1>t, <1>19, ConstantsAssumption DEF ConstantsAssumption, TypeOK, Call, Delivery,
       Contact, External, Final, Return, Becomes
  <2>3. Answers'
    BY <1>t, <1>19, ConstantsAssumption DEF ConstantsAssumption, TypeOK, Call, Delivery,
       Contact, Answers, Told, Refused, External, Final, Return, Becomes
  <2>4. Outcome'
    BY <1>t, <1>19, ConstantsAssumption DEF ConstantsAssumption, TypeOK, Call, Delivery,
       Contact, Answers, Told, Outcome, Refused, External, Final, Return, Becomes
  <2>5. Doubt'
    BY <1>t, <1>19, ConstantsAssumption DEF ConstantsAssumption, TypeOK, Call, Delivery,
       Contact, Answers, Told, Doubt, CountedOnce, Status, External, Final, Return, Becomes
  <2>6. Canceled'
    BY <1>t, <1>19, ConstantsAssumption DEF ConstantsAssumption, TypeOK, Call, Delivery,
       Contact, Canceled, External, Final, Return, Becomes
  <2> QED
    BY <2>1, <2>2, <2>3, <2>4, <2>5, <2>6 DEF IInv
<1>20. ASSUME NEW t \in Totals, ReadTotal(t) PROVE IInv'
  <2>1. TypeOK'
    <3>1. total' \in [Totals -> {None, 0, 1}]
      <4>1. Counts(external) \subseteq {0, 1}
        BY DEF Counts
      <4> QED
        BY <1>t, <1>20, <4>1 DEF TypeOK, ReadTotal
    <3> QED
      BY <1>t, <1>20, <3>1 DEF TypeOK, ReadTotal
  <2>2. Contact'
    BY <1>t, <1>20, ConstantsAssumption DEF ConstantsAssumption, TypeOK, Call, Delivery,
       Contact, External, Final, ReadTotal
  <2>3. Answers'
    BY <1>t, <1>20, ConstantsAssumption DEF ConstantsAssumption, TypeOK, Call, Delivery,
       Contact, Answers, Told, Refused, External, Final, ReadTotal
  <2>4. Outcome'
    BY <1>t, <1>20, ConstantsAssumption DEF ConstantsAssumption, TypeOK, Call, Delivery,
       Contact, Answers, Told, Outcome, Refused, External, Final, ReadTotal
  <2>5. Doubt'
    BY <1>t, <1>20, ConstantsAssumption DEF ConstantsAssumption, TypeOK, Call, Delivery,
       Contact, Answers, Told, Doubt, CountedOnce, Status, External, Final, ReadTotal
  <2>6. Canceled'
    BY <1>t, <1>20, ConstantsAssumption DEF ConstantsAssumption, TypeOK, Call, Delivery,
       Contact, Canceled, External, Final, ReadTotal
  <2> QED
    BY <2>1, <2>2, <2>3, <2>4, <2>5, <2>6 DEF IInv
<1>21. ASSUME NEW t \in Totals, WriteTotal(t) PROVE IInv'
  <2>0. total[t] \in {0, 1}
    BY <1>t, <1>21 DEF TypeOK, WriteTotal
  <2>1. TypeOK'
    <3>1. total' \in [Totals -> {None, 0, 1}]
      BY <1>t, <1>21 DEF TypeOK, WriteTotal
    <3>2. pending' \in 0 .. 2
      BY <1>21, <2>0 DEF WriteTotal
    <3>3. foreseen' \in BOOLEAN
      BY <1>t, <1>21 DEF TypeOK, WriteTotal
    <3>4. UNCHANGED <<status, recorded, stopped, call, hook, provider, history>>
      BY <1>21 DEF WriteTotal
    <3> QED
      BY <1>t, <3>1, <3>2, <3>3, <3>4 DEF TypeOK
  <2>2. Contact'
    <3>1. UNCHANGED <<status, recorded, call, hook, external, first, late, calls>>
      BY <1>21 DEF WriteTotal
    <3>2. ~recorded' => pending' <= 1 /\ (pending' = 1 => foreseen')
      <4>1. pending' = total[t] /\ (~recorded /\ total[t] = 1 => foreseen')
        BY <1>21 DEF WriteTotal
      <4>2. pending' = 0 \/ pending' = 1
        BY <2>0, <4>1
      <4> QED
        BY <3>1, <4>1, <4>2
    <3> QED
      BY <1>t, <3>1, <3>2 DEF Contact
  <2>3. Answers'
    BY <1>t, <1>21, <2>0, ConstantsAssumption DEF ConstantsAssumption, TypeOK, Call, Delivery,
       Contact, Answers, Told, Refused, External, Final, WriteTotal
  <2>4. Outcome'
    BY <1>t, <1>21, <2>0, ConstantsAssumption DEF ConstantsAssumption, TypeOK, Call, Delivery,
       Contact, Answers, Told, Outcome, Refused, External, Final, WriteTotal
  <2>5. Doubt'
    BY <1>t, <1>21, <2>0, ConstantsAssumption DEF ConstantsAssumption, TypeOK, Call, Delivery,
       Contact, Answers, Told, Doubt, CountedOnce, Status, External, Final, WriteTotal
  <2>6. Canceled'
    BY <1>t, <1>21, ConstantsAssumption DEF ConstantsAssumption, TypeOK, Call, Delivery,
       Contact, Canceled, External, Final, WriteTotal
  <2> QED
    BY <2>1, <2>2, <2>3, <2>4, <2>5, <2>6 DEF IInv
<1>22. ASSUME UNCHANGED vars PROVE IInv'
  <2>1. TypeOK'
    BY <1>t, <1>22, ConstantsAssumption DEF ConstantsAssumption, TypeOK, Status, Final,
       External, vars
  <2>2. Contact'
    BY <1>t, <1>22, ConstantsAssumption DEF ConstantsAssumption, TypeOK, Call, Delivery,
       Contact, External, Final, vars
  <2>3. Answers'
    BY <1>t, <1>22, ConstantsAssumption DEF ConstantsAssumption, TypeOK, Call, Delivery,
       Contact, Answers, Told, Refused, External, Final, vars
  <2>4. Outcome'
    BY <1>t, <1>22, ConstantsAssumption DEF ConstantsAssumption, TypeOK, Call, Delivery,
       Contact, Answers, Told, Outcome, Refused, External, Final, vars
  <2>5. Doubt'
    BY <1>t, <1>22, ConstantsAssumption DEF ConstantsAssumption, TypeOK, Call, Delivery,
       Contact, Answers, Told, Doubt, CountedOnce, External, Final, Status, vars
  <2>6. Canceled'
    BY <1>t, <1>22, ConstantsAssumption DEF ConstantsAssumption, TypeOK, Call, Delivery,
       Contact, Canceled, External, Final, vars
  <2> QED
    BY <2>1, <2>2, <2>3, <2>4, <2>5, <2>6 DEF IInv
<1> QED
  BY <1>1, <1>2, <1>3, <1>4, <1>5, <1>6, <1>7, <1>8, <1>9, <1>10, <1>11, <1>12,
     <1>13, <1>14, <1>15, <1>16, <1>17, <1>18, <1>19, <1>20,
     <1>21, <1>22 DEF Next, Proceed, Handle

LEMMA InitHolds == Init => IInv
<1> SUFFICES ASSUME Init PROVE IInv
  OBVIOUS
<1>1. TypeOK
  <2>1. call \in [Callers -> Call]
    BY DEF Init, Idle, Call
  <2>2. hook \in [Hooks -> Delivery]
    BY DEF Init, Asleep, Delivery
  <2>3. faults \in 0 .. MaxFaults /\ stops \in 0 .. MaxStops
    BY ConstantsAssumption DEF ConstantsAssumption, Init
  <2>4. pending \in 0 .. 2 /\ calls \in 0 .. 2
    BY DEF Init
  <2>5. /\ status \in Status /\ external \in Movement \cup {"none"} /\ events \subseteq Movement
        /\ first \in {"none", "PENDING", "PROCESSING"} /\ total \in [Totals -> {None, 0, 1}]
    BY DEF Init, Status
  <2>6. /\ recorded \in BOOLEAN /\ stopped \in BOOLEAN /\ late \in BOOLEAN
        /\ ignored \subseteq Final /\ reopened \in BOOLEAN /\ foreseen \in BOOLEAN
    BY DEF Init
  <2>7. busy \in (SUBSET Callers) \cup {None}
    BY DEF Init
  <2> QED
    BY <2>1, <2>2, <2>3, <2>4, <2>5, <2>6, <2>7 DEF TypeOK
<1>2. Contact /\ Answers /\ Outcome /\ Doubt /\ Canceled
  BY DEF Init, Idle, Asleep, Contact, Answers, Outcome, Doubt, CountedOnce, Canceled
<1> QED
  BY <1>1, <1>2 DEF IInv

LEMMA Always == Spec => []IInv
BY InitHolds, StepHolds, PTL DEF Spec

-----------------------------------------------------------------------------
(***************************************************************************)
(* Every variable of a fiat transfer keeps its type.                       *)
(***************************************************************************)
THEOREM TypeCorrect == Spec => []TypeOK
BY Always, PTL DEF IInv

(***************************************************************************)
(* Record, Fail and the webhook: a transfer succeeds only if the           *)
(* provider's did, and a FAILED one moves no money if one call was made.   *)
(***************************************************************************)
THEOREM OutcomeIsTheProviders == Spec => []OutcomeIsProviders
<1>1. IInv => OutcomeIsProviders
  BY DEF IInv, Outcome, Refused, OutcomeIsProviders
<1> QED
  BY <1>1, Always, PTL

(***************************************************************************)
(* The pending amount is counted once, however requests, sweeps and        *)
(* webhook deliveries overlap, but for a failure written over a recorded   *)
(* row and a total of the provider's that held the amount already, written *)
(* to the account before the id was recorded.                              *)
(***************************************************************************)
THEOREM AmountCountedOnce == Spec => []CountedOnce
BY Always, PTL DEF IInv, Doubt

(***************************************************************************)
(* The first call of a transfer that was canceled before it was sent is    *)
(* made by a request or sweep that was at work on it when the emergency    *)
(* stop canceled it.                                                       *)
(***************************************************************************)
THEOREM CanceledTransferUnsent == Spec => CanceledUnsent
<1>1. ASSUME IInv, Next, NEW c \in Callers, busy # None, calls = 0, calls' = 1,
             call'[c] # call[c]
      PROVE  c \in busy
  <2>1. PICK d \in Callers : Answered(d) \/ Fault(d)
    BY <1>1 DEF Next, Proceed, Handle, Arrive, Select, Create, Check, Record, RecordFails,
       Fail, Die, Receive, ReadTransfer, ReadAccount, WriteBoth, HookFails, LateArrival,
       Settle, Return, Becomes, ReadTotal, WriteTotal, Switch
  <2>2. call[d].at = "call" /\ \A e \in Callers \ {d} : call'[e] = call[e]
    BY <1>1, <2>1 DEF Answered, Fault, IInv, TypeOK
  <2> QED
    BY <1>1, <2>2 DEF IInv, Canceled
<1>2. IInv /\ [Next]_vars =>
          [\A c \in Callers : (busy # None /\ calls = 0 /\ calls' = 1 /\ call'[c] # call[c])
                                  => c \in busy]_vars
  BY <1>1
<1> QED
  BY <1>2, Always, PTL DEF Spec, CanceledUnsent
=============================================================================
