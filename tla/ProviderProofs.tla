--------------------------- MODULE ProviderProofs ---------------------------
(***************************************************************************)
(* Proofs about the two components that take a provider's word for what    *)
(* became of money: payment links (MooveLink), for any number of readers   *)
(* and of faults, and cross-chain transfers (CrossChain), for any number   *)
(* of transfers, reports, passes and misreads.                             *)
(***************************************************************************)
EXTENDS MooveLink, CrossChain, FiniteSetTheorems, WellFoundedInduction, TLAPS

-----------------------------------------------------------------------------
(* Payment links.  The invariant says what the creating request and the    *)
(* readers know of the provider's link.                                    *)

\* The creating request: where it is says what became of the link.
Creating ==
    /\ create.at = "insert" =>
           local = "none" /\ ~linked /\ \A r \in Readers \cup {Creator} : read[r] = None
    /\ create.at = "call" => local = "CREATING" /\ ~linked
    /\ create.at \in {"insert", "call"} => provider = "none" /\ ~late /\ announced = 0
    /\ create.at = "save" => provider # "none"
    /\ create.at \in {"check", "fail"} =>
           /\ create.as # None
           /\ create.as = "FAILED" => ~late /\ (provider = "none" \/ unsaved)

\* What is known of the link is true of it, and stays so.
Known ==
    /\ linked \/ local \in Record => provider # "none"
    /\ local \in Record => linked
    /\ late => provider = "none" /\ local \in {"CREATING", "SUBMISSION_UNKNOWN"}
    /\ \A r \in Readers \cup {Creator} :
           /\ read[r] # None => provider # "none"
           /\ read[r] = "COMPLETED" => provider = "COMPLETED"

\* An announced payment is stored as completed, unless that was written over.
Announced == announced > 0 => local = "COMPLETED" \/ regressed

IInv ==
    /\ TypeOK /\ Creating /\ Known /\ Announced
    /\ CompletionIsWhole /\ AnnouncedOnce /\ FailedIsNotPayable

LEMMA InitHolds == Init => IInv
<1> SUFFICES ASSUME Init PROVE IInv
  OBVIOUS
<1>1. TypeOK
  <2>1. read \in [Readers \cup {Creator} -> Record \cup {None}]
    BY DEF Init
  <2>2. create \in [at : Step, as : {"FAILED", "SUBMISSION_UNKNOWN", None}]
    BY DEF Init, Step
  <2>3. faults \in 0 .. MaxFaults /\ announced \in 0 .. 2
    BY ConstantsAssumption DEF ConstantsAssumption, Init
  <2> QED
    BY <2>1, <2>2, <2>3 DEF Init, TypeOK, Record, Local
<1>2. Creating /\ Known
  BY ConstantsAssumption DEF ConstantsAssumption, Init, Creating, Known, Record
<1> QED
  BY <1>1, <1>2 DEF Init, IInv, Announced, CompletionIsWhole, AnnouncedOnce, FailedIsNotPayable

LEMMA StepHolds == ASSUME IInv, [Next]_vars PROVE IInv'
<1> USE ConstantsAssumption
    DEF ConstantsAssumption, IInv, TypeOK, Creating, Known, Announced,
        CompletionIsWhole, AnnouncedOnce, FailedIsNotPayable, Record, Local, Step, Goto, due, SetInvoice
<1>1. CASE Insert
  BY <1>1 DEF Insert
<1>2. CASE Created
  BY <1>2 DEF Created
<1>3. CASE Save
  BY <1>3 DEF Save
<1>4. CASE Check
  BY <1>4 DEF Check, AlreadyCreated
<1>5. CASE Fail
  BY <1>5 DEF Fail
<1>6. CASE CallFails
  <2>1. PICK how \in {"refused", "lost", "unreadable", "late"} :
            /\ provider' = IF how \in {"lost", "unreadable"} THEN "ACTIVE" ELSE provider
            /\ late' = (how = "late")
            /\ unsaved' = (how = "unreadable")
            /\ create' = [at |-> "check", as |-> FailureStatus(how)]
    BY <1>6 DEF CallFails
  <2>2. /\ create.at = "call" /\ faults' \in 0 .. MaxFaults
        /\ UNCHANGED <<local, linked, invoice, due, read, announced, regressed>>
    BY <1>6 DEF CallFails
  <2>3. CASE how = "refused"
    BY <2>1, <2>2, <2>3 DEF FailureStatus
  <2>4. CASE how = "lost"
    BY <2>1, <2>2, <2>4 DEF FailureStatus
  <2>5. CASE how = "unreadable"
    BY <2>1, <2>2, <2>5 DEF FailureStatus
  <2>6. CASE how = "late"
    BY <2>1, <2>2, <2>6 DEF FailureStatus
  <2> QED
    BY <2>1, <2>3, <2>4, <2>5, <2>6
<1>7. CASE LateArrival
  BY <1>7 DEF LateArrival
<1>8. CASE SaveFails
  BY <1>8 DEF SaveFails
<1>9. CASE Die
  BY <1>9 DEF Die
<1>10. ASSUME NEW r \in Readers, Reconcile(r) PROVE IInv'
  BY <1>10 DEF Reconcile, Reconcilable
<1>11. ASSUME NEW r \in Readers, Refresh(r) PROVE IInv'
  BY <1>11 DEF Refresh
<1>12. ASSUME NEW r \in Readers \cup {Creator}, Apply(r) PROVE IInv'
  <2> DEFINE record == read[r]
  <2>1. /\ record \in Record /\ provider # "none"
        /\ record = "COMPLETED" => provider = "COMPLETED"
        /\ read' = [read EXCEPT ![r] = None]
        /\ UNCHANGED <<overdue, create, provider, late, faults, unsaved>>
    BY <1>12 DEF Apply
  <2>2. ~late /\ create.at \notin {"insert", "call"}
    BY <2>1
  <2>3. CASE UNCHANGED <<local, linked, invoice, reverted, announced, regressed>>
    BY <2>1, <2>3
  <2>4. CASE /\ record = "COMPLETED" /\ local # "COMPLETED" /\ invoice \in {"payable", "PAID"}
             /\ local' = "COMPLETED" /\ linked' = TRUE /\ regressed' = regressed
             /\ SetInvoice("PAID") /\ announced' = IF announced < 2 THEN announced + 1 ELSE 2
    BY <2>1, <2>2, <2>4
  <2>5. CASE /\ ~CompletedNow(record)
             /\ local' = record /\ linked' = TRUE
             /\ regressed' = (regressed \/ (local = "COMPLETED" /\ record # "COMPLETED"))
             /\ UNCHANGED <<invoice, reverted, announced>>
    BY <2>1, <2>2, <2>5 DEF CompletedNow
  <2> QED
    BY <1>12, <2>3, <2>4, <2>5 DEF Apply, CompletedNow, Conflict
<1>13. ASSUME NEW r \in Readers \cup {Creator}, ApplyFails(r) PROVE IInv'
  BY <1>13 DEF ApplyFails
<1>14. CASE Complete \/ Deactivate \/ CompleteLate \/ EndInvoice
  BY <1>14 DEF Complete, Deactivate, CompleteLate, EndInvoice
<1>15. CASE FindOverdue
  BY <1>15 DEF FindOverdue
<1>16. CASE WriteOverdue
  <2>1. UNCHANGED <<local, linked, create, read, provider, late, faults, announced, regressed,
                    unsaved>>
    BY <1>16 DEF WriteOverdue
  <2>2. overdue' = FALSE /\ invoice' = "payable" /\ (invoice = "PAID" \/ reverted => reverted')
    BY <1>16 DEF WriteOverdue
  <2>3. reverted' \in BOOLEAN
    BY <1>16 DEF WriteOverdue
  <2>4. CompletionIsWhole'
    BY <2>1, <2>2
  <2>5. TypeOK'
    BY <2>1, <2>2, <2>3
  <2>6. Creating' /\ Known' /\ Announced' /\ AnnouncedOnce' /\ FailedIsNotPayable'
    BY <2>1
  <2> QED
    BY <2>4, <2>5, <2>6
<1>17. CASE UNCHANGED vars
  BY <1>17 DEF vars
<1> QED
  BY <1>1, <1>2, <1>3, <1>4, <1>5, <1>6, <1>7, <1>8, <1>9, <1>10, <1>11, <1>12, <1>13,
     <1>14, <1>15, <1>16, <1>17 DEF Next, Proceed

(***************************************************************************)
(* Each theorem below follows from the inductive invariant.                *)
(***************************************************************************)
LEMMA Always == Spec => []IInv
BY InitHolds, StepHolds, PTL DEF Spec

(***************************************************************************)
(* Every variable of a payment link keeps its type.                        *)
(***************************************************************************)
THEOREM TypeCorrect == Spec => []TypeOK
BY Always, PTL DEF IInv

(***************************************************************************)
(* applyProviderRecord: a link is stored as completed only with its        *)
(* invoice's payment and its announcement, and only when it was paid; the  *)
(* invoice leaves PAID only by the overdue sweep's late write.             *)
(***************************************************************************)
THEOREM CompletedWhole == Spec => []CompletionIsWhole
BY Always, PTL DEF IInv

(***************************************************************************)
(* A payment is announced a second time only if an older record, or the    *)
(* creating request, was written over the completed row.                   *)
(***************************************************************************)
THEOREM OneAnnouncement == Spec => []AnnouncedOnce
BY Always, PTL DEF IInv

(***************************************************************************)
(* What the catch block of createMooveReceivePayment stores as failed      *)
(* cannot be paid, but for an answer that was not readable or not stored.  *)
(***************************************************************************)
THEOREM FailedUnpayable == Spec => []FailedIsNotPayable
BY Always, PTL DEF IInv

-----------------------------------------------------------------------------
(* Cross-chain transfers: helpers.                                         *)

(***************************************************************************)
(* findMany's order gives each row it returns a place, a natural number.   *)
(***************************************************************************)
LEMMA PlaceIsNatural == ASSUME NEW t PROVE Place(t) \in Nat
<1> DEFINE before == {u \in Due : <<u, t>> \in older}
<1>1. IsFiniteSet(before)
  <2>1. before \subseteq Transfers
    BY DEF Due
  <2> QED
    BY <2>1, TransferConstants, FS_Subset DEF TransferConstants
<1> QED
  BY <1>1, FS_CardinalityType DEF Place

(***************************************************************************)
(* The row a pass is at is one of those it read: its places have a least.  *)
(***************************************************************************)
LEMMA HeadIsKept ==
    ASSUME TransferTypeOK, NEW p \in Passes, pass[p] # {}
    PROVE  Current(p) \in pass[p]
<1> DEFINE places == {s.place : s \in pass[p]}
<1>1. pass[p] \subseteq Snapshot
  BY DEF TransferTypeOK
<1>2. places \subseteq Nat /\ places # {}
  BY <1>1 DEF Snapshot
<1> HIDE DEF places
<1>3. PICK n \in places : \A m \in places : <<m, n>> \notin OpToRel(<, Nat)
  BY <1>2, NatLessThanWellFounded, WFMin
<1>4. \A m \in places : n <= m
  <2>1. \A m \in places : ~(m < n)
    BY <1>2, <1>3, Zenon DEF OpToRel
  <2> QED
    BY <1>2, <2>1
<1>5. PICK s \in pass[p] : s.place = n
  BY DEF places
<1>6. \A o \in pass[p] : s.place <= o.place
  BY <1>4, <1>5 DEF places
<1> QED
  BY <1>6 DEF Current

(***************************************************************************)
(* What an update of a row leaves typed.                                   *)
(***************************************************************************)
RowTypes ==
    /\ status \in [Transfers -> Status]
    /\ older \subseteq Rows \X Rows
    /\ \A t, u \in Rows : t # u => <<t, u>> \in older \/ <<u, t>> \in older
    /\ \A t, u, v \in Rows : /\ <<t, t>> \notin older
                             /\ <<t, u>> \in older /\ <<u, v>> \in older => <<t, v>> \in older

(***************************************************************************)
(* An update keeps the order of the rows a strict total one, whichever row *)
(* it makes the youngest.                                                  *)
(***************************************************************************)
LEMMA GiveOrders ==
    ASSUME TransferTypeOK, NEW t \in Transfers, NEW next \in Status \ {"none"},
           Give(t, next)
    PROVE  RowTypes' /\ Rows' = Rows \cup {t}
<1>1. /\ status' = [status EXCEPT ![t] = next]
      /\ older' = {e \in older : e[1] # t} \cup ((Rows \ {t}) \X {t})
  BY DEF Give, Touch
<1>2. Rows' = Rows \cup {t}
  BY <1>1 DEF Rows, TransferTypeOK
<1>3. status' \in [Transfers -> Status]
  BY <1>1 DEF TransferTypeOK
<1> DEFINE R == Rows
<1>4. /\ older \subseteq R \X R
      /\ \A v, u \in R : v # u => <<v, u>> \in older \/ <<u, v>> \in older
      /\ \A u, v, w \in R : /\ <<u, u>> \notin older
                            /\ <<u, v>> \in older /\ <<v, w>> \in older => <<u, w>> \in older
  BY DEF TransferTypeOK
<1>5. older' = {e \in older : e[1] # t} \cup ((R \ {t}) \X {t})
  BY <1>1
<1> HIDE DEF R
<1>6. \A u, v : <<u, v>> \in older' <=>
          \/ <<u, v>> \in older /\ u # t
          \/ u \in R /\ u # t /\ v = t
  BY <1>4, <1>5
<1>7. older' \subseteq (R \cup {t}) \X (R \cup {t})
  BY <1>4, <1>5
<1>8. \A v, u \in R \cup {t} : v # u => <<v, u>> \in older' \/ <<u, v>> \in older'
  BY <1>4, <1>6
<1>9. \A u, v, w \in R \cup {t} :
          /\ <<u, u>> \notin older'
          /\ <<u, v>> \in older' /\ <<v, w>> \in older' => <<u, w>> \in older'
  <2>1. \A u \in R \cup {t} : <<u, u>> \notin older'
    BY <1>4, <1>6
  <2>2. ASSUME NEW u \in R \cup {t}, NEW v \in R \cup {t}, NEW w \in R \cup {t},
               <<u, v>> \in older', <<v, w>> \in older'
        PROVE  <<u, w>> \in older'
    BY <1>4, <1>6, <2>2
  <2> QED
    BY <2>1, <2>2
<1>10. Rows' = R \cup {t}
  BY <1>2 DEF R
<1>11. /\ older' \subseteq Rows' \X Rows'
       /\ \A v, u \in Rows' : v # u => <<v, u>> \in older' \/ <<u, v>> \in older'
       /\ \A u, v, w \in Rows' :
              /\ <<u, u>> \notin older'
              /\ <<u, v>> \in older' /\ <<v, w>> \in older' => <<u, w>> \in older'
  BY <1>7, <1>8, <1>9, <1>10
<1> QED
  BY <1>2, <1>3, <1>11 DEF RowTypes

-----------------------------------------------------------------------------
(* Cross-chain transfers: the inductive invariant.                         *)

\* A hash is reported for a row that exists.
RowsAreReported ==
    \A t \in Transfers : hash[t] # Null => t \in Rows

\* What a pass read of a row still holds, but for a hash that was replaced.
SnapshotsHold ==
    \A p \in Passes : \A s \in pass[p] :
        /\ hash[s.transfer] # Null
        /\ s.transfer \notin replaced => s.hash = hash[s.transfer]
        /\ s.verified => s.transfer \in verified

\* The hash of a verified row carries its transaction, which succeeded.
VerifiedCarries ==
    \A t \in verified :
        /\ hash[t] # Null
        /\ t \notin replaced => RequestOf[hash[t]] = t /\ source[hash[t]] = "success"

\* A status a pass is about to write is what became of the transaction it read.
MappedIsTrue ==
    \A p \in Passes : mapped[p] # Null =>
        /\ mapped[p] # "none"
        /\ pass[p] # {} /\ Current(p).verified
        /\ mapped[p] = "DESTINATION_CONFIRMED" => route[Current(p).hash] = "landed"
        /\ mapped[p] = "REFUNDED" => route[Current(p).hash] = "refunded"
        /\ mapped[p] = "FAILED" => route[Current(p).hash] \in {"short", "failed"}

\* What came to an end was reported.
EndedIsReported ==
    \A t \in Transfers :
        status[t] \in {"DESTINATION_CONFIRMED", "REFUNDED", "FAILED"} => hash[t] # Null

TransferInv ==
    /\ TransferTypeOK
    /\ RowsAreReported /\ SnapshotsHold /\ VerifiedCarries /\ MappedIsTrue
    /\ EndedIsReported /\ OutcomeIsEvidence

-----------------------------------------------------------------------------
(* Cross-chain transfers: every action keeps the invariant.                *)

LEMMA TransferInitHolds == TransferInit => TransferInv
<1> SUFFICES ASSUME TransferInit PROVE TransferInv
  OBVIOUS
<1>1. Rows = {}
  BY DEF TransferInit, Rows
<1>2. TransferTypeOK
  BY <1>1, TransferConstants DEF TransferConstants, TransferInit, TransferTypeOK, Status, Final, Route
<1> QED
  BY <1>1, <1>2 DEF TransferInit, TransferInv, RowsAreReported, SnapshotsHold, VerifiedCarries,
     MappedIsTrue, EndedIsReported, OutcomeIsEvidence

LEMMA PrepareHolds == ASSUME TransferInv, NEW t \in Transfers, Prepare(t) PROVE TransferInv'
<1>1. Give(t, "AWAITING_SIGNATURE") /\ status[t] = "none"
  BY DEF Prepare, Give
<1>2. RowTypes' /\ Rows' = Rows \cup {t}
  BY <1>1, GiveOrders DEF TransferInv, Status
<1>3. UNCHANGED <<hash, verified, call, pass, mapped, source, route,
                  answered, misreads, replaced, unheard>>
  BY DEF Prepare, world, history
<1>4. TransferTypeOK'
  BY <1>2, <1>3 DEF TransferInv, TransferTypeOK, RowTypes
<1>5. \A p \in Passes : Current(p)' = Current(p)
  BY <1>3 DEF Current
<1>6. RowsAreReported' /\ SnapshotsHold' /\ VerifiedCarries' /\ MappedIsTrue'
  BY <1>2, <1>3, <1>5 DEF TransferInv, RowsAreReported, SnapshotsHold, VerifiedCarries, MappedIsTrue
<1>7. EndedIsReported' /\ OutcomeIsEvidence'
  <2>1. \A u \in Transfers : u # t => status'[u] = status[u]
    BY <1>1 DEF Give, TransferInv, TransferTypeOK
  <2>2. status'[t] = "AWAITING_SIGNATURE"
    BY <1>1 DEF Give, TransferInv, TransferTypeOK
  <2> QED
    BY <1>3, <2>1, <2>2 DEF TransferInv, EndedIsReported, OutcomeIsEvidence, Lost
<1> QED
  BY <1>4, <1>6, <1>7 DEF TransferInv

LEMMA SubmitReadHolds == ASSUME TransferInv, NEW c \in Calls, SubmitRead(c) PROVE TransferInv'
<1>1. UNCHANGED <<status, hash, verified, older, pass, mapped, source, route,
                  answered, misreads, replaced, unheard>>
  BY DEF SubmitRead, transferRows, world, history
<1>2. PICK t \in Transfers, h \in Hashes :
          /\ status[t] \in Submittable
          /\ call' = [call EXCEPT ![c] = [transfer |-> t, hash |-> h]]
  BY DEF SubmitRead
<1>3. Rows' = Rows /\ t \in Rows
  BY <1>1, <1>2 DEF Rows, Submittable
<1>4. call' \in [Calls -> [transfer : Rows, hash : Hashes] \cup {Null}]
  BY <1>2, <1>3 DEF TransferInv, TransferTypeOK
<1>5. TransferTypeOK'
  BY <1>1, <1>3, <1>4 DEF TransferInv, TransferTypeOK
<1>6. \A p \in Passes : Current(p)' = Current(p)
  BY <1>1 DEF Current
<1> QED
  BY <1>1, <1>3, <1>5, <1>6 DEF TransferInv, RowsAreReported, SnapshotsHold, VerifiedCarries,
     MappedIsTrue, EndedIsReported, OutcomeIsEvidence, Lost

LEMMA SubmitWriteHolds == ASSUME TransferInv, NEW c \in Calls, SubmitWrite(c) PROVE TransferInv'
<1> DEFINE t == call[c].transfer
           h == call[c].hash
<1>1. t \in Rows /\ t \in Transfers /\ h \in Hashes
  BY DEF SubmitWrite, TransferInv, TransferTypeOK, Rows
<1>2. /\ Give(t, "SUBMITTED")
      /\ hash' = [hash EXCEPT ![t] = h]
      /\ replaced' = IF hash[t] \in {Null, h} THEN replaced ELSE replaced \cup {t}
      /\ call' = [call EXCEPT ![c] = Null]
      /\ answered' = answered \cup {c}
      /\ UNCHANGED <<verified, pass, mapped, source, route, misreads, unheard>>
  BY DEF SubmitWrite, Give, world
<1> HIDE DEF t, h
<1>3. RowTypes' /\ Rows' = Rows
  BY <1>1, <1>2, GiveOrders DEF TransferInv, Status
<1>4. hash' \in [Transfers -> Hashes \cup {Null}] /\ hash'[t] = h /\ h # Null
  BY <1>1, <1>2, TransferConstants DEF TransferInv, TransferTypeOK, TransferConstants
<1>5. \A u \in Transfers : u # t => hash'[u] = hash[u] /\ (u \in replaced' <=> u \in replaced)
  BY <1>1, <1>2 DEF TransferInv, TransferTypeOK
<1>6. t \notin replaced' => t \notin replaced /\ (hash[t] = Null \/ hash'[t] = hash[t])
  BY <1>2, <1>4
<1>7. TransferTypeOK'
  <2>1. call' \in [Calls -> [transfer : Rows, hash : Hashes] \cup {Null}] /\ answered' \subseteq Calls
    BY <1>2 DEF TransferInv, TransferTypeOK
  <2>2. replaced' \subseteq Rows
    BY <1>1, <1>2 DEF TransferInv, TransferTypeOK
  <2> QED
    BY <1>2, <1>3, <1>4, <2>1, <2>2 DEF TransferInv, TransferTypeOK, RowTypes
<1>8. \A p \in Passes : Current(p)' = Current(p)
  BY <1>2 DEF Current
<1>9. RowsAreReported' /\ MappedIsTrue'
  BY <1>1, <1>2, <1>3, <1>5, <1>8 DEF TransferInv, RowsAreReported, MappedIsTrue
<1>10. SnapshotsHold'
  <2> SUFFICES ASSUME NEW p \in Passes, NEW s \in pass[p]
               PROVE  /\ hash'[s.transfer] # Null
                      /\ s.transfer \notin replaced' => s.hash = hash'[s.transfer]
                      /\ s.verified => s.transfer \in verified
    BY <1>2 DEF SnapshotsHold
  <2>1. s.transfer \in Transfers
    BY DEF TransferInv, TransferTypeOK, Snapshot
  <2> QED
    BY <1>4, <1>5, <1>6, <2>1 DEF TransferInv, SnapshotsHold
<1>11. VerifiedCarries'
  <2>1. verified \subseteq Transfers
    BY DEF TransferInv, TransferTypeOK, Rows
  <2> QED
    BY <1>2, <1>4, <1>5, <1>6, <2>1 DEF TransferInv, VerifiedCarries
<1>12. EndedIsReported' /\ OutcomeIsEvidence'
  <2>1. status'[t] = "SUBMITTED" /\ \A u \in Transfers : u # t => status'[u] = status[u]
    BY <1>1, <1>2 DEF Give, TransferInv, TransferTypeOK
  <2> QED
    BY <1>2, <1>5, <2>1 DEF TransferInv, EndedIsReported, OutcomeIsEvidence, Lost
<1> QED
  BY <1>7, <1>9, <1>10, <1>11, <1>12 DEF TransferInv

LEMMA SelectHolds == ASSUME TransferInv, NEW p \in Passes, Select(p) PROVE TransferInv'
<1> DEFINE new == {Read(t) : t \in {u \in Due : Place(u) < Limit}}
<1>1. /\ pass[p] = {} /\ pass' = [pass EXCEPT ![p] = new]
      /\ UNCHANGED <<status, hash, verified, older, call, mapped, source, route,
                     answered, misreads, replaced, unheard>>
  BY DEF Select, transferRows, world, history
<1>2. Rows' = Rows
  BY <1>1 DEF Rows
<1>3. ASSUME NEW s \in new
      PROVE  s \in Snapshot /\ s.hash = hash[s.transfer] /\ (s.verified <=> s.transfer \in verified)
  <2>1. PICK t \in Due : s = Read(t)
    OBVIOUS
  <2>2. t \in Transfers /\ hash[t] \in Hashes
    BY <2>1 DEF Due, TransferInv, TransferTypeOK
  <2> DEFINE known == t \in verified
             place == Place(t)
  <2>3. known \in BOOLEAN /\ place \in Nat /\ (known <=> t \in verified)
    BY PlaceIsNatural
  <2>4. s = [transfer |-> t, hash |-> hash[t], verified |-> known, place |-> place]
    BY <2>1 DEF Read
  <2> HIDE DEF known, place
  <2> QED
    BY <2>2, <2>3, <2>4 DEF Snapshot
<1> HIDE DEF new
<1>4. /\ pass'[p] = new
      /\ \A q \in Passes : q # p => pass'[q] = pass[q] /\ Current(q)' = Current(q)
  BY <1>1 DEF Current, TransferInv, TransferTypeOK
<1>5. TransferTypeOK'
  <2>1. pass' \in [Passes -> SUBSET Snapshot]
    BY <1>1, <1>3 DEF TransferInv, TransferTypeOK
  <2> QED
    BY <1>1, <1>2, <2>1 DEF TransferInv, TransferTypeOK
<1>6. RowsAreReported' /\ VerifiedCarries' /\ EndedIsReported' /\ OutcomeIsEvidence'
  BY <1>1, <1>2 DEF TransferInv, RowsAreReported, VerifiedCarries,
     EndedIsReported, OutcomeIsEvidence, Lost
<1>7. MappedIsTrue'
  BY <1>1, <1>4 DEF TransferInv, MappedIsTrue
<1>8. SnapshotsHold'
  <2> SUFFICES ASSUME NEW q \in Passes, NEW s \in pass'[q]
               PROVE  /\ hash[s.transfer] # Null
                      /\ s.transfer \notin replaced => s.hash = hash[s.transfer]
                      /\ s.verified => s.transfer \in verified
    BY <1>1 DEF SnapshotsHold
  <2>1. CASE q = p
    <3>1. s.hash \in Hashes
      BY <1>3, <1>4, <2>1 DEF Snapshot
    <3> QED
      BY <1>3, <1>4, <2>1, <3>1, TransferConstants DEF TransferConstants
  <2>2. CASE q # p
    BY <1>4, <2>2 DEF TransferInv, SnapshotsHold
  <2> QED
    BY <2>1, <2>2
<1> QED
  BY <1>5, <1>6, <1>7, <1>8 DEF TransferInv

(***************************************************************************)
(* A step of a pass with no status to write leaves the other passes alone. *)
(***************************************************************************)
LEMMA PassStep ==
    ASSUME TransferInv, NEW p \in Passes, pass[p] # {}, mapped'[p] = Null,
           NEW P \in SUBSET Snapshot, pass' = [pass EXCEPT ![p] = P],
           \A q \in Passes : q # p => mapped'[q] = mapped[q],
           UNCHANGED route
    PROVE  MappedIsTrue' /\ pass' \in [Passes -> SUBSET Snapshot]
<1>1. \A q \in Passes : q # p => pass'[q] = pass[q] /\ Current(q)' = Current(q)
  BY DEF Current, TransferInv, TransferTypeOK
<1>2. MappedIsTrue'
  BY <1>1 DEF TransferInv, MappedIsTrue
<1> QED
  BY <1>2 DEF TransferInv, TransferTypeOK

LEMMA WriteStatusHolds == ASSUME TransferInv, NEW p \in Passes, WriteStatus(p) PROVE TransferInv'
<1> DEFINE s == Current(p)
           t == s.transfer
           next == mapped[p]
<1>1. /\ next # Null
      /\ Give(t, next)
      /\ mapped' = [mapped EXCEPT ![p] = Null]
      /\ pass' = [pass EXCEPT ![p] = @ \ {s}]
      /\ UNCHANGED <<hash, verified, call, source, route, answered, misreads, replaced, unheard>>
  BY DEF WriteStatus, Done, world, history
<1>2. /\ next \in Status \ {"none"} /\ pass[p] # {} /\ s.verified
      /\ next = "DESTINATION_CONFIRMED" => route[s.hash] = "landed"
      /\ next = "REFUNDED" => route[s.hash] = "refunded"
      /\ next = "FAILED" => route[s.hash] \in {"short", "failed"}
  BY <1>1 DEF TransferInv, TransferTypeOK, MappedIsTrue
<1>3. s \in pass[p] /\ s \in Snapshot /\ t \in Transfers
  BY <1>2, HeadIsKept DEF TransferInv, TransferTypeOK, Snapshot
<1> HIDE DEF s
<1>4. /\ hash[t] # Null
      /\ t \notin replaced => s.hash = hash[t]
      /\ t \in verified
  BY <1>2, <1>3 DEF TransferInv, SnapshotsHold
<1>5. RowTypes' /\ Rows' = Rows
  <2>1. t \in Rows
    BY <1>3, <1>4 DEF TransferInv, RowsAreReported
  <2> QED
    BY <1>1, <1>2, <1>3, <2>1, GiveOrders DEF TransferInv
<1>6. MappedIsTrue' /\ pass' \in [Passes -> SUBSET Snapshot]
  <2>1. pass[p] \ {s} \in SUBSET Snapshot /\ pass' = [pass EXCEPT ![p] = pass[p] \ {s}]
    BY <1>1 DEF TransferInv, TransferTypeOK
  <2>2. mapped'[p] = Null /\ \A q \in Passes : q # p => mapped'[q] = mapped[q]
    BY <1>1 DEF TransferInv, TransferTypeOK
  <2> QED
    BY <1>1, <1>2, <2>1, <2>2, PassStep
<1>7. TransferTypeOK'
  BY <1>1, <1>5, <1>6 DEF TransferInv, TransferTypeOK, RowTypes
<1>8. \A q \in Passes : pass'[q] \subseteq pass[q]
  BY <1>1 DEF TransferInv, TransferTypeOK
<1>9. RowsAreReported' /\ SnapshotsHold' /\ VerifiedCarries'
  BY <1>1, <1>5, <1>8 DEF TransferInv, RowsAreReported, SnapshotsHold, VerifiedCarries
<1>10. EndedIsReported' /\ OutcomeIsEvidence'
  <2>1. status'[t] = next /\ \A u \in Transfers : u # t => status'[u] = status[u]
    BY <1>1, <1>3 DEF Give, TransferInv, TransferTypeOK
  <2>2. t \notin replaced => RequestOf[hash[t]] = t
    BY <1>4 DEF TransferInv, VerifiedCarries
  <2> QED
    BY <1>1, <1>2, <1>4, <2>1, <2>2 DEF TransferInv, EndedIsReported, OutcomeIsEvidence, Lost
<1> QED
  BY <1>6, <1>7, <1>9, <1>10 DEF TransferInv

(***************************************************************************)
(* What is known of the row a pass is at.                                  *)
(***************************************************************************)
LEMMA HeadIsKnown ==
    ASSUME TransferInv, NEW p \in Passes, Working(p)
    PROVE  /\ Current(p) \in pass[p] /\ Current(p) \in Snapshot
           /\ Current(p).transfer \in Rows /\ hash[Current(p).transfer] # Null
           /\ Current(p).transfer \notin replaced => Current(p).hash = hash[Current(p).transfer]
           /\ Current(p).verified => Current(p).transfer \in verified
<1>1. Current(p) \in pass[p]
  BY HeadIsKept DEF Working, TransferInv
<1>2. Current(p) \in Snapshot /\ Current(p).transfer \in Transfers
  BY <1>1 DEF TransferInv, TransferTypeOK, Snapshot
<1> QED
  BY <1>1, <1>2 DEF TransferInv, SnapshotsHold, RowsAreReported

(***************************************************************************)
(* A transfer is failed on evidence, or is one of those nobody was heard   *)
(* about.                                                                  *)
(***************************************************************************)
LEMMA FailureHolds ==
    ASSUME TransferInv, NEW p \in Passes, Working(p),
           Give(Current(p).transfer, "FAILED"), Done(p),
           unheard' = unheard \/ unheard' = unheard \cup {Current(p).transfer},
           Current(p).transfer \in replaced \cup unheard' \/ Lost(Current(p).transfer),
           misreads' \in 0 .. MaxMisreads,
           UNCHANGED <<hash, verified, call, mapped, source, route, answered, replaced>>
    PROVE  TransferInv'
<1> DEFINE t == Current(p).transfer
<1>1. t \in Rows /\ t \in Transfers
  BY HeadIsKnown DEF Rows
<1>2. pass' = [pass EXCEPT ![p] = pass[p] \ {Current(p)}] /\ pass[p] # {} /\ mapped[p] = Null
  BY DEF Done, Working, TransferInv, TransferTypeOK
<1>3. MappedIsTrue' /\ pass' \in [Passes -> SUBSET Snapshot]
  <2>1. pass[p] \ {Current(p)} \in SUBSET Snapshot
    BY DEF TransferInv, TransferTypeOK
  <2> QED
    BY <1>2, <2>1, PassStep
<1>4. \A q \in Passes : pass'[q] \subseteq pass[q]
  BY <1>2 DEF TransferInv, TransferTypeOK
<1> HIDE DEF t
<1>5. RowTypes' /\ Rows' = Rows
  BY <1>1, GiveOrders DEF TransferInv, Status, Final, t
<1>6. TransferTypeOK'
  <2>1. unheard' \subseteq Rows
    BY <1>1 DEF TransferInv, TransferTypeOK, t
  <2> QED
    BY <1>3, <1>5, <2>1 DEF TransferInv, TransferTypeOK, RowTypes
<1>7. RowsAreReported' /\ SnapshotsHold' /\ VerifiedCarries'
  BY <1>4, <1>5 DEF TransferInv, RowsAreReported, SnapshotsHold, VerifiedCarries
<1>8. EndedIsReported' /\ OutcomeIsEvidence'
  <2>1. status'[t] = "FAILED" /\ \A u \in Transfers : u # t => status'[u] = status[u]
    BY <1>1 DEF Give, TransferInv, TransferTypeOK, t
  <2>2. unheard \subseteq unheard' /\ (t \in replaced \cup unheard' \/ Lost(t))
    BY DEF t
  <2>3. hash[t] # Null
    BY HeadIsKnown DEF t
  <2> QED
    BY <2>1, <2>2, <2>3 DEF TransferInv, EndedIsReported, OutcomeIsEvidence, Lost
<1> QED
  BY <1>3, <1>6, <1>7, <1>8 DEF TransferInv

(***************************************************************************)
(* A pass may leave a row, or all that is left, for the next one.          *)
(***************************************************************************)
LEMMA LeaveHolds ==
    ASSUME TransferInv, NEW p \in Passes, Working(p),
           Done(p) \/ pass' = [pass EXCEPT ![p] = {}],
           misreads' \in 0 .. MaxMisreads,
           UNCHANGED <<status, hash, verified, older, call, mapped, source, route,
                       answered, replaced, unheard>>
    PROVE  TransferInv'
<1>1. PICK P \in SUBSET pass[p] : pass' = [pass EXCEPT ![p] = P]
  BY DEF Done, TransferInv, TransferTypeOK
<1>2. Rows' = Rows
  BY DEF Rows
<1>3. MappedIsTrue' /\ pass' \in [Passes -> SUBSET Snapshot]
  <2>1. P \in SUBSET Snapshot
    BY <1>1 DEF TransferInv, TransferTypeOK
  <2> QED
    BY <1>1, <2>1, PassStep DEF Working
<1>4. \A q \in Passes : pass'[q] \subseteq pass[q]
  BY <1>1 DEF TransferInv, TransferTypeOK
<1>5. TransferTypeOK'
  BY <1>2, <1>3 DEF TransferInv, TransferTypeOK
<1> QED
  BY <1>2, <1>3, <1>4, <1>5 DEF TransferInv, RowsAreReported, SnapshotsHold, VerifiedCarries,
     EndedIsReported, OutcomeIsEvidence, Lost

LEMMA VerifySourceHolds == ASSUME TransferInv, NEW p \in Passes, VerifySource(p) PROVE TransferInv'
<1> DEFINE s == Current(p)
           t == s.transfer
<1>1. /\ Working(p) /\ ~s.verified
      /\ UNCHANGED <<hash, call, mapped, source, route, answered, misreads, replaced, unheard>>
  BY DEF VerifySource, world, history
<1>2. s \in pass[p] /\ s \in Snapshot /\ t \in Rows /\ t \in Transfers /\ hash[t] # Null
      /\ (t \notin replaced => s.hash = hash[t])
  BY <1>1, HeadIsKnown DEF Rows
<1>3. misreads' \in 0 .. MaxMisreads
  BY <1>1 DEF TransferInv, TransferTypeOK
<1>4. CASE source[s.hash] = "absent"
  <2>1. Done(p) /\ UNCHANGED <<status, verified, older>>
    BY <1>4 DEF VerifySource
  <2> QED
    BY <1>1, <1>3, <2>1, LeaveHolds
<1>5. CASE source[s.hash] = "success" /\ Matches(t, s.hash)
  <2> DEFINE kept == [s EXCEPT !.verified = TRUE]
             rest == (pass[p] \ {s}) \cup {kept}
  <2>1. /\ Give(t, "BRIDGING")
        /\ verified' = verified \cup {t}
        /\ pass' = [pass EXCEPT ![p] = rest]
    BY <1>5 DEF VerifySource, TransferInv, TransferTypeOK
  <2>2. kept \in Snapshot /\ kept.transfer = t /\ kept.hash = s.hash
    BY <1>2 DEF Snapshot
  <2>3. RowTypes' /\ Rows' = Rows
    BY <1>2, <2>1, GiveOrders DEF TransferInv, Status
  <2> HIDE DEF s, t, kept
  <2>4. MappedIsTrue' /\ pass' \in [Passes -> SUBSET Snapshot]
    <3>1. rest \in SUBSET Snapshot
      BY <2>2 DEF TransferInv, TransferTypeOK
    <3>2. pass[p] # {} /\ mapped'[p] = Null
      BY <1>1 DEF Working
    <3> QED
      BY <1>1, <2>1, <3>1, <3>2, PassStep
  <2>5. TransferTypeOK'
    BY <1>1, <1>2, <2>1, <2>3, <2>4 DEF TransferInv, TransferTypeOK, RowTypes
  <2>6. RowsAreReported'
    BY <1>1, <2>3 DEF TransferInv, RowsAreReported
  <2>7. SnapshotsHold'
    <3> SUFFICES ASSUME NEW q \in Passes, NEW o \in pass'[q]
                 PROVE  /\ hash[o.transfer] # Null
                        /\ o.transfer \notin replaced => o.hash = hash[o.transfer]
                        /\ o.verified => o.transfer \in verified'
      BY <1>1 DEF SnapshotsHold
    <3>1. CASE o \in pass[q]
      BY <2>1, <3>1 DEF TransferInv, SnapshotsHold
    <3>2. CASE o \notin pass[q]
      <4>1. o = kept
        BY <2>1, <3>2 DEF TransferInv, TransferTypeOK
      <4> QED
        BY <1>2, <2>1, <2>2, <4>1
    <3> QED
      BY <3>1, <3>2
  <2>8. VerifiedCarries'
    <3>1. t \notin replaced => RequestOf[hash[t]] = t /\ source[hash[t]] = "success"
      BY <1>2, <1>5 DEF Matches
    <3> QED
      BY <1>1, <1>2, <2>1, <3>1 DEF TransferInv, VerifiedCarries
  <2>9. EndedIsReported' /\ OutcomeIsEvidence'
    <3>1. status'[t] = "BRIDGING" /\ \A u \in Transfers : u # t => status'[u] = status[u]
      BY <1>2, <2>1 DEF Give, TransferInv, TransferTypeOK
    <3> QED
      BY <1>1, <3>1 DEF TransferInv, EndedIsReported, OutcomeIsEvidence, Lost
  <2> QED
    BY <2>4, <2>5, <2>6, <2>7, <2>8, <2>9 DEF TransferInv
<1>6. CASE source[s.hash] # "absent" /\ ~(source[s.hash] = "success" /\ Matches(t, s.hash))
  <2>1. Give(t, "FAILED") /\ Done(p) /\ UNCHANGED verified
    BY <1>6 DEF VerifySource
  <2>2. t \in replaced \/ Lost(t)
    <3>1. source[s.hash] \in {"success", "failed"}
      BY <1>2, <1>6 DEF TransferInv, TransferTypeOK, Snapshot
    <3> QED
      BY <1>2, <1>6, <3>1 DEF Lost, Matches
  <2> QED
    BY <1>1, <1>3, <2>1, <2>2, FailureHolds
<1> QED
  BY <1>4, <1>5, <1>6

LEMMA ReadRouteHolds == ASSUME TransferInv, NEW p \in Passes, ReadRoute(p) PROVE TransferInv'
<1> DEFINE s == Current(p)
<1>1. /\ Working(p) /\ s.verified
      /\ UNCHANGED <<status, hash, verified, older, call, source, route,
                     answered, misreads, replaced, unheard>>
  BY DEF ReadRoute, transferRows, world, history
<1>2. CASE route[s.hash] = "unknown"
  <2>1. Done(p) /\ UNCHANGED mapped
    BY <1>2 DEF ReadRoute
  <2>2. misreads' \in 0 .. MaxMisreads
    BY <1>1 DEF TransferInv, TransferTypeOK
  <2> QED
    BY <1>1, <2>1, <2>2, LeaveHolds
<1>3. CASE route[s.hash] # "unknown"
  <2>1. mapped' = [mapped EXCEPT ![p] = Mapped(route[s.hash])] /\ UNCHANGED pass
    BY <1>3 DEF ReadRoute
  <2>2. route[s.hash] \in Route
    BY <1>1, HeadIsKnown DEF TransferInv, TransferTypeOK, Snapshot
  <2>3. /\ Mapped(route[s.hash]) \in Status \ {"none"}
        /\ Mapped(route[s.hash]) = "DESTINATION_CONFIRMED" => route[s.hash] = "landed"
        /\ Mapped(route[s.hash]) = "REFUNDED" => route[s.hash] = "refunded"
        /\ Mapped(route[s.hash]) = "FAILED" => route[s.hash] \in {"short", "failed"}
    BY <1>3, <2>2 DEF Mapped, Status, Final, Route
  <2>4. Rows' = Rows /\ \A q \in Passes : Current(q)' = Current(q)
    BY <1>1, <2>1 DEF Rows, Current
  <2>5. MappedIsTrue'
    <3>1. \A q \in Passes : q # p => mapped'[q] = mapped[q]
      BY <2>1 DEF TransferInv, TransferTypeOK
    <3>2. mapped'[p] = Mapped(route[s.hash]) /\ pass[p] # {}
      BY <1>1, <2>1 DEF Working, TransferInv, TransferTypeOK
    <3> HIDE DEF s
    <3> QED
      BY <1>1, <2>1, <2>3, <2>4, <3>1, <3>2 DEF TransferInv, MappedIsTrue, s
  <2>6. TransferTypeOK'
    BY <1>1, <2>1, <2>3, <2>4 DEF TransferInv, TransferTypeOK
  <2> QED
    BY <1>1, <2>1, <2>4, <2>5, <2>6 DEF TransferInv, RowsAreReported, SnapshotsHold,
       VerifiedCarries, EndedIsReported, OutcomeIsEvidence, Lost
<1> QED
  BY <1>2, <1>3

LEMMA ReadFailsHolds == ASSUME TransferInv, NEW p \in Passes, ReadFails(p) PROVE TransferInv'
<1>1. /\ Working(p)
      /\ misreads < MaxMisreads /\ misreads' = misreads + 1
      /\ UNCHANGED <<hash, verified, call, mapped, source, route, answered, replaced>>
  BY DEF ReadFails, world
<1>2. misreads' \in 0 .. MaxMisreads
  BY <1>1, TransferConstants DEF TransferConstants, TransferInv, TransferTypeOK
<1>3. CASE /\ Done(p) \/ pass' = [pass EXCEPT ![p] = {}]
           /\ UNCHANGED <<status, older, unheard>>
  BY <1>1, <1>2, <1>3, LeaveHolds
<1>4. CASE /\ Give(Current(p).transfer, "FAILED") /\ Done(p)
           /\ unheard' = unheard \cup {Current(p).transfer}
  BY <1>1, <1>2, <1>4, FailureHolds
<1> QED
  BY <1>3, <1>4 DEF ReadFails

LEMMA WorldHolds ==
    ASSUME TransferInv, NEW h \in Hashes, Include(h) \/ Bridge(h)
    PROVE  TransferInv'
<1>1. UNCHANGED <<status, hash, verified, older, call, pass, mapped,
                  answered, misreads, replaced, unheard>>
  BY DEF Include, Bridge, transferRows, history
<1>2. /\ source' \in [Hashes -> {"absent", "success", "failed"}]
      /\ route' \in [Hashes -> Route]
      /\ \A g \in Hashes : /\ source[g] # "absent" => source'[g] = source[g]
                           /\ route[g] \notin {"unknown", "pending"} => route'[g] = route[g]
  BY DEF Include, Bridge, TransferInv, TransferTypeOK, Route
<1>3. Rows' = Rows /\ \A p \in Passes : Current(p)' = Current(p)
  BY <1>1 DEF Rows, Current
<1>4. TransferTypeOK'
  BY <1>1, <1>2, <1>3 DEF TransferInv, TransferTypeOK
<1>5. RowsAreReported' /\ SnapshotsHold'
  BY <1>1, <1>3 DEF TransferInv, RowsAreReported, SnapshotsHold
<1>6. VerifiedCarries'
  BY <1>1, <1>2 DEF TransferInv, TransferTypeOK, Rows, VerifiedCarries
<1>7. MappedIsTrue'
  <2>1. \A p \in Passes : mapped[p] # Null => Current(p).hash \in Hashes
    BY HeadIsKept DEF TransferInv, TransferTypeOK, MappedIsTrue, Snapshot
  <2> QED
    BY <1>1, <1>2, <1>3, <2>1 DEF TransferInv, MappedIsTrue
<1>8. EndedIsReported' /\ OutcomeIsEvidence'
  BY <1>1, <1>2 DEF TransferInv, TransferTypeOK, EndedIsReported, OutcomeIsEvidence, Lost
<1> QED
  BY <1>4, <1>5, <1>6, <1>7, <1>8 DEF TransferInv

LEMMA TransferAlways == TransferSpec => []TransferInv
<1>1. ASSUME TransferInv, [TransferNext]_transferVars PROVE TransferInv'
  <2>1. CASE UNCHANGED transferVars
    <3>1. /\ UNCHANGED <<status, hash, verified, older, call, pass, mapped, source, route,
                         answered, misreads, replaced, unheard>>
      BY <2>1 DEF transferVars, transferRows, world, history
    <3>2. Rows' = Rows /\ \A p \in Passes : Current(p)' = Current(p)
      BY <3>1 DEF Rows, Current
    <3> QED
      BY <1>1, <3>1, <3>2 DEF TransferInv, TransferTypeOK, RowsAreReported, SnapshotsHold,
         VerifiedCarries, MappedIsTrue, EndedIsReported, OutcomeIsEvidence, Lost
  <2>2. CASE TransferNext
    BY <1>1, <2>2, PrepareHolds, SubmitReadHolds, SubmitWriteHolds, SelectHolds, VerifySourceHolds,
       ReadRouteHolds, WriteStatusHolds, ReadFailsHolds, WorldHolds DEF TransferNext, Work
  <2> QED
    BY <1>1, <2>1, <2>2
<1> QED
  BY <1>1, TransferInitHolds, PTL DEF TransferSpec

(***************************************************************************)
(* Every variable of the cross-chain transfers keeps its type, the order   *)
(* of the rows a strict total order.                                       *)
(***************************************************************************)
THEOREM TransferTypes == TransferSpec => []TransferTypeOK
BY TransferAlways, PTL DEF TransferInv

(***************************************************************************)
(* reconcileCrossChainTransfers: however many passes and reports overlap,  *)
(* the end a transfer is given is what became of the transaction exported  *)
(* for it, but for a replaced hash and a chain that could not be asked.    *)
(***************************************************************************)
THEOREM OutcomeHolds == TransferSpec => []OutcomeIsEvidence
BY TransferAlways, PTL DEF TransferInv

=============================================================================
