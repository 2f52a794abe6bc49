------------------------- MODULE CardPurchaseProofs -------------------------
(***************************************************************************)
(* Theorems about CardPurchase for any number of purchases, executors,     *)
(* authorizations and attempts: types, credentials under one lease, one    *)
(* live execution, what becomes of an exposed purchase, whose              *)
(* authorization it is bound to, that its outcome is the provider's, and   *)
(* that the money held on the card stays within its limit.                 *)
(***************************************************************************)
EXTENDS CardPurchase, SumTheorems

\* The groups of variables, throughout.
USE DEF purchaseRows, calls, settings, executors, provision, clock

-----------------------------------------------------------------------------
(* Layer 1: types, with what an executor at work holds.                    *)

TasksHeld ==
    \A w \in Executors :
        pc[w] # "idle" => task[w].purchase \in Purchases /\ task[w].token # 0

TypeInv == TypeOK /\ TasksHeld

(***************************************************************************)
(* A released executor is idle, and holds nothing.                         *)
(***************************************************************************)
LEMMA Released ==
    ASSUME TypeInv, NEW w \in Executors, Release(w)
    PROVE  /\ pc' \in [Executors -> {"idle", "materialize", "revoke", "browse", "mark", "enter",
                                     "checkout", "failed"}]
           /\ task' \in [Executors -> [purchase : Purchases \cup {None}, token : 0 .. MaxAttempts]]
           /\ TasksHeld'
<1>1. NoTask \in [purchase : Purchases \cup {None}, token : 0 .. MaxAttempts]
  BY CardConstants DEF CardConstants, NoTask
<1> QED
  BY <1>1 DEF TypeInv, TypeOK, TasksHeld, Release

(***************************************************************************)
(* A conditional update of an intent keeps its type.                       *)
(***************************************************************************)
LEMMA IntentMoved ==
    ASSUME TypeInv, NEW p \in Purchases, NEW from, NEW to \in IntentStatus, MoveIntent(p, from, to)
    PROVE  intent' \in [Purchases -> IntentStatus]
BY DEF TypeInv, TypeOK, MoveIntent

(***************************************************************************)
(* Events of the provider are rows, and tell of it the truth.              *)
(***************************************************************************)
LEMMA SentRows ==
    ASSUME NEW a \in Auths, NEW event \in Sent(a)
    PROVE  /\ event \in Row /\ event # NoRow
           /\ provider[a] \in {"pending", "declined", "closed", "reversed"}
           /\ event.approved /\ event.status = "CLOSED" => provider[a] = "closed"
           /\ ~event.approved \/ event.status \in {"DECLINED", "REVERSED"}
                  => provider[a] \in {"declined", "reversed"}
BY DEF Sent, Row, NoRow

\* What an executor takes with a lease.
Taken(w, p) ==
    /\ attempts' = [attempts EXCEPT ![p] = @ + 1]
    /\ live' = live \cup {p}
    /\ task' = [task EXCEPT ![w] = [purchase |-> p, token |-> attempts[p] + 1]]
    /\ pc' = [pc EXCEPT ![w] = "materialize"]

(***************************************************************************)
(* Every step keeps the types, and what executors hold.                    *)
(***************************************************************************)
LEMMA TypeStep == ASSUME TypeInv, [Next]_vars PROVE TypeInv'
<1>s. status \in [Purchases -> PurchaseStatus] /\ intent \in [Purchases -> IntentStatus]
  BY DEF TypeInv, TypeOK
<1>l. /\ lease \in [Purchases -> 0 .. MaxAttempts] /\ attempts \in [Purchases -> 0 .. MaxAttempts]
      /\ live \subseteq Purchases /\ submitted \subseteq Purchases
      /\ MaxAttempts \in Nat \ {0}
  BY CardConstants DEF TypeInv, TypeOK, CardConstants
<1>w. \A w \in Executors : pc[w] # "idle" =>
          task[w].purchase \in Purchases /\ task[w].token \in 1 .. MaxAttempts
  <2>1. task \in [Executors -> [purchase : Purchases \cup {None}, token : 0 .. MaxAttempts]]
    BY DEF TypeInv, TypeOK
  <2> QED
    BY <1>l, <2>1 DEF TypeInv, TasksHeld
<1>m. /\ policy \in [version : 1 .. MaxPolicyVersion, mode : Modes]
      /\ MaxPolicyVersion \in Nat \ {0}
  BY CardConstants DEF TypeInv, TypeOK, CardConstants
<1>n. recent \in Seq(Purchases) /\ near \in [Auths -> SUBSET Purchases]
  BY DEF TypeInv, TypeOK
<1>1. ASSUME NEW p \in Purchases, Evaluate(p)
      PROVE  TypeInv'
  BY <1>1
  DEF Evaluate, TypeInv, TypeOK, TasksHeld, PurchaseStatus, IntentStatus,
       Row, NoRow, NoCharge, Modes
<1>2. ASSUME NEW p \in Purchases, Create(p)
      PROVE  TypeInv'
  BY <1>2
  DEF Create, TypeInv, TypeOK, TasksHeld, PurchaseStatus, IntentStatus, Row,
       NoRow, NoCharge, Modes
<1>3. ASSUME NEW p \in Purchases, NEW vote \in {"APPROVE", "REJECT"}, Decide(p, vote)
      PROVE  TypeInv'
  BY <1>3
  DEF Decide, TypeInv, TypeOK, TasksHeld, PurchaseStatus, IntentStatus, Row,
       NoRow, NoCharge, Modes
<1>4. ASSUME NEW p \in Purchases, Resume(p)
      PROVE  TypeInv'
  BY <1>4
  DEF Resume, TypeInv, TypeOK, TasksHeld, PurchaseStatus, IntentStatus, Row,
       NoRow, NoCharge, Modes
<1>5. ASSUME NEW p \in Purchases, ResumeWrite(p)
      PROVE  TypeInv'
  <2>1. status' \in [Purchases -> PurchaseStatus]
    BY <1>5, <1>s DEF ResumeWrite, PurchaseStatus
  <2>2. intent' \in [Purchases -> IntentStatus]
    BY <1>5, <1>s, IntentMoved DEF ResumeWrite, IntentStatus
  <2>3. resume' \in [Purchases -> {"none", "check", "ready", "give up", "reject"}]
    BY <1>5 DEF ResumeWrite, TypeInv, TypeOK
  <2> QED
    BY <1>5, <2>1, <2>2, <2>3 DEF ResumeWrite, TypeInv, TypeOK, TasksHeld
<1>6. ASSUME NEW p \in Purchases, CancelRead(p)
      PROVE  TypeInv'
  BY <1>6
  DEF CancelRead, TypeInv, TypeOK, TasksHeld, PurchaseStatus, IntentStatus,
       Row, NoRow, NoCharge, Modes
<1>7. ASSUME NEW p \in Purchases, CancelWrite(p)
      PROVE  TypeInv'
  BY <1>7
  DEF CancelWrite, TypeInv, TypeOK, TasksHeld, PurchaseStatus, IntentStatus,
       Row, NoRow, NoCharge, Modes
<1>8. ASSUME NEW p \in Purchases, ExpireIntent(p)
      PROVE  TypeInv'
  BY <1>8
  DEF ExpireIntent, TypeInv, TypeOK, TasksHeld, PurchaseStatus,
       IntentStatus, Row, NoRow, NoCharge, Modes
<1>9. ASSUME NEW p \in Purchases, LeaseExpires(p)
      PROVE  TypeInv'
  BY <1>9
  DEF LeaseExpires, TypeInv, TypeOK, TasksHeld, PurchaseStatus,
       IntentStatus, Row, NoRow, NoCharge, Modes
<1>10. ASSUME NEW w \in Executors, Lease(w)
      PROVE  TypeInv'
  <2> DEFINE swept == [p \in Purchases |-> IF p \in Stale THEN "REQUIRES_HUMAN" ELSE status[p]]
             unleased == [p \in Purchases |-> IF p \in Stale THEN 0 ELSE lease[p]]
  <2>1. swept \in [Purchases -> PurchaseStatus] /\ unleased \in [Purchases -> 0 .. MaxAttempts]
    BY <1>s, <1>l DEF PurchaseStatus
  <2> HIDE DEF swept, unleased
  <2>2. CASE status' = swept /\ lease' = unleased /\ UNCHANGED <<attempts, live, pc, task>>
    BY <1>10, <2>1, <2>2 DEF Lease, TypeInv, TypeOK, TasksHeld
  <2>3. ASSUME NEW p \in Purchases, Leasable(p), Taken(w, p),
               status' = [swept EXCEPT ![p] = "EXECUTING"],
               lease' = [unleased EXCEPT ![p] = attempts[p] + 1]
        PROVE  TypeInv'
    <3>1. attempts[p] + 1 \in 0 .. MaxAttempts /\ attempts[p] + 1 # 0
      BY <2>3, <1>l DEF Leasable
    <3>2. /\ status' \in [Purchases -> PurchaseStatus] /\ lease' \in [Purchases -> 0 .. MaxAttempts]
          /\ attempts' \in [Purchases -> 0 .. MaxAttempts] /\ live' \subseteq Purchases
      BY <1>l, <2>1, <2>3, <3>1 DEF Taken, PurchaseStatus
    <3>3. /\ pc' \in [Executors -> {"idle", "materialize", "revoke", "browse", "mark", "enter",
                                    "checkout", "failed"}]
          /\ task' \in [Executors -> [purchase : Purchases \cup {None}, token : 0 .. MaxAttempts]]
          /\ TasksHeld'
      BY <2>3, <3>1 DEF Taken, TypeInv, TypeOK, TasksHeld
    <3> QED
      BY <1>10, <3>2, <3>3 DEF Lease, TypeInv, TypeOK
  <2> QED
    BY <1>10, <2>2, <2>3 DEF Lease, Taken, swept, unleased
<1>11. ASSUME NEW w \in Executors, Materialize(w)
      PROVE  TypeInv'
  BY <1>11 DEF Materialize, Goto, TypeInv, TypeOK, TasksHeld
<1>12. ASSUME NEW w \in Executors, Revoke(w)
      PROVE  TypeInv'
  <2>1. Release(w) /\ task[w].purchase \in Purchases
    BY <1>12, <1>w DEF Revoke
  <2>2. status' \in [Purchases -> PurchaseStatus] /\ lease' \in [Purchases -> 0 .. MaxAttempts]
    BY <1>12, <1>s, <1>l, <2>1 DEF Revoke, PurchaseStatus
  <2>3. live' \subseteq Purchases
    BY <1>12, <1>l, <2>1 DEF Revoke
  <2>4. intent' \in [Purchases -> IntentStatus]
    BY <1>12, <1>s, <2>1, IntentMoved DEF Revoke, IntentStatus
  <2> QED
    BY <1>12, <2>1, <2>2, <2>3, <2>4, Released DEF Revoke, TypeInv, TypeOK
<1>13. ASSUME NEW w \in Executors, Validate(w)
      PROVE  TypeInv'
  BY <1>13 DEF Validate, Goto, TypeInv, TypeOK, TasksHeld
<1>14. ASSUME NEW w \in Executors, Mark(w)
      PROVE  TypeInv'
  <2>1. submitted' \subseteq Purchases
    BY <1>14, <1>l, <1>w DEF Mark
  <2>2. /\ pc' \in [Executors -> {"idle", "materialize", "revoke", "browse", "mark", "enter",
                                  "checkout", "failed"}]
        /\ task' = task
    BY <1>14 DEF Mark, Goto, TypeInv, TypeOK
  <2>3. TasksHeld'
    BY <1>14, <2>2 DEF Mark, Goto, TypeInv, TypeOK, TasksHeld
  <2>4. recent' \in Seq(Purchases) /\ near' \in [Auths -> SUBSET Purchases]
    <3>1. task[w].purchase \in Purchases
      BY <1>14, <1>w DEF Mark
    <3> QED
      BY <1>14, <1>n, <3>1 DEF Mark
  <2> QED
    BY <1>14, <1>n, <2>1, <2>2, <2>3, <2>4 DEF Mark, TypeInv, TypeOK
<1>15. ASSUME NEW w \in Executors, Enter(w)
      PROVE  TypeInv'
  <2>1. exposed' \subseteq Purchases \X (1 .. MaxAttempts)
    <3>1. exposed \subseteq Purchases \X (1 .. MaxAttempts)
      BY DEF TypeInv, TypeOK
    <3>2. <<task[w].purchase, task[w].token>> \in Purchases \X (1 .. MaxAttempts)
      BY <1>15, <1>w DEF Enter
    <3> QED
      BY <1>15, <3>1, <3>2 DEF Enter
  <2> QED
    BY <1>15, <2>1 DEF Enter, Goto, TypeInv, TypeOK, TasksHeld
<1>16. ASSUME NEW w \in Executors, NEW result \in {"CHECKOUT_SUCCEEDED", "CHECKOUT_FAILED", "REQUIRES_HUMAN"},
           NEW seen \in BOOLEAN, Complete(w, result, seen)
      PROVE  TypeInv'
  <2>1. Release(w) /\ task[w].purchase \in Purchases
    BY <1>16, <1>w DEF Complete, Results
  <2>2. status' \in [Purchases -> PurchaseStatus] /\ lease' \in [Purchases -> 0 .. MaxAttempts]
    BY <1>16, <1>s, <1>l, <2>1 DEF Complete, EffectiveStatus, PurchaseStatus
  <2>3. live' \subseteq Purchases
    BY <1>16, <1>l, <2>1 DEF Complete, EffectiveStatus
  <2>4. intent' \in [Purchases -> IntentStatus]
    BY <1>16, <1>s, <2>1, IntentMoved DEF Complete, EffectiveStatus, IntentStatus
  <2> QED
    BY <1>16, <2>1, <2>2, <2>3, <2>4, Released DEF Complete, TypeInv, TypeOK
<1>17. ASSUME NEW w \in Executors, Stop(w)
      PROVE  TypeInv'
  BY <1>17, Released DEF Stop, TypeInv, TypeOK
<1>18. ASSUME NEW a \in Auths, NEW p \in Purchases \cup {None}, NEW n \in ChargeAmounts, Charge(a, p, n)
      PROVE  TypeInv'
  <2>1. near' \in [Auths -> SUBSET Purchases]
    BY <1>18, <1>n DEF Charge, Range
  <2>2. /\ charge' \in [Auths -> [purchase : Purchases \cup {None}, amount : ChargeAmounts \cup {0}]]
        /\ provider' \in [Auths -> {"none", "requested", "pending", "declined", "closed", "reversed"}]
    BY <1>18 DEF Charge, TypeInv, TypeOK
  <2> QED
    BY <1>18, <2>1, <2>2 DEF Charge, TypeInv, TypeOK, TasksHeld
<1>19. ASSUME NEW a \in Auths, ProviderDeclines(a)
      PROVE  TypeInv'
  BY <1>19
  DEF ProviderDeclines, TypeInv, TypeOK, TasksHeld, PurchaseStatus,
       IntentStatus, Row, NoRow, NoCharge, Modes
<1>20. ASSUME NEW a \in Auths, ProviderFinishes(a)
      PROVE  TypeInv'
  <2>1. provider \in [Auths -> {"none", "requested", "pending", "declined", "closed", "reversed"}]
    BY DEF TypeInv, TypeOK
  <2>2. PICK end \in {"closed", "reversed"} : provider' = [provider EXCEPT ![a] = end]
    BY <1>20 DEF ProviderFinishes
  <2>3. provider' \in [Auths -> {"none", "requested", "pending", "declined", "closed", "reversed"}]
    BY <2>1, <2>2
  <2>4. UNCHANGED <<purchaseRows, intent, calls, settings, executors, charge, row, due, clock>>
    BY <1>20 DEF ProviderFinishes
  <2> QED
    BY <2>3, <2>4 DEF TypeInv, TypeOK, TasksHeld
<1>21. ASSUME NEW a \in Auths, RecordAuthorization(a)
      PROVE  TypeInv'
  <2>1. row' \in [Auths -> Row]
    BY <1>21 DEF RecordAuthorization, TypeInv, TypeOK, Row
  <2>2. bound' \in [Purchases -> Auths \cup {None}]
    BY <1>21 DEF RecordAuthorization, OnlyCandidate, TypeInv, TypeOK
  <2> QED
    BY <1>21, <2>1, <2>2 DEF RecordAuthorization, TypeInv, TypeOK, TasksHeld
<1>22. ASSUME NEW a \in Auths, UpdateAuthorization(a)
      PROVE  TypeInv'
  <2>1. PICK event \in Sent(a) : row' = [row EXCEPT ![a] = event]
    BY <1>22 DEF UpdateAuthorization
  <2>2. row' \in [Auths -> Row]
    BY <2>1, SentRows DEF TypeInv, TypeOK
  <2> QED
    BY <1>22, <2>2 DEF UpdateAuthorization, TypeInv, TypeOK, TasksHeld
<1>23. ASSUME NEW a \in Auths, ReconcileAuthorization(a)
      PROVE  TypeInv'
  <2>1. /\ status' \in [Purchases -> PurchaseStatus] /\ lease' \in [Purchases -> 0 .. MaxAttempts]
        /\ live' \subseteq Purchases
    BY <1>23, <1>s, <1>l DEF ReconcileAuthorization, PurchaseStatus
  <2>2. intent' \in [Purchases -> IntentStatus]
    BY <1>23, <1>s, IntentMoved DEF ReconcileAuthorization, IntentStatus
  <2> QED
    BY <1>23, <2>1, <2>2 DEF ReconcileAuthorization, TypeInv, TypeOK, TasksHeld
<1>24. ASSUME NEW mode \in Modes, PutPolicy(mode)
      PROVE  TypeInv'
  <2>1. /\ status' \in [Purchases -> PurchaseStatus] /\ lease' \in [Purchases -> 0 .. MaxAttempts]
        /\ live' \subseteq Purchases
    BY <1>24, <1>s, <1>l DEF PutPolicy, PurchaseStatus
  <2>2. intent' \in [Purchases -> IntentStatus]
    BY <1>24, <1>s DEF PutPolicy, IntentStatus
  <2>3. policy' \in [version : 1 .. MaxPolicyVersion, mode : Modes]
    BY <1>24, <1>m DEF PutPolicy
  <2> QED
    BY <1>24, <2>1, <2>2, <2>3 DEF PutPolicy, TypeInv, TypeOK, TasksHeld
<1>25. ASSUME SetHalted
      PROVE  TypeInv'
  BY <1>25
  DEF SetHalted, TypeInv, TypeOK, TasksHeld, PurchaseStatus, IntentStatus,
       Row, NoRow, NoCharge, Modes
<1>26. CASE UNCHANGED vars
  BY <1>26 DEF vars, TypeInv, TypeOK,
       TasksHeld, PurchaseStatus, IntentStatus, Row, NoRow, NoCharge, Modes
<1>27. ASSUME WindowCloses
      PROVE  TypeInv'
  <2>1. recent' \in Seq(Purchases)
    BY <1>27, <1>n DEF WindowCloses
  <2>2. UNCHANGED <<purchaseRows, intent, calls, settings, executors, charge, provider, row, due,
                    near>>
    BY <1>27 DEF WindowCloses
  <2> QED
    BY <2>1, <2>2 DEF TypeInv, TypeOK, TasksHeld
<1> QED
  BY <1>1, <1>2, <1>3, <1>4, <1>5, <1>6, <1>7, <1>8, <1>9, <1>10,
       <1>11, <1>12, <1>13, <1>14, <1>15, <1>16, <1>17, <1>18, <1>19, <1>20,
       <1>21, <1>22, <1>23, <1>24, <1>25, <1>26, <1>27 DEF Next, Purchase, Work,
       Authorize


-----------------------------------------------------------------------------
(* Layer 2: leases.  A lease is named by its attempt; nothing past the      *)
(* checkpoint is leased again, so that the lease under which credentials   *)
(* are or were entered stays the last one.                                 *)

PastCheckpoint == {"EXECUTING", "REQUIRES_HUMAN", "CHECKOUT_SUCCEEDED", "CHECKOUT_FAILED"}

Leased ==
    \A p \in Purchases :
        /\ status[p] = "EXECUTING" => lease[p] = attempts[p]
        /\ request[p] # "none" => status[p] = "none"
        /\ p \in submitted => status[p] \in PastCheckpoint

\* An executor at the merchant's form, or beyond it, has the last lease.
Entering ==
    \A w \in Executors : pc[w] \in {"enter", "checkout"} =>
        task[w].purchase \in submitted /\ task[w].token = attempts[task[w].purchase]

\* Credentials went out under the last lease.
Entered ==
    \A p \in Purchases, t \in 1 .. MaxAttempts :
        <<p, t>> \in exposed => p \in submitted /\ t = attempts[p]

LeaseInv == Leased /\ Entering /\ Entered /\ OneLiveExecution

(***************************************************************************)
(* Every step keeps what is known of leases: in particular the one that    *)
(* takes a lease, and those that end an execution.                         *)
(***************************************************************************)
LEMMA LeaseStep == ASSUME TypeInv, LeaseInv, [Next]_vars PROVE LeaseInv'
<1>s. /\ status \in [Purchases -> PurchaseStatus] /\ request \in [Purchases -> {"none", "READY", "APPROVAL_PENDING"}]
      /\ submitted \subseteq Purchases /\ live \subseteq Purchases
  BY DEF TypeInv, TypeOK
<1>l. /\ lease \in [Purchases -> 0 .. MaxAttempts] /\ attempts \in [Purchases -> 0 .. MaxAttempts]
      /\ MaxAttempts \in Nat \ {0}
  BY CardConstants DEF TypeInv, TypeOK, CardConstants
<1>w. /\ \A w \in Executors : pc[w] # "idle" => task[w].purchase \in Purchases
      /\ DOMAIN pc = Executors /\ DOMAIN task = Executors
      /\ \A w \in Executors : task[w] = [purchase |-> task[w].purchase, token |-> task[w].token]
  BY DEF TypeInv, TypeOK, TasksHeld
<1>1. ASSUME NEW p \in Purchases, Evaluate(p)
      PROVE  LeaseInv'
  BY <1>1, <1>s, <1>l, <1>w
  DEF Evaluate, LeaseInv, Leased, Entering, Entered, OneLiveExecution,
       PastCheckpoint
<1>2. ASSUME NEW p \in Purchases, Create(p)
      PROVE  LeaseInv'
  BY <1>2, <1>s, <1>l, <1>w
  DEF Create, LeaseInv, Leased, Entering, Entered, OneLiveExecution,
       PastCheckpoint
<1>3. ASSUME NEW p \in Purchases, NEW vote \in {"APPROVE", "REJECT"}, Decide(p, vote)
      PROVE  LeaseInv'
  BY <1>3, <1>s, <1>l, <1>w
  DEF Decide, LeaseInv, Leased, Entering, Entered, OneLiveExecution,
       PastCheckpoint
<1>4. ASSUME NEW p \in Purchases, Resume(p)
      PROVE  LeaseInv'
  BY <1>4, <1>s, <1>l, <1>w
  DEF Resume, LeaseInv, Leased, Entering, Entered, OneLiveExecution,
       PastCheckpoint
<1>5. ASSUME NEW p \in Purchases, ResumeWrite(p)
      PROVE  LeaseInv'
  <2>1. Leased'
    <3>1. UNCHANGED <<attempts, lease, submitted, request>>
      BY <1>5 DEF ResumeWrite
    <3>2. \A q \in Purchases :
              \/ status'[q] = status[q]
              \/ status[q] = "APPROVAL_PENDING" /\ status'[q] \in {"READY", "REJECTED"}
      BY <1>5, <1>s DEF ResumeWrite
    <3> QED
      BY <3>1, <3>2 DEF LeaseInv, Leased, PastCheckpoint
  <2>2. Entering'
    BY <1>5, <1>s, <1>l, <1>w
    DEF ResumeWrite, MoveIntent, LeaseInv, Leased, Entering, PastCheckpoint
  <2>3. Entered'
    BY <1>5, <1>s, <1>l, <1>w
    DEF ResumeWrite, MoveIntent, LeaseInv, Leased, Entering, Entered,
       PastCheckpoint
  <2>4. OneLiveExecution'
    <3>1. \A q \in Purchases : status'[q] = "EXECUTING" => status[q] = "EXECUTING"
      BY <1>5, <1>s DEF ResumeWrite
    <3> QED
      BY <1>5, <3>1 DEF ResumeWrite, LeaseInv, OneLiveExecution
  <2> QED
    BY <2>1, <2>2, <2>3, <2>4 DEF LeaseInv
<1>6. ASSUME NEW p \in Purchases, CancelRead(p)
      PROVE  LeaseInv'
  BY <1>6, <1>s, <1>l, <1>w
  DEF CancelRead, LeaseInv, Leased, Entering, Entered, OneLiveExecution,
       PastCheckpoint
<1>7. ASSUME NEW p \in Purchases, CancelWrite(p)
      PROVE  LeaseInv'
  BY <1>7, <1>s, <1>l, <1>w
  DEF CancelWrite, LeaseInv, Leased, Entering, Entered, OneLiveExecution,
       PastCheckpoint
<1>8. ASSUME NEW p \in Purchases, ExpireIntent(p)
      PROVE  LeaseInv'
  BY <1>8, <1>s, <1>l, <1>w
  DEF ExpireIntent, LeaseInv, Leased, Entering, Entered, OneLiveExecution,
       PastCheckpoint
<1>9. ASSUME NEW p \in Purchases, LeaseExpires(p)
      PROVE  LeaseInv'
  BY <1>9, <1>s, <1>l, <1>w
  DEF LeaseExpires, LeaseInv, Leased, Entering, Entered, OneLiveExecution,
       PastCheckpoint
<1>10. ASSUME NEW w \in Executors, Lease(w)
      PROVE  LeaseInv'
  <2>1. Leased'
    <3> DEFINE swept == [p \in Purchases |-> IF p \in Stale THEN "REQUIRES_HUMAN" ELSE status[p]]
               unleased == [p \in Purchases |-> IF p \in Stale THEN 0 ELSE lease[p]]
    <3>0. ASSUME NEW q \in Purchases
          PROVE  /\ swept[q] = "EXECUTING" => unleased[q] = attempts[q]
                 /\ request[q] # "none" => swept[q] = "none"
                 /\ q \in submitted => swept[q] \in PastCheckpoint
      <4>1. CASE q \in Stale
        BY <1>s, <4>1 DEF LeaseInv, Leased, PastCheckpoint, Stale
      <4>2. CASE q \notin Stale
        BY <4>2 DEF LeaseInv, Leased
      <4> QED
        BY <4>1, <4>2
    <3>d. swept \in [Purchases -> PurchaseStatus] /\ unleased \in [Purchases -> 0 .. MaxAttempts]
      BY <1>s, <1>l DEF PurchaseStatus
    <3> HIDE DEF swept, unleased
    <3>1. CASE status' = swept /\ lease' = unleased /\ UNCHANGED attempts
      BY <1>10, <3>0, <3>1 DEF Lease, Leased
    <3>2. ASSUME NEW p \in Purchases, Leasable(p), Taken(w, p),
                 status' = [swept EXCEPT ![p] = "EXECUTING"],
                 lease' = [unleased EXCEPT ![p] = attempts[p] + 1]
          PROVE  Leased'
      <4>1. request[p] = "none" /\ p \notin submitted
        BY <3>2, <1>s DEF Leasable, LeaseInv, Leased, PastCheckpoint
      <4>2. UNCHANGED <<request, submitted>>
        BY <1>10 DEF Lease
      <4> QED
        BY <1>s, <1>l, <3>0, <3>d, <3>2, <4>1, <4>2 DEF Taken, Leased, PastCheckpoint
    <3> QED
      BY <1>10, <3>1, <3>2 DEF Lease, Taken, swept, unleased
  <2>2. Entering'
    BY <1>10, <1>s, <1>l, <1>w
    DEF Lease, Stale, Leasable, CardFree, LeaseInv, Leased, Entering,
       PastCheckpoint
  <2>3. Entered'
    BY <1>10, <1>s, <1>l, <1>w
    DEF Lease, Stale, Leasable, CardFree, LeaseInv, Leased, Entering,
       Entered, PastCheckpoint
  <2>4. OneLiveExecution'
    <3>1. CASE UNCHANGED live
               /\ \A q \in Purchases : status'[q] = "EXECUTING" => status[q] = "EXECUTING"
      BY <3>1 DEF LeaseInv, OneLiveExecution
    <3>2. ASSUME NEW p \in Purchases, CardFree(p), live' = live \cup {p},
                 \A q \in Purchases \ {p} : status'[q] = "EXECUTING" => status[q] = "EXECUTING"
          PROVE  OneLiveExecution'
      BY <3>2 DEF CardFree, OneLiveExecution
    <3> QED
      BY <1>10, <1>s, <3>1, <3>2 DEF Lease
  <2> QED
    BY <2>1, <2>2, <2>3, <2>4 DEF LeaseInv
<1>11. ASSUME NEW w \in Executors, Materialize(w)
      PROVE  LeaseInv'
  BY <1>11, <1>s, <1>l, <1>w
  DEF Materialize, Goto, LeaseInv, Leased, Entering, Entered,
       OneLiveExecution, PastCheckpoint
<1>12. ASSUME NEW w \in Executors, Revoke(w)
      PROVE  LeaseInv'
  <2>1. Leased'
    BY <1>12, <1>s, <1>l, <1>w
    DEF Revoke, Release, NoTask, MoveIntent, LeaseInv, Leased,
       PastCheckpoint
  <2>2. Entering'
    BY <1>12, <1>s, <1>l, <1>w
    DEF Revoke, Release, NoTask, MoveIntent, LeaseInv, Leased, Entering,
       PastCheckpoint
  <2>3. Entered'
    BY <1>12, <1>s, <1>l, <1>w
    DEF Revoke, Release, NoTask, MoveIntent, LeaseInv, Leased, Entering,
       Entered, PastCheckpoint
  <2>4. OneLiveExecution'
    BY <1>12, <1>s, <1>l, <1>w
    DEF Revoke, Release, NoTask, MoveIntent, LeaseInv, OneLiveExecution
  <2> QED
    BY <2>1, <2>2, <2>3, <2>4 DEF LeaseInv
<1>13. ASSUME NEW w \in Executors, Validate(w)
      PROVE  LeaseInv'
  BY <1>13, <1>s, <1>l, <1>w
  DEF Validate, Goto, LeaseInv, Leased, Entering, Entered, OneLiveExecution,
       PastCheckpoint
<1>14. ASSUME NEW w \in Executors, Mark(w)
      PROVE  LeaseInv'
  <2>1. Leased'
    BY <1>14, <1>s, <1>l, <1>w
    DEF Mark, Goto, Markable, Holds, LeaseInv, Leased, PastCheckpoint
  <2>2. Entering'
    BY <1>14, <1>s, <1>l, <1>w
    DEF Mark, Goto, Markable, Holds, LeaseInv, Leased, Entering,
       PastCheckpoint
  <2>3. Entered'
    BY <1>14, <1>s, <1>l, <1>w
    DEF Mark, Goto, Markable, Holds, LeaseInv, Leased, Entering, Entered,
       PastCheckpoint
  <2>4. OneLiveExecution'
    BY <1>14, <1>s, <1>l, <1>w
    DEF Mark, Goto, Markable, Holds, LeaseInv, OneLiveExecution
  <2> QED
    BY <2>1, <2>2, <2>3, <2>4 DEF LeaseInv
<1>15. ASSUME NEW w \in Executors, Enter(w)
      PROVE  LeaseInv'
  <2>1. Leased'
    BY <1>15, <1>s, <1>l, <1>w
    DEF Enter, Goto, LeaseInv, Leased, PastCheckpoint
  <2>2. Entering'
    BY <1>15, <1>s, <1>l, <1>w
    DEF Enter, Goto, LeaseInv, Leased, Entering, PastCheckpoint
  <2>3. Entered'
    BY <1>15, <1>s, <1>l, <1>w
    DEF Enter, Goto, LeaseInv, Leased, Entering, Entered, PastCheckpoint
  <2>4. OneLiveExecution'
    BY <1>15, <1>s, <1>l, <1>w
    DEF Enter, Goto, LeaseInv, OneLiveExecution
  <2> QED
    BY <2>1, <2>2, <2>3, <2>4 DEF LeaseInv
<1>16. ASSUME NEW w \in Executors, NEW result \in {"CHECKOUT_SUCCEEDED", "CHECKOUT_FAILED", "REQUIRES_HUMAN"},
           NEW seen \in BOOLEAN, Complete(w, result, seen)
      PROVE  LeaseInv'
  <2>1. Leased'
    BY <1>16, <1>s, <1>l, <1>w
    DEF Complete, Release, NoTask, MoveIntent, Results, EffectiveStatus,
       Holds, LeaseInv, Leased, PastCheckpoint
  <2>2. Entering'
    BY <1>16, <1>s, <1>l, <1>w
    DEF Complete, Release, NoTask, MoveIntent, Results, EffectiveStatus,
       Holds, LeaseInv, Leased, Entering, PastCheckpoint
  <2>3. Entered'
    BY <1>16, <1>s, <1>l, <1>w
    DEF Complete, Release, NoTask, MoveIntent, Results, EffectiveStatus,
       Holds, LeaseInv, Leased, Entering, Entered, PastCheckpoint
  <2>4. OneLiveExecution'
    BY <1>16, <1>s, <1>l, <1>w
    DEF Complete, Release, NoTask, MoveIntent, Results, EffectiveStatus,
       Holds, LeaseInv, OneLiveExecution
  <2> QED
    BY <2>1, <2>2, <2>3, <2>4 DEF LeaseInv
<1>17. ASSUME NEW w \in Executors, Stop(w)
      PROVE  LeaseInv'
  BY <1>17, <1>s, <1>l, <1>w
  DEF Stop, Release, NoTask, LeaseInv, Leased, Entering, Entered,
       OneLiveExecution, PastCheckpoint
<1>18. ASSUME NEW a \in Auths, NEW p \in Purchases \cup {None}, NEW n \in ChargeAmounts, Charge(a, p, n)
      PROVE  LeaseInv'
  BY <1>18, <1>s, <1>l, <1>w
  DEF Charge, Exposed, LeaseInv, Leased, Entering, Entered,
       OneLiveExecution, PastCheckpoint
<1>19. ASSUME NEW a \in Auths, ProviderDeclines(a)
      PROVE  LeaseInv'
  BY <1>19, <1>s, <1>l, <1>w
  DEF ProviderDeclines, LeaseInv, Leased, Entering, Entered,
       OneLiveExecution, PastCheckpoint
<1>20. ASSUME NEW a \in Auths, ProviderFinishes(a)
      PROVE  LeaseInv'
  BY <1>20, <1>s, <1>l, <1>w
  DEF ProviderFinishes, LeaseInv, Leased, Entering, Entered,
       OneLiveExecution, PastCheckpoint
<1>21. ASSUME NEW a \in Auths, RecordAuthorization(a)
      PROVE  LeaseInv'
  BY <1>21, <1>s, <1>l, <1>w
  DEF RecordAuthorization, OnlyCandidate, Awaiting, LeaseInv, Leased,
       Entering, Entered, OneLiveExecution, PastCheckpoint
<1>22. ASSUME NEW a \in Auths, UpdateAuthorization(a)
      PROVE  LeaseInv'
  BY <1>22, <1>s, <1>l, <1>w
  DEF UpdateAuthorization, Sent, LeaseInv, Leased, Entering, Entered,
       OneLiveExecution, PastCheckpoint
<1>23. ASSUME NEW a \in Auths, ReconcileAuthorization(a)
      PROVE  LeaseInv'
  <2>1. Leased'
    BY <1>23, <1>s, <1>l, <1>w
    DEF ReconcileAuthorization, Captured, OpenIntent, MoveIntent, LeaseInv,
       Leased, PastCheckpoint
  <2>2. Entering'
    BY <1>23, <1>s, <1>l, <1>w
    DEF ReconcileAuthorization, Captured, OpenIntent, MoveIntent, LeaseInv,
       Leased, Entering, PastCheckpoint
  <2>3. Entered'
    BY <1>23, <1>s, <1>l, <1>w
    DEF ReconcileAuthorization, Captured, OpenIntent, MoveIntent, LeaseInv,
       Leased, Entering, Entered, PastCheckpoint
  <2>4. OneLiveExecution'
    BY <1>23, <1>s, <1>l, <1>w
    DEF ReconcileAuthorization, Captured, OpenIntent, MoveIntent, LeaseInv,
       OneLiveExecution
  <2> QED
    BY <2>1, <2>2, <2>3, <2>4 DEF LeaseInv
<1>24. ASSUME NEW mode \in Modes, PutPolicy(mode)
      PROVE  LeaseInv'
  <2>1. Leased'
    BY <1>24, <1>s, <1>l, <1>w
    DEF PutPolicy, CancelsUnsubmitted, LeaseInv, Leased, PastCheckpoint
  <2>2. Entering'
    BY <1>24, <1>s, <1>l, <1>w
    DEF PutPolicy, CancelsUnsubmitted, LeaseInv, Leased, Entering,
       PastCheckpoint
  <2>3. Entered'
    BY <1>24, <1>s, <1>l, <1>w
    DEF PutPolicy, CancelsUnsubmitted, LeaseInv, Leased, Entering, Entered,
       PastCheckpoint
  <2>4. OneLiveExecution'
    BY <1>24, <1>s, <1>l, <1>w
    DEF PutPolicy, CancelsUnsubmitted, LeaseInv, OneLiveExecution
  <2> QED
    BY <2>1, <2>2, <2>3, <2>4 DEF LeaseInv
<1>25. ASSUME SetHalted
      PROVE  LeaseInv'
  BY <1>25, <1>s, <1>l, <1>w
  DEF SetHalted, LeaseInv, Leased, Entering, Entered, OneLiveExecution,
       PastCheckpoint
<1>26. CASE UNCHANGED vars
  BY <1>26 DEF vars, LeaseInv, Leased,
       Entering, Entered, OneLiveExecution
<1>27. ASSUME WindowCloses
      PROVE  LeaseInv'
  BY <1>27 DEF WindowCloses, LeaseInv, Leased, Entering, Entered, OneLiveExecution
<1> QED
  BY <1>1, <1>2, <1>3, <1>4, <1>5, <1>6, <1>7, <1>8, <1>9, <1>10,
       <1>11, <1>12, <1>13, <1>14, <1>15, <1>16, <1>17, <1>18, <1>19, <1>20,
       <1>21, <1>22, <1>23, <1>24, <1>25, <1>26, <1>27 DEF Next, Purchase, Work,
       Authorize


-----------------------------------------------------------------------------
(* Layer 3: the provider.  Rows never claim an outcome the provider does   *)
(* not have, whatever the order of events; an unbound purchase past its    *)
(* checkpoint is still a candidate for its authorization.                  *)

Recorded ==
    \A a \in Auths :
        /\ a \in due => row[a] # NoRow
        /\ provider[a] = "none" => row[a] = NoRow
        /\ row[a] # NoRow =>
               /\ provider[a] \in {"pending", "declined", "closed", "reversed"}
               /\ ~row[a].approved \/ row[a].status \in {"DECLINED", "REVERSED"}
                      => provider[a] \in {"declined", "reversed"}
               /\ row[a].approved /\ row[a].status = "CLOSED" => provider[a] = "closed"

\* The provider refused or returned the money.
Refused(p) == bound[p] # None /\ provider[bound[p]] \in {"declined", "reversed"}

Evidence ==
    \A p \in Purchases :
        /\ bound[p] # None => row[bound[p]] # NoRow
        /\ p \in submitted /\ bound[p] = None => status[p] \in {"EXECUTING", "REQUIRES_HUMAN"}
        /\ p \in submitted /\ status[p] = "CHECKOUT_FAILED" => Refused(p)

\* A purchase is charged once, and past its checkpoint.
Charged ==
    \A a \in Auths :
        /\ provider[a] = "none" => charge[a].purchase = None
        /\ charge[a].purchase # None =>
               /\ charge[a].purchase \in submitted
               /\ \A b \in Auths : charge[b].purchase = charge[a].purchase => b = a

ProviderInv == Recorded /\ Evidence /\ OutcomeIsProviders /\ Charged /\ BindingFaithful

(***************************************************************************)
(* An authorization is taken to pay a purchase when only one awaits it.    *)
(***************************************************************************)
LEMMA OneCandidate ==
    ASSUME NEW S, IsFiniteSet(S), OnlyCandidate(S) # None
    PROVE  S = {OnlyCandidate(S)}
<1>1. Cardinality(S) = 1 /\ OnlyCandidate(S) = CHOOSE p \in S : TRUE
  BY DEF OnlyCandidate
<1>2. PICK x : S = {x}
  BY <1>1, FS_Singleton
<1> QED
  BY <1>1, <1>2

(***************************************************************************)
(* Every step keeps the agreement of rows, purchases and intents with the  *)
(* provider.                                                               *)
(***************************************************************************)
LEMMA ProviderStep == ASSUME TypeInv, LeaseInv, ProviderInv, [Next]_vars PROVE ProviderInv'
<1>s. /\ status \in [Purchases -> PurchaseStatus] /\ intent \in [Purchases -> IntentStatus]
      /\ submitted \subseteq Purchases /\ None \notin Purchases /\ None \notin Auths
  BY CardConstants DEF TypeInv, TypeOK, CardConstants
<1>a. /\ bound \in [Purchases -> Auths \cup {None}] /\ due \subseteq Auths
      /\ provider \in [Auths -> {"none", "requested", "pending", "declined", "closed", "reversed"}]
      /\ row \in [Auths -> Row] /\ row' \in [Auths -> Row]
      /\ DOMAIN charge = Auths /\ \A a \in Auths : DOMAIN charge[a] = {"purchase", "amount"}
  BY TypeStep DEF TypeInv, TypeOK
<1>n. near \in [Auths -> SUBSET Purchases]
  BY DEF TypeInv, TypeOK
<1>f. IsFiniteSet(Purchases)
  BY CardConstants DEF CardConstants
<1>c. \A a \in Auths : OnlyCandidate(Awaiting(a)) # None =>
          Awaiting(a) = {OnlyCandidate(Awaiting(a))} /\ OnlyCandidate(Awaiting(a)) \in Purchases
  <2> SUFFICES ASSUME NEW a \in Auths, OnlyCandidate(Awaiting(a)) # None
               PROVE  Awaiting(a) = {OnlyCandidate(Awaiting(a))}
    BY <1>s DEF Awaiting
  <2>1. IsFiniteSet(Awaiting(a))
    BY <1>s, <1>f, FS_Subset DEF Awaiting
  <2> QED
    BY <2>1, OneCandidate
<1>w. \A w \in Executors : pc[w] # "idle" => task[w].purchase \in Purchases
  BY DEF TypeInv, TasksHeld
<1>r. \A p \in Purchases :
          /\ status[p] \notin PastCheckpoint \/ request[p] # "none" => p \notin submitted
          /\ Exposed(p) => p \in submitted
  BY <1>s DEF LeaseInv, Leased, Entered, Exposed, PastCheckpoint
<1>1. ASSUME NEW p \in Purchases, Evaluate(p)
      PROVE  ProviderInv'
  BY <1>1, <1>s, <1>a, <1>w, <1>r
  DEF Evaluate, ProviderInv, Recorded, Evidence, Refused,
       OutcomeIsProviders, Charged, BindingFaithful, Timely,
       PastCheckpoint
<1>2. ASSUME NEW p \in Purchases, Create(p)
      PROVE  ProviderInv'
  BY <1>2, <1>s, <1>a, <1>w, <1>r
  DEF Create, ProviderInv, Recorded, Evidence, Refused, OutcomeIsProviders,
       Charged, BindingFaithful, Timely, PastCheckpoint
<1>3. ASSUME NEW p \in Purchases, NEW vote \in {"APPROVE", "REJECT"}, Decide(p, vote)
      PROVE  ProviderInv'
  BY <1>3, <1>s, <1>a, <1>w, <1>r
  DEF Decide, ProviderInv, Recorded, Evidence, Refused, OutcomeIsProviders,
       Charged, BindingFaithful, Timely, PastCheckpoint
<1>4. ASSUME NEW p \in Purchases, Resume(p)
      PROVE  ProviderInv'
  BY <1>4
  DEF Resume, ProviderInv, Recorded, Evidence, Refused, OutcomeIsProviders,
       Charged, BindingFaithful, Timely
<1>5. ASSUME NEW p \in Purchases, ResumeWrite(p)
      PROVE  ProviderInv'
  <2>1. Recorded'
    BY <1>5, <1>s, <1>a, <1>w, <1>r
    DEF ResumeWrite, MoveIntent, ProviderInv, Recorded, Row, NoRow
  <2>2. Evidence'
    <3>1. \A q \in submitted : status'[q] = status[q]
      BY <1>5, <1>s, <1>r DEF ResumeWrite, PastCheckpoint
    <3> QED
      BY <1>5, <1>s, <3>1 DEF ResumeWrite, ProviderInv, Evidence, Refused
  <2>3. OutcomeIsProviders'
    <3>1. UNCHANGED <<bound, provider>>
      BY <1>5 DEF ResumeWrite, provision, executors
    <3>2. \A q \in Purchases : intent'[q] \in {intent[q], "CANCELED"}
      BY <1>5, <1>s DEF ResumeWrite, MoveIntent
    <3> QED
      BY <3>1, <3>2 DEF ProviderInv, OutcomeIsProviders
  <2>4. Charged'
    BY <1>5, <1>s, <1>a, <1>w, <1>r
    DEF ResumeWrite, MoveIntent, ProviderInv, Charged, Recorded
  <2>5. BindingFaithful'
    BY <1>5, <1>s, <1>a, <1>w, <1>r
    DEF ResumeWrite, MoveIntent, ProviderInv, Evidence, Recorded, Charged,
       BindingFaithful, Timely
  <2> QED
    BY <2>1, <2>2, <2>3, <2>4, <2>5 DEF ProviderInv
<1>6. ASSUME NEW p \in Purchases, CancelRead(p)
      PROVE  ProviderInv'
  BY <1>6, <1>s, <1>a, <1>w, <1>r
  DEF CancelRead, ProviderInv, Recorded, Evidence, Refused,
       OutcomeIsProviders, Charged, BindingFaithful, Timely,
       PastCheckpoint
<1>7. ASSUME NEW p \in Purchases, CancelWrite(p)
      PROVE  ProviderInv'
  BY <1>7, <1>s, <1>a, <1>w, <1>r
  DEF CancelWrite, ProviderInv, Recorded, Evidence, Refused,
       OutcomeIsProviders, Charged, BindingFaithful, Timely,
       PastCheckpoint
<1>8. ASSUME NEW p \in Purchases, ExpireIntent(p)
      PROVE  ProviderInv'
  BY <1>8, <1>s, <1>a, <1>w, <1>r
  DEF ExpireIntent, ProviderInv, Recorded, Evidence, Refused,
       OutcomeIsProviders, Charged, BindingFaithful, Timely,
       PastCheckpoint
<1>9. ASSUME NEW p \in Purchases, LeaseExpires(p)
      PROVE  ProviderInv'
  BY <1>9, <1>s, <1>a, <1>w, <1>r
  DEF LeaseExpires, ProviderInv, Recorded, Evidence, Refused,
       OutcomeIsProviders, Charged, BindingFaithful, Timely,
       PastCheckpoint
<1>10. ASSUME NEW w \in Executors, Lease(w)
      PROVE  ProviderInv'
  <2>1. Recorded'
    BY <1>10, <1>s, <1>a, <1>w, <1>r
    DEF Lease, Stale, Leasable, CardFree, ProviderInv, Recorded, Row, NoRow
  <2>2. Evidence'
    <3>1. ASSUME NEW q \in submitted
          PROVE  \/ status'[q] = status[q]
                 \/ status[q] = "EXECUTING" /\ status'[q] \in {"EXECUTING", "REQUIRES_HUMAN"}
      BY <1>10, <1>s, <1>r DEF Lease, Stale, Leasable, PastCheckpoint
    <3> QED
      BY <1>10, <1>s, <3>1 DEF Lease, ProviderInv, Evidence, Refused
  <2>3. OutcomeIsProviders'
    BY <1>10, <1>s, <1>a, <1>w, <1>r
    DEF Lease, Stale, Leasable, CardFree, ProviderInv, Recorded, Evidence,
       OutcomeIsProviders, NoRow
  <2>4. Charged'
    BY <1>10, <1>s, <1>a, <1>w, <1>r
    DEF Lease, Stale, Leasable, CardFree, ProviderInv, Charged, Recorded
  <2>5. BindingFaithful'
    BY <1>10, <1>s, <1>a, <1>w, <1>r
    DEF Lease, Stale, Leasable, CardFree, ProviderInv, Evidence, Recorded,
       Charged, BindingFaithful, Timely
  <2> QED
    BY <2>1, <2>2, <2>3, <2>4, <2>5 DEF ProviderInv
<1>11. ASSUME NEW w \in Executors, Materialize(w)
      PROVE  ProviderInv'
  BY <1>11, <1>s, <1>a, <1>w, <1>r
  DEF Materialize, Goto, ProviderInv, Recorded, Evidence, Refused,
       OutcomeIsProviders, Charged, BindingFaithful, Timely,
       PastCheckpoint
<1>12. ASSUME NEW w \in Executors, Revoke(w)
      PROVE  ProviderInv'
  BY <1>12, <1>s, <1>a, <1>w, <1>r
  DEF Revoke, Release, NoTask, MoveIntent, ProviderInv, Recorded, Evidence,
       Refused, OutcomeIsProviders, Charged, BindingFaithful, Timely,
       PastCheckpoint
<1>13. ASSUME NEW w \in Executors, Validate(w)
      PROVE  ProviderInv'
  BY <1>13, <1>s, <1>a, <1>w, <1>r
  DEF Validate, Goto, ProviderInv, Recorded, Evidence, Refused,
       OutcomeIsProviders, Charged, BindingFaithful, Timely,
       PastCheckpoint
<1>14. ASSUME NEW w \in Executors, Mark(w)
      PROVE  ProviderInv'
  BY <1>14, <1>s, <1>a, <1>w, <1>r
  DEF Mark, Goto, Markable, Holds, ProviderInv, Recorded, Evidence, Refused,
       OutcomeIsProviders, Charged, BindingFaithful, Timely,
       PastCheckpoint
<1>15. ASSUME NEW w \in Executors, Enter(w)
      PROVE  ProviderInv'
  BY <1>15, <1>s, <1>a, <1>w, <1>r
  DEF Enter, Goto, ProviderInv, Recorded, Evidence, Refused,
       OutcomeIsProviders, Charged, BindingFaithful, Timely,
       PastCheckpoint
<1>16. ASSUME NEW w \in Executors, NEW result \in {"CHECKOUT_SUCCEEDED", "CHECKOUT_FAILED", "REQUIRES_HUMAN"},
           NEW seen \in BOOLEAN, Complete(w, result, seen)
      PROVE  ProviderInv'
  BY <1>16, <1>s, <1>a, <1>w, <1>r
  DEF Complete, Release, NoTask, MoveIntent, Results, EffectiveStatus,
       Holds, ProviderInv, Recorded, Evidence, Refused, OutcomeIsProviders,
       Charged, BindingFaithful, Timely, PastCheckpoint
<1>17. ASSUME NEW w \in Executors, Stop(w)
      PROVE  ProviderInv'
  BY <1>17, <1>s, <1>a, <1>w, <1>r
  DEF Stop, Release, NoTask, ProviderInv, Recorded, Evidence, Refused,
       OutcomeIsProviders, Charged, BindingFaithful, Timely,
       PastCheckpoint
<1>18. ASSUME NEW a \in Auths, NEW p \in Purchases \cup {None}, NEW n \in ChargeAmounts, Charge(a, p, n)
      PROVE  ProviderInv'
  BY <1>18, <1>s, <1>a, <1>w, <1>r
  DEF Charge, Exposed, ProviderInv, Recorded, Evidence, Refused,
       OutcomeIsProviders, Charged, BindingFaithful, Timely,
       PastCheckpoint
<1>19. ASSUME NEW a \in Auths, ProviderDeclines(a)
      PROVE  ProviderInv'
  BY <1>19, <1>s, <1>a, <1>w, <1>r
  DEF ProviderDeclines, ProviderInv, Recorded, Evidence, Refused,
       OutcomeIsProviders, Charged, BindingFaithful, Timely,
       PastCheckpoint
<1>20. ASSUME NEW a \in Auths, ProviderFinishes(a)
      PROVE  ProviderInv'
  BY <1>20, <1>s, <1>a, <1>w, <1>r
  DEF ProviderFinishes, ProviderInv, Recorded, Evidence, Refused,
       OutcomeIsProviders, Charged, BindingFaithful, Timely,
       PastCheckpoint
<1>21. ASSUME NEW a \in Auths, RecordAuthorization(a)
      PROVE  ProviderInv'
  <2>1. Recorded'
    BY <1>21, <1>s, <1>a, <1>w, <1>r
    DEF RecordAuthorization, OnlyCandidate, Awaiting, ProviderInv, Recorded,
       Row, NoRow
  <2>2. Evidence'
    <3> DEFINE only == OnlyCandidate(Awaiting(a))
    <3>1. /\ only # None => only \in Purchases /\ bound[only] = None
          /\ bound' = IF only = None THEN bound ELSE [bound EXCEPT ![only] = a]
      BY <1>21, <1>c DEF RecordAuthorization, Awaiting
    <3>2. row[a] = NoRow /\ row' = [row EXCEPT ![a] = row'[a]] /\ row'[a] # NoRow
      BY <1>21, <1>a DEF RecordAuthorization, NoRow
    <3>3. \A b \in Auths : provider[b] \in {"declined", "reversed"} => provider'[b] = provider[b]
      BY <1>21, <1>a DEF RecordAuthorization
    <3> HIDE DEF only
    <3> QED
      BY <1>21, <1>s, <1>a, <3>1, <3>2, <3>3
      DEF RecordAuthorization, Awaiting, ProviderInv, Evidence, Refused
  <2>3. OutcomeIsProviders'
    BY <1>21, <1>s, <1>a, <1>w, <1>r
    DEF RecordAuthorization, OnlyCandidate, Awaiting, ProviderInv, Recorded,
       Evidence, OutcomeIsProviders, NoRow
  <2>4. Charged'
    BY <1>21, <1>s, <1>a, <1>w, <1>r
    DEF RecordAuthorization, OnlyCandidate, Awaiting, ProviderInv, Charged,
       Recorded
  <2>5. BindingFaithful'
    <3> DEFINE candidates == Awaiting(a)
               only == OnlyCandidate(candidates)
    <3>1. /\ only # None => candidates = {only}
          /\ bound' = IF only = None THEN bound ELSE [bound EXCEPT ![only] = a]
      BY <1>21, <1>c DEF RecordAuthorization
    <3>2. row[a] = NoRow /\ provider[a] # "none" /\ UNCHANGED charge
      BY <1>21, <1>a DEF RecordAuthorization
    <3>3. Timely' => Timely
      BY <1>21, <1>a DEF RecordAuthorization, Timely
    <3>4. ASSUME Timely, NEW p \in Purchases, candidates = {p}
          PROVE  charge[a].purchase = p
      <4> DEFINE q == charge[a].purchase
      <4>1. q \in submitted /\ q \in near[a]
        BY <1>s, <1>n, <3>2, <3>4 DEF Timely, ProviderInv, Charged
      <4>2. CASE bound[q] = None
        BY <1>s, <3>4, <4>1, <4>2 DEF Awaiting, ProviderInv, Evidence
      <4>3. CASE bound[q] # None
        <5>1. bound[q] \in Auths /\ row[bound[q]] # NoRow /\ charge[bound[q]].purchase = q
          BY <1>s, <1>a, <3>4, <4>1, <4>3 DEF ProviderInv, Evidence, BindingFaithful
        <5>2. bound[q] = a
          BY <1>s, <4>1, <5>1 DEF ProviderInv, Charged
        <5> QED
          BY <3>2, <5>1, <5>2
      <4> QED
        BY <4>2, <4>3
    <3>5. \A p \in Purchases : bound[p] # a
      BY <3>2, <1>s DEF ProviderInv, Evidence
    <3>6. only # None => only \in Purchases
      BY <1>c
    <3> HIDE DEF candidates, only
    <3>7. ASSUME NEW p \in Purchases, NEW q \in Purchases, bound'[p] # None, bound'[p] = bound'[q]
          PROVE  p = q
      BY <1>a, <3>1, <3>5, <3>6, <3>7 DEF ProviderInv, BindingFaithful
    <3>8. ASSUME Timely', NEW p \in Purchases, bound'[p] # None
          PROVE  charge'[bound'[p]].purchase = p
      BY <1>a, <3>1, <3>2, <3>3, <3>4, <3>6, <3>8 DEF ProviderInv, BindingFaithful
    <3> QED
      BY <3>7, <3>8 DEF BindingFaithful
  <2> QED
    BY <2>1, <2>2, <2>3, <2>4, <2>5 DEF ProviderInv
<1>22. ASSUME NEW a \in Auths, UpdateAuthorization(a)
      PROVE  ProviderInv'
  <2>1. Recorded'
    <3>1. PICK event \in Sent(a) : row' = [row EXCEPT ![a] = event]
      BY <1>22 DEF UpdateAuthorization
    <3> QED
      BY <1>22, <1>a, <3>1, SentRows DEF UpdateAuthorization, ProviderInv, Recorded
  <2>2. Evidence'
    <3>1. PICK event \in Sent(a) : row' = [row EXCEPT ![a] = event]
      BY <1>22 DEF UpdateAuthorization
    <3> QED
      BY <1>22, <1>s, <1>a, <3>1, SentRows DEF UpdateAuthorization, ProviderInv, Evidence, Refused
  <2>3. OutcomeIsProviders'
    BY <1>22, <1>s, <1>a, <1>w, <1>r
    DEF UpdateAuthorization, Sent, ProviderInv, Recorded, Evidence,
       OutcomeIsProviders, NoRow
  <2>4. Charged'
    BY <1>22, <1>s, <1>a, <1>w, <1>r
    DEF UpdateAuthorization, Sent, ProviderInv, Charged, Recorded
  <2>5. BindingFaithful'
    BY <1>22, <1>s, <1>a, <1>w, <1>r
    DEF UpdateAuthorization, Sent, ProviderInv, Evidence, Recorded, Charged,
       BindingFaithful, Timely
  <2> QED
    BY <2>1, <2>2, <2>3, <2>4, <2>5 DEF ProviderInv
<1>23. ASSUME NEW a \in Auths, ReconcileAuthorization(a)
      PROVE  ProviderInv'
  BY <1>23, <1>s, <1>a, <1>w, <1>r
  DEF ReconcileAuthorization, Captured, OpenIntent, MoveIntent, ProviderInv,
       Recorded, Evidence, Refused, OutcomeIsProviders, Charged,
       BindingFaithful, Timely, PastCheckpoint
<1>24. ASSUME NEW mode \in Modes, PutPolicy(mode)
      PROVE  ProviderInv'
  BY <1>24, <1>s, <1>a, <1>w, <1>r
  DEF PutPolicy, CancelsUnsubmitted, ProviderInv, Recorded, Evidence,
       Refused, OutcomeIsProviders, Charged, BindingFaithful, Timely,
       PastCheckpoint
<1>25. ASSUME SetHalted
      PROVE  ProviderInv'
  BY <1>25, <1>s, <1>a, <1>w, <1>r
  DEF SetHalted, ProviderInv, Recorded, Evidence, Refused,
       OutcomeIsProviders, Charged, BindingFaithful, Timely,
       PastCheckpoint
<1>26. CASE UNCHANGED vars
  BY <1>26 DEF vars, ProviderInv, Recorded,
       Evidence, Refused, OutcomeIsProviders, Charged, BindingFaithful,
       Timely
<1>27. ASSUME WindowCloses
      PROVE  ProviderInv'
  BY <1>27 DEF WindowCloses, ProviderInv, Recorded, Evidence, Refused, OutcomeIsProviders,
     Charged, BindingFaithful, Timely
<1> QED
  BY <1>1, <1>2, <1>3, <1>4, <1>5, <1>6, <1>7, <1>8, <1>9, <1>10,
       <1>11, <1>12, <1>13, <1>14, <1>15, <1>16, <1>17, <1>18, <1>19, <1>20,
       <1>21, <1>22, <1>23, <1>24, <1>25, <1>26, <1>27 DEF Next, Purchase, Work,
       Authorize

-----------------------------------------------------------------------------
(* The theorems.                                                           *)

IInv == TypeInv /\ LeaseInv /\ ProviderInv

(***************************************************************************)
(* The invariant holds initially.                                          *)
(***************************************************************************)
LEMMA InitHolds == Init => IInv
<1> SUFFICES ASSUME Init PROVE IInv
    OBVIOUS
<1>1. TypeInv
  <2>1. NoTask \in [purchase : Purchases \cup {None}, token : 0 .. MaxAttempts]
    BY CardConstants DEF CardConstants, NoTask
  <2>2. NoCharge \in [purchase : Purchases \cup {None}, amount : ChargeAmounts \cup {0}]
    BY DEF NoCharge
  <2>3. NoRow \in Row
    BY DEF NoRow, Row
  <2>4. 1 \in 1 .. MaxPolicyVersion /\ 0 \in 0 .. MaxAttempts
    BY CardConstants DEF CardConstants
  <2>5. /\ policy \in [version : 1 .. MaxPolicyVersion, mode : Modes]
        /\ decided \in [Purchases -> 1 .. MaxPolicyVersion]
    BY <2>4 DEF Init, Modes
  <2> QED
    BY <2>1, <2>2, <2>3, <2>4, <2>5 DEF Init, TypeInv, TypeOK, TasksHeld, PurchaseStatus, IntentStatus
<1>2. LeaseInv
  BY DEF Init, LeaseInv, Leased, Entering, Entered, OneLiveExecution
<1>3. ProviderInv
  BY DEF Init, ProviderInv, Recorded, Evidence, OutcomeIsProviders, Charged, BindingFaithful,
     NoRow, NoCharge
<1> QED
  BY <1>1, <1>2, <1>3 DEF IInv

(***************************************************************************)
(* The inductive invariant holds in every state.                           *)
(***************************************************************************)
THEOREM CardInvariant == Spec => []IInv
<1>1. Init => IInv
  BY InitHolds
<1>2. IInv /\ [Next]_vars => IInv'
  BY TypeStep, LeaseStep, ProviderStep DEF IInv
<1> QED
  BY <1>1, <1>2, PTL DEF Spec

(***************************************************************************)
(* Every column, call, executor and provider state is of its type:         *)
(* attempts and leases stay within the executor's limit.                   *)
(***************************************************************************)
THEOREM CardTypes == Spec => []TypeOK
<1>1. IInv => TypeOK
  BY DEF IInv, TypeInv
<1> QED
  BY <1>1, CardInvariant, PTL

(***************************************************************************)
(* However many executors poll, stop and lose answers, and however often   *)
(* leases expire, a purchase's credentials enter a merchant page under one *)
(* lease.                                                                  *)
(***************************************************************************)
THEOREM CredentialsUnderOneLease == Spec => []CredentialsOnce
<1>1. IInv => CredentialsOnce
  BY DEF IInv, LeaseInv, Entered, CredentialsOnce
<1> QED
  BY <1>1, CardInvariant, PTL

(***************************************************************************)
(* At any time one purchase of the card at most is executed under a live   *)
(* lease.                                                                  *)
(***************************************************************************)
THEOREM OneExecutionPerCard == Spec => []OneLiveExecution
<1>1. IInv => OneLiveExecution
  BY DEF IInv, LeaseInv
<1> QED
  BY <1>1, CardInvariant, PTL

(***************************************************************************)
(* Policy changes, halts, revocations and stale leases never take an       *)
(* exposed purchase back; only the provider's refusal makes it a failure.  *)
(***************************************************************************)
THEOREM ExposedIsSettledOrOpen == Spec => []ExposedStaysOpen
<1>1. IInv => ExposedStaysOpen
  BY DEF IInv, LeaseInv, Leased, Entered, PastCheckpoint, ProviderInv, Evidence, Refused, Exposed,
     ExposedStaysOpen
<1> QED
  BY <1>1, CardInvariant, PTL

(***************************************************************************)
(* An intent is settled or failed only as the provider's authorization is, *)
(* in whatever order its events arrive.                                    *)
(***************************************************************************)
THEOREM CardOutcome == Spec => []OutcomeIsProviders
<1>1. IInv => OutcomeIsProviders
  BY DEF IInv, ProviderInv
<1> QED
  BY <1>1, CardInvariant, PTL

(***************************************************************************)
(* No authorization is evidence for two purchases; on a card that only     *)
(* pays purchases, each asked for within the window the code searches, it  *)
(* is the authorization of that purchase.                                  *)
(***************************************************************************)
THEOREM CardBinding == Spec => []BindingFaithful
<1>1. IInv => BindingFaithful
  BY DEF IInv, ProviderInv
<1> QED
  BY <1>1, CardInvariant, PTL

-----------------------------------------------------------------------------
(* Layer 4: money.  What the provider holds or captured is on record as    *)
(* approved, so the sum an approval reads leaves none of it out.           *)

Held == {a \in Auths : provider[a] \in {"pending", "closed"}}
HeldOnRecord == Held \subseteq ApprovedAuths

MoneyInv == HeldOnRecord /\ CardSpendWithinLimit

(***************************************************************************)
(* Sums of charges are finite sums of naturals.                            *)
(***************************************************************************)
LEMMA ChargesAreNatural ==
    ASSUME TypeInv
    PROVE  /\ \A a \in Auths : ChargeAmount[a] \in Nat
           /\ \A S \in SUBSET Auths :
                  IsFiniteSet(S) /\ SumFunctionOnSet(ChargeAmount, S) \in Nat
<1>1. ASSUME NEW a \in Auths PROVE ChargeAmount[a] \in Nat
  <2> DEFINE n == charge[a].amount
  <2>1. charge[a] \in [purchase : Purchases \cup {None}, amount : ChargeAmounts \cup {0}]
    BY DEF TypeInv, TypeOK
  <2>2. n \in ChargeAmounts \cup {0} /\ n = ChargeAmount[a]
    BY <2>1 DEF ChargeAmount
  <2>3. ChargeAmounts \subseteq Nat
    BY CardConstants DEF CardConstants
  <2> HIDE DEF n
  <2> QED
    BY <2>2, <2>3
<1>2. ASSUME NEW S \in SUBSET Auths
      PROVE  IsFiniteSet(S) /\ SumFunctionOnSet(ChargeAmount, S) \in Nat
  <2>1. IsFiniteSet(S)
    BY CardConstants, FS_Subset DEF CardConstants
  <2> QED
    BY <1>1, <2>1, SumNat
<1> QED
  BY <1>1, <1>2

(***************************************************************************)
(* So are those of purchases.                                              *)
(***************************************************************************)
LEMMA ReservedIsNatural ==
    ASSUME NEW S \in SUBSET Purchases
    PROVE  SumFunctionOnSet(Amount, S) \in Nat
BY CardConstants, FS_Subset, SumNat DEF CardConstants

(***************************************************************************)
(* An approval leaves room for everything the provider holds.              *)
(***************************************************************************)
LEMMA ApprovalFits ==
    ASSUME TypeInv, HeldOnRecord, NEW a \in Auths, a \notin Held, NEW p,
           CardApproves(charge[a].amount, p, a)
    PROVE  SumFunctionOnSet(ChargeAmount, Held \cup {a}) <= SpendingLimit
<1> DEFINE Sum(S) == SumFunctionOnSet(ChargeAmount, S)
           others == ApprovedAuths \ {a}
           reserved == SumFunctionOnSet(Amount, {q \in Purchases \ {p} : Reserved(q)})
<1>1. Held \in SUBSET others /\ others \in SUBSET Auths
  BY DEF HeldOnRecord, ApprovedAuths
<1>2. /\ \A x \in Auths : ChargeAmount[x] \in Nat
      /\ \A S \in SUBSET Auths : IsFiniteSet(S) /\ Sum(S) \in Nat
  BY ChargesAreNatural
<1>3. Sum(Held) <= Sum(others)
  BY <1>1, <1>2, SumMonotone
<1>4. Sum(Held \cup {a}) = ChargeAmount[a] + Sum(Held)
  BY <1>1, <1>2, SumAdd
<1>5. charge[a].amount + Sum(others) + reserved <= SpendingLimit
  BY DEF CardApproves
<1>6. reserved \in Nat
  BY ReservedIsNatural
<1>7. ChargeAmount[a] = charge[a].amount
  BY DEF ChargeAmount
<1>8. Sum(Held) \in Nat /\ Sum(others) \in Nat /\ ChargeAmount[a] \in Nat /\ SpendingLimit \in Nat
  BY <1>1, <1>2, CardConstants DEF CardConstants
<1> HIDE DEF Sum, others, reserved
<1>9. Sum(Held \cup {a}) <= SpendingLimit
  BY <1>3, <1>4, <1>5, <1>6, <1>7, <1>8
<1> QED
  BY <1>9 DEF Sum

(***************************************************************************)
(* A step that holds nothing new, of the same amounts, keeps the limit.    *)
(***************************************************************************)
LEMMA NothingNewHeld ==
    ASSUME TypeInv, CardSpendWithinLimit, Held' \subseteq Held,
           \A a \in Held' : charge'[a] = charge[a]
    PROVE  CardSpendWithinLimit'
<1>1. /\ \A a \in Auths : ChargeAmount[a] \in Nat
      /\ \A S \in SUBSET Auths :
             IsFiniteSet(S) /\ SumFunctionOnSet(ChargeAmount, S) \in Nat
  BY ChargesAreNatural
<1>2. Held \in SUBSET Auths /\ Held' \in SUBSET Auths
  BY DEF Held
<1>3. \A a \in Held' : ChargeAmount'[a] = ChargeAmount[a]
  BY <1>2 DEF ChargeAmount
<1>4. SumFunctionOnSet(ChargeAmount', Held') = SumFunctionOnSet(ChargeAmount, Held')
  BY <1>1, <1>2, <1>3, SumSame
<1>5. SumFunctionOnSet(ChargeAmount, Held') <= SumFunctionOnSet(ChargeAmount, Held)
  BY <1>1, <1>2, SumMonotone
<1>6. SumFunctionOnSet(ChargeAmount, Held) <= SpendingLimit
  BY DEF CardSpendWithinLimit, Held
<1>7. SumFunctionOnSet(ChargeAmount', Held') <= SpendingLimit
  <2> DEFINE before == SumFunctionOnSet(ChargeAmount, Held)
             after == SumFunctionOnSet(ChargeAmount, Held')
  <2>1. before \in Nat /\ after \in Nat /\ SpendingLimit \in Nat
    BY <1>1, <1>2, CardConstants DEF CardConstants
  <2> HIDE DEF before, after
  <2>2. after <= SpendingLimit
    BY <1>5, <1>6, <2>1 DEF before, after
  <2> QED
    BY <1>4, <2>2 DEF after
<1> QED
  BY <1>7 DEF CardSpendWithinLimit, Held

(***************************************************************************)
(* Every step keeps what is held on record and within the limit: only      *)
(* recordCardAuthorization adds to it, and what it adds has been checked.  *)
(***************************************************************************)
LEMMA MoneyStep == ASSUME TypeInv, ProviderInv, MoneyInv, [Next]_vars PROVE MoneyInv'
<1>a. /\ charge \in [Auths -> [purchase : Purchases \cup {None}, amount : ChargeAmounts \cup {0}]]
      /\ provider \in [Auths -> {"none", "requested", "pending", "declined", "closed", "reversed"}]
      /\ row \in [Auths -> Row]
  BY DEF TypeInv, TypeOK
<1>k. ASSUME UNCHANGED <<charge, provider, row>> PROVE MoneyInv'
  BY <1>k DEF MoneyInv, HeldOnRecord, Held, ApprovedAuths, CardSpendWithinLimit, ChargeAmount
<1>1. ASSUME NEW p \in Purchases, Purchase(p) PROVE MoneyInv'
  BY <1>1, <1>k DEF Purchase, Evaluate, Create, Decide, Resume, ResumeWrite, CancelRead,
     CancelWrite, ExpireIntent, LeaseExpires
<1>2. ASSUME NEW w \in Executors, Lease(w) \/ Work(w) \/ Stop(w) PROVE MoneyInv'
  BY <1>2, <1>k DEF Lease, Work, Stop, Materialize, Revoke, Validate, Mark, Enter, Complete
<1>3. ASSUME NEW a \in Auths, NEW p \in Purchases \cup {None}, NEW n \in ChargeAmounts, Charge(a, p, n)
      PROVE  MoneyInv'
  <2>1. Held' = Held /\ \A b \in Held : charge'[b] = charge[b]
    BY <1>3, <1>a DEF Charge, Held
  <2>2. HeldOnRecord'
    BY <1>3, <2>1 DEF Charge, MoneyInv, HeldOnRecord, ApprovedAuths
  <2> QED
    BY <2>1, <2>2, NothingNewHeld DEF MoneyInv
<1>4. ASSUME NEW a \in Auths, ProviderDeclines(a) PROVE MoneyInv'
  <2>1. Held' = Held /\ \A b \in Held : charge'[b] = charge[b]
    BY <1>4, <1>a DEF ProviderDeclines, Held
  <2>2. HeldOnRecord'
    BY <1>4, <2>1 DEF ProviderDeclines, MoneyInv, HeldOnRecord, ApprovedAuths
  <2> QED
    BY <2>1, <2>2, NothingNewHeld DEF MoneyInv
<1>5. ASSUME NEW a \in Auths, ProviderFinishes(a) PROVE MoneyInv'
  <2>1. Held' \subseteq Held /\ \A b \in Held : charge'[b] = charge[b]
    BY <1>5, <1>a DEF ProviderFinishes, Held
  <2>2. HeldOnRecord'
    BY <1>5, <2>1 DEF ProviderFinishes, MoneyInv, HeldOnRecord, ApprovedAuths
  <2> QED
    BY <2>1, <2>2, NothingNewHeld DEF MoneyInv
<1>6. ASSUME NEW a \in Auths, RecordAuthorization(a) PROVE MoneyInv'
  <2> DEFINE candidates == Awaiting(a)
             only == OnlyCandidate(candidates)
             approved == /\ Cardinality(candidates) <= 1
                         /\ CardApproves(charge[a].amount, only, a)
                         /\ only # None => Amount[only] = charge[a].amount
  <2>1. /\ provider[a] \in {"requested", "declined"} /\ row[a] = NoRow
        /\ row' = [row EXCEPT ![a] = IF approved THEN [status |-> "APPROVED", approved |-> TRUE]
                                     ELSE [status |-> "DECLINED", approved |-> FALSE]]
        /\ provider' = [provider EXCEPT ![a] =
                           IF @ = "requested" THEN IF approved THEN "pending" ELSE "declined" ELSE @]
        /\ UNCHANGED charge
    BY <1>6 DEF RecordAuthorization
  <2>2. approved => CardApproves(charge[a].amount, only, a)
    OBVIOUS
  <2> HIDE DEF candidates, only, approved
  <2>3. a \notin Held
    BY <2>1 DEF Held
  <2>4. CASE approved /\ provider[a] = "requested"
    <3>1. Held' = Held \cup {a}
      BY <1>a, <2>1, <2>4 DEF Held
    <3>2. HeldOnRecord'
      BY <1>a, <2>1, <2>4, <3>1 DEF MoneyInv, HeldOnRecord, Held, ApprovedAuths
    <3>3. SumFunctionOnSet(ChargeAmount, Held \cup {a}) <= SpendingLimit
      BY <2>2, <2>3, <2>4, ApprovalFits DEF MoneyInv
    <3>4. ChargeAmount' = ChargeAmount
      BY <2>1 DEF ChargeAmount
    <3>5. CardSpendWithinLimit'
      BY <3>1, <3>3, <3>4 DEF CardSpendWithinLimit, Held
    <3> QED
      BY <3>2, <3>5 DEF MoneyInv
  <2>5. CASE ~(approved /\ provider[a] = "requested")
    <3>1. Held' = Held
      BY <1>a, <2>1, <2>5 DEF Held
    <3>2. HeldOnRecord'
      BY <1>a, <2>1, <2>3, <3>1 DEF MoneyInv, HeldOnRecord, Held, ApprovedAuths
    <3> QED
      BY <2>1, <3>1, <3>2, NothingNewHeld DEF MoneyInv
  <2> QED
    BY <2>4, <2>5
<1>7. ASSUME NEW a \in Auths, UpdateAuthorization(a) PROVE MoneyInv'
  <2>1. PICK event \in Sent(a) : row' = [row EXCEPT ![a] = event]
    BY <1>7 DEF UpdateAuthorization
  <2>2. provider[a] \in {"pending", "closed"} => event.approved /\ event.status \in {"APPROVED", "CLOSED"}
    BY DEF Sent
  <2>3. Held' = Held /\ UNCHANGED charge
    BY <1>7 DEF UpdateAuthorization, Held
  <2>4. HeldOnRecord'
    BY <1>a, <2>1, <2>2, <2>3 DEF MoneyInv, HeldOnRecord, Held, ApprovedAuths
  <2> QED
    BY <2>3, <2>4, NothingNewHeld DEF MoneyInv
<1>8. ASSUME NEW a \in Auths, ReconcileAuthorization(a) PROVE MoneyInv'
  BY <1>8, <1>k DEF ReconcileAuthorization
<1>9. ASSUME NEW mode \in Modes, PutPolicy(mode) PROVE MoneyInv'
  BY <1>9, <1>k DEF PutPolicy
<1>10. ASSUME SetHalted PROVE MoneyInv'
  BY <1>10, <1>k DEF SetHalted
<1>11. CASE UNCHANGED vars
  BY <1>11, <1>k DEF vars
<1>12. ASSUME WindowCloses PROVE MoneyInv'
  BY <1>12, <1>k DEF WindowCloses
<1> QED
  BY <1>1, <1>2, <1>3, <1>4, <1>5, <1>6, <1>7, <1>8, <1>9, <1>10, <1>11, <1>12 DEF Next, Authorize

(***************************************************************************)
(* The money held or captured on a card stays within its spending limit,   *)
(* however many purchases were evaluated at once, whatever else the card   *)
(* pays and in whatever order events arrive: the sum each approval reads   *)
(* (card-authorization-service.ts) covers everything the provider holds.   *)
(***************************************************************************)
THEOREM CardLimit == Spec => []CardSpendWithinLimit
<1>1. Init => MoneyInv
  <2> SUFFICES ASSUME Init PROVE MoneyInv
    OBVIOUS
  <2>1. Held = {}
    BY DEF Init, Held
  <2>2. SumFunctionOnSet(ChargeAmount, {}) = 0 /\ SpendingLimit \in Nat
    BY SumEmpty, CardConstants DEF CardConstants
  <2> QED
    BY <2>1, <2>2 DEF MoneyInv, HeldOnRecord, Held, CardSpendWithinLimit
<1>2. IInv /\ MoneyInv /\ [Next]_vars => MoneyInv'
  BY MoneyStep DEF IInv
<1>3. MoneyInv => CardSpendWithinLimit
  BY DEF MoneyInv
<1> QED
  BY <1>1, <1>2, <1>3, CardInvariant, PTL DEF Spec
=============================================================================
