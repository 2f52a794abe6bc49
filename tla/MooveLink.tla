------------------------------ MODULE MooveLink ------------------------------
(***************************************************************************)
(* A Moove payment link for an invoice (dashboard/src/domain/              *)
(* moove-receive-service.ts): a request creates it, requests with the same *)
(* key, refreshes and reconciliations read what the provider says and      *)
(* store it, each some time after they read it.  The sweep of overdue      *)
(* invoices (invoice-service.ts) writes them in the same way.              *)
(*                                                                         *)
(* The provider is external: it makes a link per call, tagged with the     *)
(* AP:<id> marker, and completes it when the payer has paid it once.       *)
(***************************************************************************)
EXTENDS Naturals, FiniteSets

CONSTANTS
    Creator,        \* the request that inserts the row
    Readers,        \* refreshes, repeated requests, reconciliations
    Reconcilers,    \* those of the readers that are scheduled for ever
    None,
    MaxFaults       \* bound: calls that fail, requests that die

\* What the provider says of a link.
Record == {"ACTIVE", "COMPLETED", "INACTIVE"}

ASSUME ConstantsAssumption ==
    /\ MaxFaults \in Nat /\ Reconcilers \subseteq Readers /\ Creator \notin Readers
    /\ None \notin Record \cup {"FAILED", "SUBMISSION_UNKNOWN"}

VARIABLES
    local,          \* MoovePaymentLink.providerStatus, "none" before the row
    linked,         \* providerLinkId is set
    invoice,        \* AgentInvoice.status: payable (OVERDUE is), PAID or VOID
    overdue,        \* markOverdueInvoices has found it, and will write OVERDUE
    create,         \* what the creating request is doing
    read,           \* the provider record each reader holds
    provider,       \* the link at the provider
    late,           \* a create call that timed out may still arrive
    faults,
    announced,      \* MOOVE_PAYMENT_COMPLETED events, counted up to 2
    regressed,      \* an older status was written over COMPLETED
    reverted,       \* OVERDUE was written over PAID, and the invoice not paid since
    unsaved         \* the link was made, and its answer not readable or not stored

due == <<overdue, reverted>>
vars == <<local, linked, invoice, due, create, read, provider, late, faults, announced,
          regressed, unsaved>>

-----------------------------------------------------------------------------
Local == Record \cup {"none", "CREATING", "SUBMISSION_UNKNOWN", "FAILED"}
Step == {"insert", "call", "save", "check", "fail", "done"}

TypeOK ==
    /\ local \in Local /\ linked \in BOOLEAN
    /\ invoice \in {"payable", "PAID", "VOID"}
    /\ create \in [at : Step, as : {"FAILED", "SUBMISSION_UNKNOWN", None}]
    /\ read \in [Readers \cup {Creator} -> Record \cup {None}]
    /\ provider \in Record \cup {"none"} /\ late \in BOOLEAN
    /\ faults \in 0 .. MaxFaults
    /\ announced \in 0 .. 2
    /\ regressed \in BOOLEAN /\ unsaved \in BOOLEAN
    /\ overdue \in BOOLEAN /\ reverted \in BOOLEAN

Init ==
    /\ local = "none" /\ linked = FALSE
    /\ invoice = "payable"
    /\ create = [at |-> "insert", as |-> None]
    /\ read = [r \in Readers \cup {Creator} |-> None]
    /\ provider = "none" /\ late = FALSE
    /\ faults = 0
    /\ announced = 0 /\ regressed = FALSE /\ unsaved = FALSE
    /\ overdue = FALSE /\ reverted = FALSE

Goto(step, as) == create' = [at |-> step, as |-> as]

-----------------------------------------------------------------------------
(* createMooveReceivePayment.                                              *)

\* validateReferences saw a payable invoice; it may have changed since.
Insert ==
    /\ create.at = "insert"
    /\ local' = "CREATING"
    /\ Goto("call", None)
    /\ UNCHANGED <<linked, invoice, due, read, provider, late, faults, announced, regressed, unsaved>>

Created ==
    /\ create.at = "call"
    /\ provider' = "ACTIVE"
    /\ Goto("save", None)
    /\ UNCHANGED <<local, linked, invoice, due, read, late, faults, announced, regressed, unsaved>>

\* What the catch block takes a failed call for: only a MooveProviderError
\* can be ambiguous.  Mutant: no failure is.
NothingAmbiguous(how) == "FAILED"
FailureStatus(how) == IF how \in {"lost", "late"} THEN "SUBMISSION_UNKNOWN" ELSE "FAILED"

\* The call is refused, its answer lost or not readable, or it is late.
CallFails ==
    /\ create.at = "call"
    /\ faults < MaxFaults
    /\ faults' = faults + 1
    /\ \E how \in {"refused", "lost", "unreadable", "late"} :
           /\ provider' = IF how \in {"lost", "unreadable"} THEN "ACTIVE" ELSE provider
           /\ late' = (how = "late")
           /\ unsaved' = (how = "unreadable")
           /\ Goto("check", FailureStatus(how))
    /\ UNCHANGED <<local, linked, invoice, due, read, announced, regressed>>

LateArrival ==
    /\ late
    /\ late' = FALSE
    /\ provider' = "ACTIVE"
    /\ UNCHANGED <<local, linked, invoice, due, create, read, faults, announced, regressed, unsaved>>

\* The id is stored, by the row's id.  (markInvoicePending changes payable
\* invoices among themselves.)  Then the record is read.
Save ==
    /\ create.at = "save"
    /\ linked' = TRUE
    /\ local' = "ACTIVE"
    /\ regressed' = (regressed \/ local = "COMPLETED")
    /\ read' = [read EXCEPT ![Creator] = provider]
    /\ Goto("done", None)
    /\ UNCHANGED <<invoice, due, provider, late, faults, announced, unsaved>>

\* The update fails: that is no MooveProviderError.
SaveFails ==
    /\ create.at = "save"
    /\ faults < MaxFaults
    /\ faults' = faults + 1
    /\ unsaved' = TRUE
    /\ Goto("check", "FAILED")
    /\ UNCHANGED <<local, linked, invoice, due, read, provider, late, announced, regressed>>

\* alreadyCreated: somebody else may have recovered the link.
AlreadyCreated == linked

Check ==
    /\ create.at = "check"
    /\ IF AlreadyCreated THEN Goto("done", None) ELSE Goto("fail", create.as)
    /\ UNCHANGED <<local, linked, invoice, due, read, provider, late, faults, announced,
                   regressed, unsaved>>

\* By the row's id.  An ambiguous failure goes on to recoverByMarker.
Fail ==
    /\ create.at = "fail"
    /\ local' = create.as
    /\ regressed' = (regressed \/ linked)
    /\ read' = [read EXCEPT ![Creator] =
                    IF create.as = "SUBMISSION_UNKNOWN" /\ provider # "none" THEN provider ELSE @]
    /\ Goto("done", None)
    /\ UNCHANGED <<linked, invoice, due, provider, late, faults, announced, unsaved>>

Die ==
    /\ create.at \notin {"insert", "done"}
    /\ faults < MaxFaults
    /\ faults' = faults + 1
    /\ Goto("done", None)
    /\ UNCHANGED <<local, linked, invoice, due, read, provider, late, announced, regressed, unsaved>>

-----------------------------------------------------------------------------
(* Readers.                                                                *)

\* Rows that a reconciliation looks at; it finds the link by its id or by its
\* marker, as a repeated request does (recoverByMarker).  Mutant: rows whose
\* creation was cut off are left out.
WithoutCreating == {"ACTIVE", "SUBMISSION_UNKNOWN", "INACTIVE"}
Reconcilable == {"CREATING", "ACTIVE", "SUBMISSION_UNKNOWN", "INACTIVE"}

Reconcile(r) ==
    /\ read[r] = None
    /\ local \in Reconcilable
    /\ provider # "none"
    /\ read' = [read EXCEPT ![r] = provider]
    /\ UNCHANGED <<local, linked, invoice, due, create, provider, late, faults, announced,
                   regressed, unsaved>>

\* getMooveReceivePayment with refresh: any linked row that has not failed.
Refresh(r) ==
    /\ read[r] = None
    /\ linked /\ local # "FAILED"
    /\ read' = [read EXCEPT ![r] = provider]
    /\ UNCHANGED <<local, linked, invoice, due, create, provider, late, faults, announced,
                   regressed, unsaved>>

\* Mutant: each time the provider says so.
Whenever(status) == status = "COMPLETED"
CompletedNow(status) == status = "COMPLETED" /\ local # "COMPLETED"

\* An invoice that is not payable any more, unless it is paid, takes the whole
\* transaction back.  Mutant: the row is stored all the same.
NoConflict == FALSE
Conflict == invoice \notin {"payable", "PAID"}

\* A payment made again is not reverted any more.
SetInvoice(status) == invoice' = status /\ reverted' = (reverted /\ status # "PAID")

\* applyProviderRecord: the row, the invoice and the event in one transaction,
\* under a lock of the link; what the row says is not compared with the record.
Apply(r) ==
    LET status == read[r] IN
    /\ status # None
    /\ read' = [read EXCEPT ![r] = None]
    /\ IF CompletedNow(status) /\ Conflict
       THEN UNCHANGED <<local, linked, invoice, reverted, announced, regressed>>
       ELSE /\ local' = status
            /\ linked' = TRUE
            /\ regressed' = (regressed \/ (local = "COMPLETED" /\ status # "COMPLETED"))
            /\ IF CompletedNow(status)
               THEN /\ SetInvoice(IF invoice = "payable" THEN "PAID" ELSE invoice)
                    /\ announced' = IF announced < 2 THEN announced + 1 ELSE 2
               ELSE UNCHANGED <<invoice, reverted, announced>>
    /\ UNCHANGED <<overdue, create, provider, late, faults, unsaved>>

\* The transaction fails, or the reader dies.
ApplyFails(r) ==
    /\ read[r] # None
    /\ faults < MaxFaults
    /\ faults' = faults + 1
    /\ read' = [read EXCEPT ![r] = None]
    /\ UNCHANGED <<local, linked, invoice, due, create, provider, late, announced, regressed,
                   unsaved>>

-----------------------------------------------------------------------------
(* The provider, and the other ways an invoice ends.                       *)

Complete ==
    /\ provider = "ACTIVE"
    /\ provider' = "COMPLETED"
    /\ UNCHANGED <<local, linked, invoice, due, create, read, late, faults, announced,
                   regressed, unsaved>>

\* The link expires; a payment on its way still completes it.
Deactivate ==
    /\ provider = "ACTIVE"
    /\ provider' = "INACTIVE"
    /\ UNCHANGED <<local, linked, invoice, due, create, read, late, faults, announced,
                   regressed, unsaved>>

CompleteLate ==
    /\ provider = "INACTIVE"
    /\ provider' = "COMPLETED"
    /\ UNCHANGED <<local, linked, invoice, due, create, read, late, faults, announced,
                   regressed, unsaved>>

\* The void route, the owner's deletion, or a payment through the collect route.
EndInvoice ==
    /\ invoice = "payable"
    /\ \E status \in {"PAID", "VOID"} : SetInvoice(status)
    /\ UNCHANGED <<local, linked, overdue, create, read, provider, late, faults, announced,
                   regressed, unsaved>>

\* markOverdueInvoices: the invoices past their date are read ...
FindOverdue ==
    /\ ~overdue /\ invoice = "payable"
    /\ overdue' = TRUE
    /\ UNCHANGED <<local, linked, invoice, reverted, create, read, provider, late, faults,
                   announced, regressed, unsaved>>

\* ... and written by id, whatever they are by now: payable again.
WriteOverdue ==
    /\ overdue
    /\ overdue' = FALSE
    /\ invoice' = "payable"
    /\ reverted' = (reverted \/ invoice = "PAID")
    /\ UNCHANGED <<local, linked, create, read, provider, late, faults, announced, regressed,
                   unsaved>>

Proceed == Created \/ Save \/ Check \/ Fail

Next ==
    \/ Insert \/ Proceed \/ CallFails \/ LateArrival \/ SaveFails \/ Die
    \/ \E r \in Readers : Reconcile(r) \/ Refresh(r)
    \/ \E r \in Readers \cup {Creator} : Apply(r) \/ ApplyFails(r)
    \/ Complete \/ Deactivate \/ CompleteLate
    \/ EndInvoice \/ FindOverdue \/ WriteOverdue

Spec == Init /\ [][Next]_vars

\* Requests run to their end, and the cron route reconciles for ever.
FairSpec ==
    /\ Spec
    /\ WF_vars(Proceed) /\ WF_vars(LateArrival)
    /\ \A r \in Reconcilers : WF_vars(Reconcile(r))
    /\ \A r \in Readers \cup {Creator} : WF_vars(Apply(r))

-----------------------------------------------------------------------------
(* Properties.                                                             *)

(***************************************************************************)
(* A link is stored as completed only when the payer has paid it, with its *)
(* announcement and its invoice's payment; only the overdue sweep takes    *)
(* the invoice back out of PAID, which it read before it was paid.         *)
(***************************************************************************)
CompletionIsWhole ==
    local = "COMPLETED" => /\ provider = "COMPLETED" /\ announced > 0
                           /\ invoice = "PAID" \/ reverted

(***************************************************************************)
(* A completed payment is announced once, however refreshes, repeated      *)
(* requests and reconciliations overlap, unless an older record, or the    *)
(* creating request, was written over the completed row.                   *)
(***************************************************************************)
AnnouncedOnce == announced > 1 => regressed

(***************************************************************************)
(* A link stored as failed cannot be paid (nobody looks at it any more),   *)
(* unless the provider made it and its answer was not readable or not      *)
(* stored, or another reader recovered it just before the failure.         *)
(***************************************************************************)
FailedIsNotPayable == local = "FAILED" => provider = "none" \/ unsaved \/ regressed

(***************************************************************************)
(* Liveness: whatever was lost when it was made, a link that the payer has *)
(* paid ends as completed and stays so, unless its invoice was voided or   *)
(* it was taken for failed.                                                *)
(***************************************************************************)
PaymentArrives ==
    provider = "COMPLETED" ~>
        \/ [](local = "COMPLETED")
        \/ invoice = "VOID"
        \/ local = "FAILED"
=============================================================================
