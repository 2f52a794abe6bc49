------------------------------ MODULE CrossChain ------------------------------
(***************************************************************************)
(* Cross-chain transfers (dashboard/src/domain/cross-chain-service.ts): a  *)
(* quote's transaction is exported to a wallet, its hash is reported, and  *)
(* passes of the maintenance route verify it on the source chain and       *)
(* follow it to the destination.  A pass works on what it read at first.   *)
(*                                                                         *)
(* The wallet, the chains and the route provider are external.             *)
(***************************************************************************)
EXTENDS Naturals, FiniteSets

CONSTANTS
    Transfers,      \* one for each quote
    Hashes,         \* source transactions
    RequestOf,      \* the transfer whose exported transaction a hash carries
    Calls,          \* requests that report a hash
    Passes,         \* of reconcileCrossChainTransfers
    Null,           \* a null column
    Limit,          \* transfers a pass takes
    MaxMisreads     \* bound: reads of a chain or of the provider that fail

ASSUME TransferConstants ==
    /\ IsFiniteSet(Transfers)
    /\ RequestOf \in [Hashes -> Transfers \cup {Null}]
    /\ Null \notin Transfers \cup Hashes
    /\ Limit \in Nat \ {0} /\ MaxMisreads \in Nat

VARIABLES
    status,         \* CrossChainTransfer.status, "none" before the row
    hash,           \* sourceTransactionHash
    verified,       \* transfers with a sourceVerifiedAt
    older,          \* the order of the rows by updatedAt: <<t, u>> when t's is before u's
    call,           \* what each request read: the hash it brings, for which transfer
    pass,           \* the transfers a pass still works on, as it read them
    mapped,         \* what a pass made of the provider's status, until it is written
    source,         \* the source chain's word on a transaction
    route,          \* the provider's and the destination chain's
    answered,       \* the requests answered
    misreads,
    replaced,       \* transfers whose hash was replaced by another
    unheard         \* transfers given up because a chain could not be asked

transferRows == <<status, hash, verified, older>>
world == <<source, route>>
history == <<answered, misreads, replaced, unheard>>
transferVars == <<transferRows, call, pass, mapped, world, history>>

-----------------------------------------------------------------------------
Final == {"DESTINATION_CONFIRMED", "FAILED", "REFUNDED"}
Status == {"none", "AWAITING_SIGNATURE", "SUBMITTED", "BRIDGING"} \cup Final
Route == {"unknown", "pending", "landed", "short", "failed", "refunded"}
Snapshot == [transfer : Transfers, hash : Hashes, verified : BOOLEAN, place : Nat]
Rows == {t \in Transfers : status[t] # "none"}

TransferTypeOK ==
    /\ status \in [Transfers -> Status]
    /\ hash \in [Transfers -> Hashes \cup {Null}]
    /\ verified \subseteq Rows
    /\ older \subseteq Rows \X Rows
    /\ \A t, u \in Rows : t # u => <<t, u>> \in older \/ <<u, t>> \in older
    /\ \A t, u, v \in Rows : /\ <<t, t>> \notin older
                             /\ <<t, u>> \in older /\ <<u, v>> \in older => <<t, v>> \in older
    /\ call \in [Calls -> [transfer : Rows, hash : Hashes] \cup {Null}]
    /\ answered \subseteq Calls
    /\ pass \in [Passes -> SUBSET Snapshot]
    /\ mapped \in [Passes -> Status \cup {Null}]
    /\ source \in [Hashes -> {"absent", "success", "failed"}]
    /\ route \in [Hashes -> Route]
    /\ misreads \in 0 .. MaxMisreads
    /\ replaced \subseteq Rows /\ unheard \subseteq Rows

\* createCrossChainQuote has stored a quote for each transfer, ACTIVE until a
\* hash is reported.
TransferInit ==
    /\ status = [t \in Transfers |-> "none"]
    /\ hash = [t \in Transfers |-> Null]
    /\ verified = {}
    /\ older = {}
    /\ call = [c \in Calls |-> Null]
    /\ pass = [p \in Passes |-> {}]
    /\ mapped = [p \in Passes |-> Null]
    /\ source = [h \in Hashes |-> "absent"]
    /\ route = [h \in Hashes |-> "unknown"]
    /\ answered = {} /\ misreads = 0 /\ replaced = {} /\ unheard = {}

\* An update of the row makes it the youngest.
Touch(t) == older' = {e \in older : e[1] # t} \cup ((Rows \ {t}) \X {t})

-----------------------------------------------------------------------------
(* The routes.                                                             *)

\* prepareCrossChainTransfer; to repeat it changes nothing.  It never happens
\* when the quote expires or the kill switch is on first.
Prepare(t) ==
    /\ status[t] = "none"
    /\ status' = [status EXCEPT ![t] = "AWAITING_SIGNATURE"]
    /\ Touch(t)
    /\ UNCHANGED <<hash, verified, call, pass, mapped, world, history>>

Submittable == {"AWAITING_SIGNATURE", "SUBMITTED", "BRIDGING"}

\* recordCrossChainSubmission reads the transfer ...
SubmitRead(c) ==
    /\ call[c] = Null /\ c \notin answered
    /\ \E t \in Transfers, h \in Hashes :
           /\ hash[t] \in {Null, h}
           /\ status[t] \in Submittable
           /\ call' = [call EXCEPT ![c] = [transfer |-> t, hash |-> h]]
    /\ UNCHANGED <<transferRows, pass, mapped, world, history>>

\* ... and writes it, by id, whatever another request or a pass wrote since.
SubmitWrite(c) ==
    LET t == call[c].transfer IN
    /\ call[c] # Null
    /\ status' = [status EXCEPT ![t] = "SUBMITTED"]
    /\ hash' = [hash EXCEPT ![t] = call[c].hash]
    /\ replaced' = IF hash[t] \in {Null, call[c].hash} THEN replaced ELSE replaced \cup {t}
    /\ Touch(t)
    /\ call' = [call EXCEPT ![c] = Null]
    /\ answered' = answered \cup {c}
    /\ UNCHANGED <<verified, pass, mapped, world, misreads, unheard>>

-----------------------------------------------------------------------------
(* reconcileCrossChainTransfers.                                           *)

\* Mutant: what was verified is not followed.
OnlySubmitted == {"SUBMITTED"}
Followed == {"SUBMITTED", "BRIDGING"}

\* What a pass finds, its oldest rows, and what it keeps of each.
Due == {t \in Transfers : status[t] \in Followed /\ hash[t] # Null}
Place(t) == Cardinality({u \in Due : <<u, t>> \in older})
Read(t) == [transfer |-> t, hash |-> hash[t], verified |-> t \in verified, place |-> Place(t)]

Select(p) ==
    /\ pass[p] = {} /\ Due # {}
    /\ pass' = [pass EXCEPT ![p] = {Read(t) : t \in {u \in Due : Place(u) < Limit}}]
    /\ UNCHANGED <<transferRows, call, mapped, world, history>>

\* A pass takes its rows in their order.
Working(p) == pass[p] # {} /\ mapped[p] = Null
Current(p) == CHOOSE s \in pass[p] : \A o \in pass[p] : s.place <= o.place
Done(p) == pass' = [pass EXCEPT ![p] = @ \ {Current(p)}]

Give(t, next) ==
    /\ status' = [status EXCEPT ![t] = next]
    /\ Touch(t)

\* Mutant: a transaction that succeeded is taken for the exported one.
AnySuccess(t, h) == TRUE
Matches(t, h) == RequestOf[h] = t

\* verifySourceTransaction, and the update that follows.  The read of the row
\* is not repeated.
VerifySource(p) ==
    LET s == Current(p)
        t == s.transfer
    IN /\ Working(p) /\ ~s.verified
       /\ CASE source[s.hash] = "absent" ->
                   Done(p) /\ UNCHANGED <<status, verified, older>>
            [] source[s.hash] = "success" /\ Matches(t, s.hash) ->
                   /\ Give(t, "BRIDGING")
                   /\ verified' = verified \cup {t}
                   /\ pass' = [pass EXCEPT ![p] = (@ \ {s}) \cup {[s EXCEPT !.verified = TRUE]}]
            [] OTHER -> Give(t, "FAILED") /\ Done(p) /\ UNCHANGED verified
       /\ UNCHANGED <<hash, call, mapped, world, history>>

\* The provider's status, checked with the destination chain when it is DONE:
\* "short" is a receipt that failed or paid less than promised.
Mapped(r) == CASE r = "landed" -> "DESTINATION_CONFIRMED"
               [] r = "pending" -> "BRIDGING"
               [] r = "refunded" -> "REFUNDED"
               [] OTHER -> "FAILED"

ReadRoute(p) ==
    LET s == Current(p) IN
    /\ Working(p) /\ s.verified
    /\ IF route[s.hash] = "unknown" THEN Done(p) /\ UNCHANGED mapped
       ELSE mapped' = [mapped EXCEPT ![p] = Mapped(route[s.hash])] /\ UNCHANGED pass
    /\ UNCHANGED <<transferRows, call, world, history>>

WriteStatus(p) ==
    /\ mapped[p] # Null
    /\ Give(Current(p).transfer, mapped[p])
    /\ mapped' = [mapped EXCEPT ![p] = Null]
    /\ Done(p)
    /\ UNCHANGED <<hash, verified, call, world, history>>

\* A read fails.  An HTTP error leaves the transfer for the next pass, an
\* exception of fetch (a timeout, say) does so only when the provider is asked;
\* of a chain it is taken for a verdict.
ReadFails(p) ==
    LET s == Current(p)
        t == s.transfer
        asked == IF ~s.verified THEN "source"
                 ELSE IF route[s.hash] \in {"landed", "short"} THEN "destination" ELSE "provider"
    IN /\ Working(p)
       /\ misreads < MaxMisreads
       /\ misreads' = misreads + 1 /\ UNCHANGED answered
       /\ \/ Done(p) /\ UNCHANGED <<status, older, unheard>>
          \/ /\ pass' = [pass EXCEPT ![p] = {}]
             /\ s.verified
             /\ UNCHANGED <<status, older, unheard>>
          \/ /\ asked # "provider"
             /\ Give(t, "FAILED") /\ Done(p)
             /\ unheard' = unheard \cup {t}
       /\ UNCHANGED <<hash, verified, call, mapped, world, replaced>>

-----------------------------------------------------------------------------
(* The wallet, the chains, the provider, time.                             *)

\* A transaction is confirmed on the source chain.
Include(h) ==
    /\ source[h] = "absent"
    /\ RequestOf[h] # Null => status[RequestOf[h]] # "none"
    /\ source' = [source EXCEPT ![h] = "success"] \/ source' = [source EXCEPT ![h] = "failed"]
    /\ UNCHANGED <<transferRows, call, pass, mapped, route, history>>

Bridge(h) ==
    /\ source[h] = "success" /\ RequestOf[h] # Null
    /\ \/ route[h] = "unknown" /\ route' = [route EXCEPT ![h] = "pending"]
       \/ route[h] = "pending" /\ \E r \in {"landed", "short", "failed", "refunded"} :
                                      route' = [route EXCEPT ![h] = r]
    /\ UNCHANGED <<transferRows, call, pass, mapped, source, history>>

Work(p) == Select(p) \/ VerifySource(p) \/ ReadRoute(p) \/ WriteStatus(p)

TransferNext ==
    \/ \E t \in Transfers : Prepare(t)
    \/ \E c \in Calls : SubmitRead(c) \/ SubmitWrite(c)
    \/ \E p \in Passes : Work(p) \/ ReadFails(p)
    \/ \E h \in Hashes : Include(h) \/ Bridge(h)

TransferSpec == TransferInit /\ [][TransferNext]_transferVars

\* The maintenance route runs for ever, requests to their end, and a route
\* that was entered comes to an end.
TransferFairSpec ==
    /\ TransferSpec
    /\ \A p \in Passes : WF_transferVars(Work(p))
    /\ \A c \in Calls : WF_transferVars(SubmitWrite(c))
    /\ \A h \in Hashes : WF_transferVars(Bridge(h))

-----------------------------------------------------------------------------
(* Properties.                                                             *)

(***************************************************************************)
(* A confirmed transfer's reported transaction is the one exported for it, *)
(* and what it was to move has landed; a failed one's was refused by the   *)
(* source chain, the route or the destination.  Passes overlap, and write  *)
(* what they read before: only a hash that replaced another, or a chain    *)
(* that could not be asked, breaks this.                                   *)
(***************************************************************************)
Lost(t) ==
    LET h == hash[t] IN
    source[h] = "failed" \/ RequestOf[h] # t \/ route[h] \in {"short", "failed"}

OutcomeIsEvidence ==
    \A t \in Transfers \ replaced :
        /\ status[t] = "DESTINATION_CONFIRMED" => RequestOf[hash[t]] = t /\ route[hash[t]] = "landed"
        /\ status[t] = "REFUNDED" => route[hash[t]] = "refunded"
        /\ status[t] = "FAILED" => Lost(t) \/ t \in unheard

(***************************************************************************)
(* Liveness: a reported transaction whose route came to an end gives its   *)
(* transfer an end, unless the hash is replaced, or another transfer of    *)
(* which the chain or the provider knows nothing stays at the head of      *)
(* every pass (it is never updated, so it is the oldest).                  *)
(***************************************************************************)
Stuck(t) ==
    /\ status[t] \in Followed
    /\ IF t \in verified THEN route[hash[t]] = "unknown" ELSE source[hash[t]] = "absent"

TransferEnds ==
    \A t \in Transfers, h \in Hashes :
        \/ []<>(\E u \in Transfers \ {t} : Stuck(u))
        \/ (hash[t] = h /\ route[h] \in Route \ {"unknown", "pending"})
               ~> (status[t] \in Final \/ hash[t] # h)
=============================================================================
