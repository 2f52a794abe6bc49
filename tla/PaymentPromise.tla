--------------------------- MODULE PaymentPromise ---------------------------
(***************************************************************************)
(* What a payment promises, whoever executes it: its money moves at most   *)
(* once, only after it left the hands of those who may refuse it, and only *)
(* while it is counted against the budget.  PaymentIntent implements this. *)
(*                                                                         *)
(* A cancellation may overtake a payment under way (the cancel route does  *)
(* not look again); of such a payment only the first promise is left.      *)
(***************************************************************************)
CONSTANTS
    Payments,
    Payloads,       \* what can be signed for a payment
    Nobody,
    Honest          \* does whoever is paid say what became of the payload?

VARIABLES
    phase,          \* of each payment
    counted,        \* payments counted against the budget
    moved,          \* the payment whose money a payload moved
    overtaken       \* payments canceled under way

promised == <<phase, counted, moved, overtaken>>

Moved == {p \in Payments : \E x \in Payloads : moved[x] = p}

Init ==
    /\ phase = [p \in Payments |-> "new"]
    /\ counted = {}
    /\ moved = [x \in Payloads |-> Nobody]
    /\ overtaken = {}

Become(p, next) == phase' = [phase EXCEPT ![p] = next]

-----------------------------------------------------------------------------
Promise(p) ==
    /\ phase[p] = "new"
    /\ Become(p, "open")
    /\ counted' = counted \cup {p}
    /\ UNCHANGED <<moved, overtaken>>

Deny(p) ==
    /\ phase[p] = "new"
    /\ Become(p, "refused")
    /\ UNCHANGED <<counted, moved, overtaken>>

Start(p) ==
    /\ phase[p] = "open"
    /\ p \in counted
    /\ Become(p, "working")
    /\ UNCHANGED <<counted, moved, overtaken>>

\* The money moves; nobody may know yet, or ever.
Move(x, p) ==
    /\ phase[p] \notin {"new", "open"}
    /\ moved[x] = Nobody
    /\ p \notin Moved
    /\ Honest => p \in counted \/ p \in overtaken
    /\ moved' = [moved EXCEPT ![x] = p]
    /\ UNCHANGED <<phase, counted, overtaken>>

Settle(p) ==
    /\ phase[p] = "working"
    /\ p \in counted
    /\ Honest => p \in Moved
    /\ Become(p, "settled")
    /\ UNCHANGED <<counted, moved, overtaken>>

\* Given up for good: the budget returns, and so the money may not move,
\* unless whoever holds the payload lies about it.
GiveUp(p) ==
    /\ phase[p] \in {"open", "working"}
    /\ Honest \/ phase[p] = "open" => p \notin Moved
    /\ Become(p, "refused")
    /\ counted' = counted \ {p}
    /\ UNCHANGED <<moved, overtaken>>

\* Given up on conflicting evidence: the budget does not return.
GiveUpInDoubt(p) ==
    /\ phase[p] = "working"
    /\ Become(p, "refused")
    /\ UNCHANGED <<counted, moved, overtaken>>

Overtake(p) ==
    /\ phase[p] \notin {"new", "open"}
    /\ Become(p, "refused")
    /\ counted' \in {counted, counted \ {p}}
    /\ overtaken' = overtaken \cup {p}
    /\ UNCHANGED moved

\* What becomes of an overtaken payment's rows is anybody's guess.
Unruly(p) ==
    /\ p \in overtaken
    /\ \E next \in {"working", "settled", "refused"} : Become(p, next)
    /\ counted' \in {counted \cup {p}, counted \ {p}}
    /\ UNCHANGED <<moved, overtaken>>

Next ==
    \E p \in Payments :
        \/ Promise(p) \/ Deny(p) \/ Start(p) \/ Settle(p)
        \/ GiveUp(p) \/ GiveUpInDoubt(p) \/ Overtake(p) \/ Unruly(p)
        \/ \E x \in Payloads : Move(x, p)

Spec == Init /\ [][Next]_promised
=============================================================================
