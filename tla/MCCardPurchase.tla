--------------------------- MODULE MCCardPurchase ---------------------------
(* Instances of CardPurchase for TLC. *)
EXTENDS CardPurchase, TLC

CONSTANTS p1, p2, w1, w2, a1, a2

EqualPurchases == [p \in Purchases |-> 2]

CardSymmetry == Permutations(Executors) \cup Permutations(Auths)

\* Bound: half an hour after a checkpoint counts when the merchant has the
\* credentials and asked for nothing yet.
Late ==
    Len(recent') < Len(recent) =>
        Exposed(Head(recent)) /\ \A a \in Auths : charge[a].purchase # Head(recent)

\* Bound: the card has a second purchase or other charges, not both.
OnlyPurchases == \A a \in Auths : provider[a] # "none" => charge[a].purchase # None
Separately == OnlyPurchases \/ (request[p2] = "none" /\ status[p2] = "none")

SeparateSpec == Init /\ [][Next /\ Separately' /\ Late]_vars
LateSpec == Init /\ [][Next /\ Late]_vars /\ Fairness
=============================================================================
