--------------------------- MODULE MCFiatTransfer ---------------------------
(* Instances of FiatTransfer for TLC. *)
EXTENDS FiatTransfer, TLC

CONSTANTS c1, c2, k1, h1, a1

Once(b) == IF b THEN 1 ELSE 0

\* Bound: in one behaviour, two faults or changes of the kill switch, or one
\* fault and a movement that is returned.  A movement that is canceled, one
\* that starts as PENDING, and totals of the account written by others (while
\* one request and the sweep are at work) come without them.
Accounted == foreseen \/ total[a1] # None
Unusual == faults + stops + (1 + stops) * Once(external = "RETURNED")
           + 2 * Once(external = "CANCELED") + 2 * Once(first = "PENDING") + 2 * Once(Accounted)
Apart == Unusual <= 2 /\ (Accounted => call[c2] = Idle)
ApartSpec == Init /\ [][Next /\ Apart']_vars /\ Fairness
=============================================================================
