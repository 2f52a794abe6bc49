------------------------------ MODULE MCOutbox ------------------------------
(* Instances of Outbox for TLC. *)
EXTENDS Outbox, TLC

CONSTANTS n1, n2, w1, w2

\* Bound: one open event at a time (two events share no row; passes of closed
\* ones may still be at work).
OneOpen == Cardinality(written \ (processed \cup dead)) <= 1
OneOpenSpec == Init /\ [][Next /\ OneOpen']_vars /\ Fairness
=============================================================================
