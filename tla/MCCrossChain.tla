---------------------------- MODULE MCCrossChain ----------------------------
(* Instances of CrossChain for TLC. *)
EXTENDS CrossChain, TLC

CONSTANTS t1, t2, a, x

\* A transaction that was exported for the first transfer, and another one.
Carried == (a :> t1) @@ (x :> Null)
=============================================================================
