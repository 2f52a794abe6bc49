---------------------------- MODULE MCMooveLink ----------------------------
(* Instances of MooveLink for TLC. *)
EXTENDS MooveLink, TLC

CONSTANTS r1, r2, r3
=============================================================================
