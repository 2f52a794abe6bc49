---------------------------- MODULE MCAutomation ----------------------------
(* Instances of Automation for TLC. *)
EXTENDS Automation

CONSTANTS c1, c2, m1, u1, u2, u3
=============================================================================
