--------------------------- MODULE MCMasumiEscrow ---------------------------
(* Two requests or sweeps at a time: what one has read the other overtakes. *)
EXTENDS MasumiEscrow, TLC

WorkerSymmetry == Permutations(Workers)
=============================================================================
