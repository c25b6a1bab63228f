--------------------------- MODULE MCCommandWorker ---------------------------
(***************************************************************************)
(* CommandWorker for TLC.                                                  *)
(***************************************************************************)
EXTENDS CommandWorker, TLC

Symmetry == Permutations(Runs) \cup Permutations(Workers) \cup Permutations(Outputs)

=============================================================================
