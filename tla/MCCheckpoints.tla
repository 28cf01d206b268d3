--------------------------- MODULE MCCheckpoints ---------------------------
(* Checkpoints on small instances.                                         *)
EXTENDS Checkpoints, TLC

Symmetry == Permutations(Proc) \cup Permutations(File) \cup Permutations(Blob)
              \cup Permutations(SafetyCp)
=============================================================================
