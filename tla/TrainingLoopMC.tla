--------------------------- MODULE TrainingLoopMC ---------------------------
EXTENDS TrainingLoop, TLC

CONSTANTS short, middle, long

Lengths == (short :> 1) @@ (middle :> 4) @@ (long :> 7)
Symmetry == Permutations(Envs)
=============================================================================
