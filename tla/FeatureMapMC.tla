---------------------------- MODULE FeatureMapMC ----------------------------
EXTENDS FeatureMap
Symmetry == Permutations(Frames) \cup Permutations(Points)
=============================================================================
