---------------------------- MODULE MCConfigApply ----------------------------
EXTENDS ConfigApply, TLC

Symmetry == Permutations(Requests)
=============================================================================
