----------------------- MODULE MCLifecycleRefinement ------------------------
(* LifecycleRefinement for TLC: interchangeable session IDs.               *)
EXTENDS LifecycleRefinement

Symmetry == Permutations(UserNames) \union Permutations(Ids)
=============================================================================
