-------------------------- MODULE MCSessionTracking -------------------------
(* SessionTracking for TLC: interchangeable users and session IDs.         *)
EXTENDS SessionTracking

Symmetry == Permutations(UserNames) \union Permutations(Ids)
=============================================================================
