------------------------------ MODULE MCConsole ------------------------------
(* Console for TLC: interchangeable administrators and overrides.  Nothing  *)
(* is claimed of users who are raced: once all are, no more steps are taken. *)
EXTENDS Console

Symmetry == Permutations(Admins) \union Permutations(Keys)

NotAllRaced == raced # UserNames
=============================================================================
