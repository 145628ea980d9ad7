----------------------------- MODULE MCIpcCalls -----------------------------
(* IpcCalls for TLC: interchangeable calls and session IDs.  The run that  *)
(* checks liveness does not use the symmetry.                              *)
EXTENDS IpcCalls

Symmetry == Permutations(Callers) \union Permutations(Ids)
=============================================================================
