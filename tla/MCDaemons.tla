------------------------------ MODULE MCDaemons -------------------------------
(* Daemons for TLC.  No symmetry: the runs check liveness, and its users     *)
(* and notifications are told apart by it.                                   *)
EXTENDS Daemons
=============================================================================
