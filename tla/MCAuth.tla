------------------------------- MODULE MCAuth --------------------------------
(* A small instance of AuthSessions. *)
EXTENDS AuthSessions, TLC

Symmetry == Permutations(Requests)
==============================================================================
