------------------------------ MODULE MCClient ------------------------------
(***************************************************************************)
(* One client, its handle thread and two application threads that may be   *)
(* in any two calls at a time.                                             *)
(***************************************************************************)
EXTENDS Client

CONSTANTS u1, u2

OneUser == {u1}
TwoUsers == {u1, u2}
=============================================================================
