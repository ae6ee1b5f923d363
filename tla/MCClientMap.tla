---------------------------- MODULE MCClientMap ----------------------------
(***************************************************************************)
(* ClientMap with a starting capacity of 2, so that five ids take the table *)
(* through capacities 2, 4 and 8 and back, with collisions and wrap-around *)
(* at each.                                                                *)
(***************************************************************************)
EXTENDS ClientMap

CONSTANTS s1, s2

MCIds == 0..4
MCSocks == {s1, s2}
=============================================================================
