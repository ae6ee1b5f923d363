----------------------------- MODULE ClientDict -----------------------------
(***************************************************************************)
(* What the server needs of its client map (src/src/map.h): a partial      *)
(* function from client ids to sockets.  Nothing is said of slots, hashes  *)
(* or capacities; module ClientMap is shown to implement this one.         *)
(*                                                                         *)
(* ret is the outcome of the last call, <<operation, id, value>>.          *)
(***************************************************************************)
EXTENDS Integers, FiniteSets, Sequences, Functions

CONSTANTS Ids,      \* client ids (size_t)
          Socks,    \* CDTPSocket pointers
          NULL      \* the null pointer

VARIABLES dict,     \* id -> socket
          ret

vars == <<dict, ret>>

Init == /\ dict = [i \in {} |-> NULL]
        /\ ret = <<"new", 0, NULL>>

(* _cdtp_client_map_set: an id that is present keeps its socket. *)
Set(i, s) ==
  \/ /\ i \in DOMAIN dict
     /\ ret' = <<"set", i, FALSE>>
     /\ UNCHANGED dict
  \/ /\ i \notin DOMAIN dict
     /\ dict' = [j \in DOMAIN dict \cup {i} |-> IF j = i THEN s ELSE dict[j]]
     /\ ret' = <<"set", i, TRUE>>

(* _cdtp_client_map_pop *)
Pop(i) ==
  \/ /\ i \in DOMAIN dict
     /\ ret' = <<"pop", i, dict[i]>>
     /\ dict' = [j \in DOMAIN dict \ {i} |-> dict[j]]
  \/ /\ i \notin DOMAIN dict
     /\ ret' = <<"pop", i, NULL>>
     /\ UNCHANGED dict

(* _cdtp_client_map_get *)
Get(i) ==
  /\ ret' = <<"get", i, IF i \in DOMAIN dict THEN dict[i] ELSE NULL>>
  /\ UNCHANGED dict

(* _cdtp_client_map_contains *)
Contains(i) ==
  /\ ret' = <<"contains", i, i \in DOMAIN dict>>
  /\ UNCHANGED dict

(* _cdtp_client_map_iter: a list with every entry once, in some order. *)
Iter ==
  /\ ret'[1] = "iter"
  /\ Len(ret'[3]) = Cardinality(DOMAIN dict)
  /\ Range(ret'[3]) = {<<i, dict[i]>> : i \in DOMAIN dict}
  /\ UNCHANGED dict

Next == \/ \E i \in Ids, s \in Socks : Set(i, s)
        \/ \E i \in Ids : Pop(i) \/ Get(i) \/ Contains(i)
        \/ Iter

Spec == Init /\ [][Next]_vars
=============================================================================
