------------------------------ MODULE MCServer ------------------------------
(***************************************************************************)
(* One server, its serve thread, one or two application threads and one or *)
(* two connections.                                                        *)
(***************************************************************************)
EXTENDS Server

CONSTANTS u1, u2, c1, c2

OneUser == {u1}
TwoUsers == {u1, u2}
OneConn == {c1}
TwoConns == {c1, c2}

AllCalls == {"stop", "remove", "send", "free"}
StopOnly == {"stop"}
SendOnly == {"send"}
StopRemove == {"stop", "remove"}
=============================================================================
