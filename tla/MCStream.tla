------------------------------ MODULE MCStream ------------------------------
(***************************************************************************)
(* Two messages behind the session key, with binary digits for bytes       *)
(* (MCStream.cfg), or one with ternary digits (MCStreamChunks.cfg), blocks *)
(* of two bytes, and buffers that just hold the key exchange.              *)
(***************************************************************************)
EXTENDS Stream

MCSizes == {0, 3}
=============================================================================
