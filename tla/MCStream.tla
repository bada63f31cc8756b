------------------------------ MODULE MCStream ------------------------------
(***************************************************************************)
(* SocketStream for TLC: an int, an empty array, the rest of a region, and *)
(* an int again, over buffers smaller than a message.                      *)
(***************************************************************************)
EXTENDS SocketStream

MCStart == <<0, 2, 2, 6, 8>>
=============================================================================
