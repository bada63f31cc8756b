----------------------------- MODULE MCTransfer -----------------------------
(***************************************************************************)
(* Transfer for TLC, with ranges of 4 for the flag and of 8 for an int, so *)
(* that arrays of 4 to 7 bytes are negative counts and one of 8 is 0.      *)
(***************************************************************************)
EXTENDS Transfer

MCStride == [UINT8 |-> 1, FLOAT |-> 4]
=============================================================================
