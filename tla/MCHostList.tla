----------------------------- MODULE MCHostList -----------------------------
(***************************************************************************)
(* HostList for TLC: up to 2 hosts with names of up to 3 characters, in    *)
(* bytes of 4 values and words of 2 bytes, so that sizes take two bytes.   *)
(***************************************************************************)
EXTENDS HostList

MCHostLists ==
  LET Names == UNION {[1 .. n -> {1, 3}] : n \in 0 .. 3}
  IN UNION {[1 .. n -> Names] : n \in 0 .. 2}
=============================================================================
