------------------------------ MODULE MCLibIS ------------------------------
(***************************************************************************)
(* LibIS for TLC.  Client jobs are interchangeable: nothing in the code    *)
(* depends on a port name.                                                 *)
(***************************************************************************)
EXTENDS Broadcasts, TLC

ClientSymmetry == Permutations(Clients)
=============================================================================
