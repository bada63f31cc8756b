------------------------------ MODULE MCBricks ------------------------------
(***************************************************************************)
(* Bricks for TLC: up to 60 ranks, with three and more prime factors, and  *)
(* volumes that the grid divides, does not divide, and is too fine for;    *)
(* client jobs smaller and larger than the simulation.                     *)
(***************************************************************************)
EXTENDS BrickRegions

MCVolumes == [Axis -> {2, 4, 9}] \cup {[a \in Axis |-> IF a = 2 THEN 23 ELSE 2]}
=============================================================================
