---------------------------- MODULE BrickRegions ----------------------------
(***************************************************************************)
(* The ranks of a simulation, each with the brick of Bricks, and a client  *)
(* job whose ranks divide these bricks by the arithmetic of Regions.  The  *)
(* two jobs are started apart, so that any two sizes may meet; a client    *)
(* job larger than the simulation is included.                             *)
(***************************************************************************)
EXTENDS Bricks, Regions

CONSTANT ClientSizes    \* numbers of ranks of client jobs

ASSUME ClientSizesAssumption == ClientSizes \subseteq Positive

(* Every rank of the simulation that has its brick is pinged by one client *)
(* rank and by no other, and no client rank pings a rank that does not     *)
(* exist.  handleQuery waits for exactly one ping on every rank            *)
(* (is_sim.cpp, lines 277-285): a rank that nobody pings would block the   *)
(* simulation, and one that is pinged twice leave a client waiting.        *)
EveryRankPingedOnce ==
  pc = "done" => \A n \in ClientSizes :
    LET Pings(c) == mpi_rank \in RegionsOf(mpi_size, n, c) IN
      /\ \E c \in 0 .. n-1 : Pings(c)
      /\ \A c, d \in 0 .. n-1 : Pings(c) /\ Pings(d) => c = d
      /\ \A c \in 0 .. n-1 :
           RegionsOf(mpi_size, n, c) \subseteq 0 .. mpi_size-1

(* No client rank receives two bricks more than another (README.md,        *)
(* "remainder bricks assigned evenly").                                    *)
RemainderSpreadEvenly ==
  pc = "done" => \A n \in ClientSizes : EvenShares(mpi_size, n)
=============================================================================
