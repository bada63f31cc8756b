------------------------------ MODULE Regions ------------------------------
(***************************************************************************)
(* The M:N assignment of simulation ranks to client ranks that             *)
(* SimulationConnection::query computes on every client rank               *)
(* (is_client.cpp, lines 88-111).  Each client rank evaluates these        *)
(* expressions on its own, so nothing but the arithmetic makes two clients *)
(* agree on who contacts which simulation rank.                            *)
(*                                                                         *)
(* m is the number of simulation ranks (correctedSimSize), n the number of *)
(* client ranks (size).                                                    *)
(***************************************************************************)
EXTENDS Integers, FiniteSets

Smaller(a, b) == IF a <= b THEN a ELSE b

SimsPerClient(m, n) == m \div n

(* Client ranks below the remainder take one more simulation rank.  Mutated *)
(* forms: the remainder is dropped, or the first client rank takes it all. *)
MySimsNoRemainder(m, n, rank) == SimsPerClient(m, n)
MySimsAllToFirst(m, n, rank) ==
  SimsPerClient(m, n) + (IF rank = 0 THEN m % n ELSE 0)
MySims(m, n, rank) ==
  IF (m % n) - rank > 0 THEN SimsPerClient(m, n) + 1 ELSE SimsPerClient(m, n)

(* How many of the extra simulation ranks were given to lower client ranks. *)
ExtraOffset(m, n, rank) == Smaller(rank, m % n)

(* The simulation rank that the i-th entry of the result is fetched from.  *)
(* Mutated form: the remainder is forgotten.                               *)
RegionIdNoOffset(m, n, rank, i) == i + SimsPerClient(m, n) * rank
RegionId(m, n, rank, i) ==
  i + SimsPerClient(m, n) * rank + ExtraOffset(m, n, rank)

(* All simulation ranks that client rank "rank" pings in one query. *)
RegionsOf(m, n, rank) ==
  {RegionId(m, n, rank, i) : i \in 0 .. MySims(m, n, rank) - 1}

-----------------------------------------------------------------------------
(* Every simulation rank is pinged by one client rank and by no other, and *)
(* no client rank pings a rank that does not exist.  handleQuery waits for *)
(* exactly one ping on every simulation rank (is_sim.cpp, lines 277-285),  *)
(* so a rank that nobody pings would block the simulation and a rank that  *)
(* is pinged twice would leave a client waiting.                           *)
Partition(m, n) ==
  /\ \A c \in 0 .. n-1 : RegionsOf(m, n, c) \subseteq 0 .. m-1
  /\ \A s \in 0 .. m-1 : \E c \in 0 .. n-1 : s \in RegionsOf(m, n, c)
  /\ \A c, d \in 0 .. n-1 :
       c # d => RegionsOf(m, n, c) \cap RegionsOf(m, n, d) = {}

(* The shares of two client ranks differ by at most one: README.md says    *)
(* that the remainder is assigned evenly among the clients.                *)
EvenShares(m, n) ==
  \A c, d \in 0 .. n-1 : MySims(m, n, c) - MySims(m, n, d) \in -1 .. 1
=============================================================================
