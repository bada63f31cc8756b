------------------------------- MODULE Bricks -------------------------------
(***************************************************************************)
(* How the example simulations divide their domain over the ranks:         *)
(* compute_grid, which finds a grid with one cell per rank, the cell of a  *)
(* rank, and load_raw_volume, which reads the brick of the rank in chunks  *)
(* of whole X-Y slices because MPI counts are ints.  All bricks have the   *)
(* same size, so all ranks make the same number of collective reads; the   *)
(* module follows one rank.  A slice of the brick is named by its z, in    *)
(* the brick or in the file.                                               *)
(***************************************************************************)
EXTENDS Integers

CONSTANTS
  Sizes,     \* numbers of ranks
  Volumes,   \* dimensions of volumes: functions from the axes
  Limit      \* elements_per_read

Axis == 0 .. 2
Positive == Nat \ {0}
ASSUME BricksAssumption ==
  /\ Sizes \subseteq Positive
  /\ Volumes \subseteq [Axis -> Positive]
  /\ Limit \in Positive

VARIABLES
  mpi_size, mpi_rank, volume_dims,   \* the input
  pc,                  \* "grid", "load", "read", "done" or "crashed"
  num, axis, grid,     \* compute_grid
  chunk, voxel_data    \* load_raw_volume: the slices read into the brick

input == <<mpi_size, mpi_rank, volume_dims>>
gridVars == <<num, axis, grid>>
vars == <<input, pc, gridVars, chunk, voxel_data>>

Init ==
  /\ mpi_size \in Sizes /\ mpi_rank \in 0 .. mpi_size - 1
  /\ volume_dims \in Volumes
  /\ pc = "grid" /\ num = mpi_size /\ axis = 0 /\ grid = [a \in Axis |-> 1]
  /\ chunk = 0 /\ voxel_data = <<>>

-----------------------------------------------------------------------------
(* compute_divisor finds the smallest one. *)
Divisors(x) == {i \in 2 .. x : i * i <= x /\ x % i = 0}
Multiplied(d) == [grid EXCEPT ![axis] = @ * d]

Divide ==
  /\ pc = "grid"
  /\ \E d \in Divisors(num) :
       /\ \A e \in Divisors(num) : d <= e
       /\ grid' = Multiplied(d)
       /\ num' = num \div d
  /\ axis' = (axis + 1) % 3
  /\ UNCHANGED <<input, pc, chunk, voxel_data>>

(* What is left when there is no divisor. *)
LastFactor == num
FinishGrid ==
  /\ pc = "grid" /\ Divisors(num) = {}
  /\ grid' = Multiplied(LastFactor)
  /\ pc' = "load"
  /\ UNCHANGED <<input, num, axis, chunk, voxel_data>>

(* The cell of rank r.  Mutated form: the third line of cells is taken for *)
(* another layer.                                                          *)
BrickIdByX(r, g) == <<r % g[0], (r \div g[0]) % g[1], r \div g[0]>>
BrickId(r, g) == <<r % g[0], (r \div g[0]) % g[1], r \div (g[0] * g[1])>>

BrickDims == [a \in Axis |-> volume_dims[a] \div grid[a]]
Lower == BrickId(mpi_rank, grid)[3] * BrickDims[2]
SliceVoxels == BrickDims[0] * BrickDims[1]
Thick == BrickDims[2]

-----------------------------------------------------------------------------
CeilDiv(a, b) == a \div b + (IF a % b > 0 THEN 1 ELSE 0)
(* Mutated form: rounded down. *)
FullReads ==
  IF SliceVoxels * Thick < Limit THEN 1 ELSE (SliceVoxels * Thick) \div Limit
NumChunks == CeilDiv(SliceVoxels * Thick, Limit)
ChunkThickness == Thick \div NumChunks

Zeros == -1    \* a slice that was not read

(* Nothing comes of a brick without voxels but a division by zero.         *)
StartLoad ==
  /\ pc = "load"
  /\ voxel_data' = [s \in 0 .. Thick - 1 |-> Zeros]
  /\ pc' = IF NumChunks = 0 THEN "crashed" ELSE "read"
  /\ UNCHANGED <<input, gridVars, chunk>>

(* The chunk that reaches the end of the brick is cut. *)
ChunkDim ==
  LET first == chunk * ChunkThickness IN
  IF first + ChunkThickness >= Thick THEN Thick - first ELSE ChunkThickness

(* Mutated form: every chunk is read from the start of the brick. *)
BrickOffset == Lower
ChunkOffset == Lower + chunk * ChunkThickness
Reads == pc = "read" /\ chunk < NumChunks /\ ChunkThickness > 0
ReadChunk ==
  /\ Reads
  /\ voxel_data' = [s \in DOMAIN voxel_data |->
       LET k == s - chunk * ChunkThickness IN
       IF k \in 0 .. ChunkDim - 1 THEN ChunkOffset + k ELSE voxel_data[s]]
  /\ chunk' = chunk + 1
  /\ UNCHANGED <<input, pc, gridVars>>

(* A slice larger than a read: more chunks than slices, and a chunk of no  *)
(* slice is no subarray for MPI, which ends the job.                       *)
EmptyChunk ==
  /\ pc = "read" /\ ChunkThickness = 0
  /\ pc' = "crashed"
  /\ UNCHANGED <<input, gridVars, chunk, voxel_data>>

Loaded ==
  /\ pc = "read" /\ chunk = NumChunks
  /\ pc' = "done"
  /\ UNCHANGED <<input, gridVars, chunk, voxel_data>>

Stopped == pc \in {"done", "crashed"} /\ UNCHANGED vars
Next ==
  \/ Divide \/ FinishGrid \/ StartLoad \/ ReadChunk \/ EmptyChunk \/ Loaded
  \/ Stopped
Spec == Init /\ [][Next]_vars

-----------------------------------------------------------------------------
(* The grid of compute_grid has one cell for every rank, for every number  *)
(* of ranks, and every rank has a cell of its own in it.                   *)
Cells(g) == (0 .. g[0]-1) \X (0 .. g[1]-1) \X (0 .. g[2]-1)
GridHasOneCellPerRank ==
  pc # "grid" =>
    /\ grid[0] * grid[1] * grid[2] = mpi_size
    /\ \A r \in 0 .. mpi_size - 1 : BrickId(r, grid) \in Cells(grid)
    /\ \A r, s \in 0 .. mpi_size - 1 :
         BrickId(r, grid) = BrickId(s, grid) => r = s

(* Every slice that a chunk reads is that of the volume at this place of  *)
(* the rank's brick and of no other, in whatever number of chunks; and a   *)
(* brick whose slices the chunks divide evenly is complete in the end.     *)
(* (Of another brick the last slices are never read; the example is meant  *)
(* to send the volume, and the last chunk to take what is left.)           *)
InPlace(s) == voxel_data[s] = Lower + s
SlicesInPlace ==
  pc = "read" \/ pc = "done" =>
    /\ DOMAIN voxel_data = 0 .. Thick - 1
    /\ \A s \in DOMAIN voxel_data : s < chunk * ChunkThickness => InPlace(s)
    /\ pc = "done" /\ Thick % NumChunks = 0 => \A s \in DOMAIN voxel_data : InPlace(s)

(* "we have to split reads of large data up so the count doesn't overflow" *)
(* (volume_example_sim.cpp, lines 216-217): no read counts more than fits, *)
(* none writes past the end of voxel_data, none reads past that of the     *)
(* file.                                                                   *)
CountsFit ==
  Reads =>
    /\ ChunkDim > 0 /\ ChunkDim * SliceVoxels <= Limit
    /\ chunk * ChunkThickness + ChunkDim <= Thick
    /\ Lower + Thick <= volume_dims[2]
=============================================================================
