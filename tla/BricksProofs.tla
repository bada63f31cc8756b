---------------------------- MODULE BricksProofs ----------------------------
(***************************************************************************)
(* Bricks for every number of ranks, every volume and every limit of a     *)
(* read: compute_grid ends with one cell per rank, the cells of two ranks  *)
(* differ, and the chunks that are read lie in the brick, are no larger    *)
(* than a read may be, and go where they belong.                           *)
(***************************************************************************)
EXTENDS BrickRegions, TLAPS

-----------------------------------------------------------------------------
(* Multiplication by a natural number preserves the order. *)
LEMMA TimesMonotone ==
  ASSUME NEW a \in Nat, NEW b \in Int, NEW c \in Int, b <= c
  PROVE  a * b <= a * c
<1>1. c - b \in Nat
  OBVIOUS
<1>2. a * (c - b) \in Nat
  BY <1>1
<1>3. a * (c - b) = a * c - a * b
  OBVIOUS
<1> QED
  BY <1>2, <1>3

(* And a positive factor can be cancelled. *)
LEMMA CancelFactor ==
  ASSUME NEW a \in Positive, NEW b \in Int, NEW c \in Int, a * b <= a * c
  PROVE  b <= c
<1> SUFFICES ASSUME c < b PROVE FALSE
  OBVIOUS
<1>1. a \in Nat /\ a >= 1 /\ c + 1 \in Int /\ c + 1 <= b
  BY DEF Positive
<1>2. a * (c + 1) <= a * b
  BY <1>1, TimesMonotone
<1>3. a * (c + 1) = a * c + a
  BY <1>1
<1>4. a * c \in Int /\ a * b \in Int
  BY <1>1
<1> QED
  BY <1>1, <1>2, <1>3, <1>4

(* What a division leaves, and that it is the only way to divide. *)
LEMMA Division ==
  ASSUME NEW m \in Nat, NEW n \in Positive
  PROVE  /\ m \div n \in Nat
         /\ m % n \in 0 .. n-1
         /\ m = n * (m \div n) + (m % n)
BY DEF Positive

LEMMA DivisionUnique ==
  ASSUME NEW n \in Positive, NEW q \in Nat, NEW r \in 0 .. n-1
  PROVE  (n * q + r) \div n = q
<1> DEFINE m == n * q + r
           p == m \div n
<1>0. n \in Nat /\ n >= 1
  BY DEF Positive
<1>1. m \in Nat
  <2>1. n * q \in Nat
    BY <1>0
  <2> QED
    BY <2>1
<1>2. p \in Nat /\ m % n \in 0 .. n-1 /\ m = n * p + (m % n)
  BY <1>1, Division
<1>3. n * p \in Int /\ n * q \in Int
  BY <1>0, <1>2
<1>4. CASE p < q
  <2>1. n * (p + 1) <= n * q
    BY <1>0, <1>2, <1>4, TimesMonotone
  <2>2. n * (p + 1) = n * p + n
    BY <1>0, <1>2
  <2> QED
    BY <1>0, <1>2, <1>3, <2>1, <2>2
<1>5. CASE q < p
  <2>1. n * (q + 1) <= n * p
    BY <1>0, <1>2, <1>5, TimesMonotone
  <2>2. n * (q + 1) = n * q + n
    BY <1>0, <1>2
  <2> QED
    BY <1>0, <1>2, <1>3, <2>1, <2>2
<1> QED
  BY <1>2, <1>4, <1>5

(* The product of three factors takes a divisor in any of them. *)
LEMMA MultiplyOne ==
  ASSUME NEW a \in Nat, NEW b \in Nat, NEW c \in Nat, NEW d \in Nat, NEW e \in Nat
  PROVE  /\ (a * d) * b * c * e = a * b * c * (d * e)
         /\ a * (b * d) * c * e = a * b * c * (d * e)
         /\ a * b * (c * d) * e = a * b * c * (d * e)
OBVIOUS

-----------------------------------------------------------------------------
(* The number of a rank is composed of the three numbers of its cell, each *)
(* within its dimension.                                                   *)
LEMMA RankOfCell ==
  ASSUME NEW a \in Positive, NEW b \in Positive, NEW c \in Positive,
         NEW r \in 0 .. a * b * c - 1
  PROVE  /\ r % a \in 0 .. a - 1
         /\ (r \div a) % b \in 0 .. b - 1
         /\ r \div (a * b) \in 0 .. c - 1
         /\ r = (a * b) * (r \div (a * b)) + a * ((r \div a) % b) + (r % a)
<1> DEFINE x == r % a
           q == r \div a
           y == q % b
           z == q \div b
<1>0. a \in Nat /\ b \in Nat /\ c \in Nat /\ a >= 1 /\ b >= 1 /\ c >= 1
  BY DEF Positive
<1>1. a * b \in Positive /\ a * b \in Nat /\ (a * b) * c \in Nat
  BY <1>0 DEF Positive
<1>2. r \in Nat /\ r < (a * b) * c
  BY <1>0, <1>1
<1>3. q \in Nat /\ x \in 0 .. a - 1 /\ r = a * q + x
  BY <1>2, Division
<1>4. z \in Nat /\ y \in 0 .. b - 1 /\ q = b * z + y
  BY <1>3, Division
<1> HIDE DEF x, q, y, z
<1>5. a * q = (a * b) * z + a * y
  BY <1>0, <1>4
<1>6. a * y + x \in 0 .. a * b - 1
  <2>1. a * y <= a * (b - 1)
    BY <1>0, <1>4, TimesMonotone
  <2>2. a * (b - 1) = a * b - a
    BY <1>0
  <2>3. a * y \in Nat /\ a * b \in Nat
    BY <1>0, <1>4
  <2> QED
    BY <1>0, <1>3, <2>1, <2>2, <2>3
<1>7. /\ (a * b) * z \in Nat /\ a * y \in Nat
      /\ r = (a * b) * z + (a * y + x)
  BY <1>0, <1>3, <1>4, <1>5
<1>8. r \div (a * b) = z
  BY <1>1, <1>4, <1>6, <1>7, DivisionUnique
<1>9. z <= c - 1
  <2> SUFFICES ASSUME c <= z PROVE FALSE
    BY <1>0, <1>4
  <2>1. (a * b) * c <= (a * b) * z
    BY <1>0, <1>1, <1>4, TimesMonotone
  <2> QED
    BY <1>1, <1>2, <1>6, <1>7, <2>1
<1>10. z \in 0 .. c - 1
  BY <1>0, <1>4, <1>9
<1>11. r = (a * b) * z + a * y + x
  BY <1>3, <1>7
<1> QED
  BY <1>3, <1>4, <1>8, <1>10, <1>11 DEF x, y, q

-----------------------------------------------------------------------------
(* compute_grid: the dimensions of the grid and the rest that is still to  *)
(* be divided always multiply to the number of ranks.                      *)
TypeInv ==
  /\ mpi_size \in Positive /\ mpi_rank \in 0 .. mpi_size - 1
  /\ volume_dims \in [Axis -> Positive]
  /\ pc \in {"grid", "load", "read", "done", "crashed"}
  /\ num \in Positive /\ axis \in Axis /\ grid \in [Axis -> Positive]
Cell == grid[0] * grid[1] * grid[2]
ProductInv ==
  /\ pc = "grid" => Cell * num = mpi_size
  /\ pc # "grid" => Cell = mpi_size
GridInv == TypeInv /\ ProductInv

(* One dimension of the grid is multiplied, and with it the product. *)
LEMMA MultipliedCell ==
  ASSUME NEW d \in Positive, grid \in [Axis -> Positive], axis \in Axis,
         grid' = Multiplied(d)
  PROVE  /\ grid' \in [Axis -> Positive]
         /\ Cell' = Cell * d
<1>0. d \in Nat /\ d >= 1 /\ grid[0] \in Nat /\ grid[1] \in Nat /\ grid[2] \in Nat
      /\ grid[0] >= 1 /\ grid[1] >= 1 /\ grid[2] >= 1
  BY DEF Axis, Positive
<1>1. grid[axis] * d \in Positive
  <2>1. grid[axis] \in Nat /\ grid[axis] >= 1
    BY DEF Positive
  <2>2. grid[axis] * 1 <= grid[axis] * d
    BY <1>0, <2>1, TimesMonotone
  <2>3. grid[axis] * d \in Nat
    BY <1>0, <2>1
  <2> QED
    BY <2>1, <2>2, <2>3 DEF Positive
<1>2. grid' \in [Axis -> Positive]
  BY <1>1 DEF Multiplied
<1>3. CASE axis = 0
  <2>1. grid'[0] = grid[0] * d /\ grid'[1] = grid[1] /\ grid'[2] = grid[2]
    BY <1>3 DEF Multiplied, Axis
  <2> QED
    BY <1>0, <1>2, <2>1 DEF Cell
<1>4. CASE axis = 1
  <2>1. grid'[0] = grid[0] /\ grid'[1] = grid[1] * d /\ grid'[2] = grid[2]
    BY <1>4 DEF Multiplied, Axis
  <2> QED
    BY <1>0, <1>2, <2>1 DEF Cell
<1>5. CASE axis = 2
  <2>1. grid'[0] = grid[0] /\ grid'[1] = grid[1] /\ grid'[2] = grid[2] * d
    BY <1>5 DEF Multiplied, Axis
  <2> QED
    BY <1>0, <1>2, <2>1 DEF Cell
<1> QED
  BY <1>2, <1>3, <1>4, <1>5 DEF Axis

LEMMA GridInitially == Init => GridInv
<1> SUFFICES ASSUME Init PROVE GridInv
  OBVIOUS
<1>1. TypeInv
  BY BricksAssumption DEF Init, TypeInv, Axis, Positive
<1>2. grid[0] = 1 /\ grid[1] = 1 /\ grid[2] = 1 /\ num = mpi_size /\ pc = "grid"
  BY DEF Init, Axis
<1> QED
  BY <1>1, <1>2 DEF GridInv, ProductInv, Cell, TypeInv, Positive

LEMMA GridKept == GridInv /\ [Next]_vars => GridInv'
<1> SUFFICES ASSUME GridInv, [Next]_vars PROVE GridInv'
  OBVIOUS
<1> USE DEF GridInv
<1>1. CASE Divide
  <2>1. PICK d \in Divisors(num) : grid' = Multiplied(d) /\ num' = num \div d
    BY <1>1 DEF Divide
  <2>2. d \in Positive /\ num % d = 0 /\ num \in Nat /\ num >= 1
    BY <2>1 DEF Divisors, Positive, TypeInv
  <2>3. num \div d \in Nat /\ num = d * (num \div d)
    BY <2>2, Division DEF Positive
  <2>4. num' \in Positive
    BY <2>1, <2>2, <2>3 DEF Positive
  <2>5. grid' \in [Axis -> Positive] /\ Cell' = Cell * d
    BY <2>1, <2>2, MultipliedCell DEF TypeInv
  <2>6. TypeInv'
    BY <1>1, <2>4, <2>5 DEF TypeInv, Divide, input, Axis
  <2>7. Cell \in Nat
    BY DEF Cell, TypeInv, Axis, Positive
  <2>8. Cell' * num' = Cell * num
    BY <2>1, <2>2, <2>3, <2>5, <2>7 DEF Positive
  <2> QED
    BY <1>1, <2>6, <2>8 DEF Divide, ProductInv, input
<1>2. CASE FinishGrid
  <2>1. grid' \in [Axis -> Positive] /\ Cell' = Cell * num
    BY <1>2, MultipliedCell DEF FinishGrid, LastFactor, TypeInv
  <2> QED
    BY <1>2, <2>1 DEF FinishGrid, TypeInv, ProductInv, input
<1>3. CASE StartLoad
  BY <1>3 DEF StartLoad, TypeInv, ProductInv, Cell, input, gridVars
<1>4. CASE ReadChunk
  BY <1>4 DEF ReadChunk, TypeInv, ProductInv, Cell, input, gridVars
<1>5. CASE Loaded
  BY <1>5 DEF Loaded, TypeInv, ProductInv, Cell, input, gridVars
<1>6. CASE EmptyChunk
  BY <1>6 DEF EmptyChunk, TypeInv, ProductInv, Cell, input, gridVars
<1>7. CASE UNCHANGED vars
  BY <1>7 DEF TypeInv, ProductInv, Cell, vars, input, gridVars
<1> QED
  BY <1>1, <1>2, <1>3, <1>4, <1>5, <1>6, <1>7 DEF Next, Stopped

LEMMA GridAlways == Spec => []GridInv
BY GridInitially, GridKept, PTL DEF Spec

(* The cell of a rank is in the grid, and two ranks have different cells. *)
LEMMA CellOfRank ==
  ASSUME NEW g \in [Axis -> Positive],
         NEW r \in 0 .. g[0] * g[1] * g[2] - 1
  PROVE  /\ BrickId(r, g)[1] \in 0 .. g[0] - 1
         /\ BrickId(r, g)[2] \in 0 .. g[1] - 1
         /\ BrickId(r, g)[3] \in 0 .. g[2] - 1
         /\ r = (g[0] * g[1]) * BrickId(r, g)[3] + g[0] * BrickId(r, g)[2]
                + BrickId(r, g)[1]
BY RankOfCell DEF BrickId, Axis

(* The domain is divided over all ranks, whatever their number: one cell   *)
(* for every rank, and one rank for every cell (compute_grid in vec.h).    *)
THEOREM OneCellPerRank == Spec => []GridHasOneCellPerRank
<1>1. ASSUME GridInv PROVE GridHasOneCellPerRank
  <2> SUFFICES ASSUME pc # "grid"
               PROVE  /\ Cell = mpi_size
                      /\ \A r \in 0 .. mpi_size - 1 : BrickId(r, grid) \in Cells(grid)
                      /\ \A r, s \in 0 .. mpi_size - 1 :
                           BrickId(r, grid) = BrickId(s, grid) => r = s
    BY DEF GridHasOneCellPerRank, Cell
  <2>1. Cell = mpi_size /\ grid \in [Axis -> Positive]
    BY <1>1 DEF GridInv, TypeInv, ProductInv
  <2>2. ASSUME NEW r \in 0 .. mpi_size - 1 PROVE BrickId(r, grid) \in Cells(grid)
    BY <2>1, <2>2, CellOfRank DEF Cell, Cells, BrickId
  <2>3. ASSUME NEW r \in 0 .. mpi_size - 1, NEW s \in 0 .. mpi_size - 1,
               BrickId(r, grid) = BrickId(s, grid)
        PROVE  r = s
    <3>1. r = (grid[0] * grid[1]) * BrickId(r, grid)[3]
              + grid[0] * BrickId(r, grid)[2] + BrickId(r, grid)[1]
      BY <2>1, CellOfRank DEF Cell
    <3>2. s = (grid[0] * grid[1]) * BrickId(s, grid)[3]
              + grid[0] * BrickId(s, grid)[2] + BrickId(s, grid)[1]
      BY <2>1, CellOfRank DEF Cell
    <3> QED
      BY <2>3, <3>1, <3>2
  <2> QED
    BY <2>1, <2>2, <2>3
<1> QED
  BY <1>1, GridAlways, PTL

-----------------------------------------------------------------------------
(* Rounding up: a quotient that covers what is divided, and no more than   *)
(* any other that does.                                                    *)
LEMMA RoundedUp ==
  ASSUME NEW a \in Nat, NEW n \in Positive
  PROVE  /\ CeilDiv(a, n) \in Nat /\ a <= n * CeilDiv(a, n)
         /\ \A c \in Nat : a <= n * c => CeilDiv(a, n) <= c
<1> DEFINE q == a \div n
           r == a % n
<1>0. n \in Nat /\ n >= 1
  BY DEF Positive
<1>1. q \in Nat /\ r \in 0 .. n - 1 /\ a = n * q + r /\ n \in Nat /\ n >= 1
  BY <1>0, Division
<1>2. CeilDiv(a, n) = IF r > 0 THEN q + 1 ELSE q
  BY <1>1 DEF CeilDiv
<1> HIDE DEF q, r
<1>3. n * (q + 1) = n * q + n /\ n * q \in Nat
  BY <1>1
<1>4. ASSUME NEW c \in Nat, a <= n * c PROVE CeilDiv(a, n) <= c
  <2>1. n * q <= n * c
    BY <1>1, <1>3, <1>4
  <2>2. q <= c
    BY <1>1, <2>1, CancelFactor
  <2>3. CASE r > 0 /\ q = c
    BY <1>1, <1>4, <2>3
  <2> QED
    BY <1>1, <1>2, <2>2, <2>3
<1> QED
  BY <1>1, <1>2, <1>3, <1>4

(* The chunks of a brick: their thickness is positive, they lie in the     *)
(* brick, and each of them is within the limit of a read.                  *)
LEMMA ChunkSizes ==
  ASSUME NEW S \in Nat, NEW T \in Nat, NEW limit \in Positive, NEW n \in Nat,
         n = CeilDiv(S * T, limit), n # 0, T \div n > 0
  PROVE  /\ T \div n \in Positive
         /\ n * (T \div n) <= T
         /\ (T \div n) * S <= limit
<1> DEFINE t == T \div n
<1>0. limit \in Nat /\ limit >= 1 /\ n \in Positive
  BY DEF Positive
<1>1. S * T \in Nat /\ limit * T \in Nat
  BY <1>0
<1>3. S * T <= limit * n
  BY <1>1, RoundedUp
<1>4. t \in Nat /\ T % n \in 0 .. n - 1 /\ T = n * t + (T % n)
  BY <1>0, Division
<1> HIDE DEF t
<1>5. t # 0
  BY DEF t
<1>6. n * t \in Nat /\ n * t <= T
  BY <1>4
<1>7. n * (t * S) <= n * limit
  <2>1. S * (n * t) <= S * T
    BY <1>6, TimesMonotone
  <2>2. S * (n * t) = n * (t * S) /\ limit * n = n * limit
    <3>1. n \in Nat /\ t \in Nat /\ limit \in Nat
      BY <1>0, <1>4
    <3> QED
      BY <3>1
  <2>3. n * (t * S) \in Nat /\ n * limit \in Nat
    BY <1>0, <1>4
  <2> QED
    BY <1>1, <1>3, <2>1, <2>2, <2>3
<1>8. t * S <= limit
  BY <1>0, <1>4, <1>7, CancelFactor
<1> QED
  BY <1>4, <1>5, <1>6, <1>8 DEF t, Positive

(* The size of a brick, and of the reads into it, once the grid is known.  *)
LEMMA BrickSizes ==
  ASSUME TypeInv
  PROVE  /\ SliceVoxels \in Nat /\ Thick \in Nat /\ NumChunks \in Nat
         /\ BrickDims \in [Axis -> Nat]
<1>1. \A a \in Axis : volume_dims[a] \div grid[a] \in Nat
  BY Division DEF TypeInv, Positive
<1>2. BrickDims \in [Axis -> Nat]
  BY <1>1 DEF BrickDims
<1>3. SliceVoxels \in Nat /\ Thick \in Nat
  BY <1>2 DEF SliceVoxels, Thick, Axis
<1>4. SliceVoxels * Thick \in Nat
  BY <1>3
<1> QED
  BY <1>2, <1>3, <1>4, BricksAssumption, RoundedUp DEF NumChunks

(* load_raw_volume: once it reads there are chunks, and if it comes to the *)
(* end each of them had slices.                                            *)
LoadInv ==
  /\ chunk \in Nat
  /\ pc \in {"grid", "load"} => chunk = 0
  /\ pc \in {"read", "done"} => NumChunks # 0 /\ chunk <= NumChunks
  /\ pc = "read" /\ chunk # 0 => ChunkThickness > 0
  /\ pc = "done" => ChunkThickness > 0 /\ chunk = NumChunks
BrickInv == GridInv /\ LoadInv

(* What depends on the input and the grid alone stays once these do. *)
LEMMA SizesStay ==
  ASSUME UNCHANGED input, UNCHANGED gridVars
  PROVE  /\ Thick' = Thick /\ SliceVoxels' = SliceVoxels /\ NumChunks' = NumChunks
         /\ ChunkThickness' = ChunkThickness /\ Lower' = Lower
BY DEF input, gridVars, Thick, SliceVoxels, NumChunks, ChunkThickness, Lower,
       BrickDims, BrickId, CeilDiv

LEMMA BrickInitially == Init => BrickInv
BY GridInitially DEF Init, BrickInv, LoadInv

LEMMA BrickKept == BrickInv /\ [Next]_vars => BrickInv'
<1> SUFFICES ASSUME BrickInv, [Next]_vars PROVE LoadInv'
  BY GridKept DEF BrickInv
<1>1. CASE Divide
  BY <1>1 DEF Divide, BrickInv, LoadInv
<1>2. CASE FinishGrid
  BY <1>2 DEF FinishGrid, BrickInv, LoadInv
<1>3. CASE StartLoad
  BY <1>3, SizesStay, BrickSizes DEF StartLoad, BrickInv, GridInv, LoadInv
<1>4. CASE ReadChunk
  <2>1. NumChunks \in Nat
    BY BrickSizes DEF BrickInv, GridInv
  <2> QED
    BY <1>4, <2>1, SizesStay DEF ReadChunk, Reads, BrickInv, LoadInv
<1>5. CASE Loaded
  BY <1>5, SizesStay, BrickSizes DEF Loaded, BrickInv, GridInv, LoadInv
<1>6. CASE EmptyChunk
  BY <1>6, SizesStay DEF EmptyChunk, BrickInv, LoadInv
<1>7. CASE UNCHANGED vars
  BY <1>7, SizesStay DEF vars, BrickInv, LoadInv
<1> QED
  BY <1>1, <1>2, <1>3, <1>4, <1>5, <1>6, <1>7 DEF Next, Stopped

LEMMA BrickAlways == Spec => []BrickInv
BY BrickInitially, BrickKept, PTL DEF Spec

(* While chunks are read, each of them is one whole chunk of the brick.    *)
LEMMA ChunkWhole ==
  ASSUME BrickInv, Reads
  PROVE  /\ ChunkThickness \in Positive /\ ChunkDim = ChunkThickness
         /\ chunk \in Nat /\ chunk * ChunkThickness + ChunkThickness <= Thick
         /\ ChunkThickness * SliceVoxels <= Limit
<1> DEFINE t == ChunkThickness
<1>1. /\ SliceVoxels \in Nat /\ Thick \in Nat /\ NumChunks \in Nat /\ NumChunks # 0
      /\ chunk \in Nat /\ Limit \in Positive /\ chunk < NumChunks
  BY BrickSizes, BricksAssumption DEF BrickInv, GridInv, LoadInv, Reads
<1>2. t \in Positive /\ NumChunks * t <= Thick /\ t * SliceVoxels <= Limit
  BY <1>1, ChunkSizes DEF NumChunks, ChunkThickness, Reads
<1>3. t \in Nat /\ t >= 1
  BY <1>2 DEF Positive
<1> HIDE DEF t
<1>4. chunk * t + t <= Thick
  <2>1. t * (chunk + 1) <= t * NumChunks
    BY <1>1, <1>3, TimesMonotone
  <2>2. t * (chunk + 1) = chunk * t + t /\ t * NumChunks = NumChunks * t
    BY <1>1, <1>3
  <2>3. chunk * t \in Nat /\ NumChunks * t \in Nat
    BY <1>1, <1>3
  <2> QED
    BY <1>1, <1>2, <1>3, <2>1, <2>2, <2>3
<1>5. ChunkDim = t
  <2>1. chunk * t \in Nat
    BY <1>1, <1>3
  <2>2. ChunkDim = IF chunk * t + t >= Thick THEN Thick - chunk * t ELSE t
    BY DEF ChunkDim, t
  <2> QED
    BY <1>1, <1>3, <1>4, <2>1, <2>2
<1> QED
  BY <1>1, <1>2, <1>4, <1>5 DEF t

(* The brick of a rank ends within the volume. *)
LEMMA BrickInVolume ==
  ASSUME GridInv, pc # "grid"
  PROVE  Lower + Thick <= volume_dims[2]
<1> DEFINE z == BrickId(mpi_rank, grid)[3]
           d == volume_dims[2]
           g == grid[2]
<1>1. g \in Positive /\ d \in Positive
  BY DEF GridInv, TypeInv, Axis
<1>2. z \in 0 .. g - 1
  BY CellOfRank DEF GridInv, TypeInv, ProductInv, Cell
<1>3. Thick = d \div g /\ Lower = z * Thick
  BY DEF Thick, Lower, BrickDims, Axis
<1> HIDE DEF z, d, g
<1>4. Thick \in Nat /\ d % g \in 0 .. g - 1 /\ d = g * Thick + (d % g) /\ g \in Nat
  BY <1>1, <1>3, Division DEF Positive
<1>5. Thick * (z + 1) <= Thick * g
  BY <1>2, <1>4, TimesMonotone
<1>6. Thick * (z + 1) = z * Thick + Thick /\ Thick * g = g * Thick
  BY <1>2, <1>4
<1>7. z * Thick \in Nat /\ g * Thick \in Nat /\ d \in Nat
  BY <1>1, <1>2, <1>4 DEF Positive
<1> QED
  BY <1>3, <1>4, <1>5, <1>6, <1>7 DEF d

(* No read of load_raw_volume counts more than its limit, writes past the  *)
(* end of the brick or reads past that of the file.                        *)
THEOREM ReadsFit == Spec => []CountsFit
<1>1. ASSUME BrickInv PROVE CountsFit
  <2> SUFFICES ASSUME Reads
               PROVE  /\ ChunkDim > 0 /\ ChunkDim * SliceVoxels <= Limit
                      /\ chunk * ChunkThickness + ChunkDim <= Thick
                      /\ Lower + Thick <= volume_dims[2]
    BY DEF CountsFit
  <2>1. Lower + Thick <= volume_dims[2]
    BY <1>1, BrickInVolume DEF BrickInv, Reads
  <2> QED
    BY <1>1, <2>1, ChunkWhole DEF Positive
<1> QED
  BY <1>1, BrickAlways, PTL

-----------------------------------------------------------------------------
(* What is in the brick while it is read. *)
SlicesExact ==
  pc = "read" \/ pc = "done" =>
    /\ DOMAIN voxel_data = 0 .. Thick - 1
    /\ \A s \in DOMAIN voxel_data :
         voxel_data[s] = IF s < chunk * ChunkThickness THEN Lower + s ELSE Zeros

LEMMA SlicesKept ==
  ASSUME BrickInv, SlicesExact, [Next]_vars
  PROVE  SlicesExact'
<1>1. CASE Divide
  BY <1>1 DEF Divide, SlicesExact
<1>2. CASE FinishGrid
  BY <1>2 DEF FinishGrid, SlicesExact
<1>3. CASE StartLoad
  <2>1. chunk' = 0 /\ Thick' = Thick /\ ChunkThickness' = ChunkThickness
    BY <1>3, SizesStay DEF StartLoad, BrickInv, LoadInv
  <2>2. voxel_data' = [s \in 0 .. Thick - 1 |-> Zeros]
    BY <1>3 DEF StartLoad
  <2>3. CASE pc' = "crashed"
    BY <2>3 DEF SlicesExact
  <2>4. CASE pc' = "read"
    <3>1. NumChunks \in Nat \ {0} /\ Thick \in Nat
      BY <1>3, <2>4, BrickSizes DEF StartLoad, BrickInv, GridInv
    <3>2. ChunkThickness \in Nat
      BY <3>1, Division DEF ChunkThickness, Positive
    <3>3. 0 * ChunkThickness = 0
      BY <3>2
    <3> QED
      BY <2>1, <2>2, <3>1, <3>3 DEF SlicesExact
  <2> QED
    BY <1>3, <2>3, <2>4 DEF StartLoad
<1>4. CASE ReadChunk
  <2> DEFINE t == ChunkThickness
  <2>1. Reads /\ pc = "read" /\ chunk < NumChunks /\ chunk' = chunk + 1 /\ pc' = pc
    BY <1>4 DEF ReadChunk, Reads
  <2>2. Thick' = Thick /\ ChunkThickness' = t /\ Lower' = Lower
    BY <1>4, SizesStay DEF ReadChunk
  <2>3. t \in Nat /\ t >= 1 /\ ChunkDim = t /\ chunk \in Nat
    BY <2>1, ChunkWhole DEF Positive
  <2>4. DOMAIN voxel_data = 0 .. Thick - 1 /\ Thick \in Nat
    BY <2>1, BrickSizes DEF SlicesExact, BrickInv, GridInv
  <2>5. voxel_data' = [s \in DOMAIN voxel_data |->
          IF s - chunk * t \in 0 .. t - 1 THEN ChunkOffset + (s - chunk * t)
          ELSE voxel_data[s]]
    BY <1>4, <2>3 DEF ReadChunk
  <2>6. Lower \in Int /\ ChunkOffset = Lower + chunk * t
    <3>1. BrickId(mpi_rank, grid)[3] \in Int
      BY <2>1, CellOfRank DEF BrickInv, GridInv, TypeInv, ProductInv, Cell, Axis, Positive
    <3>2. BrickDims[2] \in Int
      BY BrickSizes DEF BrickInv, GridInv, Axis
    <3> QED
      BY <3>1, <3>2 DEF Lower, ChunkOffset
  <2>7. (chunk + 1) * t = chunk * t + t /\ chunk * t \in Nat
    BY <2>3
  <2> HIDE DEF t
  <2>8. ASSUME NEW s \in DOMAIN voxel_data'
        PROVE  voxel_data'[s] = IF s < (chunk + 1) * t THEN Lower + s ELSE Zeros
    <3>1. s \in 0 .. Thick - 1 /\ s \in DOMAIN voxel_data
      BY <2>4, <2>5, <2>8
    <3>2. voxel_data[s] = IF s < chunk * t THEN Lower + s ELSE Zeros
      BY <2>1, <3>1 DEF SlicesExact, t
    <3>3. CASE s - chunk * t \in 0 .. t - 1
      <4>1. voxel_data'[s] = (Lower + chunk * t) + (s - chunk * t)
        BY <2>5, <2>6, <3>1, <3>3
      <4>2. voxel_data'[s] = Lower + s
        BY <2>4, <2>6, <2>7, <3>1, <4>1
      <4>3. s < (chunk + 1) * t
        BY <2>3, <2>4, <2>7, <3>1, <3>3
      <4> QED
        BY <4>2, <4>3
    <3>4. CASE ~(s - chunk * t \in 0 .. t - 1)
      <4>1. voxel_data'[s] = voxel_data[s]
        BY <2>5, <3>1, <3>4
      <4>2. s < chunk * t <=> s < (chunk + 1) * t
        BY <2>3, <2>4, <2>7, <3>1, <3>4
      <4> QED
        BY <3>2, <4>1, <4>2
    <3> QED
      BY <3>3, <3>4
  <2>9. DOMAIN voxel_data' = 0 .. Thick - 1
    BY <2>4, <2>5
  <2> QED
    BY <2>1, <2>2, <2>8, <2>9 DEF SlicesExact
<1>5. CASE Loaded
  <2>1. Thick' = Thick /\ ChunkThickness' = ChunkThickness /\ Lower' = Lower
    BY <1>5, SizesStay DEF Loaded
  <2> QED
    BY <1>5, <2>1 DEF Loaded, SlicesExact
<1>6. CASE EmptyChunk
  BY <1>6 DEF EmptyChunk, SlicesExact
<1>7. CASE UNCHANGED vars
  <2>1. Thick' = Thick /\ ChunkThickness' = ChunkThickness /\ Lower' = Lower
    BY <1>7, SizesStay DEF vars
  <2> QED
    BY <1>7, <2>1 DEF vars, SlicesExact
<1> QED
  BY <1>1, <1>2, <1>3, <1>4, <1>5, <1>6, <1>7 DEF Next, Stopped

(* Every slice that is read is the one that belongs to its place, and a    *)
(* brick whose slices the chunks divide evenly is complete.                *)
THEOREM SlicesArriveInPlace == Spec => []SlicesInPlace
<1>1. Init => SlicesExact
  BY DEF Init, SlicesExact
<1>2. BrickInv /\ SlicesExact /\ [Next]_vars => SlicesExact'
  BY SlicesKept
<1>3. ASSUME BrickInv, SlicesExact PROVE SlicesInPlace
  <2>1. ASSUME pc = "done", Thick % NumChunks = 0
        PROVE  chunk * ChunkThickness = Thick
    <3>1. NumChunks \in Positive /\ Thick \in Nat /\ chunk = NumChunks
      BY <1>3, <2>1, BrickSizes DEF BrickInv, GridInv, LoadInv, Positive
    <3>2. Thick = NumChunks * (Thick \div NumChunks) + (Thick % NumChunks)
      BY <3>1, Division
    <3>3. NumChunks * (Thick \div NumChunks) \in Nat
      BY <3>1, Division DEF Positive
    <3> QED
      BY <2>1, <3>1, <3>2, <3>3 DEF ChunkThickness
  <2>2. ASSUME pc = "read" \/ pc = "done"
        PROVE  /\ DOMAIN voxel_data = 0 .. Thick - 1 /\ Thick \in Nat
               /\ \A s \in DOMAIN voxel_data : s < chunk * ChunkThickness => InPlace(s)
    BY <1>3, <2>2, BrickSizes DEF SlicesExact, InPlace, BrickInv, GridInv
  <2>3. ASSUME pc = "done", Thick % NumChunks = 0, NEW s \in DOMAIN voxel_data
        PROVE  InPlace(s)
    BY <2>1, <2>2, <2>3
  <2> QED
    BY <2>2, <2>3 DEF SlicesInPlace
<1> QED
  BY <1>1, <1>2, <1>3, BrickAlways, PTL DEF Spec

-----------------------------------------------------------------------------
(***************************************************************************)
(* The client job: the assignment of RegionsProofs, at the sizes that      *)
(* meet here.                                                              *)
(***************************************************************************)
Assignment == INSTANCE RegionsProofs

LEMMA SameAssignment ==
  ASSUME NEW m \in Nat, NEW n \in Nat \ {0}
  PROVE  Partition(m, n) /\ EvenShares(m, n)
<1>1. \A c : MySims(m, n, c) = Assignment!MySims(m, n, c)
  BY DEF MySims, SimsPerClient, Assignment!MySims, Assignment!SimsPerClient
<1>2. \A c : RegionsOf(m, n, c) = Assignment!RegionsOf(m, n, c)
  BY DEF RegionsOf, RegionId, MySims, ExtraOffset, SimsPerClient, Smaller,
         Assignment!RegionsOf, Assignment!RegionId, Assignment!MySims,
         Assignment!ExtraOffset, Assignment!SimsPerClient, Assignment!Smaller
<1>3. Assignment!Partition(m, n)
  BY Assignment!RegionsPartition
<1>4. Assignment!EvenShares(m, n)
  BY Assignment!SharesAreEven
<1>5. Partition(m, n)
  BY <1>2, <1>3 DEF Partition, Assignment!Partition
<1>6. EvenShares(m, n)
  BY <1>1, <1>4 DEF EvenShares, Assignment!EvenShares
<1> QED
  BY <1>5, <1>6

LEMMA SizesMeet ==
  ASSUME TypeInv, NEW n \in ClientSizes
  PROVE  /\ mpi_size \in Nat /\ mpi_rank \in 0 .. mpi_size-1
         /\ n \in Nat \ {0}
BY ClientSizesAssumption DEF TypeInv, Positive

(* Whatever the two sizes, each rank of the simulation gets the one ping   *)
(* that its handleQuery waits for: is_client.cpp, lines 88-115.            *)
THEOREM OnePingPerRank == Spec => []EveryRankPingedOnce
<1>1. ASSUME TypeInv, NEW n \in ClientSizes
      PROVE  /\ \E c \in 0 .. n-1 : mpi_rank \in RegionsOf(mpi_size, n, c)
             /\ \A c, d \in 0 .. n-1 :
                  /\ mpi_rank \in RegionsOf(mpi_size, n, c)
                  /\ mpi_rank \in RegionsOf(mpi_size, n, d)
                  => c = d
             /\ \A c \in 0 .. n-1 :
                  RegionsOf(mpi_size, n, c) \subseteq 0 .. mpi_size-1
  <2>1. Partition(mpi_size, n)
    BY <1>1, SizesMeet, SameAssignment
  <2> QED
    BY <1>1, <2>1, SizesMeet DEF Partition
<1>2. TypeInv => EveryRankPingedOnce
  BY <1>1 DEF EveryRankPingedOnce
<1> QED
  BY <1>2, GridAlways, PTL DEF GridInv

(* Whatever the two sizes, no client rank of is_client.cpp, lines 88-97,   *)
(* is assigned two bricks more than another.                               *)
THEOREM NoClientIsOverloaded == Spec => []RemainderSpreadEvenly
<1>1. ASSUME TypeInv, NEW n \in ClientSizes PROVE EvenShares(mpi_size, n)
  BY <1>1, SizesMeet, SameAssignment
<1>2. TypeInv => RemainderSpreadEvenly
  BY <1>1 DEF RemainderSpreadEvenly
<1> QED
  BY <1>2, GridAlways, PTL DEF GridInv
=============================================================================
