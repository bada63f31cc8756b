--------------------------- MODULE RegionsProofs ---------------------------
(***************************************************************************)
(* The M:N assignment of Regions is a partition of the simulation ranks,   *)
(* with even shares, for every number of simulation ranks and of client    *)
(* ranks.                                                                  *)
(*                                                                         *)
(* Client rank c takes the interval that starts at Start(m, n, c) and ends *)
(* before Start(m, n, c + 1).  Start is monotone, 0 at 0 and m at n, and   *)
(* the client rank of a given simulation rank is found by division, so no  *)
(* induction is needed.                                                    *)
(***************************************************************************)
EXTENDS Regions, TLAPS

Start(m, n, c) == SimsPerClient(m, n) * c + ExtraOffset(m, n, c)

(* Multiplication by a natural number preserves the order. *)
LEMMA TimesMonotone ==
  ASSUME NEW a \in Nat, NEW b \in Int, NEW c \in Int, b <= c
  PROVE  a * b <= a * c
<1>1. c - b \in Nat
  OBVIOUS
<1>2. a * (c - b) \in Nat
  BY <1>1
<1>3. a * (c - b) = a * c - a * b
  OBVIOUS
<1> QED
  BY <1>2, <1>3

(* What the division of the two sizes leaves. *)
LEMMA Division ==
  ASSUME NEW m \in Nat, NEW n \in Nat \ {0}
  PROVE  /\ m \div n \in Nat
         /\ m % n \in 0 .. n-1
         /\ m = n * (m \div n) + (m % n)
OBVIOUS

(* The interval of client rank c begins where that of c - 1 ends. *)
LEMMA RegionsAreIntervals ==
  ASSUME NEW m \in Nat, NEW n \in Nat \ {0}, NEW c \in 0 .. n-1
  PROVE  /\ MySims(m, n, c) \in Nat
         /\ Start(m, n, c) \in Nat
         /\ Start(m, n, c + 1) \in Nat
         /\ Start(m, n, c + 1) = Start(m, n, c) + MySims(m, n, c)
         /\ RegionsOf(m, n, c) = Start(m, n, c) .. Start(m, n, c + 1) - 1
<1> DEFINE q == m \div n
           r == m % n
<1>1. q \in Nat /\ r \in 0 .. n-1
  BY Division
<1> HIDE DEF q, r
<1>2. SimsPerClient(m, n) = q
  BY DEF SimsPerClient, q
<1>3. MySims(m, n, c) = IF r - c > 0 THEN q + 1 ELSE q
  BY <1>2 DEF MySims, r
<1>4. /\ ExtraOffset(m, n, c) = IF c <= r THEN c ELSE r
      /\ ExtraOffset(m, n, c + 1) = IF c + 1 <= r THEN c + 1 ELSE r
  BY DEF ExtraOffset, Smaller, r
<1>5. /\ q * c \in Nat
      /\ q * (c + 1) = q * c + q
  BY <1>1
<1>6. /\ MySims(m, n, c) \in Nat
      /\ Start(m, n, c) \in Nat
      /\ Start(m, n, c + 1) = Start(m, n, c) + MySims(m, n, c)
  BY <1>1, <1>2, <1>3, <1>4, <1>5 DEF Start
<1>7. \A i \in 0 .. MySims(m, n, c) - 1 :
        RegionId(m, n, c, i) = Start(m, n, c) + i
  <2> TAKE i \in 0 .. MySims(m, n, c) - 1
  <2>1. ExtraOffset(m, n, c) \in Int /\ SimsPerClient(m, n) * c \in Int /\ i \in Int
    BY <1>1, <1>2, <1>4, <1>5, <1>6
  <2> QED
    BY <2>1 DEF RegionId, Start
<1>8. RegionsOf(m, n, c) =
        {Start(m, n, c) + i : i \in 0 .. MySims(m, n, c) - 1}
  BY <1>7 DEF RegionsOf
<1>9. ASSUME NEW a \in Nat, NEW k \in Nat
      PROVE  {a + i : i \in 0 .. k - 1} = a .. a + k - 1
  <2>1. \A s \in a .. a + k - 1 : s - a \in 0 .. k - 1 /\ s = a + (s - a)
    OBVIOUS
  <2> QED
    BY <2>1
<1>10. RegionsOf(m, n, c) =
         Start(m, n, c) .. Start(m, n, c) + MySims(m, n, c) - 1
  BY <1>6, <1>8, <1>9
<1> QED
  BY <1>6, <1>10

(* The intervals begin at 0, end at m, and are in the order of the ranks. *)
LEMMA StartMonotone ==
  ASSUME NEW m \in Nat, NEW n \in Nat \ {0}
  PROVE  /\ Start(m, n, 0) = 0
         /\ Start(m, n, n) = m
         /\ \A c, d \in 0 .. n : c <= d => Start(m, n, c) <= Start(m, n, d)
<1> DEFINE q == m \div n
           r == m % n
<1>1. q \in Nat /\ r \in 0 .. n-1 /\ m = n * q + r
  BY Division
<1> HIDE DEF q, r
<1>2. \A c \in 0 .. n : Start(m, n, c) = q * c + (IF c <= r THEN c ELSE r)
  BY DEF Start, SimsPerClient, ExtraOffset, Smaller, q, r
<1>3. Start(m, n, 0) = 0
  BY <1>1, <1>2
<1>4. Start(m, n, n) = m
  BY <1>1, <1>2
<1>5. ASSUME NEW c \in 0 .. n, NEW d \in 0 .. n, c <= d
      PROVE  Start(m, n, c) <= Start(m, n, d)
  <2>1. q * c <= q * d
    BY <1>1, <1>5, TimesMonotone
  <2>2. q * c \in Int /\ q * d \in Int
    BY <1>1
  <2> QED
    BY <1>1, <1>2, <1>5, <2>1, <2>2
<1> QED
  BY <1>3, <1>4, <1>5

(* The client rank that fetches simulation rank s: among the first m % n   *)
(* client ranks, which take one more, or among the others.                 *)
LEMMA EveryRankHasAClient ==
  ASSUME NEW m \in Nat, NEW n \in Nat \ {0}, NEW s \in 0 .. m-1
  PROVE  \E c \in 0 .. n-1 : s \in Start(m, n, c) .. Start(m, n, c + 1) - 1
<1> DEFINE q == m \div n
           r == m % n
<1>1. q \in Nat /\ r \in 0 .. n-1 /\ m = n * q + r
  BY Division
<1> HIDE DEF q, r
<1>2. \A c \in 0 .. n : Start(m, n, c) = q * c + (IF c <= r THEN c ELSE r)
  BY DEF Start, SimsPerClient, ExtraOffset, Smaller, q, r
<1>3. CASE s < (q + 1) * r
  <2> DEFINE c == s \div (q + 1)
             t == s % (q + 1)
  <2>1. c \in Nat /\ t \in 0 .. q /\ s = (q + 1) * c + t
    <3>1. s \in Nat /\ q + 1 \in Nat \ {0} /\ (q + 1) - 1 = q
      BY <1>1
    <3>2. /\ s \div (q + 1) \in Nat
          /\ s % (q + 1) \in 0 .. (q + 1) - 1
          /\ s = (q + 1) * (s \div (q + 1)) + (s % (q + 1))
      BY <3>1, Division
    <3> QED
      BY <3>1, <3>2
  <2> HIDE DEF c, t
  <2>2. c < r
    <3> SUFFICES ASSUME r <= c PROVE FALSE
      BY <1>1, <2>1
    <3>1. (q + 1) * r <= (q + 1) * c
      BY <1>1, <2>1, TimesMonotone
    <3>2. (q + 1) * r \in Int /\ (q + 1) * c \in Int
      BY <1>1, <2>1
    <3> QED
      BY <1>3, <2>1, <3>1, <3>2
  <2>3. (q + 1) * c = q * c + c /\ q * (c + 1) = q * c + q /\ q * c \in Int
    BY <1>1, <2>1
  <2>4. c \in 0 .. n-1 /\ c + 1 \in 0 .. n
    BY <1>1, <2>1, <2>2
  <2>5. Start(m, n, c) = q * c + c /\ Start(m, n, c + 1) = q * c + q + c + 1
    BY <1>1, <1>2, <2>1, <2>2, <2>3, <2>4
  <2> QED
    BY <1>1, <2>1, <2>3, <2>4, <2>5
<1>4. CASE (q + 1) * r <= s
  <2> DEFINE u == s - (q + 1) * r
             d == u \div q
             t == u % q
  <2>1. (q + 1) * r = q * r + r /\ q * r \in Nat /\ n * q \in Nat
    BY <1>1
  <2>2. u \in Nat /\ u < n * q - q * r
    BY <1>1, <1>4, <2>1
  <2>3. q # 0
    BY <1>1, <2>1, <2>2
  <2> HIDE DEF u
  <2>4. d \in Nat /\ t \in 0 .. q-1 /\ u = q * d + t
    BY <1>1, <2>2, <2>3, Division
  <2> HIDE DEF d, t
  <2>5. q * (r + d) = q * r + q * d /\ q * (r + d + 1) = q * r + q * d + q
          /\ q * d \in Int /\ q * (r + d) \in Int
    BY <1>1, <2>4
  <2>6. r + d < n
    <3> SUFFICES ASSUME n <= r + d PROVE FALSE
      BY <1>1, <2>4
    <3>1. q * n <= q * (r + d)
      BY <1>1, <2>4, TimesMonotone
    <3>2. q * n = n * q
      BY <1>1
    <3> QED
      BY <1>1, <2>1, <2>2, <2>4, <2>5, <3>1, <3>2
  <2>7. r + d \in 0 .. n-1 /\ r + d + 1 \in 0 .. n
    BY <1>1, <2>4, <2>6
  <2>8. /\ Start(m, n, r + d) = q * r + q * d + r
        /\ Start(m, n, r + d + 1) = q * r + q * d + q + r
    BY <1>1, <1>2, <2>1, <2>4, <2>5, <2>7
  <2>9. s = q * r + q * d + r + t
    BY <1>1, <2>1, <2>4, <2>5 DEF u
  <2> QED
    BY <1>1, <2>1, <2>4, <2>5, <2>7, <2>8, <2>9
<1> QED
  <2>1. (q + 1) * r \in Int
    BY <1>1
  <2> QED
    BY <1>3, <1>4, <2>1

(* Every simulation rank is pinged by exactly one client rank and no       *)
(* client rank pings a rank that does not exist (is_client.cpp, lines      *)
(* 88-115), whatever the two sizes.                                        *)
THEOREM RegionsPartition ==
  ASSUME NEW m \in Nat, NEW n \in Nat \ {0}
  PROVE  Partition(m, n)
<1>1. ASSUME NEW c \in 0 .. n-1
      PROVE  RegionsOf(m, n, c) \subseteq 0 .. m-1
  <2>1. /\ Start(m, n, 0) <= Start(m, n, c)
        /\ Start(m, n, c + 1) <= Start(m, n, n)
    BY StartMonotone
  <2>2. c \in 0 .. n /\ c + 1 \in 0 .. n /\ 0 \in 0 .. n /\ n \in 0 .. n
    OBVIOUS
  <2>3. Start(m, n, c) \in Nat /\ Start(m, n, c + 1) \in Nat
    BY RegionsAreIntervals
  <2>4. Start(m, n, 0) = 0 /\ Start(m, n, n) = m
    BY StartMonotone
  <2>5. RegionsOf(m, n, c) = Start(m, n, c) .. Start(m, n, c + 1) - 1
    BY RegionsAreIntervals
  <2> QED
    BY <2>1, <2>3, <2>4, <2>5
<1>2. ASSUME NEW s \in 0 .. m-1
      PROVE  \E c \in 0 .. n-1 : s \in RegionsOf(m, n, c)
  <2>1. PICK c \in 0 .. n-1 : s \in Start(m, n, c) .. Start(m, n, c + 1) - 1
    BY EveryRankHasAClient
  <2>2. RegionsOf(m, n, c) = Start(m, n, c) .. Start(m, n, c + 1) - 1
    BY RegionsAreIntervals
  <2> QED
    BY <2>1, <2>2
<1>3. ASSUME NEW c \in 0 .. n-1, NEW d \in 0 .. n-1, c < d
      PROVE  RegionsOf(m, n, c) \cap RegionsOf(m, n, d) = {}
  <2>1. Start(m, n, c + 1) <= Start(m, n, d)
    BY <1>3, StartMonotone
  <2>2. /\ Start(m, n, c) \in Nat /\ Start(m, n, c + 1) \in Nat
        /\ Start(m, n, d) \in Nat /\ Start(m, n, d + 1) \in Nat
    BY RegionsAreIntervals
  <2>3. /\ RegionsOf(m, n, c) = Start(m, n, c) .. Start(m, n, c + 1) - 1
        /\ RegionsOf(m, n, d) = Start(m, n, d) .. Start(m, n, d + 1) - 1
    BY RegionsAreIntervals
  <2> QED
    BY <2>1, <2>2, <2>3
<1>4. \A c, d \in 0 .. n-1 : c # d => c < d \/ d < c
  OBVIOUS
<1> QED
  BY <1>1, <1>2, <1>3, <1>4 DEF Partition

(* The shares of two client ranks differ by at most one. *)
THEOREM SharesAreEven ==
  ASSUME NEW m \in Nat, NEW n \in Nat \ {0}
  PROVE  EvenShares(m, n)
<1> DEFINE q == m \div n
<1>1. q \in Nat
  BY Division
<1>2. \A c \in 0 .. n-1 : MySims(m, n, c) = q \/ MySims(m, n, c) = q + 1
  BY DEF MySims, SimsPerClient
<1> HIDE DEF q
<1> QED
  BY <1>1, <1>2 DEF EvenShares

=============================================================================
