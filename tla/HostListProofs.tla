--------------------------- MODULE HostListProofs ---------------------------
(***************************************************************************)
(* The list of hosts for every list, every length of its strings and every *)
(* capacity that the vector of the WriteBuffer had: it is large enough for *)
(* each memcpy, and what is read at the other end is what was written.     *)
(*                                                                         *)
(* A buffer is Laid out with the first items of the list when there are    *)
(* offsets at which its bytes are those of the items.  LaidInv says so of  *)
(* the WriteBuffer, ChannelInv that size and bytes go through the socket,  *)
(* ReaderInv that the reader is at one of those offsets.                   *)
(***************************************************************************)
EXTENDS HostList, WellFoundedInduction, TLAPS

(* The vector is one, what was written lies in it, and the next write is   *)
(* one of those of the list or there is none left.                         *)
WriterInv ==
  /\ hosts \in Seq(Seq(0 .. Base - 1))
  /\ Len(buffer) \in Nat /\ DOMAIN buffer = 1 .. Len(buffer)
  /\ end \in Nat /\ item \in Nat
  /\ end <= Len(buffer)

(* A count, a length or the characters of a string. *)
LEMMA ItemLength ==
  ASSUME WriterInv, item <= 2 * Len(hosts)
  PROVE  Len(Item(item)) \in Nat
<1>1. \A v : Len(Bytes(v)) = Word /\ Word \in Nat
  BY HostListAssumption DEF Bytes
<1>2. CASE item = 0 \/ item % 2 = 1
  BY <1>1, <1>2 DEF Item
<1>3. CASE item # 0 /\ item % 2 # 1
  <2>1. item \div 2 \in 1 .. Len(hosts)
    BY <1>3 DEF WriterInv
  <2>2. hosts[item \div 2] \in Seq(0 .. Base - 1)
    BY <2>1 DEF WriterInv
  <2> QED
    BY <1>3, <2>2 DEF Item
<1> QED
  BY <1>2, <1>3

(* resize makes room for n more bytes. *)
LEMMA Room ==
  ASSUME WriterInv, NEW n \in Nat
  PROVE  /\ Len(Resized(n)) \in Nat /\ DOMAIN Resized(n) = 1 .. Len(Resized(n))
         /\ end + n <= Len(Resized(n))
<1>1. GrownTo(Len(buffer), n) \in Nat /\ Len(buffer) + n <= GrownTo(Len(buffer), n)
  BY DEF WriterInv, GrownTo
<1>2. CASE end + n > Len(buffer)
  <2> DEFINE k == GrownTo(Len(buffer), n)
             grown == [i \in 1 .. k |-> IF i <= Len(buffer) THEN buffer[i] ELSE 0]
  <2>1. Resized(n) = grown
    BY <1>2 DEF Resized
  <2>2. k \in Nat /\ Len(buffer) + n <= k
    BY <1>1
  <2> HIDE DEF k
  <2>3. Len(grown) = k /\ DOMAIN grown = 1 .. k
    BY <2>2
  <2> HIDE DEF grown
  <2>4. end + n <= k
    BY <2>2 DEF WriterInv
  <2> QED
    BY <2>1, <2>2, <2>3, <2>4
<1>3. CASE ~(end + n > Len(buffer))
  BY <1>3 DEF Resized, WriterInv
<1> QED
  BY <1>2, <1>3

LEMMA WriterInitially == Init => WriterInv
<1> SUFFICES ASSUME Init PROVE WriterInv
  OBVIOUS
<1>1. Capacity \in Nat /\ buffer = [i \in 1 .. Capacity |-> 0]
  BY HostListAssumption DEF Init, Zeros
<1>2. Len(buffer) = Capacity /\ DOMAIN buffer = 1 .. Capacity
  BY <1>1
<1> QED
  BY <1>1, <1>2, HostListAssumption DEF Init, WriterInv

LEMMA WriterKept == WriterInv /\ [Next]_vars => WriterInv'
<1> SUFFICES ASSUME WriterInv, [Next]_vars PROVE WriterInv'
  OBVIOUS
<1>1. CASE Write
  <2> DEFINE data == Item(item)
             room == Resized(Len(data))
  <2>1. Len(data) \in Nat
    BY <1>1, ItemLength DEF Write
  <2>2. /\ Len(room) \in Nat /\ DOMAIN room = 1 .. Len(room)
        /\ end + Len(data) <= Len(room)
    BY <2>1, Room
  <2>3. /\ buffer' = [i \in DOMAIN room |->
             IF i \in end + 1 .. end + Len(data) THEN data[i - end] ELSE room[i]]
        /\ end' = end + Len(data) /\ item' = item + 1 /\ hosts' = hosts
    BY <1>1 DEF Write
  <2> HIDE DEF data, room
  <2>4. DOMAIN buffer' = 1 .. Len(room) /\ Len(buffer') = Len(room)
    BY <2>2, <2>3
  <2> QED
    BY <2>1, <2>2, <2>3, <2>4 DEF WriterInv
<1>2. CASE UNCHANGED writerVars
  BY <1>2 DEF writerVars, WriterInv
<1> QED
  BY <1>1, <1>2 DEF Next, SendSize, SendData, RecvSize, RecvData, ReadStep, Done, vars

(* No memcpy of WriteBuffer::write goes past the end of the vector. *)
THEOREM WritesFit == Spec => []WriteFits
<1>1. WriterInv => WriteFits
  BY DEF WriterInv, WriteFits
<1> QED
  BY <1>1, WriterInitially, WriterKept, PTL DEF Spec

-----------------------------------------------------------------------------
LEMMA LeastNumber ==
  ASSUME NEW T \in SUBSET Nat, T # {}
  PROVE  \E x \in T : \A y \in T : x <= y
<1> DEFINE R == OpToRel(<, Nat)
<1>1. IsWellFoundedOn(R, Nat)
  BY NatLessThanWellFounded
<1>2. \A x, y \in Nat : x < y => <<x, y>> \in R
  BY DEF OpToRel
<1> HIDE DEF R
<1>3. PICK x \in T : \A y \in T : ~(<<y, x>> \in R)
  BY <1>1, WFMin
<1>4. ASSUME NEW y \in T PROVE x <= y
  <2>1. ~(y < x)
    BY <1>2, <1>3
  <2> QED
    BY <2>1
<1> QED
  BY <1>4

(* Induction up to n, for a set in place of a predicate.                   *)
LEMMA UpTo ==
  ASSUME NEW n \in Nat, NEW P, 0 \in P, \A i \in 1 .. n : i - 1 \in P => i \in P
  PROVE  \A i \in 0 .. n : i \in P
<1> DEFINE T == {i \in 0 .. n : i \notin P}
<1> SUFFICES ASSUME T # {} PROVE FALSE
  OBVIOUS
<1>1. T \in SUBSET Nat
  OBVIOUS
<1>2. PICK k \in T : \A i \in T : k <= i
  BY <1>1, LeastNumber
<1>3. k \in 1 .. n /\ k - 1 \in 0 .. n
  BY <1>2
<1>4. k - 1 \in P
  BY <1>2, <1>3
<1> QED
  BY <1>2, <1>3, <1>4

(* A function is given by its value at 0 and the step G.                   *)
LEMMA Iterates ==
  ASSUME NEW a \in Nat, NEW G \in [Nat \X (1 .. Word) -> Nat]
  PROVE  \E f \in [0 .. Word -> Nat] :
           f[0] = a /\ \A i \in 1 .. Word : f[i] = G[<<f[i-1], i>>]
<1> USE HostListAssumption
<1> DEFINE Good(f, k) ==
             f[0] = a /\ \A i \in 1 .. k : f[i] = G[<<f[i-1], i>>]
           P == {k \in 0 .. Word : \E f \in [0 .. k -> Nat] : Good(f, k)}
<1>1. 0 \in P
  <2>1. PICK f : f = [i \in 0 .. 0 |-> a]
    OBVIOUS
  <2>2. f \in [0 .. 0 -> Nat] /\ f[0] = a
    BY <2>1
  <2>3. 1 .. 0 = {}
    OBVIOUS
  <2>4. Good(f, 0)
    BY <2>2, <2>3
  <2> QED
    BY <2>2, <2>4
<1>2. ASSUME NEW k \in 1 .. Word, k - 1 \in P PROVE k \in P
  <2>1. PICK f \in [0 .. k - 1 -> Nat] : Good(f, k - 1)
    BY <1>2
  <2>2. PICK g : g = [i \in 0 .. k |-> IF i = k THEN G[<<f[k-1], k>>] ELSE f[i]]
    OBVIOUS
  <2>3. f[k-1] \in Nat /\ G[<<f[k-1], k>>] \in Nat
    OBVIOUS
  <2>4. g \in [0 .. k -> Nat]
    BY <2>2, <2>3
  <2>5. /\ g[0] = f[0] /\ g[k] = G[<<f[k-1], k>>]
        /\ \A i \in 0 .. k - 1 : g[i] = f[i]
    BY <2>2
  <2>6. ASSUME NEW i \in 1 .. k PROVE g[i] = G[<<g[i-1], i>>]
    <3>1. i - 1 \in 0 .. k - 1 /\ g[i-1] = f[i-1]
      BY <2>5
    <3>2. CASE i = k
      BY <3>1, <3>2, <2>5
    <3>3. CASE i # k
      <4>1. i \in 0 .. k - 1 /\ i \in 1 .. k - 1
        BY <3>3
      <4> QED
        BY <4>1, <3>1, <2>1, <2>5
    <3> QED
      BY <3>2, <3>3
  <2>7. Good(g, k) /\ k \in 0 .. Word
    <3>1. 0 \in 0 .. k - 1 /\ g[0] = a
      BY <2>1, <2>5
    <3> QED
      BY <3>1, <2>6
  <2> HIDE DEF Good
  <2> QED
    BY <2>4, <2>7
<1> HIDE DEF P
<1>3. Word \in P
  BY <1>1, <1>2, UpTo
<1> QED
  BY <1>3 DEF P

(* The quotients of a number, the values of a word and the powers of Base  *)
(* satisfy their equations.                                                *)
LEMMA QuotientFacts ==
  ASSUME NEW v \in Nat
  PROVE  /\ Quotients(v)[0] = v
         /\ \A i \in 1 .. Word : Quotients(v)[i] = Quotients(v)[i-1] \div Base
         /\ \A i \in 0 .. Word : Quotients(v)[i] \in Nat
<1>1. Word \in Nat /\ Base \in Nat \ {0, 1}
  BY HostListAssumption
<1> DEFINE Eq(q) == q = [i \in 0 .. Word |-> IF i = 0 THEN v ELSE q[i-1] \div Base]
<1>2. PICK G : G = [p \in Nat \X (1 .. Word) |-> p[1] \div Base]
  OBVIOUS
<1>3. G \in [Nat \X (1 .. Word) -> Nat]
  BY <1>1, <1>2
<1>4. PICK f \in [0 .. Word -> Nat] :
        f[0] = v /\ \A i \in 1 .. Word : f[i] = G[<<f[i-1], i>>]
  BY <1>1, <1>3, Iterates
<1>5. ASSUME NEW i \in 1 .. Word PROVE f[i] = f[i-1] \div Base
  <2>1. i - 1 \in 0 .. Word /\ f[i-1] \in Nat
    BY <1>1
  <2> QED
    BY <2>1, <1>2, <1>4
<1>6. Eq(f)
  <2>1. ASSUME NEW i \in 0 .. Word
        PROVE  f[i] = IF i = 0 THEN v ELSE f[i-1] \div Base
    <3>1. i # 0 => i \in 1 .. Word
      BY <1>1
    <3> QED
      BY <3>1, <1>4, <1>5
  <2>2. f = [i \in 0 .. Word |-> f[i]]
    OBVIOUS
  <2> QED
    BY <2>1, <2>2
<1>7. PICK q : q = Quotients(v)
  OBVIOUS
<1>8. Eq(q)
  <2>1. q = CHOOSE g : Eq(g)
    BY <1>7 DEF Quotients
  <2> QED
    BY <2>1, <1>6
<1>9. q[0] = v /\ \A i \in 1 .. Word : q[i] = q[i-1] \div Base
  BY <1>1, <1>8
<1>10. \A i \in 0 .. Word : q[i] \in Nat
  <2> DEFINE P == {i \in 0 .. Word : q[i] \in Nat}
  <2>1. 0 \in P
    BY <1>1, <1>9
  <2>2. ASSUME NEW i \in 1 .. Word, i - 1 \in P PROVE i \in P
    <3>1. q[i-1] \in Nat /\ q[i] = q[i-1] \div Base
      BY <2>2, <1>9
    <3>2. q[i-1] \div Base \in Nat
      <4> DEFINE x == q[i-1]
      <4>1. x \in Nat
        BY <3>1
      <4> HIDE DEF x
      <4>2. x \div Base \in Nat
        BY <4>1, <1>1
      <4> QED
        BY <4>2 DEF x
    <3> QED
      BY <3>1, <3>2
  <2> HIDE DEF P
  <2>3. \A i \in 0 .. Word : i \in P
    BY <2>1, <2>2, <1>1, UpTo
  <2> QED
    BY <2>3 DEF P
<1> QED
  BY <1>7, <1>9, <1>10

LEMMA SumFacts ==
  ASSUME NEW s \in [1 .. Word -> 0 .. Base - 1]
  PROVE  /\ Sums(s)[0] = 0
         /\ \A i \in 1 .. Word : Sums(s)[i] = s[Word + 1 - i] + Base * Sums(s)[i-1]
<1>1. Word \in Nat /\ Base \in Nat \ {0, 1}
  BY HostListAssumption
<1> DEFINE Eq(u) ==
      u = [i \in 0 .. Word |-> IF i = 0 THEN 0 ELSE s[Word + 1 - i] + Base * u[i-1]]
<1>2. PICK G : G = [p \in Nat \X (1 .. Word) |-> s[Word + 1 - p[2]] + Base * p[1]]
  OBVIOUS
<1>3. G \in [Nat \X (1 .. Word) -> Nat]
  <2>1. ASSUME NEW x \in Nat, NEW i \in 1 .. Word
        PROVE  s[Word + 1 - i] + Base * x \in Nat
    <3>1. Word + 1 - i \in 1 .. Word
      BY <1>1
    <3>2. s[Word + 1 - i] \in Nat
      BY <3>1, <1>1
    <3>3. Base * x \in Nat
      BY <1>1
    <3> QED
      BY <3>2, <3>3
  <2> QED
    BY <1>2, <2>1
<1>4. PICK f \in [0 .. Word -> Nat] :
        f[0] = 0 /\ \A i \in 1 .. Word : f[i] = G[<<f[i-1], i>>]
  <2> HIDE DEF Eq
  <2>1. PICK z \in Nat : z = 0
    OBVIOUS
  <2>2. \E f \in [0 .. Word -> Nat] :
          f[0] = z /\ \A i \in 1 .. Word : f[i] = G[<<f[i-1], i>>]
    BY <1>3, Iterates
  <2> QED
    BY <2>1, <2>2
<1>5. ASSUME NEW i \in 1 .. Word PROVE f[i] = s[Word + 1 - i] + Base * f[i-1]
  <2>1. i - 1 \in 0 .. Word /\ f[i-1] \in Nat
    BY <1>1
  <2> QED
    BY <2>1, <1>2, <1>4
<1>6. Eq(f)
  <2>1. ASSUME NEW i \in 0 .. Word
        PROVE  f[i] = IF i = 0 THEN 0 ELSE s[Word + 1 - i] + Base * f[i-1]
    <3>1. i # 0 => i \in 1 .. Word
      BY <1>1
    <3> QED
      BY <3>1, <1>4, <1>5
  <2>2. f = [i \in 0 .. Word |-> f[i]]
    OBVIOUS
  <2> QED
    BY <2>1, <2>2
<1>7. PICK u : u = Sums(s)
  OBVIOUS
<1>8. Eq(u)
  <2>1. u = CHOOSE g : Eq(g)
    BY <1>7 DEF Sums
  <2> QED
    BY <2>1, <1>6
<1>9. u[0] = 0 /\ \A i \in 1 .. Word : u[i] = s[Word + 1 - i] + Base * u[i-1]
  BY <1>1, <1>8
<1> QED
  BY <1>7, <1>9

Power[n \in 0 .. Word] == IF n = 0 THEN 1 ELSE Base * Power[n-1]

LEMMA PowerFacts ==
  /\ Power[0] = 1
  /\ \A i \in 1 .. Word : Power[i] = Base * Power[i-1]
  /\ \A i \in 0 .. Word : Power[i] \in Nat
<1>1. Word \in Nat /\ Base \in Nat \ {0, 1}
  BY HostListAssumption
<1> DEFINE Eq(u) == u = [i \in 0 .. Word |-> IF i = 0 THEN 1 ELSE Base * u[i-1]]
<1>2. PICK G : G = [p \in Nat \X (1 .. Word) |-> Base * p[1]]
  OBVIOUS
<1>3. G \in [Nat \X (1 .. Word) -> Nat]
  BY <1>1, <1>2
<1>4. PICK f \in [0 .. Word -> Nat] :
        f[0] = 1 /\ \A i \in 1 .. Word : f[i] = G[<<f[i-1], i>>]
  BY <1>1, <1>3, Iterates
<1>5. ASSUME NEW i \in 1 .. Word PROVE f[i] = Base * f[i-1]
  <2>1. i - 1 \in 0 .. Word /\ f[i-1] \in Nat
    BY <1>1
  <2> QED
    BY <2>1, <1>2, <1>4
<1>6. Eq(f)
  <2>1. ASSUME NEW i \in 0 .. Word
        PROVE  f[i] = IF i = 0 THEN 1 ELSE Base * f[i-1]
    <3>1. i # 0 => i \in 1 .. Word
      BY <1>1
    <3> QED
      BY <3>1, <1>4, <1>5
  <2>2. f = [i \in 0 .. Word |-> f[i]]
    OBVIOUS
  <2> QED
    BY <2>1, <2>2
<1>7. PICK u : u = Power
  OBVIOUS
<1>8. Eq(u)
  <2>1. u = CHOOSE g : Eq(g)
    BY <1>7 DEF Power
  <2> QED
    BY <2>1, <1>6
<1>9. u[0] = 1 /\ \A i \in 1 .. Word : u[i] = Base * u[i-1]
  BY <1>1, <1>8
<1>10. \A i \in 0 .. Word : u[i] \in Nat
  <2> DEFINE P == {i \in 0 .. Word : u[i] \in Nat}
  <2>1. 0 \in P
    BY <1>1, <1>9
  <2>2. ASSUME NEW i \in 1 .. Word, i - 1 \in P PROVE i \in P
    <3>1. u[i-1] \in Nat /\ u[i] = Base * u[i-1]
      BY <2>2, <1>9
    <3>2. Base * u[i-1] \in Nat
      BY <3>1, <1>1
    <3> QED
      BY <3>1, <3>2
  <2> HIDE DEF P
  <2>3. \A i \in 0 .. Word : i \in P
    BY <2>1, <2>2, <1>1, UpTo
  <2> QED
    BY <2>3 DEF P
<1> QED
  BY <1>7, <1>9, <1>10

LEMMA WordFacts ==
  ASSUME NEW v \in Nat
  PROVE  /\ Bytes(v) \in [1 .. Word -> 0 .. Base - 1]
         /\ Bytes(v) \in Seq(0 .. Base - 1) /\ Len(Bytes(v)) = Word
<1>1. Word \in Nat /\ Base \in Nat \ {0, 1}
  BY HostListAssumption
<1>2. ASSUME NEW i \in 1 .. Word PROVE Quotients(v)[i-1] % Base \in 0 .. Base - 1
  <2>1. i - 1 \in 0 .. Word
    BY <1>1
  <2>2. Quotients(v)[i-1] \in Nat
    BY <2>1, QuotientFacts
  <2> QED
    BY <2>2, <1>1
<1>3. Bytes(v) \in [1 .. Word -> 0 .. Base - 1]
  BY <1>2 DEF Bytes
<1> QED
  BY <1>1, <1>3

(* A number that fits into a word is what its bytes are the word of.       *)
LEMMA WordRoundTrip ==
  ASSUME NEW v \in Nat, v < Power[Word]
  PROVE  Value(Bytes(v)) = v
<1>1. Word \in Nat \ {0} /\ Base \in Nat \ {0, 1}
  BY HostListAssumption
<1>2. PICK q : q = Quotients(v)
  OBVIOUS
<1>3. /\ q[0] = v /\ \A i \in 1 .. Word : q[i] = q[i-1] \div Base
      /\ \A i \in 0 .. Word : q[i] \in Nat
  BY <1>2, QuotientFacts
<1>4. \A x, p \in Nat : x < Base * p => x \div Base < p
  <2> SUFFICES ASSUME NEW x \in Nat, NEW p \in Nat, x \div Base >= p
               PROVE  x >= Base * p
    BY <1>1
  <2>1. PICK d \in Nat : d = x \div Base
    BY <1>1
  <2>2. x >= Base * d
    BY <1>1, <2>1
  <2>3. PICK e \in Nat : d = p + e
    <3>1. d - p \in Nat /\ d = p + (d - p)
      BY <2>1
    <3> QED
      BY <3>1
  <2>4. Base * d = Base * p + Base * e /\ Base * e >= 0
    BY <1>1, <2>3
  <2> QED
    BY <1>1, <2>2, <2>4
<1>5. q[Word] = 0
  <2> DEFINE P == {i \in 0 .. Word : q[i] < Power[Word - i]}
  <2>1. 0 \in P
    BY <1>1, <1>3
  <2>2. ASSUME NEW i \in 1 .. Word, i - 1 \in P PROVE i \in P
    <3>1. /\ q[i-1] \in Nat /\ q[i] = q[i-1] \div Base
          /\ Word - i \in 0 .. Word /\ Word - (i - 1) \in 1 .. Word
          /\ (Word - (i - 1)) - 1 = Word - i
      BY <2>2, <1>1, <1>3
    <3>2. Power[Word - i] \in Nat /\ Power[Word - (i - 1)] = Base * Power[Word - i]
      BY <3>1, PowerFacts
    <3>3. q[i-1] < Base * Power[Word - i]
      BY <2>2, <3>2
    <3>4. q[i] < Power[Word - i]
      BY <3>1, <3>2, <3>3, <1>4
    <3> QED
      BY <3>4, <1>1
  <2> HIDE DEF P
  <2>3. Word \in P
    BY <2>1, <2>2, <1>1, UpTo
  <2>4. q[Word] < Power[0] /\ q[Word] \in Nat
    BY <2>3, <1>1, <1>3 DEF P
  <2> QED
    BY <2>4, PowerFacts
<1>6. PICK s : s = Bytes(v)
  OBVIOUS
<1>7. s \in [1 .. Word -> 0 .. Base - 1] /\ \A i \in 1 .. Word : s[i] = q[i-1] % Base
  BY <1>2, <1>6, WordFacts DEF Bytes
<1>8. PICK u : u = Sums(s)
  OBVIOUS
<1>9. u[0] = 0 /\ \A i \in 1 .. Word : u[i] = s[Word + 1 - i] + Base * u[i-1]
  BY <1>7, <1>8, SumFacts
<1> DEFINE P == {i \in 0 .. Word : u[i] = q[Word - i]}
<1>10. 0 \in P
  BY <1>1, <1>5, <1>9
<1>11. ASSUME NEW i \in 1 .. Word, i - 1 \in P PROVE i \in P
  <2>1. /\ Word + 1 - i \in 1 .. Word /\ (Word + 1 - i) - 1 = Word - i
        /\ Word - (i - 1) = Word + 1 - i /\ Word - i \in 0 .. Word
    BY <1>1
  <2>2. PICK x \in Nat : x = q[Word - i]
    BY <2>1, <1>3
  <2>3. u[i-1] = x \div Base
    BY <1>11, <2>1, <2>2, <1>3
  <2>4. s[Word + 1 - i] = x % Base
    BY <2>1, <2>2, <1>7
  <2>5. u[i] = (x % Base) + Base * (x \div Base)
    BY <2>3, <2>4, <1>9
  <2>6. x = (x % Base) + Base * (x \div Base)
    BY <1>1
  <2> QED
    BY <2>2, <2>5, <2>6
<1> HIDE DEF P
<1>12. Word \in P
  BY <1>10, <1>11, <1>1, UpTo
<1>13. u[Word] = v
  BY <1>12, <1>1, <1>3 DEF P
<1> QED
  BY <1>6, <1>8, <1>13 DEF Value

-----------------------------------------------------------------------------
(* A buffer with the first n items of the list, at the offsets off.        *)
Laid(off, n, e, buf) ==
  /\ off \in [0 .. n -> Nat] /\ off[0] = 0 /\ off[n] = e
  /\ \A k \in 0 .. n - 1 :
       /\ off[k+1] = off[k] + Len(Item(k)) /\ off[k+1] <= e
       /\ \A i \in 1 .. Len(Item(k)) : buf[off[k] + i] = Item(k)[i]

(* What the writer has written is in its buffer. *)
Byte == 0 .. Base - 1
LaidInv ==
  /\ WriterInv /\ buffer \in Seq(Byte) /\ item <= 2 * Len(hosts) + 1
  /\ sender \in {"write", "data", "done"}
  /\ sender # "write" => item = 2 * Len(hosts) + 1
  /\ \E off : Laid(off, item, end, buffer)

LEMMA ItemFacts ==
  ASSUME hosts \in Seq(Seq(Byte)), NEW k \in Nat, k <= 2 * Len(hosts)
  PROVE  /\ Item(k) \in Seq(Byte) /\ Len(Item(k)) \in Nat
         /\ Item(0) = Bytes(Len(hosts))
         /\ \A r \in 1 .. Len(hosts) :
              /\ Item(2 * r - 1) = Bytes(Len(hosts[r])) /\ Item(2 * r) = hosts[r]
              /\ hosts[r] \in Seq(Byte) /\ Len(hosts[r]) \in Nat
<1>1. \A v \in Nat : Bytes(v) \in Seq(Byte) /\ Len(Bytes(v)) = Word
  BY WordFacts DEF Byte
<1>2. Len(hosts) \in Nat /\ \A r \in 1 .. Len(hosts) : hosts[r] \in Seq(Byte)
                                                    /\ Len(hosts[r]) \in Nat
  OBVIOUS
<1>3. Item(k) \in Seq(Byte)
  <2>1. CASE k = 0
    BY <2>1, <1>1, <1>2 DEF Item
  <2>2. CASE k # 0 /\ k % 2 = 1
    <3>1. (k + 1) \div 2 \in 1 .. Len(hosts)
      BY <2>2, <1>2
    <3> QED
      BY <2>2, <3>1, <1>1, <1>2 DEF Item
  <2>3. CASE k # 0 /\ k % 2 # 1
    <3>1. k \div 2 \in 1 .. Len(hosts)
      BY <2>3, <1>2
    <3> QED
      BY <2>3, <3>1, <1>2 DEF Item
  <2> QED
    BY <2>1, <2>2, <2>3
<1>4. Item(0) = Bytes(Len(hosts))
  BY DEF Item
<1>5. ASSUME NEW r \in 1 .. Len(hosts)
      PROVE  Item(2 * r - 1) = Bytes(Len(hosts[r])) /\ Item(2 * r) = hosts[r]
  <2>1. /\ 2 * r - 1 # 0 /\ (2 * r - 1) % 2 = 1 /\ ((2 * r - 1) + 1) \div 2 = r
        /\ 2 * r # 0 /\ (2 * r) % 2 # 1 /\ (2 * r) \div 2 = r
    BY <1>2
  <2> QED
    BY <2>1 DEF Item
<1>6. Len(Item(k)) \in Nat
  BY <1>3
<1> QED
  BY <1>2, <1>3, <1>4, <1>5, <1>6

LEMMA LaidInitially == Init => LaidInv
<1> SUFFICES ASSUME Init PROVE LaidInv
  OBVIOUS
<1>1. WriterInv
  BY WriterInitially
<1>2. Base \in Nat \ {0, 1} /\ Capacity \in Nat
  BY HostListAssumption
<1>3. buffer \in Seq(Byte)
  BY <1>2 DEF Init, Zeros, Byte
<1>4. PICK off : off = [i \in 0 .. 0 |-> 0]
  OBVIOUS
<1>5. item = 0 /\ end = 0 /\ sender = "write" /\ Len(hosts) \in Nat
  BY <1>1 DEF Init, WriterInv
<1>6. off \in [0 .. 0 -> Nat] /\ off[0] = 0
  BY <1>4
<1>7. 0 .. 0 - 1 = {}
  OBVIOUS
<1>8. Laid(off, item, end, buffer)
  BY <1>5, <1>6, <1>7 DEF Laid
<1> QED
  BY <1>1, <1>3, <1>5, <1>8 DEF LaidInv

(* What a write leaves in the buffer.                                      *)
LEMMA WriteFacts ==
  ASSUME LaidInv, Write
  PROVE  /\ buffer' \in Seq(Byte) /\ end' = end + Len(Item(item))
         /\ \A j \in 1 .. end : buffer'[j] = buffer[j]
         /\ \A i \in 1 .. Len(Item(item)) : buffer'[end + i] = Item(item)[i]
<1>1. PICK data : data = Item(item)
  OBVIOUS
<1>2. data \in Seq(Byte) /\ Len(data) \in Nat
  BY <1>1, ItemFacts DEF LaidInv, WriterInv, Write, Byte
<1>3. PICK n \in Nat : n = Len(data)
  BY <1>2
<1>4. PICK room : room = Resized(n)
  OBVIOUS
<1>5. end \in Nat /\ end <= Len(buffer) /\ Len(buffer) \in Nat /\ buffer \in Seq(Byte)
  BY DEF LaidInv, WriterInv
<1>6. 0 \in Byte
  BY HostListAssumption DEF Byte
<1>7. /\ Len(room) \in Nat /\ DOMAIN room = 1 .. Len(room) /\ end + n <= Len(room)
  BY <1>4, Room DEF LaidInv
<1>8. /\ room \in Seq(Byte) /\ \A j \in 1 .. end : room[j] = buffer[j]
  <2>1. CASE end + n > Len(buffer)
    <3>1. PICK k \in Nat : k = GrownTo(Len(buffer), n)
      BY <1>5 DEF GrownTo
    <3>2. room = [i \in 1 .. k |-> IF i <= Len(buffer) THEN buffer[i] ELSE 0]
      BY <1>4, <2>1, <3>1 DEF Resized
    <3>3. \A i \in 1 .. k : (IF i <= Len(buffer) THEN buffer[i] ELSE 0) \in Byte
      BY <1>5, <1>6
    <3>4. room \in Seq(Byte) /\ Len(room) = k
      BY <3>2, <3>3
    <3>5. \A j \in 1 .. end : j \in 1 .. k /\ j <= Len(buffer)
      BY <3>4, <1>5, <1>7
    <3> QED
      BY <3>2, <3>4, <3>5
  <2>2. CASE ~(end + n > Len(buffer))
    BY <1>4, <1>5, <2>2 DEF Resized
  <2> QED
    BY <2>1, <2>2
<1>9. /\ buffer' = [i \in DOMAIN room |->
           IF i \in end + 1 .. end + n THEN data[i - end] ELSE room[i]]
      /\ end' = end + n
  BY <1>1, <1>3, <1>4 DEF Write
<1>10. ASSUME NEW i \in 1 .. Len(room)
       PROVE  (IF i \in end + 1 .. end + n THEN data[i - end] ELSE room[i]) \in Byte
  <2>1. i \in end + 1 .. end + n => i - end \in 1 .. n
    BY <1>5
  <2>2. i \in end + 1 .. end + n => data[i - end] \in Byte
    BY <2>1, <1>2, <1>3
  <2> QED
    BY <2>2, <1>7, <1>8
<1>11. buffer' \in Seq(Byte)
  BY <1>7, <1>9, <1>10
<1>12. \A j \in 1 .. end : buffer'[j] = buffer[j]
  <2> SUFFICES ASSUME NEW j \in 1 .. end PROVE buffer'[j] = buffer[j]
    OBVIOUS
  <2>1. j \in DOMAIN room /\ j \notin end + 1 .. end + n
    BY <1>5, <1>7
  <2> QED
    BY <2>1, <1>8, <1>9
<1>13. \A i \in 1 .. n : buffer'[end + i] = data[i]
  <2> SUFFICES ASSUME NEW i \in 1 .. n PROVE buffer'[end + i] = data[i]
    OBVIOUS
  <2>1. end + i \in DOMAIN room /\ end + i \in end + 1 .. end + n /\ (end + i) - end = i
    BY <1>5, <1>7
  <2> QED
    BY <2>1, <1>9
<1> QED
  BY <1>1, <1>3, <1>9, <1>11, <1>12, <1>13

LEMMA LaidKept == LaidInv /\ [Next]_vars => LaidInv'
<1> SUFFICES ASSUME LaidInv, [Next]_vars PROVE LaidInv'
  OBVIOUS
<1>1. WriterInv'
  BY WriterKept DEF LaidInv
<1>2. hosts' = hosts /\ \A k : Item(k)' = Item(k)
  <2>1. hosts' = hosts
    BY DEF Next, Write, SendSize, SendData, RecvSize, RecvData, ReadStep, Done, vars, writerVars
  <2> QED
    BY <2>1 DEF Item
<1>3. PICK off : Laid(off, item, end, buffer)
  BY DEF LaidInv
<1>4. item \in Nat /\ end \in Nat /\ Len(hosts) \in Nat
  BY DEF LaidInv, WriterInv
<1>5. CASE Write
  <2>1. /\ sender = "write" /\ sender' = "write" /\ item <= 2 * Len(hosts)
        /\ item' = item + 1
    BY <1>5 DEF Write
  <2>2. PICK n \in Nat : n = Len(Item(item))
    BY <1>4, <2>1, ItemFacts DEF LaidInv, WriterInv, Byte
  <2>3. /\ buffer' \in Seq(Byte) /\ end' = end + n
        /\ \A j \in 1 .. end : buffer'[j] = buffer[j]
        /\ \A i \in 1 .. n : buffer'[end + i] = Item(item)[i]
    BY <1>5, <2>2, WriteFacts
  <2>4. PICK new : new = [k \in 0 .. item + 1 |-> IF k = item + 1 THEN end + n ELSE off[k]]
    OBVIOUS
  <2>5. /\ off \in [0 .. item -> Nat] /\ off[0] = 0 /\ off[item] = end
        /\ \A k \in 0 .. item - 1 :
             /\ off[k+1] = off[k] + Len(Item(k)) /\ off[k+1] <= end
             /\ \A i \in 1 .. Len(Item(k)) : buffer[off[k] + i] = Item(k)[i]
    BY <1>3 DEF Laid
  <2>6. /\ new \in [0 .. item + 1 -> Nat] /\ new[item + 1] = end + n
        /\ \A k \in 0 .. item : new[k] = off[k]
    BY <1>4, <2>4, <2>5
  <2>7. ASSUME NEW k \in 0 .. item
        PROVE  /\ new[k+1] = new[k] + Len(Item(k)) /\ new[k+1] <= end + n
               /\ \A i \in 1 .. Len(Item(k)) : buffer'[new[k] + i] = Item(k)[i]
    <3>1. CASE k = item
      <4>1. item \in 0 .. item
        BY <1>4
      <4>2. new[item] = end
        BY <4>1, <2>5, <2>6
      <4>3. /\ new[item+1] = new[item] + Len(Item(item)) /\ new[item+1] <= end + n
            /\ \A i \in 1 .. Len(Item(item)) : buffer'[new[item] + i] = Item(item)[i]
        BY <4>2, <2>2, <2>3, <2>6, <1>4
      <4> QED
        BY <3>1, <4>3
    <3>2. CASE k # item
      <4>1. k \in 0 .. item - 1 /\ k + 1 \in 0 .. item
        BY <3>2, <1>4
      <4>2. PICK m \in Nat : m = Len(Item(k))
        <5>1. k \in Nat /\ k <= 2 * Len(hosts)
          BY <1>4, <2>1, <4>1
        <5>2. hosts \in Seq(Seq(Byte))
          BY DEF LaidInv, WriterInv, Byte
        <5> QED
          BY <5>1, <5>2, ItemFacts
      <4>3. /\ off[k] \in Nat /\ off[k+1] = off[k] + m /\ off[k+1] <= end
            /\ \A i \in 1 .. m : buffer[off[k] + i] = Item(k)[i]
        BY <2>5, <4>1, <4>2
      <4>4. ASSUME NEW i \in 1 .. m PROVE buffer'[off[k] + i] = Item(k)[i]
        <5>1. off[k] + i \in 1 .. end
          BY <4>3, <1>4
        <5> QED
          BY <5>1, <4>3, <2>3
      <4> QED
        BY <4>1, <4>2, <4>3, <4>4, <2>6, <1>4
    <3> QED
      BY <3>1, <3>2
  <2>8. Laid(new, item, end, buffer)'
    <3>1. (item + 1) - 1 = item /\ 0 \in 0 .. item
      BY <1>4
    <3>2. new[0] = 0
      BY <3>1, <2>5, <2>6
    <3> QED
      BY <3>1, <3>2, <2>1, <2>3, <2>6, <2>7, <1>2 DEF Laid
  <2>9. item' <= 2 * Len(hosts') + 1
    BY <1>2, <1>4, <2>1
  <2> QED
    BY <1>1, <2>1, <2>3, <2>8, <2>9 DEF LaidInv
<1>6. CASE UNCHANGED writerVars
  <2>1. item' = item /\ end' = end /\ buffer' = buffer
    BY <1>6 DEF writerVars
  <2>2. Laid(off, item, end, buffer)'
    BY <1>2, <1>3, <2>1 DEF Laid
  <2>3. /\ sender' \in {"write", "data", "done"}
        /\ sender' # "write" => item = 2 * Len(hosts) + 1
    <3>1. CASE SendSize
      <4>1. sender' = "data" /\ item > 2 * Len(hosts) /\ item <= 2 * Len(hosts) + 1
        BY <3>1 DEF SendSize, LaidInv
      <4>2. item = 2 * Len(hosts) + 1
        BY <4>1, <1>4
      <4> QED
        BY <4>1, <4>2
    <3>2. CASE SendData
      BY <3>2 DEF SendData, LaidInv
    <3>3. CASE Write
      BY <3>3, <2>1, <1>4 DEF Write
    <3>4. CASE sender' = sender
      BY <3>4 DEF LaidInv
    <3> QED
      BY <3>1, <3>2, <3>3, <3>4 DEF Next, RecvSize, RecvData, ReadStep, Done, vars
  <2> QED
    BY <1>1, <1>2, <2>1, <2>2, <2>3 DEF LaidInv
<1> QED
  BY <1>5, <1>6 DEF Next, SendSize, SendData, RecvSize, RecvData, ReadStep, Done, vars

-----------------------------------------------------------------------------
(* Numbers of items and of bytes are values of a size_t.                   *)
SizesFit == end < Power[Word] /\ Len(hosts) < Power[Word]

List == SubSeq(buffer, 1, end)
ChannelInv ==
  whole =>
    /\ receiver \in {"size", "data", "read", "done"}
    /\ receiver = "size" =>
         wire = IF sender = "write" THEN <<>>
                ELSE IF sender = "data" THEN Bytes(end) ELSE Bytes(end) \o List
    /\ receiver = "data" =>
         /\ sender # "write" /\ bufSize = end
         /\ wire = IF sender = "data" THEN <<>> ELSE List
    /\ receiver \in {"read", "done"} => sender = "done" /\ wire = <<>> /\ recvbuf = List

(* The reader is at an item: the number of hosts, or the length or the     *)
(* characters of the first of those that are still to come.                *)
AtStart == begin = 0 /\ toCome = Unknown /\ length = Unknown /\ remoteHosts = <<>>
AtItem(off) ==
  \/ AtStart
  \/ \E r \in 0 .. Len(hosts) :
       /\ toCome = Len(hosts) - r /\ remoteHosts = SubSeq(hosts, 1, r)
       /\ \/ length = Unknown /\ begin = off[2 * r + 1]
          \/ r < Len(hosts) /\ length = Len(hosts[r+1]) /\ begin = off[2 * r + 2]
ReaderInv ==
  whole =>
    /\ receiver \in {"size", "data"} => AtStart
    /\ receiver \in {"read", "done"} =>
         \E off : Laid(off, 2 * Len(hosts) + 1, end, recvbuf) /\ AtItem(off)
    /\ receiver = "done" => toCome = 0

ListInv == LaidInv /\ ChannelInv /\ ReaderInv

LEMMA ListFacts ==
  ASSUME LaidInv
  PROVE  /\ List \in Seq(Byte) /\ Len(List) = end /\ end \in Nat
         /\ \A i \in 1 .. end : List[i] = buffer[i]
         /\ Bytes(end) \in Seq(Byte) /\ Len(Bytes(end)) = Word
         /\ Len(hosts) \in Nat /\ hosts \in Seq(Seq(Byte))
<1>1. /\ buffer \in Seq(Byte) /\ end \in Nat /\ end <= Len(buffer)
      /\ Len(hosts) \in Nat /\ hosts \in Seq(Seq(Byte))
  BY DEF LaidInv, WriterInv, Byte
<1>2. Bytes(end) \in Seq(Byte) /\ Len(Bytes(end)) = Word
  BY <1>1, WordFacts DEF Byte
<1>3. List \in Seq(Byte) /\ Len(List) = end /\ \A i \in 1 .. end : List[i] = buffer[i]
  BY <1>1 DEF List
<1> QED
  BY <1>1, <1>2, <1>3

(* The list has at least the word with the number of hosts. *)
LEMMA SomethingSent ==
  ASSUME LaidInv, sender # "write"
  PROVE  end > 0 /\ item = 2 * Len(hosts) + 1
<1>1. PICK off : Laid(off, item, end, buffer)
  BY DEF LaidInv
<1>2. item = 2 * Len(hosts) + 1 /\ Len(hosts) \in Nat /\ end \in Nat
  BY ListFacts DEF LaidInv
<1>3. 0 \in 0 .. item - 1
  BY <1>2
<1>4. Len(Item(0)) = Word
  BY <1>2, WordFacts DEF Item
<1>5. off[0] = 0 /\ off[0+1] = off[0] + Len(Item(0)) /\ off[0+1] <= end
  BY <1>1, <1>3 DEF Laid
<1>6. Word \in Nat \ {0}
  BY HostListAssumption
<1> QED
  BY <1>2, <1>4, <1>5, <1>6

LEMMA Cut ==
  ASSUME NEW s \in Seq(Byte), NEW u \in Seq(Byte)
  PROVE  /\ SubSeq(s \o u, Len(s) + 1, Len(s \o u)) = u
         /\ [i \in 1 .. Len(s) |-> IF i <= Len(s) THEN (s \o u)[i] ELSE 0] = s
         /\ SubSeq(s, Len(s) + 1, Len(s)) = <<>>
         /\ [i \in 1 .. Len(s) |-> IF i <= Len(s) THEN s[i] ELSE 0] = s
<1>1. /\ s \o u \in Seq(Byte) /\ Len(s \o u) = Len(s) + Len(u) /\ Len(s) \in Nat
      /\ Len(u) \in Nat
      /\ \A i \in 1 .. Len(s) : (s \o u)[i] = s[i]
      /\ \A i \in 1 .. Len(u) : (s \o u)[Len(s) + i] = u[i]
  OBVIOUS
<1>2. PICK w \in Seq(Byte) : w = s \o u
  BY <1>1
<1>3. PICK v : v = SubSeq(w, Len(s) + 1, Len(w))
  OBVIOUS
<1>4. v \in Seq(Byte) /\ Len(v) = Len(u) /\ \A i \in 1 .. Len(u) : v[i] = w[Len(s) + i]
  BY <1>1, <1>2, <1>3
<1>5. v = u
  <2>1. \A i \in 1 .. Len(u) : v[i] = u[i]
    BY <1>1, <1>2, <1>4
  <2> QED
    BY <2>1, <1>4
<1>6. [i \in 1 .. Len(s) |-> IF i <= Len(s) THEN w[i] ELSE 0] = s
  BY <1>1, <1>2
<1>7. [i \in 1 .. Len(s) |-> IF i <= Len(s) THEN s[i] ELSE 0] = s
  OBVIOUS
<1>8. SubSeq(s, Len(s) + 1, Len(s)) = <<>>
  OBVIOUS
<1> QED
  BY <1>2, <1>3, <1>5, <1>6, <1>7, <1>8

LEMMA ListInitially == Init => ListInv
<1> SUFFICES ASSUME Init PROVE ListInv
  OBVIOUS
<1>1. LaidInv
  BY LaidInitially
<1>2. ChannelInv
  BY DEF Init, ChannelInv
<1>3. ReaderInv
  BY DEF Init, ReaderInv, AtStart
<1> QED
  BY <1>1, <1>2, <1>3 DEF ListInv

(* What the writer and the sender do, seen by the reader.                  *)
LEMMA WriterSteps ==
  ASSUME ListInv, [Next]_vars, Write \/ SendSize \/ SendData \/ UNCHANGED vars
  PROVE  ListInv'
<1>1. LaidInv' /\ LaidInv
  BY LaidKept DEF ListInv
<1>2. UNCHANGED <<whole, hosts, receiver, bufSize, recvbuf, begin, toCome, length, remoteHosts>>
  BY DEF Write, SendSize, SendData, vars, writerVars, readerVars
<1>3. CASE Write
  <2>1. sender = "write" /\ sender' = "write" /\ wire' = wire
    BY <1>3 DEF Write
  <2>2. ChannelInv'
    BY <1>2, <2>1 DEF ListInv, ChannelInv
  <2>3. whole => receiver = "size"
    BY <2>1 DEF ListInv, ChannelInv
  <2>4. ReaderInv'
    BY <1>2, <2>3 DEF ListInv, ReaderInv, AtStart
  <2> QED
    BY <1>1, <2>2, <2>4 DEF ListInv
<1>4. CASE SendSize \/ SendData \/ UNCHANGED vars
  <2>1. UNCHANGED <<item, end, buffer>>
    BY <1>4 DEF SendSize, SendData, vars, writerVars
  <2>2. ReaderInv'
    <3>1. \A off : /\ AtItem(off)' = AtItem(off)
                   /\ Laid(off, 2 * Len(hosts) + 1, end, recvbuf)'
                        = Laid(off, 2 * Len(hosts) + 1, end, recvbuf)
      BY <1>2, <2>1 DEF AtItem, AtStart, Laid, Item
    <3> QED
      BY <1>2, <2>1, <3>1 DEF ListInv, ReaderInv, AtStart
  <2>3. List' = List
    BY <2>1 DEF List
  <2>4. CASE SendSize
    <3>1. sender = "write" /\ sender' = "data" /\ wire' = wire \o Bytes(end)
      BY <2>4 DEF SendSize, ListSize
    <3>2. whole => receiver = "size" /\ wire = <<>>
      BY <3>1 DEF ListInv, ChannelInv
    <3>3. <<>> \o Bytes(end) = Bytes(end)
      BY <1>1, ListFacts
    <3> QED
      BY <1>1, <1>2, <2>1, <2>2, <3>1, <3>2, <3>3 DEF ListInv, ChannelInv
  <2>5. CASE SendData
    <3>1. sender = "data" /\ sender' = "done" /\ wire' = wire \o List
      BY <2>5 DEF SendData, ListSize, List
    <3>2. <<>> \o List = List
      BY <1>1, ListFacts
    <3>3. ChannelInv'
      BY <1>2, <2>1, <2>3, <3>1, <3>2 DEF ListInv, ChannelInv
    <3> QED
      BY <1>1, <2>2, <3>3 DEF ListInv
  <2>6. CASE UNCHANGED vars
    <3>1. ChannelInv'
      BY <2>6, <2>3 DEF vars, writerVars, ListInv, ChannelInv
    <3> QED
      BY <1>1, <2>2, <3>1 DEF ListInv
  <2> QED
    BY <1>4, <2>4, <2>5, <2>6
<1> QED
  BY <1>3, <1>4

LEMMA RecvSizeStep ==
  ASSUME ListInv, SizesFit, RecvSize, LaidInv'
  PROVE  ListInv'
<1>1. LaidInv
  BY DEF ListInv
<1>2. /\ receiver = "size" /\ receiver' = "data"
      /\ UNCHANGED <<whole, hosts, item, end, buffer, sender, recvbuf, begin, toCome,
                    length, remoteHosts>>
  BY DEF RecvSize, writerVars, readerVars
<1>3. PICK k \in 1 .. Word : RecvOnce(Word, k) /\ bufSize' = Value(Received(Word, k))
  BY DEF RecvSize
<1>4. ReaderInv'
  BY <1>2 DEF ListInv, ReaderInv, AtStart
<1>5. ASSUME whole
      PROVE  /\ sender # "write" /\ bufSize' = end
             /\ wire' = IF sender = "data" THEN <<>> ELSE List
  <2>1. k = Word /\ Word <= Len(wire) /\ wire' = SubSeq(wire, Word + 1, Len(wire))
    BY <1>3, <1>5, HostListAssumption DEF RecvOnce
  <2>2. wire = IF sender = "write" THEN <<>>
               ELSE IF sender = "data" THEN Bytes(end) ELSE Bytes(end) \o List
    BY <1>2, <1>5 DEF ListInv, ChannelInv
  <2>3. sender # "write"
    BY <2>1, <2>2, HostListAssumption
  <2>4. PICK s \in Seq(Byte) : s = Bytes(end) /\ Len(s) = Word
    BY <1>1, ListFacts
  <2>5. PICK u \in Seq(Byte) : u = List
    BY <1>1, ListFacts
  <2>6. Received(Word, k) = s /\ wire' = IF sender = "data" THEN <<>> ELSE u
    <3>1. CASE sender = "data"
      <4>1. wire = s
        BY <2>2, <2>4, <3>1
      <4>2. Received(Word, k) = s
        BY <2>1, <2>4, <4>1, Cut DEF Received
      <4>3. wire' = <<>>
        BY <2>1, <2>4, <4>1, Cut
      <4> QED
        BY <3>1, <4>2, <4>3
    <3>2. CASE sender # "data"
      <4>1. wire = s \o u
        BY <2>2, <2>3, <2>4, <2>5, <3>2
      <4>2. Received(Word, k) = s
        BY <2>1, <2>4, <4>1, Cut DEF Received
      <4>3. wire' = u
        BY <2>1, <2>4, <4>1, Cut
      <4> QED
        BY <3>2, <4>2, <4>3
    <3> QED
      BY <3>1, <3>2
  <2>7. bufSize' = Value(Bytes(end))
    BY <1>3, <2>4, <2>6
  <2>8. Value(Bytes(end)) = end
    BY <1>1, ListFacts, WordRoundTrip DEF SizesFit
  <2> QED
    BY <2>3, <2>5, <2>6, <2>7, <2>8
<1>6. ChannelInv'
  <2>1. List' = List
    BY <1>2 DEF List
  <2> QED
    BY <1>2, <1>5, <2>1 DEF ChannelInv
<1> QED
  BY <1>4, <1>6 DEF ListInv

LEMMA RecvDataStep ==
  ASSUME ListInv, RecvData, LaidInv'
  PROVE  ListInv'
<1>1. LaidInv
  BY DEF ListInv
<1>2. /\ receiver = "data" /\ receiver' = "read"
      /\ UNCHANGED <<whole, hosts, item, end, buffer, sender, bufSize, begin, toCome,
                    length, remoteHosts>>
  BY DEF RecvData, writerVars, readerVars
<1>3. PICK k \in 0 .. Len(wire) : RecvOnce(bufSize, k) /\ recvbuf' = Received(bufSize, k)
  BY DEF RecvData
<1>4. List' = List
  BY <1>2 DEF List
<1>5. ASSUME whole
      PROVE  sender = "done" /\ wire' = <<>> /\ recvbuf' = List /\ AtStart
  <2>1. /\ AtStart /\ sender # "write" /\ bufSize = end
        /\ wire = IF sender = "data" THEN <<>> ELSE List
    BY <1>2, <1>5 DEF ListInv, ReaderInv, ChannelInv
  <2>2. k = end /\ end <= Len(wire) /\ wire' = SubSeq(wire, end + 1, Len(wire))
    BY <1>3, <1>5, <2>1 DEF RecvOnce
  <2>3. end > 0
    BY <1>1, <2>1, SomethingSent
  <2>4. sender = "done"
    BY <1>1, <2>1, <2>2, <2>3, ListFacts DEF LaidInv
  <2>5. PICK u \in Seq(Byte) : u = List /\ Len(u) = end
    BY <1>1, ListFacts
  <2>6. wire = u
    BY <2>1, <2>4, <2>5
  <2>7. wire' = <<>>
    BY <2>2, <2>5, <2>6, Cut
  <2>8. Received(bufSize, k) = u
    BY <2>1, <2>2, <2>5, <2>6, Cut DEF Received
  <2> QED
    BY <1>3, <2>1, <2>4, <2>5, <2>7, <2>8
<1>6. ChannelInv'
  BY <1>2, <1>4, <1>5 DEF ChannelInv
<1>7. ReaderInv'
  <2> SUFFICES ASSUME whole
               PROVE  \E off : (Laid(off, 2 * Len(hosts) + 1, end, recvbuf) /\ AtItem(off))'
    BY <1>2 DEF ReaderInv
  <2>1. recvbuf' = List /\ AtStart /\ item = 2 * Len(hosts) + 1
    BY <1>1, <1>5, SomethingSent
  <2>2. PICK off : Laid(off, item, end, buffer)
    BY <1>1 DEF LaidInv
  <2>3. AtItem(off)'
    BY <1>2, <2>1 DEF AtItem, AtStart
  <2>4. Laid(off, item, end, List)
    <3>1. ASSUME NEW j \in 0 .. item - 1, NEW i \in 1 .. Len(Item(j))
          PROVE  List[off[j] + i] = Item(j)[i]
      <4>1. /\ off[j] \in Nat /\ off[j+1] = off[j] + Len(Item(j)) /\ off[j+1] <= end
            /\ buffer[off[j] + i] = Item(j)[i]
        <5>1. item \in Nat /\ j \in 0 .. item
          BY <1>1, <2>1, ListFacts
        <5> QED
          BY <5>1, <2>2 DEF Laid
      <4>2. j \in Nat /\ j <= 2 * Len(hosts) /\ hosts \in Seq(Seq(Byte))
        BY <1>1, <2>1, ListFacts
      <4>3. Len(Item(j)) \in Nat
        BY <4>2, ItemFacts
      <4>4. off[j] + i \in 1 .. end
        BY <1>1, <4>1, <4>3, ListFacts
      <4> QED
        BY <1>1, <4>1, <4>4, ListFacts
    <3> QED
      BY <2>2, <3>1 DEF Laid
  <2>5. Laid(off, 2 * Len(hosts) + 1, end, recvbuf)'
    BY <1>2, <2>1, <2>4 DEF Laid, Item
  <2> QED
    BY <2>3, <2>5
<1> QED
  BY <1>6, <1>7 DEF ListInv

(* An item that is next is in the buffer as a whole.                       *)
LEMMA NextItem ==
  ASSUME LaidInv, recvbuf = List, NEW off, NEW k \in 0 .. 2 * Len(hosts),
         Laid(off, 2 * Len(hosts) + 1, end, recvbuf), begin = off[k]
  PROVE  /\ InBuffer(Len(Item(k))) /\ Taken(Len(Item(k))) = Item(k)
         /\ begin + Len(Item(k)) = off[k+1] /\ Len(Item(k)) <= end /\ Len(Item(k)) \in Nat
<1>1. /\ recvbuf \in Seq(Byte) /\ Len(recvbuf) = end /\ end \in Nat
      /\ Len(hosts) \in Nat /\ hosts \in Seq(Seq(Byte))
  BY ListFacts
<1>2. k \in 0 .. (2 * Len(hosts) + 1) - 1 /\ k \in 0 .. 2 * Len(hosts) + 1
  BY <1>1
<1>3. Item(k) \in Seq(Byte) /\ Len(Item(k)) \in Nat
  BY <1>1, ItemFacts
<1>4. PICK d \in Seq(Byte) : d = Item(k)
  BY <1>3
<1>5. /\ begin \in Nat /\ off[k+1] = begin + Len(d) /\ off[k+1] <= end
      /\ \A i \in 1 .. Len(d) : recvbuf[begin + i] = d[i]
  BY <1>2, <1>4 DEF Laid
<1>6. InBuffer(Len(d))
  BY <1>1, <1>5 DEF InBuffer
<1>7. Taken(Len(d)) = d
  <2>1. PICK n \in Nat : n = Len(d)
    OBVIOUS
  <2>2. PICK v : v = SubSeq(recvbuf, begin + 1, begin + n)
    OBVIOUS
  <2>3. v \in Seq(Byte) /\ Len(v) = n /\ \A i \in 1 .. n : v[i] = recvbuf[begin + i]
    <3>1. PICK b \in Nat, w \in Seq(Byte) : b = begin /\ w = recvbuf
      BY <1>1, <1>5
    <3>2. b + n <= Len(w) /\ v = SubSeq(w, b + 1, b + n)
      BY <1>1, <1>5, <2>1, <2>2, <3>1
    <3>3. \A i \in b + 1 .. b + n : i \in 1 .. Len(w) /\ w[i] \in Byte
      BY <3>2
    <3>4. Len(v) = n /\ v \in Seq(Byte)
      BY <3>2, <3>3
    <3>5. \A i \in 1 .. n : v[i] = w[b + i]
      BY <3>2
    <3> QED
      BY <3>1, <3>4, <3>5
  <2>4. \A i \in 1 .. n : v[i] = d[i]
    BY <1>5, <2>1, <2>3
  <2>5. v = d
    BY <2>1, <2>3, <2>4
  <2> QED
    BY <2>1, <2>2, <2>5 DEF Taken
<1>8. Len(d) <= end
  BY <1>1, <1>5
<1> QED
  BY <1>4, <1>5, <1>6, <1>7, <1>8

(* The length of a name is less than that of the list. *)
LEMMA Fits ==
  ASSUME LaidInv, SizesFit, recvbuf = List, NEW off, NEW r \in 1 .. Len(hosts),
         Laid(off, 2 * Len(hosts) + 1, end, recvbuf)
  PROVE  Len(hosts[r]) < Power[Word]
<1>1. end \in Nat /\ Len(hosts) \in Nat /\ hosts \in Seq(Seq(Byte))
  BY ListFacts
<1>2. 2 * r \in 0 .. (2 * Len(hosts) + 1) - 1 /\ 2 * r \in 0 .. 2 * Len(hosts) + 1
  BY <1>1
<1>3. Item(2 * r) = hosts[r] /\ Len(hosts[r]) \in Nat
  BY <1>1, <1>2, ItemFacts
<1>4. /\ off[2 * r + 1] = off[2 * r] + Len(Item(2 * r)) /\ off[2 * r + 1] <= end
      /\ off[2 * r] \in Nat
  BY <1>2 DEF Laid
<1>5. Word \in 0 .. Word /\ Power[Word] \in Nat
  BY PowerFacts, HostListAssumption
<1> QED
  BY <1>1, <1>3, <1>4, <1>5 DEF SizesFit

LEMMA ReadStepStep ==
  ASSUME ListInv, SizesFit, ReadStep, LaidInv'
  PROVE  ListInv'
<1>1. LaidInv
  BY DEF ListInv
<1>2. /\ receiver = "read"
      /\ UNCHANGED <<whole, hosts, item, end, buffer, sender, wire, bufSize, recvbuf>>
  BY DEF ReadStep, writerVars
<1>3. List' = List
  BY <1>2 DEF List
<1> SUFFICES ASSUME whole
             PROVE  /\ receiver' \in {"read", "done"}
                    /\ \E off : Laid(off, 2 * Len(hosts) + 1, end, recvbuf) /\ AtItem(off)'
                    /\ receiver' = "done" => toCome' = 0
  <2>1. \A off : Laid(off, 2 * Len(hosts) + 1, end, recvbuf)'
                  = Laid(off, 2 * Len(hosts) + 1, end, recvbuf)
    BY <1>2 DEF Laid, Item
  <2>2. whole /\ receiver' \in {"read", "done"} => ChannelInv'
    BY <1>2, <1>3 DEF ListInv, ChannelInv
  <2>3. ~whole => ChannelInv' /\ ReaderInv'
    BY <1>2 DEF ChannelInv, ReaderInv
  <2>4. whole = TRUE \/ ~whole
    OBVIOUS
  <2> QED
    BY <1>2, <2>1, <2>2, <2>3 DEF ReaderInv, ListInv
<1>4. recvbuf = List
  BY <1>2 DEF ListInv, ChannelInv
<1>5. PICK off : Laid(off, 2 * Len(hosts) + 1, end, recvbuf) /\ AtItem(off)
  BY <1>2 DEF ListInv, ReaderInv
<1>6. PICK L \in Nat : L = Len(hosts)
  BY <1>1, ListFacts
<1>7. hosts \in Seq(Seq(Byte)) /\ \A r \in 1 .. L : Len(hosts[r]) \in Nat
  BY <1>1, <1>6, ListFacts
<1>8. off[0] = 0 /\ end \in Nat
  BY <1>1, <1>5, ListFacts DEF Laid
<1>9. CASE ReadCount
  <2>1. AtStart
    BY <1>5, <1>6, <1>9 DEF AtItem, ReadCount, Unknown
  <2>2. 0 \in 0 .. 2 * L /\ begin = off[0]
    BY <1>8, <2>1 DEF AtStart
  <2>3. Item(0) = Bytes(L) /\ Len(Item(0)) = Word
    BY <1>6, WordFacts DEF Item
  <2>4. InBuffer(Word) /\ Taken(Word) = Bytes(L) /\ begin + Word = off[0+1]
    BY <1>1, <1>4, <1>5, <1>6, <2>2, <2>3, NextItem
  <2>5. Value(Taken(Word)) = L
    BY <1>6, <2>4, WordRoundTrip DEF SizesFit
  <2>6. /\ begin' = off[1] /\ receiver' = receiver /\ toCome' = L
        /\ length' = Unknown /\ remoteHosts' = <<>>
    BY <1>9, <2>1, <2>4, <2>5 DEF ReadCount, Throw, Read, AtStart
  <2>7. AtItem(off)'
    <3>1. /\ 0 \in 0 .. Len(hosts') /\ toCome' = Len(hosts') - 0
          /\ remoteHosts' = SubSeq(hosts', 1, 0)
          /\ length' = Unknown /\ begin' = off[2 * 0 + 1]
      BY <1>2, <1>6, <1>7, <2>6
    <3> QED
      BY <3>1 DEF AtItem
  <2> QED
    BY <1>2, <1>5, <2>6, <2>7
<1>10. CASE ~ReadCount
  <2>1. CASE AtStart
    <3>1. toCome = -1 /\ length = -1
      BY <2>1 DEF AtStart, Unknown
    <3>2. ~ReadLength /\ ~ReadChars /\ ~ReadReturn
      BY <3>1 DEF ReadLength, ReadChars, ReadReturn, Unknown
    <3> QED
      BY <3>2, <1>10 DEF ReadStep
  <2>2. CASE ~AtStart
    <3>1. PICK r \in 0 .. L :
            /\ toCome = L - r /\ remoteHosts = SubSeq(hosts, 1, r)
            /\ \/ length = Unknown /\ begin = off[2 * r + 1]
               \/ r < L /\ length = Len(hosts[r+1]) /\ begin = off[2 * r + 2]
      BY <1>5, <1>6, <2>2 DEF AtItem
    <3>2. CASE ReadLength
      <4>1. toCome > 0 /\ length = Unknown
        BY <3>2 DEF ReadLength
      <4>2. r \in 0 .. L - 1 /\ r + 1 \in 1 .. L /\ L - r > 0
        BY <3>1, <4>1, <1>6
      <4>3. PICK n \in Nat : n = Len(hosts[r+1])
        BY <1>7, <4>2
      <4>4. begin = off[2 * r + 1]
        BY <3>1, <4>1, <4>2, <1>7 DEF Unknown
      <4>5. PICK k \in 0 .. 2 * L : k = 2 * r + 1 /\ k + 1 = 2 * (r + 1) /\ k = 2 * (r + 1) - 1
        BY <4>2, <1>6
      <4>6. Item(k) = Bytes(n) /\ Len(Item(k)) = Word
        <5>1. Item(2 * (r + 1) - 1) = Bytes(Len(hosts[r+1]))
          BY <1>6, <1>7, <4>2, <4>5, ItemFacts
        <5> QED
          BY <5>1, <4>3, <4>5, WordFacts
      <4>7. InBuffer(Word) /\ Taken(Word) = Bytes(n) /\ begin + Word = off[k+1]
        BY <1>1, <1>4, <1>5, <1>6, <4>4, <4>5, <4>6, NextItem
      <4>8. n < Power[Word]
        BY <1>1, <1>4, <1>5, <1>6, <1>7, <4>2, <4>3, Fits
      <4>9. Value(Taken(Word)) = n
        BY <4>7, <4>8, WordRoundTrip
      <4>10. /\ begin' = off[2 * r + 2] /\ receiver' = receiver /\ length' = n
             /\ toCome' = toCome /\ remoteHosts' = remoteHosts
        <5>1. k + 1 = 2 * r + 2
          BY <4>5, <4>2
        <5> QED
          BY <3>2, <4>7, <4>9, <5>1 DEF ReadLength, Throw, Read
      <4>11. AtItem(off)'
        <5>1. /\ r \in 0 .. Len(hosts') /\ toCome' = Len(hosts') - r
              /\ remoteHosts' = SubSeq(hosts', 1, r)
              /\ r < Len(hosts') /\ length' = Len(hosts'[r+1]) /\ begin' = off[2 * r + 2]
          BY <1>2, <1>6, <3>1, <4>2, <4>3, <4>10
        <5> QED
          BY <5>1 DEF AtItem
      <4> QED
        BY <1>2, <1>5, <4>10, <4>11
    <3>3. CASE ReadChars
      <4>1. r < L /\ length = Len(hosts[r+1]) /\ begin = off[2 * r + 2]
        BY <3>1, <3>3 DEF ReadChars
      <4>2. r \in 0 .. L - 1 /\ r + 1 \in 1 .. L
        BY <3>1, <4>1, <1>6
      <4>3. PICK k \in 0 .. 2 * L : k = 2 * r + 2 /\ k = 2 * (r + 1) /\ k + 1 = 2 * (r + 1) + 1
        BY <4>2, <1>6
      <4>4. Item(k) = hosts[r+1]
        BY <1>6, <1>7, <4>2, <4>3, ItemFacts
      <4>5. /\ InBuffer(length) /\ Taken(length) = hosts[r+1]
            /\ begin + length = off[k+1]
        BY <1>1, <1>4, <1>5, <1>6, <4>1, <4>3, <4>4, NextItem
      <4>6. /\ begin' = off[2 * (r + 1) + 1] /\ receiver' = receiver /\ length' = Unknown
            /\ toCome' = toCome - 1 /\ remoteHosts' = Append(remoteHosts, hosts[r+1])
        BY <3>3, <4>3, <4>5 DEF ReadChars, Throw, Read
      <4>7. Append(SubSeq(hosts, 1, r), hosts[r+1]) = SubSeq(hosts, 1, r + 1)
        BY <1>6, <1>7, <4>2
      <4>8. AtItem(off)'
        <5>1. /\ r + 1 \in 0 .. Len(hosts') /\ toCome' = Len(hosts') - (r + 1)
              /\ remoteHosts' = SubSeq(hosts', 1, r + 1)
              /\ length' = Unknown /\ begin' = off[2 * (r + 1) + 1]
          <6>1. toCome' = L - (r + 1)
            BY <3>1, <4>6, <4>2, <1>6
          <6>2. remoteHosts' = SubSeq(hosts, 1, r + 1)
            BY <3>1, <4>6, <4>7
          <6> QED
            BY <1>2, <1>6, <4>2, <4>6, <6>1, <6>2
        <5> QED
          BY <5>1 DEF AtItem
      <4> QED
        BY <1>2, <1>5, <4>6, <4>8
    <3>4. CASE ReadReturn
      <4>1. /\ toCome = 0 /\ receiver' = "done"
            /\ UNCHANGED <<begin, toCome, length, remoteHosts>>
        BY <3>4 DEF ReadReturn, readerVars
      <4>2. AtItem(off)'
        BY <1>2, <1>5, <4>1 DEF AtItem, AtStart
      <4> QED
        BY <1>2, <1>5, <4>1, <4>2
    <3> QED
      BY <3>2, <3>3, <3>4, <1>10 DEF ReadStep
  <2> QED
    BY <2>1, <2>2
<1> QED
  BY <1>9, <1>10

LEMMA ListKept == ListInv /\ SizesFit /\ [Next]_vars => ListInv'
<1> SUFFICES ASSUME ListInv, SizesFit, [Next]_vars PROVE ListInv'
  OBVIOUS
<1>1. LaidInv'
  BY LaidKept DEF ListInv
<1>2. CASE Write \/ SendSize \/ SendData \/ UNCHANGED vars
  BY <1>2, WriterSteps
<1>3. CASE RecvSize
  BY <1>1, <1>3, RecvSizeStep
<1>4. CASE RecvData
  BY <1>1, <1>4, RecvDataStep
<1>5. CASE ReadStep
  BY <1>1, <1>5, ReadStepStep
<1> QED
  BY <1>2, <1>3, <1>4, <1>5 DEF Next, Done

(* When the last string is read, so is the last byte. *)
LEMMA ListRead == ListInv => RoundTrip
<1> SUFFICES ASSUME ListInv, whole
             PROVE  /\ receiver # "threw"
                    /\ receiver = "done" =>
                         remoteHosts = hosts /\ begin = Len(recvbuf) /\ wire = <<>>
  BY DEF RoundTrip
<1>1. receiver # "threw"
  BY DEF ListInv, ChannelInv
<1>2. ASSUME receiver = "done"
      PROVE  remoteHosts = hosts /\ begin = Len(recvbuf) /\ wire = <<>>
  <2>1. wire = <<>> /\ recvbuf = List /\ toCome = 0
    BY <1>2 DEF ListInv, ChannelInv, ReaderInv
  <2>2. /\ Len(recvbuf) = end /\ Len(hosts) \in Nat /\ hosts \in Seq(Seq(Byte))
    BY <2>1, ListFacts DEF ListInv
  <2>3. PICK off : Laid(off, 2 * Len(hosts) + 1, end, recvbuf) /\ AtItem(off)
    BY <1>2 DEF ListInv, ReaderInv
  <2>4. ~AtStart
    BY <2>1 DEF AtStart, Unknown
  <2>5. PICK r \in 0 .. Len(hosts) :
          /\ toCome = Len(hosts) - r /\ remoteHosts = SubSeq(hosts, 1, r)
          /\ \/ length = Unknown /\ begin = off[2 * r + 1]
             \/ r < Len(hosts) /\ length = Len(hosts[r+1]) /\ begin = off[2 * r + 2]
    BY <2>3, <2>4 DEF AtItem
  <2>6. r = Len(hosts)
    BY <2>1, <2>2, <2>5
  <2>7. remoteHosts = hosts
    BY <2>2, <2>5, <2>6
  <2>8. begin = end
    BY <2>2, <2>3, <2>5, <2>6 DEF Laid
  <2> QED
    BY <2>1, <2>2, <2>7, <2>8
<1> QED
  BY <1>1, <1>2

(* RoundTrip holds of every list whose sizes are values of a size_t.  The  *)
(* simulation rank that receives what it asks for has the list of the      *)
(* client's rank 0, whatever the length of its names and however often     *)
(* the WriteBuffer grew, and nothing is left in the socket.                *)
THEOREM ListArrives == Spec /\ []SizesFit => []RoundTrip
<1>1. Init => ListInv
  BY ListInitially
<1>2. ListInv /\ SizesFit /\ [Next]_vars => ListInv'
  BY ListKept
<1>3. ListInv => RoundTrip
  BY ListRead
<1> QED
  BY <1>1, <1>2, <1>3, PTL DEF Spec
=============================================================================
