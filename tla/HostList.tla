------------------------------ MODULE HostList ------------------------------
(***************************************************************************)
(* The list of hosts that rank 0 of the client job sends to every rank of  *)
(* the simulation during the set-up of the sockets: written to a           *)
(* WriteBuffer, sent as a size and the bytes, each of them received by a   *)
(* single ::recv, and read out of a ReadBuffer.  A list is a vector of     *)
(* strings: a uint64_t count, and for each string its length and its       *)
(* characters.                                                             *)
(***************************************************************************)
EXTENDS Integers, Sequences

CONSTANTS
  HostLists,   \* the lists there are: sequences of sequences of bytes
  Base, Word,  \* values of a byte, bytes of a uint64_t (little endian)
  Capacity     \* initial capacity of a WriteBuffer

ASSUME HostListAssumption ==
  /\ Base \in Nat \ {0, 1} /\ Word \in Nat \ {0} /\ Capacity \in Nat
  /\ HostLists \subseteq Seq(Seq(0 .. Base - 1))

VARIABLES
  whole,                    \* whether a ::recv returns all that it asks for
  hosts,
  item, end, buffer,        \* WriteBuffer, and the next write to it
  sender, wire,             \* "write", "size", "data", "done"; the socket
  receiver, bufSize,        \* "size", "data", "read", "done", "threw"
  begin, recvbuf,           \* ReadBuffer
  toCome, length, remoteHosts  \* strings to read, and one whose length is read

writerVars == <<whole, hosts, item, end, buffer>>
readerVars == <<begin, toCome, length, remoteHosts>>
vars == <<writerVars, sender, wire, receiver, bufSize, recvbuf, readerVars>>

(* memcpy of a uint64_t to its bytes, the lowest first, and back.          *)
Quotients(v) ==
  LET q[i \in 0 .. Word] == IF i = 0 THEN v ELSE q[i-1] \div Base IN q
Bytes(v) == [i \in 1 .. Word |-> Quotients(v)[i-1] % Base]
Sums(s) ==
  LET u[i \in 0 .. Word] == IF i = 0 THEN 0 ELSE s[Word + 1 - i] + Base * u[i-1] IN u
Value(s) == Sums(s)[Word]
Zeros(n) == [i \in 1 .. n |-> 0]

Unknown == -1    \* of toCome and length: not read yet
Init ==
  /\ hosts \in HostLists /\ whole \in BOOLEAN
  /\ item = 0 /\ end = 0 /\ buffer = Zeros(Capacity)
  /\ sender = "write" /\ wire = <<>>
  /\ receiver = "size" /\ bufSize = 0 /\ recvbuf = <<>>
  /\ begin = 0 /\ toCome = Unknown /\ length = Unknown /\ remoteHosts = <<>>

-----------------------------------------------------------------------------
(* The writes of hostsbuf << hosts. *)
Item(k) ==
  IF k = 0 THEN Bytes(Len(hosts))
  ELSE IF k % 2 = 1 THEN Bytes(Len(hosts[(k + 1) \div 2]))
  ELSE hosts[k \div 2]

(* resize keeps what there is.  Mutated form: by half of it, no more.      *)
GrownByHalf(capacity, n) == (3 * capacity + 1) \div 2
GrownTo(capacity, n) ==
  LET half == (3 * capacity + 1) \div 2 IN
  IF half >= capacity + n THEN half ELSE capacity + n

Resized(n) ==
  IF end + n > Len(buffer)
  THEN [i \in 1 .. GrownTo(Len(buffer), n) |->
          IF i <= Len(buffer) THEN buffer[i] ELSE 0]
  ELSE buffer

Write ==
  /\ sender = "write" /\ item <= 2 * Len(hosts)
  /\ LET data == Item(item) IN
       /\ buffer' = [i \in DOMAIN Resized(Len(data)) |->
            IF i \in end + 1 .. end + Len(data) THEN data[i - end]
            ELSE Resized(Len(data))[i]]
       /\ end' = end + Len(data)
  /\ item' = item + 1
  /\ UNCHANGED <<whole, hosts, sender, wire, receiver, bufSize, recvbuf, readerVars>>

(* Mutated form of size(): the size of the vector. *)
VectorSize == Len(buffer)
ListSize == end
SendSize ==
  /\ sender = "write" /\ item > 2 * Len(hosts)
  /\ wire' = wire \o Bytes(ListSize) /\ sender' = "data"
  /\ UNCHANGED <<writerVars, receiver, bufSize, recvbuf, readerVars>>
SendData ==
  /\ sender = "data"
  /\ wire' = wire \o SubSeq(buffer, 1, ListSize) /\ sender' = "done"
  /\ UNCHANGED <<writerVars, receiver, bufSize, recvbuf, readerVars>>

-----------------------------------------------------------------------------
(* One ::recv of n bytes into zeros: what it leaves out stays 0.           *)
RecvOnce(n, k) ==
  /\ k \in (IF whole \/ n = 0 THEN {n} ELSE 1 .. n)
  /\ k <= Len(wire)
  /\ wire' = SubSeq(wire, k + 1, Len(wire))
Received(n, k) == [i \in 1 .. n |-> IF i <= k THEN wire[i] ELSE 0]

RecvSize ==
  /\ receiver = "size"
  /\ \E k \in 1 .. Word :
       RecvOnce(Word, k) /\ bufSize' = Value(Received(Word, k))
  /\ receiver' = "data"
  /\ UNCHANGED <<writerVars, sender, recvbuf, readerVars>>
RecvData ==
  /\ receiver = "data"
  /\ \E k \in 0 .. Len(wire) :
       RecvOnce(bufSize, k) /\ recvbuf' = Received(bufSize, k)
  /\ receiver' = "read"
  /\ UNCHANGED <<writerVars, sender, bufSize, readerVars>>

-----------------------------------------------------------------------------
(* readbuf >> remoteHosts *)
InBuffer(n) == begin + n <= Len(recvbuf)
Read(n) == begin' = begin + n /\ UNCHANGED receiver
Taken(n) == SubSeq(recvbuf, begin + 1, begin + n)

(* The buffer is out of bytes, or a string is too long to be allocated.    *)
Throw(n) ==
  /\ ~InBuffer(n) /\ receiver' = "threw" /\ UNCHANGED readerVars

ReadCount ==
  /\ toCome = Unknown
  /\ \/ InBuffer(Word) /\ Read(Word) /\ toCome' = Value(Taken(Word))
        /\ UNCHANGED <<length, remoteHosts>>
     \/ Throw(Word)
ReadLength ==
  /\ toCome > 0 /\ length = Unknown
  /\ \/ InBuffer(Word) /\ Read(Word) /\ length' = Value(Taken(Word))
        /\ UNCHANGED <<toCome, remoteHosts>>
     \/ Throw(Word)
ReadChars ==
  /\ length # Unknown
  /\ \/ /\ InBuffer(length) /\ Read(length)
        /\ remoteHosts' = Append(remoteHosts, Taken(length))
        /\ toCome' = toCome - 1 /\ length' = Unknown
     \/ Throw(length)
ReadReturn ==
  toCome = 0 /\ receiver' = "done" /\ UNCHANGED readerVars

ReadStep ==
  /\ receiver = "read"
  /\ ReadCount \/ ReadLength \/ ReadChars \/ ReadReturn
  /\ UNCHANGED <<writerVars, sender, wire, bufSize, recvbuf>>

Done == receiver \in {"done", "threw"} /\ sender = "done" /\ UNCHANGED vars
Next == Write \/ SendSize \/ SendData \/ RecvSize \/ RecvData \/ ReadStep \/ Done
Spec == Init /\ [][Next]_vars

-----------------------------------------------------------------------------
(* memcpy stays inside of the vector of a WriteBuffer, however small it    *)
(* was and however long the string is.                                     *)
WriteFits == end <= Len(buffer)

(* Where a recv returns what it asks for, the simulation rank has the very *)
(* list of the client's rank 0, has read every byte of it, and leaves no   *)
(* byte in the socket, where the first int of a command would be searched. *)
RoundTrip ==
  whole => /\ receiver # "threw"
           /\ receiver = "done" =>
                remoteHosts = hosts /\ begin = Len(recvbuf) /\ wire = <<>>
=============================================================================
