---------------------------- MODULE StreamProofs ----------------------------
(***************************************************************************)
(* SocketStream for every sequence of messages, every capacity of the      *)
(* socket buffers and every number of interrupted calls: its types are     *)
(* kept, and up to the first call that fails the receiver writes within    *)
(* the buffer it was given, returns the messages that were sent, and the   *)
(* two loops together are a queue of whole messages.                       *)
(***************************************************************************)
EXTENDS SocketStream, FiniteSetTheorems, WellFoundedInduction, TLAPS

-----------------------------------------------------------------------------
(* Counting in size_t stays in size_t, and does not wrap below its end. *)
LEMMA PlusWraps ==
  ASSUME NEW n \in 0 .. W - 1, NEW r \in {1, -1}
  PROVE  Plus(n, r) \in 0 .. W - 1
BY StreamAssumption DEF Plus

LEMMA PlusCounts ==
  ASSUME NEW n \in 0 .. W - 1, n + 1 < W
  PROVE  Plus(n, 1) = n + 1
<1> DEFINE m == n + 1
           q == m \div W
<1>1. m \in Nat /\ W \in Nat /\ W >= 1 /\ m < W
  BY StreamAssumption
<1>2. q \in Nat /\ m % W \in 0 .. W - 1 /\ m = W * q + (m % W)
  BY <1>1
<1> HIDE DEF q
<1>3. q = 0
  <2> SUFFICES ASSUME q >= 1 PROVE FALSE
    BY <1>2
  <2>1. W * q = W + W * (q - 1) /\ q - 1 \in Nat
    BY <1>1, <1>2
  <2>2. W * (q - 1) \in Nat
    BY <1>1, <2>1
  <2> QED
    BY <1>1, <1>2, <2>1, <2>2
<1>4. m % W = m
  BY <1>1, <1>2, <1>3
<1> QED
  BY <1>4 DEF Plus

(* A message is less than what a size_t can count, and the next one begins *)
(* where it ends.                                                          *)
LEMMA Sizes ==
  ASSUME NEW m \in 1 .. Count
  PROVE  /\ Start[m] \in Nat /\ Start[m+1] \in Nat
         /\ Size(m) \in 0 .. W - 1 /\ Start[m+1] = Start[m] + Size(m)
BY StreamAssumption DEF Size

LEMMA Offsets == \A m \in 1 .. Count + 1 : Start[m] \in Nat
BY StreamAssumption

-----------------------------------------------------------------------------
(* Types. A reset is reported once, and no call is interrupted after it.   *)
Blocks == UNION {[0 .. n - 1 -> Byte] : n \in 0 .. W - 1}
TypeInv ==
  /\ TypeOK
  /\ got \in Seq(Blocks)
  /\ pc = "recv" => in \in 1 .. Count
  /\ peer # "gone" => errors <= MaxErrors

LEMMA TypeInitially == Init => TypeInv
BY StreamAssumption DEF Init, TypeInv, TypeOK, Byte, Foreign, Empty

LEMMA TypeKept == TypeInv /\ [Next]_vars => TypeInv'
<1> SUFFICES ASSUME TypeInv, [Next]_vars PROVE TypeInv'
  OBVIOUS
<1> USE StreamAssumption DEF TypeInv, TypeOK
<1>1. CASE SendByte
  <2>1. Data(nsent) \in Byte
    <3>1. out \in 1 .. Count
      BY <1>1 DEF SendByte
    <3>2. Start[out] \in Nat /\ Size(out) \in 0 .. W - 1
      BY <3>1, Sizes
    <3>3. nsent \in Nat
      OBVIOUS
    <3> QED
      BY <3>2, <3>3 DEF Data, Byte, Foreign
  <2>2. nsent' \in 0 .. W - 1
    BY <1>1, PlusWraps DEF SendByte
  <2>3. wire' \in Seq(Byte) /\ Len(wire') <= Cap
    BY <1>1, <2>1 DEF SendByte
  <2> QED
    BY <1>1, <2>2, <2>3 DEF SendByte, receiverVars
<1>2. CASE SendReturn
  BY <1>2 DEF SendReturn, receiverVars
<1>3. CASE SendInterrupted
  <2>1. nsent' \in 0 .. W - 1
    BY <1>3, PlusWraps DEF SendInterrupted
  <2>2. errors' \in 0 .. MaxErrors /\ wire' = wire /\ out' = out /\ peer' = peer
    BY <1>3 DEF SendInterrupted
  <2>3. UNCHANGED <<pc, in, nrecv, buffer, got>>
    BY <1>3 DEF SendInterrupted, receiverVars
  <2>4. errors' \in 0 .. MaxErrors + 1 /\ errors' <= MaxErrors
    BY <2>2
  <2> QED
    BY <2>1, <2>2, <2>3, <2>4
<1>4. CASE PeerStops
  <2>1. wire' \in Seq(Byte) /\ Len(wire') <= Cap
    <3>1. CASE wire' = wire
      BY <3>1
    <3>2. CASE wire' = <<>>
      BY <3>2
    <3> QED
      BY <1>4, <3>1, <3>2 DEF PeerStops
  <2>2. peer' \in {"reset", "gone"} /\ peer = "up" /\ errors' = errors
    BY <1>4 DEF PeerStops
  <2> QED
    BY <1>4, <2>1, <2>2 DEF PeerStops, senderVars, receiverVars
<1>5. CASE BeginRecv
  <2>1. buffer' \in [0 .. W - 1 -> Byte] /\ nrecv' \in 0 .. W - 1
    BY <1>5 DEF BeginRecv, Empty, Byte, Foreign, ZeroCounter
  <2> QED
    BY <1>5, <2>1 DEF BeginRecv, senderVars
<1>6. CASE RecvByte
  <2>1. nrecv' \in 0 .. W - 1
    BY <1>6, PlusWraps DEF RecvByte
  <2>2. Head(wire) \in Byte /\ wire' \in Seq(Byte) /\ Len(wire') <= Cap
    BY <1>6 DEF RecvByte
  <2>3. buffer' \in [0 .. W - 1 -> Byte]
    BY <1>6, <2>2 DEF RecvByte, Address
  <2> QED
    BY <1>6, <2>1, <2>2, <2>3 DEF RecvByte, senderVars
<1>7. CASE RecvReturn
  <2>1. nrecv = Size(in) /\ nrecv \in 0 .. W - 1
    BY <1>7 DEF RecvReturn, AllReceived
  <2>2. [i \in 0 .. Size(in) - 1 |-> buffer[i]] \in [0 .. nrecv - 1 -> Byte]
    BY <2>1
  <2>3. [i \in 0 .. Size(in) - 1 |-> buffer[i]] \in Blocks
    BY <2>1, <2>2 DEF Blocks
  <2>4. got' \in Seq(Blocks) /\ Len(got') = Len(got) + 1
    <3> DEFINE b == [i \in 0 .. Size(in) - 1 |-> buffer[i]]
    <3>1. got' = Append(got, b) /\ b \in Blocks /\ got \in Seq(Blocks)
      BY <1>7, <2>3 DEF RecvReturn
    <3> HIDE DEF b
    <3> QED
      BY <3>1
  <2>5. in \in 1 .. Count
    BY <1>7 DEF RecvReturn
  <2> QED
    BY <1>7, <2>4, <2>5 DEF RecvReturn, senderVars
<1>8. CASE RecvFails
  <2>1. nrecv' \in 0 .. W - 1
    BY <1>8, PlusWraps DEF RecvFails
  <2> QED
    BY <1>8, <2>1 DEF RecvFails, senderVars
<1>9. CASE UNCHANGED vars
  BY <1>9 DEF vars, senderVars, receiverVars
<1> QED
  BY <1>1, <1>2, <1>3, <1>4, <1>5, <1>6, <1>7, <1>8, <1>9 DEF Next, Sender, Receiver

(* The counters of both loops stay within size_t, the socket within its    *)
(* buffers, and every byte that recv writes has an address.                *)
THEOREM StreamTypeCorrect == Spec => []TypeOK
<1>1. TypeInv => TypeOK
  BY DEF TypeInv
<1> QED
  BY <1>1, TypeInitially, TypeKept, PTL DEF Spec

-----------------------------------------------------------------------------
(* While no call has failed: the bytes in the socket are those from the    *)
(* reader's position on, up to the writer's unless a reset has lost them;  *)
(* recv has filled its buffer up to its counter and no further.            *)
Position == Start[in] + (IF pc = "recv" THEN nrecv ELSE 0)
SenderWithin == IF out <= Count THEN nsent <= Size(out) ELSE nsent = 0
WireInv ==
  /\ Len(wire) = IF peer = "reset" THEN 0 ELSE Start[out] + nsent - Position
  /\ \A i \in 1 .. Len(wire) : wire[i] = Position + i - 1
BufferInv ==
  pc = "recv" =>
    /\ nrecv <= Size(in)
    /\ \A a \in 0 .. W - 1 :
         buffer[a] = IF a < nrecv THEN Start[in] + a ELSE Foreign
GotInv == \A m \in 1 .. Len(got) : got[m] = Message(m)
FlowInv == errors = 0 => SenderWithin /\ WireInv /\ BufferInv /\ GotInv

LEMMA FlowInitially == Init => FlowInv
<1> SUFFICES ASSUME Init PROVE SenderWithin /\ WireInv /\ BufferInv /\ GotInv
  BY DEF FlowInv
<1>1. Start[1] \in Nat /\ Len(wire) = 0 /\ Len(got) = 0 /\ nsent = 0 /\ out = 1
      /\ in = 1 /\ pc = "between"
  BY StreamAssumption DEF Init
<1>2. SenderWithin
  BY <1>1, Sizes, StreamAssumption DEF SenderWithin
<1>3. WireInv
  BY <1>1 DEF WireInv, Position
<1> QED
  BY <1>1, <1>2, <1>3 DEF BufferInv, GotInv

(* The sender appends the byte that follows those in the socket. *)
LEMMA FlowOfSendByte ==
  ASSUME TypeInv, FlowInv, SendByte
  PROVE  FlowInv'
<1> SUFFICES ASSUME errors = 0 PROVE (SenderWithin /\ WireInv /\ BufferInv /\ GotInv)'
  BY DEF FlowInv, SendByte
<1>1. /\ out \in 1 .. Count /\ nsent \in 0 .. W - 1 /\ nsent # Size(out)
      /\ peer = "up" /\ wire \in Seq(Byte)
  BY DEF SendByte, TypeInv, TypeOK
<1>2. Start[out] \in Nat /\ Size(out) \in 0 .. W - 1
  BY <1>1, Sizes
<1>3. nsent < Size(out)
  BY <1>1, <1>2 DEF FlowInv, SenderWithin
<1>4. nsent' = nsent + 1
  BY <1>1, <1>2, <1>3, PlusCounts, StreamAssumption DEF SendByte
<1>5. Data(nsent) = Start[out] + nsent
  BY <1>3 DEF Data
<1>6. UNCHANGED <<out, pc, in, nrecv, buffer, got, peer, errors>>
  BY DEF SendByte, receiverVars
<1>7. Position \in Nat /\ Position' = Position
  BY <1>6, Offsets DEF Position, TypeInv, TypeOK
<1>8. Len(wire) = Start[out] + nsent - Position
      /\ \A i \in 1 .. Len(wire) : wire[i] = Position + i - 1
  BY <1>1 DEF FlowInv, WireInv
<1>9. Len(wire') = Len(wire) + 1 /\ wire'[Len(wire) + 1] = Start[out] + nsent
      /\ \A i \in 1 .. Len(wire) : wire'[i] = wire[i]
  <2>1. wire' = Append(wire, Start[out] + nsent)
    BY <1>5 DEF SendByte
  <2>2. Start[out] + nsent \in Byte
    BY <1>1, <1>2 DEF Byte
  <2> QED
    BY <1>1, <2>1, <2>2
<1>10. WireInv'
  <2>1. Len(wire') = Start[out] + nsent' - Position
    BY <1>1, <1>2, <1>4, <1>7, <1>8, <1>9
  <2>2. ASSUME NEW i \in 1 .. Len(wire') PROVE wire'[i] = Position + i - 1
    <3>1. Len(wire) \in Nat
      BY <1>1
    <3>2. CASE i \in 1 .. Len(wire)
      BY <1>8, <1>9, <3>2
    <3>3. CASE i = Len(wire) + 1
      BY <1>1, <1>2, <1>7, <1>8, <1>9, <3>3
    <3> QED
      BY <1>9, <2>2, <3>1, <3>2, <3>3
  <2> QED
    BY <1>1, <1>6, <1>7, <2>1, <2>2 DEF WireInv
<1>11. SenderWithin'
  BY <1>1, <1>2, <1>3, <1>4, <1>6 DEF SenderWithin, Size
<1> QED
  BY <1>6, <1>10, <1>11 DEF FlowInv, BufferInv, GotInv, Size, Message

(* The receiver takes the byte that its position names. *)
LEMMA FlowOfRecvByte ==
  ASSUME TypeInv, FlowInv, RecvByte
  PROVE  FlowInv'
<1> SUFFICES ASSUME errors = 0 PROVE (SenderWithin /\ WireInv /\ BufferInv /\ GotInv)'
  BY DEF FlowInv, RecvByte
<1>1. /\ in \in 1 .. Count /\ nrecv \in 0 .. W - 1 /\ nrecv # Size(in)
      /\ pc = "recv" /\ wire \in Seq(Byte) /\ wire # <<>>
      /\ buffer \in [0 .. W - 1 -> Byte]
  BY DEF RecvByte, TypeInv, TypeOK
<1>2. Start[in] \in Nat /\ Size(in) \in 0 .. W - 1
  BY <1>1, Sizes
<1>3. nrecv < Size(in)
  BY <1>1, <1>2 DEF FlowInv, BufferInv
<1>4. nrecv' = nrecv + 1
  BY <1>1, <1>2, <1>3, PlusCounts, StreamAssumption DEF RecvByte
<1>5. UNCHANGED <<out, nsent, pc, in, got, peer, errors>>
  BY DEF RecvByte, senderVars
<1>6. Position = Start[in] + nrecv /\ Position' = Position + 1 /\ Position \in Nat
  BY <1>1, <1>2, <1>4, <1>5 DEF Position
<1>7. Len(wire) \in Nat /\ Len(wire) >= 1 /\ Head(wire) = wire[1]
      /\ Len(wire') = Len(wire) - 1
      /\ \A i \in 1 .. Len(wire') : wire'[i] = wire[i+1]
  BY <1>1 DEF RecvByte
<1>8. peer # "reset" /\ Len(wire) = Start[out] + nsent - Position
      /\ \A i \in 1 .. Len(wire) : wire[i] = Position + i - 1
  BY <1>7 DEF FlowInv, WireInv
<1>9. WireInv'
  <2>1. Start[out] \in Nat /\ nsent \in Nat
    BY Offsets DEF TypeInv, TypeOK
  <2>2. Len(wire') = Start[out] + nsent - (Position + 1)
    BY <1>6, <1>7, <1>8, <2>1
  <2>3. ASSUME NEW i \in 1 .. Len(wire') PROVE wire'[i] = (Position + 1) + i - 1
    <3>1. wire'[i] = wire[i+1] /\ i + 1 \in 1 .. Len(wire)
      BY <1>7, <2>3
    <3>2. wire[i+1] = Position + (i + 1) - 1
      BY <1>8, <3>1
    <3> QED
      BY <1>6, <2>3, <3>1, <3>2
  <2> QED
    BY <1>5, <1>6, <1>8, <2>2, <2>3 DEF WireInv
<1>10. BufferInv'
  <2>1. Head(wire) = Start[in] + nrecv
    BY <1>1, <1>2, <1>6, <1>7, <1>8
  <2>2. buffer' = [buffer EXCEPT ![nrecv] = Start[in] + nrecv]
    BY <2>1 DEF RecvByte, Address
  <2>3. ASSUME NEW a \in 0 .. W - 1
        PROVE  buffer'[a] = IF a < nrecv + 1 THEN Start[in] + a ELSE Foreign
    <3>1. buffer[a] = IF a < nrecv THEN Start[in] + a ELSE Foreign
      BY <1>1 DEF FlowInv, BufferInv
    <3>2. CASE a = nrecv
      BY <1>1, <2>2, <3>2
    <3>3. CASE a # nrecv
      <4>1. a < nrecv <=> a < nrecv + 1
        BY <1>1, <3>3
      <4>2. buffer'[a] = buffer[a]
        BY <1>1, <2>2, <3>3
      <4> QED
        BY <3>1, <4>1, <4>2
    <3> QED
      BY <3>2, <3>3
  <2>4. nrecv' <= Size(in)
    BY <1>1, <1>2, <1>3, <1>4
  <2> QED
    BY <1>4, <1>5, <2>3, <2>4 DEF BufferInv, Size
<1> QED
  BY <1>5, <1>9, <1>10 DEF FlowInv, SenderWithin, GotInv, Size, Message

(* When its loop ends, the buffer of recv holds the message.               *)
LEMMA ReceivedWhole ==
  ASSUME TypeInv, FlowInv, RecvReturn, errors = 0
  PROVE  got' = Append(got, Message(in))
<1>1. /\ in \in 1 .. Count /\ nrecv = Size(in) /\ pc = "recv"
  BY DEF RecvReturn, AllReceived, TypeInv
<1>2. Size(in) \in 0 .. W - 1
  BY <1>1, Sizes
<1>3. ASSUME NEW i \in 0 .. Size(in) - 1 PROVE buffer[i] = Start[in] + i
  <2>1. i \in 0 .. W - 1 /\ i < nrecv
    BY <1>1, <1>2, <1>3, StreamAssumption
  <2> QED
    BY <1>1, <2>1 DEF FlowInv, BufferInv
<1>4. [i \in 0 .. Size(in) - 1 |-> buffer[i]] = Message(in)
  BY <1>3 DEF Message
<1> QED
  BY <1>4 DEF RecvReturn

(* What is handed over is the message, and the next one begins after it.   *)
LEMMA FlowOfRecvReturn ==
  ASSUME TypeInv, FlowInv, RecvReturn
  PROVE  FlowInv'
<1> SUFFICES ASSUME errors = 0 PROVE (SenderWithin /\ WireInv /\ BufferInv /\ GotInv)'
  BY DEF FlowInv, RecvReturn
<1>1. /\ in \in 1 .. Count /\ nrecv = Size(in) /\ pc = "recv" /\ pc' = "between"
      /\ in' = in + 1 /\ Len(got) = in - 1 /\ got \in Seq(Blocks)
  BY DEF RecvReturn, AllReceived, TypeInv, TypeOK
<1>2. /\ Start[in] \in Nat /\ Size(in) \in 0 .. W - 1
      /\ Start[in+1] = Start[in] + Size(in)
  BY <1>1, Sizes
<1>3. UNCHANGED <<out, nsent, wire, peer, errors>>
  BY DEF RecvReturn, senderVars
<1>4. Position' = Position
  BY <1>1, <1>2 DEF Position
<1>5. WireInv'
  BY <1>3, <1>4 DEF FlowInv, WireInv
<1>7. got' = Append(got, Message(in))
  BY ReceivedWhole
<1>8. GotInv'
  <2>1. Len(got') = in /\ got'[in] = Message(in)
        /\ \A m \in 1 .. in - 1 : got'[m] = got[m]
    BY <1>1, <1>7
  <2>2. ASSUME NEW m \in 1 .. Len(got') PROVE got'[m] = Message(m)
    <3>1. CASE m = in
      BY <2>1, <3>1
    <3>2. CASE m \in 1 .. in - 1
      BY <1>1, <2>1, <3>2 DEF FlowInv, GotInv
    <3> QED
      BY <1>1, <2>1, <2>2, <3>1, <3>2
  <2> QED
    BY <2>2 DEF GotInv, Message, Size
<1> QED
  BY <1>1, <1>3, <1>5, <1>8 DEF FlowInv, SenderWithin, BufferInv, Size

LEMMA FlowKept == TypeInv /\ FlowInv /\ [Next]_vars => FlowInv'
<1> SUFFICES ASSUME TypeInv, FlowInv, [Next]_vars PROVE FlowInv'
  OBVIOUS
<1>1. CASE SendByte
  BY <1>1, FlowOfSendByte
<1>2. CASE SendReturn
  <2> SUFFICES ASSUME errors = 0 PROVE (SenderWithin /\ WireInv /\ BufferInv /\ GotInv)'
    BY <1>2 DEF FlowInv, SendReturn
  <2>1. out \in 1 .. Count /\ nsent = Size(out) /\ out' = out + 1 /\ nsent' = 0
    BY <1>2 DEF SendReturn, TypeInv, TypeOK
  <2>2. /\ Start[out] \in Nat /\ Size(out) \in 0 .. W - 1
        /\ Start[out+1] = Start[out] + Size(out)
    BY <2>1, Sizes
  <2>3. UNCHANGED <<wire, pc, in, nrecv, buffer, got, peer, errors>>
    BY <1>2 DEF SendReturn, receiverVars
  <2>4. Position' = Position /\ Position \in Nat
    BY <2>3, Offsets DEF Position, TypeInv, TypeOK
  <2>5. WireInv'
    <3>1. Len(wire) = IF peer = "reset" THEN 0 ELSE Start[out'] + nsent' - Position
      BY <2>1, <2>2, <2>4 DEF FlowInv, WireInv
    <3>2. \A i \in 1 .. Len(wire) : wire[i] = Position + i - 1
      BY DEF FlowInv, WireInv
    <3> QED
      BY <2>3, <2>4, <3>1, <3>2 DEF WireInv
  <2>6. SenderWithin'
    <3>1. CASE out' <= Count
      <4>1. out' \in 1 .. Count
        BY <2>1, <3>1
      <4>2. Size(out') \in 0 .. W - 1
        BY <4>1, Sizes
      <4> QED
        BY <2>1, <3>1, <4>2 DEF SenderWithin, Size
    <3> QED
      BY <2>1, <3>1 DEF SenderWithin
  <2> QED
    BY <2>3, <2>5, <2>6 DEF FlowInv, BufferInv, GotInv, Size, Message
<1>3. CASE SendInterrupted \/ RecvFails
  BY <1>3 DEF SendInterrupted, RecvFails, FlowInv, TypeInv, TypeOK
<1>4. CASE PeerStops
  <2> SUFFICES ASSUME errors = 0 PROVE (SenderWithin /\ WireInv /\ BufferInv /\ GotInv)'
    BY <1>4 DEF FlowInv, PeerStops
  <2>1. UNCHANGED <<out, nsent, pc, in, nrecv, buffer, got, errors>> /\ peer = "up"
    BY <1>4 DEF PeerStops, senderVars, receiverVars
  <2>2. Position' = Position
    BY <2>1 DEF Position
  <2>3. CASE peer' = "gone" /\ wire' = wire
    BY <2>1, <2>2, <2>3 DEF FlowInv, WireInv, SenderWithin, BufferInv, GotInv, Size, Message
  <2>4. CASE peer' = "reset" /\ wire' = <<>>
    <3>1. Len(wire') = 0
      BY <2>4
    <3> QED
      BY <2>1, <2>2, <2>4, <3>1
      DEF FlowInv, WireInv, SenderWithin, BufferInv, GotInv, Size, Message
  <2> QED
    BY <1>4, <2>3, <2>4 DEF PeerStops
<1>5. CASE BeginRecv
  <2> SUFFICES ASSUME errors = 0 PROVE (SenderWithin /\ WireInv /\ BufferInv /\ GotInv)'
    BY <1>5 DEF FlowInv, BeginRecv
  <2>1. UNCHANGED <<out, nsent, wire, in, got, peer, errors>> /\ in \in 1 .. Count
        /\ pc = "between" /\ pc' = "recv" /\ nrecv' = 0 /\ buffer' = Empty
    BY <1>5 DEF BeginRecv, ZeroCounter, senderVars, TypeInv, TypeOK
  <2>2. Size(in) \in 0 .. W - 1 /\ Start[in] \in Nat
    BY <2>1, Sizes
  <2>3. Position' = Position
    BY <2>1, <2>2 DEF Position
  <2>4. BufferInv'
    <3>1. \A a \in 0 .. W - 1 : buffer'[a] = Foreign
      BY <2>1 DEF Empty
    <3> QED
      BY <2>1, <2>2, <3>1 DEF BufferInv, Size
  <2> QED
    BY <2>1, <2>3, <2>4 DEF FlowInv, WireInv, SenderWithin, GotInv, Size, Message
<1>6. CASE RecvByte
  BY <1>6, FlowOfRecvByte
<1>7. CASE RecvReturn
  BY <1>7, FlowOfRecvReturn
<1>8. CASE UNCHANGED vars
  BY <1>8 DEF vars, senderVars, receiverVars, FlowInv, WireInv, SenderWithin,
     BufferInv, GotInv, Size, Message, Position
<1> QED
  BY <1>1, <1>2, <1>3, <1>4, <1>5, <1>6, <1>7, <1>8 DEF Next, Sender, Receiver

LEMMA FlowAlways == Spec => [](TypeInv /\ FlowInv)
BY TypeInitially, TypeKept, FlowInitially, FlowKept, PTL DEF Spec

(* SocketInterComm::recv returns what was passed to send, message by       *)
(* message: for all sizes, all capacities, and every way TCP cuts the      *)
(* stream, up to the first call that fails.                                *)
THEOREM MessagesIntact == Spec => []DeliveredIntact
<1>1. TypeInv /\ FlowInv => DeliveredIntact
  <2> SUFFICES ASSUME TypeInv, FlowInv, errors = 0, NEW m \in DOMAIN got
               PROVE  got[m] = Message(m)
    BY DEF DeliveredIntact
  <2>1. m \in 1 .. Len(got)
    BY DEF TypeInv
  <2> QED
    BY <2>1 DEF FlowInv, GotInv
<1> QED
  BY <1>1, FlowAlways, PTL

(* And it writes nothing outside of the buffer of its caller. *)
THEOREM NothingOutside == Spec => []WithinBuffer
<1>1. TypeInv /\ FlowInv => WithinBuffer
  <2> SUFFICES ASSUME TypeInv, FlowInv, errors = 0, pc = "recv",
                      NEW a \in 0 .. W - 1, a >= Size(in)
               PROVE  buffer[a] = Foreign
    BY DEF WithinBuffer
  <2>1. Size(in) \in 0 .. W - 1 /\ nrecv \in 0 .. W - 1 /\ nrecv <= Size(in)
    BY Sizes DEF TypeInv, TypeOK, FlowInv, BufferInv
  <2>2. ~(a < nrecv)
    BY <2>1
  <2> QED
    BY <2>2 DEF FlowInv, BufferInv
<1> QED
  BY <1>1, FlowAlways, PTL

-----------------------------------------------------------------------------
(***************************************************************************)
(* The refinement of MessageQueue.                                         *)
(***************************************************************************)

(* A nonempty set of numbers has a least element: the form of induction    *)
(* that needs no operator as a parameter.                                  *)
LEMMA LeastNumber ==
  ASSUME NEW T \in SUBSET Nat, T # {}
  PROVE  \E x \in T : \A y \in T : x <= y
<1> DEFINE R == OpToRel(<, Nat)
<1>1. IsWellFoundedOn(R, Nat)
  BY NatLessThanWellFounded
<1>2. \A x, y \in Nat : x < y => <<x, y>> \in R
  BY DEF OpToRel
<1> HIDE DEF R
<1>3. PICK x \in T : \A y \in T : ~(<<y, x>> \in R)
  BY <1>1, WFMin
<1>4. ASSUME NEW y \in T PROVE x <= y
  <2>1. ~(y < x)
    BY <1>2, <1>3
  <2> QED
    BY <2>1
<1> QED
  BY <1>4

(* Messages begin in the order in which they are numbered. *)
LEMMA StartsInOrder ==
  ASSUME NEW m \in 1 .. Count + 1, NEW n \in 1 .. Count + 1, m <= n
  PROVE  Start[m] <= Start[n]
<1> SUFFICES ASSUME Start[n] < Start[m] PROVE FALSE
  BY Offsets
<1> DEFINE T == {k \in 1 .. Count + 1 : m <= k /\ Start[k] < Start[m]}
<1>1. Count \in Nat /\ T \in SUBSET Nat /\ n \in T
  BY StreamAssumption
<1>2. PICK k \in T : \A l \in T : k <= l
  BY <1>1, LeastNumber
<1>3. k # m
  BY <1>2, Offsets
<1>4. k - 1 \in 1 .. Count /\ m <= k - 1 /\ k - 1 \in 1 .. Count + 1 /\ (k - 1) + 1 = k
  BY <1>1, <1>2, <1>3
<1>5. ~(Start[k - 1] < Start[m])
  BY <1>2, <1>4
<1>6. Start[k - 1] <= Start[k]
  BY <1>4, StreamAssumption
<1> QED
  BY <1>2, <1>4, <1>5, <1>6, Offsets

(* The messages that end before byte p are the first k, for some k. *)
LEMMA SentAreFirst ==
  ASSUME NEW p \in Nat
  PROVE  \E k \in 0 .. Count : {m \in 1 .. Count : Start[m+1] <= p} = 1 .. k
<1> DEFINE T == {n \in 1 .. Count : p < Start[n+1]}
<1>1. Count \in Nat /\ T \in SUBSET Nat
  BY StreamAssumption
<1>2. \A m \in 1 .. Count : Start[m+1] \in Nat
  BY Sizes
<1>3. CASE T = {}
  <2>1. \A m \in 1 .. Count : Start[m+1] <= p
    BY <1>2, <1>3
  <2> QED
    BY <1>1, <2>1
<1>4. CASE T # {}
  <2>1. PICK n \in T : \A l \in T : n <= l
    BY <1>1, <1>4, LeastNumber
  <2>2. n - 1 \in 0 .. Count
    BY <1>1
  <2>3. ASSUME NEW m \in 1 .. Count
        PROVE  Start[m+1] <= p <=> m \in 1 .. n - 1
    <3>1. CASE m < n
      <4>1. m \notin T
        BY <2>1, <3>1
      <4> QED
        BY <1>2, <3>1, <4>1
    <3>2. CASE n <= m
      <4>1. Start[n+1] <= Start[m+1]
        BY <1>1, <3>2, StartsInOrder
      <4> QED
        BY <1>2, <2>1, <3>2, <4>1
    <3> QED
      BY <1>1, <3>1, <3>2
  <2>4. 1 .. n - 1 \subseteq 1 .. Count
    BY <1>1
  <2>5. {m \in 1 .. Count : Start[m+1] <= p} = 1 .. n - 1
    BY <2>3, <2>4
  <2> QED
    BY <2>2, <2>5
<1> QED
  BY <1>3, <1>4

LEMMA CountOfSent ==
  ASSUME NEW p \in Nat
  PROVE  LET n == Cardinality({m \in 1 .. Count : Start[m+1] <= p})
         IN  n \in 0 .. Count /\ \A m \in 1 .. Count : Start[m+1] <= p <=> m <= n
<1>1. PICK k \in 0 .. Count : {m \in 1 .. Count : Start[m+1] <= p} = 1 .. k
  BY SentAreFirst
<1>2. Count \in Nat /\ k \in Nat
  BY StreamAssumption
<1>3. Cardinality(1 .. k) = k
  <2>1. Cardinality(1 .. k) = IF 1 > k THEN 0 ELSE k - 1 + 1
    BY <1>2, FS_Interval
  <2> QED
    BY <1>2, <2>1
<1>4. \A m \in 1 .. Count : Start[m+1] <= p <=> m <= k
  <2>1. \A m \in 1 .. Count : Start[m+1] <= p <=> m \in 1 .. k
    BY <1>1
  <2> QED
    BY <1>2, <2>1
<1>5. Cardinality({m \in 1 .. Count : Start[m+1] <= p}) = k
  BY <1>1, <1>3
<1> QED
  BY <1>2, <1>4, <1>5

LEMMA SentCounts ==
  ASSUME TypeInv
  PROVE  /\ Sent \in 0 .. Count
         /\ \A m \in 1 .. Count : Start[m+1] <= Start[out] + nsent <=> m <= Sent
<1>1. PICK p \in Nat : p = Start[out] + nsent
  BY Offsets DEF TypeInv, TypeOK
<1> QED
  BY <1>1, CountOfSent DEF Sent

LEMMA SentSame ==
  ASSUME Start[out'] + nsent' = Start[out] + nsent
  PROVE  Sent' = Sent
BY DEF Sent

(* The receiver is never ahead of the sender, also when a reset has lost   *)
(* what is between them.                                                   *)
OrderInv == errors = 0 => Position <= Start[out] + nsent

LEMMA OrderInitially == Init => OrderInv
BY StreamAssumption DEF Init, OrderInv, Position

LEMMA OrderKept == TypeInv /\ FlowInv /\ OrderInv /\ [Next]_vars => OrderInv'
<1> SUFFICES ASSUME TypeInv, FlowInv, OrderInv, [Next]_vars, errors' = 0
             PROVE  Position' <= Start[out'] + nsent'
  BY DEF OrderInv
<1>1. errors = 0
  BY DEF Next, Sender, Receiver, SendByte, SendReturn, SendInterrupted, PeerStops,
         BeginRecv, RecvByte, RecvReturn, RecvFails, vars, TypeInv, TypeOK
<1>2. /\ Position <= Start[out] + nsent /\ Position \in Nat
      /\ Start[out] \in Nat /\ Start[in] \in Nat /\ nsent \in Nat /\ nrecv \in Nat
  BY <1>1, Offsets DEF OrderInv, Position, TypeInv, TypeOK
<1>3. CASE SendByte
  <2>1. Position' = Position /\ out' = out
    BY <1>3 DEF SendByte, receiverVars, Position
  <2>2. out \in 1 .. Count /\ nsent \in 0 .. W - 1 /\ nsent # Size(out) /\ nsent <= Size(out)
    BY <1>1, <1>3 DEF SendByte, TypeInv, TypeOK, FlowInv, SenderWithin
  <2>3. Size(out) \in 0 .. W - 1 /\ W \in Nat
    BY <2>2, Sizes, StreamAssumption
  <2>4. nsent' = nsent + 1
    BY <1>3, <2>2, <2>3, PlusCounts DEF SendByte
  <2> QED
    BY <1>2, <2>1, <2>4
<1>4. CASE SendReturn
  <2>1. Position' = Position /\ out' = out + 1 /\ nsent' = 0 /\ nsent = Size(out)
        /\ out \in 1 .. Count
    BY <1>4 DEF SendReturn, receiverVars, Position, TypeInv, TypeOK
  <2>2. Start[out+1] = Start[out] + Size(out)
    BY <2>1, Sizes
  <2> QED
    BY <1>2, <2>1, <2>2
<1>5. CASE RecvByte
  <2>1. UNCHANGED <<out, nsent, in, pc>> /\ pc = "recv" /\ wire # <<>> /\ wire \in Seq(Byte)
    BY <1>5 DEF RecvByte, senderVars, TypeInv, TypeOK
  <2>2. Len(wire) \in Nat /\ Len(wire) # 0
    BY <2>1
  <2>3. Len(wire) = Start[out] + nsent - Position
    BY <1>1, <2>2 DEF FlowInv, WireInv
  <2>4. in \in 1 .. Count /\ nrecv \in 0 .. W - 1 /\ nrecv # Size(in) /\ nrecv <= Size(in)
    BY <1>1, <1>5, <2>1 DEF RecvByte, TypeInv, TypeOK, FlowInv, BufferInv
  <2>5. Size(in) \in 0 .. W - 1 /\ W \in Nat
    BY <2>4, Sizes, StreamAssumption
  <2>6. nrecv' = nrecv + 1
    BY <1>5, <2>4, <2>5, PlusCounts DEF RecvByte
  <2> QED
    BY <1>2, <2>1, <2>2, <2>3, <2>6 DEF Position
<1>6. CASE RecvReturn
  <2>1. UNCHANGED <<out, nsent>> /\ Position' = Position
    <3>1. in \in 1 .. Count /\ nrecv = Size(in) /\ pc = "recv" /\ pc' = "between" /\ in' = in + 1
      BY <1>6 DEF RecvReturn, AllReceived, TypeInv
    <3>2. Start[in+1] = Start[in] + Size(in) /\ Start[in+1] \in Nat
      BY <3>1, Sizes
    <3> QED
      BY <1>6, <3>1, <3>2 DEF RecvReturn, senderVars, Position
  <2> QED
    BY <1>2, <2>1
<1>7. CASE BeginRecv
  <2>1. UNCHANGED <<out, nsent, in>> /\ pc = "between" /\ pc' = "recv" /\ nrecv' = 0
    BY <1>7 DEF BeginRecv, ZeroCounter, senderVars
  <2> QED
    BY <1>2, <2>1 DEF Position
<1>8. CASE PeerStops \/ UNCHANGED vars
  <2>1. UNCHANGED <<out, nsent, in, pc, nrecv>>
    BY <1>8 DEF PeerStops, vars, senderVars, receiverVars
  <2> QED
    BY <1>2, <2>1 DEF Position
<1>9. CASE SendInterrupted \/ RecvFails
  <2>1. errors' = errors + 1
    BY <1>9 DEF SendInterrupted, RecvFails
  <2> QED
    BY <1>1, <2>1
<1> QED
  BY <1>3, <1>4, <1>5, <1>6, <1>7, <1>8, <1>9 DEF Next, Sender, Receiver

(* What has been returned has been sent, and of the message that has been  *)
(* received whole, and is about to be, too.                                *)
LEMMA GotWasSent ==
  ASSUME TypeInv, OrderInv, errors = 0
  PROVE  /\ Len(got) \in Nat /\ in = Len(got) + 1 /\ Len(got) <= Sent
         /\ pc = "recv" /\ nrecv = Size(in) => in <= Sent
<1>1. in \in 1 .. Count + 1 /\ Len(got) = in - 1 /\ nrecv \in Nat /\ Count \in Nat
  BY StreamAssumption DEF TypeInv, TypeOK
<1>2. /\ Position <= Start[out] + nsent /\ Start[in] \in Nat
      /\ Start[out] + nsent \in Nat
  BY Offsets DEF OrderInv, TypeInv, TypeOK
<1>3. Len(got) <= Sent
  <2>1. CASE in = 1
    BY <1>1, <2>1, SentCounts
  <2>2. CASE in # 1
    <3>1. in - 1 \in 1 .. Count /\ (in - 1) + 1 = in
      BY <1>1, <2>2
    <3>2. Start[in] <= Start[out] + nsent
      BY <1>1, <1>2 DEF Position
    <3>3. Start[(in - 1) + 1] <= Start[out] + nsent
      BY <3>1, <3>2
    <3> QED
      BY <1>1, <3>1, <3>3, SentCounts
  <2> QED
    BY <2>1, <2>2
<1>4. ASSUME pc = "recv", nrecv = Size(in) PROVE in <= Sent
  <2>1. in \in 1 .. Count
    BY <1>4 DEF TypeInv
  <2>2. Start[in+1] = Start[in] + Size(in)
    BY <2>1, Sizes
  <2>3. Start[in+1] <= Start[out] + nsent
    BY <1>2, <1>4, <2>2 DEF Position
  <2> QED
    BY <2>1, <2>3, SentCounts
<1> QED
  BY <1>1, <1>3, <1>4

Messages == {Message(m) : m \in 1 .. Count}
(* The messages after the first l, up to the k-th. *)
Between(l, k) == [i \in 1 .. k - l |-> Message(l + i)]

LEMMA BetweenType ==
  ASSUME NEW l \in 0 .. Count, NEW k \in 0 .. Count, l <= k
  PROVE  /\ Between(l, k) \in Seq(Messages) /\ Len(Between(l, k)) = k - l
         /\ \A i \in 1 .. k - l : Between(l, k)[i] = Message(l + i)
<1>1. Count \in Nat /\ k - l \in Nat
  BY StreamAssumption
<1>2. \A i \in 1 .. k - l : l + i \in 1 .. Count
  BY <1>1
<1>3. \A i \in 1 .. k - l : Message(l + i) \in Messages
  BY <1>2 DEF Messages
<1> QED
  BY <1>1, <1>3 DEF Between

(* More messages at the end are a longer queue of which the old one is the *)
(* beginning; one less at the front is its tail.                           *)
LEMMA BetweenGrows ==
  ASSUME NEW l \in 0 .. Count, NEW k \in 0 .. Count, NEW n \in 0 .. Count, l <= k, k < n
  PROVE  Fifo!IsStrictPrefix(Between(l, k), Between(l, n))
<1>1. Count \in Nat /\ k - l \in Nat /\ n - l \in Nat /\ k - l < n - l
  BY StreamAssumption
<1>2. PICK s \in Seq(Messages) :
        s = Between(l, k) /\ Len(s) = k - l /\ \A i \in 1 .. k - l : s[i] = Message(l + i)
  BY BetweenType
<1>3. PICK t \in Seq(Messages) :
        t = Between(l, n) /\ Len(t) = n - l /\ \A i \in 1 .. n - l : t[i] = Message(l + i)
  <2>1. l <= n
    BY <1>1
  <2> QED
    BY <2>1, BetweenType
<1>4. \A i \in 1 .. Len(s) : s[i] = t[i]
  BY <1>1, <1>2, <1>3
<1>5. SubSeq(s, 1, Len(s)) = SubSeq(t, 1, Len(s))
  BY <1>1, <1>2, <1>3, <1>4
<1>6. Len(s) <= Len(t) /\ s # t
  BY <1>1, <1>2, <1>3
<1> QED
  BY <1>2, <1>3, <1>5, <1>6 DEF Fifo!IsStrictPrefix, Fifo!IsPrefix

LEMMA BetweenShrinks ==
  ASSUME NEW l \in 0 .. Count, NEW k \in 0 .. Count, l < k
  PROVE  /\ Between(l, k) # <<>>
         /\ Head(Between(l, k)) = Message(l + 1)
         /\ Tail(Between(l, k)) = Between(l + 1, k)
<1>1. Count \in Nat /\ l + 1 \in 0 .. Count /\ l + 1 <= k /\ k - l \in Nat /\ k - l >= 1
      /\ k - (l + 1) = k - l - 1 /\ k - (l + 1) \in Nat
  BY StreamAssumption
<1>2. PICK s \in Seq(Messages) :
        s = Between(l, k) /\ Len(s) = k - l /\ \A i \in 1 .. k - l : s[i] = Message(l + i)
  <2>1. l <= k
    BY <1>1
  <2> QED
    BY <2>1, BetweenType
<1>3. PICK t \in Seq(Messages) :
        /\ t = Between(l + 1, k) /\ Len(t) = k - (l + 1)
        /\ \A i \in 1 .. k - (l + 1) : t[i] = Message((l + 1) + i)
  BY <1>1, BetweenType
<1>4. s # <<>> /\ Head(s) = s[1] /\ Tail(s) \in Seq(Messages) /\ Len(Tail(s)) = Len(s) - 1
      /\ \A i \in 1 .. Len(Tail(s)) : Tail(s)[i] = s[i + 1]
  BY <1>1, <1>2
<1>5. s[1] = Message(l + 1)
  BY <1>1, <1>2
<1>6. \A i \in 1 .. Len(t) : t[i] = Tail(s)[i]
  <2> TAKE i \in 1 .. Len(t)
  <2>1. i + 1 \in 1 .. k - l /\ i \in 1 .. k - (l + 1) /\ (l + 1) + i = l + (i + 1)
        /\ i \in 1 .. Len(Tail(s))
    BY <1>1, <1>2, <1>3, <1>4
  <2>2. t[i] = Message((l + 1) + i)
    BY <1>3, <2>1
  <2>3. s[i + 1] = Message(l + (i + 1))
    BY <1>2, <2>1
  <2> QED
    BY <1>4, <2>1, <2>2, <2>3
<1>7. Tail(s) = t
  BY <1>1, <1>2, <1>3, <1>4, <1>6
<1> QED
  BY <1>2, <1>3, <1>4, <1>5, <1>7

LEMMA PendingIs == Pending = Between(Len(got), Sent)
BY DEF Pending, Between

FifoStep == [errors' = 0 => Fifo!Send \/ Fifo!Receive]_<<Pending, got>>

LEMMA FifoStill ==
  ASSUME UNCHANGED got, Sent' = Sent
  PROVE  FifoStep
<1>1. Pending' = Pending
  BY DEF Pending, Message, Size
<1> QED
  BY <1>1 DEF FifoStep

(* A byte sent completes a message, or it does not. *)
LEMMA FifoSendByte ==
  ASSUME TypeInv, TypeInv', FlowInv, OrderInv, errors = 0, SendByte
  PROVE  FifoStep
<1>1. out \in 1 .. Count /\ nsent \in 0 .. W - 1 /\ nsent # Size(out) /\ nsent <= Size(out)
  BY DEF SendByte, TypeInv, TypeOK, FlowInv, SenderWithin
<1>2. Size(out) \in 0 .. W - 1 /\ W \in Nat /\ Start[out] \in Nat
  BY <1>1, Sizes, StreamAssumption
<1>3. nsent' = nsent + 1 /\ out' = out /\ got' = got
  BY <1>1, <1>2, PlusCounts DEF SendByte, receiverVars
<1>4. Sent \in 0 .. Count /\ \A m \in 1 .. Count : Start[m+1] <= Start[out] + nsent <=> m <= Sent
  BY SentCounts
<1>5. Sent' \in 0 .. Count
      /\ \A m \in 1 .. Count : Start[m+1] <= Start[out'] + nsent' <=> m <= Sent'
  <2>1. PICK p \in Nat : p = Start[out'] + nsent'
    BY <1>1, <1>2, <1>3
  <2> QED
    BY <2>1, CountOfSent DEF Sent
<1>6. Sent <= Sent'
  <2>1. CASE Sent = 0
    BY <1>5, <2>1, StreamAssumption
  <2>2. CASE Sent # 0
    <3>1. Sent \in 1 .. Count /\ Sent <= Sent
      BY <1>4, <2>2, StreamAssumption
    <3>2. Start[Sent+1] <= Start[out] + nsent /\ Start[Sent+1] \in Nat
      BY <1>4, <3>1, Sizes
    <3>3. Start[Sent+1] <= Start[out'] + nsent'
      BY <1>1, <1>2, <1>3, <3>2
    <3> QED
      BY <1>5, <3>1, <3>3
  <2> QED
    BY <2>1, <2>2
<1>7. Len(got) \in Nat /\ Len(got) <= Sent
  BY GotWasSent
<1>8. PICK l \in 0 .. Count, k \in 0 .. Count, n \in 0 .. Count :
        l = Len(got) /\ k = Sent /\ n = Sent'
  BY <1>4, <1>5, <1>7, StreamAssumption
<1>9. Pending = Between(l, k) /\ Pending' = Between(l, n)
  <2>1. Pending' = [i \in 1 .. n - l |-> Message(l + i)]
    BY <1>3, <1>8 DEF Pending, Message, Size
  <2> QED
    BY <1>8, <2>1, PendingIs DEF Between
<1>10. CASE Sent' = Sent
  BY <1>3, <1>10, FifoStill
<1>11. CASE Sent < Sent'
  <2>1. l <= k /\ k < n /\ l <= n
    BY <1>4, <1>5, <1>7, <1>8, <1>11
  <2>2. Pending' \in Seq(Messages) /\ Fifo!IsStrictPrefix(Pending, Pending')
    BY <1>9, <2>1, BetweenType, BetweenGrows
  <2>3. Fifo!Send
    BY <1>3, <2>2 DEF Fifo!Send, Messages
  <2> QED
    BY <2>3 DEF FifoStep
<1> QED
  BY <1>4, <1>5, <1>6, <1>10, <1>11

LEMMA FifoRecvReturn ==
  ASSUME TypeInv, FlowInv, OrderInv, errors = 0, RecvReturn
  PROVE  FifoStep
<1>1. /\ in \in 1 .. Count /\ nrecv = Size(in) /\ pc = "recv"
      /\ Len(got) = in - 1 /\ got \in Seq(Blocks) /\ nrecv \in 0 .. W - 1
  BY DEF RecvReturn, AllReceived, TypeInv, TypeOK
<1>2. got' = Append(got, Message(in)) /\ Len(got') = in
  <2>1. got' = Append(got, Message(in))
    BY ReceivedWhole
  <2> QED
    BY <1>1, <2>1
<1>3. Sent' = Sent
  <2>1. UNCHANGED <<out, nsent>>
    BY DEF RecvReturn, senderVars
  <2> QED
    BY <2>1, SentSame
<1>4. Sent \in 0 .. Count /\ Len(got) \in Nat /\ in = Len(got) + 1 /\ in <= Sent
  BY <1>1, GotWasSent, SentCounts
<1>5. PICK l \in 0 .. Count, k \in 0 .. Count : l = Len(got) /\ k = Sent
  BY <1>1, <1>4, StreamAssumption
<1>6. l < k /\ in = l + 1
  BY <1>4, <1>5
<1>7. Pending = Between(l, k) /\ Pending' = Between(l + 1, k)
  <2>1. Pending' = [i \in 1 .. k - (l + 1) |-> Message((l + 1) + i)]
    BY <1>2, <1>3, <1>5, <1>6 DEF Pending, Message, Size
  <2> QED
    BY <1>5, <2>1, PendingIs DEF Between
<1>8. Fifo!Receive
  BY <1>2, <1>6, <1>7, BetweenShrinks DEF Fifo!Receive
<1> QED
  BY <1>8 DEF FifoStep

LEMMA FifoNext ==
  ASSUME TypeInv, TypeInv', FlowInv, OrderInv, [Next]_vars
  PROVE  FifoStep
<1> SUFFICES ASSUME errors' = 0 PROVE FifoStep
  BY DEF FifoStep
<1>1. errors = 0 /\ ~SendInterrupted /\ ~RecvFails
  BY DEF Next, Sender, Receiver, SendByte, SendReturn, SendInterrupted, PeerStops,
         BeginRecv, RecvByte, RecvReturn, RecvFails, vars, TypeInv, TypeOK
<1>2. CASE SendByte
  BY <1>1, <1>2, FifoSendByte
<1>3. CASE SendReturn
  <2>1. out \in 1 .. Count /\ nsent = Size(out) /\ out' = out + 1 /\ nsent' = 0 /\ got' = got
    BY <1>3 DEF SendReturn, receiverVars, TypeInv, TypeOK
  <2>2. Start[out'] + nsent' = Start[out] + nsent
    BY <2>1, Sizes
  <2> QED
    BY <2>1, <2>2, SentSame, FifoStill
<1>4. CASE PeerStops \/ BeginRecv \/ RecvByte \/ UNCHANGED vars
  <2>1. UNCHANGED <<out, nsent, got>>
    BY <1>4 DEF PeerStops, BeginRecv, RecvByte, vars, senderVars, receiverVars
  <2> QED
    BY <2>1, SentSame, FifoStill
<1>5. CASE RecvReturn
  BY <1>1, <1>5, FifoRecvReturn
<1> QED
  BY <1>1, <1>2, <1>3, <1>4, <1>5 DEF Next, Sender, Receiver

(* The byte loops of SocketInterComm implement a queue of whole messages,  *)
(* as long as no call fails: what LibIS takes a channel for.  The first    *)
(* message has a byte, as the commands and pings have with which every     *)
(* channel of libIS begins: an empty one is received before anybody sends. *)
THEOREM QueueImplemented ==
  ASSUME Count > 0 => Start[1] < Start[2]
  PROVE  Spec => ImplementsFifo
<1>1. Init => Fifo!Init
  <2> SUFFICES ASSUME Init PROVE Fifo!Init
    OBVIOUS
  <2>1. out = 1 /\ nsent = 0 /\ got = <<>> /\ Len(got) = 0
    BY DEF Init
  <2>2. Start[1] \in Nat /\ Count \in Nat
    BY StreamAssumption
  <2>3. ASSUME NEW m \in 1 .. Count PROVE ~(Start[m+1] <= Start[1] + 0)
    <3>1. Start[1] < Start[2] /\ Start[2] \in Nat /\ Start[m+1] \in Nat
      <4>1. Count > 0 /\ 2 \in 1 .. Count + 1 /\ m + 1 \in 1 .. Count + 1
        BY <2>2
      <4> QED
        BY <4>1, Offsets
    <3>2. Start[2] <= Start[m+1]
      <4>1. 2 \in 1 .. Count + 1 /\ m + 1 \in 1 .. Count + 1 /\ 2 <= m + 1
        BY <2>2
      <4> QED
        BY <4>1, StartsInOrder
    <3> QED
      BY <2>2, <3>1, <3>2
  <2>4. {m \in 1 .. Count : Start[m+1] <= Start[out] + nsent} = {}
    BY <2>1, <2>3
  <2>5. Sent = 0
    BY <2>4, FS_EmptySet DEF Sent
  <2>6. Pending = <<>>
    BY <2>1, <2>5 DEF Pending
  <2> QED
    BY <2>1, <2>6 DEF Fifo!Init
<1>2. TypeInv /\ TypeInv' /\ FlowInv /\ OrderInv /\ [Next]_vars => FifoStep
  BY FifoNext
<1>3. Spec => [](TypeInv /\ FlowInv /\ OrderInv)
  BY TypeInitially, TypeKept, FlowInitially, FlowKept, OrderInitially, OrderKept, PTL DEF Spec
<1> QED
  BY <1>1, <1>2, <1>3, PTL DEF Spec, ImplementsFifo, FifoStep
=============================================================================
