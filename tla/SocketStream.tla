---------------------------- MODULE SocketStream ----------------------------
(***************************************************************************)
(* SocketInterComm::send, recv and probe: whole messages over a TCP socket *)
(* that takes and gives any number of bytes.  One direction of one socket: *)
(* a sender that makes one send per message, a receiver that makes the     *)
(* matching recv calls, both as loops over ::send and ::recv.              *)
(*                                                                         *)
(* Byte b is the b-th byte the sender wants to send; message m consists of *)
(* the bytes Start[m] .. Start[m+1] - 1.  The unit of a step is one byte:  *)
(* ::send or ::recv with the result k is k steps.  The call that returns 0 *)
(* because the peer has gone changes nothing and the loop makes it again:  *)
(* it is a stuttering step.                                                *)
(***************************************************************************)
EXTENDS Integers, Sequences, FiniteSets

CONSTANTS
  Count,      \* bound: number of messages
  Start,      \* offset of each message in the stream
  Probed,     \* the messages that the receiver polls for before it reads
  Cap,        \* capacity of the socket buffers
  W,          \* 2^w for the width w of size_t
  MaxErrors,  \* bound: interrupted calls, which return -1
  CanStop     \* whether the sender's process may go away

ASSUME StreamAssumption ==
  /\ Count \in Nat /\ MaxErrors \in Nat
  /\ Cap \in Nat \ {0} /\ W \in Nat \ {0}
  /\ Start \in [1 .. Count + 1 -> Nat]
  /\ \A m \in 1 .. Count :
       Start[m] <= Start[m+1] /\ Start[m+1] - Start[m] < W
  /\ CanStop \in BOOLEAN

Size(m) == Start[m+1] - Start[m]
Message(m) == [i \in 0 .. Size(m) - 1 |-> Start[m] + i]

VARIABLES
  out, nsent,     \* the message the sender is at, and its counter
  wire,           \* bytes in the socket buffers
  pc, in, nrecv,  \* the same for the receiver: "between" calls or in "recv"
  buffer,         \* what it was given to receive into: addresses from 0
  got,            \* the messages whose recv has returned
  peer,           \* the sender: "up", "reset" with unread bytes lost, "gone"
  errors          \* counts the calls that returned -1

senderVars == <<out, nsent>>
receiverVars == <<pc, in, nrecv, buffer, got>>
vars == <<senderVars, wire, receiverVars, peer, errors>>

Foreign == -1     \* a byte that is no byte of a message, or not written yet
Byte == Nat \cup {Foreign}

TypeOK ==
  /\ out \in 1 .. Count + 1 /\ in \in 1 .. Count + 1
  /\ nsent \in 0 .. W - 1 /\ nrecv \in 0 .. W - 1
  /\ wire \in Seq(Byte) /\ Len(wire) <= Cap
  /\ pc \in {"between", "recv"}
  /\ buffer \in [0 .. W - 1 -> Byte]
  /\ Len(got) = in - 1
  /\ peer \in {"up", "reset", "gone"}
  /\ errors \in 0 .. MaxErrors + 1

Empty == [a \in 0 .. W - 1 |-> Foreign]
Init ==
  /\ out = 1 /\ in = 1 /\ nsent = 0 /\ nrecv = 0
  /\ wire = <<>> /\ got = <<>> /\ buffer = Empty
  /\ pc = "between" /\ peer = "up" /\ errors = 0

(* Both loops count in size_t, and add the -1 of a call that failed.       *)
(* Mutated form: a signed counter.                                         *)
PlusSigned(n, ret) == n + ret
Plus(n, ret) == (n + ret) % W

-----------------------------------------------------------------------------
(* What the sender finds at address a of its message. *)
Data(a) == IF a < Size(out) THEN Start[out] + a ELSE Foreign

SendByte ==
  /\ peer = "up" /\ out <= Count /\ nsent # Size(out)
  /\ Len(wire) < Cap
  /\ wire' = Append(wire, Data(nsent))
  /\ nsent' = Plus(nsent, 1)
  /\ UNCHANGED <<out, receiverVars, peer, errors>>

SendReturn ==
  /\ peer = "up" /\ out <= Count /\ nsent = Size(out)
  /\ out' = out + 1 /\ nsent' = 0
  /\ UNCHANGED <<wire, receiverVars, peer, errors>>

(* A signal interrupts a send that waits for room in the socket. *)
SendInterrupted ==
  /\ peer = "up" /\ out <= Count /\ nsent # Size(out)
  /\ Len(wire) = Cap /\ errors < MaxErrors
  /\ nsent' = Plus(nsent, -1)
  /\ errors' = errors + 1
  /\ UNCHANGED <<out, wire, receiverVars, peer>>

(* The sender's process ends: what it sent can still be read, or the       *)
(* connection is reset.                                                    *)
PeerStops ==
  /\ CanStop /\ peer = "up"
  /\ \/ peer' = "gone" /\ UNCHANGED wire
     \/ peer' = "reset" /\ wire' = <<>>
  /\ UNCHANGED <<senderVars, receiverVars, errors>>

-----------------------------------------------------------------------------
(* poll reports a socket as readable that has bytes, or has no peer.       *)
Readable == wire # <<>> \/ peer # "up"

(* Mutated form of the loop's start: the counter of the last call is kept. *)
KeptCounter == nrecv
ZeroCounter == 0
BeginRecv ==
  /\ pc = "between" /\ in <= Count
  /\ in \in Probed => Readable
  /\ pc' = "recv" /\ nrecv' = ZeroCounter /\ buffer' = Empty
  /\ UNCHANGED <<senderVars, wire, in, got, peer, errors>>

(* Mutated forms: every call writes to the start of the buffer, and one    *)
(* byte further than it should.                                            *)
StartAddress(n) == 0
NextAddress(n) == (n + 1) % W
Address(n) == n
RecvByte ==
  /\ pc = "recv" /\ nrecv # Size(in) /\ wire # <<>>
  /\ buffer' = [buffer EXCEPT ![Address(nrecv)] = Head(wire)]
  /\ wire' = Tail(wire)
  /\ nrecv' = Plus(nrecv, 1)
  /\ UNCHANGED <<senderVars, pc, in, got, peer, errors>>

(* Mutated form: one ::recv is taken for the whole message. *)
SomethingReceived == nrecv > 0 \/ Size(in) = 0
AllReceived == nrecv = Size(in)
RecvReturn ==
  /\ pc = "recv" /\ AllReceived
  /\ got' = Append(got, [i \in 0 .. Size(in) - 1 |-> buffer[i]])
  /\ in' = in + 1 /\ pc' = "between"
  /\ UNCHANGED <<senderVars, wire, nrecv, buffer, peer, errors>>

(* recv returns -1: once for a reset, and when a signal interrupts it.     *)
RecvFails ==
  /\ pc = "recv" /\ nrecv # Size(in) /\ wire = <<>>
  /\ \/ peer = "reset" /\ peer' = "gone"
     \/ peer = "up" /\ errors < MaxErrors /\ UNCHANGED peer
  /\ nrecv' = Plus(nrecv, -1)
  /\ errors' = errors + 1
  /\ UNCHANGED <<senderVars, wire, pc, in, buffer, got>>

Sender == SendByte \/ SendReturn \/ SendInterrupted
Receiver == BeginRecv \/ RecvByte \/ RecvReturn \/ RecvFails
Next == Sender \/ PeerStops \/ Receiver
Spec == Init /\ [][Next]_vars

(* The two processes run; neither is bound to be interrupted or to stop.   *)
FairSpec ==
  /\ Spec
  /\ WF_vars(SendByte \/ SendReturn)
  /\ WF_vars(BeginRecv \/ RecvByte \/ RecvReturn)

-----------------------------------------------------------------------------
(* As long as no call fails, what recv gave its caller is, message by      *)
(* message, what was passed to send - however TCP cuts the stream, with    *)
(* empty messages, and also when the sender ends in the middle of one: a   *)
(* part of a message is never returned as a message.                       *)
DeliveredIntact ==
  errors = 0 => \A m \in DOMAIN got : got[m] = Message(m)

(* While no call fails, and however often the sender is cut off, this is   *)
(* the FIFO of whole messages that the other modules take an InterComm     *)
(* for: a message enters it with its last byte, and those without bytes    *)
(* with the message before them.                                           *)
Sent == Cardinality({m \in 1 .. Count : Start[m+1] <= Start[out] + nsent})
Pending == [i \in 1 .. Sent - Len(got) |-> Message(Len(got) + i)]
Fifo == INSTANCE MessageQueue WITH
  Messages <- {Message(m) : m \in 1 .. Count},
  queue <- Pending, delivered <- got
ImplementsFifo ==
  Fifo!Init /\ [][errors' = 0 => Fifo!Send \/ Fifo!Receive]_<<Pending, got>>

(* Both loops end: if the sender's process runs on and no call fails, every *)
(* message arrives, whatever was cut where and however small the buffers.  *)
EveryMessageArrives ==
  [](peer = "up" /\ errors = 0) => <>(in = Count + 1)

(* "Recv data from some rank into the provided buffer" (intercomm.h, line  *)
(* 17): as long as no call fails nothing is written outside of it.  (After *)
(* a failed call, it is: the counter is then W - 1.)                       *)
WithinBuffer ==
  errors = 0 /\ pc = "recv" =>
    \A a \in 0 .. W - 1 : a >= Size(in) => buffer[a] = Foreign
=============================================================================
