--------------------------- MODULE TransferProofs ---------------------------
(***************************************************************************)
(* The two sides of a transfer keep step, and a region is the state of one *)
(* call of libISProcess: for any names and number of buffers, any sizes,   *)
(* and any ranges of the flag and of the counts, MPI's and sockets' alike. *)
(*                                                                         *)
(* No side knows where the other is.  What ties them is the channel: each  *)
(* buffer of the snapshot is either still with the simulation (unsent), or *)
(* in the channel under one header, or in the region, and the client has   *)
(* counted down what is not in the region.                                 *)
(***************************************************************************)
EXTENDS Transfer, FiniteSetTheorems, TLAPS

(* The values of the variables.                                            *)
Array == [bytes : Nat, arrived : Nat, step : Int]
Description == [type : DOMAIN Stride, length : Nat, bytes : Nat, stride : Nat]
Particles == [np : Nat, ng : Nat, array : Array]
Received == [header : Description, array : Array]
Maps(V) == UNION {[ns -> V] : ns \in SUBSET Names}
Message ==
  [k : {"header"}, bounds : Boxes, numBuffers : Nat, hasParticles : Nat]
    \cup [k : {"bufHeader"}, name : Names, buffer : Description]
    \cup [k : {"particleHeader"}, np : Nat, ng : Nat, bytes : Nat]
    \cup [k : {"data"}, array : Array]

TypeOK ==
  /\ state \in [bounds : Boxes, buffers : Maps(Description), particles : Particles]
  /\ snapshot \in [step : Int, bounds : Boxes, buffers : Maps(Description),
                   particles : Particles]
  /\ region \in [bounds : Boxes, buffers : Maps(Received), particles : Particles]
  /\ step \in Nat /\ simPc \in {"app", "buffers"} /\ unsent \subseteq Names
  /\ clientPc \in {"app", "pinged", "header", "bufHeader", "particleHeader", "data"}
  /\ expected \in [buffers : Int, particles : Nat, name : SUBSET Names]
  /\ wire \in Seq(Message)
  /\ IsFiniteSet(DOMAIN state.buffers) /\ IsFiniteSet(DOMAIN snapshot.buffers)

-----------------------------------------------------------------------------
(* The buffers of the snapshot, those the region has, and those in the     *)
(* channel; whether particles are to come.                                 *)
Given == DOMAIN snapshot.buffers
Filled == IF clientPc = "header" THEN {} ELSE DOMAIN region.buffers
Due == Given \ (Filled \cup unsent)
Body == clientPc \in {"bufHeader", "particleHeader", "data"}
Pending ==
  /\ clientPc = "header" \/ (Body /\ expected.particles # 0)
  /\ HasParticles(snapshot.particles) # 0

(* handleQuery works on the snapshot, and is done when nothing is unsent.  *)
(* A client that does not read has left nothing in the channel, and what   *)
(* handleQuery may still do then sends nothing.                            *)
SimInv ==
  /\ simPc = "buffers" => unsent \subseteq Given /\ snapshot = At(state, step)
  /\ simPc = "app" => unsent = {}
  /\ ~Reading => /\ unsent = {} /\ wire = <<>>
                 /\ simPc = "buffers" => HasParticles(snapshot.particles) = 0

(* After a header whose size is a count comes its data, after another none. *)
BytesOf(m) == IF m.k = "bufHeader" THEN m.buffer.bytes ELSE m.bytes
Carries(m) == m.k \in {"bufHeader", "particleHeader"} /\ Narrow(BytesOf(m)) >= 0
Sent(b, t) == [bytes |-> b, arrived |-> Narrow(b), step |-> t]

Chained(w, t) ==
  \A i \in 1..Len(w) :
    /\ Carries(w[i]) => i < Len(w)
    /\ i < Len(w) => (Carries(w[i]) <=> w[i + 1].k = "data")
    /\ i < Len(w) /\ Carries(w[i]) => w[i + 1].array = Sent(BytesOf(w[i]), t)

(* The channel starts with data exactly when the client reads data.        *)
DataInv ==
  /\ Chained(wire, snapshot.step)
  /\ wire # <<>> => (wire[1].k = "data" <=> clientPc = "data")
  /\ clientPc = "data" => wire # <<>>

(* The header of the state is the first message, if the client reads it.   *)
HeaderInv ==
  /\ \A i \in 1..Len(wire) :
       wire[i].k = "header" => i = 1 /\ clientPc = "header"
  /\ clientPc = "header" =>
       /\ wire # <<>> /\ wire[1].k = "header" /\ wire[1].bounds = snapshot.bounds
       /\ wire[1].numBuffers = Cardinality(Given)
       /\ wire[1].hasParticles = HasParticles(snapshot.particles)

(* Every buffer that is neither unsent nor received has one header in the  *)
(* channel.                                                                *)
BufferInv ==
  /\ \A i \in 1..Len(wire) : wire[i].k = "bufHeader" =>
       wire[i].name \in Due /\ wire[i].buffer = snapshot.buffers[wire[i].name]
  /\ \A i, j \in 1..Len(wire) :
       wire[i].k = "bufHeader" /\ wire[j].k = "bufHeader" /\ wire[i].name = wire[j].name
         => i = j
  /\ Reading => \A n \in Due : \E i \in 1..Len(wire) :
       wire[i].k = "bufHeader" /\ wire[i].name = n

(* The header of the particles is the last one, sent with the end of the   *)
(* call, if and only if the client waits for it.                           *)
ParticleInv ==
  /\ \A i \in 1..Len(wire) : wire[i].k = "particleHeader" =>
       /\ Pending /\ simPc = "app"
       /\ wire[i].np = snapshot.particles.np /\ wire[i].ng = snapshot.particles.ng
       /\ wire[i].bytes = snapshot.particles.array.bytes
       /\ \A j \in 1..Len(wire) : j > i => wire[j].k = "data"
  /\ simPc = "app" /\ Pending =>
       \E i \in 1..Len(wire) : wire[i].k = "particleHeader"

(* The client counts the buffers that are not in the region.               *)
CountInv ==
  Body =>
    /\ Filled \subseteq Given /\ Filled \cap unsent = {}
    /\ expected.buffers = Cardinality(Given \ Filled)
    /\ region.bounds = snapshot.bounds
    /\ clientPc \in {"bufHeader", "particleHeader"} =>
         clientPc = NextMessage(expected.buffers, expected.particles)

(* An array that has arrived, and a region that query() has returned: all   *)
(* that is in it, also where the code carries only a part.                 *)
ExactArray(a, b) ==
  IF Fits(b) THEN a = Full(b, snapshot.step) ELSE a.bytes = b /\ a.arrived < b
RegionExact ==
  Returned =>
    /\ region.bounds = snapshot.bounds
    /\ DOMAIN region.buffers = DOMAIN snapshot.buffers
    /\ \A n \in DOMAIN snapshot.buffers :
         /\ region.buffers[n].header = snapshot.buffers[n]
         /\ ExactArray(region.buffers[n].array, snapshot.buffers[n].bytes)
    /\ LET p == region.particles  q == snapshot.particles IN
         IF HasParticles(q) = 0 THEN p = NoParticles
         ELSE p.np = q.np /\ p.ng = q.ng /\ ExactArray(p.array, q.array.bytes)

(* What the region has is as in the snapshot, but for the array that is    *)
(* the next message.                                                       *)
ReadsArray(b) == Narrow(b) >= 0 /\ wire[1].array = Sent(b, snapshot.step)
ReadsParticles == clientPc = "data" /\ expected.name = {}
RegionInv ==
  Body =>
    /\ \A n \in Filled :
         /\ region.buffers[n].header = snapshot.buffers[n]
         /\ \/ ExactArray(region.buffers[n].array, snapshot.buffers[n].bytes)
            \/ clientPc = "data" /\ n \in expected.name
    /\ clientPc = "data" /\ expected.name # {} =>
         \E n \in Filled : expected.name = {n} /\ ReadsArray(snapshot.buffers[n].bytes)
    /\ IF ReadsParticles
       THEN /\ expected.particles = 0 /\ Filled = Given /\ simPc = "app"
            /\ HasParticles(snapshot.particles) # 0
            /\ region.particles.np = snapshot.particles.np
            /\ region.particles.ng = snapshot.particles.ng
            /\ ReadsArray(snapshot.particles.array.bytes)
       ELSE /\ expected.particles = HasParticles(snapshot.particles)
            /\ region.particles = NoParticles

IInv ==
  /\ TypeOK /\ SimInv /\ DataInv /\ HeaderInv /\ BufferInv /\ ParticleInv
  /\ CountInv /\ RegionInv /\ RegionExact

-----------------------------------------------------------------------------
(* ExactArray, of a timestep that is given.                                 *)
Same(a, b, t) ==
  IF Fits(b) THEN a = Full(b, t) ELSE a.bytes = b /\ a.arrived < b

LEMMA NarrowFacts ==
  ASSUME NEW b \in Nat
  PROVE  /\ Narrow(b) \in Int
         /\ Narrow(b) >= 0 => Narrow(b) <= b
         /\ Narrow(b) < 0 => b > 0
<1>1. IntRange \in Nat BY TransferAssumption
<1>2. CASE IntRange = 0 BY <1>2 DEF Narrow
<1>3. CASE IntRange # 0
  <2> DEFINE n == b % IntRange
  <2>1. n \in 0..(IntRange - 1) BY <1>1, <1>3
  <2>2. n <= b
    <3>1. b = IntRange * (b \div IntRange) + n /\ b \div IntRange \in Int
      BY <1>1, <1>3
    <3>2. b \div IntRange >= 0 BY <1>1, <1>3
    <3> HIDE DEF n
    <3>3. IntRange * (b \div IntRange) >= 0 BY <3>1, <3>2, <1>1
    <3> QED BY <3>1, <3>3, <2>1, <1>1
  <2>3. b = 0 => n = 0 BY <2>1, <2>2
  <2>4. Narrow(b) = IF 2 * n < IntRange THEN n ELSE n - IntRange
    BY <1>3 DEF Narrow
  <2> HIDE DEF n
  <2>5. CASE 2 * n < IntRange BY <2>1, <2>2, <2>3, <2>4, <2>5, <1>1, <1>3
  <2>6. CASE ~(2 * n < IntRange) BY <2>1, <2>2, <2>3, <2>4, <2>6, <1>1, <1>3
  <2> QED BY <2>5, <2>6
<1> QED BY <1>2, <1>3

LEMMA SentSame ==
  ASSUME NEW b \in Nat, NEW t \in Int, Narrow(b) >= 0
  PROVE  Sent(b, t) \in Array /\ Same(Sent(b, t), b, t)
BY NarrowFacts DEF Sent, Array, Same, Fits, Full

LEMMA OwnedSame ==
  ASSUME NEW b \in Nat, NEW t \in Int
  PROVE  Owned(b) \in Array /\ (Narrow(b) < 0 => Same(Owned(b), b, t))
BY NarrowFacts DEF Owned, Array, Same, Fits, Full

LEMMA FlagFacts ==
  ASSUME NEW p \in Particles
  PROVE  HasParticles(p) \in Nat
BY TransferAssumption DEF HasParticles, Particles

LEMMA PutFacts ==
  ASSUME NEW map, NEW n, NEW v
  PROVE  /\ DOMAIN Put(map, n, v) = DOMAIN map \cup {n}
         /\ Put(map, n, v)[n] = v
         /\ \A m \in DOMAIN map : m # n => Put(map, n, v)[m] = map[m]
BY DEF Put

LEMMA PutDescription ==
  ASSUME NEW map \in Maps(Description), NEW n \in Names, NEW v \in Description
  PROVE  Put(map, n, v) \in Maps(Description)
<1>1. PICK ns \in SUBSET Names : map \in [ns -> Description] BY DEF Maps
<1>2. ns \cup {n} \in SUBSET Names BY <1>1
<1>3. Put(map, n, v) \in [ns \cup {n} -> Description] BY <1>1 DEF Put
<1> QED BY <1>2, <1>3 DEF Maps

LEMMA PutReceived ==
  ASSUME NEW map \in Maps(Received), NEW n \in Names, NEW v \in Received
  PROVE  Put(map, n, v) \in Maps(Received)
<1>1. PICK ns \in SUBSET Names : map \in [ns -> Received] BY DEF Maps
<1>2. ns \cup {n} \in SUBSET Names BY <1>1
<1>3. Put(map, n, v) \in [ns \cup {n} -> Received] BY <1>1 DEF Put
<1> QED BY <1>2, <1>3 DEF Maps

LEMMA MapsEntry ==
  ASSUME NEW V, NEW map \in Maps(V)
  PROVE  /\ DOMAIN map \subseteq Names
         /\ \A n \in DOMAIN map : map[n] \in V
BY DEF Maps

LEMMA NoEntries ==
  ASSUME NEW V
  PROVE  <<>> \in Maps(V) /\ DOMAIN <<>> = {}
BY DEF Maps

LEMMA MessageFacts ==
  ASSUME NEW m \in Message
  PROVE  /\ m.k \in {"header", "bufHeader", "particleHeader", "data"}
         /\ m.k = "header" => /\ m.bounds \in Boxes /\ m.numBuffers \in Nat
                              /\ m.hasParticles \in Nat
         /\ m.k = "bufHeader" => m.name \in Names /\ m.buffer \in Description
         /\ m.k = "particleHeader" =>
              m.np \in Nat /\ m.ng \in Nat /\ m.bytes \in Nat
         /\ m.k = "data" => m.array \in Array
BY DEF Message

-----------------------------------------------------------------------------
(* Taking the first message. *)
LEMMA TailFacts ==
  ASSUME NEW w \in Seq(Message), w # <<>>
  PROVE  /\ Tail(w) \in Seq(Message) /\ Len(Tail(w)) = Len(w) - 1
         /\ \A i \in 1..Len(Tail(w)) : i + 1 \in 1..Len(w) /\ Tail(w)[i] = w[i + 1]
         /\ Head(w) = w[1] /\ w[1] \in Message /\ 1 \in 1..Len(w)
         /\ \A j \in 1..Len(w) : j # 1 => /\ j - 1 \in 1..Len(Tail(w))
                                         /\ Tail(w)[j - 1] = w[j]
OBVIOUS

LEMMA ChainedTail ==
  ASSUME NEW w \in Seq(Message), w # <<>>, NEW t \in Int, Chained(w, t)
  PROVE  /\ Chained(Tail(w), t)
         /\ Tail(w) # <<>> => (Tail(w)[1].k = "data" <=> Carries(w[1]))
         /\ Carries(w[1]) => /\ Tail(w) # <<>>
                             /\ Tail(w)[1].array = Sent(BytesOf(w[1]), t)
<1> DEFINE v == Tail(w)
<1>1. Len(v) = Len(w) - 1 /\ Len(w) \in Nat /\ Len(v) \in Nat
      /\ \A i \in 1..Len(v) : i + 1 \in 1..Len(w) /\ v[i] = w[i + 1]
  BY TailFacts
<1>2. v # <<>> => 1 \in 1..Len(v) BY TailFacts
<1> HIDE DEF v
<1>3. v = <<>> => Len(v) = 0 OBVIOUS
<1>4. 1 \in 1..Len(w) BY TailFacts
<1>5. ASSUME NEW i \in 1..Len(v)
      PROVE  /\ Carries(v[i]) => i < Len(v)
             /\ i < Len(v) => (Carries(v[i]) <=> v[i + 1].k = "data")
             /\ i < Len(v) /\ Carries(v[i]) => v[i + 1].array = Sent(BytesOf(v[i]), t)
  <2>1. i + 1 \in 1..Len(w) /\ v[i] = w[i + 1] BY <1>1
  <2>2. i < Len(v) => /\ i + 1 \in 1..Len(v) /\ v[i + 1] = w[(i + 1) + 1]
                      /\ i + 1 < Len(w)
    BY <1>1
  <2>3. i + 1 < Len(w) => i < Len(v) BY <1>1
  <2> QED BY <2>1, <2>2, <2>3 DEF Chained
<1>6. Chained(v, t) BY <1>5 DEF Chained
<1>7. v # <<>> => v[1] = w[1 + 1] /\ 1 < Len(w) BY <1>1, <1>2
<1>8. 1 < Len(w) => v # <<>> BY <1>1, <1>3
<1>9. v # <<>> => (v[1].k = "data" <=> Carries(w[1]))
  BY <1>7, <1>4 DEF Chained
<1>10. Carries(w[1]) => v # <<>> /\ v[1].array = Sent(BytesOf(w[1]), t)
  BY <1>7, <1>8, <1>4 DEF Chained
<1> QED BY <1>6, <1>9, <1>10 DEF v

(* The messages that Buffer::send or Particles::send adds: a header m, and *)
(* the data, if its size is a count.                                       *)
Data(b, t) ==
  IF Narrow(b) < 0 THEN <<>> ELSE <<[k |-> "data", array |-> Sent(b, t)]>>
Adds(u, w, m, b, t) ==
  /\ u \in Seq(Message)
  /\ Len(u) = Len(w) + (IF Narrow(b) < 0 THEN 1 ELSE 2)
  /\ \A i \in 1..Len(w) : i \in 1..Len(u) /\ u[i] = w[i]
  /\ Len(w) + 1 \in 1..Len(u) /\ u[Len(w) + 1] = m
  /\ Len(u) = Len(w) + 2 => u[Len(w) + 2] = [k |-> "data", array |-> Sent(b, t)]
  /\ \A i \in 1..Len(u) :
       \/ i \in 1..Len(w) \/ i = Len(w) + 1
       \/ i = Len(w) + 2 /\ Narrow(b) >= 0 /\ u[i].k = "data"

LEMMA AddsMessage ==
  ASSUME NEW w \in Seq(Message), NEW m \in Message, NEW b \in Nat, NEW t \in Int
  PROVE  Adds((w \o <<m>>) \o Data(b, t), w, m, b, t)
<1> DEFINE d == [k |-> "data", array |-> Sent(b, t)]
<1> DEFINE v == w \o <<m>>
<1>1. v \in Seq(Message) /\ Len(v) = Len(w) + 1 /\ v[Len(w) + 1] = m
      /\ \A i \in 1..Len(w) : v[i] = w[i]
  OBVIOUS
<1>2. Len(w) \in Nat OBVIOUS
<1>3. Narrow(b) \in Int BY NarrowFacts
<1>4. CASE Narrow(b) < 0
  <2>1. v \o Data(b, t) = v BY <1>1, <1>4 DEF Data
  <2> HIDE DEF v
  <2>2. Adds(v, w, m, b, t) BY <1>1, <1>2, <1>3, <1>4 DEF Adds
  <2> QED BY <2>1, <2>2 DEF v
<1>5. CASE ~(Narrow(b) < 0)
  <2>1. d \in Message BY SentSame, <1>3, <1>5 DEF Message
  <2>2. Data(b, t) = <<d>> BY <1>5 DEF Data
  <2> HIDE DEF v, d
  <2> DEFINE u == v \o <<d>>
  <2>3. u \in Seq(Message) /\ Len(u) = Len(v) + 1 /\ u[Len(v) + 1] = d
        /\ \A i \in 1..Len(v) : u[i] = v[i]
    BY <1>1, <2>1
  <2> HIDE DEF u
  <2>4. d.k = "data" BY DEF d
  <2>5. Len(u) = Len(w) + 2 /\ u[Len(w) + 2] = d BY <2>3, <1>1, <1>2
  <2>6. \A i \in 1..Len(w) : i \in 1..Len(u) /\ u[i] = w[i]
    BY <2>3, <2>5, <1>1, <1>2
  <2>7. Len(w) + 1 \in 1..Len(u) /\ u[Len(w) + 1] = m
    BY <2>3, <2>5, <1>1, <1>2
  <2>8. \A i \in 1..Len(u) : i \in 1..Len(w) \/ i = Len(w) + 1 \/ i = Len(w) + 2
    BY <2>5, <1>2
  <2>9. Adds(u, w, m, b, t)
    BY <2>3, <2>4, <2>5, <2>6, <2>7, <2>8, <1>3, <1>5, <1>2 DEF Adds, d
  <2> QED BY <2>9, <2>2 DEF u, v
<1> QED BY <1>4, <1>5

LEMMA ChainedAdds ==
  ASSUME NEW w \in Seq(Message), NEW m \in Message, NEW b \in Nat, NEW t \in Int,
         NEW u, Adds(u, w, m, b, t), Chained(w, t),
         m.k \in {"bufHeader", "particleHeader"}, BytesOf(m) = b
  PROVE  /\ Chained(u, t) /\ u # <<>>
         /\ w # <<>> => u[1] = w[1]
         /\ w = <<>> => u[1].k # "data"
<1>1. Len(w) \in Nat /\ Len(u) \in Nat /\ Narrow(b) \in Int
  BY NarrowFacts DEF Adds
<1>2. ASSUME NEW i \in 1..Len(u)
      PROVE  /\ Carries(u[i]) => i < Len(u)
             /\ i < Len(u) => (Carries(u[i]) <=> u[i + 1].k = "data")
             /\ i < Len(u) /\ Carries(u[i]) => u[i + 1].array = Sent(BytesOf(u[i]), t)
  <2>1. CASE i \in 1..Len(w) /\ i < Len(w)
    <3>1. i + 1 \in 1..Len(w) /\ u[i] = w[i] /\ u[i + 1] = w[i + 1] /\ i < Len(u)
      BY <2>1, <1>1 DEF Adds
    <3> QED BY <3>1, <2>1 DEF Chained
  <2>2. CASE i = Len(w)
    <3>1. i \in 1..Len(w) /\ u[i] = w[i] /\ u[i + 1] = m BY <2>2, <1>1 DEF Adds
    <3>2. ~Carries(w[i]) BY <3>1, <2>2, <1>1 DEF Chained
    <3> QED BY <3>1, <3>2
  <2>3. CASE i = Len(w) + 1
    <3>1. u[i] = m BY <2>3 DEF Adds
    <3>2. Carries(m) <=> Narrow(b) >= 0 BY DEF Carries
    <3>3. CASE Narrow(b) < 0
      <4>1. ~(i < Len(u)) BY <3>3, <2>3, <1>1 DEF Adds
      <4> QED BY <4>1, <3>1, <3>2, <3>3, <1>1
    <3>4. CASE ~(Narrow(b) < 0)
      <4>1. Len(u) = Len(w) + 2 /\ i < Len(u) BY <3>4, <2>3, <1>1 DEF Adds
      <4>2. u[i + 1] = [k |-> "data", array |-> Sent(b, t)]
        BY <4>1, <2>3, <1>1 DEF Adds
      <4> QED BY <4>1, <4>2, <3>1, <3>2, <3>4, <1>1
    <3> QED BY <3>3, <3>4
  <2>4. CASE i = Len(w) + 2 /\ u[i].k = "data"
    <3>1. ~(i < Len(u)) BY <2>4, <1>1 DEF Adds
    <3> QED BY <3>1, <2>4 DEF Carries
  <2>5. \/ i \in 1..Len(w) /\ i < Len(w)
        \/ i = Len(w) \/ i = Len(w) + 1 \/ (i = Len(w) + 2 /\ u[i].k = "data")
    BY <1>1 DEF Adds
  <2> QED BY <2>1, <2>2, <2>3, <2>4, <2>5
<1>3. Chained(u, t) BY <1>2 DEF Chained
<1>4. u # <<>> BY <1>1 DEF Adds
<1>5. w # <<>> => u[1] = w[1]
  <2>1. w # <<>> => 1 \in 1..Len(w) OBVIOUS
  <2> QED BY <2>1 DEF Adds
<1>6. w = <<>> => u[1].k # "data"
  <2>1. w = <<>> => Len(w) = 0 OBVIOUS
  <2>2. w = <<>> => u[1] = m BY <2>1 DEF Adds
  <2> QED BY <2>2
<1> QED BY <1>3, <1>4, <1>5, <1>6

(* A channel without headers holds the data that is being read, if any.    *)
LEMMA NoHeaderLeft ==
  ASSUME NEW w \in Seq(Message),
         \A i \in 1..Len(w) : w[i].k = "data",
         w # <<>> => w[1].k # "data"
  PROVE  w = <<>>
<1>1. w # <<>> => 1 \in 1..Len(w) OBVIOUS
<1> QED BY <1>1
-----------------------------------------------------------------------------
LEMMA Described ==
  ASSUME NEW type \in DOMAIN Stride, NEW length \in Nat
  PROVE  BufferOf(type, length) \in Description
<1>1. Stride[type] \in Nat BY TransferAssumption
<1>2. length * Stride[type] \in Nat BY <1>1
<1> QED BY <1>1, <1>2 DEF BufferOf, Description, dtypeStride

LEMMA EmptyTyped ==
  EmptyState \in [bounds : Boxes, buffers : Maps(Description), particles : Particles]
  /\ EmptyState \in [bounds : Boxes, buffers : Maps(Received), particles : Particles]
<1>1. NoParticles \in Particles BY DEF NoParticles, NoArray, Particles, Array
<1>2. EmptyBox \in Boxes BY TransferAssumption
<1> QED BY <1>1, <1>2, NoEntries DEF EmptyState

LEMMA TypeInit == Init => TypeOK
<1> SUFFICES ASSUME Init PROVE TypeOK OBVIOUS
<1>1. snapshot \in [step : Int, bounds : Boxes, buffers : Maps(Description),
                   particles : Particles]
  BY EmptyTyped DEF Init, At
<1>2. DOMAIN state.buffers = {} /\ DOMAIN snapshot.buffers = {}
  BY NoEntries DEF Init, At, EmptyState
<1> QED BY <1>1, <1>2, EmptyTyped, FS_EmptySet DEF Init, TypeOK

LEMMA DescribeTyped ==
  ASSUME TypeOK, NEW n \in Names, NEW b \in Description, state' = WithEntry(n, b)
  PROVE  state' \in [bounds : Boxes, buffers : Maps(Description), particles : Particles]
         /\ IsFiniteSet(DOMAIN state'.buffers)
<1>1. state.buffers \in Maps(Description) BY DEF TypeOK
<1> DEFINE p == Put(state.buffers, n, b)
<1>2. p \in Maps(Description) /\ DOMAIN p = DOMAIN state.buffers \cup {n}
  BY <1>1, PutDescription, PutFacts
<1>3. state' = [state EXCEPT !.buffers = p] BY DEF WithEntry
<1>6. IsFiniteSet(DOMAIN state.buffers) BY DEF TypeOK
<1>7. IsFiniteSet(DOMAIN state.buffers \cup {n}) BY <1>6, FS_AddElement
<1>4. IsFiniteSet(DOMAIN p) BY <1>2, <1>7
<1> HIDE DEF p
<1>5. state'.buffers = p BY <1>3 DEF TypeOK
<1> QED BY <1>2, <1>3, <1>4, <1>5 DEF TypeOK

LEMMA SetStateTyped ==
  ASSUME TypeOK, SetState
  PROVE  state' \in [bounds : Boxes, buffers : Maps(Description), particles : Particles]
         /\ IsFiniteSet(DOMAIN state'.buffers)
<1>1. CASE libISMakeSimState
  BY <1>1, EmptyTyped, NoEntries, FS_EmptySet DEF libISMakeSimState, EmptyState
<1>2. ASSUME NEW b \in Boxes, libISSetLocalBounds(b)
      PROVE  state' \in [bounds : Boxes, buffers : Maps(Description), particles : Particles]
             /\ IsFiniteSet(DOMAIN state'.buffers)
  BY <1>2 DEF libISSetLocalBounds, TypeOK
<1>3. ASSUME NEW n \in Names, NEW t \in DOMAIN Stride, NEW l \in Lengths,
             libISSetField(n, t, l)
      PROVE  state' \in [bounds : Boxes, buffers : Maps(Description), particles : Particles]
             /\ IsFiniteSet(DOMAIN state'.buffers)
  BY <1>3, Described, DescribeTyped, TransferAssumption DEF libISSetField
<1>4. ASSUME NEW n \in Names, NEW l \in Lengths, libISSetBuffer(n, l)
      PROVE  state' \in [bounds : Boxes, buffers : Maps(Description), particles : Particles]
             /\ IsFiniteSet(DOMAIN state'.buffers)
  BY <1>4, Described, DescribeTyped, TransferAssumption DEF libISSetBuffer
<1>5. ASSUME NEW p \in ParticleCounts, NEW g \in ParticleCounts, libISSetParticles(p, g)
      PROVE  state' \in [bounds : Boxes, buffers : Maps(Description), particles : Particles]
             /\ IsFiniteSet(DOMAIN state'.buffers)
  <2>1. p \in Nat /\ g \in Nat /\ p + g \in Nat BY TransferAssumption
  <2>2. (p + g) * ParticleStride \in Nat BY <2>1, TransferAssumption
  <2> DEFINE q == [np |-> p, ng |-> g, array |-> Full((p + g) * ParticleStride, -1)]
  <2>3. q \in Particles BY <2>1, <2>2 DEF Particles, Full, Array
  <2>4. state' = [state EXCEPT !.particles = q] BY <1>5 DEF libISSetParticles
  <2> HIDE DEF q
  <2> QED BY <2>3, <2>4 DEF TypeOK
<1> QED BY <1>1, <1>2, <1>3, <1>4, <1>5 DEF SetState

LEMMA SetStateSteps ==
  SetState => /\ simPc = "app"
              /\ UNCHANGED <<step, simPc, unsent, snapshot, wire, clientVars>>
BY DEF SetState, libISMakeSimState, libISSetLocalBounds, libISSetField,
       libISSetBuffer, libISSetParticles, InApp

(* What the client takes is a message. *)
LEMMA TakeFacts ==
  ASSUME TypeOK, NEW kind, Take(kind)
  PROVE  /\ clientPc = kind /\ wire # <<>> /\ wire[1].k = kind /\ Head(wire) = wire[1]
         /\ wire[1] \in Message /\ wire' = Tail(wire) /\ wire' \in Seq(Message)
         /\ 1 \in 1..Len(wire)
         /\ UNCHANGED <<state, step, simPc, unsent, snapshot>>
BY TailFacts DEF TypeOK, Take, simVars

-----------------------------------------------------------------------------
(* What does not mention the state and the step of the simulation.         *)
LEMMA Unmoved ==
  ASSUME IInv, UNCHANGED <<simPc, unsent, snapshot, wire, clientVars>>
  PROVE  /\ DataInv' /\ HeaderInv' /\ BufferInv' /\ ParticleInv' /\ CountInv' /\ RegionInv'
         /\ RegionExact'
<1> USE DEF IInv, clientVars
<1>1. DataInv' BY DEF DataInv
<1>2. HeaderInv' BY DEF HeaderInv, Given
<1>3. BufferInv' BY DEF BufferInv, Due, Given, Filled, Reading
<1>4. ParticleInv' BY DEF ParticleInv, Pending, Body
<1>5. CountInv' BY DEF CountInv, Body, Filled, Given
<1>6. RegionInv'
  BY DEF RegionInv, Body, Filled, Given, ExactArray, ReadsParticles, ReadsArray
<1>7. RegionExact' BY DEF RegionExact, Returned, ExactArray
<1> QED BY <1>1, <1>2, <1>3, <1>4, <1>5, <1>6, <1>7

LEMMA StepSetState ==
  ASSUME IInv, SetState PROVE IInv'
<1>1. simPc = "app" /\ UNCHANGED <<step, simPc, unsent, snapshot, wire, clientVars>>
  BY SetStateSteps
<1>2. TypeOK' BY <1>1, SetStateTyped DEF IInv, TypeOK, clientVars
<1>3. SimInv' BY <1>1 DEF IInv, SimInv, Reading, Given, clientVars
<1> QED BY <1>1, <1>2, <1>3, Unmoved DEF IInv

LEMMA StepIdle ==
  ASSUME IInv, ProcessIdle PROVE IInv'
<1>1. simPc = "app" /\ UNCHANGED <<state, simPc, unsent, snapshot, wire, clientVars>>
      /\ step' = step + 1
  BY DEF ProcessIdle
<1>2. TypeOK' BY <1>1 DEF IInv, TypeOK, clientVars
<1>3. SimInv' BY <1>1 DEF IInv, SimInv, Reading, Given, clientVars
<1> QED BY <1>1, <1>2, <1>3, Unmoved DEF IInv

LEMMA StepPing ==
  ASSUME IInv, Ping PROVE IInv'
<1>1. clientPc = "app" /\ clientPc' = "pinged" /\ wire = <<>>
      /\ UNCHANGED <<state, step, simPc, unsent, snapshot, wire, expected, region>>
  BY DEF Ping, simVars, IInv, SimInv, Reading
<1>2. TypeOK' BY <1>1 DEF IInv, TypeOK
<1>3. SimInv' BY <1>1 DEF IInv, SimInv, Reading, Given
<1>4. ~Reading' /\ ~Body' /\ clientPc' # "header" /\ Len(wire') = 0
  BY <1>1 DEF Reading, Body
<1>5. DataInv' BY <1>1, <1>4 DEF DataInv, Chained
<1>6. HeaderInv' BY <1>1, <1>4 DEF HeaderInv
<1>7. BufferInv' BY <1>1, <1>4 DEF BufferInv
<1>8. ParticleInv' BY <1>1, <1>4 DEF ParticleInv, Pending
<1>9. CountInv' /\ RegionInv' BY <1>4 DEF CountInv, RegionInv
<1>10. RegionExact' BY <1>1 DEF RegionExact, Returned
<1> QED BY <1>2, <1>3, <1>5, <1>6, <1>7, <1>8, <1>9, <1>10 DEF IInv

LEMMA StepSendHeader ==
  ASSUME IInv, SendHeader PROVE IInv'
<1> DEFINE h == StateHeader
<1>1. /\ clientPc = "pinged" /\ clientPc' = "header" /\ simPc' = "buffers"
      /\ wire = <<>> /\ wire' = Append(wire, h) /\ unsent' = DOMAIN state.buffers
      /\ snapshot' = At(state, step)
      /\ UNCHANGED <<state, step, expected, region>>
  BY DEF SendHeader, IInv, SimInv, Reading
<1>2. wire' = <<h>> BY <1>1
<1>3. h \in Message
  <2>1. Cardinality(DOMAIN state.buffers) \in Nat
    BY FS_CardinalityType DEF IInv, TypeOK
  <2>2. HasParticles(state.particles) \in Nat
    BY FlagFacts DEF IInv, TypeOK
  <2>3. state.bounds \in Boxes BY DEF IInv, TypeOK
  <2> QED BY <2>1, <2>2, <2>3 DEF StateHeader, Message
<1>4. /\ h.k = "header" /\ h.bounds = snapshot'.bounds
      /\ h.numBuffers = Cardinality(DOMAIN snapshot'.buffers)
      /\ h.hasParticles = HasParticles(snapshot'.particles)
  BY <1>1 DEF StateHeader, At
<1>5. snapshot'.buffers = state.buffers BY <1>1 DEF At
<1> HIDE DEF h
<1>6. wire' \in Seq(Message) /\ Len(wire') = 1 /\ wire'[1] = h /\ wire' # <<>>
      /\ \A i \in 1..Len(wire') : i = 1 /\ wire'[i] = h
  BY <1>2, <1>3
<1>7. TypeOK'
  <2>1. DOMAIN state.buffers \subseteq Names
    BY MapsEntry DEF IInv, TypeOK
  <2>2. snapshot' \in [step : Int, bounds : Boxes, buffers : Maps(Description),
                      particles : Particles]
    BY <1>1 DEF IInv, TypeOK, At
  <2> QED BY <1>1, <1>5, <1>6, <2>1, <2>2 DEF IInv, TypeOK
<1>8. SimInv' BY <1>1, <1>5 DEF SimInv, Given, Reading
<1>9. Reading' /\ ~Body' /\ Due' = {}
  BY <1>1, <1>5 DEF Reading, Body, Due, Given
<1>10. DataInv'
  <2>1. Chained(wire', snapshot'.step)
    BY <1>4, <1>6 DEF Chained, Carries
  <2> QED BY <2>1, <1>1, <1>4, <1>6 DEF DataInv
<1>11. HeaderInv' BY <1>1, <1>4, <1>6 DEF HeaderInv, Given
<1>12. BufferInv' BY <1>4, <1>6, <1>9 DEF BufferInv
<1>13. ParticleInv' BY <1>1, <1>4, <1>6 DEF ParticleInv
<1>14. CountInv' /\ RegionInv' BY <1>9 DEF CountInv, RegionInv
<1>15. RegionExact' BY <1>1 DEF RegionExact, Returned
<1> QED BY <1>7, <1>8, <1>10, <1>11, <1>12, <1>13, <1>14, <1>15 DEF IInv

-----------------------------------------------------------------------------
LEMMA DataOfStep ==
  ASSUME NEW b, snapshot.step = step
  PROVE  DataSent(b) = Data(b, snapshot.step)
BY DEF DataSent, Data, Sent

LEMMA StepSendBuffer ==
  ASSUME IInv, NEW name \in Names, SendBuffer(name) PROVE IInv'
<1> DEFINE b == state.buffers[name]
<1> DEFINE m == [k |-> "bufHeader", name |-> name, buffer |-> b]
<1>1. /\ simPc = "buffers" /\ name \in unsent /\ unsent' = unsent \ {name}
      /\ wire' = (wire \o <<m>>) \o DataSent(b.bytes)
      /\ UNCHANGED <<state, step, simPc, snapshot, clientPc, expected, region>>
  BY DEF SendBuffer, clientVars
<1>2. /\ Reading /\ unsent \subseteq Given /\ name \in Given
      /\ snapshot.step = step /\ snapshot.buffers = state.buffers
  BY <1>1 DEF IInv, SimInv, At
<1>3. b \in Description /\ b.bytes \in Nat
  <2>1. state.buffers \in Maps(Description) BY DEF IInv, TypeOK
  <2>2. name \in DOMAIN state.buffers BY <1>2 DEF Given
  <2>3. b \in Description BY <2>1, <2>2 DEF Maps
  <2> QED BY <2>3 DEF Description
<1>4. m \in Message /\ m.k = "bufHeader" /\ BytesOf(m) = b.bytes /\ m.name = name
      /\ m.buffer = snapshot.buffers[name]
  BY <1>2, <1>3 DEF Message, BytesOf
<1> HIDE DEF m
<1> HIDE DEF b
<1>5. snapshot.step \in Int /\ wire \in Seq(Message) BY DEF IInv, TypeOK
<1>6. Adds(wire', wire, m, b.bytes, snapshot.step)
  BY <1>1, <1>2, <1>3, <1>4, <1>5, DataOfStep, AddsMessage
<1>7. Chained(wire', snapshot.step) /\ wire' # <<>>
      /\ (wire # <<>> => wire'[1] = wire[1]) /\ (wire = <<>> => wire'[1].k # "data")
  <2>1. Chained(wire, snapshot.step) BY DEF IInv, DataInv
  <2>2. \A u : Adds(u, wire, m, b.bytes, snapshot.step) =>
          /\ Chained(u, snapshot.step) /\ u # <<>>
          /\ wire # <<>> => u[1] = wire[1]
          /\ wire = <<>> => u[1].k # "data"
    BY <1>3, <1>4, <1>5, <2>1, ChainedAdds
  <2> QED BY <2>2, <1>6
<1>8. /\ wire' \in Seq(Message)
      /\ \A i \in 1..Len(wire) : i \in 1..Len(wire') /\ wire'[i] = wire[i]
      /\ Len(wire) + 1 \in 1..Len(wire') /\ wire'[Len(wire) + 1] = m
      /\ \A i \in 1..Len(wire') :
           i \in 1..Len(wire) \/ i = Len(wire) + 1 \/ wire'[i].k = "data"
  BY <1>6 DEF Adds
<1>9. TypeOK' BY <1>1, <1>8 DEF IInv, TypeOK
<1>10. SimInv' BY <1>1, <1>2 DEF IInv, SimInv, Given, Reading, At
<1>11. /\ Reading' /\ Given' = Given /\ Filled' = Filled /\ Body' = Body
       /\ Pending' = Pending
  BY <1>1, <1>2 DEF Reading, Given, Filled, Body, Pending
<1>12. Due' = Due \cup {name} /\ name \notin Due
  <2>1. name \notin Filled
    BY <1>1, <1>2 DEF IInv, CountInv, Reading, Body, Filled, TypeOK
  <2> QED BY <2>1, <1>1, <1>2, <1>11 DEF Due
<1>13. DataInv'
  <2>1. wire = <<>> => clientPc # "data" BY DEF IInv, DataInv
  <2> QED BY <2>1, <1>1, <1>7 DEF IInv, DataInv
<1>14. HeaderInv'
  <2>1. ASSUME NEW i \in 1..Len(wire'), wire'[i].k = "header"
        PROVE  i = 1 /\ clientPc' = "header"
    BY <2>1, <1>1, <1>4, <1>8 DEF IInv, HeaderInv
  <2>2. clientPc' = "header" => wire' # <<>> /\ wire'[1] = wire[1]
    BY <1>1, <1>7 DEF IInv, HeaderInv
  <2> QED BY <2>1, <2>2, <1>1, <1>11 DEF IInv, HeaderInv
<1>15. BufferInv'
  <2>1. ASSUME NEW i \in 1..Len(wire'), wire'[i].k = "bufHeader"
        PROVE  /\ wire'[i].name \in Due' /\ wire'[i].buffer = snapshot'.buffers[wire'[i].name]
               /\ \/ i \in 1..Len(wire) /\ wire'[i] = wire[i] /\ wire[i].name \in Due
                  \/ i = Len(wire) + 1 /\ wire'[i].name = name
    <3>1. CASE i \in 1..Len(wire)
      BY <3>1, <2>1, <1>1, <1>8, <1>12 DEF IInv, BufferInv
    <3>2. CASE i = Len(wire) + 1
      BY <3>2, <1>1, <1>4, <1>8, <1>12
    <3> QED BY <3>1, <3>2, <2>1, <1>8
  <2>2. ASSUME NEW i \in 1..Len(wire'), NEW j \in 1..Len(wire'),
               wire'[i].k = "bufHeader", wire'[j].k = "bufHeader",
               wire'[i].name = wire'[j].name
        PROVE  i = j
    <3>1. CASE i \in 1..Len(wire) /\ j \in 1..Len(wire)
      BY <3>1, <2>2, <1>8 DEF IInv, BufferInv
    <3> QED BY <3>1, <2>1, <2>2, <1>12
  <2>3. ASSUME NEW n \in Due'
        PROVE  \E i \in 1..Len(wire') : wire'[i].k = "bufHeader" /\ wire'[i].name = n
    <3>1. CASE n = name BY <3>1, <1>4, <1>8
    <3>2. CASE n \in Due
      <4>1. PICK i \in 1..Len(wire) : wire[i].k = "bufHeader" /\ wire[i].name = n
        BY <3>2, <1>2 DEF IInv, BufferInv
      <4> QED BY <4>1, <1>8
    <3> QED BY <3>1, <3>2, <1>12
  <2> QED BY <2>1, <2>2, <2>3 DEF BufferInv
<1>16. ParticleInv'
  <2>1. \A i \in 1..Len(wire') : wire'[i].k # "particleHeader"
    BY <1>1, <1>4, <1>8 DEF IInv, ParticleInv
  <2> QED BY <2>1, <1>1 DEF ParticleInv
<1>17. CountInv' BY <1>1, <1>11 DEF IInv, CountInv
<1>18. RegionInv'
  <2>1. clientPc = "data" => wire'[1] = wire[1] BY <1>7 DEF IInv, DataInv
  <2> QED BY <2>1, <1>1, <1>11
      DEF IInv, RegionInv, ReadsParticles, ReadsArray, ExactArray
<1>19. RegionExact' BY <1>1 DEF IInv, RegionExact, Returned, ExactArray
<1> QED BY <1>9, <1>10, <1>13, <1>14, <1>15, <1>16, <1>17, <1>18, <1>19 DEF IInv

LEMMA StepSendParticles ==
  ASSUME IInv, SendParticles PROVE IInv'
<1> DEFINE p == state.particles
<1> DEFINE q == snapshot.particles
<1> DEFINE b == p.array.bytes
<1> DEFINE m == [k |-> "particleHeader", np |-> p.np, ng |-> p.ng, bytes |-> b]
<1>1. /\ simPc = "buffers" /\ unsent = {} /\ simPc' = "app" /\ step' = step + 1
      /\ UNCHANGED <<state, unsent, snapshot, clientPc, expected, region>>
  BY DEF SendParticles, clientVars
<1>2. q = p /\ snapshot.step = step BY <1>1 DEF IInv, SimInv, At
<1>3. wire' = IF HasParticles(p) # 0 THEN (wire \o <<m>>) \o DataSent(b) ELSE wire
  BY DEF SendParticles, SendsParticles
<1>4. p \in Particles /\ b \in Nat BY DEF IInv, TypeOK, Particles, Array
<1>5. m \in Message /\ m.k = "particleHeader" /\ BytesOf(m) = b
      /\ m.np = q.np /\ m.ng = q.ng /\ m.bytes = q.array.bytes
  BY <1>2, <1>4 DEF Message, BytesOf, Particles
<1>6. \A i \in 1..Len(wire) : wire[i].k # "particleHeader"
  BY <1>1 DEF IInv, ParticleInv
<1>7. /\ Reading' = Reading /\ Given' = Given /\ Filled' = Filled /\ Body' = Body
      /\ Pending' = Pending /\ Due' = Due
  BY <1>1 DEF Reading, Given, Filled, Body, Pending, Due
<1>8. CountInv' BY <1>1, <1>7 DEF IInv, CountInv
<1>9. ~ReadsParticles \/ ~Body BY <1>1 DEF IInv, RegionInv
<1>10. RegionExact' BY <1>1 DEF IInv, RegionExact, Returned, ExactArray
<1>11. CASE HasParticles(p) = 0
  <2>1. wire' = wire BY <1>3, <1>11
  <2>2. ~Pending BY <1>2, <1>11 DEF Pending
  <2>3. TypeOK' BY <1>1, <2>1 DEF IInv, TypeOK
  <2>4. SimInv' BY <1>1, <1>7, <2>1 DEF IInv, SimInv
  <2>5. DataInv' BY <1>1, <2>1 DEF IInv, DataInv
  <2>6. HeaderInv' BY <1>1, <1>7, <2>1 DEF IInv, HeaderInv
  <2>7. BufferInv' BY <1>1, <1>7, <2>1 DEF IInv, BufferInv
  <2>8. ParticleInv' BY <1>6, <1>7, <2>1, <2>2 DEF ParticleInv
  <2>9. RegionInv' BY <1>1, <1>7, <2>1
    DEF IInv, RegionInv, ReadsParticles, ReadsArray, ExactArray
  <2> QED BY <1>8, <1>10, <2>3, <2>4, <2>5, <2>6, <2>7, <2>8, <2>9 DEF IInv
<1>12. CASE HasParticles(p) # 0
  <2>1. Reading BY <1>1, <1>2, <1>12 DEF IInv, SimInv
  <2>2. Pending
    <3>1. clientPc = "header" \/ Body BY <2>1 DEF Reading, Body, IInv, TypeOK
    <3>2. Body => expected.particles = HasParticles(q)
      BY <1>9 DEF IInv, RegionInv
    <3> QED BY <3>1, <3>2, <1>2, <1>12 DEF Pending
  <2>3. wire' = (wire \o <<m>>) \o DataSent(b) BY <1>3, <1>12
  <2> HIDE DEF m
  <2>4. snapshot.step \in Int /\ wire \in Seq(Message) BY DEF IInv, TypeOK
  <2>5. Adds(wire', wire, m, b, snapshot.step)
    <3> HIDE DEF b
    <3>1. DataSent(b) = Data(b, snapshot.step) BY <1>2, DataOfStep
    <3> QED BY <2>3, <2>4, <1>4, <1>5, <3>1, AddsMessage
  <2>6. Chained(wire', snapshot.step) /\ wire' # <<>>
        /\ (wire # <<>> => wire'[1] = wire[1]) /\ (wire = <<>> => wire'[1].k # "data")
    <3> HIDE DEF b
    <3>1. Chained(wire, snapshot.step) BY DEF IInv, DataInv
    <3>2. \A u : Adds(u, wire, m, b, snapshot.step) =>
            /\ Chained(u, snapshot.step) /\ u # <<>>
            /\ wire # <<>> => u[1] = wire[1]
            /\ wire = <<>> => u[1].k # "data"
      BY <1>4, <1>5, <2>4, <3>1, ChainedAdds
    <3> QED BY <3>2, <2>5
  <2>7. /\ wire' \in Seq(Message)
        /\ \A i \in 1..Len(wire) : i \in 1..Len(wire') /\ wire'[i] = wire[i]
        /\ Len(wire) + 1 \in 1..Len(wire') /\ wire'[Len(wire) + 1] = m
        /\ \A i \in 1..Len(wire') :
             i \in 1..Len(wire) \/ i = Len(wire) + 1 \/ wire'[i].k = "data"
    BY <2>5 DEF Adds
  <2>8. TypeOK' BY <1>1, <2>7 DEF IInv, TypeOK
  <2>9. SimInv' BY <1>1, <1>7, <2>1 DEF IInv, SimInv
  <2>10. DataInv'
    <3>1. wire = <<>> => clientPc # "data" BY DEF IInv, DataInv
    <3> QED BY <3>1, <1>1, <2>6 DEF IInv, DataInv
  <2>11. HeaderInv'
    <3>1. ASSUME NEW i \in 1..Len(wire'), wire'[i].k = "header"
          PROVE  i = 1 /\ clientPc' = "header"
      BY <3>1, <1>1, <1>5, <2>7 DEF IInv, HeaderInv
    <3>2. clientPc' = "header" => wire' # <<>> /\ wire'[1] = wire[1]
      BY <1>1, <2>6 DEF IInv, HeaderInv
    <3> QED BY <3>1, <3>2, <1>1, <1>7 DEF IInv, HeaderInv
  <2>12. BufferInv'
    <3>1. ASSUME NEW i \in 1..Len(wire'), wire'[i].k = "bufHeader"
          PROVE  i \in 1..Len(wire) /\ wire'[i] = wire[i]
      BY <3>1, <1>5, <2>7
    <3>2. ASSUME Reading, NEW n \in Due
          PROVE  \E i \in 1..Len(wire') : wire'[i].k = "bufHeader" /\ wire'[i].name = n
      <4>1. PICK i \in 1..Len(wire) : wire[i].k = "bufHeader" /\ wire[i].name = n
        BY <3>2 DEF IInv, BufferInv
      <4> QED BY <4>1, <2>7
    <3>3. \A i \in 1..Len(wire') : wire'[i].k = "bufHeader" =>
            wire'[i].name \in Due' /\ wire'[i].buffer = snapshot'.buffers[wire'[i].name]
      BY <3>1, <1>1, <1>7 DEF IInv, BufferInv
    <3>4. \A i, j \in 1..Len(wire') :
            wire'[i].k = "bufHeader" /\ wire'[j].k = "bufHeader"
              /\ wire'[i].name = wire'[j].name => i = j
      BY <3>1 DEF IInv, BufferInv
    <3> QED BY <3>2, <3>3, <3>4, <1>7 DEF BufferInv
  <2>13. ParticleInv'
    <3>1. ASSUME NEW i \in 1..Len(wire'), wire'[i].k = "particleHeader"
          PROVE  i = Len(wire) + 1 /\ wire'[i] = m
      BY <3>1, <1>6, <2>7
    <3>2. \A j \in 1..Len(wire') : j > Len(wire) + 1 => wire'[j].k = "data"
      <4>1. Len(wire) \in Nat BY <2>4
      <4> QED BY <4>1, <2>7
    <3>3. \E i \in 1..Len(wire') : wire'[i].k = "particleHeader"
      BY <1>5, <2>7
    <3> QED BY <3>1, <3>2, <3>3, <1>1, <1>5, <1>7, <2>2 DEF ParticleInv
  <2>14. RegionInv'
    <3>1. clientPc = "data" => wire'[1] = wire[1] BY <2>6 DEF IInv, DataInv
    <3> QED BY <3>1, <1>1, <1>7, <1>9
        DEF IInv, RegionInv, ReadsParticles, ReadsArray, ExactArray
  <2> QED BY <1>8, <1>10, <2>8, <2>9, <2>10, <2>11, <2>12, <2>13, <2>14 DEF IInv
<1> QED BY <1>11, <1>12

-----------------------------------------------------------------------------
(* The client takes the first message, whatever it is.                     *)
LEMMA TakeWire ==
  ASSUME IInv, NEW kind, Take(kind)
  PROVE  /\ \A i \in 1..Len(wire') : /\ i + 1 \in 1..Len(wire) /\ wire'[i] = wire[i + 1]
                                     /\ wire'[i].k # "header"
         /\ \A j \in 1..Len(wire) : j # 1 => /\ j - 1 \in 1..Len(wire')
                                            /\ wire'[j - 1] = wire[j]
         /\ Chained(wire', snapshot.step)
         /\ wire' # <<>> => (wire'[1].k = "data" <=> Carries(wire[1]))
         /\ Carries(wire[1]) =>
              /\ wire' # <<>>
              /\ wire'[1].array = Sent(BytesOf(wire[1]), snapshot.step)
<1>1. wire \in Seq(Message) /\ wire # <<>> /\ wire' = Tail(wire)
      /\ snapshot.step \in Int /\ Chained(wire, snapshot.step)
  BY DEF Take, IInv, TypeOK, DataInv
<1>2. /\ Chained(wire', snapshot.step)
      /\ wire' # <<>> => (wire'[1].k = "data" <=> Carries(wire[1]))
      /\ Carries(wire[1]) =>
           /\ wire' # <<>>
           /\ wire'[1].array = Sent(BytesOf(wire[1]), snapshot.step)
  BY <1>1, ChainedTail
<1>3. /\ \A i \in 1..Len(wire') : i + 1 \in 1..Len(wire) /\ wire'[i] = wire[i + 1]
      /\ \A j \in 1..Len(wire) : j # 1 => /\ j - 1 \in 1..Len(wire')
                                         /\ wire'[j - 1] = wire[j]
  BY <1>1, TailFacts
<1>4. \A i \in 1..Len(wire') : wire'[i].k # "header"
  BY <1>3 DEF IInv, HeaderInv
<1> QED BY <1>2, <1>3, <1>4

LEMMA TakeHeaders ==
  ASSUME IInv, NEW kind, Take(kind), clientPc' # "header"
  PROVE  HeaderInv'
BY TakeWire DEF HeaderInv

LEMMA TakeBuffers ==
  ASSUME IInv, NEW kind, Take(kind), kind # "bufHeader", Due' = Due, Reading
  PROVE  BufferInv'
<1>1. wire[1].k # "bufHeader" /\ UNCHANGED snapshot BY TakeFacts DEF IInv
<1>2. \A i \in 1..Len(wire') : wire'[i].k = "bufHeader" =>
        wire'[i].name \in Due' /\ wire'[i].buffer = snapshot'.buffers[wire'[i].name]
  BY <1>1, TakeWire DEF IInv, BufferInv
<1>3. ASSUME NEW i \in 1..Len(wire'), NEW j \in 1..Len(wire'),
             wire'[i].k = "bufHeader", wire'[j].k = "bufHeader",
             wire'[i].name = wire'[j].name
      PROVE  i = j
  <2>1. i + 1 = j + 1 BY <1>3, TakeWire DEF IInv, BufferInv
  <2> QED BY <2>1
<1>4. ASSUME NEW n \in Due
      PROVE  \E i \in 1..Len(wire') : wire'[i].k = "bufHeader" /\ wire'[i].name = n
  <2>1. PICK j \in 1..Len(wire) : wire[j].k = "bufHeader" /\ wire[j].name = n
    BY <1>4 DEF IInv, BufferInv
  <2>2. j # 1 BY <1>1, <2>1
  <2> QED BY <2>1, <2>2, TakeWire
<1> QED BY <1>2, <1>3, <1>4 DEF BufferInv

LEMMA TakeParticles ==
  ASSUME IInv, NEW kind, Take(kind), kind # "particleHeader", Pending' = Pending
  PROVE  ParticleInv'
<1>1. wire[1].k # "particleHeader" /\ UNCHANGED <<snapshot, simPc>>
  BY TakeFacts DEF IInv
<1>2. ASSUME NEW i \in 1..Len(wire'), wire'[i].k = "particleHeader"
      PROVE  /\ Pending' /\ simPc' = "app"
             /\ wire'[i].np = snapshot'.particles.np /\ wire'[i].ng = snapshot'.particles.ng
             /\ wire'[i].bytes = snapshot'.particles.array.bytes
             /\ \A j \in 1..Len(wire') : j > i => wire'[j].k = "data"
  <2>1. i + 1 \in 1..Len(wire) /\ wire'[i] = wire[i + 1] BY TakeWire
  <2>2. ASSUME NEW j \in 1..Len(wire'), j > i PROVE wire'[j].k = "data"
    <3>1. j + 1 \in 1..Len(wire) /\ wire'[j] = wire[j + 1] /\ j + 1 > i + 1
      BY <2>2, TakeWire
    <3> QED BY <1>2, <2>1, <3>1 DEF IInv, ParticleInv
  <2> QED BY <1>1, <1>2, <2>1, <2>2 DEF IInv, ParticleInv
<1>3. ASSUME simPc = "app", Pending
      PROVE  \E i \in 1..Len(wire') : wire'[i].k = "particleHeader"
  <2>1. PICK j \in 1..Len(wire) : wire[j].k = "particleHeader"
    BY <1>3 DEF IInv, ParticleInv
  <2>2. j # 1 BY <1>1, <2>1
  <2> QED BY <2>1, <2>2, TakeWire
<1> QED BY <1>1, <1>2, <1>3 DEF ParticleInv

(* When all has come, nothing is left in the channel.                      *)
LEMMA NothingLeft ==
  ASSUME IInv, NEW kind, Take(kind), BufferInv', ParticleInv', Due' = {}, ~Pending',
         wire' # <<>> => wire'[1].k # "data"
  PROVE  wire' = <<>>
<1>1. wire' \in Seq(Message) BY TakeFacts DEF IInv
<1>2. ASSUME NEW i \in 1..Len(wire') PROVE wire'[i].k = "data"
  <2>1. wire'[i] \in Message BY <1>1
  <2>2. wire'[i].k \in {"header", "bufHeader", "particleHeader", "data"}
    BY <2>1, MessageFacts
  <2>3. wire'[i].k # "header" BY TakeWire
  <2>4. wire'[i].k # "bufHeader" BY DEF BufferInv
  <2>5. wire'[i].k # "particleHeader" BY DEF ParticleInv
  <2> QED BY <2>2, <2>3, <2>4, <2>5
<1>3. wire' # <<>> => 1 \in 1..Len(wire') BY <1>1
<1> QED BY <1>2, <1>3

LEMMA NextFacts ==
  ASSUME NEW n \in Nat, NEW f \in Nat
  PROVE  /\ NextMessage(n, f) \in {"bufHeader", "particleHeader", "app"}
         /\ NextMessage(n, f) = "app" <=> n = 0 /\ f = 0
BY DEF NextMessage

LEMMA StepReceiveHeader ==
  ASSUME IInv, ReceiveHeader PROVE IInv'
<1> DEFINE n == Cardinality(Given)
<1> DEFINE f == HasParticles(snapshot.particles)
<1>1. /\ Take("header") /\ clientPc = "header" /\ wire # <<>> /\ wire[1].k = "header"
      /\ Head(wire) = wire[1] /\ wire' \in Seq(Message)
      /\ UNCHANGED <<state, step, simPc, unsent, snapshot>>
  BY TakeFacts DEF ReceiveHeader, IInv
<1>2. wire[1].bounds = snapshot.bounds /\ wire[1].numBuffers = n
      /\ wire[1].hasParticles = f
  BY <1>1 DEF IInv, HeaderInv
<1>3. n \in Nat /\ f \in Nat /\ (n = 0 => Given = {})
  <2>1. IsFiniteSet(Given) BY DEF IInv, TypeOK, Given
  <2>2. snapshot.particles \in Particles BY DEF IInv, TypeOK
  <2> QED BY <2>1, <2>2, FlagFacts, FS_CardinalityType, FS_EmptySet
<1>4. /\ expected' = [buffers |-> n, particles |-> f, name |-> {}]
      /\ clientPc' = NextMessage(n, f)
      /\ region' = [EmptyState EXCEPT !.bounds = snapshot.bounds]
  BY <1>1, <1>2 DEF ReceiveHeader, NewRegion
<1>5. /\ region'.bounds = snapshot.bounds /\ region'.buffers = <<>>
      /\ region'.particles = NoParticles /\ DOMAIN region'.buffers = {}
  BY <1>4, NoEntries DEF EmptyState
<1> HIDE DEF n, f
<1>6. clientPc' \in {"bufHeader", "particleHeader", "app"}
      /\ (clientPc' = "app" <=> n = 0 /\ f = 0)
  BY <1>3, <1>4, NextFacts
<1>7. /\ Given' = Given /\ Filled = {} /\ Filled' = {} /\ Reading
      /\ Body' = (clientPc' # "app") /\ Reading' = (clientPc' # "app")
  BY <1>1, <1>5, <1>6 DEF Given, Filled, Body, Reading
<1>8. Due' = Due BY <1>1, <1>7 DEF Due
<1>9. Pending' = Pending
  <2>1. Pending <=> f # 0 BY <1>1 DEF Pending, f
  <2>2. Pending' <=> f # 0
    BY <1>1, <1>4, <1>6, <1>7 DEF Pending, f
  <2>3. Pending \in BOOLEAN /\ Pending' \in BOOLEAN BY DEF Pending
  <2> QED BY <2>1, <2>2, <2>3
<1>10. wire' # <<>> => wire'[1].k # "data"
  <2>1. ~Carries(wire[1]) BY <1>1 DEF Carries
  <2> QED BY <2>1, <1>1, TakeWire
<1>11. HeaderInv' BY <1>1, <1>6, TakeHeaders
<1>12. BufferInv' BY <1>1, <1>7, <1>8, TakeBuffers
<1>13. ParticleInv' BY <1>1, <1>9, TakeParticles
<1>14. DataInv'
  <2>1. Chained(wire', snapshot'.step) BY <1>1, TakeWire
  <2> QED BY <2>1, <1>6, <1>10 DEF DataInv
<1>15. TypeOK'
  <2>1. region' \in [bounds : Boxes, buffers : Maps(Received), particles : Particles]
    <3>1. snapshot.bounds \in Boxes BY DEF IInv, TypeOK
    <3> QED BY <3>1, <1>4, EmptyTyped
  <2>2. expected' \in [buffers : Int, particles : Nat, name : SUBSET Names]
    BY <1>3, <1>4
  <2> QED BY <2>1, <2>2, <1>1, <1>6 DEF IInv, TypeOK
<1>16. clientPc' = "app" => /\ Given = {} /\ f = 0 /\ wire' = <<>>
  <2>1. clientPc' = "app" => Given = {} /\ f = 0 BY <1>3, <1>6
  <2>2. clientPc' = "app" => Due' = {} /\ ~Pending'
    BY <2>1, <1>1, <1>7 DEF Due, Pending, f
  <2>3. clientPc' = "app" => wire' = <<>>
    BY <2>2, <1>1, <1>10, <1>12, <1>13, NothingLeft
  <2> QED BY <2>1, <2>3
<1>17. SimInv'
  <2>1. clientPc' = "app" => unsent = {}
    BY <1>16 DEF IInv, SimInv, TypeOK
  <2> QED BY <2>1, <1>1, <1>7, <1>16 DEF IInv, SimInv, f, At
<1>18. CountInv'
  <2>1. Given \ {} = Given OBVIOUS
  <2>2. Given' \ Filled' = Given BY <1>7
  <2>3. expected'.buffers = n /\ expected'.particles = f BY <1>4
  <2>4. clientPc' = NextMessage(expected'.buffers, expected'.particles)
    BY <2>3, <1>4
  <2>5. Filled' \subseteq Given' /\ Filled' \cap unsent' = {} BY <1>7
  <2>6. expected'.buffers = Cardinality(Given' \ Filled') BY <2>2, <2>3 DEF n
  <2>7. region'.bounds = snapshot'.bounds BY <1>1, <1>5
  <2> QED BY <2>4, <2>5, <2>6, <2>7 DEF CountInv
<1>19. RegionInv'
  <2>1. clientPc' # "data" BY <1>6
  <2> QED BY <2>1, <1>1, <1>4, <1>5, <1>7 DEF RegionInv, ReadsParticles, f
<1>20. RegionExact'
  <2>1. clientPc' = "app" => DOMAIN snapshot'.buffers = {}
        /\ HasParticles(snapshot'.particles) = 0
    BY <1>1, <1>16 DEF Given, f
  <2> QED BY <2>1, <1>1, <1>5 DEF RegionExact, Returned
<1> QED BY <1>11, <1>12, <1>13, <1>14, <1>15, <1>17, <1>18, <1>19, <1>20 DEF IInv

(* A region with nothing to come is the snapshot.                          *)
LEMMA Complete ==
  ASSUME Returned' => /\ Filled' = Given' /\ region'.bounds = snapshot'.bounds
                      /\ \A n \in Filled' :
                           /\ region'.buffers[n].header = snapshot'.buffers[n]
                           /\ Same(region'.buffers[n].array, snapshot'.buffers[n].bytes,
                                   snapshot'.step),
         Returned' => LET p == region'.particles  q == snapshot'.particles IN
                        IF HasParticles(q) = 0 THEN p = NoParticles
                        ELSE /\ p.np = q.np /\ p.ng = q.ng
                             /\ Same(p.array, q.array.bytes, snapshot'.step)
  PROVE  RegionExact'
<1>1. Returned' => Filled' = DOMAIN region'.buffers BY DEF Returned, Filled
<1> QED BY <1>1 DEF RegionExact, Given, ExactArray, Same

LEMMA StepReceiveBufferHeader ==
  ASSUME IInv, ReceiveBufferHeader PROVE IInv'
<1>0. PICK h, name, b, r, f :
        /\ h = wire[1] /\ name = h.name /\ b = h.buffer.bytes
        /\ r = [header |-> h.buffer, array |-> Owned(b)]
        /\ f = HasParticles(snapshot.particles)
  OBVIOUS
<1>1. /\ Take("bufHeader") /\ clientPc = "bufHeader" /\ wire # <<>> /\ h.k = "bufHeader"
      /\ Head(wire) = h /\ h \in Message /\ wire' \in Seq(Message) /\ 1 \in 1..Len(wire)
      /\ UNCHANGED <<state, step, simPc, unsent, snapshot>>
  BY <1>0, TakeFacts DEF ReceiveBufferHeader, IInv
<1>2. Body /\ Reading /\ ~ReadsParticles BY <1>1 DEF Body, Reading, ReadsParticles
<1>3. /\ name \in Due /\ h.buffer = snapshot.buffers[name] /\ name \in Names
      /\ h.buffer \in Description /\ b \in Nat
  <2>1. name \in Due /\ h.buffer = snapshot.buffers[name] BY <1>0, <1>1 DEF IInv, BufferInv
  <2>2. name \in Names /\ h.buffer \in Description BY <1>0, <1>1, MessageFacts
  <2> QED BY <1>0, <2>1, <2>2 DEF Description
<1>4. /\ Filled \subseteq Given /\ Filled \cap unsent = {}
      /\ expected.buffers = Cardinality(Given \ Filled)
      /\ region.bounds = snapshot.bounds
      /\ expected.particles = f /\ region.particles = NoParticles
      /\ \A n \in Filled :
           /\ region.buffers[n].header = snapshot.buffers[n]
           /\ Same(region.buffers[n].array, snapshot.buffers[n].bytes, snapshot.step)
  BY <1>0, <1>1, <1>2 DEF IInv, CountInv, RegionInv, ExactArray, Same
<1>5. /\ expected' = [expected EXCEPT !.buffers = @ - 1, !.name = {name}]
      /\ region' = [region EXCEPT !.buffers = Put(@, name, r)]
      /\ clientPc' = IF Narrow(b) >= 0 THEN "data"
                     ELSE NextMessage(expected'.buffers, f)
  <2>1. LET w == Head(wire) IN
          /\ region' = [region EXCEPT !.buffers =
               Put(@, w.name, [header |-> w.buffer, array |-> Owned(w.buffer.bytes)])]
          /\ expected' = [expected EXCEPT !.buffers = @ - 1, !.name = {w.name}]
          /\ clientPc' = IF Narrow(w.buffer.bytes) >= 0 THEN "data"
                         ELSE NextMessage(expected'.buffers, expected.particles)
    BY DEF ReceiveBufferHeader
  <2>2. Head(wire) = h BY <1>1
  <2>3. region' = [region EXCEPT !.buffers = Put(@, name, r)] BY <2>1, <2>2, <1>0
  <2>4. expected' = [expected EXCEPT !.buffers = @ - 1, !.name = {name}]
    BY <2>1, <2>2, <1>0
  <2>5. clientPc' = IF Narrow(b) >= 0 THEN "data" ELSE NextMessage(expected'.buffers, f)
    BY <2>1, <2>2, <1>0, <1>4
  <2> QED BY <2>3, <2>4, <2>5
<1>6. f \in Nat
  <2>1. snapshot.particles \in Particles BY DEF IInv, TypeOK
  <2> QED BY <2>1, FlagFacts, <1>0
<1>7. /\ expected'.buffers = expected.buffers - 1 /\ expected'.particles = f
      /\ expected'.name = {name}
      /\ expected' \in [buffers : Int, particles : Nat, name : SUBSET Names]
  <2>1. expected \in [buffers : Int, particles : Nat, name : SUBSET Names]
    BY DEF IInv, TypeOK
  <2>2. {name} \in SUBSET Names BY <1>3
  <2>3. expected'.buffers = expected.buffers - 1 /\ expected'.name = {name}
        /\ expected'.particles = expected.particles
    BY <1>5, <2>1
  <2>4. expected' \in [buffers : Int, particles : Nat, name : SUBSET Names]
    <3>1. expected.buffers - 1 \in Int BY <2>1
    <3> DEFINE e == expected.buffers - 1
    <3>2. expected' = [expected EXCEPT !.buffers = e, !.name = {name}] BY <1>5
    <3> HIDE DEF e
    <3> QED BY <2>1, <2>2, <3>1, <3>2 DEF e
  <2> QED BY <2>3, <2>4, <1>4
<1>8. /\ region'.buffers = Put(region.buffers, name, r)
      /\ region'.bounds = snapshot.bounds /\ region'.particles = NoParticles
      /\ region' \in [bounds : Boxes, buffers : Maps(Received), particles : Particles]
  <2> DEFINE p == Put(region.buffers, name, r)
  <2>1. r \in Received
    <3>1. Owned(b) \in Array BY <1>3, OwnedSame
    <3> QED BY <1>0, <1>3, <3>1 DEF Received
  <2>2. region.buffers \in Maps(Received) BY DEF IInv, TypeOK
  <2>3. p \in Maps(Received) BY <1>3, <2>1, <2>2, PutReceived
  <2>4. region' = [region EXCEPT !.buffers = p] BY <1>5
  <2> HIDE DEF p
  <2>5. region'.buffers = p BY <2>4 DEF IInv, TypeOK
  <2> QED BY <1>4, <2>3, <2>4, <2>5 DEF IInv, TypeOK, p
<1>9. /\ DOMAIN region'.buffers = DOMAIN region.buffers \cup {name}
      /\ region'.buffers[name] = r
      /\ \A n \in DOMAIN region.buffers : n # name => region'.buffers[n] = region.buffers[n]
  BY <1>8 DEF Put
<1>10. /\ Given' = Given /\ name \in Given \ Filled /\ name \notin unsent
       /\ Filled = DOMAIN region.buffers
  BY <1>1, <1>3 DEF Given, Due, Filled
<1>11. /\ expected.buffers \in Nat /\ expected'.buffers \in Nat
       /\ expected'.buffers = Cardinality(Given \ (Filled \cup {name}))
       /\ (expected'.buffers = 0 => Given = Filled \cup {name})
  <2>1. IsFiniteSet(Given) BY DEF IInv, TypeOK, Given
  <2>2. IsFiniteSet(Given \ Filled) BY <2>1, FS_Difference
  <2>3. expected.buffers \in Nat BY <1>4, <2>2, FS_CardinalityType
  <2>4. (Given \ Filled) \ {name} = Given \ (Filled \cup {name}) OBVIOUS
  <2>5. /\ IsFiniteSet((Given \ Filled) \ {name})
        /\ Cardinality((Given \ Filled) \ {name}) = Cardinality(Given \ Filled) - 1
    BY <2>2, <1>10, FS_RemoveElement
  <2>6. expected'.buffers = Cardinality(Given \ (Filled \cup {name}))
    BY <1>4, <1>7, <2>4, <2>5
  <2>7. expected'.buffers \in Nat BY <2>4, <2>5, <2>6, FS_CardinalityType
  <2>8. expected'.buffers = 0 => Given \ (Filled \cup {name}) = {}
    BY <2>4, <2>5, <2>6, FS_EmptySet
  <2> QED BY <2>3, <2>6, <2>7, <2>8, <1>4, <1>10
<1>12. /\ clientPc' \in {"bufHeader", "particleHeader", "app", "data"}
       /\ (clientPc' = "app" => expected'.buffers = 0 /\ f = 0)
  BY <1>5, <1>6, <1>11, NextFacts
<1>13. Filled' = Filled \cup {name} BY <1>9, <1>10, <1>12 DEF Filled
<1>14. Body' = (clientPc' # "app") /\ Reading' = (clientPc' # "app")
  BY <1>12 DEF Body, Reading
<1>15. Due' = Due \ {name} BY <1>1, <1>10, <1>13 DEF Due
<1>16. Pending' = Pending
  <2>1. Pending <=> f # 0 BY <1>0, <1>2, <1>4 DEF Pending
  <2>2. Pending' <=> f # 0
    BY <1>0, <1>1, <1>7, <1>12, <1>14 DEF Pending
  <2>3. Pending \in BOOLEAN /\ Pending' \in BOOLEAN BY DEF Pending
  <2> QED BY <2>1, <2>2, <2>3
<1>17. Carries(h) <=> Narrow(b) >= 0 BY <1>0, <1>1 DEF Carries, BytesOf
<1>18. /\ wire' # <<>> => (wire'[1].k = "data" <=> Narrow(b) >= 0)
       /\ Narrow(b) >= 0 => wire' # <<>> /\ wire'[1].array = Sent(b, snapshot.step)
  BY <1>1, <1>17, TakeWire, <1>0 DEF BytesOf
<1>19. clientPc' = "data" <=> Narrow(b) >= 0
  BY <1>5, <1>6, <1>11, NextFacts
<1>20. HeaderInv' BY <1>1, <1>12, TakeHeaders
<1>21. ParticleInv' BY <1>1, <1>16, TakeParticles
<1>22. DataInv'
  <2>1. Chained(wire', snapshot'.step) BY <1>1, TakeWire
  <2> QED BY <2>1, <1>18, <1>19 DEF DataInv
<1>23. BufferInv'
  <2>1. ASSUME NEW i \in 1..Len(wire'), wire'[i].k = "bufHeader"
        PROVE  wire'[i].name \in Due' /\ wire'[i].buffer = snapshot'.buffers[wire'[i].name]
    <3>1. i + 1 \in 1..Len(wire) /\ wire'[i] = wire[i + 1] /\ i + 1 # 1
      BY <1>1, TakeWire
    <3>2. wire'[i].name \in Due /\ wire'[i].buffer = snapshot.buffers[wire'[i].name]
      BY <2>1, <3>1 DEF IInv, BufferInv
    <3>3. wire'[i].name # name
      BY <1>0, <1>1, <2>1, <3>1 DEF IInv, BufferInv
    <3> QED BY <3>2, <3>3, <1>1, <1>15
  <2>2. ASSUME NEW i \in 1..Len(wire'), NEW j \in 1..Len(wire'),
               wire'[i].k = "bufHeader", wire'[j].k = "bufHeader",
               wire'[i].name = wire'[j].name
        PROVE  i = j
    <3>1. /\ i + 1 \in 1..Len(wire) /\ wire'[i] = wire[i + 1]
          /\ j + 1 \in 1..Len(wire) /\ wire'[j] = wire[j + 1]
      BY <1>1, TakeWire
    <3>2. i + 1 = j + 1 BY <2>2, <3>1 DEF IInv, BufferInv
    <3> QED BY <3>2
  <2>3. ASSUME NEW n \in Due'
        PROVE  \E i \in 1..Len(wire') : wire'[i].k = "bufHeader" /\ wire'[i].name = n
    <3>1. PICK j \in 1..Len(wire) : wire[j].k = "bufHeader" /\ wire[j].name = n
      BY <2>3, <1>2, <1>15 DEF IInv, BufferInv
    <3>2. j # 1 BY <1>0, <2>3, <3>1, <1>15
    <3> QED BY <3>1, <3>2, <1>1, TakeWire
  <2> QED BY <2>1, <2>2, <2>3 DEF BufferInv
<1>24. TypeOK' BY <1>1, <1>7, <1>8, <1>12 DEF IInv, TypeOK
<1>25. clientPc' = "app" => /\ Given = Filled' /\ f = 0 /\ wire' = <<>>
  <2>1. clientPc' = "app" => Given = Filled' /\ f = 0 BY <1>11, <1>12, <1>13
  <2>2. clientPc' = "app" => Due' = {} /\ ~Pending'
    BY <1>0, <2>1, <1>1, <1>10 DEF Due, Pending
  <2>3. clientPc' = "app" => wire' = <<>>
    BY <2>2, <1>1, <1>18, <1>19, <1>21, <1>23, NothingLeft
  <2> QED BY <2>1, <2>3
<1>26. Filled' \subseteq Given' /\ Filled' \cap unsent' = {}
  BY <1>1, <1>4, <1>10, <1>13
<1>27. SimInv'
  <2>1. clientPc' = "app" => unsent = {}
    BY <1>1, <1>10, <1>25, <1>26 DEF IInv, SimInv, TypeOK
  <2> QED BY <2>1, <1>0, <1>1, <1>2, <1>10, <1>14, <1>25 DEF IInv, SimInv, At
<1>28. CountInv'
  <2>1. clientPc' \in {"bufHeader", "particleHeader"} =>
          clientPc' = NextMessage(expected'.buffers, expected'.particles)
    BY <1>5, <1>7
  <2>2. expected'.buffers = Cardinality(Given' \ Filled') BY <1>10, <1>11, <1>13
  <2> QED BY <2>1, <2>2, <1>1, <1>8, <1>26 DEF CountInv
<1>29. ASSUME NEW n \in Filled'
       PROVE  /\ region'.buffers[n].header = snapshot'.buffers[n]
              /\ \/ Same(region'.buffers[n].array, snapshot'.buffers[n].bytes, snapshot'.step)
                 \/ n = name /\ clientPc' = "data"
  <2>1. CASE n = name
    <3>1. region'.buffers[n].header = h.buffer /\ region'.buffers[n].array = Owned(b)
      BY <1>0, <2>1, <1>9
    <3>2. snapshot'.buffers[n] = h.buffer /\ snapshot'.buffers[n].bytes = b
      BY <1>0, <2>1, <1>1, <1>3
    <3>3. Narrow(b) < 0 => Same(Owned(b), b, snapshot'.step)
      <4>1. snapshot'.step \in Int BY <1>1 DEF IInv, TypeOK
      <4> QED BY <4>1, <1>3, OwnedSame
    <3>4. Narrow(b) \in Int BY <1>3, NarrowFacts
    <3> QED BY <2>1, <3>1, <3>2, <3>3, <3>4, <1>19
  <2>2. CASE n # name
    <3>1. n \in Filled /\ region'.buffers[n] = region.buffers[n]
      BY <2>2, <1>9, <1>10, <1>13
    <3> QED BY <3>1, <1>1, <1>4
  <2> QED BY <2>1, <2>2
<1>30. RegionInv'
  <2>1. ~ReadsParticles' BY <1>7 DEF ReadsParticles
  <2>2. clientPc' = "data" => ReadsArray(snapshot.buffers[name].bytes)'
    BY <1>0, <1>1, <1>3, <1>18, <1>19 DEF ReadsArray
  <2>3. name \in Filled' BY <1>13
  <2>4. \A n \in Filled' :
         /\ region'.buffers[n].header = snapshot'.buffers[n]
         /\ \/ ExactArray(region.buffers[n].array, snapshot.buffers[n].bytes)'
            \/ clientPc' = "data" /\ n \in expected'.name
    BY <1>7, <1>29 DEF ExactArray, Same
  <2>5. expected'.particles = HasParticles(snapshot'.particles) /\ region'.particles = NoParticles
    BY <1>0, <1>1, <1>7, <1>8
  <2>6. clientPc' = "data" /\ expected'.name # {} =>
         \E n \in Filled' : expected'.name = {n} /\ ReadsArray(snapshot.buffers[n].bytes)'
    BY <1>1, <1>7, <2>2, <2>3 DEF ReadsArray
  <2> QED BY <2>1, <2>4, <2>5, <2>6 DEF RegionInv
<1>31. RegionExact'
  <2>1. Returned' => clientPc' = "app" BY DEF Returned
  <2>2. Returned' => /\ Filled' = Given' /\ region'.bounds = snapshot'.bounds
                     /\ \A n \in Filled' :
                          /\ region'.buffers[n].header = snapshot'.buffers[n]
                          /\ Same(region'.buffers[n].array, snapshot'.buffers[n].bytes,
                                  snapshot'.step)
    BY <2>1, <1>1, <1>8, <1>10, <1>25, <1>29
  <2>3. Returned' => HasParticles(snapshot'.particles) = 0 /\ region'.particles = NoParticles
    BY <1>0, <2>1, <1>1, <1>8, <1>25
  <2> QED BY <2>2, <2>3, Complete
<1> QED BY <1>20, <1>21, <1>22, <1>23, <1>24, <1>27, <1>28, <1>30, <1>31 DEF IInv

LEMMA StepReceiveParticleHeader ==
  ASSUME IInv, ReceiveParticleHeader PROVE IInv'
<1>0. PICK h, b, q :
        /\ h = wire[1] /\ b = h.bytes
        /\ q = [np |-> h.np, ng |-> h.ng, array |-> Owned(b)]
  OBVIOUS
<1>1. /\ Take("particleHeader") /\ clientPc = "particleHeader" /\ wire # <<>>
      /\ h.k = "particleHeader" /\ Head(wire) = h /\ h \in Message
      /\ wire' \in Seq(Message) /\ 1 \in 1..Len(wire)
      /\ UNCHANGED <<state, step, simPc, unsent, snapshot>>
  BY <1>0, TakeFacts DEF ReceiveParticleHeader, IInv
<1>2. Body /\ Reading /\ ~ReadsParticles BY <1>1 DEF Body, Reading, ReadsParticles
<1>3. /\ Pending /\ simPc = "app" /\ unsent = {}
      /\ h.np = snapshot.particles.np /\ h.ng = snapshot.particles.ng
      /\ b = snapshot.particles.array.bytes
      /\ \A j \in 1..Len(wire) : j > 1 => wire[j].k = "data"
  BY <1>0, <1>1 DEF IInv, ParticleInv, SimInv
<1>4. b \in Nat /\ q \in Particles
  <2>1. h.np \in Nat /\ h.ng \in Nat /\ b \in Nat BY <1>0, <1>1, MessageFacts
  <2>2. Owned(b) \in Array BY <2>1, OwnedSame
  <2> QED BY <1>0, <2>1, <2>2 DEF Particles
<1>5. /\ Filled \subseteq Given /\ expected.buffers = Cardinality(Given \ Filled)
      /\ region.bounds = snapshot.bounds
      /\ clientPc = NextMessage(expected.buffers, expected.particles)
      /\ expected.particles = HasParticles(snapshot.particles)
      /\ \A n \in Filled :
           /\ region.buffers[n].header = snapshot.buffers[n]
           /\ Same(region.buffers[n].array, snapshot.buffers[n].bytes, snapshot.step)
  BY <1>1, <1>2 DEF IInv, CountInv, RegionInv, ExactArray, Same
<1>6. Given = Filled /\ expected.buffers = 0
  <2>1. IsFiniteSet(Given \ Filled)
    <3>1. IsFiniteSet(Given) BY DEF IInv, TypeOK, Given
    <3> QED BY <3>1, FS_Difference
  <2>2. expected.buffers \in Nat BY <1>5, <2>1, FS_CardinalityType
  <2>3. ~(expected.buffers > 0) BY <1>1, <1>5 DEF NextMessage
  <2>4. Given \ Filled = {} BY <1>5, <2>1, <2>2, <2>3, FS_EmptySet
  <2>5. Given = Filled BY <1>5, <2>4
  <2>6. expected.buffers = 0 BY <2>2, <2>3
  <2> QED BY <2>5, <2>6
<1>7. /\ region' = [region EXCEPT !.particles = q]
      /\ expected' = [expected EXCEPT !.particles = 0, !.name = {}]
      /\ clientPc' = IF Narrow(b) >= 0 THEN "data" ELSE "app"
  <2>1. LET w == Head(wire) IN
          /\ region' = [region EXCEPT !.particles =
               [np |-> w.np, ng |-> w.ng, array |-> Owned(w.bytes)]]
          /\ expected' = [expected EXCEPT !.particles = 0, !.name = {}]
          /\ clientPc' = IF Narrow(w.bytes) >= 0 THEN "data" ELSE "app"
    BY DEF ReceiveParticleHeader
  <2>2. Head(wire) = h BY <1>1
  <2>3. region' = [region EXCEPT !.particles = q] BY <2>1, <2>2, <1>0
  <2>4. clientPc' = IF Narrow(b) >= 0 THEN "data" ELSE "app" BY <2>1, <2>2, <1>0
  <2> QED BY <2>1, <2>3, <2>4
<1>8. /\ expected'.buffers = 0 /\ expected'.particles = 0 /\ expected'.name = {}
      /\ expected' \in [buffers : Int, particles : Nat, name : SUBSET Names]
  <2>1. expected \in [buffers : Int, particles : Nat, name : SUBSET Names]
    BY DEF IInv, TypeOK
  <2> QED BY <1>6, <1>7, <2>1
<1>9. /\ region'.bounds = snapshot.bounds /\ region'.buffers = region.buffers
      /\ region'.particles = q
      /\ region' \in [bounds : Boxes, buffers : Maps(Received), particles : Particles]
  BY <1>4, <1>5, <1>7 DEF IInv, TypeOK
<1>10. /\ Given' = Given /\ Filled' = Filled /\ Body' = (clientPc' # "app")
       /\ Reading' = (clientPc' # "app") /\ clientPc' \in {"data", "app"}
  BY <1>1, <1>7, <1>9 DEF Given, Filled, Body, Reading
<1>11. Due = {} /\ Due' = {} BY <1>1, <1>6, <1>10 DEF Due
<1>12. ~Pending' BY <1>8, <1>10 DEF Pending
<1>13. (Carries(h) <=> Narrow(b) >= 0) /\ BytesOf(h) = b
  BY <1>0, <1>1 DEF Carries, BytesOf
<1>14. /\ wire' # <<>> => (wire'[1].k = "data" <=> Narrow(b) >= 0)
       /\ Narrow(b) >= 0 => wire' # <<>> /\ wire'[1].array = Sent(b, snapshot.step)
  BY <1>0, <1>1, <1>13, TakeWire
<1>15. clientPc' = "data" <=> Narrow(b) >= 0 BY <1>7
<1>16. HeaderInv' BY <1>1, <1>10, TakeHeaders
<1>17. BufferInv' BY <1>1, <1>2, <1>11, TakeBuffers
<1>18. ParticleInv'
  <2>1. ASSUME NEW i \in 1..Len(wire') PROVE wire'[i].k = "data"
    <3>1. i + 1 \in 1..Len(wire) /\ wire'[i] = wire[i + 1] /\ i + 1 > 1
      BY <1>1, TakeWire
    <3> QED BY <3>1, <1>3
  <2> QED BY <2>1, <1>12 DEF ParticleInv
<1>19. DataInv'
  <2>1. Chained(wire', snapshot'.step) BY <1>1, TakeWire
  <2> QED BY <2>1, <1>14, <1>15 DEF DataInv
<1>20. TypeOK' BY <1>1, <1>8, <1>9, <1>10 DEF IInv, TypeOK
<1>21. clientPc' = "app" => wire' = <<>>
  BY <1>1, <1>11, <1>12, <1>14, <1>15, <1>17, <1>18, NothingLeft
<1>22. SimInv' BY <1>1, <1>3, <1>10, <1>21 DEF SimInv
<1>23. CountInv'
  <2>1. expected'.buffers = Cardinality(Given' \ Filled')
    BY <1>5, <1>6, <1>8, <1>10
  <2>2. clientPc' \notin {"bufHeader", "particleHeader"} BY <1>10
  <2> QED BY <2>1, <2>2, <1>1, <1>3, <1>5, <1>9, <1>10 DEF CountInv
<1>24. /\ q.np = snapshot'.particles.np /\ q.ng = snapshot'.particles.ng
       /\ HasParticles(snapshot'.particles) # 0
       /\ b = snapshot'.particles.array.bytes /\ q.array = Owned(b)
  BY <1>0, <1>1, <1>3 DEF Pending
<1>25. RegionInv'
  <2>1. clientPc' = "data" => ReadsArray(snapshot.particles.array.bytes)'
    BY <1>1, <1>14, <1>15, <1>24 DEF ReadsArray
  <2>2. \A n \in Filled' :
         /\ region'.buffers[n].header = snapshot'.buffers[n]
         /\ ExactArray(region.buffers[n].array, snapshot.buffers[n].bytes)'
    BY <1>1, <1>5, <1>9, <1>10 DEF ExactArray, Same
  <2>3. Body' => ReadsParticles' BY <1>8, <1>10 DEF ReadsParticles
  <2> QED BY <2>1, <2>2, <2>3, <1>1, <1>3, <1>6, <1>8, <1>9, <1>10, <1>24
      DEF RegionInv
<1>26. RegionExact'
  <2>1. Returned' => clientPc' = "app" BY DEF Returned
  <2>2. clientPc' = "app" => Same(q.array, b, snapshot'.step)
    <3>1. snapshot'.step \in Int BY <1>1 DEF IInv, TypeOK
    <3>2. Narrow(b) \in Int BY <1>4, NarrowFacts
    <3> QED BY <3>1, <3>2, <1>4, <1>15, <1>24, OwnedSame
  <2>3. Returned' => /\ Filled' = Given' /\ region'.bounds = snapshot'.bounds
                     /\ \A n \in Filled' :
                          /\ region'.buffers[n].header = snapshot'.buffers[n]
                          /\ Same(region'.buffers[n].array, snapshot'.buffers[n].bytes,
                                  snapshot'.step)
    BY <1>1, <1>5, <1>6, <1>9, <1>10
  <2> QED BY <2>1, <2>2, <2>3, <1>9, <1>24, Complete
<1> QED BY <1>16, <1>17, <1>18, <1>19, <1>20, <1>22, <1>23, <1>25, <1>26 DEF IInv

-----------------------------------------------------------------------------
LEMMA DataTaken ==
  ASSUME IInv, ReceiveData
  PROVE  /\ Take("data") /\ clientPc = "data" /\ wire # <<>> /\ wire[1].k = "data"
         /\ Head(wire) = wire[1] /\ wire[1].array \in Array /\ wire' \in Seq(Message)
         /\ UNCHANGED <<state, step, simPc, unsent, snapshot, expected>>
         /\ clientPc' = NextMessage(expected.buffers, expected.particles)
         /\ Body /\ Reading
         /\ wire' # <<>> => wire'[1].k # "data"
<1>1. /\ Take("data") /\ clientPc = "data" /\ wire # <<>> /\ wire[1].k = "data"
      /\ Head(wire) = wire[1] /\ wire[1] \in Message /\ wire' \in Seq(Message)
      /\ UNCHANGED <<state, step, simPc, unsent, snapshot>>
  BY TakeFacts DEF ReceiveData, IInv
<1>2. wire[1].array \in Array BY <1>1, MessageFacts
<1>3. wire' # <<>> => wire'[1].k # "data"
  <2>1. ~Carries(wire[1]) BY <1>1 DEF Carries
  <2> QED BY <2>1, <1>1, TakeWire
<1> QED BY <1>1, <1>2, <1>3 DEF ReceiveData, Body, Reading

(* The data of the particles, with which a region is complete.             *)
LEMMA StepReceiveParticles ==
  ASSUME IInv, ReceiveData, expected.name = {} PROVE IInv'
<1>0. PICK a : a = wire[1].array OBVIOUS
<1>1. /\ Take("data") /\ clientPc = "data" /\ Head(wire) = wire[1] /\ a \in Array
      /\ wire' \in Seq(Message) /\ Body /\ Reading /\ ReadsParticles
      /\ UNCHANGED <<state, step, simPc, unsent, snapshot, expected>>
      /\ clientPc' = NextMessage(expected.buffers, expected.particles)
      /\ wire' # <<>> => wire'[1].k # "data"
  BY <1>0, DataTaken DEF ReadsParticles
<1>2. /\ expected.particles = 0 /\ Filled = Given /\ simPc = "app" /\ unsent = {}
      /\ HasParticles(snapshot.particles) # 0
      /\ region.particles.np = snapshot.particles.np
      /\ region.particles.ng = snapshot.particles.ng
      /\ Narrow(snapshot.particles.array.bytes) >= 0
      /\ a = Sent(snapshot.particles.array.bytes, snapshot.step)
      /\ region.bounds = snapshot.bounds
      /\ expected.buffers = Cardinality(Given \ Filled)
      /\ \A n \in Filled :
           /\ region.buffers[n].header = snapshot.buffers[n]
           /\ Same(region.buffers[n].array, snapshot.buffers[n].bytes, snapshot.step)
  BY <1>0, <1>1 DEF IInv, RegionInv, CountInv, SimInv, ReadsParticles, ReadsArray,
                    ExactArray, Same
<1>3. expected.buffers = 0 /\ clientPc' = "app"
  <2>1. Given \ Filled = {} BY <1>2
  <2>2. expected.buffers = 0 BY <1>2, <2>1, FS_EmptySet
  <2> QED BY <1>1, <1>2, <2>2 DEF NextMessage
<1>4. /\ region'.bounds = region.bounds /\ region'.buffers = region.buffers
      /\ region'.particles.np = region.particles.np
      /\ region'.particles.ng = region.particles.ng
      /\ region'.particles.array = a
      /\ region' \in [bounds : Boxes, buffers : Maps(Received), particles : Particles]
  <2>1. region' = [region EXCEPT !.particles.array = a]
    BY <1>0, <1>1 DEF ReceiveData
  <2>2. PICK q : q = [region.particles EXCEPT !.array = a] OBVIOUS
  <2>3. region.particles \in Particles BY DEF IInv, TypeOK
  <2>4. /\ q \in Particles /\ q.np = region.particles.np /\ q.ng = region.particles.ng
        /\ q.array = a
    BY <2>2, <2>3, <1>1 DEF Particles
  <2>5. region' = [region EXCEPT !.particles = q] BY <2>1, <2>2
  <2>6. region'.particles = q /\ region'.bounds = region.bounds
        /\ region'.buffers = region.buffers
    BY <2>5 DEF IInv, TypeOK
  <2>7. region' \in [bounds : Boxes, buffers : Maps(Received), particles : Particles]
    BY <2>4, <2>5 DEF IInv, TypeOK
  <2> QED BY <2>4, <2>6, <2>7
<1>5. /\ Given' = Given /\ Filled' = Filled /\ ~Body' /\ ~Reading' /\ Due = {} /\ Due' = {}
  BY <1>1, <1>2, <1>3, <1>4 DEF Given, Filled, Body, Reading, Due
<1>6. Pending = FALSE /\ Pending' = FALSE BY <1>1, <1>2, <1>3, <1>5 DEF Pending
<1>7. HeaderInv' BY <1>1, <1>3, TakeHeaders
<1>8. BufferInv' BY <1>1, <1>5, TakeBuffers
<1>9. ParticleInv' BY <1>1, <1>6, TakeParticles
<1>10. wire' = <<>> BY <1>1, <1>5, <1>6, <1>8, <1>9, NothingLeft
<1>11. DataInv'
  <2>1. Chained(wire', snapshot'.step) BY <1>1, TakeWire
  <2> QED BY <2>1, <1>3, <1>10 DEF DataInv
<1>12. TypeOK' BY <1>1, <1>3, <1>4 DEF IInv, TypeOK
<1>13. SimInv' BY <1>1, <1>2, <1>10 DEF SimInv
<1>14. CountInv' /\ RegionInv' BY <1>5 DEF CountInv, RegionInv
<1>15. RegionExact'
  <2>1. Same(a, snapshot.particles.array.bytes, snapshot.step)
    <3>1. snapshot.particles.array.bytes \in Nat /\ snapshot.step \in Int
      BY DEF IInv, TypeOK, Particles, Array
    <3> QED BY <3>1, <1>2, SentSame
  <2>2. /\ Filled' = Given' /\ region'.bounds = snapshot'.bounds
        /\ \A n \in Filled' :
             /\ region'.buffers[n].header = snapshot'.buffers[n]
             /\ Same(region'.buffers[n].array, snapshot'.buffers[n].bytes, snapshot'.step)
    BY <1>1, <1>2, <1>4, <1>5
  <2> QED BY <2>1, <2>2, <1>1, <1>2, <1>4, Complete
<1> QED BY <1>7, <1>8, <1>9, <1>11, <1>12, <1>13, <1>14, <1>15 DEF IInv

(* The data of a buffer.                                                   *)
LEMMA StepReceiveBuffer ==
  ASSUME IInv, ReceiveData, expected.name # {} PROVE IInv'
<1>0. PICK a, f : a = wire[1].array /\ f = HasParticles(snapshot.particles) OBVIOUS
<1>1. /\ Take("data") /\ clientPc = "data" /\ Head(wire) = wire[1] /\ a \in Array
      /\ wire' \in Seq(Message) /\ Body /\ Reading /\ ~ReadsParticles
      /\ UNCHANGED <<state, step, simPc, unsent, snapshot, expected>>
      /\ clientPc' = NextMessage(expected.buffers, expected.particles)
      /\ wire' # <<>> => wire'[1].k # "data"
  BY <1>0, DataTaken DEF ReadsParticles
<1>2. PICK name \in Filled :
        /\ expected.name = {name} /\ Narrow(snapshot.buffers[name].bytes) >= 0
        /\ a = Sent(snapshot.buffers[name].bytes, snapshot.step)
  BY <1>0, <1>1 DEF IInv, RegionInv, ReadsArray
<1>3. /\ Filled \subseteq Given /\ Filled \cap unsent = {}
      /\ expected.buffers = Cardinality(Given \ Filled)
      /\ region.bounds = snapshot.bounds /\ Filled = DOMAIN region.buffers
      /\ expected.particles = f /\ region.particles = NoParticles
      /\ \A n \in Filled :
           /\ region.buffers[n].header = snapshot.buffers[n]
           /\ n # name =>
                Same(region.buffers[n].array, snapshot.buffers[n].bytes, snapshot.step)
  BY <1>0, <1>1, <1>2 DEF IInv, RegionInv, CountInv, Filled, ExactArray, Same
<1>4. f \in Nat
  <2>1. snapshot.particles \in Particles BY DEF IInv, TypeOK
  <2> QED BY <2>1, FlagFacts, <1>0
<1>5. /\ expected.buffers \in Nat
      /\ expected.buffers = 0 => Given = Filled
  <2>1. IsFiniteSet(Given \ Filled)
    <3>1. IsFiniteSet(Given) BY DEF IInv, TypeOK, Given
    <3> QED BY <3>1, FS_Difference
  <2> QED BY <1>3, <2>1, FS_CardinalityType, FS_EmptySet
<1>6. /\ clientPc' \in {"bufHeader", "particleHeader", "app"}
      /\ clientPc' = "app" => expected.buffers = 0 /\ f = 0
  BY <1>1, <1>3, <1>4, <1>5, NextFacts
<1>7. /\ region'.bounds = region.bounds /\ region'.particles = region.particles
      /\ DOMAIN region'.buffers = DOMAIN region.buffers
      /\ \A n \in DOMAIN region.buffers :
           /\ region'.buffers[n].header = region.buffers[n].header
           /\ region'.buffers[n].array = IF n = name THEN a ELSE region.buffers[n].array
      /\ region' \in [bounds : Boxes, buffers : Maps(Received), particles : Particles]
  <2>1. PICK m : m = [n \in DOMAIN region.buffers |->
                        IF n \in expected.name
                        THEN [header |-> region.buffers[n].header, array |-> a]
                        ELSE region.buffers[n]]
    OBVIOUS
  <2>2. region' = [region EXCEPT !.buffers = m]
    BY <2>1, <1>0, <1>1 DEF ReceiveData
  <2>3. region.buffers \in Maps(Received) BY DEF IInv, TypeOK
  <2>4. PICK ns \in SUBSET Names : region.buffers \in [ns -> Received]
    BY <2>3 DEF Maps
  <2>5. /\ DOMAIN m = ns
        /\ \A n \in ns : /\ m[n].header = region.buffers[n].header
                         /\ m[n].array = IF n = name THEN a ELSE region.buffers[n].array
                         /\ m[n] \in Received
    BY <2>1, <2>4, <1>1, <1>2 DEF Received
  <2>6. m \in [ns -> Received] BY <2>1, <2>4, <2>5
  <2>7. m \in Maps(Received) BY <2>4, <2>6 DEF Maps
  <2>8. region'.buffers = m /\ region'.bounds = region.bounds
        /\ region'.particles = region.particles
    BY <2>2 DEF IInv, TypeOK
  <2>9. region' \in [bounds : Boxes, buffers : Maps(Received), particles : Particles]
    BY <2>2, <2>7 DEF IInv, TypeOK
  <2> QED BY <2>4, <2>5, <2>8, <2>9
<1>8. /\ Given' = Given /\ Filled' = Filled /\ Due' = Due
      /\ Body' = (clientPc' # "app") /\ Reading' = (clientPc' # "app")
  <2>1. Given' = Given BY <1>1 DEF Given
  <2>2. Filled' = Filled
    <3>1. Filled' = DOMAIN region'.buffers BY <1>6 DEF Filled
    <3> QED BY <3>1, <1>3, <1>7
  <2>3. Due' = Due BY <2>1, <2>2, <1>1 DEF Due
  <2>4. Body' = (clientPc' # "app") /\ Reading' = (clientPc' # "app")
    BY <1>6 DEF Body, Reading
  <2> QED BY <2>1, <2>2, <2>3, <2>4
<1>9. Pending' = Pending
  <2>1. Pending <=> f # 0 BY <1>0, <1>1, <1>3 DEF Pending
  <2>2. Pending' <=> f # 0 BY <1>0, <1>1, <1>3, <1>6, <1>8 DEF Pending
  <2>3. Pending \in BOOLEAN /\ Pending' \in BOOLEAN BY DEF Pending
  <2> QED BY <2>1, <2>2, <2>3
<1>10. HeaderInv' BY <1>1, <1>6, TakeHeaders
<1>11. BufferInv' BY <1>1, <1>8, TakeBuffers
<1>12. ParticleInv' BY <1>1, <1>9, TakeParticles
<1>13. DataInv'
  <2>1. Chained(wire', snapshot'.step) BY <1>1, TakeWire
  <2> QED BY <2>1, <1>1, <1>6 DEF DataInv
<1>14. TypeOK' BY <1>1, <1>6, <1>7 DEF IInv, TypeOK
<1>15. clientPc' = "app" => Given = Filled /\ f = 0 /\ wire' = <<>>
  <2>1. clientPc' = "app" => Given = Filled /\ f = 0 BY <1>5, <1>6
  <2>2. clientPc' = "app" => Due' = {} /\ ~Pending'
    BY <2>1, <1>0, <1>1, <1>8 DEF Due, Pending
  <2>3. clientPc' = "app" => wire' = <<>>
    BY <2>2, <1>1, <1>11, <1>12, NothingLeft
  <2> QED BY <2>1, <2>3
<1>16. SimInv'
  <2>1. clientPc' = "app" => unsent = {}
    BY <1>3, <1>15 DEF IInv, SimInv, TypeOK
  <2> QED BY <2>1, <1>0, <1>1, <1>8, <1>15 DEF IInv, SimInv, At
<1>17. CountInv' BY <1>1, <1>3, <1>7, <1>8 DEF CountInv
<1>18. ASSUME NEW n \in Filled'
       PROVE  /\ region'.buffers[n].header = snapshot'.buffers[n]
              /\ Same(region'.buffers[n].array, snapshot'.buffers[n].bytes, snapshot'.step)
  <2>1. n \in Filled BY <1>8
  <2>2. CASE n = name
    <3>1. snapshot.buffers[name].bytes \in Nat
      <4>1. snapshot.buffers \in Maps(Description) BY DEF IInv, TypeOK
      <4>2. name \in DOMAIN snapshot.buffers BY <1>3 DEF Given
      <4>3. snapshot.buffers[name] \in Description BY <4>1, <4>2 DEF Maps
      <4> QED BY <4>3 DEF Description
    <3>2. snapshot.step \in Int BY DEF IInv, TypeOK
    <3>3. Same(a, snapshot.buffers[name].bytes, snapshot.step)
      BY <3>1, <3>2, <1>2, SentSame
    <3> QED BY <2>1, <2>2, <3>3, <1>1, <1>3, <1>7
  <2>3. CASE n # name BY <2>1, <2>3, <1>1, <1>3, <1>7
  <2> QED BY <2>2, <2>3
<1>19. RegionInv'
  <2>1. clientPc' # "data" /\ ~ReadsParticles' BY <1>6 DEF ReadsParticles
  <2>2. \A n \in Filled' :
         /\ region'.buffers[n].header = snapshot'.buffers[n]
         /\ ExactArray(region.buffers[n].array, snapshot.buffers[n].bytes)'
    BY <1>18 DEF ExactArray, Same
  <2> QED BY <2>1, <2>2, <1>0, <1>1, <1>3, <1>7 DEF RegionInv
<1>20. RegionExact'
  <2>1. Returned' => clientPc' = "app" BY DEF Returned
  <2>2. Returned' => /\ Filled' = Given' /\ region'.bounds = snapshot'.bounds
                     /\ \A n \in Filled' :
                          /\ region'.buffers[n].header = snapshot'.buffers[n]
                          /\ Same(region'.buffers[n].array, snapshot'.buffers[n].bytes,
                                  snapshot'.step)
    BY <2>1, <1>1, <1>3, <1>7, <1>8, <1>15, <1>18
  <2>3. Returned' => HasParticles(snapshot'.particles) = 0 /\ region'.particles = NoParticles
    BY <2>1, <1>0, <1>1, <1>3, <1>7, <1>15
  <2> QED BY <2>2, <2>3, Complete
<1> QED BY <1>10, <1>11, <1>12, <1>13, <1>14, <1>16, <1>17, <1>19, <1>20 DEF IInv

-----------------------------------------------------------------------------
LEMMA InvInit == Init => IInv
<1> SUFFICES ASSUME Init PROVE IInv OBVIOUS
<1>1. TypeOK BY TypeInit
<1>2. /\ simPc = "app" /\ clientPc = "app" /\ unsent = {} /\ wire = <<>> /\ Len(wire) = 0
      /\ snapshot.step = -1
  BY DEF Init, At
<1>3. ~Reading /\ ~Body BY <1>2 DEF Reading, Body
<1>4. SimInv BY <1>2 DEF SimInv
<1>5. DataInv BY <1>2 DEF DataInv, Chained
<1>6. HeaderInv BY <1>2 DEF HeaderInv
<1>7. BufferInv BY <1>2, <1>3 DEF BufferInv
<1>8. ParticleInv BY <1>2, <1>3 DEF ParticleInv, Pending
<1>9. CountInv /\ RegionInv BY <1>3 DEF CountInv, RegionInv
<1>10. RegionExact BY <1>2 DEF RegionExact, Returned
<1> QED BY <1>1, <1>4, <1>5, <1>6, <1>7, <1>8, <1>9, <1>10 DEF IInv

LEMMA InvStutters ==
  ASSUME IInv, UNCHANGED vars PROVE IInv'
<1>1. UNCHANGED <<simPc, unsent, snapshot, wire, clientVars, state, step>>
  BY DEF vars, simVars
<1>2. TypeOK' BY <1>1 DEF IInv, TypeOK, clientVars
<1>3. SimInv' BY <1>1 DEF IInv, SimInv, Reading, Given, clientVars, At
<1> QED BY <1>1, <1>2, <1>3, Unmoved DEF IInv

LEMMA InvStep == IInv /\ [Next]_vars => IInv'
<1> SUFFICES ASSUME IInv, [Next]_vars PROVE IInv' OBVIOUS
<1>1. CASE SetState BY <1>1, StepSetState
<1>2. CASE ProcessIdle BY <1>2, StepIdle
<1>3. CASE SendHeader BY <1>3, StepSendHeader
<1>4. ASSUME NEW n \in Names, SendBuffer(n) PROVE IInv' BY <1>4, StepSendBuffer
<1>5. CASE SendParticles BY <1>5, StepSendParticles
<1>6. CASE Ping BY <1>6, StepPing
<1>7. CASE ReceiveHeader BY <1>7, StepReceiveHeader
<1>8. CASE ReceiveBufferHeader BY <1>8, StepReceiveBufferHeader
<1>9. CASE ReceiveParticleHeader BY <1>9, StepReceiveParticleHeader
<1>10. CASE ReceiveData BY <1>10, StepReceiveParticles, StepReceiveBuffer
<1>11. CASE Done BY <1>11, InvStutters DEF Done
<1>12. CASE UNCHANGED vars BY <1>12, InvStutters
<1> QED BY <1>1, <1>2, <1>3, <1>4, <1>5, <1>6, <1>7, <1>8, <1>9, <1>10, <1>11, <1>12
    DEF Next, Process, Query

(* What the client reads next is what the first message is: of the kinds   *)
(* that may come first, the others contradict what is known to be to come. *)
LEMMA Framed == IInv => FramingKept
<1> SUFFICES ASSUME IInv PROVE FramingKept OBVIOUS
<1> USE DEF IInv
<1>1. wire \in Seq(Message) /\ (wire # <<>> => 1 \in 1..Len(wire) /\ wire[1] \in Message
                                             /\ Head(wire) = wire[1])
  <2>1. wire \in Seq(Message) BY DEF TypeOK
  <2> QED BY <2>1
<1>2. /\ clientPc = "bufHeader" => Given # Filled
      /\ clientPc = "particleHeader" =>
           Given = Filled /\ expected.particles = HasParticles(snapshot.particles)
             /\ expected.particles # 0
  <2>1. Body => /\ expected.buffers = Cardinality(Given \ Filled)
                /\ expected.buffers \in Nat /\ IsFiniteSet(Given \ Filled)
                /\ Filled \subseteq Given
    <3>1. IsFiniteSet(Given) BY DEF TypeOK, Given
    <3>2. IsFiniteSet(Given \ Filled) BY <3>1, FS_Difference
    <3> QED BY <3>2, FS_CardinalityType DEF CountInv
  <2>2. clientPc = "bufHeader" => expected.buffers # 0
    BY DEF CountInv, Body, NextMessage
  <2>3. clientPc = "particleHeader" => /\ expected.buffers = 0
          /\ expected.particles # 0 /\ expected.particles = HasParticles(snapshot.particles)
    BY <2>1 DEF CountInv, RegionInv, ReadsParticles, Body, NextMessage
  <2>4. expected.buffers = 0 /\ Body => Given = Filled BY <2>1, FS_EmptySet
  <2>5. Body /\ expected.buffers # 0 => Given # Filled
    <3>1. Cardinality({}) = 0 BY FS_EmptySet
    <3>2. Given = Filled => Given \ Filled = {} OBVIOUS
    <3> QED BY <2>1, <3>1, <3>2
  <2>6. clientPc \in {"bufHeader", "particleHeader"} => Body BY DEF Body
  <2> QED BY <2>2, <2>3, <2>4, <2>5, <2>6
<1>3. ASSUME wire # <<>> PROVE Reading /\ wire[1].k = clientPc
  <2>1. Reading BY <1>3 DEF SimInv
  <2>2. clientPc \in {"header", "bufHeader", "particleHeader", "data"}
    BY <2>1 DEF Reading, TypeOK
  <2>3. wire[1].k \in {"header", "bufHeader", "particleHeader", "data"}
    BY <1>1, <1>3, MessageFacts
  <2>4. wire[1].k = "data" <=> clientPc = "data" BY <1>3 DEF DataInv
  <2>5. wire[1].k = "header" <=> clientPc = "header" BY <1>1, <1>3 DEF HeaderInv
  <2>6. ~(wire[1].k = "bufHeader" /\ clientPc = "particleHeader")
    BY <1>1, <1>2, <1>3 DEF BufferInv, Due
  <2>7. ASSUME wire[1].k = "particleHeader", clientPc = "bufHeader" PROVE FALSE
    <3>1. simPc = "app" /\ \A j \in 1..Len(wire) : j > 1 => wire[j].k = "data"
      BY <1>1, <1>3, <2>7 DEF ParticleInv
    <3>2. unsent = {} /\ Filled \subseteq Given
      BY <2>7, <3>1 DEF SimInv, CountInv, Body
    <3>3. PICK n \in Due : TRUE BY <1>2, <2>7, <3>2 DEF Due
    <3>4. PICK i \in 1..Len(wire) : wire[i].k = "bufHeader"
      BY <2>1, <3>3 DEF BufferInv
    <3>5. i # 1 BY <2>7, <3>4
    <3> QED BY <3>1, <3>4, <3>5
  <2> QED BY <2>1, <2>2, <2>3, <2>4, <2>5, <2>6, <2>7
<1>4. ASSUME Reading, simPc = "app" PROVE wire # <<>>
  <2>1. clientPc \in {"header", "bufHeader", "particleHeader", "data"}
    BY <1>4 DEF Reading, TypeOK
  <2>2. CASE clientPc = "header" BY <2>2 DEF HeaderInv
  <2>3. CASE clientPc = "data" BY <2>3 DEF DataInv
  <2>4. CASE clientPc = "bufHeader"
    <3>1. unsent = {} /\ Filled \subseteq Given
      BY <2>4, <1>4 DEF SimInv, CountInv, Body
    <3>2. PICK n \in Due : TRUE BY <1>2, <2>4, <3>1 DEF Due
    <3>3. PICK i \in 1..Len(wire) : wire[i].k = "bufHeader"
      BY <1>4, <3>2 DEF BufferInv
    <3> QED BY <3>3
  <2>5. CASE clientPc = "particleHeader"
    <3>1. Pending BY <1>2, <2>5 DEF Pending, Body
    <3>2. PICK i \in 1..Len(wire) : wire[i].k = "particleHeader"
      BY <1>4, <3>1 DEF ParticleInv
    <3> QED BY <3>2
  <2> QED BY <2>1, <2>2, <2>3, <2>4, <2>5
<1> QED BY <1>1, <1>3, <1>4 DEF FramingKept

(* The invariant of a transfer by handleQuery and query(), for any buffers, *)
(* sizes and ranges.                                                       *)
THEOREM TransferInvariant == Spec => []IInv
<1>1. Init => IInv BY InvInit
<1>2. IInv /\ [Next]_vars => IInv' BY InvStep
<1> QED BY <1>1, <1>2, PTL DEF Spec

(* What is in the channel is what query() reads next, nothing is left when *)
(* it returns, and it never waits for what Buffer::send, Particles::send   *)
(* and the InterComm under them do not send.                               *)
THEOREM FramingAlwaysKept == Spec => []FramingKept
BY TransferInvariant, Framed, PTL

(* A region that query() returns is the state with which one libISProcess  *)
(* was called: every buffer once, with the bytes of that timestep, the     *)
(* particles or none, and nothing of another call or an earlier region.    *)
THEOREM RegionsAreSnapshots == Spec => []RegionIsSnapshot
<1>1. ASSUME RegionExact PROVE RegionIsSnapshot
  <2>1. \A a, b : ExactArray(a, b) => SameArray(a, b)
    BY DEF ExactArray, SameArray, Full
  <2>2. CASE HasParticles(snapshot.particles) = 0
    BY <1>1, <2>1, <2>2 DEF RegionExact, RegionIsSnapshot
  <2>3. CASE HasParticles(snapshot.particles) # 0
    BY <1>1, <2>1, <2>3 DEF RegionExact, RegionIsSnapshot, SameParticles
  <2> QED
    BY <2>2, <2>3
<1>2. IInv => RegionIsSnapshot
  BY <1>1 DEF IInv
<1> QED BY <1>2, TransferInvariant, PTL
=============================================================================
