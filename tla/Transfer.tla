------------------------------ MODULE Transfer ------------------------------
(***************************************************************************)
(* What LibIS takes for one message, a region: the state that the libISSet *)
(* calls of one simulation rank build up, the sends by which handleQuery   *)
(* hands it over, and the recvs of query() on the client rank that pinged. *)
(*                                                                         *)
(* Neither side tells the other how many messages follow other than by the *)
(* fields of the headers: the client counts buffers down, asks a 32-bit    *)
(* flag whether particles come, and sizes every array by what its header   *)
(* says.  Arrays are borrowed from the simulation, which writes them anew  *)
(* in every timestep; an array is its size and the timestep of its bytes.  *)
(***************************************************************************)
EXTENDS Integers, Sequences, FiniteSets

CONSTANTS
  Names,        \* of fields and buffers
  Lengths,      \* elements of a field, bytes of a buffer
  Stride,       \* dtypeStride: type -> bytes of an element
  ParticleCounts, ParticleStride,
  Boxes, EmptyBox,
  FlagRange,    \* 2^32: hasParticles is a uint32_t
  IntRange,     \* 2^32: MPI counts are ints; 0 for sockets, which count in size_t
  MaxCalls, MaxSteps   \* bounds: libISSet calls, and libISProcess calls

ASSUME TransferAssumption ==
  /\ FlagRange \in Nat \ {0} /\ IntRange \in Nat
  /\ Lengths \subseteq Nat /\ ParticleCounts \subseteq Nat
  /\ ParticleStride \in Nat \ {0}
  /\ \A t \in DOMAIN Stride : Stride[t] \in Nat \ {0}
  /\ "UINT8" \in DOMAIN Stride /\ EmptyBox \in Boxes

VARIABLES
  state,      \* SimState: bounds, buffers by name, particles
  step,       \* the timestep whose values the arrays hold
  calls,      \* counts the libISSet calls, for the bound
  simPc,      \* "app", or "buffers" in handleQuery
  unsent,     \* names whose buffers handleQuery has still to send
  snapshot,   \* for the properties: the state that handleQuery was given
  wire,       \* from this simulation rank to the client rank
  clientPc,   \* "app", or the message that query() reads next
  expected,   \* buffers to come, the flag, the name of the array to come
  region      \* the SimState that query() fills

simVars == <<state, step, calls, simPc, unsent, snapshot>>
clientVars == <<clientPc, expected, region>>
vars == <<simVars, wire, clientVars>>

NoArray == [bytes |-> 0, arrived |-> 0, step |-> -1]
NoParticles == [np |-> 0, ng |-> 0, array |-> NoArray]
EmptyState == [bounds |-> EmptyBox, buffers |-> <<>>, particles |-> NoParticles]

(* An array of b bytes as its owner sees it at timestep t. *)
Full(b, t) == [bytes |-> b, arrived |-> b, step |-> t]

(* The state s as it is at timestep t. *)
At(s, t) ==
  [step |-> t, bounds |-> s.bounds, buffers |-> s.buffers, particles |-> s.particles]

Init ==
  /\ state = EmptyState /\ snapshot = At(EmptyState, -1) /\ region = EmptyState
  /\ step = 0 /\ calls = 0 /\ simPc = "app" /\ unsent = {}
  /\ wire = <<>> /\ clientPc = "app"
  /\ expected = [buffers |-> 0, particles |-> 0, name |-> {}]

-----------------------------------------------------------------------------
(* The calls by which a simulation describes its data, between timesteps.  *)
InApp ==
  /\ simPc = "app" /\ calls < MaxCalls /\ calls' = calls + 1
  /\ UNCHANGED <<step, simPc, unsent, snapshot, wire, clientVars>>

(* operator[] of the map: a name that is there is replaced. *)
Put(map, name, b) ==
  [n \in DOMAIN map \cup {name} |-> IF n = name THEN b ELSE map[n]]
WithEntry(name, b) == [state EXCEPT !.buffers = Put(@, name, b)]
dtypeStride(type) == Stride[type]
BufferOf(type, length) ==
  [type |-> type, length |-> length, bytes |-> length * dtypeStride(type),
   stride |-> dtypeStride(type)]

libISMakeSimState == InApp /\ state' = EmptyState
libISSetLocalBounds(box) == InApp /\ state' = [state EXCEPT !.bounds = box]
libISSetField(name, type, length) ==
  InApp /\ state' = WithEntry(name, BufferOf(type, length))
libISSetBuffer(name, size) ==
  InApp /\ state' = WithEntry(name, BufferOf("UINT8", size))
libISSetParticles(np, ng) ==
  InApp /\ state' = [state EXCEPT !.particles =
    [np |-> np, ng |-> ng, array |-> Full((np + ng) * ParticleStride, -1)]]

-----------------------------------------------------------------------------
(* InterComm::send and recv of b bytes narrow the count to an int.  An MPI *)
(* call with a negative count fails; its result is not looked at.  (MPI's  *)
(* own error handler may end the job there, and then no region returns.)   *)
Narrow(b) ==
  IF IntRange = 0 THEN b
  ELSE LET n == b % IntRange IN IF 2 * n < IntRange THEN n ELSE n - IntRange
DataSent(b) ==
  IF Narrow(b) < 0 THEN <<>>
  ELSE <<[k |-> "data", array |-> [bytes |-> b, arrived |-> Narrow(b), step |-> step]]>>

(* The flag and the header of a SimState. *)
HasParticles(p) == p.np % FlagRange
StateHeader ==
  [k |-> "header", bounds |-> state.bounds,
   numBuffers |-> Cardinality(DOMAIN state.buffers),
   hasParticles |-> HasParticles(state.particles)]

(* process() is called with or without a query of the client to answer.    *)
ProcessIdle ==
  /\ simPc = "app" /\ step < MaxSteps /\ clientPc # "pinged"
  /\ step' = step + 1
  /\ UNCHANGED <<state, calls, simPc, unsent, snapshot, wire, clientVars>>

SendHeader ==
  /\ simPc = "app" /\ step < MaxSteps /\ clientPc = "pinged"
  /\ wire' = Append(wire, StateHeader)
  /\ unsent' = DOMAIN state.buffers
  /\ snapshot' = At(state, step)
  /\ simPc' = "buffers" /\ clientPc' = "header"
  /\ UNCHANGED <<state, step, calls, expected, region>>

(* Buffer::send, in the order of an unordered_map: any. *)
SendBuffer(name) ==
  /\ simPc = "buffers" /\ name \in unsent
  /\ LET b == state.buffers[name] IN
       wire' = wire \o <<[k |-> "bufHeader", name |-> name, buffer |-> b]>>
                    \o DataSent(b.bytes)
  /\ unsent' = unsent \ {name}
  /\ UNCHANGED <<state, step, calls, simPc, snapshot, clientVars>>

(* Particles::send, asked by the flag of the header, and the end of the    *)
(* call.  Mutated form: the particles themselves are asked.                *)
AnyParticles(p) == p.np + p.ng > 0
SendsParticles(p) == HasParticles(p) # 0
SendParticles ==
  /\ simPc = "buffers" /\ unsent = {}
  /\ LET p == state.particles IN
       wire' = IF SendsParticles(p)
               THEN wire \o <<[k |-> "particleHeader", np |-> p.np, ng |-> p.ng,
                               bytes |-> p.array.bytes]>>
                         \o DataSent(p.array.bytes)
               ELSE wire
  /\ step' = step + 1 /\ simPc' = "app"
  /\ UNCHANGED <<state, calls, unsent, snapshot, clientVars>>

-----------------------------------------------------------------------------
(* query() on the client rank, from its ping of this simulation rank on.   *)
Ping ==
  /\ clientPc = "app" /\ step < MaxSteps
  /\ clientPc' = "pinged"
  /\ UNCHANGED <<simVars, wire, expected, region>>

Take(kind) ==
  /\ clientPc = kind /\ wire # <<>> /\ Head(wire).k = kind
  /\ wire' = Tail(wire) /\ UNCHANGED simVars

(* What the client reads next, with n buffers and the flag f to come. *)
NextMessage(n, f) ==
  IF n > 0 THEN "bufHeader" ELSE IF f # 0 THEN "particleHeader" ELSE "app"

(* The region that query() fills.  Mutated form: the one of the last query. *)
LastRegion == region
NewRegion == EmptyState
ReceiveHeader ==
  /\ Take("header")
  /\ LET h == Head(wire) IN
       /\ expected' = [buffers |-> h.numBuffers, particles |-> h.hasParticles,
                       name |-> {}]
       /\ clientPc' = NextMessage(h.numBuffers, h.hasParticles)
       /\ region' = [NewRegion EXCEPT !.bounds = h.bounds]

(* The header of Buffer::recv or Particles::recv: an OwnedArray of zeros,  *)
(* for which no message comes if its size is no count.                     *)
Owned(b) == [bytes |-> b, arrived |-> 0, step |-> -1]
ReceiveBufferHeader ==
  /\ Take("bufHeader")
  /\ LET h == Head(wire) IN
       /\ region' = [region EXCEPT !.buffers =
            Put(@, h.name, [header |-> h.buffer, array |-> Owned(h.buffer.bytes)])]
       /\ expected' = [expected EXCEPT !.buffers = @ - 1, !.name = {h.name}]
       /\ clientPc' = IF Narrow(h.buffer.bytes) >= 0 THEN "data"
                      ELSE NextMessage(expected'.buffers, expected.particles)

ReceiveParticleHeader ==
  /\ Take("particleHeader")
  /\ LET h == Head(wire) IN
       /\ region' = [region EXCEPT !.particles =
                       [np |-> h.np, ng |-> h.ng, array |-> Owned(h.bytes)]]
       /\ expected' = [expected EXCEPT !.particles = 0, !.name = {}]
       /\ clientPc' = IF Narrow(h.bytes) >= 0 THEN "data" ELSE "app"

ReceiveData ==
  /\ Take("data")
  /\ region' = IF expected.name = {}
               THEN [region EXCEPT !.particles.array = Head(wire).array]
               ELSE [region EXCEPT !.buffers = [n \in DOMAIN @ |->
                       IF n \in expected.name
                       THEN [header |-> @[n].header, array |-> Head(wire).array]
                       ELSE @[n]]]
  /\ clientPc' = NextMessage(expected.buffers, expected.particles)
  /\ UNCHANGED expected

SetState ==
  \/ libISMakeSimState
  \/ \E b \in Boxes : libISSetLocalBounds(b)
  \/ \E n \in Names, t \in DOMAIN Stride, l \in Lengths : libISSetField(n, t, l)
  \/ \E n \in Names, l \in Lengths : libISSetBuffer(n, l)
  \/ \E p, g \in ParticleCounts : libISSetParticles(p, g)
Process == ProcessIdle \/ SendHeader \/ SendParticles \/ \E n \in Names : SendBuffer(n)
Query ==
  \/ Ping \/ ReceiveHeader \/ ReceiveBufferHeader \/ ReceiveParticleHeader
  \/ ReceiveData
Reading == clientPc \notin {"app", "pinged"}
Done == step = MaxSteps /\ simPc = "app" /\ ~Reading /\ UNCHANGED vars

Next == SetState \/ Process \/ Query \/ Done
Spec == Init /\ [][Next]_vars

-----------------------------------------------------------------------------
(* The two sides keep step: what is in the channel is what query() reads   *)
(* next, nothing is left of it when query() returns (the next int would be *)
(* taken from it), and query() never waits for what is not sent - also     *)
(* when a count does not fit into the flag or into an int.                 *)
FramingKept ==
  /\ wire # <<>> => Reading /\ Head(wire).k = clientPc
  /\ Reading /\ simPc = "app" => wire # <<>>

(* A region is the state of one call of libISProcess: its bounds, its      *)
(* buffers and no other, every array with the bytes of that timestep,      *)
(* although the simulation goes on and describes other data while the      *)
(* client still reads, and whatever an earlier query returned.  Particles  *)
(* are those of that call or none at all.  Nothing is said here of what    *)
(* the code cannot carry: the contents of an array whose size is no int,   *)
(* and whether particles come whose number, ghosts left out, is 0 as a     *)
(* flag.                                                                   *)
Fits(b) == Narrow(b) = b
Returned == clientPc = "app" /\ snapshot.step # -1
SameArray(a, b) == a.bytes = b /\ (Fits(b) => a = Full(b, snapshot.step))
SameParticles(p, q) == p.np = q.np /\ p.ng = q.ng /\ SameArray(p.array, q.array.bytes)
RegionIsSnapshot ==
  Returned =>
    /\ region.bounds = snapshot.bounds
    /\ DOMAIN region.buffers = DOMAIN snapshot.buffers
    /\ \A n \in DOMAIN snapshot.buffers :
         /\ region.buffers[n].header = snapshot.buffers[n]
         /\ SameArray(region.buffers[n].array, snapshot.buffers[n].bytes)
    /\ \/ SameParticles(region.particles, snapshot.particles)
       \/ HasParticles(snapshot.particles) = 0 /\ region.particles = NoParticles

(* The particles that a rank has set are in its region, ghosts included,   *)
(* as the documents of libISSetParticles and of SimState say.  They are    *)
(* not: a rank that has ghosts only sends nothing.                         *)
ParticlesArrive ==
  Returned =>
    /\ region.particles.np = snapshot.particles.np
    /\ region.particles.ng = snapshot.particles.ng
=============================================================================
