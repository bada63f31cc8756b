# A TLA+ development of libIS

libIS moves the state of a running simulation to a separate visualisation job.
The simulation is linked with `is_sim`, the client with `is_client`; both are
MPI programs of their own. This directory models the two libraries, checks the
models with TLC and proves theorems about them with TLAPS.

## The system

| part | source | state | operations |
|---|---|---|---|
| `ConnectionManager`, one per simulation rank | `is_sim.cpp` | `intercomm`, `clientPort`; on rank 0 also `clientCommand`, `newQuery`, `exitThread`, the mutex and the listener thread | `process` (called by `libISProcess` once per timestep), `connectClient`, `handleQuery`, `disconnectClient`, the destructor (`libISFinalize`) |
| listener thread of simulation rank 0 | `is_sim.cpp`, `listenForClient` | listening socket, accepted connection | accept, read a port name and a command, publish them under the mutex, end |
| `SimulationConnection`, one per client rank | `is_client.cpp` | `intercomm`, `simQuit` | `connectSim`, `sendCommand`, `query`, `disconnect` |
| M:N assignment | `is_client.cpp`, 88-111 | none | which simulation ranks a client rank fetches |
| `InterComm` | `intercomm.h`, `intercomm.cpp` | an MPI intercommunicator or one socket per pair of ranks | `listen`, `accept`, `connect`, `send`, `recv`, `probe`, `probeAll` |
| client API | `is_client.cpp`, 244-285 | one global connection | `connect`, `query`, `query_async`, `disconnect`, `sim_connected` |
| simulation state and its transfer | `is_simstate.*`, `is_sim.cpp` 300-401 | named buffers, particles, bounds | the `libISSet*` calls, `Buffer::send/recv`, `Particles::send/recv` |
| buffering | `is_buffering.*` | byte buffers | write, read |
| `compute_grid` and the volume example | `vec.h`, `examples/volume_example_sim.cpp` | the grid; the brick of a rank | division of a domain over the ranks, reading of a brick in chunks |
| boxes, other examples | `is_common.*`, `examples/` | none | pure functions, users of the library |

How the parts interact:

- A client job opens an intercommunicator port on its own side, and its rank 0
  writes the port name and `CONNECT` to the TCP socket on which the listener
  thread waits. All ranks of the client then wait in `accept`.
- The listener publishes the pair by setting `clientPort`, `clientCommand` and
  `newQuery` under the mutex, and ends. The next `process` of rank 0 broadcasts
  the command to the other ranks, and all ranks connect to the client.
- From then on client rank 0 sends commands to simulation rank 0 through the
  intercommunicator, and gets back one int: go on, or the simulation quits. For
  `QUERY` every client rank then pings the simulation ranks that are its share,
  one after the other, and each of them answers its ping with its data.
- After `DISCONNECT` the simulation drops the intercommunicator and starts a
  new listener thread. The destructor makes a connected client wait for its
  next command, and connects a client that was just published, only to answer
  "quit".

What is hard here: the listener thread and the main thread share three fields;
the ranks of the simulation are not synchronised with each other, so a rank may
be several timesteps behind rank 0 and still has to take part in the same
query; all messages are bare ints with one tag; both shutdowns (the client's
and the simulation's) race with everything; and the close of an
intercommunicator is collective in one implementation and not in the other.
`PROJECT.json` lists each of these hazards at its line.

What makes each part correct:

- *ConnectionManager*: no call throws; the listener never overwrites a command
  and can always be joined; shutdown returns and tells the connected client.
- *SimulationConnection*: what it receives is what it waits for; a command is
  answered; a query returns one complete timestep.
- *M:N assignment*: a partition of the simulation ranks, with even shares.
- *InterComm*: channels in which nothing is left behind when they are closed; the
  sockets of both sides agree on who is at the other end; a stream of bytes that is
  cut anywhere is still a sequence of whole messages.
- *State and transfer*: both sides count the same messages, and a region is the
  state of one timestep although the arrays are borrowed.
- *Buffering*: no write past the end of a buffer; a list is read as it was written.
- *Client API*: ranks that decide on their own decide alike; the two ways to learn of
  the end of the simulation agree; every rank gets out; a query keeps its connection
  (which the code does not ensure for `query_async`).
- *`compute_grid` and bricks*: one cell per rank; each slice in its place; no count
  too large.
- *All together*: `InTransit`, the promise to the clients.

## Modules

| module | models |
|---|---|
| `Regions` | the arithmetic of `query()`, as operators |
| `InterComm` | the media: the TCP socket of rank 0 and the channels of an intercommunicator; the messages |
| `ConnectionManager` | the simulation's side: listener thread, rank 0, the other ranks |
| `SimulationConnection` | the client's side: the ranks of every client job |
| `LibIS` | the composition, fairness, the properties, the refinement mapping |
| `Broadcasts` | how the ranks of the simulation follow rank 0: the invariant of `LibIS` that the deeper properties rest on |
| `SocketSetup` | `SocketInterComm::connect` against `accept`: how the sockets between all ranks come about |
| `InTransit` | the abstract specification: sessions and snapshots |
| `SocketStream` | `SocketInterComm::send`, `recv` and `probe` over a TCP connection |
| `MessageQueue` | the abstract specification of one direction of an `InterComm`: a queue of whole messages |
| `Transfer` | what `LibIS` takes for one message: the `libISSet*` calls, `handleQuery`'s sends and `query()`'s receives of one region |
| `HostList` | `WriteBuffer` and `ReadBuffer`, in the exchange of the list of hosts of the socket set-up |
| `ClientApi` | the functions over the global connection, on all ranks, with `query_async` and logging |
| `Bricks` | `compute_grid`, the cell of a rank, `load_raw_volume` |
| `BrickRegions` | `Bricks` with `Regions`: a client job of any size that fetches the bricks |
| `MCLibIS`, `MCStream`, `MCTransfer`, `MCHostList`, `MCBricks` | the instances for TLC |
| `RegionsProofs`, `LibISProofs`, `SocketSetupProofs`, `StreamProofs`, `TransferProofs`, `ClientApiProofs`, `HostListProofs`, `BricksProofs` | the theorems |

`ConnectionManager` and `SimulationConnection` both extend `InterComm`, and
`LibIS` extends both. An action of one side says what it does to its own
variables and to the media; `LibIS` adds that the other side does not move.

The other modules look inside what `LibIS` takes as one step. `SocketSetup` is the
inside of `Establish`, and `HostList` of the exchange in it; `SocketStream` is what
stands behind a channel of `InterComm`, and implements the `MessageQueue` that such a
channel is; `Transfer` is the message of `HandleQuery` and `ReceiveRegion`;
`ClientApi` is the application's side of `ClientNext`. They share no variables:
each starts where the module above it says the component is.

### How states and actions correspond to the code

*Control.* `simPc[s]` is where simulation rank `s` is:

| `simPc` | place in `is_sim.cpp` |
|---|---|
| `run` | the application, outside libIS |
| `connect` | `connectClient`, line 261 |
| `greet` | line 224, rank 0 only |
| `query` | `handleQuery`, lines 278-281 |
| `drop` | `disconnectClient`, line 265 |
| `rejoin` | lines 268-273, rank 0 only |
| `finJoin` | the destructor, line 76 |
| `finRecv` | line 85 |
| `finConnect` | line 92 |
| `finGreet` | line 97 |
| `finDrop` | the end of the destructor, where `intercomm` is released |
| `gone` | `libISFinalize` has returned |
| `threw` | one of the `runtime_error`s of lines 234 and 242 |

`clientPc[j][c]` is the same for rank `c` of client job `j`: `start`, `tcp`
(connection made), `sent` (port name and command written), `accepting`,
`greeting` (line 179), `ready` (in the application), `awaitQuit` (line 230),
`fetching` and `waiting` (the loop of lines 109-140, before a ping and after
it), `leaving` (the intercommunicator is being released), `gone`. A
`runtime_error` in `sendCommand` is thrown on rank 0 only (`failed`); the other
ranks of the job stay where they are, in the barrier of line 233.

*Atomicity.* An action is what one thread does between two points at which
another can be affected: a receive, a send that someone waits for, a lock, a
join, a collective call. `process` holds the mutex throughout, so what rank 0
does from its test of `newQuery` to the start of the command (reading the
client's command, answering it and broadcasting it) is one action. The listener's
critical section is one action, enabled only when rank 0 is outside libIS or in
the join.

*Broadcasts.* `MPI_Bcast` does not synchronise: rank 0 goes on as soon as its
part is sent. `bcast[s]` holds what rank 0 broadcast and rank `s` has not yet
taken. The broadcasts of one `process` call (`haveQuery`, the command, the port
name after `CONNECT`) are one entry; the single broadcast of the destructor is
an entry too, and nothing in an entry tells the two apart.

*Probing.* A message in a channel may still be on its way. `ProcessIdle`, the
call that finds nothing, is therefore also enabled when a command has been sent.

*Barriers.* `MPI_Barrier` and the broadcast of `simQuit` in the client are one
action over all ranks of the job where all ranks leave them together.

*Data.* The header, buffers and particles of one region are one message that
carries the simulation rank and the timestep of that rank at that moment.

*Joint actions.* `Establish` is `InterComm::connect` on all simulation ranks
with `accept` on all client ranks; `SocketSetup` looks inside it. With `CollectiveDisconnect = TRUE`
(`MPIInterComm`) the intercommunicator is destroyed by all ranks of both sides
together; with `FALSE` (`SocketInterComm`) by each rank when it gets there.

*Socket set-up.* `SocketSetup` stands by itself. The two rate-limited loops of
`connect` are `phase` 1 and 2, their iterations `round`; `simSockets[s]` is the
vector of a simulation rank. `clientPc[c]` is where a client rank is in
`accept`: in the gather of host names (`hosts`), in the broadcast of
`nexpected` (`waiting`), in the accept loop (`accepting`), or out of it
(`returned`). A failed `accept(2)` is an action, because the code goes on after
it: it counts a connection of rank 0 with descriptor -1, and on client rank 0
broadcasts a `nexpected` that may still be -1. Each client rank has its own
count of failures, because what they spoil is the rank's own vector:
`ClientSockets` is that vector as line 393 and the following leave it, with one
element per registered rank and `Unset` where no rank was filled in.

*Byte streams.* `SocketStream` has one sender and one receiver and a step per byte:
a `::send` or `::recv` that returns k is k steps. `nsent` and `nrecv` are the
counters of the two loops, with the width of `size_t` (`W`), and `buffer` is the
memory that `recv` writes to. A call that returns -1 (a signal, a reset) is added
to the counter like any other result. When the peer's process has gone, `::recv`
returns 0 for ever; this is a stuttering step, as it changes nothing.

*Transfer.* One simulation rank and the client rank that pings it. An array is its
size, how much of it arrived, and the timestep of its contents: because arrays are
borrowed and the simulation writes them in every timestep, a region is right if
all its arrays have the timestep of the call that sent them. `Narrow` is the
conversion to the `int` count of MPI; with `IntRange = 0` counts are those of
sockets. A negative count makes `MPI_Send` and `MPI_Recv` fail, and neither side looks at the
result (where MPI's error handler ends the jobs instead, no region returns, and the
properties speak of none). The list of buffers is sent in the order of an
`unordered_map`: any.

*Host list.* A `uint64_t` is copied byte by byte, the lowest first (`Bytes`,
`Value`); `Quotients` and `Sums` are the divisions and the sums on the way. `Write` is `WriteBuffer::write` with its growth by half, one step per
`operator<<` of a count, a length or the characters of a name. A `::recv` may
return less than it asks for (`whole = FALSE`), and what is missing reads as 0.

*Client API.* `pc[r]` is the main thread of rank `r` in `example_client`'s loop,
`stage[r]` where its query is, on that thread or on the one of `query_async`.
`arg` says whether the parameter that the thread captured by reference still has
its value when it is read. `waits` says whether the application waits for its future before its next call, or
keeps it and goes on; in the second case `disconnect` or the next query may find the
thread at work, and the rank is at `raced`: what two threads do that have met on one
connection is undefined, and the model says nothing of the job from there. `connect` may fail to return in two ways: nobody listens, and rank 0
throws (`threw`) while the others stay in the `barrier`; or a simulation at its end
no longer reads the greeting, and all ranks stay in `accept`. The barriers that
`example_client` has around its output are left out.
Collective calls are joint actions, but for the `MPI_Gather` of the log, in which only the root waits; `loggers` is the set of ranks
whose environment has `LIBIS_LOG_OUTPUT`. Each rank has its own `sim`, and decides
from it whether to make the next call.

*Bricks.* One rank of the example: `Divide` and `FinishGrid` are the loop of
`compute_grid`, `ReadChunk` an iteration of the loop of `load_raw_volume`. A slice
of the volume is named by its z in the file. `crashed` is the division by zero of a brick that has no voxels, or
the subarray of no slice that MPI refuses when a slice is larger than a read.

*The client application* of `LibIS` makes the same calls on all ranks, connects once, and
either queries or disconnects next. The number of queries is bounded by
`MaxQueries`, after which it can only disconnect.

*Failures.* The listener's reads may fail or be short (at most `MaxReadErrors`
times): the connection is closed and the client is not told. What it reads is
what a client of this library writes, so the command is always `CONNECT`; the
exceptions of a failed `socket`, `bind`, `listen` or `accept` (lines 106, 120,
123 and 142), which end the simulation from the thread, are left out. A connect to a
closed port fails. Writing to a connection that the simulation has reset fails
or not, depending on what arrived first; both are allowed. Crashes of a job are
not modelled (see below).

### Parameters and bounds

| constant | meaning |
|---|---|
| `M`, `N` | ranks of the simulation, ranks of each client job |
| `Clients` | client jobs; a job is also its port name |
| `MaxSteps` | bound: calls of `libISProcess` before `libISFinalize` |
| `MaxQueries` | bound: answered queries of a job |
| `Backlog` | length of the listening socket's queue; 4 in the code, 1 in the runs, so that it fills with two jobs |
| `MaxReadErrors` | bound: failed reads of the listener |
| `CollectiveDisconnect` | which implementation of `InterComm` closes |

`SocketSetup` has `M` and `N` too, `Window` for the 32 of
`SOCKET_MAX_SIMULTANEOUS_CONNECTIONS` (both the backlog and the number of ranks
that connect at a time), and the bound `MaxAcceptErrors`, failed accepts on each
client rank.

| module | constants |
|---|---|
| `SocketStream` | `Start`, the offsets of the messages in the stream, and `Count`, their number; `Probed`, those that are waited for with `probe`; `Cap`, bytes that the kernel buffers; `W`, 2 to the width of `size_t`; the bound `MaxErrors`; `CanStop` |
| `Transfer` | `Names`, `Lengths`, `Stride`, `ParticleCounts`, `ParticleStride`, `Boxes`: what the calls are made with; `FlagRange` and `IntRange`, 2^32 in the code; the bounds `MaxCalls` and `MaxSteps` |
| `HostList` | `HostLists`; `Base` and `Word`, values of a byte and bytes of a `uint64_t`; `Capacity` of a new `WriteBuffer` |
| `ClientApi` | `N` ranks; `NumQueries` of the example's command line; `LogSets` |
| `Bricks` | `Sizes` of jobs, `Volumes`, and `Limit` for `elements_per_read`; in `BrickRegions` also `ClientSizes` |

The only other unbounded thing in `LibIS` is the length of channels, which
`StrictAlternation` shows to be at most one.

## Runs

| run | instance | shows |
|---|---|---|
| `sessions` | 3 simulation ranks, two jobs of 2 ranks, 5 steps, 2 queries, one failed read, sockets | `TypeOK`; `IntsNotConfused`: command, ping, reply and data are never taken for each other; `StrictAlternation`: at most one message between two ranks; `NothingUnreadAtClose`; `QueryCoherent`: a query returns all regions of one timestep, a later query a later one; `NoThrow`; `ListenerQuiet`; `ConnectedClientsAreTold`; `FollowInv`: the ranks that lag behind rank 0 will make the calls it makes (see Theorems); `ImplementsInTransit`: every behaviour is one of `InTransit` |
| `liveness` | 2 simulation ranks, two jobs of 2 ranks, 4 steps, MPI | `FinalizeReturns`, `CommandsAnswered`, `PublishedClientsServed` |
| `socket_setup` | 4 simulation ranks in windows of 2, 3 client ranks, up to two failed accepts on each | `TypeOK`; `SocketsAgree`: when all have returned an index names the same pair of ranks on both sides, except on client ranks other than 0 where an accept failed; `RootNotFlooded`: phase 1 never fills a backlog; `SetupCompletes` |
| `stream` | an int, an empty array, an array of 4 bytes and an int (2 bytes each) over socket buffers of 3 bytes, a sender that may end anywhere, two interrupted calls | `TypeOK`; `DeliveredIntact`: a message is returned whole and unchanged, or not at all; `WithinBuffer`; `ImplementsFifo`: up to the first failed call the two loops are a `MessageQueue`; `EveryMessageArrives` |
| `transfer` | two names, two types, 0 to 2 elements, 0, 1 or 4 particles of each kind, three calls, two timesteps, ints of 3 bits and a flag of 2 | `FramingKept`: the next message is the one that is read next, and none is left over; `RegionIsSnapshot`: what the region holds is of one timestep, and every array that fits a count is complete |
| `host_list` | 241 lists of up to two names of up to three characters, a first capacity of 1 | `WriteFits`; `RoundTrip`: the list arrives if every `::recv` returns what it asks for, and no byte is left over |
| `client_api` | 3 ranks, 3 queries, synchronous or not, six sets of ranks that log, a simulation that is not there, does not answer or ends at any time | `RanksAgree`; `QuitReported`: the two ways to learn of the end agree; `AllRanksLeave`: once connected, all ranks leave if the application waits for its futures and all ranks log or none does |
| `bricks` | 17 numbers of ranks up to 60, 28 volumes, up to 9 elements per read, 10 sizes of client jobs up to 20 | `GridHasOneCellPerRank`; `SlicesInPlace`: every slice that is read is in its place, and a brick that the chunks divide evenly is complete; `CountsFit`: no read counts too much, writes past the brick or reads past the file; `EveryRankPingedOnce`: every simulation rank is pinged by one client rank; `RemainderSpreadEvenly`: shares differ by at most one |
| `socket_flood` | 3 simulation ranks in windows of 2, 3 client ranks | `OthersNotFlooded` is violated |
| `stranded` | 2 simulation ranks, one job, 2 steps | `NoClientHangsAfterExit` is violated |
| `async_race` | 2 client ranks, 1 query | `ConnectionAlive` is violated |
| `lost_particles` | one array, 0 or 1 particles of each kind, one call, one timestep, no narrowing | `ParticlesArrive` is violated |

Why these bounds are enough to be interesting. With 3 simulation ranks and 2
client ranks the division has a remainder, one client rank fetches two regions
and the other one. 5 timesteps hold a connection, two queries and a disconnection,
with an idle step, and let a rank lag behind rank 0 by the whole length of a
session; with the other job they hold a complete session and a second one that
starts after it, a second job that is refused, one that
stays in the backlog, and one that is published while rank 0 is in its
destructor. `sessions` uses symmetry between the jobs, and checks no liveness; over sockets the ranks of the first job may still be closing when the
second is served, and the simulation's other rank may still be serving the first.
4 ranks in windows of 2 fill two windows exactly, so that the second
window meets what the first left behind, and 3 client ranks have two hosts in
the list, which is the least that has an order; two failed accepts on a rank are
one more than its vector needs to be short and filled out of range. Socket buffers of 3 bytes make a
message of 4 wait in the middle and let the end of one message meet the start of
the next; an empty message between two others is received without a byte. 4
particles are 0 as a 2-bit flag and 4 to 7 bytes are negative as 3-bit ints, 8
are 0, so that each narrowing meets a value that it changes and one that it does
not; two `libISProcess` calls let the simulation go on while the client still reads.
A first capacity of 1 makes the first write larger than half of the vector. Numbers
of ranks that are 1, primes, squares, and products of up to five primes reach every
case of `compute_grid`, and 23 slices are divided by almost no number of chunks. Deadlock is checked in all of
these runs but `stream`, where the receiver of a sender that has gone makes only
stuttering steps, the two of `ClientApi`, where the ranks come to their ends, or stay in a connect that is
not answered, with some logging sets, or in a race (`AllRanksLeave` has the rest as its premise), the two of `SocketSetup`, which
ends when the sockets are there and hangs after some failed accepts
(`SetupCompletes` says that it ends without one), and `liveness`, where a state without a successor is to be
reported as the failure of the liveness property that it is; the final state,
where the simulation has exited and every job has ended or is stranded, has an
explicit stuttering step (`Done`).

For each property `PROJECT.json` names a mutation of the model, written beside
the definition it replaces, under which TLC finds the property violated.

### Fairness

`FairSpec` assumes weak fairness of each thread: the listener, rank 0, each
other rank, each client job, and the joint operations. In terms of the code:
the simulation goes on calling `libISProcess` and finally `libISFinalize`, a
client job goes on calling the library until it has disconnected, MPI delivers
messages, and collective calls made by all ranks return. The destructor's
`recv` (line 85) cannot return unless the client makes another call, so the
assumption on the client is one that the code itself relies on. No fairness is
assumed between the actions of one thread, and none of the mutex: the listener
may lose every race for it until the destructor waits for the listener.
`FairSpec` of `SocketSetup` assumes weak fairness of each simulation rank, each
client rank and the barrier, and none of `AcceptFails`: nothing obliges an
`accept(2)` to fail. `FairSpec` of `SocketStream` assumes weak fairness of the two
loops: a call of `::send` that has room and a call of `::recv` that has bytes
return, and the sender's and the receiver's process run; no fairness of
`PeerStops` or of the failures, and `EveryMessageArrives` is about the behaviours
without them. `FairSpec` of `ClientApi` assumes that some step of the client is
made while one is possible: its ranks' steps are finitely many, so all of them
are made, as the threads of a job that nobody stops do. No fairness is assumed of
`SimulationEnds`.

### What the runs found

*A client can hang for ever in `connect`* (`stranded`). A client's `connect(2)`
succeeds as soon as the kernel has put the connection into the backlog, and its
three writes succeed whether or not they are ever read. If the simulation then
calls `libISFinalize` before the listener has accepted and read the connection,
the listener sees `exitThread` and leaves; the client goes on to
`InterComm::accept` and waits for a simulation that no longer exists. The
comments at lines 82-83 and 90 of `is_sim.cpp` say that the destructor is there
to prevent clients from hanging; it does so for connected clients
(`ConnectedClientsAreTold`) and for published ones (`PublishedClientsServed`),
but not for these. The same happens to a second job whose connection is in the
backlog when the listener closes its socket after the first, and to one whose
hello the listener failed to read.

*The second phase of the socket set-up is not rate limited* (`socket_flood`).
The loop at lines 267-300 of `intercomm.cpp` has the form of the first loop,
but reads nothing back, so a rank reaches the barrier while its connections
still wait in the backlogs, and the next 32 ranks may find them full. In the
first loop the answer of client rank 0 makes the difference (`RootNotFlooded`).

*Ghost particles alone are not sent* (`lost_particles`). The header's flag
`hasParticles` is the number of local particles as a `uint32_t`
(`is_simstate.cpp`, line 140), and neither side transfers particles when it is 0.
A rank that has set ghost particles only, or a multiple of 2^32 particles, sends
none, although `is_sim.h` (lines 76-79) says that the particle data that was set
is sent, ghosts included, and the README of libIS (lines 263-264) that a
`SimState` contains it.

*A connection may be taken from the thread that uses it* (`async_race`).
`query_async` returns while its thread is in `query()` on the global connection
(`is_client.cpp`, line 273), and `disconnect()` (line 279) deletes that
connection without waiting. `is_client.h` (lines 31-32) has `query_async` block
until the simulation has responded, which would make any later call safe.

Four runs contradict what a comment or a document of the repository says. The
following is in the models as it is in the code, and is left out of the
properties by a premise that each of them states:

- *A failed `accept(2)`* in the socket set-up is not recovered from. On client rank
  0 it may broadcast -1 as the number of connections to wait for, or it ends the
  loop one connection early; then not all ranks return (`SetupCompletes` has the
  premise). On another rank the vector of sockets becomes shorter than the number
  of simulation ranks, with entries that no rank filled or with one written past
  its end, while all ranks return (`SocketsAgree` says that no other rank is
  affected).
- *A peer that goes away.* `::recv` then returns 0, which
  `SocketInterComm::recv` adds to its count and tries again, for ever
  (`intercomm.cpp`, line 418), on rank 0 with the mutex of `process` held. `poll`
  reports the dead socket as readable, so `probe` leads straight into that loop. (`intercomm.h`, line 17, says
  "Recv data from some rank into the provided buffer", and nothing of a rank that
  is gone.)
- *A failed call* returns -1, which is added to an unsigned count (lines 409
  and 422): from 0 the count becomes 2^64 - 1, the next call is made with the
  address before the buffer and a length of `size + 1`. `WithinBuffer` and
  `DeliveredIntact` hold up to that call.
- *The list of hosts* is read with one `::recv` (line 254) into a buffer of
  zeros. If it returns less, the rest of the list is zeros, and what was not read
  is still in the socket when the commands come (`RoundTrip` has the premise).
- *Sizes of arrays* become `int` counts of MPI (`intercomm.cpp`, line 98): an
  array of 2^31 bytes or more, which the documents of `libISSetBuffer` do not
  exclude, arrives in part or not at all, as zeros. `RegionIsSnapshot` demands its
  header only.
- *Logging.* With `LIBIS_LOG_OUTPUT` in the environment of rank 0 only, that
  rank waits in `MPI_Gather` (`is_client.cpp`, line 142) and the others in the
  barrier after it.
- `query_async` returns at once, and its thread reads the parameter `sim_quit`
  through a reference (line 273): it may be gone by then, and the caller's flag
  is not set. `QuitReported` therefore speaks of `query` only.
- *The last slices of a brick* are not read when their number is not a multiple
  of that of the chunks (`volume_example_sim.cpp`, line 223): of 23 slices in 5 chunks
  of 4, the last 3 are sent as zeros. Lines 14-16 say that the volume is sent, and
  lines 236-238 are there to let the last chunk take what is left, which they do
  only for a chunk that reaches the end anyway. `SlicesInPlace` demands nothing of
  these slices.
- *The listener's `recv`* has no timeout (`is_sim.cpp`, line 161): a
  client that stops between the length and the command keeps `libISFinalize`
  in the join.

Reading the model also shows that the mutex protects less than it seems to:
`ListenerTestSucceeds` says that the listener only ever publishes when no
client is connected and no command is pending, so the test at line 179 is
always true.

## Theorems

`RegionsProofs` (for all `m` and all `n > 0`):

- `RegionsPartition`: the assignment is a partition. The share of client rank
  `c` is the interval from `Start(c)` to `Start(c+1) - 1`; `Start` is monotone,
  0 at 0 and `m` at `n`; the client of a given simulation rank is computed by a
  division, in one of two ways depending on whether it is below the remainder.
  No induction is needed.
- `SharesAreEven`: the shares of two client ranks differ by at most one.

Both are facts of arithmetic; `LibISProofs` and `BricksProofs` use them where they
matter for a behaviour.

`LibISProofs` (for all values of the constants allowed by the named assumptions
in `InterComm` and `ConnectionManager`; nothing else is assumed):

- `TypeCorrect`: `Spec => []TypeOK`. `TypeOK` is not inductive. The timestep a
  rank sends must be one of a call it is making, so `StepsLeft` says that a rank
  inside `process` has steps left; the channel a client waits on must exist, so
  `WaitsForRegion` says that a waiting rank has an unfinished share, and
  `RegionsPartition` says that such a share leads to an existing rank.
- `ListenerStaysQuiet`: `Spec => []ListenerQuiet`. The invariant has to hold
  from the moment the listener publishes, through the connection, to the join in
  `disconnectClient`; `QuietInv` therefore speaks of every state of rank 0 other
  than `run` and `finJoin`, and adds that the intercommunicator is gone when the
  thread is joined.
- `ListenerTestSucceeds`: the action property mentioned above.
- `OneMessageUnderWay`, `EveryIntIsExpected` and `ClientsAreTold`: `Spec =>
  []StrictAlternation`, `[]IntsNotConfused` and `[]ConnectedClientsAreTold`; and
  `RootNeverThrows`, the part of `NoThrow` about simulation rank 0. None of them is
  inductive: an int that would be misread lies in the channel long before it is
  read. `ProtocolKept` proves the invariant they follow from. `TalkInv` gives, for
  every place where rank 0 of a job and rank 0 of the simulation can be together,
  what is in the two channels between them; `FetchInv` says that between any other
  two ranks there is one ping, or one region, exactly while the client's rank waits
  for it; `RootInv` ties rank 0's control state to `intercomm` and the published
  command, and `QueryInv` says that no rank of a job is inside `query` without
  its rank 0. The proof uses `ListenerStaysQuiet` (a published command finds no
  client) and `RegionsPartition` (only client rank 0 pings simulation rank 0, and
  it does so first, so the ping cannot be taken for a command).
- `BroadcastsFollowed`: `Spec => []FollowInv`. `MPI_Bcast` does not wait, so rank 0
  may be whole timesteps ahead of the other ranks, with a queue of broadcasts
  between them. None of the properties below can be seen from rank 0 or from a job
  alone: whether a rank throws, answers a query in the right timestep or closes with
  something unread depends on what is in its queue. `FollowInv` (module
  `Broadcasts`) says where each rank will be when it has taken what is in its queue,
  by where rank 0 is:
  `CountInv`, that calls made and broadcasts waiting add up to the calls of rank 0;
  `FreeInv`, that the rank will have no client when rank 0 has none;
  `JoiningInv`, that it will be in the same `connect` to the same port;
  `SessionInv`, that it will be connected to the job rank 0 is connected to, and,
  when a query is under way, that it has sent its region of the timestep in which
  rank 0 took the command, or will send it from that very timestep;
  `LeavingInv`, that it will end with rank 0; and
  `AnswersInv`, that what was returned so far is of timesteps that are over. The
  run `sessions` checks it on an instance. The proof treats groups of actions
  that do the same to the queues (`Joins`, `Leaves`, `Serves`, ...).
- `NoRankThrows` (`[]NoThrow`), `EverythingRead` (`[]NothingUnreadAtClose`) and
  `QueriesAreCoherent` (`[]QueryCoherent`) follow from it.
- `SessionsExclude`: at most one job is in a session, the one rank 0 is connected to.
- `PromiseKept`: `Spec => ImplementsInTransit`, the refinement, for all sizes and
  both ways to disconnect. Initial states map to initial states; an action of a job
  is a step of that job's session or a stutter (`SessionSteps`), and an action of
  the simulation is a stutter. That `InTransit` allows the step needs
  `SessionsExclude` (a session opens only when no other is open) and `AnswersInv` (a
  snapshot is complete, and later than all before it, those of other jobs
  included). In the mapping a job that has sent DISCONNECT counts as closed although
  it still waits in `awaitQuit`: over sockets rank 0 of the simulation may have closed
  its side and be connected to the next job by then.

`SocketSetupProofs` (for all `M`, `N`, `Window` and numbers of failed accepts):

- `VectorsAgree`: `Spec => []SocketsAgree`, that what `accept` and `connect`
  leave behind is the one socket per pair of ranks that the rest of the library
  relies on. On the simulation's side the order of the list of hosts decides
  (`HostsInOrder`, `ConnectLoops`); on the client's side a counting argument: a
  connection is made once per pair (`BothEnds` tells, from how far the
  simulation rank has come in its list, that it has not connected to this rank
  before), so `nconnected` is the number of different ranks registered
  (`OneConnection`), and when it has reached `M` there is one for each of the
  `M` ranks. Failed accepts are included: on a rank other than 0 they touch nothing
  but that rank's vector. On rank 0 a failed accept is counted in place of a
  connection whose rank then never gets its answer, so that either a simulation rank
  or client rank 0 does not return: `Answered` says that a rank at the barrier was
  answered, and `RootCount` counts the answers against `nconnected`
  (`NoErrorOnRoot`).
- `SetupTypeCorrect`, from the same invariant `IInv`.
- `WindowsLimitRoot`: `Spec => []RootNotFlooded`, the rate limit of the first
  loop. What is in the backlog of client rank 0 are ranks of the current window
  that wait for its answer (`RootQueue`): each is in the queue once, so there are at
  most as many as the window has. In the second loop no rank waits for an answer
  and the corresponding invariant is false, which is the finding of `socket_flood`.

`StreamProofs` (for all messages, capacities, widths and numbers of failures):

- `StreamTypeCorrect`, also after failed calls, when the counters wrap.
- `MessagesIntact` and `NothingOutside`. The invariant `FlowInv`: until a call
  fails, the bytes received, those in the socket and those still to be sent are
  consecutive; so byte `nrecv` of the message that is received is the first one in
  the socket, and the buffer holds the message up to `nrecv` and nothing after it.
- `QueueImplemented`: `Spec => ImplementsFifo`, the refinement of `MessageQueue`. The
  mapping takes a message as sent when all of its bytes are: `Sent` is the number of
  these messages. `LeastNumber` and `StartsInOrder` are the facts about the offsets
  that are needed to count them; `OrderInv`, that the receiver is never ahead of the
  sender, is what the invariant has to say besides `FlowInv`. The hypothesis is that
  the first message has a byte, as the ints and headers have with which every channel
  of libIS begins: `recv` of 0 bytes returns without a call, so an empty first message
  is received before anybody sends it.

`TransferProofs` (for all names, lengths, strides and counts, all ranges of the flag
and of `int`):

- `FramingAlwaysKept`: `Spec => []FramingKept`, and `RegionsAreSnapshots`: `Spec =>
  []RegionIsSnapshot`. Neither side knows where the other is, and the two derive the
  number of messages from different things: the simulation from its state, the
  client from the headers. The invariant `IInv` ties them by what is in the channel:
  each buffer of the snapshot is still unsent, or in the channel under exactly one
  header, or in the region, and the client has counted those that are not in the
  region (`HeaderInv`, `BufferInv`, `CountInv`); a header whose size is no negative
  count is followed by its data, and no other is (`DataInv`); particles are pending
  exactly when the flag of the snapshot is not 0 (`ParticleInv`); what the
  region has is what the snapshot has (`RegionInv`); and the snapshot is the
  simulation's state while buffers are unsent, because the application is not
  running then (`SimInv`).

`ClientApiProofs` (for all numbers of ranks and queries, all sets of ranks that log):

- `RanksDecideAlike`, `FlagTellsQuit`. `simQuit` changes in
  collective calls only and is the same on all ranks (`SameNews`); `sim` is
  what `simQuit` says of it except between a collective call and the rank's
  return from it, where no rank decides anything. They hold for applications that
  do not wait for their futures, too, up to the first race.

`HostListProofs` (for every list, all ranges of bytes and words, every first capacity):

- `WritesFit`.
- `ListArrives`: `Spec /\ []SizesFit => []RoundTrip`. `SizesFit` says that the number
  of hosts and of bytes are values of a `size_t`; the run has at most 12 bytes, in
  words that hold 15. `Laid` says that a buffer holds the first items of the list at
  some offsets; `LaidInv` says it of the `WriteBuffer`, through all its growth,
  `ChannelInv` takes the bytes through the socket, and `ReaderInv` says that
  `begin` is at one of the offsets. That a number is read as it was written
  (`WordRoundTrip`) is an induction over its bytes. The induction theorems of the library
  take operators, so `LeastNumber` and `UpTo` state the principle for a set: the least
  number that is not in it is 0 or follows one that is.

`BricksProofs` (for all numbers of ranks, volumes and limits):

- `OneCellPerRank`: the product of the factors found and of what is left to divide
  is the number of ranks; the cell of a rank is its mixed-radix representation,
  so two ranks with the same cell are the same.
- `ReadsFit`: the thickness of a chunk, rounded down after the number of chunks
  was rounded up, times the voxels of a slice is at most the limit.
- `SlicesArriveInPlace`: the chunks read so far are in their places in the brick, and a brick that they divide evenly is complete.
- `OnePingPerRank`, `NoClientIsOverloaded`: the theorems of `RegionsProofs` at the sizes
  of the two jobs.

The proofs follow the structure of `Next`: one lemma per actor or operation, one
step per action. What each theorem assumes are the named assumptions on the
constants, which TLC evaluates in the runs.

Only model-checked are the liveness properties (`FinalizeReturns`, `CommandsAnswered`,
`PublishedClientsServed`, `SetupCompletes`, `EveryMessageArrives`, `AllRanksLeave`):
fairness and ENABLED are out of the prover's reach. Every safety property of the
passing runs, and both refinements, are theorems.

## Not modelled

- Vendored and generated code. `examples/json.hpp`, a JSON parser, is 22684 of the
  25433 lines of the repository; the models map most of the rest that has state or
  control.
- The choice between MPI ports and sockets (`intercomm.cpp`, line 43): each job
  asks its own MPI installation, and what a port name of the other kind leads to is
  up to MPI's error handling.
- The contents of the data; boxes (minima and maxima of floats); logging other than
  the collective call it makes; the bookkeeping of `bufferNames` and the accessors.
- `lammps_example`, which drives LAMMPS and calls the library like the other
  simulations; command lines, the JSON configuration of the volume example,
  the particles that `example_sim` makes up.
- Crashes of a job or a rank, except for the sender of `SocketStream`. The code
  has no answer to them; on sockets the simulation itself ends with SIGPIPE when
  it sends to a client that has gone, because `::send` is called without
  `MSG_NOSIGNAL`.
- What follows a race: `disconnect` or a second query during an asynchronous query is
  modelled up to the moment when two threads use one connection.
- Calls that the API neither forbids nor handles: `connect` while connected, a NULL
  state before `libISInit`.
- Clients that are not this library's, and the exceptions with which the listener
  thread ends the simulation when `socket`, `bind`, `listen` or `accept` fails.
