------------------------------- MODULE LibIS -------------------------------
(***************************************************************************)
(* The simulation of ConnectionManager and the clients of                  *)
(* SimulationConnection on the media of InterComm.                         *)
(*                                                                         *)
(* Two operations involve both sides at once: InterComm::connect on all    *)
(* simulation ranks with InterComm::accept on all ranks of a client, and,  *)
(* when the intercommunicator is an MPI one, MPI_Comm_disconnect, which is *)
(* collective over both groups.  A SocketInterComm is closed by every rank *)
(* on its own.                                                             *)
(***************************************************************************)
EXTENDS ConnectionManager, SimulationConnection

vars == <<tcpVars, wireVars, simVars, clientVars>>

Init == InterCommInit /\ SimInit /\ ClientInit

(* connect and accept of all ranks return. *)
Establish(j) ==
  /\ \A s \in SimRank : ConnectingTo(s, j)
  /\ AllRanks(j, "accepting")
  /\ Connected(j)
  /\ AllGoTo(j, "greeting")
  /\ UNCHANGED <<tcpVars, wireVars, request, simQuit, regions, answered>>

(* MPI_Comm_disconnect of all ranks of both groups. *)
DisconnectTogether(j) ==
  /\ CollectiveDisconnect
  /\ \A s \in SimRank : Dropping(s, j)
  /\ AllRanks(j, "leaving")
  /\ Dropped(SimRank)
  /\ Left(j, ClientRank)
  /\ UNCHANGED <<tcpVars, wireVars>>

(* ~SocketInterComm on one rank of either side. *)
DropAlone(s) ==
  /\ ~CollectiveDisconnect
  /\ \E j \in Clients : Dropping(s, j)
  /\ Dropped({s})
  /\ UNCHANGED <<tcpVars, wireVars, clientVars>>

LeaveAlone(j, c) ==
  /\ ~CollectiveDisconnect
  /\ clientPc[j][c] = "leaving"
  /\ Left(j, {c})
  /\ UNCHANGED <<tcpVars, wireVars, simVars>>

(* The simulation has exited and no client can take another step: a job    *)
(* has left, waits in accept, or waits in the barrier for a rank 0 that    *)
(* threw.                                                                  *)
Stranded(j) == AllRanks(j, "accepting")
Threw(j) == clientPc[j][0] = "failed"
Terminated ==
  /\ \A s \in SimRank : simPc[s] = "gone"
  /\ \A j \in Clients :
       AllRanks(j, "gone") \/ Threw(j) \/ Stranded(j)

Listener == ListenerNext /\ UNCHANGED clientVars
Root == (RootNext /\ UNCHANGED clientVars) \/ DropAlone(0)
Other(s) == (OtherNext(s) /\ UNCHANGED clientVars) \/ DropAlone(s)
Client(j) ==
  \/ ClientNext(j) /\ UNCHANGED simVars
  \/ \E c \in ClientRank : LeaveAlone(j, c)
Together(j) == Establish(j) \/ DisconnectTogether(j)
Done == Terminated /\ UNCHANGED vars

Next ==
  \/ Listener
  \/ Root
  \/ \E s \in SimRank \ {0} : Other(s)
  \/ \E j \in Clients : Client(j)
  \/ \E j \in Clients : Together(j)
  \/ Done

Spec == Init /\ [][Next]_vars

(* Every thread that can take a step takes one in the end: the simulation  *)
(* keeps calling libISProcess and then libISFinalize, a client job keeps   *)
(* calling the library until it has disconnected, and a collective call    *)
(* that all ranks have made returns.                                       *)
Fairness ==
  /\ WF_vars(Listener)
  /\ WF_vars(Root)
  /\ \A s \in SimRank \ {0} : WF_vars(Other(s))
  /\ \A j \in Clients : WF_vars(Client(j)) /\ WF_vars(Together(j))

FairSpec == Spec /\ Fairness

-----------------------------------------------------------------------------
(* Type correctness of the whole state. *)
TypeOK == InterCommTypeOK /\ SimTypeOK /\ ClientTypeOK

(* process() and the destructor never reach one of the throws of           *)
(* is_sim.cpp, lines 234 and 242: no rank receives a value that is not a   *)
(* command it can handle, and none connects twice - although lines 178-183 *)
(* let the listener overwrite clientCommand at any time between two calls. *)
NoThrow == \A s \in SimRank : simPc[s] # "threw"

(* While a client is connected, or a command published by the listener is  *)
(* pending, the listener thread is past its critical section.  So its test *)
(* of intercomm (line 179) always succeeds, the command it writes cannot   *)
(* replace one that was received from the client, and the join in          *)
(* disconnectClient (line 270), made with the mutex held, does not wait    *)
(* for a thread that wants the mutex.                                      *)
ListenerQuiet ==
  newQuery \/ intercomm[0] # NoClient \/ simPc[0] = "rejoin"
    => listener \in {"closing", "ended"}

(* Commands, pings and replies are bare ints with one tag.  Whoever is     *)
(* about to receive gets the kind it expects: the simulation's rank 0 a    *)
(* command between timesteps and in the destructor, every rank a ping      *)
(* inside handleQuery, client rank 0 a continue-or-quit after a command,   *)
(* and every client rank the data of the very rank it pinged.              *)
IntsNotConfused ==
  /\ \A s \in SimRank, c \in ClientRank :
       intercomm[s] # NoClient =>
         LET queue == toSim[intercomm[s]][s][c] IN
           queue # <<>> =>
             /\ s = 0 /\ simPc[0] \in {"run", "finRecv"} =>
                  Head(queue) \in Command
             /\ simPc[s] = "query" => Head(queue) = "PING"
  /\ \A j \in Clients, c \in ClientRank, s \in SimRank :
       LET queue == toClient[j][c][s] IN
         queue # <<>> =>
           IF clientPc[j][c] = "waiting"
           THEN s = NextRegion(j, c) /\ Head(queue) \in RegionMessages
           ELSE c = 0 /\ s = 0 /\ Head(queue) \in QuitMessages

(* At most one message is under way between a simulation rank and a client *)
(* rank, both directions together: neither side sends before it has read   *)
(* the answer to what it sent before.                                      *)
StrictAlternation ==
  \A j \in Clients, s \in SimRank, c \in ClientRank :
    Len(toSim[j][s][c]) + Len(toClient[j][c][s]) <= 1

(* A simulation rank that destroys the intercommunicator has read all that *)
(* the client sent to it; on a socket, closing with unread input would     *)
(* reset the connection and could destroy the reply before it is read.     *)
NothingUnreadAtClose ==
  \A s \in SimRank, j \in Clients :
    Dropping(s, j) => \A c \in ClientRank : toSim[j][s][c] = <<>>

(* One query returns, over the ranks of the job, one region of every       *)
(* simulation rank, all of the same timestep, and a later query returns a  *)
(* later timestep - although the simulation's ranks run ahead of each      *)
(* other by whole timesteps and answer from their current one.             *)
TimestepsOf(answer) == {r.step : r \in answer}
QueryCoherent ==
  \A j \in Clients :
    /\ \A k \in DOMAIN answered[j] :
         /\ Cardinality(answered[j][k]) = M
         /\ {r.simRank : r \in answered[j][k]} = SimRank
         /\ Cardinality(TimestepsOf(answered[j][k])) = 1
    /\ \A k, l \in DOMAIN answered[j] :
         k < l => \A t \in TimestepsOf(answered[j][k]),
                     u \in TimestepsOf(answered[j][l]) : t < u

(* "We need to force disconnect them so they don't hang when trying to     *)
(* query us after the sim quits" (is_sim.cpp, lines 82-83): once rank 0 is *)
(* past the destructor's send, no job that it was connected to is about to *)
(* send a command or waits for a reply that is not on its way.             *)
ConnectedClientsAreTold ==
  simPc[0] \in {"finDrop", "gone"} =>
    \A j \in Clients :
      /\ clientPc[j][0] # "ready"
      /\ clientPc[j][0] = "greeting" =>
           toClient[j][0][0] = <<QuitMessage(TRUE)>>
      /\ clientPc[j][0] = "awaitQuit" =>
           \E q \in BOOLEAN :
             /\ toClient[j][0][0] = <<QuitMessage(q)>>
             /\ request[j] = "QUERY" => q

(* No client waits for ever in InterComm::accept after the simulation has  *)
(* exited.  This is what lines 82-83 and 90 of is_sim.cpp aim at, and it   *)
(* does not hold: see the README.                                          *)
NoClientHangsAfterExit ==
  (\A s \in SimRank : simPc[s] = "gone") =>
    \A j \in Clients : clientPc[j][0] # "accepting"

-----------------------------------------------------------------------------
(* The refinement: the session of a job is where its rank 0 is, and ends   *)
(* when it sends DISCONNECT; a snapshot is what the ranks of the job were  *)
(* given by one query together.                                            *)
Session(j) ==
  CASE clientPc[j][0] \in {"start", "tcp", "sent", "accepting"} -> "none"
    [] clientPc[j][0] \in {"greeting", "ready"} -> "open"
    [] clientPc[j][0] = "awaitQuit" ->
         IF request[j] = "DISCONNECT" THEN "closed" ELSE "asking"
    [] clientPc[j][0] \in {"fetching", "waiting"} -> "asking"
    [] clientPc[j][0] \in {"leaving", "gone", "failed"} -> "closed"
SnapshotsOf(j) ==
  [k \in DOMAIN answered[j] |-> {<<r.simRank, r.step>> : r \in answered[j][k]}]

Promise == INSTANCE InTransit WITH
  SimRanks <- SimRank,
  Timesteps <- 0 .. MaxSteps - 1,
  session <- [j \in Clients |-> Session(j)],
  snapshots <- [j \in Clients |-> SnapshotsOf(j)]

(* Every behaviour of simulation, clients and media is one of InTransit:   *)
(* sessions exclude each other, and the snapshots handed out are complete, *)
(* of one timestep each, and ever later - over all sessions together.      *)
ImplementsInTransit == Promise!Spec

-----------------------------------------------------------------------------
(* libISFinalize returns on every rank once rank 0 has called it, whatever *)
(* the listener and the client were doing.                                 *)
FinalizeReturns ==
  (simPc[0] = "finJoin") ~> (\A s \in SimRank : simPc[s] = "gone")

(* A command of a connected client is answered: query() returns data or    *)
(* tells its caller that the simulation quit, and disconnect() returns.    *)
CommandsAnswered ==
  \A j \in Clients :
    (clientPc[j][0] = "awaitQuit") ~>
      (AllRanks(j, "ready") \/ AllRanks(j, "gone"))

(* A client whose CONNECT the listener has read gets out of connect().     *)
PublishedClientsServed ==
  \A j \in Clients :
    (listener = "locking" /\ accepted = j) ~>
      (AllRanks(j, "ready") \/ AllRanks(j, "gone"))

=============================================================================
