------------------------ MODULE SimulationConnection ------------------------
(***************************************************************************)
(* The client side, is_client.cpp: one SimulationConnection per client     *)
(* rank.  The application of a job calls connect once, then query any      *)
(* number of times, then disconnect, the same calls on all N ranks.        *)
(*                                                                         *)
(* Rank 0 talks to simulation rank 0; MPI_Barrier and MPI_Bcast make the   *)
(* other ranks follow, so a call that all ranks leave together is one      *)
(* action over all of them.  Between those points every rank moves alone.  *)
(***************************************************************************)
EXTENDS InterComm, Regions

VARIABLES
  clientPc,   \* clientPc[j][c]: where rank c of job j is
  request,    \* request[j]: the command rank 0 sent last
  simQuit,    \* simQuit[j]: the field of that name, the same on all ranks
  regions,    \* regions[j][c]: what query() has fetched so far
  answered    \* answered[j]: for each query that returned data, the regions
              \* that its ranks returned together

clientVars == <<clientPc, request, simQuit, regions, answered>>

ClientState == {"start", "tcp", "sent", "accepting", "greeting", "ready",
                "awaitQuit", "fetching", "waiting", "leaving", "gone",
                "failed"}

ClientTypeOK ==
  /\ clientPc \in [Clients -> [ClientRank -> ClientState]]
  /\ request \in [Clients -> Command \cup {"CONNECT"}]
  /\ simQuit \in [Clients -> BOOLEAN]
  /\ regions \in [Clients -> [ClientRank -> Seq(ToClientMessage)]]
  /\ answered \in [Clients -> Seq(SUBSET ToClientMessage)]

ClientInit ==
  /\ clientPc = [j \in Clients |-> [c \in ClientRank |-> "start"]]
  /\ request = [j \in Clients |-> "CONNECT"]
  /\ simQuit = [j \in Clients |-> FALSE]
  /\ regions = [j \in Clients |-> [c \in ClientRank |-> <<>>]]
  /\ answered = [j \in Clients |-> <<>>]

AllRanks(j, pc) == \A c \in ClientRank : clientPc[j][c] = pc
OtherRanks(j, pc) == \A c \in ClientRank \ {0} : clientPc[j][c] = pc
GoTo(j, c, pc) == clientPc' = [clientPc EXCEPT ![j][c] = pc]
AllGoTo(j, pc) == clientPc' = [clientPc EXCEPT ![j] = [c \in ClientRank |-> pc]]

-----------------------------------------------------------------------------
(***************************************************************************)
(* connectSim                                                              *)
(***************************************************************************)

(* connect(2) of sendCommand(CONNECT): the kernel completes it as long as  *)
(* the backlog of the listening socket has room.                           *)
TcpConnect(j) ==
  /\ clientPc[j][0] = "start"
  /\ listening
  /\ Len(backlog) < Backlog
  /\ backlog' = Append(backlog, j)
  /\ GoTo(j, 0, "tcp")
  /\ UNCHANGED <<listening, accepted, hello, wireVars, request, simQuit,
                 regions, answered>>

(* Nobody listens: sendCommand throws on rank 0, and the other ranks stay  *)
(* in the barrier that it leaves out.                                      *)
TcpRefused(j) ==
  /\ clientPc[j][0] = "start"
  /\ ~listening
  /\ GoTo(j, 0, "failed")
  /\ UNCHANGED <<tcpVars, wireVars, request, simQuit, regions, answered>>

(* Port name and CONNECT are written to the connection, which is closed.   *)
(* The writes succeed whether or not anyone will read them ...             *)
SendHello(j) ==
  /\ clientPc[j][0] = "tcp"
  /\ hello' = hello \cup {j}
  /\ GoTo(j, 0, "sent")
  /\ UNCHANGED <<listening, backlog, accepted, wireVars, request, simQuit,
                 regions, answered>>

(* ... unless the simulation has already reset the connection: rank 0      *)
(* throws and, again, the other ranks stay in the barrier.                 *)
SendHelloFails(j) ==
  /\ clientPc[j][0] = "tcp"
  /\ \A i \in DOMAIN backlog : backlog[i] # j
  /\ accepted # j
  /\ GoTo(j, 0, "failed")
  /\ UNCHANGED <<tcpVars, wireVars, request, simQuit, regions, answered>>

(* The MPI_Barrier of sendCommand, after which all ranks call accept. *)
ConnectSync(j) ==
  /\ clientPc[j][0] = "sent"
  /\ OtherRanks(j, "start")
  /\ AllGoTo(j, "accepting")
  /\ UNCHANGED <<tcpVars, wireVars, request, simQuit, regions, answered>>

(* Rank 0 receives continue or quit and broadcasts it. *)
Greeted(j) ==
  /\ AllRanks(j, "greeting")
  /\ toClient[j][0][0] # <<>>
  /\ LET quit == Head(toClient[j][0][0]) = QuitMessage(TRUE) IN
       /\ simQuit' = [simQuit EXCEPT ![j] = quit]
       /\ AllGoTo(j, IF quit THEN "leaving" ELSE "ready")
  /\ ReceiveFromSim(j, 0, 0)
  /\ UNCHANGED <<tcpVars, toSim, request, regions, answered>>

-----------------------------------------------------------------------------
(***************************************************************************)
(* query and disconnect                                                    *)
(***************************************************************************)

(* Rank 0 sends the command and waits for the reply. *)
SendCommand(j, cmd) ==
  /\ clientPc[j][0] = "ready"
  /\ cmd = "QUERY" => Len(answered[j]) < MaxQueries
  /\ request' = [request EXCEPT ![j] = cmd]
  /\ SendToSim(j, 0, 0, cmd)
  /\ GoTo(j, 0, "awaitQuit")
  /\ UNCHANGED <<tcpVars, toClient, simQuit, regions, answered>>

(* The reply, the barrier and the broadcast of simQuit: query() goes on to *)
(* fetch, or returns nothing when the simulation quits; the destructor is  *)
(* next after a quit and after DISCONNECT.  Mutated form: what follows the *)
(* reply of QUERY also follows that of DISCONNECT.                         *)
EndsSessionOnQuit(j, quit) == quit
EndsSession(j, quit) == quit \/ request[j] = "DISCONNECT"
CommandReply(j) ==
  /\ clientPc[j][0] = "awaitQuit"
  /\ OtherRanks(j, "ready")
  /\ toClient[j][0][0] # <<>>
  /\ LET quit == Head(toClient[j][0][0]) = QuitMessage(TRUE) IN
       /\ simQuit' = [simQuit EXCEPT ![j] = quit]
       /\ AllGoTo(j, IF EndsSession(j, quit) THEN "leaving" ELSE "fetching")
  /\ regions' = [regions EXCEPT ![j] = [c \in ClientRank |-> <<>>]]
  /\ ReceiveFromSim(j, 0, 0)
  /\ UNCHANGED <<tcpVars, toSim, request, answered>>

(* The simulation rank a client rank contacts next, and whether there is   *)
(* one.                                                                    *)
NextRegion(j, c) == RegionId(M, N, c, Len(regions[j][c]))
Unfinished(j, c) == Len(regions[j][c]) < MySims(M, N, c)

(* The loop of query(): ping the next region's rank, wait for its data.    *)
Ping(j, c) ==
  /\ clientPc[j][c] = "fetching"
  /\ Unfinished(j, c)
  /\ SendToSim(j, NextRegion(j, c), c, "PING")
  /\ GoTo(j, c, "waiting")
  /\ UNCHANGED <<tcpVars, toClient, request, simQuit, regions, answered>>

ReceiveRegion(j, c) ==
  /\ clientPc[j][c] = "waiting"
  /\ LET s == NextRegion(j, c) IN
       /\ toClient[j][c][s] # <<>>
       /\ regions' = [regions EXCEPT ![j][c] =
                        Append(@, Head(toClient[j][c][s]))]
       /\ ReceiveFromSim(j, c, s)
  /\ GoTo(j, c, "fetching")
  /\ UNCHANGED <<tcpVars, toSim, request, simQuit, answered>>

(* The barrier at the end of query(). Mutated form: it does not wait for   *)
(* the ranks other than 0.                                                 *)
BarrierOfRankZero(j) == clientPc[j][0] = "fetching" /\ ~Unfinished(j, 0)
QueryBarrier(j) ==
  AllRanks(j, "fetching") /\ \A c \in ClientRank : ~Unfinished(j, c)
QueryReturn(j) ==
  /\ QueryBarrier(j)
  /\ AllGoTo(j, "ready")
  /\ answered' = [answered EXCEPT ![j] =
       Append(@, UNION {{regions[j][c][i] : i \in DOMAIN regions[j][c]} :
                          c \in ClientRank})]
  /\ UNCHANGED <<tcpVars, wireVars, request, simQuit, regions>>

(* What the ranks in R do when their intercommunicator is destroyed. *)
Left(j, R) ==
  /\ clientPc' = [clientPc EXCEPT ![j] =
       [c \in ClientRank |-> IF c \in R THEN "gone" ELSE clientPc[j][c]]]
  /\ UNCHANGED <<request, simQuit, regions, answered>>

ClientNext(j) ==
  \/ TcpConnect(j)
  \/ TcpRefused(j)
  \/ SendHello(j)
  \/ SendHelloFails(j)
  \/ ConnectSync(j)
  \/ Greeted(j)
  \/ \E cmd \in Command : SendCommand(j, cmd)
  \/ CommandReply(j)
  \/ \E c \in ClientRank : Ping(j, c)
  \/ \E c \in ClientRank : ReceiveRegion(j, c)
  \/ QueryReturn(j)
=============================================================================
