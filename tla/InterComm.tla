----------------------------- MODULE InterComm -----------------------------
(***************************************************************************)
(* The media that the simulation library and the client library share:     *)
(* the TCP socket of simulation rank 0 on which clients announce           *)
(* themselves, and the intercommunicator that carries everything after     *)
(* that.  The intercommunicator is the abstract class InterComm of         *)
(* intercomm.h: a FIFO channel in each direction between every simulation  *)
(* rank and every client rank, with no message types - commands, pings and *)
(* replies are all bare ints with tag 0.                                   *)
(*                                                                         *)
(* A "client" is one client job: N ranks that call is::client::connect     *)
(* once.  The model values in Clients stand both for the job and for the   *)
(* port name it sends.                                                     *)
(***************************************************************************)
EXTENDS Integers, Sequences, FiniteSets

CONSTANTS
  M,            \* number of simulation ranks
  N,            \* number of client ranks of a job
  Clients,      \* client jobs
  NoClient,     \* the null intercommunicator / the empty port name
  MaxSteps,     \* bound: calls of libISProcess before libISFinalize
  MaxQueries,   \* bound: answered queries per client job
  Backlog,      \* second argument of listen(2) on the socket of rank 0
  CollectiveDisconnect  \* TRUE: MPIInterComm, FALSE: SocketInterComm

ASSUME SizesAssumption == M \in Nat \ {0} /\ N \in Nat \ {0}
ASSUME ClientsAssumption == NoClient \notin Clients
ASSUME BoundsAssumption == MaxSteps \in Nat /\ MaxQueries \in Nat
ASSUME BacklogAssumption == Backlog \in Nat \ {0}
ASSUME DisconnectAssumption == CollectiveDisconnect \in BOOLEAN

SimRank == 0 .. M-1
ClientRank == 0 .. N-1

VARIABLES
  listening,    \* the listening socket of simulation rank 0 is open
  backlog,      \* connections established by the kernel, not yet accepted
  accepted,     \* the job whose connection the listener holds
  hello,        \* jobs whose port name and CONNECT are in their connection
  toSim,        \* toSim[j][s][c]: from rank c of job j to simulation rank s
  toClient      \* toClient[j][c][s]: from simulation rank s to rank c of j

tcpVars == <<listening, backlog, accepted, hello>>
wireVars == <<toSim, toClient>>

(* What a client sends: a command of is_command.h or the ping of query(). *)
Command == {"QUERY", "DISCONNECT"}
ToSimMessage == Command \cup {"PING"}

(* What the simulation sends: the int that says continue or quit, or the   *)
(* header, buffers and particles of one rank at one timestep.              *)
QuitMessage(q) == [type |-> "quit", quit |-> q]
RegionMessage(s, t) == [type |-> "region", simRank |-> s, step |-> t]
QuitMessages == {QuitMessage(q) : q \in BOOLEAN}
RegionMessages ==
  [type : {"region"}, simRank : SimRank, step : 0 .. MaxSteps - 1]
ToClientMessage == QuitMessages \cup RegionMessages

InterCommTypeOK ==
  /\ listening \in BOOLEAN
  /\ backlog \in Seq(Clients)
  /\ accepted \in Clients \cup {NoClient}
  /\ hello \in SUBSET Clients
  /\ toSim \in [Clients -> [SimRank -> [ClientRank -> Seq(ToSimMessage)]]]
  /\ toClient \in
       [Clients -> [ClientRank -> [SimRank -> Seq(ToClientMessage)]]]

InterCommInit ==
  /\ listening = FALSE
  /\ backlog = <<>>
  /\ accepted = NoClient
  /\ hello = {}
  /\ toSim = [j \in Clients |-> [s \in SimRank |->
                [c \in ClientRank |-> <<>>]]]
  /\ toClient = [j \in Clients |-> [c \in ClientRank |->
                   [s \in SimRank |-> <<>>]]]

(* InterComm::send on either side. *)
SendToSim(j, s, c, m) ==
  toSim' = [toSim EXCEPT ![j][s][c] = Append(@, m)]
SendToClient(j, c, s, m) ==
  toClient' = [toClient EXCEPT ![j][c][s] = Append(@, m)]

(* InterComm::recv on either side, with the message taken from the channel; *)
(* the guard that something is there is the caller's.  Mutated form: the   *)
(* message is looked at and stays.                                         *)
PeekFromClient(j, s, c) == UNCHANGED toSim
ReceiveFromClient(j, s, c) ==
  toSim' = [toSim EXCEPT ![j][s][c] = Tail(@)]
ReceiveFromSim(j, c, s) ==
  toClient' = [toClient EXCEPT ![j][c][s] = Tail(@)]

(* A message of client rank c can reach simulation rank s: probe(c) and    *)
(* probeAll() may answer with c.  They need not, yet: the message may still *)
(* be on its way.                                                          *)
Ready(j, s, c) == toSim[j][s][c] # <<>>
=============================================================================
