---------------------------- MODULE SocketSetup ----------------------------
(***************************************************************************)
(* SocketInterComm::connect on the M ranks of the simulation against       *)
(* SocketInterComm::accept on the N ranks of a client job: how the group   *)
(* comes to have one TCP socket between every two ranks.                   *)
(*                                                                         *)
(* Every simulation rank first connects to client rank 0, says who it is   *)
(* and gets the list of the other listening sockets (phase 1), then it     *)
(* connects to those (phase 2).  In both phases only Window ranks connect  *)
(* at a time, and a barrier separates one window from the next.  The       *)
(* listening sockets are open before the first connect: listen() returned  *)
(* on every rank before its hostPortName was sent.                         *)
(*                                                                         *)
(* Abstracted: a host and port is the client rank that listens there; a    *)
(* connection is the simulation rank that made it; what is written to a    *)
(* fresh connection is read whole.  A connect that finds the backlog full  *)
(* waits, as TCP retransmits its SYN.                                      *)
(***************************************************************************)
EXTENDS Integers, Sequences, FiniteSets

CONSTANTS
  M,                \* ranks that connect: the simulation
  N,                \* ranks that accept: the client job
  Window,           \* SOCKET_MAX_SIMULTANEOUS_CONNECTIONS, 32 in the code
  MaxAcceptErrors   \* bound: calls of accept(2) that return -1, on each client rank

ASSUME SetupSizes == M \in Nat \ {0} /\ N \in Nat \ {0}
ASSUME WindowAssumption == Window \in Nat \ {0}
ASSUME AcceptErrorsAssumption == MaxAcceptErrors \in Nat

SimRank == 0 .. M-1
ClientRank == 0 .. N-1
OtherClientRank == ClientRank \ {0}

VARIABLES
  phase, round,   \* which of the two loops, and which window of it; 3: done
  simPc,          \* phase 1 of each simulation rank
  remoteHosts,    \* the list it got from client rank 0
  simSockets,     \* its vector of sockets: the client rank at each index
  backlog,        \* backlog[c]: connections that client rank c must accept
  clientPc,       \* where each client rank is in accept
  posted,         \* client ranks that have sent their hostPortName to rank 0
  hosts,          \* what client rank 0 has collected of them
  announced,      \* the values of nexpected that client rank 0 broadcast
  nexpected, nconnected, remotes,   \* local variables of accept
  acceptErrors    \* counts the failures of each client rank, for the bound
                  \*   and the properties

simVars == <<phase, round, simPc, remoteHosts, simSockets>>
gatherVars == <<posted, hosts>>
acceptVars == <<nexpected, nconnected, remotes>>
vars == <<simVars, backlog, clientPc, gatherVars, announced, acceptVars,
          acceptErrors>>

Failed == -1    \* the descriptor that a failed accept returns
Unset == -2     \* an index of the vector that no rank has filled

(* The maps from remote rank to socket. *)
Remotes == UNION {[D -> SimRank \cup {Failed}] : D \in SUBSET SimRank}

TypeOK ==
  /\ phase \in 1 .. 3
  /\ round \in Nat /\ round * Window < M
  /\ simPc \in [SimRank -> {"connect", "asked", "barrier"}]
  /\ remoteHosts \in [SimRank -> Seq(OtherClientRank)]
  /\ simSockets \in [SimRank -> Seq(ClientRank)]
  /\ backlog \in [ClientRank -> Seq(SimRank)]
  /\ clientPc \in
       [ClientRank -> {"hosts", "waiting", "accepting", "returned"}]
  /\ posted \in SUBSET OtherClientRank
  /\ hosts \in Seq(OtherClientRank)
  /\ announced \in Seq({-1, M})
  /\ nexpected \in [ClientRank -> {-1, 0, M}]
  /\ nconnected \in [ClientRank -> Nat]
  /\ remotes \in [ClientRank -> Remotes]
  /\ acceptErrors \in [ClientRank -> 0 .. MaxAcceptErrors]

Init ==
  /\ phase = 1
  /\ round = 0
  /\ simPc = [s \in SimRank |-> "connect"]
  /\ remoteHosts = [s \in SimRank |-> <<>>]
  /\ simSockets = [s \in SimRank |-> <<>>]
  /\ backlog = [c \in ClientRank |-> <<>>]
  /\ clientPc = [c \in ClientRank |-> "hosts"]
  /\ posted = {}
  /\ hosts = <<>>
  /\ announced = <<>>
  /\ nexpected = [c \in ClientRank |-> IF c = 0 THEN -1 ELSE 0]
  /\ nconnected = [c \in ClientRank |-> 0]
  /\ remotes = [c \in ClientRank |-> <<>>]
  /\ acceptErrors = [c \in ClientRank |-> 0]

-----------------------------------------------------------------------------
(***************************************************************************)
(* connect, on every simulation rank.                                      *)
(***************************************************************************)

(* The test of the rate limiting loops.  Mutated form: all ranks at once. *)
InEveryWindow(s) == TRUE
InWindow(s) == round * Window <= s /\ s < (round + 1) * Window

HasRoom(c) == Len(backlog[c]) < Window

(* Phase 1: connect to client rank 0 and send it our rank (rank 0 also     *)
(* sends the number of ranks); its answer is the list.                     *)
ConnectToRoot(s) ==
  /\ phase = 1 /\ InWindow(s)
  /\ simPc[s] = "connect"
  /\ HasRoom(0)
  /\ backlog' = [backlog EXCEPT ![0] = Append(@, s)]
  /\ simSockets' = [simSockets EXCEPT ![s] = <<0>>]
  /\ simPc' = [simPc EXCEPT ![s] = "asked"]
  /\ UNCHANGED <<phase, round, remoteHosts, clientPc, gatherVars, announced,
                 acceptVars, acceptErrors>>

(* Phase 2: connect to the next rank of the list and send it our rank;     *)
(* there is no answer to wait for.                                         *)
NextHost(s) == Len(simSockets[s])
ConnectToOther(s) ==
  /\ phase = 2 /\ InWindow(s)
  /\ NextHost(s) \in DOMAIN remoteHosts[s]
  /\ LET c == remoteHosts[s][NextHost(s)] IN
       /\ HasRoom(c)
       /\ backlog' = [backlog EXCEPT ![c] = Append(@, s)]
       /\ simSockets' = [simSockets EXCEPT ![s] = Append(@, c)]
  /\ UNCHANGED <<phase, round, simPc, remoteHosts, clientPc, gatherVars,
                 announced, acceptVars, acceptErrors>>

AtBarrier(s) ==
  \/ ~InWindow(s)
  \/ phase = 1 /\ simPc[s] = "barrier"
  \/ phase = 2 /\ NextHost(s) \notin DOMAIN remoteHosts[s]

(* The condition of the loops.  Mutated form: off by one. *)
OneMoreWindow == (round + 1) * Window <= M
AnotherWindow == (round + 1) * Window < M

(* MPI_Barrier at the end of each iteration: the next window, the next     *)
(* phase, or the return of connect on every rank.                          *)
Barrier ==
  /\ phase \in {1, 2}
  /\ \A s \in SimRank : AtBarrier(s)
  /\ round' = IF AnotherWindow THEN round + 1 ELSE 0
  /\ phase' = IF AnotherWindow THEN phase ELSE phase + 1
  /\ UNCHANGED <<simPc, remoteHosts, simSockets, backlog, clientPc,
                 gatherVars, announced, acceptVars, acceptErrors>>

-----------------------------------------------------------------------------
(***************************************************************************)
(* accept, on every client rank.                                           *)
(***************************************************************************)

(* The ranks other than 0 send rank 0 their hostPortName ... *)
PostHost(c) ==
  /\ c # 0
  /\ clientPc[c] = "hosts"
  /\ posted' = posted \cup {c}
  /\ clientPc' = [clientPc EXCEPT ![c] = "waiting"]
  /\ UNCHANGED <<simVars, backlog, hosts, announced, acceptVars, acceptErrors>>

(* ... which receives them in the order of the ranks.  Mutated form: in    *)
(* the order of arrival.                                                   *)
AnySource(c) == \A i \in DOMAIN hosts : hosts[i] # c
NextSource(c) == c = Len(hosts) + 1
CollectHost(c) ==
  /\ clientPc[0] = "hosts"
  /\ c \in posted
  /\ NextSource(c)
  /\ hosts' = Append(hosts, c)
  /\ UNCHANGED <<simVars, backlog, clientPc, posted, announced, acceptVars,
                 acceptErrors>>

StartAccepting ==
  /\ clientPc[0] = "hosts"
  /\ Len(hosts) = N - 1
  /\ clientPc' = [clientPc EXCEPT ![0] = "accepting"]
  /\ UNCHANGED <<simVars, backlog, gatherVars, announced, acceptVars,
                 acceptErrors>>

(* The other ranks wait for the first broadcast of nexpected. *)
LearnExpected(c) ==
  /\ clientPc[c] = "waiting"
  /\ announced # <<>>
  /\ nexpected' = [nexpected EXCEPT ![c] = Head(announced)]
  /\ clientPc' = [clientPc EXCEPT ![c] = "accepting"]
  /\ UNCHANGED <<simVars, backlog, gatherVars, announced, nconnected, remotes,
                 acceptErrors>>

(* The condition of the accept loops. *)
Accepting(c) == clientPc[c] = "accepting" /\ nconnected[c] # nexpected[c]

(* remotes[remoteRank] = accepted. *)
Register(c, remoteRank, socket) ==
  /\ remotes' = [remotes EXCEPT ![c] =
       [k \in DOMAIN remotes[c] \cup {remoteRank} |->
          IF k = remoteRank THEN socket ELSE remotes[c][k]]]
  /\ nconnected' = [nconnected EXCEPT ![c] = @ + 1]

(* Client rank 0 learns from simulation rank 0 how many connections to     *)
(* expect and broadcasts it.  Mutated form: the other ranks are not told.  *)
AnnounceToNobody(n) == UNCHANGED announced
Announce(n) == announced' = Append(announced, n)

(* Rank 0 accepts a connection, asks who it is and sends the list. *)
AcceptOnRoot ==
  /\ Accepting(0)
  /\ backlog[0] # <<>>
  /\ LET s == Head(backlog[0]) IN
       /\ Register(0, s, s)
       /\ remoteHosts' = [remoteHosts EXCEPT ![s] = hosts]
       /\ simPc' = [simPc EXCEPT ![s] = "barrier"]
       /\ IF s = 0
          THEN nexpected' = [nexpected EXCEPT ![0] = M] /\ Announce(M)
          ELSE UNCHANGED <<nexpected, announced>>
  /\ backlog' = [backlog EXCEPT ![0] = Tail(@)]
  /\ UNCHANGED <<phase, round, simSockets, clientPc, gatherVars, acceptErrors>>

AcceptOnOther(c) ==
  /\ c # 0
  /\ Accepting(c)
  /\ backlog[c] # <<>>
  /\ Register(c, Head(backlog[c]), Head(backlog[c]))
  /\ backlog' = [backlog EXCEPT ![c] = Tail(@)]
  /\ UNCHANGED <<simVars, clientPc, gatherVars, announced, nexpected,
                 acceptErrors>>

(* accept(2) fails: the code prints the error and goes on with descriptor  *)
(* -1 and remoteRank 0, so that rank 0 also broadcasts the nexpected it    *)
(* has not received.                                                       *)
AcceptFails(c) ==
  /\ acceptErrors[c] < MaxAcceptErrors
  /\ Accepting(c)
  /\ acceptErrors' = [acceptErrors EXCEPT ![c] = @ + 1]
  /\ Register(c, 0, Failed)
  /\ IF c = 0 THEN Announce(nexpected[0]) ELSE UNCHANGED announced
  /\ UNCHANGED <<simVars, backlog, clientPc, gatherVars, nexpected>>

(* The loop ends and the vector of sockets is filled. *)
FillSockets(c) ==
  /\ clientPc[c] = "accepting"
  /\ nconnected[c] = nexpected[c]
  /\ clientPc' = [clientPc EXCEPT ![c] = "returned"]
  /\ UNCHANGED <<simVars, backlog, gatherVars, announced, acceptVars,
                 acceptErrors>>

(* The vector has one element per registered rank; an index that is not    *)
(* registered keeps what resize put there.                                 *)
ClientSockets(c) ==
  [i \in 0 .. Cardinality(DOMAIN remotes[c]) - 1 |->
     IF i \in DOMAIN remotes[c] THEN remotes[c][i] ELSE Unset]

-----------------------------------------------------------------------------
SimNext(s) == ConnectToRoot(s) \/ ConnectToOther(s)

ClientNext(c) ==
  \/ PostHost(c)
  \/ c = 0 /\ \E d \in OtherClientRank : CollectHost(d)
  \/ c = 0 /\ StartAccepting
  \/ LearnExpected(c)
  \/ c = 0 /\ AcceptOnRoot
  \/ AcceptOnOther(c)
  \/ FillSockets(c)

Next ==
  \/ \E s \in SimRank : SimNext(s)
  \/ Barrier
  \/ \E c \in ClientRank : ClientNext(c)
  \/ \E c \in ClientRank : AcceptFails(c)

Spec == Init /\ [][Next]_vars

(* Every thread goes on; accept is not obliged to fail. *)
FairSpec ==
  /\ Spec
  /\ \A s \in SimRank : WF_vars(SimNext(s))
  /\ WF_vars(Barrier)
  /\ \A c \in ClientRank : WF_vars(ClientNext(c))

-----------------------------------------------------------------------------
(***************************************************************************)
(* Properties.                                                             *)
(***************************************************************************)

AllReturned == phase = 3 /\ \A c \in ClientRank : clientPc[c] = "returned"

(* What connect and accept establish, and what InterComm::send and recv    *)
(* rely on: when they have returned on every rank, index c of simulation   *)
(* rank s and index s of client rank c are the two ends of one connection. *)
(* (intercomm.cpp, "so that the socket can be placed in the right index in *)
(* the vector of sockets".)  A failed accept spoils this for the rank      *)
(* where it happens and for no other; and one that happens on client rank  *)
(* 0 leaves no wrong index at all, because a simulation rank then waits    *)
(* for its answer, or rank 0 for a connection, and not all ranks return.   *)
SocketsAgree ==
  AllReturned =>
    \A s \in SimRank, c \in ClientRank :
      /\ Len(simSockets[s]) = N
      /\ simSockets[s][c + 1] = c
      /\ c = 0 \/ acceptErrors[c] = 0 =>
           /\ DOMAIN ClientSockets(c) = SimRank
           /\ ClientSockets(c)[s] = s

(* The first loop limits the connections to client rank 0: a rank that is  *)
(* about to connect to it finds room in the backlog.                       *)
RootNotFlooded ==
  \A s \in SimRank :
    phase = 1 /\ InWindow(s) /\ simPc[s] = "connect" => HasRoom(0)

(* The same for the second loop ("Rate limit our setup with the other      *)
(* hosts"): a rank that is about to connect to a client rank finds room.   *)
OthersNotFlooded ==
  \A s \in SimRank :
    phase = 2 /\ InWindow(s) /\ NextHost(s) \in DOMAIN remoteHosts[s]
      => HasRoom(remoteHosts[s][NextHost(s)])

(* connect and accept return on every rank, unless an accept failed: the   *)
(* barriers, the list, the broadcast of nexpected and the full backlogs do *)
(* not wait for each other in a circle.                                    *)
SetupCompletes == <>(AllReturned \/ \E c \in ClientRank : acceptErrors[c] > 0)
=============================================================================
