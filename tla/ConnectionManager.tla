------------------------- MODULE ConnectionManager -------------------------
(***************************************************************************)
(* The simulation side, is_sim.cpp: the ConnectionManager of every rank,   *)
(* driven by libISProcess and libISFinalize, and the listener thread of    *)
(* rank 0.  libISInit has returned on every rank in the initial state.     *)
(*                                                                         *)
(* Rank 0 decides and the other ranks follow: MPI_Bcast does not           *)
(* synchronise, so rank 0 may run ahead and what it broadcast waits in     *)
(* bcast[s] until rank s makes the same call.  The two broadcasts of one   *)
(* process() call (haveQuery, then clientCommand, then the port name when  *)
(* the command is CONNECT) are one entry; "NONE" stands for haveQuery = 0. *)
(***************************************************************************)
EXTENDS InterComm

CONSTANT MaxReadErrors  \* bound: short or failed reads of the listener

ASSUME ReadErrorsAssumption == MaxReadErrors \in Nat

VARIABLES
  listener,       \* control state of the listener thread
  readErrors,     \* counts the failed reads, for the bound only
  exitThread, newQuery, clientCommand,   \* fields of rank 0
  clientPort, intercomm,                 \* fields of every rank
  simPc,          \* where each rank is inside or outside libIS
  step,           \* calls of libISProcess each rank has returned from
  bcast           \* broadcast by rank 0, not yet received by the rank

listenerVars == <<listener, readErrors, exitThread>>
queryVars == <<newQuery, clientCommand>>
rankVars == <<clientPort, intercomm, simPc, step, bcast>>
simVars == <<listenerVars, queryVars, rankVars>>

ListenerState == {"binding", "polling", "accepted", "reading", "locking",
                  "closing", "ended"}
SimState == {"run", "connect", "greet", "query", "drop", "rejoin", "threw",
             "finJoin", "finRecv", "finConnect", "finGreet", "finDrop",
             "gone"}
Entry == [cmd : ToSimMessage \cup {"NONE", "INVALID", "CONNECT", "CLEARED"},
          port : Clients \cup {NoClient}]

SimTypeOK ==
  /\ listener \in ListenerState
  /\ readErrors \in 0 .. MaxReadErrors
  /\ exitThread \in BOOLEAN
  /\ newQuery \in BOOLEAN
  /\ clientCommand \in ToSimMessage \cup {"INVALID", "CONNECT", "CLEARED"}
  /\ clientPort \in [SimRank -> Clients \cup {NoClient}]
  /\ intercomm \in [SimRank -> Clients \cup {NoClient}]
  /\ simPc \in [SimRank -> SimState]
  /\ step \in [SimRank -> 0 .. MaxSteps]
  /\ bcast \in [SimRank -> Seq(Entry)]

SimInit ==
  /\ listener = "binding"
  /\ readErrors = 0
  /\ exitThread = FALSE
  /\ newQuery = FALSE
  /\ clientCommand = "INVALID"
  /\ clientPort = [s \in SimRank |-> NoClient]
  /\ intercomm = [s \in SimRank |-> NoClient]
  /\ simPc = [s \in SimRank |-> "run"]
  /\ step = [s \in SimRank |-> 0]
  /\ bcast = [s \in SimRank |-> <<>>]

-----------------------------------------------------------------------------
(***************************************************************************)
(* The listener thread of rank 0.                                          *)
(*                                                                         *)
(* The clients are those of this library: the int after the port name is   *)
(* CONNECT, which lines 170 and 182 take as it comes.  That socket, bind,  *)
(* listen or accept itself fails (lines 106, 120, 123 and 142) is left     *)
(* out: the exception leaves the thread and ends the simulation.           *)
(***************************************************************************)

(* The mutex is held by the main thread of rank 0 through all of process() *)
(* and the body of the destructor after the join.                          *)
MutexHeld == simPc[0] \notin {"run", "finJoin", "gone"}

(* socket, bind, listen. *)
ListenerBind ==
  /\ listener = "binding"
  /\ listener' = "polling"
  /\ listening' = TRUE
  /\ UNCHANGED <<backlog, accepted, hello, wireVars, readErrors, exitThread,
                 queryVars, rankVars>>

(* The non-blocking accept of the inner loop succeeds. *)
ListenerAccept ==
  /\ listener = "polling"
  /\ ~exitThread
  /\ backlog # <<>>
  /\ accepted' = Head(backlog)
  /\ backlog' = Tail(backlog)
  /\ listener' = "accepted"
  /\ UNCHANGED <<listening, hello, wireVars, readErrors, exitThread,
                 queryVars, rankVars>>

(* exitThread is tested again before the connection is read. *)
ListenerStartRead ==
  /\ listener = "accepted"
  /\ ~exitThread
  /\ listener' = "reading"
  /\ UNCHANGED <<tcpVars, wireVars, readErrors, exitThread, queryVars,
                 rankVars>>

(* One of the tests of exitThread ends the loops; a connection that was    *)
(* just accepted is abandoned with them.  Mutated form: the inner loop     *)
(* does not test it.                                                       *)
ListenerExitOuterLoop ==
  /\ listener = "accepted"
  /\ exitThread
  /\ listener' = "closing"
  /\ accepted' = NoClient
  /\ UNCHANGED <<listening, backlog, hello, wireVars, readErrors, exitThread,
                 queryVars, rankVars>>
ListenerExit ==
  /\ listener \in {"polling", "accepted"}
  /\ exitThread
  /\ listener' = "closing"
  /\ accepted' = NoClient
  /\ UNCHANGED <<listening, backlog, hello, wireVars, readErrors, exitThread,
                 queryVars, rankVars>>

(* A recv fails or returns fewer bytes than asked for: the connection is   *)
(* closed and the outer loop continues.                                    *)
ListenerReadError ==
  /\ listener = "reading"
  /\ readErrors < MaxReadErrors
  /\ readErrors' = readErrors + 1
  /\ listener' = "polling"
  /\ accepted' = NoClient
  /\ UNCHANGED <<listening, backlog, hello, wireVars, exitThread, queryVars,
                 rankVars>>

(* Port name length, port name and command have been read. *)
ListenerRead ==
  /\ listener = "reading"
  /\ accepted \in hello
  /\ listener' = "locking"
  /\ UNCHANGED <<tcpVars, wireVars, readErrors, exitThread, queryVars,
                 rankVars>>

(* The critical section, then the break out of the outer loop.  Mutated    *)
(* form: the break is missing and the thread accepts the next client.      *)
AfterPublishLoop == "polling"
AfterPublish == "closing"
ListenerPublish ==
  /\ listener = "locking"
  /\ ~MutexHeld
  /\ clientPort' = [clientPort EXCEPT ![0] =
                      IF intercomm[0] = NoClient THEN accepted ELSE @]
  /\ clientCommand' = "CONNECT"
  /\ newQuery' = TRUE
  /\ accepted' = NoClient
  /\ listener' = AfterPublish
  /\ UNCHANGED <<listening, backlog, hello, wireVars, readErrors, exitThread,
                 intercomm, simPc, step, bcast>>

(* close(listenSocket) resets what is still in the backlog. *)
ListenerClose ==
  /\ listener = "closing"
  /\ listener' = "ended"
  /\ listening' = FALSE
  /\ backlog' = <<>>
  /\ UNCHANGED <<accepted, hello, wireVars, readErrors, exitThread,
                 queryVars, rankVars>>

ListenerNext ==
  \/ ListenerBind
  \/ ListenerAccept
  \/ ListenerStartRead
  \/ ListenerExit
  \/ ListenerReadError
  \/ ListenerRead
  \/ ListenerPublish
  \/ ListenerClose

-----------------------------------------------------------------------------
(***************************************************************************)
(* ConnectionManager::process, called by libISProcess once per timestep.   *)
(***************************************************************************)

(* MPI_Bcast by rank 0: the command for every other rank, and the port     *)
(* name that connectClient broadcasts after a CONNECT.                     *)
Broadcast(cmd) ==
  bcast' = [s \in SimRank |->
              IF s = 0 THEN bcast[0]
              ELSE Append(bcast[s],
                     [cmd |-> cmd,
                      port |-> IF cmd = "CONNECT" THEN clientPort[0]
                               ELSE NoClient])]

(* The end of process(): the command is forgotten, so that the destructor  *)
(* or the next process() does not act on it again.  Mutated form: the flag *)
(* survives.                                                               *)
KeptQuery == newQuery
ForgottenQuery == FALSE
Return(s) ==
  /\ simPc' = [simPc EXCEPT ![s] = "run"]
  /\ step' = [step EXCEPT ![s] = @ + 1]
  /\ clientCommand' = IF s = 0 THEN "CLEARED" ELSE clientCommand
  /\ newQuery' = IF s = 0 THEN ForgottenQuery ELSE newQuery

(* The switch over the command: what rank s does next. *)
Handler(s, cmd) ==
  CASE cmd = "CONNECT" -> IF intercomm[s] = NoClient THEN "connect" ELSE "threw"
    [] cmd = "QUERY" -> "query"
    [] cmd = "DISCONNECT" -> "drop"
    [] OTHER -> "threw"

InLoop(s) == simPc[s] = "run" /\ step[s] < MaxSteps

(* haveQuery = 0.  A command of the client that is on its way may not have *)
(* arrived when rank 0 probes, so its presence in the channel does not     *)
(* disable this action.                                                    *)
ProcessIdle ==
  /\ InLoop(0)
  /\ ~newQuery
  /\ Broadcast("NONE")
  /\ step' = [step EXCEPT ![0] = @ + 1]
  /\ UNCHANGED <<tcpVars, wireVars, listenerVars, queryVars, clientPort,
                 intercomm, simPc>>

(* The listener has published a command: the client itself is not probed.  *)
ProcessNewQuery ==
  /\ InLoop(0)
  /\ newQuery
  /\ Broadcast(clientCommand)
  /\ simPc' = [simPc EXCEPT ![0] = Handler(0, clientCommand)]
  /\ UNCHANGED <<tcpVars, wireVars, listenerVars, queryVars, clientPort,
                 intercomm, step>>

(* Rank 0 finds a command of client rank 0, tells the client not to quit,  *)
(* and starts the command.  Mutated form: the reply is forgotten.          *)
ContinueForgotten(j) == UNCHANGED toClient
Continue(j) == SendToClient(j, 0, 0, QuitMessage(FALSE))
ProcessClientCommand(j) ==
  /\ InLoop(0)
  /\ ~newQuery
  /\ intercomm[0] = j
  /\ Ready(j, 0, 0)
  /\ LET cmd == Head(toSim[j][0][0]) IN
       /\ clientCommand' = cmd
       /\ Broadcast(cmd)
       /\ simPc' = [simPc EXCEPT ![0] = Handler(0, cmd)]
  /\ ReceiveFromClient(j, 0, 0)
  /\ Continue(j)
  /\ UNCHANGED <<tcpVars, listenerVars, newQuery, clientPort, intercomm,
                 step>>

(* Any other rank makes the same call and learns what rank 0 decided. *)
ProcessOther(s) ==
  /\ s # 0
  /\ InLoop(s)
  /\ bcast[s] # <<>>
  /\ LET e == Head(bcast[s]) IN
       /\ clientPort' = IF e.cmd = "CONNECT" /\ intercomm[s] = NoClient
                         THEN [clientPort EXCEPT ![s] = e.port]
                         ELSE clientPort
       /\ simPc' = IF e.cmd = "NONE" THEN simPc
                    ELSE [simPc EXCEPT ![s] = Handler(s, e.cmd)]
       /\ step' = IF e.cmd = "NONE" THEN [step EXCEPT ![s] = @ + 1]
                   ELSE step
  /\ bcast' = [bcast EXCEPT ![s] = Tail(@)]
  /\ UNCHANGED <<tcpVars, wireVars, listenerVars, queryVars, intercomm>>

(* Rank 0 tells the client that just connected not to quit. *)
Greet ==
  /\ simPc[0] = "greet"
  /\ SendToClient(intercomm[0], 0, 0, QuitMessage(FALSE))
  /\ Return(0)
  /\ UNCHANGED <<tcpVars, toSim, listenerVars, clientPort, intercomm, bcast>>

(* handleQuery: rank s waits for the ping of whichever client rank was     *)
(* given its region and sends that rank the current timestep.  Mutated     *)
(* form: the timestep is counted before it is processed.                   *)
NextTimestep(s) == step[s] + 1
Timestep(s) == step[s]
HandleQuery(s) ==
  /\ simPc[s] = "query"
  /\ \E c \in ClientRank :
       LET j == intercomm[s] IN
         /\ j # NoClient
         /\ Ready(j, s, c)
         /\ ReceiveFromClient(j, s, c)
         /\ SendToClient(j, c, s, RegionMessage(s, Timestep(s)))
  /\ Return(s)
  /\ UNCHANGED <<tcpVars, listenerVars, clientPort, intercomm, bcast>>

(* The rest of disconnectClient on rank 0: join the listener thread, which *)
(* must have ended by itself, and start a new one.                         *)
Rejoin ==
  /\ simPc[0] = "rejoin"
  /\ listener = "ended"
  /\ listener' = "binding"
  /\ Return(0)
  /\ UNCHANGED <<tcpVars, wireVars, readErrors, exitThread, clientPort,
                 intercomm, bcast>>

-----------------------------------------------------------------------------
(***************************************************************************)
(* ConnectionManager::~ConnectionManager, called by libISFinalize after    *)
(* the last timestep.                                                      *)
(***************************************************************************)

Finalize ==
  /\ simPc[0] = "run"
  /\ step[0] = MaxSteps
  /\ exitThread' = TRUE
  /\ simPc' = [simPc EXCEPT ![0] = "finJoin"]
  /\ UNCHANGED <<tcpVars, wireVars, listener, readErrors, queryVars,
                 clientPort, intercomm, step, bcast>>

(* What a rank does once it knows the command of the destructor.  Mutated  *)
(* form: a client that is asking to be connected is ignored.               *)
FinalHandlerNoConnect(s, cmd) ==
  IF intercomm[s] = NoClient THEN "gone"
  ELSE IF s = 0 THEN "finGreet" ELSE "finDrop"
FinalHandler(s, cmd) ==
  CASE cmd = "CONNECT" ->
         IF intercomm[s] = NoClient THEN "finConnect" ELSE "threw"
    [] cmd # "CONNECT" /\ intercomm[s] = NoClient -> "gone"
    [] cmd # "CONNECT" /\ intercomm[s] # NoClient ->
         IF s = 0 THEN "finGreet" ELSE "finDrop"

(* join(): with a client connected and nothing published, the client is    *)
(* made to wait for its next command so that it can be told to quit.       *)
(* Mutated form: the destructor does not wait for that command.            *)
FinalJoinSkip ==
  /\ simPc[0] = "finJoin"
  /\ listener = "ended"
  /\ Broadcast(clientCommand)
  /\ simPc' = [simPc EXCEPT ![0] = FinalHandler(0, clientCommand)]
  /\ UNCHANGED <<tcpVars, wireVars, listenerVars, queryVars, clientPort,
                 intercomm, step>>
FinalJoin ==
  /\ simPc[0] = "finJoin"
  /\ listener = "ended"
  /\ IF ~newQuery /\ intercomm[0] # NoClient
     THEN /\ simPc' = [simPc EXCEPT ![0] = "finRecv"]
          /\ UNCHANGED bcast
     ELSE /\ Broadcast(clientCommand)
          /\ simPc' = [simPc EXCEPT ![0] = FinalHandler(0, clientCommand)]
  /\ UNCHANGED <<tcpVars, wireVars, listenerVars, queryVars, clientPort,
                 intercomm, step>>

(* The blocking recv of the next command, whatever it is. *)
FinalReceive(j) ==
  /\ simPc[0] = "finRecv"
  /\ intercomm[0] = j
  /\ Ready(j, 0, 0)
  /\ LET cmd == Head(toSim[j][0][0]) IN
       /\ clientCommand' = cmd
       /\ Broadcast(cmd)
       /\ simPc' = [simPc EXCEPT ![0] = FinalHandler(0, cmd)]
  /\ ReceiveFromClient(j, 0, 0)
  /\ UNCHANGED <<tcpVars, toClient, listenerVars, newQuery, clientPort,
                 intercomm, step>>

FinalOther(s) ==
  /\ s # 0
  /\ simPc[s] = "run"
  /\ step[s] = MaxSteps
  /\ bcast[s] # <<>>
  /\ LET e == Head(bcast[s]) IN
       /\ clientPort' = IF e.cmd = "CONNECT" /\ intercomm[s] = NoClient
                         THEN [clientPort EXCEPT ![s] = e.port]
                         ELSE clientPort
       /\ simPc' = [simPc EXCEPT ![s] = FinalHandler(s, e.cmd)]
  /\ bcast' = [bcast EXCEPT ![s] = Tail(@)]
  /\ UNCHANGED <<tcpVars, wireVars, listenerVars, queryVars, intercomm, step>>

(* Rank 0 tells its client to quit. *)
FinalGreet ==
  /\ simPc[0] = "finGreet"
  /\ SendToClient(intercomm[0], 0, 0, QuitMessage(TRUE))
  /\ simPc' = [simPc EXCEPT ![0] = "finDrop"]
  /\ UNCHANGED <<tcpVars, toSim, listenerVars, queryVars, clientPort,
                 intercomm, step, bcast>>

-----------------------------------------------------------------------------
(***************************************************************************)
(* The two collective operations on the intercommunicator, as far as one   *)
(* simulation rank takes part in them; LibIS joins them with the client.   *)
(***************************************************************************)

ConnectingTo(s, j) == simPc[s] \in {"connect", "finConnect"} /\ clientPort[s] = j

(* InterComm::connect returns on every rank; the next statement differs    *)
(* between rank 0 and the others, and between process and the destructor.  *)
Connected(j) ==
  /\ intercomm' = [s \in SimRank |-> j]
  /\ simPc' = [s \in SimRank |->
                 IF simPc[s] = "finConnect"
                 THEN IF s = 0 THEN "finGreet" ELSE "finDrop"
                 ELSE IF s = 0 THEN "greet" ELSE "run"]
  /\ step' = [s \in SimRank |->
                IF s # 0 /\ simPc[s] = "connect" THEN step[s] + 1 ELSE step[s]]
  /\ UNCHANGED <<listenerVars, queryVars, clientPort, bcast>>

Dropping(s, j) == simPc[s] \in {"drop", "finDrop"} /\ intercomm[s] = j

(* The intercommunicator of the ranks in R is destroyed, by disconnectClient *)
(* or at the end of the destructor.                                        *)
Dropped(R) ==
  /\ intercomm' = [s \in SimRank |-> IF s \in R THEN NoClient ELSE intercomm[s]]
  /\ simPc' = [s \in SimRank |->
                 IF s \notin R THEN simPc[s]
                 ELSE IF simPc[s] = "finDrop" THEN "gone"
                 ELSE IF s = 0 THEN "rejoin" ELSE "run"]
  /\ step' = [s \in SimRank |->
                IF s \in R \ {0} /\ simPc[s] = "drop" THEN step[s] + 1 ELSE step[s]]
  /\ UNCHANGED <<listenerVars, queryVars, clientPort, bcast>>

RootNext ==
  \/ ProcessIdle
  \/ ProcessNewQuery
  \/ \E j \in Clients : ProcessClientCommand(j)
  \/ Greet
  \/ HandleQuery(0)
  \/ Rejoin
  \/ Finalize
  \/ FinalJoin
  \/ \E j \in Clients : FinalReceive(j)
  \/ FinalGreet

OtherNext(s) ==
  \/ ProcessOther(s)
  \/ HandleQuery(s)
  \/ FinalOther(s)
=============================================================================
