---------------------------- MODULE LibISProofs ----------------------------
(***************************************************************************)
(* Theorems about LibIS for every number of simulation ranks, client ranks *)
(* and client jobs and for all bounds.  In this order:                     *)
(*                                                                         *)
(*   - the channels, and the types (TypeInv, TypeCorrect);                 *)
(*   - the listener thread is out of the way (QuietInv,                    *)
(*     ListenerStaysQuiet, ListenerTestSucceeds);                          *)
(*   - the protocol between rank 0 and a job, and between any two ranks in *)
(*     a query (ProtocolInv, ProtocolKept and what follows from it);       *)
(*   - the broadcasts (FollowInv of Broadcasts, BroadcastsFollowed), one   *)
(*     group of actions after the other, and what follows: no throw,       *)
(*     nothing unread, coherent queries;                                   *)
(*   - the refinement of InTransit (PromiseKept).                          *)
(***************************************************************************)
EXTENDS Broadcasts, Functions, FiniteSetTheorems, TLAPS

-----------------------------------------------------------------------------
(***************************************************************************)
(* What is used of the assignment of ranks, which is proved for all sizes. *)
(***************************************************************************)
Assignment == INSTANCE RegionsProofs

LEMMA AssignmentIsPartition ==
  ASSUME NEW m \in Nat, NEW n \in Nat \ {0}
  PROVE  Partition(m, n)
<1>1. \A c : RegionsOf(m, n, c) = Assignment!RegionsOf(m, n, c)
  BY DEF RegionsOf, RegionId, MySims, ExtraOffset, SimsPerClient, Smaller,
         Assignment!RegionsOf, Assignment!RegionId, Assignment!MySims,
         Assignment!ExtraOffset, Assignment!SimsPerClient, Assignment!Smaller
<1>2. Assignment!Partition(m, n)
  BY Assignment!RegionsPartition
<1> QED
  BY <1>1, <1>2 DEF Partition, Assignment!Partition

LEMMA ShareOfRank ==
  ASSUME NEW m \in Nat, NEW n \in Nat \ {0}, NEW c \in 0 .. n-1
  PROVE  MySims(m, n, c) \in Nat
BY Assignment!RegionsAreIntervals
   DEF MySims, SimsPerClient, Assignment!MySims, Assignment!SimsPerClient

LEMMA Quotients ==
  ASSUME NEW m \in Nat, NEW n \in Nat \ {0}
  PROVE  /\ m \div n \in Nat
         /\ m % n \in 0 .. n-1
         /\ m = n * (m \div n) + (m % n)
BY Assignment!Division

LEMMA RankZero == 0 \in SimRank /\ 0 \in ClientRank
BY SizesAssumption DEF SimRank, ClientRank

-----------------------------------------------------------------------------
(***************************************************************************)
(* The channels.                                                           *)
(***************************************************************************)

ToSimType == [Clients -> [SimRank -> [ClientRank -> Seq(ToSimMessage)]]]
ToClientType == [Clients -> [ClientRank -> [SimRank -> Seq(ToClientMessage)]]]

LEMMA NestedUpdate ==
  ASSUME NEW A, NEW B, NEW C, NEW T, NEW f \in [A -> [B -> [C -> T]]],
         NEW a \in A, NEW b \in B, NEW c \in C, NEW v \in T
  PROVE  [f EXCEPT ![a][b][c] = v] \in [A -> [B -> [C -> T]]]
<1>1. f[a] \in [B -> [C -> T]] /\ f[a][b] \in [C -> T]
  OBVIOUS
<1>2. [f[a][b] EXCEPT ![c] = v] \in [C -> T]
  BY <1>1
<1>3. [f[a] EXCEPT ![b][c] = v] \in [B -> [C -> T]]
  BY <1>1, <1>2
<1> QED
  BY <1>3

LEMMA EmptyType ==
  ASSUME NEW S
  PROVE  <<>> \in Seq(S)
OBVIOUS

LEMMA TailType ==
  ASSUME NEW S, NEW q \in Seq(S), q # <<>>
  PROVE  Head(q) \in S /\ Tail(q) \in Seq(S)
OBVIOUS

(* The four operations keep the types of the channels; taking a message    *)
(* from a nonempty channel gives one of the declared messages.             *)
LEMMA SendToSimType ==
  ASSUME toSim \in ToSimType, NEW j \in Clients, NEW s \in SimRank,
         NEW c \in ClientRank, NEW m \in ToSimMessage, SendToSim(j, s, c, m)
  PROVE  toSim' \in ToSimType
<1>1. Append(toSim[j][s][c], m) \in Seq(ToSimMessage)
  BY DEF ToSimType
<1> QED
  BY <1>1, NestedUpdate DEF ToSimType, SendToSim

LEMMA SendToClientType ==
  ASSUME toClient \in ToClientType, NEW j, NEW c \in ClientRank,
         NEW s \in SimRank, NEW m \in ToClientMessage, SendToClient(j, c, s, m)
  PROVE  toClient' \in ToClientType
<1>1. CASE j \in Clients
  <2>1. Append(toClient[j][c][s], m) \in Seq(ToClientMessage)
    BY <1>1 DEF ToClientType
  <2> QED
    BY <1>1, <2>1, NestedUpdate DEF ToClientType, SendToClient
<1>2. CASE j \notin Clients
  BY <1>2 DEF ToClientType, SendToClient
<1> QED
  BY <1>1, <1>2

LEMMA ReceiveFromClientType ==
  ASSUME toSim \in ToSimType, NEW j \in Clients, NEW s \in SimRank,
         NEW c \in ClientRank, Ready(j, s, c), ReceiveFromClient(j, s, c)
  PROVE  toSim' \in ToSimType /\ Head(toSim[j][s][c]) \in ToSimMessage
<1>1. toSim[j][s][c] \in Seq(ToSimMessage)
  BY DEF ToSimType
<1>2. /\ Head(toSim[j][s][c]) \in ToSimMessage
      /\ Tail(toSim[j][s][c]) \in Seq(ToSimMessage)
  BY <1>1, TailType DEF Ready
<1> QED
  BY <1>2, NestedUpdate DEF ToSimType, ReceiveFromClient

LEMMA ReceiveFromSimType ==
  ASSUME toClient \in ToClientType, NEW j \in Clients, NEW c \in ClientRank,
         NEW s \in SimRank, toClient[j][c][s] # <<>>, ReceiveFromSim(j, c, s)
  PROVE  toClient' \in ToClientType /\ Head(toClient[j][c][s]) \in ToClientMessage
<1>1. toClient[j][c][s] \in Seq(ToClientMessage)
  BY DEF ToClientType
<1>2. /\ Head(toClient[j][c][s]) \in ToClientMessage
      /\ Tail(toClient[j][c][s]) \in Seq(ToClientMessage)
  BY <1>1, TailType
<1> QED
  BY <1>2, NestedUpdate DEF ToClientType, ReceiveFromSim

-----------------------------------------------------------------------------
(***************************************************************************)
(* Types.  TypeOK is not inductive: a rank that answers a query must be in *)
(* a call of libISProcess, of which there are at most MaxSteps, and a      *)
(* client rank that waits for a region must wait for one that exists.      *)
(***************************************************************************)

StepsLeft == \A s \in SimRank : simPc[s] \in Processing => step[s] < MaxSteps
WaitsForRegion ==
  \A j \in Clients, c \in ClientRank :
    clientPc[j][c] = "waiting" => Unfinished(j, c)
TypeInv == TypeOK /\ StepsLeft /\ WaitsForRegion

(* The rank that an unfinished query contacts next is one that exists. *)
LEMMA NextRegionExists ==
  ASSUME ClientTypeOK, NEW j \in Clients, NEW c \in ClientRank,
         Unfinished(j, c)
  PROVE  NextRegion(j, c) \in SimRank
<1>1. M \in Nat /\ N \in Nat \ {0} /\ c \in 0 .. N-1 /\ SimRank = 0 .. M-1
  BY SizesAssumption DEF ClientRank, SimRank
<1>2. Len(regions[j][c]) \in 0 .. MySims(M, N, c) - 1
  <2>1. Len(regions[j][c]) \in Nat
    BY DEF ClientTypeOK
  <2>2. MySims(M, N, c) \in Nat
    BY <1>1, ShareOfRank
  <2> QED
    BY <2>1, <2>2 DEF Unfinished
<1>3. NextRegion(j, c) \in RegionsOf(M, N, c)
  BY <1>2 DEF NextRegion, RegionsOf
<1>4. Partition(M, N)
  BY <1>1, AssignmentIsPartition
<1> QED
  BY <1>1, <1>3, <1>4 DEF Partition

LEMMA TypeInvInit == Init => TypeInv
<1> SUFFICES ASSUME Init PROVE TypeInv
  OBVIOUS
<1>1. InterCommTypeOK
  BY EmptyType DEF Init, InterCommInit, InterCommTypeOK
<1>2. SimTypeOK
  <2>1. bcast \in [SimRank -> Seq(Entry)]
    BY EmptyType DEF Init, SimInit
  <2>2. /\ simPc \in [SimRank -> SimState]
        /\ step \in [SimRank -> 0 .. MaxSteps]
    BY BoundsAssumption DEF Init, SimInit, SimState
  <2>3. /\ clientPort \in [SimRank -> Clients \cup {NoClient}]
        /\ intercomm \in [SimRank -> Clients \cup {NoClient}]
    BY DEF Init, SimInit
  <2>4. /\ listener \in ListenerState
        /\ exitThread \in BOOLEAN
        /\ newQuery \in BOOLEAN
        /\ clientCommand \in ToSimMessage \cup {"INVALID", "CONNECT", "CLEARED"}
    BY DEF Init, SimInit, ListenerState
  <2>5. readErrors \in 0 .. MaxReadErrors
    BY ReadErrorsAssumption DEF Init, SimInit
  <2> QED
    BY <2>1, <2>2, <2>3, <2>4, <2>5 DEF SimTypeOK
<1>3. ClientTypeOK
  BY DEF Init, ClientInit, ClientTypeOK, ClientState
<1>4. StepsLeft /\ WaitsForRegion
  BY DEF Init, SimInit, ClientInit, StepsLeft, Processing, WaitsForRegion
<1> QED
  BY <1>1, <1>2, <1>3, <1>4 DEF TypeInv, TypeOK

(* The parts of the state that most actions leave alone. *)
LEMMA ClientUnchanged ==
  ASSUME ClientTypeOK, WaitsForRegion, UNCHANGED clientVars
  PROVE  ClientTypeOK' /\ WaitsForRegion'
BY DEF ClientTypeOK, WaitsForRegion, Unfinished, clientVars

LEMMA SimUnchanged ==
  ASSUME SimTypeOK, StepsLeft, UNCHANGED simVars
  PROVE  SimTypeOK' /\ StepsLeft'
BY DEF SimTypeOK, StepsLeft, simVars, listenerVars, queryVars, rankVars

(* The listener thread: StepsLeft is about variables it does not change.   *)
LEMMA ListenerTypes ==
  ASSUME TypeInv, Listener
  PROVE  TypeInv'
<1> USE DEF TypeInv, TypeOK, tcpVars, wireVars, queryVars, rankVars
<1>1. ClientTypeOK' /\ WaitsForRegion'
  BY ClientUnchanged DEF Listener
<1>2. CASE ListenerBind
  BY <1>1, <1>2 DEF ListenerBind, InterCommTypeOK, SimTypeOK, ListenerState, StepsLeft
<1>3. CASE ListenerAccept
  <2>1. accepted' \in Clients /\ backlog' \in Seq(Clients)
    BY <1>3, TailType DEF ListenerAccept, InterCommTypeOK
  <2> QED
    BY <1>1, <1>3, <2>1
       DEF ListenerAccept, InterCommTypeOK, SimTypeOK, ListenerState, StepsLeft
<1>4. CASE ListenerStartRead
  BY <1>1, <1>4 DEF ListenerStartRead, InterCommTypeOK, SimTypeOK, ListenerState, StepsLeft
<1>5. CASE ListenerExit
  BY <1>1, <1>5 DEF ListenerExit, InterCommTypeOK, SimTypeOK, ListenerState, StepsLeft
<1>6. CASE ListenerReadError
  BY <1>1, <1>6, ReadErrorsAssumption
     DEF ListenerReadError, InterCommTypeOK, SimTypeOK, ListenerState, StepsLeft
<1>7. CASE ListenerRead
  BY <1>1, <1>7 DEF ListenerRead, InterCommTypeOK, SimTypeOK, ListenerState, StepsLeft
<1>8. CASE ListenerPublish
  BY <1>1, <1>8, RankZero
     DEF ListenerPublish, AfterPublish, InterCommTypeOK, SimTypeOK, ListenerState, StepsLeft
<1>9. CASE ListenerClose
  BY <1>1, <1>9, EmptyType
     DEF ListenerClose, InterCommTypeOK, SimTypeOK, ListenerState, StepsLeft
<1> QED
  BY <1>2, <1>3, <1>4, <1>5, <1>6, <1>7, <1>8, <1>9 DEF Listener, ListenerNext

(* What the actions of the simulation are made of. *)
CommandType == ToSimMessage \cup {"INVALID", "CONNECT", "CLEARED"}

LEMMA BroadcastType ==
  ASSUME SimTypeOK, NEW cmd \in CommandType \cup {"NONE"}, Broadcast(cmd)
  PROVE  bcast' \in [SimRank -> Seq(Entry)]
<1> DEFINE e == [cmd |-> cmd,
                 port |-> IF cmd = "CONNECT" THEN clientPort[0] ELSE NoClient]
<1>1. e \in Entry
  BY RankZero DEF Entry, SimTypeOK, CommandType
<1> HIDE DEF e
<1>2. \A s \in SimRank : bcast[s] \in Seq(Entry) /\ Append(bcast[s], e) \in Seq(Entry)
  BY <1>1 DEF SimTypeOK
<1> QED
  BY <1>2, RankZero DEF Broadcast, e

LEMMA EntryType ==
  ASSUME SimTypeOK, NEW s \in SimRank, bcast[s] # <<>>
  PROVE  /\ Head(bcast[s]) \in Entry
         /\ [bcast EXCEPT ![s] = Tail(@)] \in [SimRank -> Seq(Entry)]
<1>1. bcast[s] \in Seq(Entry)
  BY DEF SimTypeOK
<1>2. Head(bcast[s]) \in Entry /\ Tail(bcast[s]) \in Seq(Entry)
  BY <1>1, TailType
<1> QED
  BY <1>2 DEF SimTypeOK

LEMMA HandlerType ==
  ASSUME NEW s, NEW cmd
  PROVE  /\ Handler(s, cmd) \in Processing \cup {"threw"}
         /\ Handler(s, cmd) \in SimState
         /\ FinalHandler(s, cmd) \in SimState \ Processing
BY DEF Handler, FinalHandler, Processing, SimState

(* A call of libISProcess that returns is one of the MaxSteps calls. *)
LEMMA ReturnType ==
  ASSUME SimTypeOK, StepsLeft, NEW s \in SimRank, simPc[s] \in Processing,
         Return(s)
  PROVE  /\ simPc' \in [SimRank -> SimState]
         /\ step' \in [SimRank -> 0 .. MaxSteps]
         /\ newQuery' \in BOOLEAN
         /\ clientCommand' \in CommandType
         /\ StepsLeft'
<1>1. step[s] \in 0 .. MaxSteps /\ step[s] < MaxSteps /\ MaxSteps \in Nat
  BY BoundsAssumption DEF StepsLeft, SimTypeOK
<1>2. step[s] + 1 \in 0 .. MaxSteps
  BY <1>1
<1>3. /\ simPc' = [simPc EXCEPT ![s] = "run"]
      /\ step' = [step EXCEPT ![s] = step[s] + 1]
  BY DEF Return
<1>4. /\ newQuery' \in BOOLEAN
      /\ clientCommand' \in CommandType
  BY DEF Return, ForgottenQuery, SimTypeOK, CommandType
<1>5. /\ simPc' \in [SimRank -> SimState]
      /\ step' \in [SimRank -> 0 .. MaxSteps]
  BY <1>2, <1>3 DEF SimTypeOK, SimState
<1>6. StepsLeft'
  BY <1>3 DEF StepsLeft, SimTypeOK, Processing
<1> QED
  BY <1>4, <1>5, <1>6

(* process() goes on only while there are steps left. *)
LEMMA ProcessType ==
  ASSUME SimTypeOK, StepsLeft, NEW s \in SimRank, InLoop(s),
         NEW pc \in Processing \cup {"threw"},
         simPc' = [simPc EXCEPT ![s] = pc], UNCHANGED step
  PROVE  simPc' \in [SimRank -> SimState] /\ StepsLeft'
BY DEF SimTypeOK, StepsLeft, InLoop, Processing, SimState

(* Leaving one of the other states of the destructor. *)
LEMMA FinalType ==
  ASSUME SimTypeOK, StepsLeft, NEW s \in SimRank,
         NEW pc \in SimState \ Processing,
         simPc' = [simPc EXCEPT ![s] = pc], UNCHANGED step
  PROVE  simPc' \in [SimRank -> SimState] /\ StepsLeft'
BY DEF SimTypeOK, StepsLeft, Processing, SimState

(* handleQuery on any rank. *)
LEMMA HandleQueryTypes ==
  ASSUME TypeInv, UNCHANGED clientVars, NEW s \in SimRank, HandleQuery(s)
  PROVE  TypeInv'
<1> USE DEF TypeInv, TypeOK, tcpVars, listenerVars
<1>1. ClientTypeOK' /\ WaitsForRegion'
  BY ClientUnchanged
<1>2. simPc[s] \in Processing
  BY DEF HandleQuery, Processing
<1>3. PICK c \in ClientRank :
        /\ intercomm[s] # NoClient
        /\ Ready(intercomm[s], s, c)
        /\ ReceiveFromClient(intercomm[s], s, c)
        /\ SendToClient(intercomm[s], c, s, RegionMessage(s, Timestep(s)))
  BY DEF HandleQuery
<1>4. intercomm[s] \in Clients
  BY <1>3 DEF SimTypeOK
<1>5. RegionMessage(s, Timestep(s)) \in ToClientMessage
  <2>1. step[s] \in 0 .. MaxSteps - 1
    BY <1>2, BoundsAssumption DEF StepsLeft, SimTypeOK
  <2> QED
    BY <2>1 DEF RegionMessage, Timestep, ToClientMessage, RegionMessages
<1>6. toSim' \in ToSimType
  BY <1>3, <1>4, ReceiveFromClientType DEF InterCommTypeOK, ToSimType
<1>7. toClient' \in ToClientType
  BY <1>3, <1>5, SendToClientType DEF InterCommTypeOK, ToClientType
<1> QED
  BY <1>1, <1>2, <1>6, <1>7, ReturnType
     DEF HandleQuery, InterCommTypeOK, SimTypeOK, ToSimType, ToClientType, CommandType

(* Rank 0 of the simulation. *)
LEMMA RootTypes ==
  ASSUME TypeInv, RootNext, UNCHANGED clientVars
  PROVE  TypeInv'
<1> USE DEF TypeInv, TypeOK, tcpVars, wireVars, listenerVars, queryVars
<1>1. ClientTypeOK' /\ WaitsForRegion'
  BY ClientUnchanged
<1>2. 0 \in SimRank /\ 0 \in ClientRank
  BY RankZero
<1>3. CASE ProcessIdle
  <2>1. bcast' \in [SimRank -> Seq(Entry)]
    BY <1>3, BroadcastType DEF ProcessIdle
  <2>2. step' \in [SimRank -> 0 .. MaxSteps] /\ StepsLeft'
    BY <1>2, <1>3, BoundsAssumption
       DEF ProcessIdle, InLoop, SimTypeOK, StepsLeft, Processing
  <2> QED
    BY <1>1, <1>3, <2>1, <2>2 DEF ProcessIdle, InterCommTypeOK, SimTypeOK
<1>4. CASE ProcessNewQuery
  <2>1. bcast' \in [SimRank -> Seq(Entry)]
    BY <1>4, BroadcastType DEF ProcessNewQuery, SimTypeOK, CommandType
  <2>2. simPc' \in [SimRank -> SimState] /\ StepsLeft'
    BY <1>2, <1>4, ProcessType, HandlerType DEF ProcessNewQuery
  <2> QED
    BY <1>1, <1>4, <2>1, <2>2 DEF ProcessNewQuery, InterCommTypeOK, SimTypeOK
<1>5. ASSUME NEW j \in Clients, ProcessClientCommand(j)
      PROVE  TypeInv'
  <2> DEFINE cmd == Head(toSim[j][0][0])
  <2>1. toSim' \in ToSimType /\ cmd \in ToSimMessage
    BY <1>2, <1>5, ReceiveFromClientType
       DEF ProcessClientCommand, InterCommTypeOK, ToSimType
  <2>2. toClient' \in ToClientType
    <3>1. QuitMessage(FALSE) \in ToClientMessage
      BY DEF ToClientMessage, QuitMessages
    <3> QED
      BY <1>2, <1>5, <3>1, SendToClientType
         DEF ProcessClientCommand, Continue, InterCommTypeOK, ToClientType
  <2>3. bcast' \in [SimRank -> Seq(Entry)]
    BY <1>5, <2>1, BroadcastType DEF ProcessClientCommand, CommandType
  <2>4. simPc' \in [SimRank -> SimState] /\ StepsLeft'
    BY <1>2, <1>5, ProcessType, HandlerType DEF ProcessClientCommand
  <2> QED
    BY <1>1, <1>5, <2>1, <2>2, <2>3, <2>4
       DEF ProcessClientCommand, InterCommTypeOK, SimTypeOK, ToSimType, ToClientType
<1>6. CASE Greet
  <2>1. toClient' \in ToClientType
    <3>1. QuitMessage(FALSE) \in ToClientMessage
      BY DEF ToClientMessage, QuitMessages
    <3> QED
      BY <1>2, <1>6, <3>1, SendToClientType DEF Greet, InterCommTypeOK, ToClientType
  <2>2. simPc[0] \in Processing
    BY <1>6 DEF Greet, Processing
  <2> QED
    BY <1>1, <1>2, <1>6, <2>1, <2>2, ReturnType
       DEF Greet, InterCommTypeOK, SimTypeOK, ToClientType, CommandType
<1>7. CASE Rejoin
  <2>1. simPc[0] \in Processing
    BY <1>7 DEF Rejoin, Processing
  <2> QED
    BY <1>1, <1>2, <1>7, <2>1, ReturnType
       DEF Rejoin, InterCommTypeOK, SimTypeOK, CommandType, ListenerState
<1>8. CASE Finalize
  <2>1. simPc' \in [SimRank -> SimState] /\ StepsLeft'
    BY <1>2, <1>8, FinalType DEF Finalize, SimState, Processing
  <2> QED
    BY <1>1, <1>8, <2>1 DEF Finalize, InterCommTypeOK, SimTypeOK
<1>9. CASE FinalJoin
  <2>1. bcast' \in [SimRank -> Seq(Entry)]
    BY <1>9, BroadcastType DEF FinalJoin, SimTypeOK, CommandType
  <2>2. simPc' \in [SimRank -> SimState] /\ StepsLeft'
    <3>1. "finRecv" \in SimState \ Processing
      BY DEF SimState, Processing
    <3> QED
      BY <1>2, <1>9, <3>1, FinalType, HandlerType DEF FinalJoin
  <2> QED
    BY <1>1, <1>9, <2>1, <2>2 DEF FinalJoin, InterCommTypeOK, SimTypeOK
<1>10. ASSUME NEW j \in Clients, FinalReceive(j)
       PROVE  TypeInv'
  <2> DEFINE cmd == Head(toSim[j][0][0])
  <2>1. toSim' \in ToSimType /\ cmd \in ToSimMessage
    BY <1>2, <1>10, ReceiveFromClientType
       DEF FinalReceive, InterCommTypeOK, ToSimType
  <2>2. bcast' \in [SimRank -> Seq(Entry)]
    BY <1>10, <2>1, BroadcastType DEF FinalReceive, CommandType
  <2>3. simPc' \in [SimRank -> SimState] /\ StepsLeft'
    BY <1>2, <1>10, FinalType, HandlerType DEF FinalReceive
  <2> QED
    BY <1>1, <1>10, <2>1, <2>2, <2>3
       DEF FinalReceive, InterCommTypeOK, SimTypeOK, ToSimType
<1>11. CASE FinalGreet
  <2>1. toClient' \in ToClientType
    <3>1. QuitMessage(TRUE) \in ToClientMessage
      BY DEF ToClientMessage, QuitMessages
    <3> QED
      BY <1>2, <1>11, <3>1, SendToClientType
         DEF FinalGreet, InterCommTypeOK, ToClientType
  <2>2. simPc' \in [SimRank -> SimState] /\ StepsLeft'
    <3>1. "finDrop" \in SimState \ Processing
      BY DEF SimState, Processing
    <3> QED
      BY <1>2, <1>11, <3>1, FinalType DEF FinalGreet
  <2> QED
    BY <1>1, <1>11, <2>1, <2>2
       DEF FinalGreet, InterCommTypeOK, SimTypeOK, ToClientType
<1>12. ASSUME HandleQuery(0) PROVE TypeInv'
  BY <1>2, <1>12, HandleQueryTypes
<1> QED
  BY <1>3, <1>4, <1>5, <1>6, <1>7, <1>8, <1>9, <1>10, <1>11, <1>12 DEF RootNext

(* The ranks that follow rank 0. *)
LEMMA OtherTypes ==
  ASSUME TypeInv, UNCHANGED clientVars, NEW s \in SimRank, OtherNext(s)
  PROVE  TypeInv'
<1> USE DEF TypeInv, TypeOK, tcpVars, wireVars, listenerVars, queryVars
<1>1. ClientTypeOK' /\ WaitsForRegion'
  BY ClientUnchanged
<1>2. CASE ProcessOther(s)
  <2> DEFINE e == Head(bcast[s])
  <2>1. e \in Entry /\ bcast' \in [SimRank -> Seq(Entry)]
    BY <1>2, EntryType DEF ProcessOther
  <2>2. clientPort' \in [SimRank -> Clients \cup {NoClient}]
    BY <1>2, <2>1 DEF ProcessOther, SimTypeOK, Entry
  <2>3. simPc' \in [SimRank -> SimState] /\ step' \in [SimRank -> 0 .. MaxSteps]
          /\ StepsLeft'
    <3>1. CASE e.cmd = "NONE"
      BY <1>2, <3>1, BoundsAssumption
         DEF ProcessOther, InLoop, SimTypeOK, StepsLeft, Processing
    <3>2. CASE e.cmd # "NONE"
      <4>1. simPc' = [simPc EXCEPT ![s] = Handler(s, e.cmd)] /\ UNCHANGED step
        BY <1>2, <3>2 DEF ProcessOther
      <4> QED
        BY <1>2, <4>1, ProcessType, HandlerType DEF ProcessOther, SimTypeOK
    <3> QED
      BY <3>1, <3>2
  <2> QED
    BY <1>1, <1>2, <2>1, <2>2, <2>3
       DEF ProcessOther, InterCommTypeOK, SimTypeOK
<1>3. CASE HandleQuery(s)
  BY <1>3, HandleQueryTypes
<1>4. CASE FinalOther(s)
  <2> DEFINE e == Head(bcast[s])
  <2>1. e \in Entry /\ bcast' \in [SimRank -> Seq(Entry)]
    BY <1>4, EntryType DEF FinalOther
  <2>2. clientPort' \in [SimRank -> Clients \cup {NoClient}]
    BY <1>4, <2>1 DEF FinalOther, SimTypeOK, Entry
  <2>3. simPc' \in [SimRank -> SimState] /\ StepsLeft'
    BY <1>4, FinalType, HandlerType DEF FinalOther
  <2> QED
    BY <1>1, <1>4, <2>1, <2>2, <2>3 DEF FinalOther, InterCommTypeOK, SimTypeOK
<1> QED
  BY <1>2, <1>3, <1>4 DEF OtherNext

(* InterComm::connect and the end of an intercommunicator, on the          *)
(* simulation's side.                                                      *)
LEMMA ConnectedTypes ==
  ASSUME SimTypeOK, StepsLeft, NEW j \in Clients,
         \A s \in SimRank : ConnectingTo(s, j), Connected(j)
  PROVE  SimTypeOK' /\ StepsLeft'
<1>1. intercomm' \in [SimRank -> Clients \cup {NoClient}]
  BY DEF Connected
<1>2. simPc' \in [SimRank -> SimState]
  BY DEF Connected, SimState
<1>3. ASSUME NEW s \in SimRank
      PROVE  /\ step'[s] \in 0 .. MaxSteps
             /\ simPc'[s] \in Processing => step'[s] < MaxSteps
  <2>1. /\ simPc'[s] = IF simPc[s] = "finConnect"
                       THEN IF s = 0 THEN "finGreet" ELSE "finDrop"
                       ELSE IF s = 0 THEN "greet" ELSE "run"
        /\ step'[s] = IF s # 0 /\ simPc[s] = "connect"
                      THEN step[s] + 1 ELSE step[s]
    BY <1>3 DEF Connected
  <2>2. step[s] \in 0 .. MaxSteps /\ MaxSteps \in Nat
    BY <1>3, BoundsAssumption DEF SimTypeOK
  <2>3. simPc[s] = "connect" => step[s] < MaxSteps
    BY <1>3 DEF StepsLeft, Processing
  <2>4. simPc[s] \in {"connect", "finConnect"}
    BY <1>3 DEF ConnectingTo
  <2> QED
    BY <2>1, <2>2, <2>3, <2>4 DEF Processing
<1>4. step' \in [SimRank -> 0 .. MaxSteps]
  <2>1. step' = [s \in SimRank |-> step'[s]]
    BY DEF Connected
  <2> QED
    BY <1>3, <2>1
<1> QED
  BY <1>1, <1>2, <1>3, <1>4
     DEF Connected, SimTypeOK, StepsLeft, listenerVars, queryVars

LEMMA DroppedTypes ==
  ASSUME SimTypeOK, StepsLeft, NEW R \in SUBSET SimRank,
         \A s \in R : simPc[s] \in {"drop", "finDrop"}, Dropped(R)
  PROVE  SimTypeOK' /\ StepsLeft'
<1>1. intercomm' \in [SimRank -> Clients \cup {NoClient}]
  BY DEF Dropped, SimTypeOK
<1>2. simPc' \in [SimRank -> SimState]
  BY DEF Dropped, SimState, SimTypeOK
<1>3. ASSUME NEW s \in SimRank
      PROVE  /\ step'[s] \in 0 .. MaxSteps
             /\ simPc'[s] \in Processing => step'[s] < MaxSteps
  <2>1. /\ simPc'[s] = IF s \notin R THEN simPc[s]
                       ELSE IF simPc[s] = "finDrop" THEN "gone"
                       ELSE IF s = 0 THEN "rejoin" ELSE "run"
        /\ step'[s] = IF s \in R \ {0} /\ simPc[s] = "drop"
                      THEN step[s] + 1 ELSE step[s]
    BY <1>3 DEF Dropped
  <2>2. step[s] \in 0 .. MaxSteps /\ MaxSteps \in Nat
    BY <1>3, BoundsAssumption DEF SimTypeOK
  <2>3. simPc[s] \in Processing => step[s] < MaxSteps
    BY <1>3 DEF StepsLeft
  <2>4. s \in R => simPc[s] \in {"drop", "finDrop"}
    OBVIOUS
  <2> QED
    BY <2>1, <2>2, <2>3, <2>4 DEF Processing
<1>4. step' \in [SimRank -> 0 .. MaxSteps]
  <2>1. step' = [s \in SimRank |-> step'[s]]
    BY DEF Dropped
  <2> QED
    BY <1>3, <2>1
<1> QED
  BY <1>1, <1>2, <1>3, <1>4
     DEF Dropped, SimTypeOK, StepsLeft, listenerVars, queryVars

LEMMA DropAloneTypes ==
  ASSUME TypeInv, NEW s \in SimRank, DropAlone(s)
  PROVE  TypeInv'
<1> USE DEF TypeInv, TypeOK, tcpVars, wireVars
<1>1. ClientTypeOK' /\ WaitsForRegion'
  BY ClientUnchanged DEF DropAlone
<1>2. simPc[s] \in {"drop", "finDrop"} /\ Dropped({s})
  BY DEF DropAlone, Dropping
<1>3. SimTypeOK' /\ StepsLeft'
  BY <1>2, DroppedTypes
<1> QED
  BY <1>1, <1>3 DEF DropAlone, InterCommTypeOK

(* A client moves one rank, or all its ranks together. *)
LEMMA GoToType ==
  ASSUME ClientTypeOK, WaitsForRegion, NEW j \in Clients, NEW c \in ClientRank,
         NEW pc \in ClientState, pc = "waiting" => Unfinished(j, c),
         GoTo(j, c, pc), UNCHANGED regions
  PROVE  /\ clientPc' \in [Clients -> [ClientRank -> ClientState]]
         /\ WaitsForRegion'
BY DEF ClientTypeOK, WaitsForRegion, Unfinished, GoTo

LEMMA AllGoToType ==
  ASSUME ClientTypeOK, WaitsForRegion, NEW j \in Clients,
         NEW pc \in ClientState \ {"waiting"}, AllGoTo(j, pc),
         \A i \in Clients \ {j} : regions'[i] = regions[i]
  PROVE  /\ clientPc' \in [Clients -> [ClientRank -> ClientState]]
         /\ WaitsForRegion'
BY DEF ClientTypeOK, WaitsForRegion, Unfinished, AllGoTo

LEMMA LeftType ==
  ASSUME ClientTypeOK, WaitsForRegion, NEW j \in Clients, NEW R, Left(j, R)
  PROVE  ClientTypeOK' /\ WaitsForRegion'
BY DEF ClientTypeOK, WaitsForRegion, Unfinished, Left, ClientState

LEMMA ClientTypes ==
  ASSUME TypeInv, NEW j \in Clients, ClientNext(j), UNCHANGED simVars
  PROVE  TypeInv'
<1> USE DEF TypeInv, TypeOK, tcpVars, wireVars
<1>1. SimTypeOK' /\ StepsLeft'
  BY SimUnchanged
<1>2. 0 \in SimRank /\ 0 \in ClientRank
  BY RankZero
<1>3. CASE TcpConnect(j)
  <2>1. backlog' \in Seq(Clients)
    BY <1>3 DEF TcpConnect, InterCommTypeOK
  <2>2. clientPc' \in [Clients -> [ClientRank -> ClientState]] /\ WaitsForRegion'
    BY <1>2, <1>3, GoToType DEF TcpConnect, ClientState
  <2> QED
    BY <1>1, <1>3, <2>1, <2>2 DEF TcpConnect, InterCommTypeOK, ClientTypeOK
<1>4. CASE TcpRefused(j)
  <2>1. clientPc' \in [Clients -> [ClientRank -> ClientState]] /\ WaitsForRegion'
    BY <1>2, <1>4, GoToType DEF TcpRefused, ClientState
  <2> QED
    BY <1>1, <1>4, <2>1 DEF TcpRefused, InterCommTypeOK, ClientTypeOK
<1>5. CASE SendHello(j)
  <2>1. clientPc' \in [Clients -> [ClientRank -> ClientState]] /\ WaitsForRegion'
    BY <1>2, <1>5, GoToType DEF SendHello, ClientState
  <2> QED
    BY <1>1, <1>5, <2>1 DEF SendHello, InterCommTypeOK, ClientTypeOK
<1>6. CASE SendHelloFails(j)
  <2>1. clientPc' \in [Clients -> [ClientRank -> ClientState]] /\ WaitsForRegion'
    BY <1>2, <1>6, GoToType DEF SendHelloFails, ClientState
  <2> QED
    BY <1>1, <1>6, <2>1 DEF SendHelloFails, InterCommTypeOK, ClientTypeOK
<1>7. CASE ConnectSync(j)
  <2>1. clientPc' \in [Clients -> [ClientRank -> ClientState]] /\ WaitsForRegion'
    BY <1>7, AllGoToType DEF ConnectSync, ClientState
  <2> QED
    BY <1>1, <1>7, <2>1 DEF ConnectSync, InterCommTypeOK, ClientTypeOK
<1>8. CASE Greeted(j)
  <2>1. toClient' \in ToClientType
    BY <1>2, <1>8, ReceiveFromSimType DEF Greeted, InterCommTypeOK, ToClientType
  <2>2. clientPc' \in [Clients -> [ClientRank -> ClientState]] /\ WaitsForRegion'
    BY <1>8, AllGoToType DEF Greeted, ClientState
  <2>3. simQuit' \in [Clients -> BOOLEAN]
    BY <1>8 DEF Greeted, ClientTypeOK
  <2> QED
    BY <1>1, <1>8, <2>1, <2>2, <2>3
       DEF Greeted, InterCommTypeOK, ClientTypeOK, ToClientType
<1>9. ASSUME NEW cmd \in Command, SendCommand(j, cmd)
      PROVE  TypeInv'
  <2>1. toSim' \in ToSimType
    BY <1>2, <1>9, SendToSimType
       DEF SendCommand, InterCommTypeOK, ToSimType, ToSimMessage
  <2>2. clientPc' \in [Clients -> [ClientRank -> ClientState]] /\ WaitsForRegion'
    BY <1>2, <1>9, GoToType DEF SendCommand, ClientState
  <2> QED
    BY <1>1, <1>9, <2>1, <2>2
       DEF SendCommand, InterCommTypeOK, ClientTypeOK, ToSimType
<1>10. CASE CommandReply(j)
  <2>1. toClient' \in ToClientType
    BY <1>2, <1>10, ReceiveFromSimType
       DEF CommandReply, InterCommTypeOK, ToClientType
  <2>2. regions' \in [Clients -> [ClientRank -> Seq(ToClientMessage)]]
    BY <1>10, EmptyType DEF CommandReply, ClientTypeOK
  <2>3. clientPc' \in [Clients -> [ClientRank -> ClientState]] /\ WaitsForRegion'
    BY <1>10, AllGoToType DEF CommandReply, ClientState, ClientTypeOK
  <2>4. simQuit' \in [Clients -> BOOLEAN]
    BY <1>10 DEF CommandReply, ClientTypeOK
  <2> QED
    BY <1>1, <1>10, <2>1, <2>2, <2>3, <2>4
       DEF CommandReply, InterCommTypeOK, ClientTypeOK, ToClientType
<1>11. ASSUME NEW c \in ClientRank, Ping(j, c)
       PROVE  TypeInv'
  <2>1. toSim' \in ToSimType
    BY <1>11, SendToSimType, NextRegionExists
       DEF Ping, InterCommTypeOK, ToSimType, ToSimMessage
  <2>2. clientPc' \in [Clients -> [ClientRank -> ClientState]] /\ WaitsForRegion'
    BY <1>11, GoToType DEF Ping, ClientState
  <2> QED
    BY <1>1, <1>11, <2>1, <2>2
       DEF Ping, InterCommTypeOK, ClientTypeOK, ToSimType
<1>12. ASSUME NEW c \in ClientRank, ReceiveRegion(j, c)
       PROVE  TypeInv'
  <2> DEFINE s == NextRegion(j, c)
  <2>1. s \in SimRank
    BY <1>12, NextRegionExists DEF ReceiveRegion, WaitsForRegion
  <2>2. toClient' \in ToClientType /\ Head(toClient[j][c][s]) \in ToClientMessage
    BY <1>12, <2>1, ReceiveFromSimType
       DEF ReceiveRegion, InterCommTypeOK, ToClientType
  <2>3. /\ regions' = [regions EXCEPT ![j][c] = Append(@, Head(toClient[j][c][s]))]
        /\ clientPc' = [clientPc EXCEPT ![j][c] = "fetching"]
    BY <1>12 DEF ReceiveRegion, GoTo
  <2> HIDE DEF s
  <2>4. regions' \in [Clients -> [ClientRank -> Seq(ToClientMessage)]]
    <3>1. regions[j][c] \in Seq(ToClientMessage)
      BY DEF ClientTypeOK
    <3>2. Append(regions[j][c], Head(toClient[j][c][s])) \in Seq(ToClientMessage)
      BY <2>2, <3>1
    <3> QED
      BY <2>3, <3>2 DEF ClientTypeOK
  <2>5. clientPc' \in [Clients -> [ClientRank -> ClientState]]
    BY <2>3 DEF ClientTypeOK, ClientState
  <2>6. WaitsForRegion'
    BY <2>3 DEF WaitsForRegion, Unfinished, ClientTypeOK
  <2> QED
    BY <1>1, <1>12, <2>2, <2>4, <2>5, <2>6
       DEF ReceiveRegion, InterCommTypeOK, ClientTypeOK, ToClientType
<1>13. CASE QueryReturn(j)
  <2> DEFINE answer == UNION {{regions[j][c][i] : i \in DOMAIN regions[j][c]} :
                                c \in ClientRank}
  <2>1. answer \in SUBSET ToClientMessage
    BY DEF ClientTypeOK
  <2>2. answered' = [answered EXCEPT ![j] = Append(@, answer)]
    BY <1>13 DEF QueryReturn
  <2> HIDE DEF answer
  <2>3. answered' \in [Clients -> Seq(SUBSET ToClientMessage)]
    BY <2>1, <2>2 DEF ClientTypeOK
  <2>4. clientPc' \in [Clients -> [ClientRank -> ClientState]] /\ WaitsForRegion'
    BY <1>13, AllGoToType DEF QueryReturn, ClientState
  <2> QED
    BY <1>1, <1>13, <2>3, <2>4 DEF QueryReturn, InterCommTypeOK, ClientTypeOK
<1> QED
  BY <1>3, <1>4, <1>5, <1>6, <1>7, <1>8, <1>9, <1>10, <1>11, <1>12, <1>13
     DEF ClientNext

LEMMA LeaveAloneTypes ==
  ASSUME TypeInv, NEW j \in Clients, NEW c \in ClientRank, LeaveAlone(j, c)
  PROVE  TypeInv'
<1> USE DEF TypeInv, TypeOK, tcpVars, wireVars
<1>1. SimTypeOK' /\ StepsLeft'
  BY SimUnchanged DEF LeaveAlone
<1>2. ClientTypeOK' /\ WaitsForRegion'
  BY LeftType DEF LeaveAlone
<1> QED
  BY <1>1, <1>2 DEF LeaveAlone, InterCommTypeOK

LEMMA TogetherTypes ==
  ASSUME TypeInv, NEW j \in Clients, Together(j)
  PROVE  TypeInv'
<1> USE DEF TypeInv, TypeOK, tcpVars, wireVars
<1>1. CASE Establish(j)
  <2>1. SimTypeOK' /\ StepsLeft'
    BY <1>1, ConnectedTypes DEF Establish
  <2>2. clientPc' \in [Clients -> [ClientRank -> ClientState]] /\ WaitsForRegion'
    BY <1>1, AllGoToType DEF Establish, ClientState
  <2> QED
    BY <1>1, <2>1, <2>2 DEF Establish, InterCommTypeOK, ClientTypeOK
<1>2. CASE DisconnectTogether(j)
  <2>1. SimTypeOK' /\ StepsLeft'
    BY <1>2, DroppedTypes DEF DisconnectTogether, Dropping
  <2>2. ClientTypeOK' /\ WaitsForRegion'
    BY <1>2, LeftType DEF DisconnectTogether
  <2> QED
    BY <1>2, <2>1, <2>2 DEF DisconnectTogether, InterCommTypeOK
<1> QED
  BY <1>1, <1>2 DEF Together

LEMMA TypeInvUnchanged == TypeInv /\ UNCHANGED vars => TypeInv'
<1> SUFFICES ASSUME TypeInv, UNCHANGED vars PROVE TypeInv'
  OBVIOUS
<1> USE DEF TypeInv, TypeOK, vars, tcpVars, wireVars
<1>1. ClientTypeOK' /\ WaitsForRegion'
  BY ClientUnchanged
<1>2. SimTypeOK' /\ StepsLeft'
  BY SimUnchanged
<1> QED
  BY <1>1, <1>2 DEF InterCommTypeOK

LEMMA TypeInvNext == TypeInv /\ [Next]_vars => TypeInv'
<1> SUFFICES ASSUME TypeInv, [Next]_vars PROVE TypeInv'
  OBVIOUS
<1>1. CASE Listener
  BY <1>1, ListenerTypes
<1>2. CASE Root
  BY <1>2, RootTypes, DropAloneTypes, RankZero DEF Root
<1>3. ASSUME NEW s \in SimRank \ {0}, Other(s)
      PROVE  TypeInv'
  BY <1>3, OtherTypes, DropAloneTypes DEF Other
<1>4. ASSUME NEW j \in Clients, Client(j)
      PROVE  TypeInv'
  BY <1>4, ClientTypes, LeaveAloneTypes DEF Client
<1>5. ASSUME NEW j \in Clients, Together(j)
      PROVE  TypeInv'
  BY <1>5, TogetherTypes
<1>6. CASE Done
  BY <1>6, TypeInvUnchanged DEF Done
<1>7. CASE UNCHANGED vars
  BY <1>7, TypeInvUnchanged
<1> QED
  BY <1>1, <1>2, <1>3, <1>4, <1>5, <1>6, <1>7 DEF Next

(* The state is always of its type.  In particular the timestep a rank     *)
(* sends (is_sim.cpp, line 287) is one of a call of libISProcess, and the  *)
(* rank that a client waits for (is_client.cpp, line 110) exists.          *)
THEOREM TypeCorrect == Spec => []TypeOK
<1>1. Init => TypeInv
  BY TypeInvInit
<1>2. TypeInv /\ [Next]_vars => TypeInv'
  BY TypeInvNext
<1>3. TypeInv => TypeOK
  BY DEF TypeInv
<1> QED
  BY <1>1, <1>2, <1>3, PTL DEF Spec

-----------------------------------------------------------------------------
(***************************************************************************)
(* The listener thread is out of the way.  ListenerQuiet is not inductive: *)
(* what it says of a connected client must already hold when rank 0 has    *)
(* taken up the command that will connect it, and it must survive until    *)
(* disconnectClient has joined the thread - by then the intercommunicator  *)
(* is gone.                                                                *)
(***************************************************************************)

Busy == newQuery \/ intercomm[0] # NoClient \/ simPc[0] \notin {"run", "finJoin"}
QuietInv ==
  /\ Busy => listener \in {"closing", "ended"}
  /\ simPc[0] = "rejoin" => intercomm[0] = NoClient

LEMMA QuietInit == Init => QuietInv
BY RankZero DEF Init, SimInit, QuietInv, Busy

LEMMA QuietListener == TypeInv /\ QuietInv /\ Listener => QuietInv'
BY DEF Listener, ListenerNext, ListenerBind, ListenerAccept, ListenerStartRead,
       ListenerExit, ListenerReadError, ListenerRead, ListenerPublish,
       AfterPublish, ListenerClose, queryVars, rankVars, QuietInv, Busy

(* Actions of the simulation that leave the listener alone and are taken   *)
(* while it is quiet.                                                      *)
LEMMA StaysQuiet ==
  ASSUME QuietInv, Busy, listener' = listener,
         simPc'[0] = "rejoin" => intercomm'[0] = NoClient
  PROVE  QuietInv'
BY DEF QuietInv

LEMMA HandlerNotRejoin ==
  ASSUME NEW s, NEW cmd
  PROVE  Handler(s, cmd) # "rejoin" /\ FinalHandler(s, cmd) # "rejoin"
BY DEF Handler, FinalHandler

LEMMA QuietRoot ==
  ASSUME TypeInv, QuietInv, RootNext
  PROVE  QuietInv'
<1> USE DEF listenerVars, queryVars
<1>1. 0 \in SimRank /\ DOMAIN simPc = SimRank
  BY RankZero DEF TypeInv, TypeOK, SimTypeOK
<1>2. CASE ProcessIdle
  BY <1>2 DEF ProcessIdle, QuietInv, Busy
<1>3. CASE ProcessNewQuery
  BY <1>1, <1>3, StaysQuiet, HandlerNotRejoin DEF ProcessNewQuery, Busy
<1>4. ASSUME NEW j \in Clients, ProcessClientCommand(j)
      PROVE  QuietInv'
  <2>1. Busy
    BY <1>4, ClientsAssumption DEF ProcessClientCommand, Busy
  <2> QED
    BY <1>1, <1>4, <2>1, StaysQuiet, HandlerNotRejoin DEF ProcessClientCommand
<1>5. CASE Greet
  BY <1>1, <1>5, StaysQuiet DEF Greet, Return, Busy
<1>6. CASE HandleQuery(0)
  BY <1>1, <1>6, StaysQuiet DEF HandleQuery, Return, Busy
<1>7. CASE Rejoin
  BY <1>1, <1>7 DEF Rejoin, Return, ForgottenQuery, QuietInv, Busy
<1>8. CASE Finalize
  BY <1>1, <1>8 DEF Finalize, QuietInv, Busy
<1>9. CASE FinalJoin
  <2>1. simPc'[0] # "rejoin"
    BY <1>1, <1>9, HandlerNotRejoin DEF FinalJoin
  <2> QED
    BY <1>9, <2>1 DEF FinalJoin, QuietInv
<1>10. ASSUME NEW j \in Clients, FinalReceive(j)
       PROVE  QuietInv'
  <2>1. Busy
    BY <1>10 DEF FinalReceive, Busy
  <2> QED
    BY <1>1, <1>10, <2>1, StaysQuiet, HandlerNotRejoin DEF FinalReceive
<1>11. CASE FinalGreet
  BY <1>1, <1>11, StaysQuiet DEF FinalGreet, Busy
<1> QED
  BY <1>2, <1>3, <1>4, <1>5, <1>6, <1>7, <1>8, <1>9, <1>10, <1>11 DEF RootNext

LEMMA QuietOther ==
  ASSUME TypeInv, QuietInv, NEW s \in SimRank \ {0}, OtherNext(s)
  PROVE  QuietInv'
<1>1. simPc'[0] = simPc[0]
  BY RankZero
     DEF OtherNext, ProcessOther, HandleQuery, FinalOther, Return, TypeInv,
         TypeOK, SimTypeOK
<1>2. UNCHANGED <<listener, newQuery, intercomm>>
  BY DEF OtherNext, ProcessOther, HandleQuery, FinalOther, Return, listenerVars,
         queryVars
<1> QED
  BY <1>1, <1>2 DEF QuietInv, Busy

LEMMA QuietDropped ==
  ASSUME QuietInv, NEW R, 0 \in R => simPc[0] \in {"drop", "finDrop"}, Dropped(R)
  PROVE  QuietInv'
<1>1. UNCHANGED <<listener, newQuery>>
  BY DEF Dropped, listenerVars, queryVars
<1>2. CASE 0 \in R
  <2>1. Busy /\ intercomm'[0] = NoClient
    BY <1>2, RankZero DEF Dropped, Busy
  <2> QED
    BY <1>1, <2>1, StaysQuiet
<1>3. CASE 0 \notin R
  <2>1. simPc'[0] = simPc[0] /\ intercomm'[0] = intercomm[0]
    BY <1>3, RankZero DEF Dropped
  <2> QED
    BY <1>1, <2>1 DEF QuietInv, Busy
<1> QED
  BY <1>2, <1>3

LEMMA QuietTogether ==
  ASSUME QuietInv, NEW j \in Clients, Together(j)
  PROVE  QuietInv'
<1>1. CASE Establish(j)
  <2>1. Busy
    BY <1>1, RankZero DEF Establish, ConnectingTo, Busy
  <2>2. listener' = listener /\ simPc'[0] # "rejoin"
    BY <1>1, RankZero DEF Establish, Connected, listenerVars
  <2> QED
    BY <2>1, <2>2, StaysQuiet
<1>2. CASE DisconnectTogether(j)
  BY <1>2, RankZero, QuietDropped DEF DisconnectTogether, Dropping
<1> QED
  BY <1>1, <1>2 DEF Together

LEMMA QuietNext == TypeInv /\ QuietInv /\ [Next]_vars => QuietInv'
<1> SUFFICES ASSUME TypeInv, QuietInv, [Next]_vars PROVE QuietInv'
  OBVIOUS
<1>1. CASE Listener
  BY <1>1, QuietListener
<1>2. ASSUME NEW s \in SimRank, DropAlone(s)
      PROVE  QuietInv'
  BY <1>2, QuietDropped DEF DropAlone, Dropping
<1>3. CASE Root
  BY <1>2, <1>3, QuietRoot, RankZero DEF Root
<1>4. ASSUME NEW s \in SimRank \ {0}, Other(s)
      PROVE  QuietInv'
  BY <1>2, <1>4, QuietOther DEF Other
<1>5. ASSUME NEW j \in Clients, Client(j)
      PROVE  QuietInv'
  <2>1. UNCHANGED simVars
    BY <1>5 DEF Client, LeaveAlone
  <2>2. UNCHANGED <<listener, newQuery, intercomm, simPc>>
    BY <2>1 DEF simVars, listenerVars, queryVars, rankVars
  <2> QED
    BY <2>2 DEF QuietInv, Busy
<1>6. ASSUME NEW j \in Clients, Together(j)
      PROVE  QuietInv'
  BY <1>6, QuietTogether
<1>7. CASE Done \/ UNCHANGED vars
  BY <1>7 DEF Done, vars, simVars, listenerVars, queryVars, rankVars, QuietInv,
              Busy
<1> QED
  BY <1>1, <1>3, <1>4, <1>5, <1>6, <1>7 DEF Next

(* While a client is connected, or a published command is pending, the     *)
(* listener thread is past its critical section, so that                   *)
(* disconnectClient (is_sim.cpp, line 270) can join it with the mutex      *)
(* held.                                                                   *)
THEOREM ListenerStaysQuiet == Spec => []ListenerQuiet
<1>1. Init => TypeInv /\ QuietInv
  BY TypeInvInit, QuietInit
<1>2. TypeInv /\ QuietInv /\ [Next]_vars => TypeInv' /\ QuietInv'
  BY TypeInvNext, QuietNext
<1>3. TypeInv /\ QuietInv => ListenerQuiet
  BY DEF QuietInv, Busy, ListenerQuiet
<1> QED
  BY <1>1, <1>2, <1>3, PTL DEF Spec

(* The test of intercomm at line 179 of is_sim.cpp never finds a client:   *)
(* whenever the listener thread publishes a command, no client is          *)
(* connected, no command is pending, and rank 0 is between two calls or    *)
(* waits for the thread in its destructor.                                 *)
PublishesWhenFree ==
  [][ListenerPublish =>
       intercomm[0] = NoClient /\ ~newQuery /\ simPc[0] \in {"run", "finJoin"}]_vars
THEOREM ListenerTestSucceeds == Spec => PublishesWhenFree
<1>1. Init => TypeInv /\ QuietInv
  BY TypeInvInit, QuietInit
<1>2. TypeInv /\ QuietInv /\ [Next]_vars => TypeInv' /\ QuietInv'
  BY TypeInvNext, QuietNext
<1>3. QuietInv /\ [Next]_vars =>
        [ListenerPublish =>
           intercomm[0] = NoClient /\ ~newQuery
             /\ simPc[0] \in {"run", "finJoin"}]_vars
  BY DEF QuietInv, Busy, ListenerPublish
<1> QED
  BY <1>1, <1>2, <1>3, PTL DEF Spec, PublishesWhenFree

-----------------------------------------------------------------------------
(***************************************************************************)
(* The protocol.  What can be under way between rank 0 of the simulation   *)
(* and rank 0 of a job follows from where the two are, and between any     *)
(* other two ranks from whether the client's waits for the other's region. *)
(* None of the three properties proved here is inductive without this: an  *)
(* int that would be misread lies in the channel long before anyone reads  *)
(* it.                                                                     *)
(***************************************************************************)

QuitF == <<QuitMessage(FALSE)>>
QuitT == <<QuitMessage(TRUE)>>

(* Rank 0 is outside of the library or waits for the client's command.     *)
Attentive(r) == r \in {"run", "finJoin", "finRecv"}

(* The job is not connected yet, or never will be. *)
Outside == {"start", "tcp", "sent", "accepting", "failed"}

(* With the client's rank 0 at p, the simulation's at r, conn telling      *)
(* whether they are connected, n the regions fetched so far and req the    *)
(* last command: the messages up to the simulation and down to the client. *)
Talk(p, up, down, r, conn, n, req) ==
  /\ p \in Outside => ~conn /\ up = <<>> /\ down = <<>>
  /\ p = "greeting" =>
       /\ up = <<>>
       /\ \/ conn /\ r \in {"greet", "finGreet"} /\ down = <<>>
          \/ conn /\ Attentive(r) /\ down = QuitF
          \/ (conn => r = "finDrop") /\ down = QuitT
  /\ p = "ready" => conn /\ Attentive(r) /\ up = <<>> /\ down = <<>>
  /\ p = "awaitQuit" =>
       /\ req \in Command
       /\ \/ conn /\ Attentive(r) /\ up = <<req>> /\ down = <<>>
          \/ conn /\ r = "finGreet" /\ up = <<>> /\ down = <<>>
          \/ conn /\ r = "query" /\ req = "QUERY" /\ up = <<>> /\ down = QuitF
          \/ (conn => r = "drop") /\ req = "DISCONNECT" /\ up = <<>> /\ down = QuitF
          \/ (conn => r = "finDrop") /\ up = <<>> /\ down = QuitT
  /\ p = "fetching" =>
       /\ conn /\ up = <<>> /\ down = <<>>
       /\ IF n = 0 THEN r = "query" ELSE Attentive(r)
  /\ p = "waiting" =>
       /\ conn
       /\ IF n # 0 THEN Attentive(r) /\ up = <<>> /\ down = <<>>
          ELSE \/ r = "query" /\ up = <<"PING">> /\ down = <<>>
               \/ Attentive(r) /\ up = <<>> /\ \E m \in RegionMessages : down = <<m>>
  /\ p \in {"leaving", "gone"} =>
       /\ conn => r \in {"drop", "finDrop"}
       /\ up = <<>> /\ down = <<>>

TalkOf(j) ==
  Talk(clientPc[j][0], toSim[j][0][0], toClient[j][0][0],
       simPc[0], intercomm[0] = j, Len(regions[j][0]), request[j])
TalkInv == \A j \in Clients : TalkOf(j)

(* Where rank 0 of the simulation is, against its own fields. *)
RootInv ==
  /\ simPc[0] \in {"greet", "query", "drop", "finRecv", "finGreet", "finDrop"}
       => intercomm[0] # NoClient
  /\ simPc[0] \in {"connect", "finConnect", "rejoin", "gone"}
       => intercomm[0] = NoClient
  /\ newQuery /\ simPc[0] \in {"run", "finJoin"}
       => intercomm[0] = NoClient /\ clientCommand = "CONNECT"
  /\ simPc[0] # "threw"

(* All other pairs of ranks: a ping and the region it asks for. *)
Fetch(up, down, w) ==
  IF w THEN \/ up = <<"PING">> /\ down = <<>>
            \/ up = <<>> /\ \E m \in RegionMessages : down = <<m>>
  ELSE up = <<>> /\ down = <<>>
FetchOf(j) ==
  \A s \in SimRank, c \in ClientRank :
    s # 0 \/ c # 0 =>
      Fetch(toSim[j][s][c], toClient[j][c][s], WaitsFor(j, c, s))
FetchInv == \A j \in Clients : FetchOf(j)

(* The ranks of a job are in query() together. *)
QueryOf(j) ==
  \A c \in ClientRank : clientPc[j][c] \in Querying => clientPc[j][0] \in Querying
QueryInv == \A j \in Clients : QueryOf(j)

ProtocolInv == TalkInv /\ RootInv /\ FetchInv /\ QueryInv

(* A channel of one message: sending to an empty one, taking the one.      *)
LEMMA OneMessage ==
  ASSUME NEW x
  PROVE  /\ <<x>> # <<>> /\ Head(<<x>>) = x /\ Tail(<<x>>) = <<>>
         /\ Append(<<>>, x) = <<x>>
OBVIOUS

(* The three kinds of messages to a client are told apart.                 *)
LEMMA Quits ==
  /\ QuitMessage(FALSE) # QuitMessage(TRUE)
  /\ \A m \in RegionMessages : m # QuitMessage(TRUE)
BY DEF QuitMessage, RegionMessages

(* Who pings simulation rank 0: client rank 0, and first.                  *)
LEMMA FirstRegion ==
  ASSUME ClientTypeOK, NEW j \in Clients
  PROVE  /\ Len(regions[j][0]) = 0 => Unfinished(j, 0)
         /\ NextRegion(j, 0) = Len(regions[j][0])
         /\ \A c \in ClientRank : Unfinished(j, c) /\ NextRegion(j, c) = 0 => c = 0
<1>1. M \in Nat \ {0} /\ N \in Nat \ {0} /\ 0 \in 0 .. N-1 /\ ClientRank = 0 .. N-1
  BY SizesAssumption DEF ClientRank
<1>2. \A c \in ClientRank : Len(regions[j][c]) \in Nat
  BY DEF ClientTypeOK
<1>3. M % N \in 0 .. N-1 /\ M \div N \in Nat
  BY <1>1, Quotients
<1>4. MySims(M, N, 0) >= 1
  <2>1. M = N * (M \div N) + (M % N)
    BY <1>1, Quotients
  <2>2. M % N = 0 => M \div N # 0
    BY <1>1, <1>3, <2>1
  <2> QED
    BY <1>3, <2>2 DEF MySims, SimsPerClient
<1>5. NextRegion(j, 0) = Len(regions[j][0])
  <2>1. ExtraOffset(M, N, 0) = 0
    BY <1>3 DEF ExtraOffset, Smaller
  <2>2. 0 \in ClientRank
    BY <1>1
  <2> QED
    BY <1>1, <1>2, <1>3, <2>1, <2>2 DEF NextRegion, RegionId, SimsPerClient
<1>6. ASSUME NEW c \in ClientRank, Unfinished(j, c), NextRegion(j, c) = 0, c # 0
      PROVE  FALSE
  <2>1. /\ MySims(M, N, 0) \in Nat /\ MySims(M, N, c) \in Nat
    BY <1>1, ShareOfRank
  <2>2. Len(regions[j][c]) \in 0 .. MySims(M, N, c) - 1
    BY <1>2, <1>6, <2>1 DEF Unfinished
  <2>3. 0 \in RegionsOf(M, N, c)
    BY <1>6, <2>2 DEF RegionsOf, NextRegion
  <2>4. RegionId(M, N, 0, 0) = 0
    BY <1>1, <1>3 DEF RegionId, SimsPerClient, ExtraOffset, Smaller
  <2>5. 0 \in RegionsOf(M, N, 0)
    BY <1>4, <2>1, <2>4 DEF RegionsOf
  <2> QED
    BY <1>1, <1>6, <2>3, <2>5, AssignmentIsPartition DEF Partition
<1>7. Len(regions[j][0]) = 0 => Unfinished(j, 0)
  <2>1. MySims(M, N, 0) \in Nat
    BY <1>1, ShareOfRank
  <2> QED
    BY <1>4, <2>1 DEF Unfinished
<1> QED
  BY <1>5, <1>6, <1>7

(* Nothing has been sent, nobody is connected.                             *)
LEMMA ProtoInit == Init => ProtocolInv
<1> SUFFICES ASSUME Init PROVE ProtocolInv
  OBVIOUS
<1> USE RankZero
<1>1. TalkInv
  BY ClientsAssumption
     DEF Init, InterCommInit, SimInit, ClientInit, TalkInv, TalkOf, Talk, Outside
<1>2. RootInv
  BY DEF Init, SimInit, RootInv
<1>3. FetchInv
  BY DEF Init, InterCommInit, ClientInit, FetchInv, FetchOf, Fetch, WaitsFor
<1>4. QueryInv
  BY DEF Init, ClientInit, QueryInv, QueryOf, Querying
<1> QED
  BY <1>1, <1>2, <1>3, <1>4 DEF ProtocolInv

-----------------------------------------------------------------------------
(* A job is alone on its channels.                                         *)
LEMMA OtherJobs ==
  ASSUME TypeInv, NEW j \in Clients, NEW i \in Clients, i # j,
         ClientNext(j) \/ \E c \in ClientRank : LeaveAlone(j, c)
  PROVE  /\ clientPc'[i] = clientPc[i] /\ request'[i] = request[i]
         /\ regions'[i] = regions[i]
         /\ toSim'[i] = toSim[i] /\ toClient'[i] = toClient[i]
<1> USE DEF TypeInv, TypeOK, InterCommTypeOK, ClientTypeOK, wireVars
<1>1. CASE \E c \in ClientRank : LeaveAlone(j, c)
  BY <1>1 DEF LeaveAlone, Left
<1>2. CASE TcpConnect(j) \/ TcpRefused(j) \/ SendHello(j) \/ SendHelloFails(j)
             \/ ConnectSync(j)
  BY <1>2 DEF TcpConnect, TcpRefused, SendHello, SendHelloFails, ConnectSync,
              GoTo, AllGoTo
<1>3. CASE Greeted(j) \/ CommandReply(j) \/ QueryReturn(j)
  BY <1>3 DEF Greeted, CommandReply, QueryReturn, AllGoTo, ReceiveFromSim
<1>4. CASE \E cmd \in Command : SendCommand(j, cmd)
  BY <1>4 DEF SendCommand, GoTo, SendToSim
<1>5. CASE \E c \in ClientRank : Ping(j, c)
  BY <1>5 DEF Ping, GoTo, SendToSim
<1>6. CASE \E c \in ClientRank : ReceiveRegion(j, c)
  BY <1>6 DEF ReceiveRegion, GoTo, ReceiveFromSim
<1> QED
  BY <1>1, <1>2, <1>3, <1>4, <1>5, <1>6 DEF ClientNext

(* The steps of rank 0 of a job, on the channel to simulation rank 0.      *)
LEMMA ClientTalks ==
  ASSUME TypeInv, ProtocolInv, NEW j \in Clients, ClientNext(j), UNCHANGED simVars
  PROVE  TalkOf(j)'
<1> DEFINE p == clientPc[j][0]
           up == toSim[j][0][0]
           down == toClient[j][0][0]
           n == Len(regions[j][0])
<1>0. /\ TalkOf(j) /\ 0 \in SimRank /\ 0 \in ClientRank
      /\ n \in Nat /\ ClientTypeOK /\ j \in Clients
      /\ simPc' = simPc /\ intercomm' = intercomm
  BY RankZero DEF ProtocolInv, TalkInv, TypeInv, TypeOK, ClientTypeOK, simVars, rankVars
<1>t. /\ clientPc \in [Clients -> [ClientRank -> ClientState]]
      /\ toSim \in ToSimType /\ toClient \in ToClientType
      /\ request \in [Clients -> Command \cup {"CONNECT"}]
      /\ regions \in [Clients -> [ClientRank -> Seq(ToClientMessage)]]
  BY DEF TypeInv, TypeOK, ClientTypeOK, InterCommTypeOK, ToSimType, ToClientType
<1> USE <1>0 DEF TalkOf, wireVars
<1>1. CASE TcpConnect(j) \/ TcpRefused(j) \/ SendHello(j) \/ SendHelloFails(j)
             \/ ConnectSync(j)
  <2>1. p \in Outside /\ clientPc'[j][0] \in Outside
    BY <1>1, <1>t DEF TcpConnect, TcpRefused, SendHello, SendHelloFails, ConnectSync,
                GoTo, AllGoTo, Outside
  <2>2. UNCHANGED <<toSim, toClient>>
    BY <1>1 DEF TcpConnect, TcpRefused, SendHello, SendHelloFails, ConnectSync
  <2> QED
    BY <2>1, <2>2 DEF Talk, Outside
<1>2. CASE Greeted(j)
  <2>1. p = "greeting" /\ down # <<>> /\ up' = up /\ down' = Tail(down)
    BY <1>2, <1>t DEF Greeted, AllRanks, ReceiveFromSim, ToClientType
  <2>2. p' = IF Head(down) = QuitMessage(TRUE) THEN "leaving" ELSE "ready"
    BY <1>2, <1>t DEF Greeted, AllGoTo
  <2>3. CASE down = QuitF /\ intercomm[0] = j /\ Attentive(simPc[0])
    <3>1. p' = "ready" /\ down' = <<>>
      BY <2>1, <2>2, <2>3, OneMessage, Quits DEF QuitF
    <3> QED
      BY <2>1, <2>3, <3>1 DEF Talk, Outside
  <2>4. CASE down = QuitT
    <3>1. p' = "leaving" /\ down' = <<>>
      BY <2>1, <2>2, <2>4, OneMessage DEF QuitT
    <3>2. QuitT # QuitF
      BY Quits, OneMessage DEF QuitT, QuitF
    <3> QED
      BY <2>1, <2>4, <3>1, <3>2 DEF Talk, Outside
  <2> QED
    BY <2>1, <2>3, <2>4 DEF Talk
<1>3. ASSUME NEW cmd \in Command, SendCommand(j, cmd)
      PROVE  TalkOf(j)'
  <2>1. /\ p = "ready" /\ p' = "awaitQuit" /\ request'[j] = cmd
        /\ up' = Append(up, cmd) /\ down' = down
    BY <1>3, <1>t DEF SendCommand, SendToSim, GoTo, ToSimType
  <2> QED
    BY <1>3, <2>1, OneMessage DEF Talk, Outside
<1>4. CASE CommandReply(j)
  <2>1. /\ p = "awaitQuit" /\ down # <<>> /\ up' = up /\ down' = Tail(down)
        /\ regions'[j][0] = <<>> /\ request' = request
    BY <1>4, <1>t DEF CommandReply, ReceiveFromSim, ToClientType
  <2>2. p' = IF Head(down) = QuitMessage(TRUE) \/ request[j] = "DISCONNECT"
             THEN "leaving" ELSE "fetching"
    BY <1>4, <1>t DEF CommandReply, AllGoTo, EndsSession
  <2>3. CASE down = QuitF
    <3>1. /\ p' = (IF request[j] = "DISCONNECT" THEN "leaving" ELSE "fetching")
          /\ down' = <<>>
      BY <2>1, <2>2, <2>3, OneMessage, Quits DEF QuitF
    <3>2. n' = 0 /\ QuitT # QuitF
      BY <2>1, Quits, OneMessage DEF QuitT, QuitF
    <3> QED
      BY <2>1, <2>3, <3>1, <3>2 DEF Talk, Outside
  <2>4. CASE down = QuitT
    <3>1. p' = "leaving" /\ down' = <<>>
      BY <2>1, <2>2, <2>4, OneMessage DEF QuitT
    <3>2. QuitT # QuitF
      BY Quits, OneMessage DEF QuitT, QuitF
    <3> QED
      BY <2>1, <2>4, <3>1, <3>2 DEF Talk, Outside
  <2> QED
    BY <2>1, <2>3, <2>4 DEF Talk
<1>5. ASSUME NEW c \in ClientRank, Ping(j, c)
      PROVE  TalkOf(j)'
  <2>1. CASE c # 0
    <3>1. NextRegion(j, c) # 0 /\ NextRegion(j, c) \in SimRank
      BY <1>5, <2>1, FirstRegion, NextRegionExists DEF Ping
    <3>2. up' = up /\ down' = down /\ p' = p /\ UNCHANGED <<request, regions>>
      BY <1>5, <1>t, <2>1, <3>1 DEF Ping, SendToSim, GoTo, ToSimType
    <3> QED
      BY <3>2
  <2>2. CASE c = 0 /\ n = 0
    <3>1. NextRegion(j, 0) = 0
      BY <2>2, FirstRegion
    <3>2. /\ up' = Append(up, "PING") /\ down' = down /\ p = "fetching" /\ p' = "waiting"
          /\ UNCHANGED <<request, regions>>
      BY <1>5, <1>t, <2>2, <3>1 DEF Ping, SendToSim, GoTo, ToSimType
    <3> QED
      BY <2>2, <3>2, OneMessage DEF Talk, Outside
  <2>3. CASE c = 0 /\ n # 0
    <3>1. NextRegion(j, 0) # 0 /\ NextRegion(j, 0) \in SimRank
      BY <1>5, <2>3, FirstRegion, NextRegionExists DEF Ping
    <3>2. /\ up' = up /\ down' = down /\ p = "fetching" /\ p' = "waiting"
          /\ UNCHANGED <<request, regions>>
      BY <1>5, <1>t, <2>3, <3>1 DEF Ping, SendToSim, GoTo, ToSimType
    <3> QED
      BY <2>3, <3>2 DEF Talk, Outside
  <2> QED
    BY <2>1, <2>2, <2>3
<1>6. ASSUME NEW c \in ClientRank, ReceiveRegion(j, c)
      PROVE  TalkOf(j)'
  <2>0. Unfinished(j, c)
    BY <1>6 DEF ReceiveRegion, TypeInv, WaitsForRegion
  <2>1. CASE c # 0
    <3>1. NextRegion(j, c) # 0 /\ NextRegion(j, c) \in SimRank
      BY <2>0, <2>1, FirstRegion, NextRegionExists
    <3>2. /\ up' = up /\ down' = down /\ p' = p
          /\ request' = request /\ regions'[j][0] = regions[j][0]
      BY <1>6, <1>t, <2>1, <3>1 DEF ReceiveRegion, ReceiveFromSim, GoTo, ToClientType
    <3> QED
      BY <3>2
  <2>2. ASSUME c = 0
        PROVE  p = "waiting" /\ p' = "fetching" /\ n' = n + 1
               /\ UNCHANGED <<request, up>>
    <3> DEFINE s == NextRegion(j, 0)
               msg == Head(toClient[j][0][s])
    <3>1. /\ s \in SimRank /\ toClient[j][0][s] # <<>>
          /\ toClient[j][0][s] \in Seq(ToClientMessage)
      BY <1>6, <1>t, <2>0, <2>2, NextRegionExists DEF ReceiveRegion, ToClientType
    <3>2. msg \in ToClientMessage
      BY <3>1
    <3>3. regions' = [regions EXCEPT ![j][0] = Append(@, msg)]
      BY <1>6, <2>2 DEF ReceiveRegion
    <3> HIDE DEF msg
    <3>4. n' = n + 1
      BY <1>t, <3>2, <3>3
    <3> QED
      BY <1>6, <1>t, <2>2, <3>4 DEF ReceiveRegion, GoTo
  <2>3. CASE c = 0 /\ n = 0
    <3>1. NextRegion(j, 0) = 0
      BY <2>3, FirstRegion
    <3>2. down # <<>> /\ down' = Tail(down)
      BY <1>6, <1>t, <2>3, <3>1 DEF ReceiveRegion, ReceiveFromSim, ToClientType
    <3>3. /\ intercomm[0] = j /\ Attentive(simPc[0]) /\ up = <<>>
          /\ \E m \in RegionMessages : down = <<m>>
      BY <2>2, <2>3, <3>2 DEF Talk
    <3>4. down' = <<>>
      BY <3>2, <3>3, OneMessage
    <3>5. p' = "fetching" /\ n' # 0 /\ up' = <<>>
      <4>1. p' = "fetching" /\ n' = n + 1 /\ up' = up
        BY <2>2, <2>3
      <4> HIDE DEF p, up, down, n
      <4> QED
        BY <2>3, <3>3, <4>1
    <3>6. Attentive(simPc[0])' /\ (intercomm[0] = j)'
      BY <3>3 DEF Attentive
    <3> HIDE DEF p, up, down, n
    <3>7. Talk(p', up', down', simPc'[0], (intercomm[0] = j)', n', request'[j])
      BY <3>4, <3>5, <3>6 DEF Talk, Outside, Attentive
    <3> QED
      BY <3>7 DEF p, up, down, n
  <2>4. CASE c = 0 /\ n # 0
    <3>1. NextRegion(j, 0) # 0 /\ NextRegion(j, 0) \in SimRank
      BY <2>0, <2>4, FirstRegion, NextRegionExists
    <3>2. down' = down
      BY <1>6, <1>t, <2>4, <3>1 DEF ReceiveRegion, ReceiveFromSim, ToClientType
    <3> QED
      BY <2>2, <2>4, <3>2 DEF Talk, Outside
  <2> QED
    BY <2>1, <2>3, <2>4
<1>7. CASE QueryReturn(j)
  <2>1. /\ p = "fetching" /\ ~Unfinished(j, 0) /\ p' = "ready"
        /\ UNCHANGED <<toSim, toClient, request, regions>>
    BY <1>7, <1>t DEF QueryReturn, QueryBarrier, AllRanks, AllGoTo
  <2>2. n # 0
    BY <2>1, FirstRegion
  <2> QED
    BY <2>1, <2>2 DEF Talk, Outside
<1> QED
  BY <1>1, <1>2, <1>3, <1>4, <1>5, <1>6, <1>7 DEF ClientNext

(* The ranks of a job enter and leave a query together.                    *)
LEMMA ClientQueries ==
  ASSUME TypeInv, ProtocolInv, NEW j \in Clients, ClientNext(j)
  PROVE  QueryOf(j)'
<1>t. /\ clientPc \in [Clients -> [ClientRank -> ClientState]]
      /\ 0 \in ClientRank /\ QueryOf(j) /\ j \in Clients
  BY RankZero DEF TypeInv, TypeOK, ClientTypeOK, ProtocolInv, QueryInv
<1> USE <1>t DEF QueryOf, Querying
<1>1. CASE \/ TcpConnect(j) \/ TcpRefused(j) \/ SendHello(j) \/ SendHelloFails(j)
           \/ \E cmd \in Command : SendCommand(j, cmd)
  <2>1. PICK q \in {"tcp", "sent", "failed", "awaitQuit"} :
          clientPc' = [clientPc EXCEPT ![j][0] = q]
    BY <1>1 DEF TcpConnect, TcpRefused, SendHello, SendHelloFails, SendCommand, GoTo
  <2>2. clientPc[j][0] \notin Querying
    BY <1>1 DEF TcpConnect, TcpRefused, SendHello, SendHelloFails, SendCommand
  <2> QED
    BY <2>1, <2>2
<1>2. CASE ConnectSync(j) \/ Greeted(j) \/ CommandReply(j) \/ QueryReturn(j)
  <2>1. PICK q : clientPc' = [clientPc EXCEPT ![j] = [c \in ClientRank |-> q]]
    BY <1>2 DEF ConnectSync, Greeted, CommandReply, QueryReturn, AllGoTo
  <2> QED
    BY <2>1
<1>3. ASSUME NEW c \in ClientRank, Ping(j, c) \/ ReceiveRegion(j, c)
      PROVE  QueryOf(j)'
  <2>1. PICK q \in Querying : clientPc' = [clientPc EXCEPT ![j][c] = q]
    BY <1>3 DEF Ping, ReceiveRegion, GoTo
  <2>2. clientPc[j][c] \in Querying
    BY <1>3 DEF Ping, ReceiveRegion
  <2> QED
    BY <2>1, <2>2
<1> QED
  BY <1>1, <1>2, <1>3 DEF ClientNext

(* The pings and regions of all other pairs of ranks.                      *)
LEMMA ClientFetches ==
  ASSUME TypeInv, ProtocolInv, NEW j \in Clients, ClientNext(j)
  PROVE  FetchOf(j)'
<1>t. /\ clientPc \in [Clients -> [ClientRank -> ClientState]]
      /\ toSim \in ToSimType /\ toClient \in ToClientType
      /\ regions \in [Clients -> [ClientRank -> Seq(ToClientMessage)]]
      /\ ClientTypeOK
      /\ 0 \in SimRank /\ 0 \in ClientRank /\ j \in Clients
      /\ FetchOf(j) /\ QueryOf(j)
  BY RankZero DEF TypeInv, TypeOK, ClientTypeOK, InterCommTypeOK, ToSimType,
                  ToClientType, ProtocolInv, FetchInv, QueryInv
<1> USE <1>t
(* Nobody waits before, nobody after, and only rank 0 uses a channel.      *)
<1>1. ASSUME \A c \in ClientRank : /\ clientPc[j][c] # "waiting"
                                   /\ clientPc'[j][c] # "waiting",
             \A s \in SimRank, c \in ClientRank : s # 0 \/ c # 0 =>
                /\ toSim'[j][s][c] = toSim[j][s][c]
                /\ toClient'[j][c][s] = toClient[j][c][s]
      PROVE  FetchOf(j)'
  <2> SUFFICES ASSUME NEW s \in SimRank, NEW d \in ClientRank, s # 0 \/ d # 0
               PROVE  Fetch(toSim[j][s][d], toClient[j][d][s], WaitsFor(j, d, s))'
    BY DEF FetchOf
  <2>1. Fetch(toSim[j][s][d], toClient[j][d][s], WaitsFor(j, d, s))
    BY DEF FetchOf
  <2>2. ~WaitsFor(j, d, s) /\ ~WaitsFor(j, d, s)'
    BY <1>1 DEF WaitsFor
  <2>3. toSim'[j][s][d] = toSim[j][s][d] /\ toClient'[j][d][s] = toClient[j][d][s]
    BY <1>1
  <2> QED
    BY <2>1, <2>2, <2>3 DEF Fetch
<1>2. CASE \/ TcpConnect(j) \/ TcpRefused(j) \/ SendHello(j) \/ SendHelloFails(j)
           \/ \E cmd \in Command : SendCommand(j, cmd)
  <2>1. PICK q \in {"tcp", "sent", "failed", "awaitQuit"} :
          clientPc' = [clientPc EXCEPT ![j][0] = q]
    BY <1>2 DEF TcpConnect, TcpRefused, SendHello, SendHelloFails, SendCommand, GoTo
  <2>2. clientPc[j][0] \notin Querying
    BY <1>2 DEF TcpConnect, TcpRefused, SendHello, SendHelloFails, SendCommand,
                Querying
  <2>3. \A c \in ClientRank : clientPc[j][c] # "waiting"
    BY <2>2 DEF QueryOf, Querying
  <2>4. \A c \in ClientRank : clientPc'[j][c] # "waiting"
    BY <2>1, <2>3
  <2>5. \A s \in SimRank, c \in ClientRank : s # 0 \/ c # 0 =>
          /\ toSim'[j][s][c] = toSim[j][s][c]
          /\ toClient'[j][c][s] = toClient[j][c][s]
    BY <1>2 DEF TcpConnect, TcpRefused, SendHello, SendHelloFails, SendCommand,
                SendToSim, wireVars, ToSimType
  <2> QED
    BY <1>1, <2>3, <2>4, <2>5
<1>3. CASE ConnectSync(j) \/ Greeted(j) \/ CommandReply(j) \/ QueryReturn(j)
  <2>1. PICK q \in ClientState \ {"waiting"} :
          clientPc' = [clientPc EXCEPT ![j] = [c \in ClientRank |-> q]]
    <3>1. CASE ConnectSync(j) \/ QueryReturn(j)
      BY <3>1 DEF ConnectSync, QueryReturn, AllGoTo, ClientState
    <3>2. CASE Greeted(j)
      BY <3>2 DEF Greeted, AllGoTo, ClientState
    <3>3. CASE CommandReply(j)
      BY <3>3 DEF CommandReply, AllGoTo, ClientState
    <3> QED
      BY <1>3, <3>1, <3>2, <3>3
  <2>2. \A c \in ClientRank : clientPc[j][c] # "waiting"
    <3>1. CASE QueryReturn(j)
      BY <3>1 DEF QueryReturn, QueryBarrier, AllRanks
    <3>2. CASE ~QueryReturn(j)
      <4>1. clientPc[j][0] \notin Querying
        BY <1>3, <3>2 DEF ConnectSync, Greeted, AllRanks, CommandReply, Querying
      <4> QED
        BY <4>1 DEF QueryOf, Querying
    <3> QED
      BY <3>1, <3>2
  <2>3. \A s \in SimRank, c \in ClientRank : s # 0 \/ c # 0 =>
          /\ toSim'[j][s][c] = toSim[j][s][c]
          /\ toClient'[j][c][s] = toClient[j][c][s]
    <3>1. CASE ConnectSync(j) \/ QueryReturn(j)
      BY <3>1 DEF ConnectSync, QueryReturn, wireVars
    <3>2. CASE Greeted(j) \/ CommandReply(j)
      <4>1. toClient' = [toClient EXCEPT ![j][0][0] = Tail(@)] /\ UNCHANGED toSim
        BY <3>2 DEF Greeted, CommandReply, ReceiveFromSim
      <4> QED
        BY <4>1 DEF ToClientType
    <3> QED
      BY <1>3, <3>1, <3>2
  <2> QED
    BY <1>1, <2>1, <2>2, <2>3
<1>4. ASSUME NEW c \in ClientRank, Ping(j, c)
      PROVE  FetchOf(j)'
  <2> DEFINE r == NextRegion(j, c)
  <2>1. r \in SimRank /\ clientPc[j][c] = "fetching"
    BY <1>4, NextRegionExists DEF Ping
  <2>2. /\ clientPc' = [clientPc EXCEPT ![j][c] = "waiting"]
        /\ toSim' = [toSim EXCEPT ![j][r][c] = Append(@, "PING")]
        /\ UNCHANGED <<toClient, regions>>
    BY <1>4 DEF Ping, GoTo, SendToSim
  <2>3. \A d \in ClientRank : NextRegion(j, d)' = NextRegion(j, d)
    BY <2>2 DEF NextRegion
  <2> HIDE DEF r
  <2> SUFFICES ASSUME NEW s \in SimRank, NEW d \in ClientRank, s # 0 \/ d # 0
               PROVE  Fetch(toSim[j][s][d], toClient[j][d][s], WaitsFor(j, d, s))'
    BY DEF FetchOf
  <2>4. Fetch(toSim[j][s][d], toClient[j][d][s], WaitsFor(j, d, s))
    BY DEF FetchOf
  <2>5. CASE d = c /\ s = r
    <3>1. /\ toSim'[j][s][d] = Append(toSim[j][s][d], "PING")
          /\ ~WaitsFor(j, d, s) /\ WaitsFor(j, d, s)'
      BY <2>1, <2>2, <2>3, <2>5 DEF WaitsFor, ToSimType, r
    <3> QED
      BY <2>2, <2>4, <3>1, OneMessage DEF Fetch
  <2>6. CASE ~(d = c /\ s = r)
    <3>1. /\ toSim'[j][s][d] = toSim[j][s][d]
          /\ WaitsFor(j, d, s)' <=> WaitsFor(j, d, s)
      BY <2>1, <2>2, <2>3, <2>6 DEF WaitsFor, ToSimType, r
    <3> QED
      BY <2>2, <2>4, <3>1 DEF Fetch
  <2> QED
    BY <2>5, <2>6
<1>5. ASSUME NEW c \in ClientRank, ReceiveRegion(j, c)
      PROVE  FetchOf(j)'
  <2> DEFINE r == NextRegion(j, c)
             msg == Head(toClient[j][c][r])
  <2>1. r \in SimRank /\ clientPc[j][c] = "waiting" /\ toClient[j][c][r] # <<>>
    BY <1>5, NextRegionExists DEF ReceiveRegion, TypeInv, WaitsForRegion
  <2>2. /\ clientPc' = [clientPc EXCEPT ![j][c] = "fetching"]
        /\ toClient' = [toClient EXCEPT ![j][c][r] = Tail(@)]
        /\ regions' = [regions EXCEPT ![j][c] = Append(@, msg)]
        /\ UNCHANGED toSim
    BY <1>5 DEF ReceiveRegion, GoTo, ReceiveFromSim
  <2> HIDE DEF msg
  <2>3. \A d \in ClientRank \ {c} : NextRegion(j, d)' = NextRegion(j, d)
    BY <2>2 DEF NextRegion
  <2> HIDE DEF r
  <2> SUFFICES ASSUME NEW s \in SimRank, NEW d \in ClientRank, s # 0 \/ d # 0
               PROVE  Fetch(toSim[j][s][d], toClient[j][d][s], WaitsFor(j, d, s))'
    BY DEF FetchOf
  <2>4. Fetch(toSim[j][s][d], toClient[j][d][s], WaitsFor(j, d, s))
    BY DEF FetchOf
  <2>5. CASE d = c /\ s = r
    <3>1. /\ toClient'[j][d][s] = Tail(toClient[j][d][s]) /\ toClient[j][d][s] # <<>>
          /\ WaitsFor(j, d, s) /\ ~WaitsFor(j, d, s)'
      BY <2>1, <2>2, <2>5 DEF WaitsFor, ToClientType, r
    <3> QED
      BY <2>2, <2>4, <3>1, OneMessage DEF Fetch
  <2>6. CASE d = c /\ s # r
    <3>1. /\ toClient'[j][d][s] = toClient[j][d][s]
          /\ ~WaitsFor(j, d, s) /\ ~WaitsFor(j, d, s)'
      BY <2>1, <2>2, <2>6 DEF WaitsFor, ToClientType, r
    <3> QED
      BY <2>2, <2>4, <3>1 DEF Fetch
  <2>7. CASE d # c
    <3>1. /\ toClient'[j][d][s] = toClient[j][d][s]
          /\ WaitsFor(j, d, s)' <=> WaitsFor(j, d, s)
      BY <2>1, <2>2, <2>3, <2>7 DEF WaitsFor, ToClientType
    <3> QED
      BY <2>2, <2>4, <3>1 DEF Fetch
  <2> QED
    BY <2>5, <2>6, <2>7
<1> QED
  BY <1>2, <1>3, <1>4, <1>5 DEF ClientNext

-----------------------------------------------------------------------------
(* A job that rank 0 is not connected to does not notice what it does, and *)
(* nobody notices in which place it waits for the next command.            *)
LEMMA TalkAway ==
  ASSUME NEW p, NEW up, NEW down, NEW r, NEW q, NEW n, NEW req,
         Talk(p, up, down, r, FALSE, n, req)
  PROVE  Talk(p, up, down, q, FALSE, n, req)
BY DEF Talk

(* Between two places where rank 0 waits for the next command.             *)
LEMMA TalkAttentive ==
  ASSUME NEW p, NEW up, NEW down, NEW r, NEW q, NEW conn, NEW n, NEW req,
         Talk(p, up, down, r, conn, n, req), Attentive(r), Attentive(q)
  PROVE  Talk(p, up, down, q, conn, n, req)
BY DEF Talk, Attentive

(* The jobs that rank 0 is not connected to, before and after a step of    *)
(* the simulation.                                                         *)
LEMMA TalkElsewhere ==
  ASSUME NEW i \in Clients, TalkOf(i), UNCHANGED clientVars,
         intercomm[0] # i, intercomm'[0] # i,
         toSim'[i][0][0] = toSim[i][0][0],
         toClient'[i][0][0] = toClient[i][0][0]
  PROVE  TalkOf(i)'
<1>1. Talk(clientPc[i][0], toSim[i][0][0], toClient[i][0][0], simPc[0], FALSE,
           Len(regions[i][0]), request[i])
  BY DEF TalkOf
<1>2. Talk(clientPc[i][0], toSim[i][0][0], toClient[i][0][0], simPc'[0], FALSE,
           Len(regions[i][0]), request[i])
  BY <1>1, TalkAway
<1>3. UNCHANGED <<clientPc, regions, request>>
  BY DEF clientVars
<1> QED
  BY <1>2, <1>3 DEF TalkOf

(* A step that leaves the other channels and the client alone.             *)
LEMMA FetchFrame ==
  ASSUME FetchInv, UNCHANGED clientVars,
         \A j \in Clients, s \in SimRank, c \in ClientRank :
           s # 0 \/ c # 0 => /\ toSim'[j][s][c] = toSim[j][s][c]
                             /\ toClient'[j][c][s] = toClient[j][c][s]
  PROVE  FetchInv'
<1> SUFFICES ASSUME NEW j \in Clients, NEW s \in SimRank, NEW d \in ClientRank,
                    s # 0 \/ d # 0
             PROVE  Fetch(toSim[j][s][d], toClient[j][d][s], WaitsFor(j, d, s))'
  BY DEF FetchInv, FetchOf
<1>1. Fetch(toSim[j][s][d], toClient[j][d][s], WaitsFor(j, d, s))
  BY DEF FetchInv, FetchOf
<1>2. WaitsFor(j, d, s)' <=> WaitsFor(j, d, s)
  BY DEF WaitsFor, NextRegion, clientVars
<1>3. toSim'[j][s][d] = toSim[j][s][d] /\ toClient'[j][d][s] = toClient[j][d][s]
  OBVIOUS
<1> QED
  BY <1>1, <1>2, <1>3 DEF Fetch

(* What one send and one receive do to the channels.                       *)
LEMMA ReceivedFromClient ==
  ASSUME toSim \in ToSimType, NEW j \in Clients, NEW s \in SimRank,
         NEW c \in ClientRank, toSim' = [toSim EXCEPT ![j][s][c] = Tail(@)]
  PROVE  /\ toSim'[j][s][c] = Tail(toSim[j][s][c])
         /\ \A i \in Clients, t \in SimRank, d \in ClientRank :
              (i # j \/ t # s \/ d # c) => toSim'[i][t][d] = toSim[i][t][d]
BY DEF ToSimType

LEMMA SentToClient ==
  ASSUME toClient \in ToClientType, NEW j \in Clients, NEW s \in SimRank,
         NEW c \in ClientRank, NEW m,
         toClient' = [toClient EXCEPT ![j][c][s] = Append(@, m)]
  PROVE  /\ toClient'[j][c][s] = Append(toClient[j][c][s], m)
         /\ \A i \in Clients, t \in SimRank, d \in ClientRank :
              (i # j \/ t # s \/ d # c) => toClient'[i][d][t] = toClient[i][d][t]
BY DEF ToClientType

(* The steps of rank 0 that use no channel.                                *)
LEMMA RootTalksSilent ==
  ASSUME TypeInv, ProtocolInv, QuietInv, UNCHANGED clientVars, UNCHANGED wireVars,
         UNCHANGED intercomm,
         intercomm[0] = NoClient \/ simPc'[0] = simPc[0]
           \/ (Attentive(simPc[0]) /\ Attentive(simPc'[0]))
  PROVE  TalkInv' /\ FetchInv'
<1> USE DEF ProtocolInv, wireVars
<1>1. ASSUME NEW i \in Clients PROVE TalkOf(i)'
  <2>1. CASE intercomm[0] = NoClient
    BY <2>1, TalkElsewhere, ClientsAssumption DEF TalkInv
  <2>2. Talk(clientPc[i][0], toSim[i][0][0], toClient[i][0][0], simPc[0],
             intercomm[0] = i, Len(regions[i][0]), request[i])
    BY DEF TalkInv, TalkOf
  <2>3. CASE simPc'[0] = simPc[0]
    BY <2>2, <2>3 DEF TalkOf, clientVars
  <2>4. CASE Attentive(simPc[0]) /\ Attentive(simPc'[0])
    <3>1. Talk(clientPc[i][0], toSim[i][0][0], toClient[i][0][0], simPc'[0],
               intercomm[0] = i, Len(regions[i][0]), request[i])
      BY <2>2, <2>4, TalkAttentive
    <3> QED
      BY <3>1 DEF TalkOf, clientVars
  <2> QED
    BY <2>1, <2>3, <2>4
<1> QED
  BY <1>1, FetchFrame DEF TalkInv

(* Rank 0 of the simulation: every send and receive is with its client.    *)
LEMMA RootKeepsProto ==
  ASSUME TypeInv, ProtocolInv, QuietInv, RootNext, UNCHANGED clientVars
  PROVE  TalkInv' /\ RootInv' /\ FetchInv'
<1>t. /\ simPc \in [SimRank -> SimState]
      /\ intercomm \in [SimRank -> Clients \cup {NoClient}]
      /\ toSim \in ToSimType /\ toClient \in ToClientType
      /\ request \in [Clients -> Command \cup {"CONNECT"}]
      /\ 0 \in SimRank /\ 0 \in ClientRank
      /\ TalkInv /\ RootInv /\ FetchInv
  BY RankZero DEF TypeInv, TypeOK, SimTypeOK, ClientTypeOK, InterCommTypeOK,
                  ToSimType, ToClientType, ProtocolInv
<1> USE <1>t
<1>1. CASE ProcessIdle
  <2>1. UNCHANGED <<wireVars, intercomm, simPc, newQuery, clientCommand>>
    BY <1>1 DEF ProcessIdle, queryVars
  <2> QED
    BY <2>1, RootTalksSilent DEF RootInv
<1>2. CASE ProcessNewQuery
  <2>1. /\ UNCHANGED <<wireVars, intercomm, newQuery, clientCommand>>
        /\ newQuery /\ simPc[0] = "run" /\ simPc'[0] = Handler(0, clientCommand)
    BY <1>2 DEF ProcessNewQuery, InLoop, queryVars
  <2>2. intercomm[0] = NoClient /\ clientCommand = "CONNECT"
    BY <2>1 DEF RootInv
  <2>3. simPc'[0] = "connect"
    BY <2>1, <2>2 DEF Handler
  <2> QED
    BY <2>1, <2>2, <2>3, RootTalksSilent DEF RootInv
<1>3. CASE Rejoin
  <2>1. /\ UNCHANGED <<wireVars, intercomm>> /\ ~newQuery'
        /\ simPc[0] = "rejoin" /\ simPc'[0] = "run"
    BY <1>3 DEF Rejoin, Return, ForgottenQuery
  <2> QED
    BY <2>1, RootTalksSilent DEF RootInv
<1>4. CASE Finalize
  <2>1. /\ UNCHANGED <<wireVars, intercomm, newQuery, clientCommand>>
        /\ simPc[0] = "run" /\ simPc'[0] = "finJoin"
    BY <1>4 DEF Finalize, queryVars
  <2> QED
    BY <2>1, RootTalksSilent DEF RootInv, Attentive
<1>5. CASE FinalJoin
  <2>1. UNCHANGED <<wireVars, intercomm, newQuery, clientCommand>> /\ simPc[0] = "finJoin"
    BY <1>5 DEF FinalJoin, queryVars
  <2>2. CASE ~newQuery /\ intercomm[0] # NoClient
    <3>1. simPc'[0] = "finRecv"
      BY <1>5, <2>2 DEF FinalJoin
    <3> QED
      BY <2>1, <2>2, <3>1, RootTalksSilent DEF RootInv, Attentive
  <2>3. CASE ~(~newQuery /\ intercomm[0] # NoClient)
    <3>1. intercomm[0] = NoClient
      BY <2>1, <2>3 DEF RootInv
    <3>2. simPc'[0] = FinalHandler(0, clientCommand)
      BY <1>5, <2>3 DEF FinalJoin
    <3>3. simPc'[0] \in {"finConnect", "gone"}
      BY <3>1, <3>2 DEF FinalHandler
    <3> QED
      BY <2>1, <3>1, <3>3, RootTalksSilent DEF RootInv
  <2> QED
    BY <2>2, <2>3
<1>6. ASSUME NEW j \in Clients, ProcessClientCommand(j)
      PROVE  TalkInv' /\ RootInv' /\ FetchInv'
  <2> DEFINE cmd == Head(toSim[j][0][0])
             m == QuitMessage(FALSE)
  <2>1. /\ simPc[0] = "run" /\ intercomm[0] = j /\ UNCHANGED <<intercomm, newQuery>>
        /\ ~newQuery /\ toSim[j][0][0] # <<>>
        /\ simPc'[0] = Handler(0, cmd)
        /\ toSim' = [toSim EXCEPT ![j][0][0] = Tail(@)]
        /\ toClient' = [toClient EXCEPT ![j][0][0] = Append(@, m)]
    BY <1>6 DEF ProcessClientCommand, InLoop, Ready, ReceiveFromClient, Continue,
                SendToClient
  <2> HIDE DEF m
  <2>2. UNCHANGED <<clientPc, request, regions>>
    BY DEF clientVars
  <2>3. /\ clientPc[j][0] = "awaitQuit" /\ request[j] \in Command
        /\ toSim[j][0][0] = <<request[j]>> /\ toClient[j][0][0] = <<>>
    BY <2>1 DEF TalkInv, TalkOf, Talk, Attentive, ClientTypeOK, ClientState, Outside,
                TypeInv, TypeOK
  <2>4. simPc'[0] = (IF request[j] = "QUERY" THEN "query" ELSE "drop")
    BY <2>1, <2>3, OneMessage DEF Handler, Command
  <2>5. toSim'[j][0][0] = <<>> /\ toClient'[j][0][0] = QuitF
    <3>1. toSim'[j][0][0] = Tail(toSim[j][0][0])
      BY <2>1, ReceivedFromClient
    <3>2. toClient'[j][0][0] = Append(toClient[j][0][0], m)
      BY <2>1 DEF ToClientType
    <3> QED
      BY <2>3, <3>1, <3>2, OneMessage DEF QuitF, m
  <2>6. TalkOf(j)'
    BY <2>1, <2>2, <2>3, <2>4, <2>5 DEF TalkOf, Talk, Outside, Command
  <2>7. ASSUME NEW i \in Clients, i # j PROVE TalkOf(i)'
    <3>1. toSim'[i][0][0] = toSim[i][0][0] /\ toClient'[i][0][0] = toClient[i][0][0]
      BY <2>1, <2>7 DEF ToSimType, ToClientType
    <3> QED
      BY <2>1, <2>7, <3>1, TalkElsewhere DEF TalkInv
  <2>8. FetchInv'
    <3>1. \A i \in Clients, s \in SimRank, c \in ClientRank :
            s # 0 \/ c # 0 => toSim'[i][s][c] = toSim[i][s][c]
      BY <2>1, ReceivedFromClient
    <3>2. \A i \in Clients, s \in SimRank, c \in ClientRank :
            s # 0 \/ c # 0 => toClient'[i][c][s] = toClient[i][c][s]
      BY <2>1, SentToClient
    <3> QED
      BY <3>1, <3>2, FetchFrame
  <2> QED
    BY <2>1, <2>4, <2>6, <2>7, <2>8, ClientsAssumption DEF TalkInv, RootInv
<1>7. CASE Greet \/ FinalGreet
  <2> DEFINE j == intercomm[0]
             m == QuitMessage(simPc[0] = "finGreet")
  <2>1. /\ simPc[0] \in {"greet", "finGreet"} /\ UNCHANGED <<toSim, intercomm>>
        /\ simPc'[0] = (IF simPc[0] = "greet" THEN "run" ELSE "finDrop")
        /\ simPc[0] = "greet" => ~newQuery'
        /\ toClient' = [toClient EXCEPT ![j][0][0] = Append(@, m)]
    BY <1>7 DEF Greet, FinalGreet, Return, ForgottenQuery, SendToClient, QuitMessage
  <2>2. j \in Clients
    BY <2>1 DEF RootInv
  <2>3. UNCHANGED <<clientPc, request, regions>>
    BY DEF clientVars
  <2>4. /\ clientPc[j][0] \in {"greeting", "awaitQuit"}
        /\ simPc[0] = "greet" => clientPc[j][0] = "greeting"
        /\ clientPc[j][0] = "awaitQuit" => request[j] \in Command
        /\ toSim[j][0][0] = <<>> /\ toClient[j][0][0] = <<>>
    <3>1. clientPc[j][0] \in ClientState
      BY <2>2 DEF ClientTypeOK, TypeInv, TypeOK
    <3>2. Talk(clientPc[j][0], toSim[j][0][0], toClient[j][0][0], simPc[0],
               intercomm[0] = j, Len(regions[j][0]), request[j])
      BY <2>2 DEF TalkInv, TalkOf
    <3>3. intercomm[0] = j
      OBVIOUS
    <3> HIDE DEF j, m
    <3> QED
      BY <2>1, <3>1, <3>2, <3>3 DEF Talk, Attentive, ClientState, Outside
  <2>5. toClient'[j][0][0] = IF simPc[0] = "greet" THEN QuitF ELSE QuitT
    <3>1. toClient'[j][0][0] = <<m>>
      BY <2>1, <2>2, <2>4, OneMessage DEF ToClientType
    <3> QED
      BY <2>1, <3>1 DEF QuitF, QuitT
  <2>6. TalkOf(j)'
    BY <2>1, <2>2, <2>3, <2>4, <2>5 DEF TalkOf, Talk, Outside, Attentive
  <2>7. ASSUME NEW i \in Clients, i # j PROVE TalkOf(i)'
    <3>1. toSim'[i][0][0] = toSim[i][0][0] /\ toClient'[i][0][0] = toClient[i][0][0]
      BY <2>1, <2>2, <2>7 DEF ToClientType
    <3> QED
      BY <2>1, <2>7, <3>1, TalkElsewhere DEF TalkInv
  <2>8. FetchInv'
    <3>1. \A i \in Clients, s \in SimRank, c \in ClientRank :
            s # 0 \/ c # 0 => toClient'[i][c][s] = toClient[i][c][s]
      BY <2>1, <2>2, SentToClient
    <3> QED
      BY <2>1, <3>1, FetchFrame
  <2> QED
    BY <2>1, <2>2, <2>6, <2>7, <2>8, ClientsAssumption DEF TalkInv, RootInv
<1>8. CASE HandleQuery(0)
  <2> DEFINE j == intercomm[0]
             m == RegionMessage(0, step[0])
  <2>1. PICK c \in ClientRank :
        /\ j # NoClient /\ toSim[j][0][c] # <<>>
        /\ toSim' = [toSim EXCEPT ![j][0][c] = Tail(@)]
        /\ toClient' = [toClient EXCEPT ![j][c][0] = Append(@, m)]
    BY <1>8 DEF HandleQuery, Ready, ReceiveFromClient, SendToClient, Timestep
  <2>2. /\ simPc[0] = "query" /\ simPc'[0] = "run" /\ ~newQuery'
        /\ UNCHANGED intercomm
    BY <1>8 DEF HandleQuery, Return, ForgottenQuery
  <2>3. j \in Clients
    BY <2>1
  <2>4. c = 0
    <3> SUFFICES ASSUME c # 0 PROVE FALSE
      OBVIOUS
    <3>1. Fetch(toSim[j][0][c], toClient[j][c][0], WaitsFor(j, c, 0))
      BY <2>3 DEF FetchInv, FetchOf
    <3>2. WaitsFor(j, c, 0)
      BY <2>1, <3>1 DEF Fetch
    <3> QED
      BY <2>3, <3>2, FirstRegion DEF WaitsFor, TypeInv, TypeOK, WaitsForRegion
  <2>5. UNCHANGED <<clientPc, request, regions>>
    BY DEF clientVars
  <2>6. /\ clientPc[j][0] = "waiting" /\ Len(regions[j][0]) = 0
        /\ toSim[j][0][0] = <<"PING">> /\ toClient[j][0][0] = <<>>
    BY <2>1, <2>2, <2>3, <2>4 DEF TalkInv, TalkOf, Talk, Attentive, ClientTypeOK,
                ClientState, Outside, TypeInv, TypeOK
  <2>7. m \in RegionMessages
    <3>1. step[0] \in 0 .. MaxSteps - 1
      BY <2>2, BoundsAssumption DEF TypeInv, StepsLeft, Processing, TypeOK, SimTypeOK
    <3> QED
      BY <3>1 DEF RegionMessage, RegionMessages
  <2> HIDE DEF m
  <2>8. toSim'[j][0][0] = <<>> /\ toClient'[j][0][0] = <<m>>
    BY <2>1, <2>3, <2>4, <2>6, OneMessage DEF ToSimType, ToClientType
  <2>9. TalkOf(j)'
    BY <2>2, <2>3, <2>5, <2>6, <2>7, <2>8 DEF TalkOf, Talk, Outside, Attentive
  <2>10. ASSUME NEW i \in Clients, i # j PROVE TalkOf(i)'
    <3>1. toSim'[i][0][0] = toSim[i][0][0] /\ toClient'[i][0][0] = toClient[i][0][0]
      BY <2>1, <2>3, <2>10 DEF ToSimType, ToClientType
    <3> QED
      BY <2>2, <2>10, <3>1, TalkElsewhere DEF TalkInv
  <2>11. FetchInv'
    <3>1. \A i \in Clients, s \in SimRank, d \in ClientRank :
            s # 0 \/ d # 0 => toSim'[i][s][d] = toSim[i][s][d]
      BY <2>1, <2>3, <2>4, ReceivedFromClient
    <3>2. \A i \in Clients, s \in SimRank, d \in ClientRank :
            s # 0 \/ d # 0 => toClient'[i][d][s] = toClient[i][d][s]
      BY <2>1, <2>3, <2>4, SentToClient
    <3> QED
      BY <3>1, <3>2, FetchFrame
  <2> QED
    BY <2>2, <2>3, <2>9, <2>10, <2>11, ClientsAssumption DEF TalkInv, RootInv
<1>9. ASSUME NEW j \in Clients, FinalReceive(j)
      PROVE  TalkInv' /\ RootInv' /\ FetchInv'
  <2> DEFINE cmd == Head(toSim[j][0][0])
  <2>1. /\ simPc[0] = "finRecv" /\ intercomm[0] = j /\ UNCHANGED <<intercomm, newQuery>>
        /\ toSim[j][0][0] # <<>> /\ UNCHANGED toClient
        /\ simPc'[0] = FinalHandler(0, cmd)
        /\ toSim' = [toSim EXCEPT ![j][0][0] = Tail(@)]
    BY <1>9 DEF FinalReceive, Ready, ReceiveFromClient
  <2>2. UNCHANGED <<clientPc, request, regions>>
    BY DEF clientVars
  <2>3. /\ clientPc[j][0] = "awaitQuit" /\ request[j] \in Command
        /\ toSim[j][0][0] = <<request[j]>> /\ toClient[j][0][0] = <<>>
    BY <2>1 DEF TalkInv, TalkOf, Talk, Attentive, ClientTypeOK, ClientState, Outside,
                TypeInv, TypeOK
  <2>4. simPc'[0] = "finGreet"
    BY <2>1, <2>3, OneMessage, ClientsAssumption DEF FinalHandler, Command
  <2>5. toSim'[j][0][0] = <<>> /\ toClient'[j][0][0] = <<>>
    BY <2>1, <2>3, OneMessage DEF ToSimType
  <2>6. TalkOf(j)'
    BY <2>1, <2>2, <2>3, <2>4, <2>5 DEF TalkOf, Talk, Outside, Command
  <2>7. ASSUME NEW i \in Clients, i # j PROVE TalkOf(i)'
    <3>1. toSim'[i][0][0] = toSim[i][0][0] /\ toClient'[i][0][0] = toClient[i][0][0]
      BY <2>1, <2>7 DEF ToSimType
    <3> QED
      BY <2>1, <2>7, <3>1, TalkElsewhere DEF TalkInv
  <2>8. FetchInv'
    BY <2>1, FetchFrame DEF ToSimType
  <2> QED
    BY <2>1, <2>4, <2>6, <2>7, <2>8, ClientsAssumption DEF TalkInv, RootInv
<1> QED
  BY <1>1, <1>2, <1>3, <1>4, <1>5, <1>6, <1>7, <1>8, <1>9 DEF RootNext

(* The other ranks of the simulation: only handleQuery uses a channel.     *)
LEMMA TalkSame ==
  ASSUME TalkInv, UNCHANGED clientVars, simPc'[0] = simPc[0],
         intercomm'[0] = intercomm[0],
         \A i \in Clients : /\ toSim'[i][0][0] = toSim[i][0][0]
                            /\ toClient'[i][0][0] = toClient[i][0][0]
  PROVE  TalkInv'
<1> SUFFICES ASSUME NEW i \in Clients PROVE TalkOf(i)'
  BY DEF TalkInv
<1>1. TalkOf(i) /\ toSim'[i][0][0] = toSim[i][0][0]
                /\ toClient'[i][0][0] = toClient[i][0][0]
  BY DEF TalkInv
<1> QED
  BY <1>1 DEF TalkOf, clientVars

(* A rank answers the client rank that waits for it.                       *)
LEMMA OtherKeepsProto ==
  ASSUME TypeInv, ProtocolInv, NEW s \in SimRank, s # 0, OtherNext(s),
         UNCHANGED clientVars
  PROVE  TalkInv' /\ RootInv' /\ FetchInv'
<1>t. /\ simPc \in [SimRank -> SimState]
      /\ intercomm \in [SimRank -> Clients \cup {NoClient}]
      /\ toSim \in ToSimType /\ toClient \in ToClientType
      /\ 0 \in SimRank /\ 0 \in ClientRank
      /\ TalkInv /\ RootInv /\ FetchInv
  BY RankZero DEF TypeInv, TypeOK, SimTypeOK, InterCommTypeOK, ToSimType,
                  ToClientType, ProtocolInv
<1> USE <1>t
<1>1. simPc'[0] = simPc[0] /\ UNCHANGED <<newQuery, clientCommand, intercomm>>
  BY DEF OtherNext, ProcessOther, HandleQuery, FinalOther, Return, queryVars
<1>2. RootInv'
  BY <1>1 DEF RootInv
<1>3. CASE ProcessOther(s) \/ FinalOther(s)
  <2>1. UNCHANGED <<toSim, toClient>>
    BY <1>3 DEF ProcessOther, FinalOther, wireVars
  <2> QED
    BY <1>1, <1>2, <2>1, TalkSame, FetchFrame
<1>4. CASE HandleQuery(s)
  <2>1. RegionMessage(s, step[s]) \in RegionMessages
    <3>1. simPc[s] = "query"
      BY <1>4 DEF HandleQuery
    <3>2. step[s] \in 0 .. MaxSteps - 1
      BY <3>1, BoundsAssumption DEF TypeInv, StepsLeft, Processing, TypeOK, SimTypeOK
    <3> QED
      BY <3>2 DEF RegionMessage, RegionMessages
  <2>2. PICK j \in Clients, c \in ClientRank, m \in RegionMessages :
        /\ toSim[j][s][c] # <<>>
        /\ toSim' = [toSim EXCEPT ![j][s][c] = Tail(@)]
        /\ toClient' = [toClient EXCEPT ![j][c][s] = Append(@, m)]
    <3> DEFINE m0 == RegionMessage(s, step[s])
    <3>1. PICK c \in ClientRank :
          /\ intercomm[s] # NoClient /\ toSim[intercomm[s]][s][c] # <<>>
          /\ toSim' = [toSim EXCEPT ![intercomm[s]][s][c] = Tail(@)]
          /\ toClient' = [toClient EXCEPT ![intercomm[s]][c][s] = Append(@, m0)]
      BY <1>4 DEF HandleQuery, Ready, ReceiveFromClient, SendToClient, Timestep
    <3>2. intercomm[s] \in Clients
      BY <3>1
    <3> HIDE DEF m0
    <3>3. m0 \in RegionMessages
      BY <2>1 DEF m0
    <3> QED
      BY <3>1, <3>2, <3>3
  <2>4. /\ toSim'[j][s][c] = Tail(toSim[j][s][c])
        /\ \A i \in Clients, t \in SimRank, d \in ClientRank :
              (i # j \/ t # s \/ d # c) => toSim'[i][t][d] = toSim[i][t][d]
    BY <2>2 DEF ToSimType
  <2>5. /\ toClient'[j][c][s] = Append(toClient[j][c][s], m)
        /\ \A i \in Clients, t \in SimRank, d \in ClientRank :
              (i # j \/ t # s \/ d # c) => toClient'[i][d][t] = toClient[i][d][t]
    BY <2>2 DEF ToClientType
  <2>6. TalkInv'
    BY <1>1, <2>4, <2>5, TalkSame
  <2>7. ASSUME NEW i \in Clients, NEW t \in SimRank, NEW d \in ClientRank,
               t # 0 \/ d # 0
        PROVE  Fetch(toSim[i][t][d], toClient[i][d][t], WaitsFor(i, d, t))'
    <3>1. Fetch(toSim[i][t][d], toClient[i][d][t], WaitsFor(i, d, t))
      BY <2>7 DEF FetchInv, FetchOf
    <3>2. WaitsFor(i, d, t)' <=> WaitsFor(i, d, t)
      BY DEF WaitsFor, NextRegion, clientVars
    <3>3. CASE i # j \/ t # s \/ d # c
      <4>1. toSim'[i][t][d] = toSim[i][t][d] /\ toClient'[i][d][t] = toClient[i][d][t]
        BY <2>4, <2>5, <3>3
      <4> QED
        BY <3>1, <3>2, <4>1 DEF Fetch
    <3>4. CASE i = j /\ t = s /\ d = c
      <4>1. /\ WaitsFor(i, d, t) /\ toSim[i][t][d] = <<"PING">>
            /\ toClient[i][d][t] = <<>>
        BY <2>2, <3>1, <3>4 DEF Fetch
      <4>2. toSim'[i][t][d] = <<>> /\ toClient'[i][d][t] = <<m>>
        BY <2>4, <2>5, <3>4, <4>1, OneMessage
      <4> QED
        BY <3>2, <4>1, <4>2 DEF Fetch
    <3> QED
      BY <3>3, <3>4
  <2>8. FetchInv'
    BY <2>7 DEF FetchInv, FetchOf
  <2> QED
    BY <1>2, <2>6, <2>8
<1> QED
  BY <1>3, <1>4 DEF OtherNext

(* The listener publishes only while no client is connected.               *)
LEMMA ListenerKeepsProto ==
  ASSUME TypeInv, ProtocolInv, QuietInv, Listener
  PROVE  TalkInv' /\ RootInv' /\ FetchInv'
<1>1. UNCHANGED clientVars /\ UNCHANGED <<toSim, toClient, simPc, intercomm>>
  BY DEF Listener, ListenerNext, ListenerBind, ListenerAccept, ListenerStartRead,
         ListenerExit, ListenerReadError, ListenerRead, ListenerPublish,
         ListenerClose, tcpVars, wireVars, rankVars
<1>2. TalkInv' /\ FetchInv'
  BY <1>1, TalkSame, FetchFrame DEF ProtocolInv
<1>3. CASE ListenerPublish
  <2>1. intercomm[0] = NoClient /\ clientCommand' = "CONNECT"
    BY <1>3 DEF ListenerPublish, QuietInv, Busy
  <2> QED
    BY <1>1, <1>2, <2>1 DEF ProtocolInv, RootInv
<1>4. CASE ~ListenerPublish
  <2>1. UNCHANGED <<newQuery, clientCommand>>
    BY <1>4 DEF Listener, ListenerNext, ListenerBind, ListenerAccept, ListenerStartRead,
         ListenerExit, ListenerReadError, ListenerRead, ListenerClose, queryVars
  <2> QED
    BY <1>1, <1>2, <2>1 DEF ProtocolInv, RootInv
<1> QED
  BY <1>3, <1>4

(* The intercommunicator of rank 0 is destroyed.                           *)
LEMMA TalkDropped ==
  ASSUME NEW p, NEW up, NEW down, NEW r, NEW q, NEW conn, NEW n, NEW req,
         Talk(p, up, down, r, conn, n, req), r \in {"drop", "finDrop"}
  PROVE  Talk(p, up, down, q, FALSE, n, req)
BY DEF Talk, Attentive

(* Rank 0 is connected or between sessions, never half of each.            *)
LEMMA RootDropped ==
  ASSUME ProtocolInv, NEW R, Dropped(R), 0 \in R => simPc[0] \in {"drop", "finDrop"}
  PROVE  /\ RootInv'
         /\ IF 0 \in R THEN intercomm'[0] = NoClient
            ELSE simPc'[0] = simPc[0] /\ intercomm'[0] = intercomm[0]
<1>1. UNCHANGED <<newQuery, clientCommand>>
  BY DEF Dropped, queryVars
<1>2. CASE 0 \in R
  <2>1. intercomm'[0] = NoClient /\ simPc'[0] \in {"gone", "rejoin"}
    BY <1>2, RankZero DEF Dropped
  <2> QED
    BY <1>2, <2>1 DEF RootInv
<1>3. CASE 0 \notin R
  <2>1. simPc'[0] = simPc[0] /\ intercomm'[0] = intercomm[0]
    BY <1>3, RankZero DEF Dropped
  <2> QED
    BY <1>1, <1>3, <2>1 DEF ProtocolInv, RootInv
<1> QED
  BY <1>2, <1>3

(* One rank destroys its sockets; the job is past its last message.        *)
LEMMA DropAloneKeepsProto ==
  ASSUME ProtocolInv, NEW s \in SimRank, DropAlone(s)
  PROVE  TalkInv' /\ RootInv' /\ FetchInv'
<1>1. UNCHANGED clientVars /\ UNCHANGED <<toSim, toClient>>
  BY DEF DropAlone, wireVars
<1>2. Dropped({s}) /\ (0 \in {s} => simPc[0] \in {"drop", "finDrop"})
  BY DEF DropAlone, Dropping
<1>3. FetchInv'
  BY <1>1, FetchFrame DEF ProtocolInv
<1>4. RootInv'
  BY <1>2, RootDropped
<1>5. CASE s # 0
  <2>1. simPc'[0] = simPc[0] /\ intercomm'[0] = intercomm[0]
    BY <1>2, <1>5, RootDropped
  <2> QED
    BY <1>1, <1>3, <1>4, <2>1, TalkSame DEF ProtocolInv
<1>6. CASE s = 0
  <2>1. intercomm'[0] = NoClient /\ simPc[0] \in {"drop", "finDrop"}
    BY <1>2, <1>6, RootDropped
  <2>2. ASSUME NEW i \in Clients PROVE TalkOf(i)'
    <3>1. Talk(clientPc[i][0], toSim[i][0][0], toClient[i][0][0], simPc[0],
               intercomm[0] = i, Len(regions[i][0]), request[i])
      BY DEF ProtocolInv, TalkInv, TalkOf
    <3>2. Talk(clientPc[i][0], toSim[i][0][0], toClient[i][0][0], simPc'[0],
               FALSE, Len(regions[i][0]), request[i])
      BY <2>1, <3>1, TalkDropped
    <3>3. intercomm'[0] # i
      BY <2>1, ClientsAssumption
    <3>4. UNCHANGED <<clientPc, regions, request>>
      BY <1>1 DEF clientVars
    <3> QED
      BY <1>1, <3>2, <3>3, <3>4 DEF TalkOf
  <2> QED
    BY <1>3, <1>4, <2>2 DEF TalkInv
<1> QED
  BY <1>5, <1>6

(* Ranks of a client leave.                                                *)
LEMMA TalkLeft ==
  ASSUME NEW up, NEW down, NEW r, NEW conn, NEW n, NEW req,
         Talk("leaving", up, down, r, conn, n, req)
  PROVE  Talk("gone", up, down, r, conn, n, req)
BY DEF Talk, Outside

(* A job leaves only with empty channels to rank 0.                        *)
LEMMA LeftKeepsProto ==
  ASSUME TypeInv, ProtocolInv, NEW j \in Clients, NEW R \in SUBSET ClientRank,
         \A c \in R : clientPc[j][c] = "leaving",
         Left(j, R), UNCHANGED wireVars
  PROVE  /\ FetchInv' /\ QueryInv'
         /\ \A i \in Clients :
              Talk(clientPc'[i][0], toSim'[i][0][0], toClient'[i][0][0],
                   simPc[0], intercomm[0] = i, Len(regions'[i][0]), request'[i])
<1>1. /\ clientPc \in [Clients -> [ClientRank -> ClientState]]
      /\ 0 \in ClientRank
      /\ clientPc' = [clientPc EXCEPT ![j] =
           [c \in ClientRank |-> IF c \in R THEN "gone" ELSE clientPc[j][c]]]
      /\ UNCHANGED <<request, regions, toSim, toClient>>
  BY RankZero DEF TypeInv, TypeOK, ClientTypeOK, Left, wireVars
<1>2. ASSUME NEW i \in Clients, NEW c \in ClientRank
      PROVE  \/ clientPc'[i][c] = clientPc[i][c]
             \/ clientPc[i][c] = "leaving" /\ clientPc'[i][c] = "gone"
  BY <1>1
<1>3. QueryInv'
  <2> SUFFICES ASSUME NEW i \in Clients, NEW c \in ClientRank,
                      clientPc'[i][c] \in Querying
               PROVE  clientPc'[i][0] \in Querying
    BY DEF QueryInv, QueryOf
  <2>1. clientPc[i][c] \in Querying
    BY <1>2 DEF Querying
  <2>2. clientPc[i][0] \in Querying
    BY <2>1 DEF ProtocolInv, QueryInv, QueryOf
  <2> QED
    BY <1>1, <1>2, <2>2 DEF Querying
<1>4. FetchInv'
  <2> SUFFICES ASSUME NEW i \in Clients, NEW s \in SimRank, NEW d \in ClientRank,
                      s # 0 \/ d # 0
               PROVE  Fetch(toSim[i][s][d], toClient[i][d][s], WaitsFor(i, d, s))'
    BY DEF FetchInv, FetchOf
  <2>1. Fetch(toSim[i][s][d], toClient[i][d][s], WaitsFor(i, d, s))
    BY DEF ProtocolInv, FetchInv, FetchOf
  <2>2. NextRegion(i, d)' = NextRegion(i, d)
    BY <1>1 DEF NextRegion
  <2>3. WaitsFor(i, d, s)' <=> WaitsFor(i, d, s)
    BY <1>2, <2>2 DEF WaitsFor
  <2> QED
    BY <1>1, <2>1, <2>3 DEF Fetch
<1>5. ASSUME NEW i \in Clients
      PROVE  Talk(clientPc'[i][0], toSim'[i][0][0], toClient'[i][0][0],
                  simPc[0], intercomm[0] = i, Len(regions'[i][0]), request'[i])
  <2>1. Talk(clientPc[i][0], toSim[i][0][0], toClient[i][0][0],
             simPc[0], intercomm[0] = i, Len(regions[i][0]), request[i])
    BY DEF ProtocolInv, TalkInv, TalkOf
  <2>2. Talk(clientPc'[i][0], toSim[i][0][0], toClient[i][0][0],
             simPc[0], intercomm[0] = i, Len(regions[i][0]), request[i])
    <3>1. CASE clientPc'[i][0] = clientPc[i][0]
      BY <2>1, <3>1
    <3>2. CASE clientPc[i][0] = "leaving" /\ clientPc'[i][0] = "gone"
      <4>1. Talk("leaving", toSim[i][0][0], toClient[i][0][0],
                 simPc[0], intercomm[0] = i, Len(regions[i][0]), request[i])
        BY <2>1, <3>2
      <4>2. Talk("gone", toSim[i][0][0], toClient[i][0][0],
                 simPc[0], intercomm[0] = i, Len(regions[i][0]), request[i])
        BY <4>1, TalkLeft
      <4> QED
        BY <3>2, <4>2
    <3> QED
      BY <1>1, <1>2, <3>1, <3>2
  <2> QED
    BY <1>1, <2>2
<1> QED
  BY <1>3, <1>4, <1>5

(* One rank of a client closes its sockets.                                *)
LEMMA LeaveAloneKeepsProto ==
  ASSUME TypeInv, ProtocolInv, NEW j \in Clients, NEW c \in ClientRank, LeaveAlone(j, c)
  PROVE  ProtocolInv'
<1>1. /\ Left(j, {c}) /\ UNCHANGED wireVars
      /\ \A d \in {c} : clientPc[j][d] = "leaving"
      /\ UNCHANGED <<simPc, intercomm, newQuery, clientCommand>>
  BY DEF LeaveAlone, simVars, queryVars, rankVars
<1>2. FetchInv' /\ QueryInv'
  BY <1>1, LeftKeepsProto
<1>3. TalkInv'
  <2>1. \A i \in Clients :
          Talk(clientPc'[i][0], toSim'[i][0][0], toClient'[i][0][0],
               simPc[0], intercomm[0] = i, Len(regions'[i][0]), request'[i])
    BY <1>1, LeftKeepsProto
  <2> QED
    BY <1>1, <2>1 DEF TalkInv, TalkOf
<1>4. RootInv'
  BY <1>1 DEF ProtocolInv, RootInv
<1> QED
  BY <1>2, <1>3, <1>4 DEF ProtocolInv

(* The collective operations: only a job that has not talked is connected. *)
LEMMA TogetherKeepsProto ==
  ASSUME TypeInv, ProtocolInv, NEW j \in Clients, Together(j)
  PROVE  ProtocolInv'
<1>t. /\ clientPc \in [Clients -> [ClientRank -> ClientState]]
      /\ 0 \in SimRank /\ 0 \in ClientRank
  BY RankZero DEF TypeInv, TypeOK, ClientTypeOK
<1> USE <1>t
<1>1. CASE DisconnectTogether(j)
  <2>1. /\ Left(j, ClientRank) /\ UNCHANGED wireVars /\ Dropped(SimRank)
        /\ \A d \in ClientRank : clientPc[j][d] = "leaving"
        /\ simPc[0] \in {"drop", "finDrop"}
    BY <1>1 DEF DisconnectTogether, AllRanks, Dropping, wireVars
  <2>2. FetchInv' /\ QueryInv'
    BY <2>1, LeftKeepsProto
  <2>3. RootInv' /\ intercomm'[0] = NoClient
    BY <2>1, RootDropped
  <2>4. ASSUME NEW i \in Clients PROVE TalkOf(i)'
    <3>1. Talk(clientPc'[i][0], toSim'[i][0][0], toClient'[i][0][0],
               simPc[0], intercomm[0] = i, Len(regions'[i][0]), request'[i])
      BY <2>1, LeftKeepsProto
    <3>2. Talk(clientPc'[i][0], toSim'[i][0][0], toClient'[i][0][0],
               simPc'[0], FALSE, Len(regions'[i][0]), request'[i])
      BY <2>1, <3>1, TalkDropped
    <3>3. intercomm'[0] # i
      BY <2>3, ClientsAssumption
    <3> QED
      BY <3>2, <3>3 DEF TalkOf
  <2> QED
    BY <2>2, <2>3, <2>4 DEF ProtocolInv, TalkInv
<1>2. CASE Establish(j)
  <2>1. /\ simPc[0] \in {"connect", "finConnect"} /\ clientPc[j][0] = "accepting"
        /\ \A c \in ClientRank : clientPc[j][c] = "accepting"
        /\ simPc'[0] = IF simPc[0] = "finConnect" THEN "finGreet" ELSE "greet"
        /\ intercomm'[0] = j
        /\ clientPc' = [clientPc EXCEPT ![j] = [c \in ClientRank |-> "greeting"]]
        /\ UNCHANGED <<toSim, toClient, regions, request>>
    BY <1>2 DEF Establish, ConnectingTo, AllRanks, Connected, AllGoTo, wireVars
  <2>2. intercomm[0] = NoClient
    BY <2>1 DEF ProtocolInv, RootInv
  <2>3. RootInv'
    BY <2>1, ClientsAssumption DEF RootInv
  <2>4. TalkOf(j)'
    <3>1. toSim[j][0][0] = <<>> /\ toClient[j][0][0] = <<>>
      BY <2>1 DEF ProtocolInv, TalkInv, TalkOf, Talk, Outside
    <3>2. clientPc'[j][0] = "greeting"
      BY <2>1
    <3> QED
      BY <2>1, <3>1, <3>2 DEF TalkOf, Talk, Outside
  <2>5. ASSUME NEW i \in Clients, i # j PROVE TalkOf(i)'
    <3>1. Talk(clientPc[i][0], toSim[i][0][0], toClient[i][0][0], simPc[0],
               FALSE, Len(regions[i][0]), request[i])
      BY <2>2, ClientsAssumption DEF ProtocolInv, TalkInv, TalkOf
    <3>2. Talk(clientPc[i][0], toSim[i][0][0], toClient[i][0][0], simPc'[0],
               FALSE, Len(regions[i][0]), request[i])
      BY <3>1, TalkAway
    <3>3. intercomm'[0] # i /\ clientPc'[i][0] = clientPc[i][0]
      BY <2>1, <2>5
    <3> QED
      BY <2>1, <3>2, <3>3 DEF TalkOf
  <2>6. FetchInv'
    <3> SUFFICES ASSUME NEW i \in Clients, NEW s \in SimRank, NEW d \in ClientRank,
                        s # 0 \/ d # 0
                 PROVE  Fetch(toSim[i][s][d], toClient[i][d][s], WaitsFor(i, d, s))'
      BY DEF FetchInv, FetchOf
    <3>1. Fetch(toSim[i][s][d], toClient[i][d][s], WaitsFor(i, d, s))
      BY DEF ProtocolInv, FetchInv, FetchOf
    <3>2. NextRegion(i, d)' = NextRegion(i, d)
      BY <2>1 DEF NextRegion
    <3>3. WaitsFor(i, d, s)' <=> WaitsFor(i, d, s)
      BY <2>1, <3>2 DEF WaitsFor
    <3> QED
      BY <2>1, <3>1, <3>3 DEF Fetch
  <2>7. QueryInv'
    BY <2>1 DEF ProtocolInv, QueryInv, QueryOf, Querying
  <2> QED
    BY <2>3, <2>4, <2>5, <2>6, <2>7 DEF ProtocolInv, TalkInv
<1> QED
  BY <1>1, <1>2 DEF Together

(* The steps of a job, for itself and for the other jobs.                  *)
LEMMA ClientKeepsProto ==
  ASSUME TypeInv, ProtocolInv, NEW j \in Clients, ClientNext(j), UNCHANGED simVars
  PROVE  ProtocolInv'
<1>1. UNCHANGED <<simPc, intercomm, newQuery, clientCommand>>
  BY DEF simVars, queryVars, rankVars
<1>2. RootInv'
  BY <1>1 DEF ProtocolInv, RootInv
<1>3. TalkOf(j)' /\ FetchOf(j)' /\ QueryOf(j)'
  BY ClientTalks, ClientFetches, ClientQueries
<1>4. ASSUME NEW i \in Clients, i # j
      PROVE  TalkOf(i)' /\ FetchOf(i)' /\ QueryOf(i)'
  <2>1. /\ clientPc'[i] = clientPc[i] /\ request'[i] = request[i]
        /\ regions'[i] = regions[i]
        /\ toSim'[i] = toSim[i] /\ toClient'[i] = toClient[i]
    BY <1>4, OtherJobs
  <2>2. TalkOf(i) /\ FetchOf(i) /\ QueryOf(i)
    BY DEF ProtocolInv, TalkInv, FetchInv, QueryInv
  <2>3. TalkOf(i)'
    BY <1>1, <2>1, <2>2 DEF TalkOf
  <2>4. FetchOf(i)'
    BY <2>1, <2>2 DEF FetchOf, WaitsFor, NextRegion
  <2>5. QueryOf(i)'
    BY <2>1, <2>2 DEF QueryOf
  <2> QED
    BY <2>3, <2>4, <2>5
<1> QED
  BY <1>2, <1>3, <1>4 DEF ProtocolInv, TalkInv, FetchInv, QueryInv

(* Every step keeps the protocol.                                          *)
LEMMA ProtoNext == TypeInv /\ QuietInv /\ ProtocolInv /\ [Next]_vars => ProtocolInv'
<1> SUFFICES ASSUME TypeInv, QuietInv, ProtocolInv, [Next]_vars PROVE ProtocolInv'
  OBVIOUS
<1>1. ASSUME UNCHANGED clientVars PROVE QueryInv'
  BY <1>1 DEF ProtocolInv, QueryInv, QueryOf, clientVars
<1>2. CASE Listener
  BY <1>1, <1>2, ListenerKeepsProto DEF Listener, ProtocolInv
<1>3. ASSUME NEW s \in SimRank, DropAlone(s)
      PROVE  ProtocolInv'
  BY <1>1, <1>3, DropAloneKeepsProto DEF DropAlone, ProtocolInv
<1>4. CASE Root
  BY <1>1, <1>3, <1>4, RootKeepsProto, RankZero DEF Root, ProtocolInv
<1>5. ASSUME NEW s \in SimRank \ {0}, Other(s)
      PROVE  ProtocolInv'
  BY <1>1, <1>3, <1>5, OtherKeepsProto DEF Other, ProtocolInv
<1>6. ASSUME NEW j \in Clients, Client(j)
      PROVE  ProtocolInv'
  BY <1>6, ClientKeepsProto, LeaveAloneKeepsProto DEF Client
<1>7. ASSUME NEW j \in Clients, Together(j)
      PROVE  ProtocolInv'
  BY <1>7, TogetherKeepsProto
<1>8. CASE Done \/ UNCHANGED vars
  <2>1. UNCHANGED <<clientVars, wireVars, simPc, intercomm, newQuery, clientCommand>>
    BY <1>8 DEF Done, vars, simVars, queryVars, rankVars
  <2>2. TalkInv' /\ FetchInv'
    BY <2>1, TalkSame, FetchFrame DEF ProtocolInv, wireVars
  <2>3. RootInv'
    BY <2>1 DEF ProtocolInv, RootInv
  <2> QED
    BY <1>1, <2>1, <2>2, <2>3 DEF ProtocolInv
<1> QED
  BY <1>2, <1>4, <1>5, <1>6, <1>7, <1>8 DEF Next

(* The invariant leaves room for one message per pair of ranks.            *)
LEMMA ProtoAlternation ==
  ASSUME TypeInv, ProtocolInv
  PROVE  StrictAlternation
<1> SUFFICES ASSUME NEW j \in Clients, NEW s \in SimRank, NEW c \in ClientRank
             PROVE  Len(toSim[j][s][c]) + Len(toClient[j][c][s]) <= 1
  BY DEF StrictAlternation
<1> DEFINE up == toSim[j][s][c]
           down == toClient[j][c][s]
<1>1. \/ up = <<>> /\ down = <<>>
      \/ up = <<>> /\ \E x : down = <<x>>
      \/ down = <<>> /\ \E x : up = <<x>>
  <2>1. CASE s # 0 \/ c # 0
    <3>1. Fetch(up, down, WaitsFor(j, c, s))
      BY <2>1 DEF ProtocolInv, FetchInv, FetchOf
    <3> HIDE DEF up, down
    <3> QED
      BY <3>1 DEF Fetch
  <2>2. CASE s = 0 /\ c = 0
    <3>1. /\ Talk(clientPc[j][0], up, down, simPc[0], intercomm[0] = j,
                  Len(regions[j][0]), request[j])
          /\ clientPc[j][0] \in ClientState
      BY <2>2, RankZero DEF ProtocolInv, TalkInv, TalkOf, TypeInv, TypeOK, ClientTypeOK
    <3> HIDE DEF up, down
    <3> QED
      BY <3>1 DEF Talk, ClientState, Outside, QuitF, QuitT
  <2> QED
    BY <2>1, <2>2
<1> HIDE DEF up, down
<1>2. Len(up) + Len(down) <= 1
  <2>1. Len(<<>>) = 0
    OBVIOUS
  <2>2. ASSUME NEW x PROVE Len(<<x>>) = 1
    OBVIOUS
  <2>3. CASE up = <<>> /\ down = <<>>
    BY <2>1, <2>3
  <2>4. CASE up = <<>> /\ \E x : down = <<x>>
    <3>1. Len(down) = 1
      BY <2>2, <2>4
    <3> QED
      BY <2>1, <2>4, <3>1
  <2>5. CASE down = <<>> /\ \E x : up = <<x>>
    <3>1. Len(up) = 1
      BY <2>2, <2>5
    <3> QED
      BY <2>1, <2>5, <3>1
  <2> QED
    BY <1>1, <2>3, <2>4, <2>5
<1> QED
  BY <1>2 DEF up, down

(* When rank 0 has sent its quit, nobody connected is left to be told.     *)
LEMMA ProtoTold ==
  ASSUME ProtocolInv
  PROVE  ConnectedClientsAreTold
<1> SUFFICES ASSUME simPc[0] \in {"finDrop", "gone"}, NEW j \in Clients
             PROVE  /\ clientPc[j][0] # "ready"
                    /\ clientPc[j][0] = "greeting" =>
                         toClient[j][0][0] = <<QuitMessage(TRUE)>>
                    /\ clientPc[j][0] = "awaitQuit" =>
                         \E q \in BOOLEAN :
                           /\ toClient[j][0][0] = <<QuitMessage(q)>>
                           /\ request[j] = "QUERY" => q
  BY DEF ConnectedClientsAreTold
<1>1. Talk(clientPc[j][0], toSim[j][0][0], toClient[j][0][0], simPc[0],
           intercomm[0] = j, Len(regions[j][0]), request[j])
  BY DEF ProtocolInv, TalkInv, TalkOf
<1>2. clientPc[j][0] # "ready"
  BY <1>1 DEF Talk, Attentive
<1>3. ASSUME clientPc[j][0] = "greeting"
      PROVE  toClient[j][0][0] = QuitT
  BY <1>1, <1>3 DEF Talk, Attentive
<1>4. ASSUME clientPc[j][0] = "awaitQuit"
      PROVE  \/ toClient[j][0][0] = QuitF /\ request[j] = "DISCONNECT"
             \/ toClient[j][0][0] = QuitT
  BY <1>1, <1>4 DEF Talk, Attentive
<1>5. ASSUME clientPc[j][0] = "awaitQuit"
      PROVE  \E q \in BOOLEAN : /\ toClient[j][0][0] = <<QuitMessage(q)>>
                                /\ request[j] = "QUERY" => q
  <2>1. CASE toClient[j][0][0] = QuitF /\ request[j] = "DISCONNECT"
    <3> WITNESS FALSE \in BOOLEAN
    <3> QED
      BY <2>1 DEF QuitF
  <2>2. CASE toClient[j][0][0] = QuitT
    <3> WITNESS TRUE \in BOOLEAN
    <3> QED
      BY <2>2 DEF QuitT
  <2> QED
    BY <1>4, <1>5, <2>1, <2>2
<1> QED
  BY <1>2, <1>3, <1>5 DEF QuitT

(* What is in a channel is what its receiver is about to read.             *)
LEMMA ProtoInts ==
  ASSUME TypeInv, ProtocolInv
  PROVE  IntsNotConfused
<1>t. /\ intercomm \in [SimRank -> Clients \cup {NoClient}]
      /\ clientPc \in [Clients -> [ClientRank -> ClientState]]
      /\ request \in [Clients -> Command \cup {"CONNECT"}]
      /\ ClientTypeOK
      /\ 0 \in SimRank /\ 0 \in ClientRank
  BY RankZero DEF TypeInv, TypeOK, ClientTypeOK, SimTypeOK
<1> USE <1>t
<1>1. ASSUME NEW j \in Clients, NEW s \in SimRank, NEW c \in ClientRank,
             s # 0 \/ c # 0
      PROVE  Fetch(toSim[j][s][c], toClient[j][c][s], WaitsFor(j, c, s))
  BY <1>1 DEF ProtocolInv, FetchInv, FetchOf
<1>2. ASSUME NEW j \in Clients
      PROVE  Talk(clientPc[j][0], toSim[j][0][0], toClient[j][0][0], simPc[0],
                  intercomm[0] = j, Len(regions[j][0]), request[j])
  BY DEF ProtocolInv, TalkInv, TalkOf
<1>3. ASSUME NEW s \in SimRank, NEW c \in ClientRank, NEW j \in Clients,
             intercomm[s] = j, toSim[j][s][c] # <<>>
      PROVE  /\ s = 0 /\ simPc[0] \in {"run", "finRecv"} =>
                  Head(toSim[j][s][c]) \in Command
             /\ simPc[s] = "query" => Head(toSim[j][s][c]) = "PING"
  <2>1. CASE s # 0 \/ c # 0
    <3>1. WaitsFor(j, c, s) /\ toSim[j][s][c] = <<"PING">>
      BY <1>1, <1>3, <2>1 DEF Fetch
    <3>2. s # 0
      <4>1. Unfinished(j, c)
        BY <3>1 DEF WaitsFor, TypeInv, WaitsForRegion
      <4> QED
        BY <2>1, <3>1, <4>1, FirstRegion DEF WaitsFor
    <3> QED
      BY <3>1, <3>2, OneMessage
  <2>2. CASE s = 0 /\ c = 0
    <3>1. /\ Talk(clientPc[j][0], toSim[j][0][0], toClient[j][0][0], simPc[0],
                  intercomm[0] = j, Len(regions[j][0]), request[j])
          /\ intercomm[0] = j /\ toSim[j][0][0] # <<>>
          /\ clientPc[j][0] \in ClientState
      BY <1>2, <1>3, <2>2
    <3>2. ASSUME Attentive(simPc[0])
          PROVE  request[j] \in Command /\ toSim[j][0][0] = <<request[j]>>
      BY <3>1, <3>2 DEF Talk, Attentive, ClientState, Outside
    <3>3. ASSUME simPc[0] = "query"
          PROVE  toSim[j][0][0] = <<"PING">>
      BY <3>1, <3>3 DEF Talk, Attentive, ClientState, Outside
    <3> QED
      BY <2>2, <3>2, <3>3, OneMessage DEF Attentive
  <2> QED
    BY <2>1, <2>2
<1>4. ASSUME NEW j \in Clients, NEW c \in ClientRank, NEW s \in SimRank,
             toClient[j][c][s] # <<>>
      PROVE  IF clientPc[j][c] = "waiting"
             THEN s = NextRegion(j, c) /\ Head(toClient[j][c][s]) \in RegionMessages
             ELSE c = 0 /\ s = 0 /\ Head(toClient[j][c][s]) \in QuitMessages
  <2>1. CASE s # 0 \/ c # 0
    <3>1. WaitsFor(j, c, s) /\ \E m \in RegionMessages : toClient[j][c][s] = <<m>>
      BY <1>1, <1>4, <2>1 DEF Fetch
    <3> QED
      BY <3>1, OneMessage DEF WaitsFor
  <2>2. CASE s = 0 /\ c = 0
    <3>1. /\ Talk(clientPc[j][0], toSim[j][0][0], toClient[j][0][0], simPc[0],
                  intercomm[0] = j, Len(regions[j][0]), request[j])
          /\ toClient[j][0][0] # <<>>
          /\ clientPc[j][0] \in ClientState
      BY <1>2, <1>4, <2>2
    <3>2. CASE clientPc[j][0] = "waiting"
      <4>1. /\ Len(regions[j][0]) = 0
            /\ \E m \in RegionMessages : toClient[j][0][0] = <<m>>
        BY <3>1, <3>2 DEF Talk, Outside
      <4>2. NextRegion(j, 0) = 0
        BY <4>1, FirstRegion
      <4> QED
        BY <2>2, <3>2, <4>1, <4>2, OneMessage
    <3>3. CASE clientPc[j][0] # "waiting"
      <4>1. toClient[j][0][0] \in {QuitF, QuitT}
        BY <3>1, <3>3 DEF Talk, ClientState, Outside
      <4>2. Head(toClient[j][0][0]) \in QuitMessages
        BY <4>1, OneMessage DEF QuitF, QuitT, QuitMessages
      <4> QED
        BY <2>2, <3>3, <4>2
    <3> QED
      BY <3>2, <3>3
  <2> QED
    BY <2>1, <2>2
<1>5. ASSUME NEW s \in SimRank, NEW c \in ClientRank, intercomm[s] # NoClient
      PROVE  LET queue == toSim[intercomm[s]][s][c] IN
               queue # <<>> =>
                 /\ s = 0 /\ simPc[0] \in {"run", "finRecv"} =>
                      Head(queue) \in Command
                 /\ simPc[s] = "query" => Head(queue) = "PING"
  <2>1. intercomm[s] \in Clients
    BY <1>5
  <2> QED
    BY <1>3, <2>1
<1> QED
  BY <1>4, <1>5 DEF IntsNotConfused

SafeInv == TypeInv /\ QuietInv /\ ProtocolInv

(* Every reachable state satisfies the invariant above: the dialogue of    *)
(* process() and the destructor (is_sim.cpp, lines 72-101 and 191-238)     *)
(* with query() and disconnect() (is_client.cpp, lines 82-241) stays in    *)
(* step, over any number of sessions and ranks.                            *)
THEOREM ProtocolKept == Spec => []SafeInv
<1>1. Init => SafeInv
  BY TypeInvInit, QuietInit, ProtoInit DEF SafeInv
<1>2. SafeInv /\ [Next]_vars => SafeInv'
  BY TypeInvNext, QuietNext, ProtoNext DEF SafeInv
<1> QED
  BY <1>1, <1>2, PTL DEF Spec

(* At most one message is under way between two ranks, so that no send of  *)
(* either side can overtake or be taken for another.                       *)
THEOREM OneMessageUnderWay == Spec => []StrictAlternation
<1>1. SafeInv => StrictAlternation
  BY ProtoAlternation DEF SafeInv
<1> QED
  BY <1>1, ProtocolKept, PTL

(* Whoever receives a bare int gets the kind it expects: commands, pings   *)
(* and replies share one channel and one tag.                              *)
THEOREM EveryIntIsExpected == Spec => []IntsNotConfused
<1>1. SafeInv => IntsNotConfused
  BY ProtoInts DEF SafeInv
<1> QED
  BY <1>1, ProtocolKept, PTL

(* Once the destructor has sent its quit (is_sim.cpp, lines 82-98), no    *)
(* connected client is left without an answer.                             *)
THEOREM ClientsAreTold == Spec => []ConnectedClientsAreTold
<1>1. SafeInv => ConnectedClientsAreTold
  BY ProtoTold DEF SafeInv
<1> QED
  BY <1>1, ProtocolKept, PTL

(* Rank 0 never reaches the throws of is_sim.cpp, lines 234 and 242: the   *)
(* command it takes up is one of the three, and CONNECT finds no client.   *)
THEOREM RootNeverThrows == Spec => [](simPc[0] # "threw")
<1>1. SafeInv => simPc[0] # "threw"
  BY DEF SafeInv, ProtocolInv, RootInv
<1> QED
  BY <1>1, ProtocolKept, PTL

-----------------------------------------------------------------------------
(***************************************************************************)
(* The broadcasts: FollowInv of Broadcasts.  First a queue of them, after  *)
(* rank 0 adds an entry and after another rank takes one.                  *)
(***************************************************************************)

LEMMA QueueAppend ==
  ASSUME NEW b \in Seq(Entry), NEW e \in Entry
  PROVE  /\ Append(b, e) \in Seq(Entry) /\ Append(b, e) # <<>>
         /\ Len(b) \in Nat /\ Len(Append(b, e)) = Len(b) + 1
         /\ Append(b, e)[Len(b) + 1] = e
         /\ \A k \in 1 .. Len(b) : Append(b, e)[k] = b[k]
OBVIOUS

LEMMA QueueTail ==
  ASSUME NEW b \in Seq(Entry), b # <<>>
  PROVE  /\ Tail(b) \in Seq(Entry)
         /\ Len(b) \in Nat /\ Len(b) >= 1 /\ Len(Tail(b)) = Len(b) - 1
         /\ Head(b) = b[1] /\ b[1] \in Entry
         /\ \A k \in 1 .. Len(b) - 1 : Tail(b)[k] = b[k + 1]
         /\ (Tail(b) = <<>> <=> Len(b) = 1)
<1>1. /\ Tail(b) \in Seq(Entry)
      /\ Len(b) \in Nat /\ Len(b) >= 1 /\ Len(Tail(b)) = Len(b) - 1
  OBVIOUS
<1>2. /\ Head(b) = b[1] /\ b[1] \in Entry
      /\ \A k \in 1 .. Len(b) - 1 : Tail(b)[k] = b[k + 1]
  OBVIOUS
<1>3. \A q \in Seq(Entry) : (q = <<>>) <=> (Len(q) = 0)
  OBVIOUS
<1>4. (Tail(b) = <<>>) <=> (Len(b) = 1)
  <2> DEFINE a == Tail(b)
  <2>1. a \in Seq(Entry) /\ Len(b) \in Nat /\ Len(a) = Len(b) - 1
    BY <1>1
  <2> HIDE DEF a
  <2>2. (a = <<>>) <=> (Len(a) = 0)
    BY <1>3, <2>1
  <2>3. (Len(a) = 0) <=> (Len(b) = 1)
    BY <2>1
  <2> QED
    BY <2>2, <2>3 DEF a
<1> QED
  BY <1>1, <1>2, <1>4

LEMMA IdleAppend ==
  ASSUME NEW b \in Seq(Entry), NEW e \in Entry
  PROVE  /\ \A n \in 0 .. Len(b) : Idle(b, n) => Idle(Append(b, e), n)
         /\ Idle(b, Len(b)) /\ e.cmd = "NONE" => Idle(Append(b, e), Len(b) + 1)
         /\ Idle(b, Len(b)) => Only(Append(b, e), Len(b) + 1, Len(b) + 1, e.cmd)
<1> DEFINE a == Append(b, e)
<1>1. /\ Len(b) \in Nat /\ a[Len(b) + 1] = e
      /\ \A k \in 1 .. Len(b) : a[k] = b[k]
  BY QueueAppend
<1> HIDE DEF a
<1>2. Len(b) + 1 \in 1 .. Len(b) + 1
  BY <1>1
<1>3. \A k \in 1 .. Len(b) + 1 : k \in 1 .. Len(b) \/ k = Len(b) + 1
  BY <1>1
<1>4. \A n \in 0 .. Len(b) : \A k \in 1 .. n : k \in 1 .. Len(b)
  BY <1>1
<1>5. \A n \in 0 .. Len(b) : Idle(b, n) => Idle(a, n)
  BY <1>1, <1>4 DEF Idle
<1>6. Idle(b, Len(b)) /\ e.cmd = "NONE" => Idle(a, Len(b) + 1)
  BY <1>1, <1>3 DEF Idle
<1>7. Idle(b, Len(b)) => Only(a, Len(b) + 1, Len(b) + 1, e.cmd)
  BY <1>1, <1>2, <1>3 DEF Idle, Only
<1> QED
  BY <1>5, <1>6, <1>7 DEF a

LEMMA OnlyAppend ==
  ASSUME NEW b \in Seq(Entry), NEW e \in Entry, NEW i, NEW cmd
  PROVE  /\ \A n \in 0 .. Len(b) : Only(b, n, i, cmd) => Only(Append(b, e), n, i, cmd)
         /\ Only(b, Len(b), i, cmd) /\ e.cmd = "NONE" =>
              Only(Append(b, e), Len(b) + 1, i, cmd)
<1> DEFINE a == Append(b, e)
<1>1. /\ Len(b) \in Nat /\ a[Len(b) + 1] = e
      /\ \A k \in 1 .. Len(b) : a[k] = b[k]
  BY QueueAppend
<1> HIDE DEF a
<1>3. \A k \in 1 .. Len(b) + 1 : k \in 1 .. Len(b) \/ k = Len(b) + 1
  BY <1>1
<1>4. \A n \in 0 .. Len(b) : \A k \in 1 .. n : k \in 1 .. Len(b)
  BY <1>1
<1>5. \A n \in 0 .. Len(b) : Only(b, n, i, cmd) => Only(a, n, i, cmd)
  BY <1>1, <1>4 DEF Only
<1>6. Only(b, Len(b), i, cmd) /\ e.cmd = "NONE" => Only(a, Len(b) + 1, i, cmd)
  BY <1>1, <1>3 DEF Only
<1> QED
  BY <1>5, <1>6 DEF a

LEMMA IdleTail ==
  ASSUME NEW b \in Seq(Entry), b # <<>>, NEW n \in 1 .. Len(b), Idle(b, n)
  PROVE  b[1].cmd = "NONE" /\ Idle(Tail(b), n - 1)
<1> DEFINE a == Tail(b)
<1>1. Len(b) \in Nat /\ \A k \in 1 .. Len(b) - 1 : a[k] = b[k + 1]
  BY QueueTail
<1> HIDE DEF a
<1>2. \A k \in 1 .. n - 1 : k \in 1 .. Len(b) - 1 /\ k + 1 \in 1 .. n
  BY <1>1
<1>3. 1 \in 1 .. n
  BY <1>1
<1> QED
  BY <1>1, <1>2, <1>3 DEF Idle, a

LEMMA OnlyTail ==
  ASSUME NEW b \in Seq(Entry), b # <<>>, NEW n \in 1 .. Len(b), NEW i, NEW cmd,
         Only(b, n, i, cmd)
  PROVE  IF i = 1 THEN b[1].cmd = cmd /\ Idle(Tail(b), n - 1)
         ELSE b[1].cmd = "NONE" /\ Only(Tail(b), n - 1, i - 1, cmd)
<1> DEFINE a == Tail(b)
<1>1. Len(b) \in Nat /\ \A k \in 1 .. Len(b) - 1 : a[k] = b[k + 1]
  BY QueueTail
<1> HIDE DEF a
<1>2. \A k \in 1 .. n - 1 : k \in 1 .. Len(b) - 1 /\ k + 1 \in 1 .. n /\ k + 1 # 1
  BY <1>1
<1>3. 1 \in 1 .. n /\ i \in 1 .. n
  BY <1>1 DEF Only
<1>4. CASE i = 1
  BY <1>1, <1>2, <1>3, <1>4 DEF Only, Idle, a
<1>5. CASE i # 1
  <2>1. i - 1 \in 1 .. n - 1 /\ i - 1 \in 1 .. Len(b) - 1 /\ (i - 1) + 1 = i
    BY <1>1, <1>3, <1>5
  <2>2. \A k \in 1 .. n - 1 : k # i - 1 => k + 1 # i
    BY <1>1, <1>3
  <2>3. a[i - 1].cmd = cmd
    BY <1>1, <2>1 DEF Only
  <2>4. \A k \in 1 .. n - 1 : k # i - 1 => a[k].cmd = "NONE"
    BY <1>1, <1>2, <2>2 DEF Only
  <2>5. Only(a, n - 1, i - 1, cmd)
    BY <2>1, <2>3, <2>4 DEF Only
  <2>6. b[1].cmd = "NONE"
    BY <1>3, <1>5 DEF Only
  <2> QED
    BY <1>5, <2>5, <2>6 DEF a
<1> QED
  BY <1>4, <1>5

(* What becomes of a rank's queue when rank 0 adds to it, by the command.  *)
LEMMA AwayAppend ==
  ASSUME NEW b \in Seq(Entry), NEW e \in Entry, NEW pc, NEW ic
  PROVE  /\ \A n \in 0 .. Len(b) : Away(pc, ic, b, n) => Away(pc, ic, Append(b, e), n)
         /\ Away(pc, ic, b, Len(b)) /\ e.cmd = "NONE" =>
              Away(pc, ic, Append(b, e), Len(b) + 1)
<1>0. Len(b) \in Nat
  OBVIOUS
<1>1. ASSUME NEW n \in 0 .. Len(b), Away(pc, ic, b, n)
      PROVE  Away(pc, ic, Append(b, e), n)
  BY <1>1, IdleAppend, OnlyAppend DEF Away
<1>2. ASSUME Away(pc, ic, b, Len(b)), e.cmd = "NONE"
      PROVE  Away(pc, ic, Append(b, e), Len(b) + 1)
  <2>1. ASSUME NEW i \in 1 .. Len(b), Only(b, Len(b), i, "DISCONNECT")
        PROVE  i \in 1 .. Len(b) + 1 /\ Only(Append(b, e), Len(b) + 1, i, "DISCONNECT")
    BY <1>0, <1>2, <2>1, OnlyAppend
  <2> QED
    BY <1>2, <2>1, IdleAppend DEF Away
<1> QED
  BY <1>1, <1>2

LEMMA SettledAppend ==
  ASSUME NEW b \in Seq(Entry), NEW e \in Entry, NEW pc, NEW ic, NEW j \in Clients,
         NEW st \in Nat, Settled(pc, ic, b, j)
  PROVE  /\ e.cmd = "NONE" => Settled(pc, ic, Append(b, e), j)
         /\ e.cmd = "DISCONNECT" => Away(pc, ic, Append(b, e), Len(b) + 1)
         /\ e.cmd = "QUERY" => Asked(pc, ic, Append(b, e), j, st, st + Len(b))
         /\ pc = "run" /\ Idle(Append(b, e), Len(b))
<1>1. /\ Len(b) \in Nat /\ Len(Append(b, e)) = Len(b) + 1
      /\ Len(b) + 1 \in 1 .. Len(b) + 1 /\ Len(b) \in 0 .. Len(b)
      /\ st + (Len(b) + 1) - 1 = st + Len(b)
  BY QueueAppend
<1>2. /\ Idle(b, Len(b)) /\ pc = "run" /\ ic = j /\ ic # NoClient
  BY ClientsAssumption DEF Settled
<1>3. /\ e.cmd = "NONE" => Idle(Append(b, e), Len(b) + 1)
      /\ Only(Append(b, e), Len(b) + 1, Len(b) + 1, e.cmd)
      /\ Idle(Append(b, e), Len(b))
  BY <1>1, <1>2, IdleAppend
<1>4. e.cmd = "NONE" => Settled(pc, ic, Append(b, e), j)
  BY <1>1, <1>2, <1>3 DEF Settled
<1>5. e.cmd = "DISCONNECT" => Away(pc, ic, Append(b, e), Len(b) + 1)
  BY <1>1, <1>2, <1>3 DEF Away
<1>6. e.cmd = "QUERY" => Asked(pc, ic, Append(b, e), j, st, st + Len(b))
  BY <1>1, <1>2, <1>3 DEF Asked
<1> QED
  BY <1>2, <1>3, <1>4, <1>5, <1>6

LEMMA AskedAppend ==
  ASSUME NEW b \in Seq(Entry), NEW e \in Entry, NEW pc, NEW ic, NEW j, NEW st, NEW t,
         Asked(pc, ic, b, j, st, t), e.cmd = "NONE"
  PROVE  Asked(pc, ic, Append(b, e), j, st, t)
<1>1. /\ Len(b) \in Nat /\ Len(Append(b, e)) = Len(b) + 1
  BY QueueAppend
<1>2. \A i \in 1 .. Len(b) : i \in 1 .. Len(b) + 1
  BY <1>1
<1>3. \A i \in 1 .. Len(b) : Only(b, Len(b), i, "QUERY") =>
         Only(Append(b, e), Len(b) + 1, i, "QUERY")
  BY OnlyAppend
<1> QED
  BY <1>1, <1>2, <1>3, IdleAppend DEF Asked

(* The entry that a rank in its loop takes, and what it is up to then.     *)
LEMMA AwayTail ==
  ASSUME NEW b \in Seq(Entry), b # <<>>, NEW n \in 1 .. Len(b), NEW ic,
         Away("run", ic, b, n)
  PROVE  \/ b[1].cmd = "NONE" /\ Away("run", ic, Tail(b), n - 1)
         \/ b[1].cmd = "DISCONNECT" /\ Away("drop", ic, Tail(b), n - 1)
<1>0. Len(b) \in Nat /\ n \in Nat
  OBVIOUS
<1>1. CASE ic = NoClient /\ Idle(b, n)
  BY <1>1, IdleTail DEF Away
<1>2. ASSUME ic # NoClient, NEW i \in 1 .. n, Only(b, n, i, "DISCONNECT")
      PROVE  \/ b[1].cmd = "NONE" /\ Away("run", ic, Tail(b), n - 1)
             \/ b[1].cmd = "DISCONNECT" /\ Away("drop", ic, Tail(b), n - 1)
  <2>1. IF i = 1 THEN b[1].cmd = "DISCONNECT" /\ Idle(Tail(b), n - 1)
         ELSE b[1].cmd = "NONE" /\ Only(Tail(b), n - 1, i - 1, "DISCONNECT")
    BY <1>2, OnlyTail
  <2>2. i # 1 => i - 1 \in 1 .. n - 1
    BY <1>0
  <2> QED
    BY <1>2, <2>1, <2>2 DEF Away
<1> QED
  BY <1>1, <1>2 DEF Away

LEMMA SettledTail ==
  ASSUME NEW b \in Seq(Entry), b # <<>>, NEW ic, NEW j, Settled("run", ic, b, j)
  PROVE  b[1].cmd = "NONE" /\ Settled("run", ic, Tail(b), j)
<1>1. Len(b) \in 1 .. Len(b) /\ Len(Tail(b)) = Len(b) - 1
  BY QueueTail
<1> QED
  BY <1>1, IdleTail DEF Settled

LEMMA AskedTail ==
  ASSUME NEW b \in Seq(Entry), b # <<>>, NEW ic, NEW j, NEW st \in Nat, NEW t,
         Asked("run", ic, b, j, st, t)
  PROVE  \/ b[1].cmd = "NONE" /\ Asked("run", ic, Tail(b), j, st + 1, t)
         \/ b[1].cmd = "QUERY" /\ Asked("query", ic, Tail(b), j, st, t)
<1>1. /\ Len(b) \in 1 .. Len(b) /\ Len(Tail(b)) = Len(b) - 1 /\ Len(b) \in Nat
  BY QueueTail
<1>2. PICK i \in 1 .. Len(b) : Only(b, Len(b), i, "QUERY") /\ st + i - 1 = t
  BY DEF Asked
<1>3. IF i = 1 THEN b[1].cmd = "QUERY" /\ Idle(Tail(b), Len(b) - 1)
       ELSE b[1].cmd = "NONE" /\ Only(Tail(b), Len(b) - 1, i - 1, "QUERY")
  BY <1>1, <1>2, OnlyTail
<1>4. CASE i = 1
  BY <1>1, <1>2, <1>3, <1>4 DEF Asked
<1>5. CASE i # 1
  <2>1. i - 1 \in 1 .. Len(b) - 1 /\ (st + 1) + (i - 1) - 1 = t
    BY <1>1, <1>2, <1>5
  <2> QED
    BY <1>1, <1>3, <1>5, <2>1 DEF Asked
<1> QED
  BY <1>4, <1>5

-----------------------------------------------------------------------------
(***************************************************************************)
(* What the steps have in common.                                          *)
(***************************************************************************)

(* The types that every step below uses.                                   *)
LEMMA FollowTypes ==
  ASSUME TypeInv
  PROVE  /\ 0 \in SimRank /\ 0 \in ClientRank
         /\ simPc \in [SimRank -> SimState]
         /\ step \in [SimRank -> 0 .. MaxSteps] /\ MaxSteps \in Nat
         /\ \A s \in SimRank : step[s] \in Nat /\ step[s] <= MaxSteps
         /\ bcast \in [SimRank -> Seq(Entry)]
         /\ \A s \in SimRank : bcast[s] \in Seq(Entry) /\ Len(bcast[s]) \in Nat
         /\ clientPort \in [SimRank -> Clients \cup {NoClient}]
         /\ intercomm \in [SimRank -> Clients \cup {NoClient}]
         /\ clientPc \in [Clients -> [ClientRank -> ClientState]]
         /\ regions \in [Clients -> [ClientRank -> Seq(ToClientMessage)]]
         /\ toClient \in ToClientType /\ toSim \in ToSimType
         /\ ClientTypeOK
<1>1. /\ step \in [SimRank -> 0 .. MaxSteps] /\ MaxSteps \in Nat
      /\ bcast \in [SimRank -> Seq(Entry)]
  BY BoundsAssumption DEF TypeInv, TypeOK, SimTypeOK
<1>2. \A s \in SimRank : step[s] \in Nat /\ step[s] <= MaxSteps
  BY <1>1
<1>3. \A s \in SimRank : bcast[s] \in Seq(Entry) /\ Len(bcast[s]) \in Nat
  BY <1>1
<1> QED
  BY <1>1, <1>2, <1>3, RankZero
     DEF TypeInv, TypeOK, SimTypeOK, ClientTypeOK, InterCommTypeOK, ToSimType, ToClientType

(* What rank 0 broadcasts comes last in the queue of every other rank.     *)
Added(e) == \A s \in SimRank \ {0} : bcast'[s] = Append(bcast[s], e)
LEMMA BroadcastAdds ==
  ASSUME TypeInv, NEW cmd \in CommandType \cup {"NONE"}, Broadcast(cmd)
  PROVE  \E e \in Entry : /\ e.cmd = cmd /\ Added(e)
                          /\ cmd = "CONNECT" => e.port = clientPort[0]
<1> DEFINE e == [cmd |-> cmd,
                 port |-> IF cmd = "CONNECT" THEN clientPort[0] ELSE NoClient]
<1>1. e \in Entry
  BY RankZero DEF Entry, TypeInv, TypeOK, SimTypeOK, CommandType
<1>2. e.cmd = cmd /\ (cmd = "CONNECT" => e.port = clientPort[0])
  OBVIOUS
<1> HIDE DEF e
<1>3. Added(e)
  BY DEF Broadcast, Added, e
<1> QED
  BY <1>1, <1>2, <1>3

(* The other ranks do not move.                                            *)
OthersStay ==
  \A s \in SimRank \ {0} :
    simPc'[s] = simPc[s] /\ step'[s] = step[s] /\ clientPort'[s] = clientPort[s]

LEMMA RootFrame ==
  ASSUME TypeInv, RootNext
  PROVE  OthersStay /\ UNCHANGED <<intercomm, clientPort>>
BY FollowTypes DEF OthersStay, RootNext, ProcessIdle, ProcessNewQuery, ProcessClientCommand,
       Greet, HandleQuery, Rejoin, Finalize, FinalJoin, FinalReceive, FinalGreet, Return

(* The count of calls, when rank 0 broadcasts and when it does not.        *)
FinalStep ==
  simPc[0] \in Final \cup {"finJoin", "finRecv"} => step[0] = MaxSteps
LEMMA CountAdded ==
  ASSUME TypeInv, CountInv, OthersStay, NEW e \in Entry, Added(e),
         FinalStep', Taken(0)' = Taken(0) + 1
  PROVE  CountInv'
<1>1. ASSUME NEW s \in SimRank \ {0}
      PROVE  Taken(s)' + Len(bcast'[s]) = Taken(0)'
  <2>1. Taken(s)' = Taken(s) /\ Taken(s) \in Nat /\ Taken(0) \in Nat
    BY FollowTypes DEF OthersStay, Taken
  <2>2. Len(bcast'[s]) = Len(bcast[s]) + 1 /\ Len(bcast[s]) \in Nat
    BY FollowTypes, QueueAppend DEF Added
  <2> HIDE DEF Taken
  <2>3. Taken(s) + Len(bcast[s]) = Taken(0)
    BY DEF CountInv
  <2> QED
    BY <2>1, <2>2, <2>3
<1> QED
  BY <1>1, FollowTypes DEF CountInv, FinalStep, OthersStay

LEMMA CountSame ==
  ASSUME TypeInv, CountInv, OthersStay, FinalStep', Taken(0)' = Taken(0),
         \A s \in SimRank \ {0} : bcast'[s] = bcast[s]
  PROVE  CountInv'
<1>1. ASSUME NEW s \in SimRank \ {0}
      PROVE  Taken(s)' + Len(bcast'[s]) = Taken(0)'
  <2>1. Taken(s)' = Taken(s)
    BY DEF OthersStay, Taken
  <2>2. Taken(s) + Len(bcast[s]) = Taken(0)
    BY DEF CountInv
  <2> QED
    BY <2>1, <2>2
<1> QED
  BY <1>1, FollowTypes DEF CountInv, FinalStep, OthersStay

(* Answers that were given stay; those to come will be later.              *)
LEMMA AnswersStay ==
  ASSUME AnswersInv, UNCHANGED answered, Taken(0) \in Nat, Taken(0)' \in Nat,
         Taken(0)' >= Taken(0)
  PROVE  AnswersInv'
<1>1. ASSUME NEW i \in Clients, NEW k \in DOMAIN answered[i]
      PROVE  \E t \in 0 .. MaxSteps - 1 : t < Taken(0)' /\ answered[i][k] = SnapshotAt(t)
  <2>1. PICK t \in 0 .. MaxSteps - 1 : t < Taken(0) /\ answered[i][k] = SnapshotAt(t)
    BY DEF AnswersInv
  <2>2. t < Taken(0)'
    <3> HIDE DEF Taken
    <3> QED
      BY <2>1
  <2> QED
    BY <2>1, <2>2
<1> QED
  BY <1>1 DEF AnswersInv

(* Which ranks have answered, and with what.                               *)
LEMMA FetchedSame ==
  ASSUME UNCHANGED clientVars, NEW j \in Clients,
         \A c \in ClientRank, s \in SimRank : toClient'[j][c][s] = toClient[j][c][s]
  PROVE  /\ \A s \in SimRank : Answered(j, s)' <=> Answered(j, s)
         /\ \A t : FetchedAt(j, t)' <=> FetchedAt(j, t)
         /\ \A t : EarlierAt(t)' <=> EarlierAt(t)
<1>1. UNCHANGED <<clientPc, regions, answered>>
  BY DEF clientVars
<1>2. \A c \in ClientRank, s \in SimRank : WaitsFor(j, c, s)' <=> WaitsFor(j, c, s)
  BY <1>1 DEF WaitsFor, NextRegion
<1> QED
  BY <1>1, <1>2 DEF Answered, FetchedAt, EarlierAt

-----------------------------------------------------------------------------
(***************************************************************************)
(* The steps of rank 0.                                                    *)
(***************************************************************************)

(* A job that has sent a command is in no query; its request is the        *)
(* command that rank 0 reads.                                              *)
LEMMA CommandOfClient ==
  ASSUME TypeInv, ProtocolInv, NEW j \in Clients, intercomm[0] = j,
         simPc[0] \in {"run", "finRecv"}, Ready(j, 0, 0)
  PROVE  /\ clientPc[j][0] = "awaitQuit" /\ ~InQuery(j)
         /\ Head(toSim[j][0][0]) = request[j] /\ request[j] \in Command
<1>1. TalkOf(j)
  BY DEF ProtocolInv, TalkInv
<1>2. clientPc[j][0] = "awaitQuit" /\ request[j] \in Command /\ toSim[j][0][0] = <<request[j]>>
  BY <1>1, FollowTypes DEF Ready, TalkOf, Talk, Attentive, ClientState, Outside
<1> QED
  BY <1>2, OneMessage DEF InQuery, Querying

(* Steps of rank 0 between two calls or inside one: nothing is broadcast.  *)
LEMMA RootSilent ==
  ASSUME TypeInv, FollowInv, RootNext, UNCHANGED clientVars, UNCHANGED toClient,
         UNCHANGED bcast, Taken(0)' = Taken(0), FinalStep',
         \/ intercomm[0] = NoClient /\ simPc[0] = "rejoin" /\ simPc'[0] = "run"
         \/ simPc[0] = "run" /\ simPc'[0] = "finJoin"
         \/ intercomm[0] # NoClient /\ simPc[0] = "finJoin" /\ simPc'[0] = "finRecv"
  PROVE  FollowInv'
<1>1. OthersStay /\ UNCHANGED <<intercomm, clientPort>>
  BY RootFrame
<1>2. CountInv'
  BY <1>1, CountSame DEF FollowInv
<1>3. FreeInv'
  BY <1>1 DEF FollowInv, FreeInv, OthersStay
<1>4. JoiningInv' /\ LeavingInv'
  BY <1>1 DEF JoiningInv, LeavingInv
<1>5. ASSUME NEW j \in Clients PROVE SessionOf(j)'
  <2> SUFFICES ASSUME intercomm[0] = j, simPc'[0] \in InSession PROVE SessionOf(j)'
    BY <1>1 DEF SessionOf
  <2>1. simPc[0] \in InSession /\ simPc[0] # "query" /\ simPc'[0] # "query"
    BY ClientsAssumption DEF InSession
  <2>2. InQuery(j)' <=> InQuery(j)
    BY <2>1 DEF InQuery, clientVars
  <2>3. SessionOf(j)
    BY DEF FollowInv, SessionInv
  <2>4. ASSUME NEW t, QueryAt(j, t) PROVE QueryAt(j, t)'
    <3>1. RanksAt(j, t)' /\ FetchedAt(j, t)' /\ EarlierAt(t)'
      BY <1>1, <2>4, FetchedSame DEF QueryAt, RanksAt, OthersStay
    <3>2. t < Taken(0)'
      BY <2>4 DEF QueryAt
    <3> QED
      BY <2>1, <3>1, <3>2 DEF QueryAt
  <2>5. CASE InQuery(j)
    <3>1. PICK t \in 0 .. MaxSteps - 1 : QueryAt(j, t)
      BY <2>1, <2>3, <2>5 DEF SessionOf
    <3>2. QueryAt(j, t)'
      BY <2>4, <3>1
    <3> QED
      BY <2>2, <2>5, <3>2 DEF SessionOf
  <2>6. CASE ~InQuery(j)
    <3>1. \A s \in SimRank \ {0} : Settled(simPc[s], intercomm[s], bcast[s], j)
      BY <2>1, <2>3, <2>6 DEF SessionOf
    <3>2. \A s \in SimRank \ {0} : Settled(simPc'[s], intercomm'[s], bcast'[s], j)
      BY <1>1, <3>1 DEF OthersStay
    <3> QED
      BY <2>2, <2>6, <3>2 DEF SessionOf
  <2> QED
    BY <2>5, <2>6
<1>6. Taken(0) \in Nat
  BY FollowTypes DEF Taken
<1>7. AnswersInv'
  <2>1. UNCHANGED answered
    BY DEF clientVars
  <2>2. Taken(0)' \in Nat /\ Taken(0)' >= Taken(0)
    <3> HIDE DEF Taken
    <3> QED
      BY <1>6
  <2> QED
    BY <1>6, <2>1, <2>2, AnswersStay DEF FollowInv
<1> QED
  BY <1>2, <1>3, <1>4, <1>5, <1>7 DEF FollowInv, SessionInv

(* process() without a command.                                            *)
LEMMA FollowIdle ==
  ASSUME TypeInv, FollowInv, ProcessIdle, UNCHANGED clientVars
  PROVE  FollowInv'
<1>1. PICK e \in Entry : e.cmd = "NONE" /\ Added(e)
  BY BroadcastAdds DEF ProcessIdle
<1>2. /\ OthersStay /\ UNCHANGED <<intercomm, clientPort, simPc, toClient>>
  BY RootFrame DEF RootNext, ProcessIdle, wireVars
<1>3. /\ simPc[0] = "run" /\ step'[0] = step[0] + 1 /\ step[0] \in Nat
      /\ Taken(0) = step[0] /\ Taken(0)' = step[0] + 1
  <2>1. simPc[0] = "run" /\ step'[0] = step[0] + 1 /\ step[0] \in Nat
    BY FollowTypes DEF ProcessIdle, InLoop
  <2>2. simPc'[0] = "run"
    BY <1>2, <2>1
  <2> QED
    BY <2>1, <2>2 DEF Taken, Processing, Final
<1>4. CountInv'
  <2>1. FinalStep'
    BY <1>2, <1>3 DEF FinalStep, Final
  <2> QED
    BY <1>1, <1>2, <1>3, <2>1, CountAdded DEF FollowInv
<1>5. FreeInv'
  <2> SUFFICES ASSUME intercomm[0] = NoClient, NEW s \in SimRank \ {0}
               PROVE  Away(simPc'[s], intercomm'[s], bcast'[s], Len(bcast'[s]))
    BY <1>2, <1>3 DEF FreeInv
  <2>1. Away(simPc[s], intercomm[s], bcast[s], Len(bcast[s]))
    BY <1>3 DEF FollowInv, FreeInv
  <2>2. bcast[s] \in Seq(Entry) /\ bcast'[s] = Append(bcast[s], e)
    BY <1>1, FollowTypes DEF Added
  <2> QED
    BY <1>1, <1>2, <2>1, <2>2, AwayAppend, QueueAppend
<1>6. JoiningInv' /\ LeavingInv'
  BY <1>2, <1>3 DEF JoiningInv, LeavingInv
<1>7. ASSUME NEW j \in Clients PROVE SessionOf(j)'
  <2> SUFFICES ASSUME intercomm[0] = j PROVE SessionOf(j)'
    BY <1>2 DEF SessionOf
  <2>1. simPc[0] \in InSession
    BY <1>3 DEF InSession
  <2>2. InQuery(j)' <=> InQuery(j)
    BY <1>2 DEF InQuery, clientVars
  <2>3. SessionOf(j)
    BY DEF FollowInv, SessionInv
  <2>4. ASSUME NEW s \in SimRank \ {0}, Settled(simPc[s], intercomm[s], bcast[s], j)
        PROVE  Settled(simPc'[s], intercomm'[s], bcast'[s], j)
    <3>1. bcast[s] \in Seq(Entry) /\ bcast'[s] = Append(bcast[s], e)
      BY <1>1, FollowTypes DEF Added
    <3>2. Settled(simPc[s], intercomm[s], Append(bcast[s], e), j)
      BY <1>1, <2>4, <3>1, SettledAppend
    <3> QED
      BY <1>2, <3>1, <3>2
  <2>5. ASSUME NEW t \in Nat, QueryAt(j, t) PROVE QueryAt(j, t)'
    <3>1. ASSUME NEW s \in SimRank \ {0},
                 Asked(simPc[s], intercomm[s], bcast[s], j, step[s], t)
          PROVE  Asked(simPc'[s], intercomm'[s], bcast'[s], j, step'[s], t)
      <4>1. bcast[s] \in Seq(Entry) /\ bcast'[s] = Append(bcast[s], e)
        BY <1>1, FollowTypes DEF Added
      <4>2. Asked(simPc[s], intercomm[s], Append(bcast[s], e), j, step[s], t)
        BY <1>1, <3>1, <4>1, AskedAppend
      <4> QED
        BY <1>2, <4>1, <4>2 DEF OthersStay
    <3>2. RanksAt(j, t)' /\ FetchedAt(j, t)' /\ EarlierAt(t)'
      BY <1>2, <2>4, <2>5, <3>1, FetchedSame DEF QueryAt, RanksAt
    <3>3. t < Taken(0)'
      BY <1>3, <2>5 DEF QueryAt
    <3> QED
      BY <1>2, <1>3, <3>2, <3>3 DEF QueryAt
  <2>6. CASE InQuery(j)
    <3>1. PICK t \in 0 .. MaxSteps - 1 : QueryAt(j, t)
      BY <2>1, <2>3, <2>6 DEF SessionOf
    <3>2. QueryAt(j, t)'
      BY <2>5, <3>1
    <3> QED
      BY <2>2, <2>6, <3>2 DEF SessionOf
  <2>7. CASE ~InQuery(j)
    <3>1. \A s \in SimRank \ {0} : Settled(simPc[s], intercomm[s], bcast[s], j)
      BY <2>1, <2>3, <2>7 DEF SessionOf
    <3>2. \A s \in SimRank \ {0} : Settled(simPc'[s], intercomm'[s], bcast'[s], j)
      BY <2>4, <3>1
    <3> QED
      BY <2>2, <2>7, <3>2 DEF SessionOf
  <2> QED
    BY <2>6, <2>7
<1>8. AnswersInv'
  <2>1. UNCHANGED answered
    BY DEF clientVars
  <2>2. Taken(0) \in Nat /\ Taken(0)' \in Nat /\ Taken(0)' >= Taken(0)
    BY <1>3
  <2> QED
    BY <2>1, <2>2, AnswersStay DEF FollowInv
<1> QED
  BY <1>4, <1>5, <1>6, <1>7, <1>8 DEF FollowInv, SessionInv

(* What a broadcast that is a command does, whichever it is.               *)
LEMMA CommandAdded ==
  ASSUME TypeInv, FollowInv, RootNext, UNCHANGED clientVars, NEW e \in Entry, Added(e),
         FinalStep', Taken(0)' = Taken(0) + 1
  PROVE  /\ OthersStay /\ UNCHANGED <<intercomm, clientPort>>
         /\ CountInv' /\ AnswersInv'
         /\ \A s \in SimRank \ {0} :
              /\ bcast[s] \in Seq(Entry) /\ bcast'[s] = Append(bcast[s], e)
              /\ bcast'[s] # <<>> /\ bcast'[s][Len(bcast'[s])] = e
              /\ Len(bcast'[s]) = Len(bcast[s]) + 1 /\ Len(bcast[s]) \in Nat
              /\ Len(bcast'[s]) - 1 = Len(bcast[s])
<1>1. OthersStay /\ UNCHANGED <<intercomm, clientPort>>
  BY RootFrame
<1>2. CountInv'
  BY <1>1, CountAdded DEF FollowInv
<1>3. Taken(0) \in Nat
  BY FollowTypes DEF Taken
<1>4. AnswersInv'
  <2>1. UNCHANGED answered
    BY DEF clientVars
  <2>2. Taken(0)' \in Nat /\ Taken(0)' >= Taken(0)
    <3> HIDE DEF Taken
    <3> QED
      BY <1>3
  <2> QED
    BY <1>3, <2>1, <2>2, AnswersStay DEF FollowInv
<1>5. ASSUME NEW s \in SimRank \ {0}
      PROVE  /\ bcast[s] \in Seq(Entry) /\ bcast'[s] = Append(bcast[s], e)
             /\ bcast'[s] # <<>> /\ bcast'[s][Len(bcast'[s])] = e
             /\ Len(bcast'[s]) = Len(bcast[s]) + 1 /\ Len(bcast[s]) \in Nat
             /\ Len(bcast'[s]) - 1 = Len(bcast[s])
  <2>1. bcast[s] \in Seq(Entry) /\ bcast'[s] = Append(bcast[s], e)
    BY FollowTypes DEF Added
  <2> DEFINE b == bcast[s]
             a == bcast'[s]
  <2>2. /\ a # <<>> /\ Len(b) \in Nat /\ Len(a) = Len(b) + 1
        /\ a[Len(b) + 1] = e
    BY <2>1, QueueAppend
  <2>3. Len(a) - 1 = Len(b)
    <3> HIDE DEF a, b
    <3> QED
      BY <2>2
  <2> QED
    BY <2>1, <2>2, <2>3
<1> QED
  BY <1>1, <1>2, <1>4, <1>5

(* A command that the listener published: CONNECT, and every rank will     *)
(* have left the intercommunicator that it had.                            *)
LEMMA FollowToConnect ==
  ASSUME TypeInv, FollowInv, RootNext, UNCHANGED clientVars, NEW e \in Entry, Added(e),
         FinalStep', Taken(0)' = Taken(0) + 1,
         e.cmd = "CONNECT", e.port = clientPort[0], intercomm[0] = NoClient,
         simPc[0] \in {"run", "finJoin"}, simPc'[0] \in {"connect", "finConnect"}
  PROVE  FollowInv'
<1>1. ASSUME NEW s \in SimRank \ {0}
      PROVE  Joining(simPc'[s], intercomm'[s], bcast'[s], clientPort'[s], simPc'[0],
                     clientPort'[0])
  <2>1. Away(simPc[s], intercomm[s], bcast[s], Len(bcast[s]))
    BY DEF FollowInv, FreeInv
  <2>2. Len(bcast[s]) \in 0 .. Len(bcast[s])
    BY FollowTypes
  <2>3. bcast[s] \in Seq(Entry) /\ bcast'[s] = Append(bcast[s], e)
    BY CommandAdded
  <2>4. Away(simPc[s], intercomm[s], Append(bcast[s], e), Len(bcast[s]))
    BY <2>1, <2>2, <2>3, AwayAppend
  <2> QED
    BY <2>3, <2>4, CommandAdded DEF Joining, OthersStay
<1>2. JoiningInv'
  BY <1>1 DEF JoiningInv
<1>3. FreeInv' /\ SessionInv' /\ LeavingInv'
  BY DEF FreeInv, SessionInv, SessionOf, LeavingInv, InSession
<1> QED
  BY <1>2, <1>3, CommandAdded DEF FollowInv

LEMMA FollowNewQuery ==
  ASSUME TypeInv, FollowInv, ProtocolInv, ProcessNewQuery, UNCHANGED clientVars
  PROVE  FollowInv'
<1>1. /\ simPc[0] = "run" /\ intercomm[0] = NoClient /\ clientCommand = "CONNECT"
      /\ simPc'[0] = "connect" /\ step'[0] = step[0] /\ Broadcast("CONNECT")
  BY FollowTypes
     DEF ProcessNewQuery, InLoop, ProtocolInv, RootInv, Handler
<1>2. PICK e \in Entry : e.cmd = "CONNECT" /\ Added(e) /\ e.port = clientPort[0]
  BY <1>1, BroadcastAdds DEF CommandType
<1>3. FinalStep' /\ Taken(0)' = Taken(0) + 1
  BY <1>1, FollowTypes DEF FinalStep, Final, Taken, Processing
<1> QED
  BY <1>1, <1>2, <1>3, FollowToConnect DEF RootNext

(* A command of the client, QUERY or DISCONNECT.                           *)
LEMMA FollowClientCommand ==
  ASSUME TypeInv, FollowInv, ProtocolInv, NEW j \in Clients, ProcessClientCommand(j),
         UNCHANGED clientVars
  PROVE  FollowInv'
<1> DEFINE cmd == Head(toSim[j][0][0])
<1>1. /\ simPc[0] = "run" /\ intercomm[0] = j /\ Ready(j, 0, 0)
      /\ step'[0] = step[0] /\ Broadcast(cmd) /\ simPc'[0] = Handler(0, cmd)
      /\ step[0] \in Nat /\ intercomm' = intercomm
  BY FollowTypes DEF ProcessClientCommand, InLoop
<1>2. /\ clientPc[j][0] = "awaitQuit" /\ ~InQuery(j) /\ cmd \in Command
  BY <1>1, CommandOfClient
<1> HIDE DEF cmd
<1>3. PICK e \in Entry : e.cmd = cmd /\ Added(e)
  BY <1>1, <1>2, BroadcastAdds DEF CommandType, ToSimMessage
<1>4. /\ FinalStep' /\ Taken(0) = step[0] /\ Taken(0)' = Taken(0) + 1
      /\ simPc'[0] = IF cmd = "QUERY" THEN "query" ELSE "drop"
      /\ cmd \in {"QUERY", "DISCONNECT"}
  BY <1>1, <1>2, FollowTypes DEF FinalStep, Final, Taken, Processing, Handler, Command
<1>5. /\ OthersStay /\ UNCHANGED <<intercomm, clientPort>> /\ CountInv' /\ AnswersInv'
      /\ \A s \in SimRank \ {0} :
           /\ bcast[s] \in Seq(Entry) /\ bcast'[s] = Append(bcast[s], e)
           /\ Len(bcast'[s]) = Len(bcast[s]) + 1 /\ Len(bcast[s]) \in Nat
  BY <1>3, <1>4, CommandAdded DEF RootNext
<1>6. ASSUME NEW s \in SimRank \ {0}
      PROVE  Settled(simPc[s], intercomm[s], bcast[s], j)
  BY <1>1, <1>2 DEF FollowInv, SessionInv, SessionOf, InSession
<1>7. JoiningInv' /\ LeavingInv'
  BY <1>4 DEF JoiningInv, LeavingInv
<1>8. CASE cmd = "DISCONNECT"
  <2>1. ASSUME NEW s \in SimRank \ {0}
        PROVE  Away(simPc'[s], intercomm'[s], bcast'[s], Len(bcast'[s]))
    <3>1. Away(simPc[s], intercomm[s], Append(bcast[s], e), Len(bcast[s]) + 1)
      BY <1>3, <1>5, <1>6, <1>8, SettledAppend
    <3> QED
      BY <1>5, <3>1 DEF OthersStay
  <2>2. simPc'[0] = "drop"
    BY <1>4, <1>8
  <2>3. FreeInv'
    BY <2>1 DEF FreeInv
  <2>4. SessionInv'
    BY <2>2 DEF SessionInv, SessionOf, InSession
  <2> QED
    BY <1>5, <1>7, <2>3, <2>4 DEF FollowInv
<1>9. CASE cmd = "QUERY"
  <2>0. PICK t \in Nat : t = step[0]
    BY <1>1
  <2>1. simPc'[0] = "query" /\ t \in Nat /\ t < Taken(0)'
    BY <1>1, <1>4, <1>9, <2>0
  <2>2. clientPc'[j][0] = "awaitQuit" /\ UNCHANGED answered
    BY <1>2 DEF clientVars
  <2>3. ASSUME NEW s \in SimRank \ {0}
        PROVE  /\ ~Answered(j, s)'
               /\ Asked(simPc'[s], intercomm'[s], bcast'[s], j, step'[s], t)
    <3>1. Taken(s) = step[s] /\ Taken(s) + Len(bcast[s]) = Taken(0) /\ step[s] \in Nat
      BY <1>6, FollowTypes DEF Settled, Taken, Processing, Final, FollowInv, CountInv
    <3>2. step[s] + Len(bcast[s]) = t
      BY <1>4, <2>0, <3>1
    <3>3. Asked(simPc[s], intercomm[s], Append(bcast[s], e), j, step[s], t)
      BY <1>3, <1>5, <1>6, <1>9, <3>1, <3>2, SettledAppend
    <3>4. ~Answered(j, s)'
      BY <2>2 DEF Answered, Querying
    <3> QED
      BY <1>5, <3>3, <3>4 DEF OthersStay
  <2>4. RanksAt(j, t)'
    BY <1>1, <2>3 DEF RanksAt
  <2>5. FetchedAt(j, t)'
    BY <2>2 DEF FetchedAt, Querying
  <2>6. EarlierAt(t)'
    <3> SUFFICES ASSUME NEW i \in Clients, NEW k \in DOMAIN answered[i],
                        NEW m \in answered[i][k]
                 PROVE  m.step < t
      BY <1>1, <2>2 DEF EarlierAt
    <3>1. PICK u \in 0 .. MaxSteps - 1 : u < Taken(0) /\ answered[i][k] = SnapshotAt(u)
      BY DEF FollowInv, AnswersInv
    <3>2. m.step = u
      BY <3>1 DEF SnapshotAt, RegionMessage
    <3> QED
      BY <1>4, <2>0, <3>1, <3>2
  <2>7. QueryAt(j, t)'
    BY <1>1, <2>0, <2>1, <2>4, <2>5, <2>6 DEF QueryAt
  <2>8. t \in 0 .. MaxSteps - 1
    <3>1. step[0] < MaxSteps
      BY <1>1 DEF ProcessClientCommand, InLoop
    <3> QED
      BY <1>1, <2>0, <3>1, FollowTypes
  <2>9. SessionOf(j)'
    <3>1. \E u \in 0 .. MaxSteps - 1 : QueryAt(j, u)'
      BY <2>7, <2>8
    <3>2. InQuery(j)'
      BY <2>1 DEF InQuery
    <3> QED
      BY <3>1, <3>2 DEF SessionOf
  <2>10. \A i \in Clients : i # j => SessionOf(i)'
    BY <1>1 DEF SessionOf
  <2>11. SessionInv'
    BY <2>9, <2>10 DEF SessionInv
  <2>12. FreeInv'
    BY <1>1, <2>1, ClientsAssumption DEF FreeInv
  <2> QED
    BY <1>5, <1>7, <2>11, <2>12 DEF FollowInv
<1> QED
  BY <1>4, <1>8, <1>9

(* The broadcast of the destructor, when nobody is to be connected.        *)
LEMMA FollowToLeave ==
  ASSUME TypeInv, FollowInv, RootNext, UNCHANGED clientVars, NEW e \in Entry, Added(e),
         FinalStep', Taken(0)' = Taken(0) + 1,
         e.cmd # "CONNECT", simPc'[0] \in {"finGreet", "gone"},
         \A s \in SimRank \ {0} :
           \/ Away(simPc[s], intercomm[s], bcast[s], Len(bcast[s]))
           \/ simPc[s] = "run" /\ Idle(bcast[s], Len(bcast[s]))
  PROVE  FollowInv'
<1>1. ASSUME NEW s \in SimRank \ {0}
      PROVE  Leaving(simPc'[s], intercomm'[s], bcast'[s])
  <2>1. bcast[s] \in Seq(Entry) /\ bcast'[s] = Append(bcast[s], e)
    BY CommandAdded
  <2>2. Len(bcast[s]) \in 0 .. Len(bcast[s])
    BY FollowTypes
  <2>3. \/ Away(simPc[s], intercomm[s], Append(bcast[s], e), Len(bcast[s]))
        \/ simPc[s] = "run" /\ Idle(Append(bcast[s], e), Len(bcast[s]))
    BY <2>1, <2>2, AwayAppend, IdleAppend
  <2> QED
    BY <2>1, <2>3, CommandAdded DEF Leaving, OthersStay
<1>2. LeavingInv'
  BY <1>1 DEF LeavingInv
<1>3. FreeInv' /\ SessionInv' /\ JoiningInv'
  BY DEF FreeInv, SessionInv, SessionOf, JoiningInv, InSession
<1> QED
  BY <1>2, <1>3, CommandAdded DEF FollowInv

LEMMA FollowFinalJoin ==
  ASSUME TypeInv, FollowInv, ProtocolInv, FinalJoin, UNCHANGED clientVars
  PROVE  FollowInv'
<1>1. /\ simPc[0] = "finJoin" /\ UNCHANGED <<toClient, intercomm, step>>
      /\ step[0] = MaxSteps /\ step[0] \in Nat
  BY FollowTypes DEF FinalJoin, FollowInv, CountInv, wireVars
<1>2. CASE ~newQuery /\ intercomm[0] # NoClient
  <2>1. simPc'[0] = "finRecv" /\ UNCHANGED bcast
    BY <1>2, FollowTypes DEF FinalJoin
  <2>2. FinalStep' /\ Taken(0)' = Taken(0)
    BY <1>1, <2>1 DEF FinalStep, Taken, Processing, Final
  <2> QED
    BY <1>1, <1>2, <2>1, <2>2, RootSilent DEF RootNext
<1>3. CASE ~(~newQuery /\ intercomm[0] # NoClient)
  <2>1. intercomm[0] = NoClient
    BY <1>1, <1>3 DEF ProtocolInv, RootInv
  <2>2. /\ Broadcast(clientCommand)
        /\ simPc'[0] = IF clientCommand = "CONNECT" THEN "finConnect" ELSE "gone"
    BY <1>3, <2>1, FollowTypes DEF FinalJoin, FinalHandler
  <2>3. clientCommand \in CommandType
    BY DEF TypeInv, TypeOK, SimTypeOK, CommandType
  <2>4. PICK e \in Entry : /\ e.cmd = clientCommand /\ Added(e)
                           /\ clientCommand = "CONNECT" => e.port = clientPort[0]
    BY <2>2, <2>3, BroadcastAdds
  <2>5. FinalStep' /\ Taken(0)' = Taken(0) + 1
    BY <1>1, <2>2 DEF FinalStep, Taken, Processing, Final
  <2>6. CASE clientCommand = "CONNECT"
    BY <1>1, <2>1, <2>2, <2>4, <2>5, <2>6, FollowToConnect DEF RootNext
  <2>7. CASE clientCommand # "CONNECT"
    <3>1. \A s \in SimRank \ {0} :
            Away(simPc[s], intercomm[s], bcast[s], Len(bcast[s]))
      BY <1>1, <2>1 DEF FollowInv, FreeInv
    <3> QED
      BY <1>1, <2>2, <2>4, <2>5, <2>7, <3>1, FollowToLeave DEF RootNext
  <2> QED
    BY <2>6, <2>7
<1> QED
  BY <1>2, <1>3

LEMMA FollowFinalReceive ==
  ASSUME TypeInv, FollowInv, ProtocolInv, NEW j \in Clients, FinalReceive(j),
         UNCHANGED clientVars
  PROVE  FollowInv'
<1> DEFINE cmd == Head(toSim[j][0][0])
<1>1. /\ simPc[0] = "finRecv" /\ intercomm[0] = j /\ Ready(j, 0, 0)
      /\ step'[0] = step[0] /\ Broadcast(cmd) /\ simPc'[0] = FinalHandler(0, cmd)
      /\ step[0] = MaxSteps /\ step[0] \in Nat
  BY FollowTypes DEF FinalReceive, FollowInv, CountInv
<1>2. ~InQuery(j) /\ cmd \in Command
  BY <1>1, CommandOfClient
<1> HIDE DEF cmd
<1>3. PICK e \in Entry : e.cmd = cmd /\ Added(e)
  BY <1>1, <1>2, BroadcastAdds DEF CommandType, ToSimMessage
<1>4. cmd # "CONNECT" /\ simPc'[0] = "finGreet"
  BY <1>1, <1>2, ClientsAssumption DEF FinalHandler, Command
<1>5. FinalStep' /\ Taken(0)' = Taken(0) + 1
  BY <1>1, <1>4 DEF FinalStep, Taken, Processing, Final
<1>6. ASSUME NEW s \in SimRank \ {0}
      PROVE  simPc[s] = "run" /\ Idle(bcast[s], Len(bcast[s]))
  BY <1>1, <1>2 DEF FollowInv, SessionInv, SessionOf, InSession, Settled
<1> QED
  BY <1>3, <1>4, <1>5, <1>6, FollowToLeave DEF RootNext

(* The two greetings.                                                      *)
LEMMA FollowGreet ==
  ASSUME TypeInv, FollowInv, ProtocolInv, Greet \/ FinalGreet, UNCHANGED clientVars
  PROVE  FollowInv'
<1>1. /\ OthersStay /\ UNCHANGED <<intercomm, clientPort, bcast>>
  BY RootFrame DEF RootNext, Greet, FinalGreet
<1>2. \/ simPc[0] = "greet" /\ simPc'[0] = "run" /\ step'[0] = step[0] + 1
      \/ simPc[0] = "finGreet" /\ simPc'[0] = "finDrop" /\ step'[0] = step[0]
  BY FollowTypes DEF Greet, FinalGreet, Return
<1>3. Taken(0) \in Nat /\ Taken(0)' = Taken(0) /\ FinalStep'
  BY <1>2, FollowTypes DEF Taken, Processing, Final, FinalStep, FollowInv, CountInv
<1>4. CountInv'
  BY <1>1, <1>3, CountSame DEF FollowInv
<1>5. intercomm[0] # NoClient
  BY <1>2 DEF ProtocolInv, RootInv
<1>6. FreeInv' /\ JoiningInv'
  BY <1>1, <1>2, <1>5 DEF FreeInv, JoiningInv
<1>7. LeavingInv'
  BY <1>1, <1>2 DEF FollowInv, LeavingInv, OthersStay
<1>8. ASSUME NEW j \in Clients PROVE SessionOf(j)'
  <2> SUFFICES ASSUME intercomm[0] = j, simPc'[0] = "run" PROVE SessionOf(j)'
    BY <1>1, <1>2 DEF SessionOf, InSession
  <2>1. simPc[0] = "greet"
    BY <1>2
  <2>2. clientPc[j][0] \notin Querying
    <3>1. Talk(clientPc[j][0], toSim[j][0][0], toClient[j][0][0], "greet", TRUE,
               Len(regions[j][0]), request[j])
      BY <2>1 DEF ProtocolInv, TalkInv, TalkOf
    <3> QED
      BY <3>1 DEF Talk, Attentive, Querying
  <2>3. ~InQuery(j) /\ ~InQuery(j)'
    BY <2>1, <2>2 DEF InQuery, clientVars
  <2>4. \A s \in SimRank \ {0} : Settled(simPc[s], intercomm[s], bcast[s], j)
    BY <2>1, <2>3 DEF FollowInv, SessionInv, SessionOf, InSession
  <2>5. \A s \in SimRank \ {0} : Settled(simPc'[s], intercomm'[s], bcast'[s], j)
    BY <1>1, <2>4 DEF OthersStay
  <2> QED
    BY <2>3, <2>5 DEF SessionOf
<1>9. AnswersInv'
  <2>1. UNCHANGED answered
    BY DEF clientVars
  <2>2. Taken(0)' \in Nat /\ Taken(0)' >= Taken(0)
    <3> HIDE DEF Taken
    <3> QED
      BY <1>3
  <2> QED
    BY <1>3, <2>1, <2>2, AnswersStay DEF FollowInv
<1> QED
  BY <1>4, <1>6, <1>7, <1>8, <1>9 DEF FollowInv, SessionInv

(* The region of rank 0 itself.                                            *)
LEMMA FollowRootQuery ==
  ASSUME TypeInv, FollowInv, ProtocolInv, HandleQuery(0), UNCHANGED clientVars
  PROVE  FollowInv'
<1>1. OthersStay /\ UNCHANGED <<intercomm, clientPort, bcast>>
  BY RootFrame DEF RootNext, HandleQuery
<1>2. /\ simPc[0] = "query" /\ simPc'[0] = "run" /\ step'[0] = step[0] + 1
  BY FollowTypes DEF HandleQuery, Return
<1>3. Taken(0) \in Nat /\ Taken(0)' = Taken(0) /\ FinalStep'
  BY <1>2, FollowTypes DEF Taken, Processing, Final, FinalStep
<1>4. CountInv'
  BY <1>1, <1>3, CountSame DEF FollowInv
<1>5. PICK j \in Clients : intercomm[0] = j
  BY <1>2, FollowTypes DEF ProtocolInv, RootInv
<1>6. PICK c \in ClientRank :
        /\ toSim[j][0][c] # <<>>
        /\ toClient' = [toClient EXCEPT ![j][c][0] = Append(@, RegionMessage(0, step[0]))]
  BY <1>5 DEF HandleQuery, Ready, SendToClient, Timestep
<1>7. c = 0
  <2> SUFFICES ASSUME c # 0 PROVE FALSE
    OBVIOUS
  <2>1. Fetch(toSim[j][0][c], toClient[j][c][0], WaitsFor(j, c, 0))
    BY FollowTypes DEF ProtocolInv, FetchInv, FetchOf
  <2>2. WaitsFor(j, c, 0)
    BY <1>6, <2>1 DEF Fetch
  <2> QED
    BY <2>2, FollowTypes, FirstRegion DEF WaitsFor, TypeInv, WaitsForRegion
<1>8. clientPc[j][0] = "waiting" /\ Len(regions[j][0]) = 0 /\ toClient[j][0][0] = <<>>
  <2>1. Talk(clientPc[j][0], toSim[j][0][0], toClient[j][0][0], "query", TRUE,
             Len(regions[j][0]), request[j])
    BY <1>2, <1>5 DEF ProtocolInv, TalkInv, TalkOf
  <2>2. clientPc[j][0] \in ClientState
    BY FollowTypes
  <2> QED
    BY <1>6, <1>7, <2>1, <2>2 DEF Talk, Attentive, ClientState, Outside
<1>9. /\ toClient'[j][0][0] = <<RegionMessage(0, step[0])>>
      /\ \A d \in ClientRank, s \in SimRank :
           d # 0 \/ s # 0 => toClient'[j][d][s] = toClient[j][d][s]
  <2>1. PICK m : m = RegionMessage(0, step[0])
    OBVIOUS
  <2>2. toClient' = [toClient EXCEPT ![j][0][0] = Append(@, m)]
    BY <1>6, <1>7, <2>1
  <2>3. /\ toClient'[j][0][0] = Append(toClient[j][0][0], m)
        /\ \A d \in ClientRank, s \in SimRank :
             d # 0 \/ s # 0 => toClient'[j][d][s] = toClient[j][d][s]
    BY <2>2, FollowTypes DEF ToClientType
  <2> QED
    BY <1>8, <2>1, <2>3, OneMessage
<1>10. FreeInv' /\ JoiningInv' /\ LeavingInv'
  BY <1>1, <1>2, <1>5, ClientsAssumption DEF FreeInv, JoiningInv, LeavingInv
<1>11. SessionOf(j)'
  <2>1. InQuery(j) /\ InQuery(j)'
    BY <1>2, <1>8 DEF InQuery, Querying, clientVars
  <2>2. PICK t \in 0 .. MaxSteps - 1 : QueryAt(j, t)
    BY <1>2, <1>5, <2>1 DEF FollowInv, SessionInv, SessionOf, InSession
  <2>3. t = step[0]
    BY <1>2, <2>2 DEF QueryAt
  <2>4. UNCHANGED <<clientPc, regions, answered>>
    BY DEF clientVars
  <2>5. \A d \in ClientRank, s \in SimRank : WaitsFor(j, d, s)' <=> WaitsFor(j, d, s)
    BY <2>4 DEF WaitsFor, NextRegion
  <2>6. \A s \in SimRank \ {0} : Answered(j, s)' <=> Answered(j, s)
    BY <1>9, <2>4, <2>5 DEF Answered
  <2>7. RanksAt(j, t)'
    BY <1>1, <2>2, <2>6 DEF QueryAt, RanksAt, OthersStay
  <2>8. FetchedAt(j, t)'
    BY <1>9, <2>2, <2>3, <2>4, <2>5 DEF QueryAt, FetchedAt
  <2>9. EarlierAt(t)'
    BY <2>2, <2>4 DEF QueryAt, EarlierAt
  <2>10. QueryAt(j, t)'
    BY <1>2, <1>3, <2>2, <2>7, <2>8, <2>9 DEF QueryAt
  <2> QED
    BY <2>1, <2>10 DEF SessionOf
<1>12. SessionInv'
  <2>1. \A i \in Clients : i # j => SessionOf(i)'
    BY <1>1, <1>5 DEF SessionOf
  <2> QED
    BY <1>11, <2>1 DEF SessionInv
<1>13. AnswersInv'
  <2>1. UNCHANGED answered
    BY DEF clientVars
  <2>2. Taken(0)' \in Nat /\ Taken(0)' >= Taken(0)
    <3> HIDE DEF Taken
    <3> QED
      BY <1>3
  <2> QED
    BY <1>3, <2>1, <2>2, AnswersStay DEF FollowInv
<1> QED
  BY <1>4, <1>10, <1>12, <1>13 DEF FollowInv

(* Every step of rank 0 of the simulation.                                 *)
LEMMA FollowRoot ==
  ASSUME TypeInv, FollowInv, ProtocolInv, RootNext, UNCHANGED clientVars
  PROVE  FollowInv'
<1>1. CASE Rejoin
  <2>1. /\ simPc[0] = "rejoin" /\ simPc'[0] = "run" /\ step'[0] = step[0] + 1
        /\ UNCHANGED <<bcast, toClient>>
    BY <1>1, FollowTypes DEF Rejoin, Return, wireVars
  <2>2. intercomm[0] = NoClient
    BY <2>1 DEF ProtocolInv, RootInv
  <2>3. FinalStep' /\ Taken(0)' = Taken(0)
    BY <2>1, FollowTypes DEF FinalStep, Taken, Processing, Final
  <2> QED
    BY <2>1, <2>2, <2>3, RootSilent
<1>2. CASE Finalize
  <2>1. /\ simPc[0] = "run" /\ simPc'[0] = "finJoin" /\ step'[0] = step[0]
        /\ step[0] = MaxSteps /\ UNCHANGED <<bcast, toClient>>
    BY <1>2, FollowTypes DEF Finalize, wireVars
  <2>2. FinalStep' /\ Taken(0)' = Taken(0)
    BY <2>1, FollowTypes DEF FinalStep, Taken, Processing, Final
  <2> QED
    BY <2>1, <2>2, RootSilent
<1> QED
  BY <1>1, <1>2, FollowIdle, FollowNewQuery, FollowClientCommand, FollowGreet,
     FollowRootQuery, FollowFinalJoin, FollowFinalReceive DEF RootNext

-----------------------------------------------------------------------------
(***************************************************************************)
(* The steps of the other ranks.                                           *)
(***************************************************************************)

LEMMA JoiningTail ==
  ASSUME NEW b \in Seq(Entry), b # <<>>, NEW ic, NEW port, NEW r, NEW port0,
         Joining("run", ic, b, port, r, port0)
  PROVE  \/ /\ Len(b) = 1 /\ b[1].cmd = "CONNECT" /\ b[1].port = port0
            /\ ic = NoClient
         \/ b[1].cmd = "NONE" /\ Joining("run", ic, Tail(b), port, r, port0)
         \/ b[1].cmd = "DISCONNECT" /\ Joining("drop", ic, Tail(b), port, r, port0)
<1>1. /\ b[Len(b)].cmd = "CONNECT" /\ b[Len(b)].port = port0
      /\ Away("run", ic, b, Len(b) - 1)
  BY DEF Joining
<1>2. /\ Len(b) \in Nat /\ Len(b) >= 1 /\ Len(Tail(b)) = Len(b) - 1
      /\ \A k \in 1 .. Len(b) - 1 : Tail(b)[k] = b[k + 1]
      /\ (Tail(b) = <<>>) <=> (Len(b) = 1)
  BY QueueTail
<1>3. CASE Len(b) = 1
  <2>1. Away("run", ic, b, 0)
    BY <1>1, <1>3
  <2>2. ic = NoClient
    BY <2>1 DEF Away
  <2> QED
    BY <1>1, <1>3, <2>2
<1>4. CASE Len(b) # 1
  <2>1. Len(b) - 1 \in 1 .. Len(b) /\ Len(b) - 1 \in 1 .. Len(b) - 1
    BY <1>2, <1>4
  <2>2. Tail(b)[Len(Tail(b))] = b[Len(b)]
    BY <1>2, <2>1
  <2>3. \/ b[1].cmd = "NONE" /\ Away("run", ic, Tail(b), Len(Tail(b)) - 1)
        \/ b[1].cmd = "DISCONNECT" /\ Away("drop", ic, Tail(b), Len(Tail(b)) - 1)
    BY <1>1, <1>2, <2>1, AwayTail
  <2> QED
    BY <1>1, <1>2, <1>4, <2>2, <2>3 DEF Joining
<1> QED
  BY <1>3, <1>4

LEMMA LeavingTail ==
  ASSUME NEW b \in Seq(Entry), b # <<>>, NEW ic, Leaving("run", ic, b)
  PROVE  \/ Len(b) = 1 /\ b[1].cmd # "CONNECT"
         \/ b[1].cmd = "NONE" /\ Leaving("run", ic, Tail(b))
         \/ b[1].cmd = "DISCONNECT" /\ Leaving("drop", ic, Tail(b))
<1>1. /\ b[Len(b)].cmd # "CONNECT"
      /\ Away("run", ic, b, Len(b) - 1) \/ Idle(b, Len(b) - 1)
  BY DEF Leaving
<1>2. /\ Len(b) \in Nat /\ Len(b) >= 1 /\ Len(Tail(b)) = Len(b) - 1
      /\ \A k \in 1 .. Len(b) - 1 : Tail(b)[k] = b[k + 1]
      /\ (Tail(b) = <<>>) <=> (Len(b) = 1)
  BY QueueTail
<1>3. CASE Len(b) = 1
  BY <1>1, <1>3
<1>4. CASE Len(b) # 1
  <2>1. Len(b) - 1 \in 1 .. Len(b) /\ Len(b) - 1 \in 1 .. Len(b) - 1
    BY <1>2, <1>4
  <2>2. Tail(b)[Len(Tail(b))] = b[Len(b)]
    BY <1>2, <2>1
  <2>3. \/ b[1].cmd = "NONE" /\ Away("run", ic, Tail(b), Len(Tail(b)) - 1)
        \/ b[1].cmd = "DISCONNECT" /\ Away("drop", ic, Tail(b), Len(Tail(b)) - 1)
        \/ b[1].cmd = "NONE" /\ Idle(Tail(b), Len(Tail(b)) - 1)
    BY <1>1, <1>2, <2>1, AwayTail, IdleTail
  <2> QED
    BY <1>1, <1>2, <1>4, <2>2, <2>3 DEF Leaving
<1> QED
  BY <1>3, <1>4

(* Where rank 0 is, one of four.                                           *)
Free == simPc[0] = "drop" \/ (intercomm[0] = NoClient /\ simPc[0] \in {"run", "finJoin", "rejoin"})
Joins == simPc[0] \in {"connect", "finConnect"}
Serves(j) == intercomm[0] = j /\ simPc[0] \in InSession
Leaves == simPc[0] \in {"finGreet", "finDrop", "gone"}
LEMMA Phases ==
  ASSUME TypeInv, ProtocolInv
  PROVE  Free \/ Joins \/ (\E j \in Clients : Serves(j)) \/ Leaves
<1>1. simPc[0] \in SimState /\ intercomm[0] \in Clients \cup {NoClient}
  BY FollowTypes
<1>2. RootInv
  BY DEF ProtocolInv
<1> QED
  BY <1>1, <1>2 DEF SimState, RootInv, Free, Joins, Serves, Leaves, InSession

(* The step of one rank other than 0.                                      *)
OnlyMoves(s) ==
  \A u \in SimRank \ {s} :
    /\ simPc'[u] = simPc[u] /\ step'[u] = step[u] /\ bcast'[u] = bcast[u]
    /\ intercomm'[u] = intercomm[u] /\ clientPort'[u] = clientPort[u]
LEMMA OtherMoves ==
  ASSUME TypeInv, FollowInv, NEW s \in SimRank \ {0}, OnlyMoves(s), UNCHANGED clientVars,
         Taken(s)' + Len(bcast'[s]) = Taken(s) + Len(bcast[s]),
         simPc'[s] \in Final => step'[s] = MaxSteps,
         Free => Away(simPc'[s], intercomm'[s], bcast'[s], Len(bcast'[s])),
         Joins => Joining(simPc'[s], intercomm'[s], bcast'[s], clientPort'[s], simPc[0],
                          clientPort[0]),
         \A j \in Clients : Serves(j) /\ ~InQuery(j) =>
           Settled(simPc'[s], intercomm'[s], bcast'[s], j),
         \A j \in Clients, t \in 0 .. MaxSteps - 1 : Serves(j) /\ InQuery(j) /\ QueryAt(j, t) =>
           RanksAt(j, t)' /\ FetchedAt(j, t)',
         Leaves => Leaving(simPc'[s], intercomm'[s], bcast'[s])
  PROVE  FollowInv'
<1>1. /\ 0 \in SimRank \ {s} /\ simPc'[0] = simPc[0] /\ step'[0] = step[0]
      /\ intercomm'[0] = intercomm[0] /\ clientPort'[0] = clientPort[0]
  BY FollowTypes DEF OnlyMoves
<1>2. Taken(0)' = Taken(0) /\ Taken(0) \in Nat
  BY <1>1, FollowTypes DEF Taken
<1>3. CountInv'
  <2>1. ASSUME NEW u \in SimRank \ {0}
        PROVE  Taken(u)' + Len(bcast'[u]) = Taken(0)'
    <3>1. Taken(u) + Len(bcast[u]) = Taken(0)
      BY DEF FollowInv, CountInv
    <3>2. CASE u = s
      BY <1>2, <3>1, <3>2
    <3>3. CASE u # s
      <4>1. Taken(u)' = Taken(u) /\ bcast'[u] = bcast[u]
        BY <3>3 DEF OnlyMoves, Taken
      <4> QED
        BY <1>2, <3>1, <4>1
    <3> QED
      BY <3>2, <3>3
  <2> QED
    BY <1>1, <2>1 DEF FollowInv, CountInv, OnlyMoves
<1>4. FreeInv'
  <2> SUFFICES ASSUME Free, NEW u \in SimRank \ {0}
               PROVE  Away(simPc'[u], intercomm'[u], bcast'[u], Len(bcast'[u]))
    BY <1>1 DEF FreeInv, Free
  <2>1. Away(simPc[u], intercomm[u], bcast[u], Len(bcast[u]))
    BY DEF FollowInv, FreeInv, Free
  <2> QED
    BY <2>1 DEF OnlyMoves
<1>5. JoiningInv'
  <2> SUFFICES ASSUME Joins, NEW u \in SimRank \ {0}
               PROVE  Joining(simPc'[u], intercomm'[u], bcast'[u], clientPort'[u], simPc[0],
                              clientPort[0])
    BY <1>1 DEF JoiningInv, Joins
  <2>1. Joining(simPc[u], intercomm[u], bcast[u], clientPort[u], simPc[0], clientPort[0])
    BY DEF FollowInv, JoiningInv, Joins
  <2> QED
    BY <2>1 DEF OnlyMoves
<1>6. LeavingInv'
  <2> SUFFICES ASSUME Leaves, NEW u \in SimRank \ {0}
               PROVE  Leaving(simPc'[u], intercomm'[u], bcast'[u])
    BY <1>1 DEF LeavingInv, Leaves
  <2>1. Leaving(simPc[u], intercomm[u], bcast[u])
    BY DEF FollowInv, LeavingInv, Leaves
  <2> QED
    BY <2>1 DEF OnlyMoves
<1>7. ASSUME NEW j \in Clients PROVE SessionOf(j)'
  <2> SUFFICES ASSUME Serves(j) PROVE SessionOf(j)'
    BY <1>1 DEF SessionOf, Serves
  <2>1. InQuery(j)' <=> InQuery(j)
    BY <1>1 DEF InQuery, clientVars
  <2>2. SessionOf(j)
    BY DEF FollowInv, SessionInv
  <2>3. CASE InQuery(j)
    <3>1. PICK t \in 0 .. MaxSteps - 1 : QueryAt(j, t)
      BY <2>2, <2>3 DEF SessionOf, Serves
    <3>2. RanksAt(j, t)' /\ FetchedAt(j, t)'
      BY <2>3, <3>1
    <3>3. EarlierAt(t)'
      BY <3>1 DEF QueryAt, EarlierAt, clientVars
    <3>4. QueryAt(j, t)'
      BY <1>1, <1>2, <3>1, <3>2, <3>3 DEF QueryAt
    <3> QED
      BY <2>1, <2>3, <3>4 DEF SessionOf
  <2>4. CASE ~InQuery(j)
    <3>1. ASSUME NEW u \in SimRank \ {0}
          PROVE  Settled(simPc'[u], intercomm'[u], bcast'[u], j)
      <4>1. Settled(simPc[u], intercomm[u], bcast[u], j)
        BY <2>2, <2>4 DEF SessionOf, Serves
      <4> QED
        BY <2>4, <4>1 DEF OnlyMoves
    <3> QED
      BY <2>1, <2>4, <3>1 DEF SessionOf
  <2> QED
    BY <2>3, <2>4
<1>8. AnswersInv'
  <2>1. UNCHANGED answered
    BY DEF clientVars
  <2>2. Taken(0)' \in Nat /\ Taken(0)' >= Taken(0)
    <3> HIDE DEF Taken
    <3> QED
      BY <1>2
  <2> QED
    BY <1>2, <2>1, <2>2, AnswersStay DEF FollowInv
<1> QED
  BY <1>3, <1>4, <1>5, <1>6, <1>7, <1>8 DEF FollowInv, SessionInv

(* A rank takes part in a broadcast of process() or of the destructor by   *)
(* the number of calls it has made, and so does rank 0.                    *)
LEMMA SameCall ==
  ASSUME TypeInv, FollowInv, NEW s \in SimRank \ {0}, simPc[s] = "run", bcast[s] # <<>>
  PROVE  /\ simPc[0] \in Final /\ Len(bcast[s]) = 1 => step[s] = MaxSteps
         /\ step[s] = MaxSteps => simPc[0] \in Final /\ Len(bcast[s]) = 1
<1>1. /\ step[s] \in Nat /\ step[0] \in Nat /\ MaxSteps \in Nat
      /\ step[s] <= MaxSteps /\ step[0] <= MaxSteps
      /\ Len(bcast[s]) \in Nat /\ Len(bcast[s]) >= 1
  BY FollowTypes, QueueTail
<1>2. Taken(s) = step[s]
  BY <1>1 DEF Taken, Processing, Final
<1>3. step[s] + Len(bcast[s]) = Taken(0)
  BY <1>2 DEF FollowInv, CountInv
<1>4. PICK n \in Nat, t \in Nat : n = Len(bcast[s]) /\ t = step[s]
  BY <1>1
<1>5. CASE simPc[0] \in Final
  <2>1. Taken(0) = MaxSteps + 1
    BY <1>5, FollowTypes DEF Taken, FollowInv, CountInv
  <2>2. t + n = MaxSteps + 1
    BY <1>3, <1>4, <2>1
  <2>3. n \in Nat /\ t \in Nat /\ MaxSteps \in Nat
    BY <1>1
  <2>4. (n = 1) <=> (t = MaxSteps)
    BY <2>2, <2>3
  <2> QED
    BY <1>4, <1>5, <2>4
<1>6. CASE simPc[0] \notin Final
  <2>1. simPc[0] \in Processing => step[0] < MaxSteps
    BY FollowTypes DEF TypeInv, StepsLeft
  <2>2. Taken(0) <= MaxSteps
    BY <1>1, <1>6, <2>1 DEF Taken
  <2>3. t + n <= MaxSteps
    BY <1>3, <1>4, <2>2
  <2>4. n >= 1
    BY <1>1, <1>4
  <2>5. t # MaxSteps
    BY <1>1, <1>4, <2>3, <2>4
  <2> QED
    BY <1>4, <1>6, <2>5
<1> QED
  BY <1>5, <1>6

(* A rank that takes an entry of its queue inside process().               *)
LEMMA FollowProcessOther ==
  ASSUME TypeInv, FollowInv, ProtocolInv, NEW s \in SimRank \ {0}, ProcessOther(s),
         UNCHANGED clientVars
  PROVE  FollowInv'
<1> DEFINE b == bcast[s]
           e == b[1]
<1>1. /\ simPc[s] = "run" /\ step[s] < MaxSteps /\ b # <<>> /\ b \in Seq(Entry)
      /\ bcast' = [bcast EXCEPT ![s] = Tail(@)] /\ intercomm' = intercomm
      /\ toClient' = toClient
  BY FollowTypes DEF ProcessOther, InLoop, wireVars
<1>2. /\ Tail(b) \in Seq(Entry) /\ Len(b) \in Nat /\ Len(b) >= 1 /\ Head(b) = e
      /\ Len(Tail(b)) = Len(b) - 1 /\ (Tail(b) = <<>>) <=> (Len(b) = 1)
      /\ Len(b) \in 1 .. Len(b)
  BY <1>1, QueueTail
<1>3. OnlyMoves(s) /\ bcast'[s] = Tail(b)
  BY <1>1, FollowTypes DEF OnlyMoves, ProcessOther
<1>4. /\ e.cmd = "NONE" => simPc'[s] = "run" /\ step'[s] = step[s] + 1
      /\ e.cmd # "NONE" => simPc'[s] = Handler(s, e.cmd) /\ step'[s] = step[s]
      /\ e.cmd # "CONNECT" => clientPort'[s] = clientPort[s]
      /\ e.cmd = "CONNECT" /\ intercomm[s] = NoClient => clientPort'[s] = e.port
  BY <1>1, <1>2, FollowTypes DEF ProcessOther
<1> HIDE DEF b, e
<1>5. /\ e.cmd = "DISCONNECT" => simPc'[s] = "drop" /\ step'[s] = step[s]
      /\ e.cmd = "QUERY" => simPc'[s] = "query" /\ step'[s] = step[s]
      /\ e.cmd = "CONNECT" /\ intercomm[s] = NoClient =>
           simPc'[s] = "connect" /\ step'[s] = step[s]
  BY <1>4 DEF Handler
<1>6. step[s] # MaxSteps /\ ~(simPc[0] \in Final /\ Len(b) = 1)
  <2>1. step[s] # MaxSteps
    BY <1>1, FollowTypes
  <2> QED
    BY <1>1, <2>1, SameCall DEF b
<1>7. ASSUME Free
      PROVE  /\ e.cmd \in {"NONE", "DISCONNECT"}
             /\ Away(simPc'[s], intercomm'[s], bcast'[s], Len(bcast'[s]))
  <2>1. Away("run", intercomm[s], b, Len(b))
    BY <1>1, <1>7 DEF FollowInv, FreeInv, Free, b
  <2>2. \/ e.cmd = "NONE" /\ Away("run", intercomm[s], Tail(b), Len(Tail(b)))
        \/ e.cmd = "DISCONNECT" /\ Away("drop", intercomm[s], Tail(b), Len(Tail(b)))
    BY <1>1, <1>2, <2>1, AwayTail DEF e
  <2> QED
    BY <1>1, <1>3, <1>4, <1>5, <2>2
<1>8. ASSUME Joins
      PROVE  /\ \/ e.cmd \in {"NONE", "DISCONNECT"}
                \/ e.cmd = "CONNECT" /\ intercomm[s] = NoClient
             /\ Joining(simPc'[s], intercomm'[s], bcast'[s], clientPort'[s], simPc[0],
                        clientPort[0])
  <2>1. Joining("run", intercomm[s], b, clientPort[s], simPc[0], clientPort[0])
    BY <1>1, <1>8 DEF FollowInv, JoiningInv, Joins, b
  <2>2. \/ /\ Len(b) = 1 /\ e.cmd = "CONNECT" /\ e.port = clientPort[0]
           /\ intercomm[s] = NoClient
        \/ /\ e.cmd = "NONE"
           /\ Joining("run", intercomm[s], Tail(b), clientPort[s], simPc[0], clientPort[0])
        \/ /\ e.cmd = "DISCONNECT"
           /\ Joining("drop", intercomm[s], Tail(b), clientPort[s], simPc[0], clientPort[0])
    BY <1>1, <2>1, JoiningTail DEF e
  <2>3. CASE Len(b) = 1 /\ e.cmd = "CONNECT" /\ e.port = clientPort[0] /\ intercomm[s] = NoClient
    <3>1. simPc[0] = "connect"
      BY <1>6, <1>8, <2>3 DEF Joins, Final
    <3> QED
      BY <1>1, <1>2, <1>3, <1>4, <1>5, <2>3, <3>1 DEF Joining
  <2> QED
    BY <1>1, <1>3, <1>4, <1>5, <2>2, <2>3
<1>9. ASSUME NEW j \in Clients, Serves(j), ~InQuery(j)
      PROVE  e.cmd = "NONE" /\ Settled(simPc'[s], intercomm'[s], bcast'[s], j)
  <2>1. Settled("run", intercomm[s], b, j)
    BY <1>1, <1>9 DEF FollowInv, SessionInv, SessionOf, Serves, b
  <2>2. e.cmd = "NONE" /\ Settled("run", intercomm[s], Tail(b), j)
    BY <1>1, <2>1, SettledTail DEF e
  <2> QED
    BY <1>1, <1>3, <1>4, <2>2
<1>10. ASSUME NEW j \in Clients, NEW t \in 0 .. MaxSteps - 1, QueryAt(j, t)
       PROVE  e.cmd \in {"NONE", "QUERY"} /\ RanksAt(j, t)' /\ FetchedAt(j, t)'
  <2>1. /\ \A u \in SimRank : Answered(j, u)' <=> Answered(j, u)
        /\ FetchedAt(j, t)' <=> FetchedAt(j, t)
    BY <1>1, FetchedSame
  <2>2. RanksAt(j, t) /\ FetchedAt(j, t)
    BY <1>10 DEF QueryAt
  <2>3. CASE Answered(j, s)
    <3>1. Settled("run", intercomm[s], b, j)
      BY <1>1, <2>2, <2>3 DEF RanksAt, b
    <3>2. e.cmd = "NONE" /\ Settled("run", intercomm[s], Tail(b), j)
      BY <1>1, <3>1, SettledTail DEF e
    <3>3. Settled(simPc'[s], intercomm'[s], bcast'[s], j)
      BY <1>1, <1>3, <1>4, <3>2
    <3> QED
      BY <1>3, <2>1, <2>2, <2>3, <3>2, <3>3 DEF RanksAt, OnlyMoves
  <2>4. CASE ~Answered(j, s)
    <3>1. Asked("run", intercomm[s], b, j, step[s], t)
      BY <1>1, <2>2, <2>4 DEF RanksAt, b
    <3>2. \/ e.cmd = "NONE" /\ Asked("run", intercomm[s], Tail(b), j, step[s] + 1, t)
          \/ e.cmd = "QUERY" /\ Asked("query", intercomm[s], Tail(b), j, step[s], t)
      BY <1>1, <3>1, FollowTypes, AskedTail DEF e
    <3>3. Asked(simPc'[s], intercomm'[s], bcast'[s], j, step'[s], t)
      BY <1>1, <1>3, <1>4, <1>5, <3>2
    <3> QED
      BY <1>3, <2>1, <2>2, <2>4, <3>2, <3>3 DEF RanksAt, OnlyMoves
  <2> QED
    BY <2>3, <2>4
<1>11. ASSUME Leaves
       PROVE  /\ e.cmd \in {"NONE", "DISCONNECT"}
              /\ Leaving(simPc'[s], intercomm'[s], bcast'[s])
  <2>1. Leaving("run", intercomm[s], b)
    BY <1>1, <1>11 DEF FollowInv, LeavingInv, Leaves, b
  <2>2. Len(b) # 1
    BY <1>6, <1>11 DEF Leaves, Final
  <2>3. \/ e.cmd = "NONE" /\ Leaving("run", intercomm[s], Tail(b))
        \/ e.cmd = "DISCONNECT" /\ Leaving("drop", intercomm[s], Tail(b))
    BY <1>1, <2>1, <2>2, LeavingTail DEF e
  <2> QED
    BY <1>1, <1>3, <1>4, <1>5, <2>3
<1>12. \/ e.cmd \in {"NONE", "DISCONNECT", "QUERY"}
       \/ e.cmd = "CONNECT" /\ intercomm[s] = NoClient
  <2>1. ASSUME NEW j \in Clients, Serves(j), InQuery(j)
        PROVE  \E t \in 0 .. MaxSteps - 1 : QueryAt(j, t)
    BY <2>1 DEF FollowInv, SessionInv, SessionOf, Serves
  <2>2. ASSUME NEW j \in Clients, Serves(j)
        PROVE  e.cmd \in {"NONE", "QUERY"}
    BY <1>9, <1>10, <2>1, <2>2
  <2> QED
    BY <1>7, <1>8, <1>11, <2>2, Phases
<1>13. /\ simPc'[s] \notin Final
       /\ Taken(s)' = step[s] + 1 /\ Taken(s) = step[s] /\ step[s] \in Nat
  BY <1>1, <1>4, <1>5, <1>12, FollowTypes DEF Taken, Processing, Final
<1>14. Taken(s)' + Len(bcast'[s]) = Taken(s) + Len(bcast[s])
  <2>1. PICK n \in Nat, t \in Nat : n = Len(b) /\ t = step[s]
    BY <1>2, <1>13
  <2>2. (t + 1) + (n - 1) = t + n
    OBVIOUS
  <2> QED
    BY <1>2, <1>3, <1>13, <2>1, <2>2 DEF b
<1> QED
  BY <1>3, <1>7, <1>8, <1>9, <1>10, <1>11, <1>13, <1>14, OtherMoves

(* A rank that takes the entry of the destructor's broadcast.              *)
LEMMA FollowFinalOther ==
  ASSUME TypeInv, FollowInv, ProtocolInv, NEW s \in SimRank \ {0}, FinalOther(s),
         UNCHANGED clientVars
  PROVE  FollowInv'
<1> DEFINE b == bcast[s]
           e == b[1]
<1>1. /\ simPc[s] = "run" /\ step[s] = MaxSteps /\ b # <<>> /\ b \in Seq(Entry)
      /\ bcast' = [bcast EXCEPT ![s] = Tail(@)] /\ intercomm' = intercomm
      /\ step' = step
  BY FollowTypes DEF FinalOther
<1>2. simPc[0] \in Final /\ Len(b) = 1
  BY <1>1, SameCall
<1>3. Tail(b) = <<>> /\ Head(b) = e /\ Len(Tail(b)) = 0
  BY <1>1, <1>2, QueueTail
<1>4. OnlyMoves(s) /\ bcast'[s] = <<>> /\ Len(bcast'[s]) = 0
  BY <1>1, <1>3, FollowTypes DEF OnlyMoves, FinalOther
<1>5. /\ simPc'[s] = FinalHandler(s, e.cmd)
      /\ e.cmd = "CONNECT" /\ intercomm[s] = NoClient => clientPort'[s] = e.port
  BY <1>1, <1>3, FollowTypes DEF FinalOther
<1> HIDE DEF b, e
<1>6. ASSUME Joins
      PROVE  /\ simPc'[s] = "finConnect"
             /\ Joining(simPc'[s], intercomm'[s], bcast'[s], clientPort'[s], simPc[0],
                        clientPort[0])
  <2>1. Joining("run", intercomm[s], b, clientPort[s], simPc[0], clientPort[0])
    BY <1>1, <1>6 DEF FollowInv, JoiningInv, Joins, b
  <2>2. /\ e.cmd = "CONNECT" /\ e.port = clientPort[0]
        /\ Away("run", intercomm[s], b, 0)
    BY <1>1, <1>2, <2>1 DEF Joining, e
  <2>3. intercomm[s] = NoClient
    BY <2>2 DEF Away
  <2>4. simPc'[s] = "finConnect" /\ clientPort'[s] = e.port /\ simPc[0] = "finConnect"
    BY <1>2, <1>5, <1>6, <2>2, <2>3 DEF FinalHandler, Joins, Final
  <2> QED
    BY <1>1, <1>4, <2>2, <2>3, <2>4 DEF Joining
<1>7. ASSUME Leaves
      PROVE  /\ simPc'[s] \in {"finDrop", "gone"}
             /\ Leaving(simPc'[s], intercomm'[s], bcast'[s])
  <2>1. Leaving("run", intercomm[s], b)
    BY <1>1, <1>7 DEF FollowInv, LeavingInv, Leaves, b
  <2>2. e.cmd # "CONNECT"
    BY <1>1, <1>2, <2>1 DEF Leaving, e
  <2>3. simPc'[s] \in {"finDrop", "gone"}
    BY <1>5, <2>2 DEF FinalHandler
  <2> QED
    BY <1>4, <2>3 DEF Leaving
<1>8. Joins \/ Leaves
  BY <1>2 DEF Final, Joins, Leaves
<1>9. ~Free /\ \A j \in Clients : ~Serves(j)
  BY <1>2 DEF Final, Free, Serves, InSession
<1>10. Taken(s)' + Len(bcast'[s]) = Taken(s) + Len(bcast[s])
  <2>1. simPc'[s] \in Final
    BY <1>6, <1>7, <1>8 DEF Final
  <2>2. Taken(s)' = MaxSteps + 1 /\ Taken(s) = MaxSteps /\ MaxSteps \in Nat
    BY <1>1, <2>1, FollowTypes DEF Taken, Processing, Final
  <2> QED
    BY <1>2, <1>4, <2>2 DEF b
<1> QED
  BY <1>1, <1>4, <1>6, <1>7, <1>9, <1>10, OtherMoves

(* A rank that answers the ping of its client rank.                        *)
LEMMA FollowHandleQuery ==
  ASSUME TypeInv, FollowInv, ProtocolInv, NEW s \in SimRank \ {0}, HandleQuery(s),
         UNCHANGED clientVars
  PROVE  FollowInv'
<1>1. /\ simPc[s] = "query" /\ simPc'[s] = "run" /\ step'[s] = step[s] + 1
      /\ bcast' = bcast /\ intercomm' = intercomm /\ clientPort' = clientPort
      /\ OnlyMoves(s)
  BY FollowTypes DEF HandleQuery, Return, OnlyMoves
<1>2. PICK j \in Clients, c \in ClientRank :
        /\ intercomm[s] = j /\ toSim[j][s][c] # <<>>
        /\ toClient' = [toClient EXCEPT ![j][c][s] = Append(@, RegionMessage(s, step[s]))]
  BY FollowTypes DEF HandleQuery, Ready, SendToClient, Timestep
<1>3. WaitsFor(j, c, s) /\ toClient[j][c][s] = <<>>
  <2>1. Fetch(toSim[j][s][c], toClient[j][c][s], WaitsFor(j, c, s))
    BY DEF ProtocolInv, FetchInv, FetchOf
  <2> QED
    BY <1>2, <2>1 DEF Fetch
<1>4. clientPc[j][0] \in Querying
  BY <1>3 DEF WaitsFor, ProtocolInv, QueryInv, QueryOf, Querying
<1>5. PICK t \in Nat : t = step[s]
  BY FollowTypes
<1>6. /\ toClient'[j][c][s] = <<RegionMessage(s, t)>>
      /\ \A i \in Clients, d \in ClientRank, u \in SimRank :
           i # j \/ d # c \/ u # s => toClient'[i][d][u] = toClient[i][d][u]
  <2>1. PICK m : m = RegionMessage(s, t)
    OBVIOUS
  <2>2. toClient' = [toClient EXCEPT ![j][c][s] = Append(@, m)]
    BY <1>2, <1>5, <2>1
  <2>3. /\ toClient'[j][c][s] = Append(toClient[j][c][s], m)
        /\ \A i \in Clients, d \in ClientRank, u \in SimRank :
             i # j \/ d # c \/ u # s => toClient'[i][d][u] = toClient[i][d][u]
    <3>1. /\ toClient \in ToClientType /\ s \in SimRank
          /\ j \in Clients /\ c \in ClientRank
      BY FollowTypes
    <3>2. toClient'[j][c][s] = Append(toClient[j][c][s], m)
      BY <2>2, <3>1 DEF ToClientType
    <3>3. ASSUME NEW i \in Clients, NEW d \in ClientRank, NEW u \in SimRank,
                 i # j \/ d # c \/ u # s
          PROVE  toClient'[i][d][u] = toClient[i][d][u]
      BY <2>2, <3>1, <3>3 DEF ToClientType
    <3> QED
      BY <3>2, <3>3
  <2> QED
    BY <1>3, <2>1, <2>3, OneMessage
<1>7. /\ ~Free /\ ~Joins /\ ~Leaves
      /\ \A i \in Clients : Serves(i) => InQuery(i)
  <2>1. ~Away("query", intercomm[s], bcast[s], Len(bcast[s]))
        /\ ~Away("query", intercomm[s], bcast[s], Len(bcast[s]) - 1)
    BY DEF Away
  <2>2. ~Free
    BY <1>1, <2>1 DEF FollowInv, FreeInv, Free
  <2>3. ~Joins
    BY <1>1, <2>1 DEF FollowInv, JoiningInv, Joins, Joining
  <2>4. ~Leaves
    BY <1>1, <2>1 DEF FollowInv, LeavingInv, Leaves, Leaving
  <2>5. ASSUME NEW i \in Clients, Serves(i), ~InQuery(i) PROVE FALSE
    BY <1>1, <2>5 DEF FollowInv, SessionInv, SessionOf, Serves, Settled
  <2> QED
    BY <2>2, <2>3, <2>4, <2>5
<1>8. ASSUME NEW i \in Clients, NEW v \in 0 .. MaxSteps - 1, QueryAt(i, v)
      PROVE  RanksAt(i, v)' /\ FetchedAt(i, v)'
  <2>1. RanksAt(i, v) /\ FetchedAt(i, v)
    BY <1>8 DEF QueryAt
  <2>2. ~Answered(i, s) /\ Asked("query", intercomm[s], bcast[s], i, step[s], v)
    BY <1>1, <2>1 DEF RanksAt, Settled
  <2>3. i = j /\ v = t /\ Idle(bcast[s], Len(bcast[s]))
    BY <1>2, <1>5, <2>2 DEF Asked
  <2>4. UNCHANGED <<clientPc, regions>>
    BY DEF clientVars
  <2>5. \A d \in ClientRank, u \in SimRank : WaitsFor(j, d, u)' <=> WaitsFor(j, d, u)
    BY <2>4 DEF WaitsFor, NextRegion
  <2>6. Answered(j, s)'
    BY <1>3, <1>4, <1>6, <2>4, <2>5 DEF Answered
  <2>7. \A u \in SimRank : u # s => (Answered(j, u)' <=> Answered(j, u))
    BY <1>6, <2>4, <2>5 DEF Answered
  <2>8. Settled(simPc'[s], intercomm'[s], bcast'[s], j)
    BY <1>1, <1>2, <2>3 DEF Settled
  <2>9. RanksAt(j, t)'
    BY <1>1, <2>1, <2>3, <2>6, <2>7, <2>8 DEF RanksAt, OnlyMoves
  <2>10. FetchedAt(j, t)'
    BY <1>6, <2>1, <2>3, <2>4, <2>5 DEF FetchedAt
  <2> QED
    BY <2>3, <2>9, <2>10
<1>9. Taken(s)' = Taken(s) /\ simPc'[s] \notin Final /\ bcast'[s] = bcast[s]
  BY <1>1, FollowTypes DEF Taken, Processing, Final
<1> QED
  BY <1>1, <1>7, <1>8, <1>9, OtherMoves

(* A rank that destroys the intercommunicator is away from it then.        *)
LEMMA AwayDropped ==
  ASSUME NEW pc, NEW ic, NEW b, NEW n, Away(pc, ic, b, n), pc # "run"
  PROVE  pc = "drop" /\ Away("run", NoClient, b, n)
BY DEF Away

DroppedPc(pc) == IF pc = "finDrop" THEN "gone" ELSE "run"
LEMMA LeavingDropped ==
  ASSUME NEW pc \in {"drop", "finDrop"}, NEW ic, NEW b, Leaving(pc, ic, b)
  PROVE  Leaving(DroppedPc(pc), NoClient, b)
BY AwayDropped DEF Leaving, DroppedPc

-----------------------------------------------------------------------------
(***************************************************************************)
(* The steps that end and begin a session.                                 *)
(***************************************************************************)

(* A rank other than 0 that closes its sockets.                            *)
LEMMA FollowDropOther ==
  ASSUME TypeInv, FollowInv, ProtocolInv, NEW s \in SimRank \ {0}, DropAlone(s)
  PROVE  FollowInv'
<1>1. /\ simPc[s] \in {"drop", "finDrop"} /\ intercomm[s] # NoClient
      /\ Dropped({s}) /\ UNCHANGED <<clientVars, toClient>>
  BY ClientsAssumption DEF DropAlone, Dropping, wireVars
<1>2. /\ OnlyMoves(s) /\ bcast'[s] = bcast[s] /\ intercomm'[s] = NoClient
      /\ clientPort'[s] = clientPort[s]
      /\ simPc'[s] = DroppedPc(simPc[s])
      /\ step'[s] = IF simPc[s] = "drop" THEN step[s] + 1 ELSE step[s]
  BY <1>1, FollowTypes DEF OnlyMoves, Dropped, DroppedPc
<1>3. /\ Taken(s)' = Taken(s)
      /\ simPc'[s] \in Final => step'[s] = MaxSteps
  <2>1. simPc[s] = "finDrop" => step[s] = MaxSteps
    BY DEF FollowInv, CountInv, Final
  <2> QED
    BY <1>1, <1>2, <2>1, FollowTypes DEF Taken, Processing, Final, DroppedPc
<1>4. ASSUME Free
      PROVE  Away(simPc'[s], intercomm'[s], bcast'[s], Len(bcast'[s]))
  <2>1. Away(simPc[s], intercomm[s], bcast[s], Len(bcast[s]))
    BY <1>4 DEF FollowInv, FreeInv, Free
  <2>2. simPc[s] = "drop" /\ Away("run", NoClient, bcast[s], Len(bcast[s]))
    BY <1>1, <2>1, AwayDropped
  <2> QED
    BY <1>2, <2>2 DEF DroppedPc
<1>5. ASSUME Joins
      PROVE  Joining(simPc'[s], intercomm'[s], bcast'[s], clientPort'[s], simPc[0],
                     clientPort[0])
  <2>1. Joining(simPc[s], intercomm[s], bcast[s], clientPort[s], simPc[0], clientPort[0])
    BY <1>5 DEF FollowInv, JoiningInv, Joins
  <2>2. /\ bcast[s] # <<>> /\ bcast[s][Len(bcast[s])].cmd = "CONNECT"
        /\ bcast[s][Len(bcast[s])].port = clientPort[0]
        /\ Away(simPc[s], intercomm[s], bcast[s], Len(bcast[s]) - 1)
    BY <1>1, <2>1 DEF Joining
  <2>3. simPc[s] = "drop" /\ Away("run", NoClient, bcast[s], Len(bcast[s]) - 1)
    BY <1>1, <2>2, AwayDropped
  <2> QED
    BY <1>2, <2>2, <2>3 DEF DroppedPc, Joining
<1>6. \A j \in Clients : ~Serves(j)
  <2> SUFFICES ASSUME NEW j \in Clients, Serves(j) PROVE FALSE
    OBVIOUS
  <2>1. /\ ~Settled(simPc[s], intercomm[s], bcast[s], j)
        /\ \A t : ~Asked(simPc[s], intercomm[s], bcast[s], j, step[s], t)
    BY <1>1 DEF Settled, Asked
  <2> QED
    BY <2>1 DEF FollowInv, SessionInv, SessionOf, Serves, QueryAt, RanksAt
<1>7. ASSUME Leaves
      PROVE  Leaving(simPc'[s], intercomm'[s], bcast'[s])
  <2>1. Leaving(simPc[s], intercomm[s], bcast[s])
    BY <1>7 DEF FollowInv, LeavingInv, Leaves
  <2>2. Leaving(DroppedPc(simPc[s]), NoClient, bcast[s])
    BY <1>1, <2>1, LeavingDropped
  <2> QED
    BY <1>2, <2>2
<1> QED
  BY <1>1, <1>2, <1>3, <1>4, <1>5, <1>6, <1>7, OtherMoves

(* Rank 0 gives its intercommunicator up, alone or with all others.        *)
LEMMA FollowRootDropped ==
  ASSUME TypeInv, FollowInv, simPc[0] \in {"drop", "finDrop"},
         intercomm'[0] = NoClient, step'[0] = step[0], UNCHANGED answered,
         simPc'[0] = IF simPc[0] = "finDrop" THEN "gone" ELSE "rejoin",
         \A s \in SimRank \ {0} :
           /\ bcast'[s] = bcast[s] /\ Taken(s)' = Taken(s)
           /\ simPc'[s] \in Final => step'[s] = MaxSteps
           /\ Away(simPc[s], intercomm[s], bcast[s], Len(bcast[s])) =>
                Away(simPc'[s], intercomm'[s], bcast'[s], Len(bcast'[s]))
           /\ Leaving(simPc[s], intercomm[s], bcast[s]) =>
                Leaving(simPc'[s], intercomm'[s], bcast'[s])
  PROVE  FollowInv'
<1>1. Taken(0)' = Taken(0) /\ Taken(0) \in Nat
  BY FollowTypes DEF Taken, Processing, Final
<1>2. simPc[0] = "finDrop" => step[0] = MaxSteps
  BY FollowTypes DEF FollowInv, CountInv, Final
<1>3. CountInv'
  <2>1. \A s \in SimRank \ {0} : Taken(s)' + Len(bcast'[s]) = Taken(0)'
    BY <1>1 DEF FollowInv, CountInv
  <2>2. \A s \in SimRank : simPc'[s] \in Final => step'[s] = MaxSteps
    BY <1>2 DEF Final
  <2>3. simPc'[0] \notin {"finJoin", "finRecv"}
    OBVIOUS
  <2> QED
    BY <2>1, <2>2, <2>3 DEF CountInv
<1>4. FreeInv' /\ LeavingInv'
  BY DEF FollowInv, FreeInv, LeavingInv
<1>5. JoiningInv' /\ SessionInv'
  BY ClientsAssumption DEF JoiningInv, SessionInv, SessionOf
<1>6. AnswersInv'
  <2>1. Taken(0)' \in Nat /\ Taken(0)' >= Taken(0)
    <3> HIDE DEF Taken
    <3> QED
      BY <1>1
  <2> QED
    BY <1>1, <2>1, AnswersStay DEF FollowInv
<1> QED
  BY <1>3, <1>4, <1>5, <1>6 DEF FollowInv

LEMMA FollowDropAlone ==
  ASSUME TypeInv, FollowInv, ProtocolInv, NEW s \in SimRank, DropAlone(s)
  PROVE  FollowInv'
<1>1. CASE s = 0
  <2>1. /\ simPc[0] \in {"drop", "finDrop"} /\ Dropped({0}) /\ UNCHANGED answered
    BY <1>1 DEF DropAlone, Dropping, clientVars
  <2>2. /\ intercomm'[0] = NoClient /\ step'[0] = step[0]
        /\ simPc'[0] = IF simPc[0] = "finDrop" THEN "gone" ELSE "rejoin"
        /\ \A u \in SimRank \ {0} :
             /\ simPc'[u] = simPc[u] /\ step'[u] = step[u] /\ bcast'[u] = bcast[u]
             /\ intercomm'[u] = intercomm[u]
    BY <2>1, FollowTypes DEF Dropped
  <2>3. \A u \in SimRank \ {0} :
          /\ bcast'[u] = bcast[u] /\ Taken(u)' = Taken(u)
          /\ simPc'[u] \in Final => step'[u] = MaxSteps
    BY <2>2 DEF FollowInv, CountInv, Taken
  <2> QED
    BY <2>1, <2>2, <2>3, FollowRootDropped
<1>2. CASE s # 0
  BY <1>2, FollowDropOther
<1> QED
  BY <1>1, <1>2

(* MPI_Comm_disconnect.                                                    *)
LEMMA FollowDisconnect ==
  ASSUME TypeInv, FollowInv, NEW j \in Clients, DisconnectTogether(j)
  PROVE  FollowInv'
<1>1. /\ \A s \in SimRank : simPc[s] \in {"drop", "finDrop"} /\ intercomm[s] # NoClient
      /\ Dropped(SimRank) /\ UNCHANGED answered
  BY ClientsAssumption DEF DisconnectTogether, Dropping, Left
<1>2. /\ intercomm'[0] = NoClient /\ step'[0] = step[0]
      /\ simPc'[0] = IF simPc[0] = "finDrop" THEN "gone" ELSE "rejoin"
      /\ \A s \in SimRank \ {0} :
           /\ bcast'[s] = bcast[s] /\ intercomm'[s] = NoClient
           /\ simPc'[s] = DroppedPc(simPc[s])
           /\ step'[s] = IF simPc[s] = "drop" THEN step[s] + 1 ELSE step[s]
  BY <1>1, FollowTypes DEF Dropped, DroppedPc
<1>3. ASSUME NEW s \in SimRank \ {0}
      PROVE  /\ Taken(s)' = Taken(s)
             /\ simPc'[s] \in Final => step'[s] = MaxSteps
             /\ Away(simPc[s], intercomm[s], bcast[s], Len(bcast[s])) =>
                  Away(simPc'[s], intercomm'[s], bcast'[s], Len(bcast'[s]))
             /\ Leaving(simPc[s], intercomm[s], bcast[s]) =>
                  Leaving(simPc'[s], intercomm'[s], bcast'[s])
  <2>1. simPc[s] = "finDrop" => step[s] = MaxSteps
    BY DEF FollowInv, CountInv, Final
  <2>2. Taken(s)' = Taken(s) /\ (simPc'[s] \in Final => step'[s] = MaxSteps)
    BY <1>1, <1>2, <2>1, FollowTypes DEF Taken, Processing, Final, DroppedPc
  <2>3. Away(simPc[s], intercomm[s], bcast[s], Len(bcast[s])) =>
          simPc[s] = "drop" /\ Away("run", NoClient, bcast[s], Len(bcast[s]))
    BY <1>1, AwayDropped
  <2>4. Leaving(simPc[s], intercomm[s], bcast[s]) =>
          Leaving(DroppedPc(simPc[s]), NoClient, bcast[s])
    BY <1>1, LeavingDropped
  <2> QED
    BY <1>2, <2>2, <2>3, <2>4 DEF DroppedPc
<1> QED
  BY <1>1, <1>2, <1>3, FollowTypes, FollowRootDropped

(* connect and accept of all ranks return together.                        *)
LEMMA FollowEstablish ==
  ASSUME TypeInv, FollowInv, NEW j \in Clients, Establish(j)
  PROVE  FollowInv'
<1>1. /\ \A s \in SimRank : simPc[s] \in {"connect", "finConnect"}
      /\ Connected(j) /\ AllRanks(j, "accepting") /\ AllGoTo(j, "greeting")
      /\ UNCHANGED answered
  BY DEF Establish, ConnectingTo
<1>2. ASSUME NEW s \in SimRank \ {0}
      PROVE  bcast[s] = <<>> /\ simPc[s] = simPc[0]
  <2>1. Joining(simPc[s], intercomm[s], bcast[s], clientPort[s], simPc[0], clientPort[0])
    BY <1>1, FollowTypes DEF FollowInv, JoiningInv
  <2>2. \A n : ~Away(simPc[s], intercomm[s], bcast[s], n)
    BY <1>1 DEF Away
  <2> QED
    BY <2>1, <2>2 DEF Joining
<1>3. /\ intercomm'[0] = j /\ step'[0] = step[0]
      /\ simPc'[0] = IF simPc[0] = "finConnect" THEN "finGreet" ELSE "greet"
      /\ \A s \in SimRank \ {0} :
           /\ intercomm'[s] = j /\ bcast'[s] = <<>>
           /\ simPc'[s] = IF simPc[0] = "finConnect" THEN "finDrop" ELSE "run"
           /\ step'[s] = IF simPc[0] = "finConnect" THEN step[s] ELSE step[s] + 1
  BY <1>1, <1>2, FollowTypes DEF Connected
<1>4. Taken(0)' = Taken(0) /\ Taken(0) \in Nat
  BY <1>1, <1>3, FollowTypes DEF Taken, Processing, Final
<1>5. CountInv'
  <2>1. ASSUME NEW s \in SimRank \ {0}
        PROVE  Taken(s)' + Len(bcast'[s]) = Taken(0)'
    <3>1. Taken(s)' = Taken(s)
      BY <1>1, <1>2, <1>3, FollowTypes DEF Taken, Processing, Final
    <3> QED
      BY <1>2, <1>3, <1>4, <3>1 DEF FollowInv, CountInv
  <2>2. \A s \in SimRank : simPc[s] = "finConnect" => step[s] = MaxSteps
    BY DEF FollowInv, CountInv, Final
  <2>3. \A s \in SimRank : simPc'[s] \in Final => step'[s] = MaxSteps
    BY <1>1, <1>2, <1>3, <2>2, FollowTypes DEF Final
  <2>4. simPc'[0] \notin {"finJoin", "finRecv"}
    BY <1>3
  <2> QED
    BY <2>1, <2>3, <2>4 DEF CountInv
<1>6. FreeInv' /\ JoiningInv'
  BY <1>3 DEF FreeInv, JoiningInv
<1>7. LeavingInv'
  BY <1>3 DEF LeavingInv, Leaving
<1>8. SessionInv'
  <2>1. ~InQuery(j)'
    <3>1. clientPc'[j][0] = "greeting"
      BY <1>1, FollowTypes DEF AllGoTo
    <3> QED
      BY <1>3, <3>1 DEF InQuery, Querying
  <2>2. SessionOf(j)'
    <3>1. simPc'[0] \in InSession => simPc[0] # "finConnect"
      BY <1>3 DEF InSession
    <3>2. \A b : b = <<>> => Idle(b, Len(b))
      BY DEF Idle
    <3> QED
      BY <1>3, <2>1, <3>1, <3>2 DEF SessionOf, Settled
  <2>3. \A i \in Clients : i # j => SessionOf(i)'
    BY <1>3 DEF SessionOf
  <2> QED
    BY <2>2, <2>3 DEF SessionInv
<1>9. AnswersInv'
  <2>1. Taken(0)' \in Nat /\ Taken(0)' >= Taken(0)
    <3> HIDE DEF Taken
    <3> QED
      BY <1>4
  <2> QED
    BY <1>1, <1>4, <2>1, AnswersStay DEF FollowInv
<1> QED
  BY <1>5, <1>6, <1>7, <1>8, <1>9 DEF FollowInv

-----------------------------------------------------------------------------
(***************************************************************************)
(* The listener and the jobs.                                              *)
(***************************************************************************)

(* A session in which only the regions that were fetched could change.     *)
RanksStill == UNCHANGED <<simPc, step, bcast, intercomm, answered>>
LEMMA SessionSame ==
  ASSUME FollowInv, RanksStill, NEW j \in Clients,
         clientPc'[j][0] \in Querying <=> clientPc[j][0] \in Querying,
         clientPc[j][0] \in Querying =>
           /\ regions'[j] = regions[j]
           /\ \A c \in ClientRank, s \in SimRank :
                /\ (WaitsFor(j, c, s) /\ toClient[j][c][s] # <<>>)' <=>
                     (WaitsFor(j, c, s) /\ toClient[j][c][s] # <<>>)
                /\ WaitsFor(j, c, s) => toClient'[j][c][s] = toClient[j][c][s]
  PROVE  SessionOf(j)'
<1>0. UNCHANGED <<simPc, step, bcast, intercomm, answered>>
  BY DEF RanksStill
<1>1. InQuery(j)' <=> InQuery(j)
  BY <1>0 DEF InQuery
<1>2. SessionOf(j)
  BY DEF FollowInv, SessionInv
<1>3. Taken(0)' = Taken(0)
  BY <1>0 DEF Taken
<1>4. \A s \in SimRank : Answered(j, s)' <=> Answered(j, s)
  BY DEF Answered
<1>5. ASSUME NEW t \in 0 .. MaxSteps - 1, QueryAt(j, t)
      PROVE  QueryAt(j, t)'
  <2>1. RanksAt(j, t)'
    BY <1>0, <1>4, <1>5 DEF RanksAt, QueryAt
  <2>2. FetchedAt(j, t)'
    BY <1>5 DEF FetchedAt, QueryAt
  <2>3. EarlierAt(t)'
    BY <1>0, <1>5 DEF EarlierAt, QueryAt
  <2> QED
    BY <1>0, <1>3, <1>5, <2>1, <2>2, <2>3 DEF QueryAt
<1>6. CASE InQuery(j)
  <2>1. CASE intercomm[0] = j /\ simPc[0] \in InSession
    <3>1. PICK t \in 0 .. MaxSteps - 1 : QueryAt(j, t)
      BY <1>2, <1>6, <2>1 DEF SessionOf
    <3> QED
      BY <1>1, <1>5, <1>6, <3>1 DEF SessionOf
  <2> QED
    BY <1>0, <2>1 DEF SessionOf
<1>7. CASE ~InQuery(j)
  BY <1>0, <1>1, <1>2, <1>7 DEF SessionOf
<1> QED
  BY <1>6, <1>7

LEMMA FollowStill ==
  ASSUME FollowInv, UNCHANGED <<simPc, step, bcast, intercomm>>,
         Joins => clientPort' = clientPort, SessionInv', AnswersInv'
  PROVE  FollowInv'
<1>1. \A s \in SimRank : Taken(s)' = Taken(s)
  BY DEF Taken
<1>2. CountInv'
  BY SizesAssumption DEF FollowInv, CountInv, SimRank, Taken
<1>3. FreeInv' /\ LeavingInv'
  BY DEF FollowInv, FreeInv, LeavingInv
<1>4. JoiningInv'
  BY DEF FollowInv, JoiningInv, Joins
<1> QED
  BY <1>2, <1>3, <1>4 DEF FollowInv

LEMMA AnswersSame ==
  ASSUME FollowInv, RanksStill
  PROVE  AnswersInv'
BY DEF FollowInv, AnswersInv, RanksStill, Taken

(* Every step of the listener thread: it publishes a port only while rank  *)
(* 0 does not hold the mutex, so not inside connect().                     *)
LEMMA FollowListener ==
  ASSUME TypeInv, FollowInv, Listener
  PROVE  FollowInv'
<1>1. /\ UNCHANGED <<simPc, step, bcast, intercomm, clientVars, wireVars>>
      /\ Joins => clientPort' = clientPort
  BY DEF Listener, ListenerNext, ListenerBind, ListenerAccept, ListenerStartRead,
         ListenerExit, ListenerReadError, ListenerRead, ListenerPublish, ListenerClose,
         rankVars, MutexHeld, Joins
<1>2. RanksStill /\ UNCHANGED <<clientPc, regions, toClient>>
  BY <1>1 DEF RanksStill, clientVars, wireVars
<1>3. \A j \in Clients, c \in ClientRank, s \in SimRank :
        WaitsFor(j, c, s)' <=> WaitsFor(j, c, s)
  BY <1>2 DEF WaitsFor, NextRegion
<1>4. SessionInv'
  BY <1>2, <1>3, SessionSame DEF SessionInv
<1> QED
  BY <1>1, <1>2, <1>4, AnswersSame, FollowStill

(* A step of one job that is not the return of query().                    *)
LEMMA FollowOneJob ==
  ASSUME TypeInv, FollowInv, NEW j \in Clients, UNCHANGED simVars, UNCHANGED answered,
         ClientNext(j) \/ (\E c \in ClientRank : LeaveAlone(j, c)), SessionOf(j)'
  PROVE  FollowInv'
<1>1. RanksStill /\ clientPort' = clientPort
  BY DEF RanksStill, simVars, rankVars
<1>2. ASSUME NEW i \in Clients, i # j PROVE SessionOf(i)'
  <2>1. /\ clientPc'[i] = clientPc[i] /\ regions'[i] = regions[i]
        /\ toClient'[i] = toClient[i]
    BY <1>2, OtherJobs
  <2>2. \A c \in ClientRank, s \in SimRank : WaitsFor(i, c, s)' <=> WaitsFor(i, c, s)
    BY <2>1 DEF WaitsFor, NextRegion
  <2> QED
    BY <1>1, <2>1, <2>2, SessionSame
<1>3. SessionInv'
  BY <1>2 DEF SessionInv
<1> QED
  BY <1>1, <1>3, AnswersSame, FollowStill DEF RanksStill

(* What the client's rank 0 may be at, in a session.                       *)
LEMMA SessionTalk ==
  ASSUME ProtocolInv, NEW j \in Clients, Serves(j)
  PROVE  /\ clientPc[j][0] \notin Outside \cup {"leaving", "gone"}
         /\ clientPc[j][0] = "ready" => simPc[0] # "query"
         /\ clientPc[j][0] = "greeting" => simPc[0] # "query"
         /\ clientPc[j][0] = "awaitQuit" /\ toClient[j][0][0] # <<>> =>
              /\ simPc[0] = "query" /\ request[j] = "QUERY"
              /\ toClient[j][0][0] = QuitF
<1>1. Talk(clientPc[j][0], toSim[j][0][0], toClient[j][0][0], simPc[0], TRUE,
           Len(regions[j][0]), request[j])
  BY DEF ProtocolInv, TalkInv, TalkOf, Serves
<1>2. simPc[0] \in InSession
  BY DEF Serves
<1> QED
  BY <1>1, <1>2 DEF Talk, Attentive, Outside, InSession

LEMMA FollowQuietClient ==
  ASSUME TypeInv, FollowInv, ProtocolInv, NEW j \in Clients, UNCHANGED simVars,
         \/ TcpConnect(j) \/ TcpRefused(j) \/ SendHello(j) \/ SendHelloFails(j)
         \/ ConnectSync(j) \/ Greeted(j) \/ (\E cmd \in Command : SendCommand(j, cmd))
  PROVE  FollowInv'
<1>1. /\ clientPc[j][0] \notin Querying /\ clientPc'[j][0] \notin Querying
      /\ UNCHANGED answered
  BY FollowTypes
     DEF TcpConnect, TcpRefused, SendHello, SendHelloFails, ConnectSync, Greeted,
         SendCommand, GoTo, AllGoTo, AllRanks, Querying
<1>2. RanksStill
  BY <1>1 DEF RanksStill, simVars, rankVars
<1>3. SessionOf(j)'
  BY <1>1, <1>2, SessionSame
<1> QED
  BY <1>1, <1>3, FollowOneJob DEF ClientNext

LEMMA FollowLeaveAlone ==
  ASSUME TypeInv, FollowInv, ProtocolInv, NEW j \in Clients, NEW c \in ClientRank,
         LeaveAlone(j, c)
  PROVE  FollowInv'
<1>1. /\ clientPc[j][c] = "leaving" /\ clientPc'[j][c] = "gone"
      /\ \A d \in ClientRank : d # c => clientPc'[j][d] = clientPc[j][d]
      /\ UNCHANGED <<regions, answered, toClient>> /\ UNCHANGED simVars
  BY FollowTypes DEF LeaveAlone, Left, wireVars
<1>2. RanksStill
  BY <1>1 DEF RanksStill, simVars, rankVars
<1>3. \A d \in ClientRank, s \in SimRank : WaitsFor(j, d, s)' <=> WaitsFor(j, d, s)
  BY <1>1 DEF WaitsFor, NextRegion
<1>4. clientPc'[j][0] \in Querying <=> clientPc[j][0] \in Querying
  BY <1>1, FollowTypes DEF Querying
<1>5. SessionOf(j)'
  BY <1>1, <1>2, <1>3, <1>4, SessionSame
<1> QED
  BY <1>1, <1>5, FollowOneJob

(* What a rank of the job that does not wait has not left unread.          *)
LEMMA NothingForFetching ==
  ASSUME TypeInv, ProtocolInv, NEW j \in Clients, NEW c \in ClientRank, NEW s \in SimRank,
         clientPc[j][c] = "fetching"
  PROVE  toClient[j][c][s] = <<>>
<1>1. CASE s = 0 /\ c = 0
  <2>1. Talk("fetching", toSim[j][0][0], toClient[j][0][0], simPc[0], intercomm[0] = j,
             Len(regions[j][0]), request[j])
    BY <1>1 DEF ProtocolInv, TalkInv, TalkOf
  <2> QED
    BY <1>1, <2>1 DEF Talk
<1>2. CASE s # 0 \/ c # 0
  <2>1. Fetch(toSim[j][s][c], toClient[j][c][s], WaitsFor(j, c, s))
    BY <1>2 DEF ProtocolInv, FetchInv, FetchOf
  <2> QED
    BY <2>1 DEF Fetch, WaitsFor
<1> QED
  BY <1>1, <1>2

LEMMA SharesAreNat ==
  ASSUME NEW c \in ClientRank
  PROVE  MySims(M, N, c) \in Nat
<1>1. M \in Nat /\ N \in Nat \ {0} /\ c \in 0 .. N-1
  BY SizesAssumption DEF ClientRank
<1> QED
  BY <1>1, ShareOfRank

(* query() begins to fetch: no rank has answered.                          *)
LEMMA FollowReply ==
  ASSUME TypeInv, FollowInv, ProtocolInv, NEW j \in Clients, CommandReply(j),
         UNCHANGED simVars
  PROVE  FollowInv'
<1>1. /\ clientPc[j][0] = "awaitQuit" /\ toClient[j][0][0] # <<>>
      /\ UNCHANGED answered
      /\ regions'[j] = [c \in ClientRank |-> <<>>]
      /\ \E pc \in {"leaving", "fetching"} : \A c \in ClientRank : clientPc'[j][c] = pc
  BY FollowTypes DEF CommandReply, AllGoTo
<1>2. RanksStill /\ UNCHANGED <<simPc, step, bcast, intercomm>>
  BY <1>1 DEF RanksStill, simVars, rankVars
<1>3. CASE Serves(j)
  <2>1. simPc[0] = "query" /\ InQuery(j) /\ InQuery(j)'
    BY <1>1, <1>2, <1>3, SessionTalk DEF InQuery
  <2>2. PICK t \in 0 .. MaxSteps - 1 : QueryAt(j, t)
    BY <1>3, <2>1 DEF FollowInv, SessionInv, SessionOf, Serves
  <2>3. \A s \in SimRank : ~Answered(j, s)
    BY <1>1 DEF Answered, Querying
  <2>4. \A c \in ClientRank : regions'[j][c] = <<>> /\ clientPc'[j][c] # "waiting"
    BY <1>1
  <2>5. \A s \in SimRank : ~Answered(j, s)'
    BY <2>4 DEF Answered, WaitsFor
  <2>6. RanksAt(j, t)'
    BY <1>2, <2>2, <2>3, <2>5 DEF RanksAt, QueryAt
  <2>7. FetchedAt(j, t)'
    <3>1. \A c \in ClientRank : MySims(M, N, c) \in Nat
      BY SharesAreNat
    <3> QED
      BY <2>4, <3>1 DEF FetchedAt, WaitsFor
  <2>8. EarlierAt(t)' /\ Taken(0)' = Taken(0)
    BY <1>1, <1>2, <2>2 DEF EarlierAt, QueryAt, Taken
  <2>9. QueryAt(j, t)'
    BY <1>2, <2>2, <2>6, <2>7, <2>8 DEF QueryAt
  <2>10. SessionOf(j)'
    BY <2>1, <2>9 DEF SessionOf
  <2> QED
    BY <1>1, <2>10, FollowOneJob DEF ClientNext
<1>4. CASE ~Serves(j)
  <2>1. SessionOf(j)'
    BY <1>2, <1>4 DEF SessionOf, Serves
  <2> QED
    BY <1>1, <2>1, FollowOneJob DEF ClientNext

<1> QED
  BY <1>3, <1>4

(* A ping is sent where nothing is under way.                              *)
LEMMA FollowPing ==
  ASSUME TypeInv, FollowInv, ProtocolInv, NEW j \in Clients, NEW c \in ClientRank,
         Ping(j, c), UNCHANGED simVars
  PROVE  FollowInv'
<1>1. /\ clientPc[j][c] = "fetching" /\ clientPc'[j][c] = "waiting"
      /\ \A d \in ClientRank : d # c => clientPc'[j][d] = clientPc[j][d]
      /\ UNCHANGED <<regions, answered, toClient>>
  BY FollowTypes DEF Ping, GoTo
<1>2. RanksStill
  BY <1>1 DEF RanksStill, simVars, rankVars
<1>3. \A s \in SimRank : toClient[j][c][s] = <<>>
  BY <1>1, NothingForFetching
<1>4. clientPc'[j][0] \in Querying <=> clientPc[j][0] \in Querying
  BY <1>1, FollowTypes DEF Querying
<1>5. \A d \in ClientRank, s \in SimRank : d # c => (WaitsFor(j, d, s)' <=> WaitsFor(j, d, s))
  BY <1>1 DEF WaitsFor, NextRegion
<1>6. \A d \in ClientRank, s \in SimRank :
        (WaitsFor(j, d, s) /\ toClient[j][d][s] # <<>>)' <=>
          (WaitsFor(j, d, s) /\ toClient[j][d][s] # <<>>)
  BY <1>1, <1>3, <1>5
<1>7. SessionOf(j)'
  BY <1>1, <1>2, <1>4, <1>6, SessionSame
<1> QED
  BY <1>1, <1>7, FollowOneJob DEF ClientNext

(* The region that was on its way is the next of those fetched.            *)
LEMMA RegionTaken ==
  ASSUME NEW q \in Seq(ToClientMessage), NEW m \in ToClientMessage
  PROVE  /\ Len(q) \in Nat /\ Len(Append(q, m)) = Len(q) + 1
         /\ Append(q, m)[Len(q) + 1] = m
         /\ \A i \in 1 .. Len(q) : Append(q, m)[i] = q[i]
OBVIOUS

LEMMA FollowRegion ==
  ASSUME TypeInv, FollowInv, ProtocolInv, NEW j \in Clients, NEW c \in ClientRank,
         ReceiveRegion(j, c), UNCHANGED simVars
  PROVE  FollowInv'
<1>1. PICK s \in SimRank : s = NextRegion(j, c)
  BY NextRegionExists DEF ReceiveRegion, TypeInv, TypeOK, WaitsForRegion
<1>2. /\ clientPc[j][c] = "waiting" /\ toClient[j][c][s] # <<>> /\ WaitsFor(j, c, s)
      /\ UNCHANGED answered
      /\ toClient' = [toClient EXCEPT ![j][c][s] = Tail(@)]
      /\ regions' = [regions EXCEPT ![j][c] = Append(@, Head(toClient[j][c][s]))]
      /\ clientPc' = [clientPc EXCEPT ![j][c] = "fetching"]
  BY <1>1 DEF ReceiveRegion, GoTo, ReceiveFromSim, WaitsFor
<1>3. PICK m \in ToClientMessage : m = Head(toClient[j][c][s])
  BY <1>2, FollowTypes DEF ToClientType
<1>4. PICK q \in Seq(ToClientMessage) : q = regions[j][c]
  BY FollowTypes
<1>5. /\ clientPc'[j][c] = "fetching" /\ regions'[j][c] = Append(q, m)
      /\ \A d \in ClientRank : d # c => /\ clientPc'[j][d] = clientPc[j][d]
                                        /\ regions'[j][d] = regions[j][d]
      /\ \A d \in ClientRank, u \in SimRank :
           d # c => toClient'[j][d][u] = toClient[j][d][u]
  BY <1>2, <1>3, <1>4, FollowTypes DEF ToClientType
<1>6. RanksStill /\ UNCHANGED <<simPc, step, bcast, intercomm>>
  BY <1>2 DEF RanksStill, simVars, rankVars
<1>7. /\ Len(q) \in Nat /\ Len(Append(q, m)) = Len(q) + 1
      /\ Append(q, m)[Len(q) + 1] = m
      /\ \A i \in 1 .. Len(q) : Append(q, m)[i] = q[i]
      /\ (Len(q) + 1) - 1 = Len(q) /\ Len(q) + 1 \in 1 .. Len(q) + 1
      /\ \A i \in 1 .. Len(q) : i \in 1 .. Len(q) + 1
      /\ \A i \in 1 .. Len(q) + 1 : i \in 1 .. Len(q) \/ i = Len(q) + 1
  BY RegionTaken
<1>8. RegionId(M, N, c, Len(q)) = s
  BY <1>1, <1>4 DEF NextRegion
<1>9. clientPc[j][0] \in Querying /\ clientPc'[j][0] \in Querying
  <2>1. clientPc[j][0] \in Querying
    BY <1>2 DEF ProtocolInv, QueryInv, QueryOf, Querying
  <2> QED
    BY <1>5, <2>1, FollowTypes DEF Querying
<1>10. \A d \in ClientRank, u \in SimRank : d # c => (WaitsFor(j, d, u)' <=> WaitsFor(j, d, u))
  BY <1>5 DEF WaitsFor, NextRegion
<1>11. \A u \in SimRank : ~WaitsFor(j, c, u)' /\ (WaitsFor(j, c, u) => u = s)
  BY <1>1, <1>5 DEF WaitsFor
<1>12. Answered(j, s)
  BY <1>2, <1>9 DEF Answered
<1>13. ASSUME NEW u \in SimRank
       PROVE  Answered(j, u)' <=> Answered(j, u)
  <2>1. CASE u = s
    <3>1. \E i \in 1 .. Len(regions'[j][c]) : RegionId(M, N, c, i - 1) = s
      BY <1>5, <1>7, <1>8
    <3>2. Answered(j, s)'
      BY <1>9, <3>1 DEF Answered
    <3> QED
      BY <1>12, <2>1, <3>2
  <2>2. CASE u # s
    <3>1. (\E i \in 1 .. Len(Append(q, m)) : RegionId(M, N, c, i - 1) = u)
            <=> (\E i \in 1 .. Len(q) : RegionId(M, N, c, i - 1) = u)
      BY <1>7, <1>8, <2>2
    <3>2. /\ (\E i \in 1 .. Len(regions'[j][c]) : RegionId(M, N, c, i - 1) = u)
               <=> (\E i \in 1 .. Len(regions[j][c]) : RegionId(M, N, c, i - 1) = u)
          /\ ~WaitsFor(j, c, u)' /\ ~WaitsFor(j, c, u)
      BY <1>4, <1>5, <1>11, <2>2, <3>1
    <3> QED
      BY <1>5, <1>9, <1>10, <3>2 DEF Answered
  <2> QED
    BY <2>1, <2>2
<1>14. CASE Serves(j)
  <2>1. InQuery(j) /\ InQuery(j)'
    BY <1>9 DEF InQuery
  <2>2. PICK t \in 0 .. MaxSteps - 1 : QueryAt(j, t)
    BY <1>14, <2>1 DEF FollowInv, SessionInv, SessionOf, Serves
  <2>3. RanksAt(j, t)'
    BY <1>6, <1>13, <2>2 DEF RanksAt, QueryAt
  <2>4. m = RegionMessage(s, t)
    <3>1. toClient[j][c][s] = <<RegionMessage(s, t)>>
      BY <1>2, <1>9, <2>2 DEF QueryAt, FetchedAt
    <3>2. Head(<<RegionMessage(s, t)>>) = RegionMessage(s, t)
      OBVIOUS
    <3> QED
      BY <1>3, <3>1, <3>2
  <2>5. FetchedAt(j, t)
    BY <2>2 DEF QueryAt
  <2>6. ASSUME NEW d \in ClientRank
        PROVE  /\ Len(regions'[j][d]) <= MySims(M, N, d)
               /\ \A i \in 1 .. Len(regions'[j][d]) :
                    regions'[j][d][i] = RegionMessage(RegionId(M, N, d, i - 1), t)
    <3>1. CASE d = c
      <4>1. Len(q) < MySims(M, N, c) /\ MySims(M, N, c) \in Nat
        BY <1>2, <1>4, SharesAreNat DEF TypeInv, WaitsForRegion, Unfinished
      <4>2. Len(q) + 1 <= MySims(M, N, c)
        BY <1>7, <4>1
      <4>3. \A i \in 1 .. Len(q) : q[i] = RegionMessage(RegionId(M, N, c, i - 1), t)
        BY <1>4, <1>9, <2>5 DEF FetchedAt
      <4>4. ASSUME NEW i \in 1 .. Len(q) + 1
            PROVE  Append(q, m)[i] = RegionMessage(RegionId(M, N, c, i - 1), t)
        <5>1. CASE i \in 1 .. Len(q)
          BY <1>7, <4>3, <5>1
        <5>2. CASE i = Len(q) + 1
          BY <1>7, <1>8, <2>4, <5>2
        <5> QED
          BY <1>7, <5>1, <5>2
      <4> QED
        BY <1>5, <1>7, <3>1, <4>2, <4>4
    <3>2. CASE d # c
      BY <1>5, <1>9, <2>5, <3>2 DEF FetchedAt
    <3> QED
      BY <3>1, <3>2
  <2>7. ASSUME NEW d \in ClientRank, NEW u \in SimRank,
               WaitsFor(j, d, u)', toClient'[j][d][u] # <<>>
        PROVE  toClient'[j][d][u] = <<RegionMessage(u, t)>>
    <3>1. d # c
      BY <1>11, <2>7
    <3> QED
      BY <1>5, <1>9, <1>10, <2>5, <2>7, <3>1 DEF FetchedAt
  <2>8. FetchedAt(j, t)'
    BY <2>6, <2>7 DEF FetchedAt
  <2>9. EarlierAt(t)' /\ Taken(0)' = Taken(0)
    BY <1>2, <1>6, <2>2 DEF EarlierAt, QueryAt, Taken
  <2>10. QueryAt(j, t)'
    BY <1>6, <2>2, <2>3, <2>8, <2>9 DEF QueryAt
  <2>11. SessionOf(j)'
    BY <2>1, <2>10 DEF SessionOf
  <2> QED
    BY <1>2, <2>11, FollowOneJob DEF ClientNext
<1>15. CASE ~Serves(j)
  <2>1. SessionOf(j)'
    BY <1>6, <1>15 DEF SessionOf, Serves
  <2> QED
    BY <1>2, <2>1, FollowOneJob DEF ClientNext
<1> QED
  BY <1>14, <1>15

(* When no rank of the job has regions left to fetch, each simulation rank *)
(* is one whose region was fetched.                                        *)
LEMMA AllFetched ==
  ASSUME ClientTypeOK, NEW j \in Clients,
         \A c \in ClientRank : Len(regions[j][c]) = MySims(M, N, c)
  PROVE  /\ \A s \in SimRank : \E c \in ClientRank : \E i \in 1 .. Len(regions[j][c]) :
              RegionId(M, N, c, i - 1) = s
         /\ \A c \in ClientRank : \A i \in 1 .. Len(regions[j][c]) :
              RegionId(M, N, c, i - 1) \in SimRank
<1>1. /\ M \in Nat /\ N \in Nat \ {0} /\ SimRank = 0 .. M-1 /\ ClientRank = 0 .. N-1
  BY SizesAssumption DEF ClientRank, SimRank
<1>2. Partition(M, N)
  BY <1>1, AssignmentIsPartition
<1>3. \A c \in ClientRank : MySims(M, N, c) \in Nat
  BY SharesAreNat
<1>4. ASSUME NEW s \in SimRank
      PROVE  \E c \in ClientRank : \E i \in 1 .. Len(regions[j][c]) :
               RegionId(M, N, c, i - 1) = s
  <2>1. PICK c \in ClientRank : s \in RegionsOf(M, N, c)
    BY <1>1, <1>2 DEF Partition
  <2>2. PICK i \in 0 .. MySims(M, N, c) - 1 : RegionId(M, N, c, i) = s
    BY <2>1 DEF RegionsOf
  <2>3. i + 1 \in 1 .. Len(regions[j][c]) /\ (i + 1) - 1 = i
    BY <1>3
  <2> QED
    BY <2>2, <2>3
<1>5. ASSUME NEW c \in ClientRank, NEW i \in 1 .. Len(regions[j][c])
      PROVE  RegionId(M, N, c, i - 1) \in SimRank
  <2>1. i - 1 \in 0 .. MySims(M, N, c) - 1
    BY <1>3
  <2>2. RegionId(M, N, c, i - 1) \in RegionsOf(M, N, c)
    BY <2>1 DEF RegionsOf
  <2> QED
    BY <1>1, <1>2, <2>2 DEF Partition
<1> QED
  BY <1>4, <1>5

LEMMA AnswerAppend ==
  ASSUME NEW S, NEW q \in Seq(S), NEW x \in S
  PROVE  /\ Len(q) \in Nat /\ DOMAIN q = 1 .. Len(q)
         /\ DOMAIN Append(q, x) = 1 .. Len(q) + 1
         /\ Append(q, x)[Len(q) + 1] = x
         /\ \A i \in 1 .. Len(q) : Append(q, x)[i] = q[i]
OBVIOUS

(* query() returns: its answer is the snapshot of the timestep in which    *)
(* rank 0 took the command, and all ranks have handled it.                 *)
LEMMA ReturnsSnapshot ==
  ASSUME TypeInv, FollowInv, ProtocolInv, NEW j \in Clients, QueryReturn(j),
         UNCHANGED simVars
  PROVE  /\ intercomm[0] = j /\ simPc[0] \in InSession /\ simPc[0] # "query"
         /\ \A s \in SimRank : \E c \in ClientRank : \E i \in 1 .. Len(regions[j][c]) :
              RegionId(M, N, c, i - 1) = s
         /\ \E t \in 0 .. MaxSteps - 1 :
              /\ QueryAt(j, t) /\ SnapshotAt(t) \in SUBSET ToClientMessage
              /\ answered' = [answered EXCEPT ![j] = Append(@, SnapshotAt(t))]
<1> DEFINE x == UNION {{regions[j][c][i] : i \in DOMAIN regions[j][c]} : c \in ClientRank}
<1>1. /\ \A c \in ClientRank : clientPc[j][c] = "fetching" /\ ~Unfinished(j, c)
      /\ \A c \in ClientRank : clientPc'[j][c] = "ready"
      /\ answered' = [answered EXCEPT ![j] = Append(@, x)]
  BY FollowTypes DEF QueryReturn, QueryBarrier, AllRanks, AllGoTo
<1>2. UNCHANGED <<simPc, step, bcast, intercomm, clientPort>>
  BY DEF simVars, rankVars
<1>3. intercomm[0] = j /\ simPc[0] \in InSession /\ simPc[0] # "query"
  <2>1. Talk("fetching", toSim[j][0][0], toClient[j][0][0], simPc[0], intercomm[0] = j,
             Len(regions[j][0]), request[j])
    BY <1>1, FollowTypes DEF ProtocolInv, TalkInv, TalkOf
  <2>2. Len(regions[j][0]) # 0
    BY <1>1, FollowTypes, FirstRegion
  <2> QED
    BY <2>1, <2>2 DEF Talk, Attentive, InSession
<1>4. PICK t \in 0 .. MaxSteps - 1 : QueryAt(j, t)
  <2>1. clientPc[j][0] \in Querying
    BY <1>1, FollowTypes DEF Querying
  <2> QED
    BY <1>3, <2>1 DEF FollowInv, SessionInv, SessionOf, InQuery
<1>5. /\ \A c \in ClientRank :
           /\ Len(regions[j][c]) <= MySims(M, N, c)
           /\ \A i \in 1 .. Len(regions[j][c]) :
                regions[j][c][i] = RegionMessage(RegionId(M, N, c, i - 1), t)
      /\ RanksAt(j, t) /\ EarlierAt(t) /\ t < Taken(0) /\ clientPc[j][0] \in Querying
  BY <1>1, <1>4, FollowTypes DEF QueryAt, FetchedAt, Querying
<1>6. \A c \in ClientRank : /\ Len(regions[j][c]) = MySims(M, N, c)
                            /\ DOMAIN regions[j][c] = 1 .. Len(regions[j][c])
  <2> SUFFICES ASSUME NEW c \in ClientRank
               PROVE  /\ Len(regions[j][c]) = MySims(M, N, c)
                      /\ DOMAIN regions[j][c] = 1 .. Len(regions[j][c])
    OBVIOUS
  <2>1. regions[j][c] \in Seq(ToClientMessage)
    BY FollowTypes
  <2>2. Len(regions[j][c]) \in Nat /\ DOMAIN regions[j][c] = 1 .. Len(regions[j][c])
    BY <2>1
  <2> QED
    BY <1>1, <1>5, <2>2, SharesAreNat DEF Unfinished
<1>7. /\ \A s \in SimRank : \E c \in ClientRank : \E i \in 1 .. Len(regions[j][c]) :
           RegionId(M, N, c, i - 1) = s
      /\ \A c \in ClientRank : \A i \in 1 .. Len(regions[j][c]) :
           RegionId(M, N, c, i - 1) \in SimRank
  BY <1>6, FollowTypes, AllFetched
<1>8. x = SnapshotAt(t)
  <2>1. ASSUME NEW m \in x PROVE m \in SnapshotAt(t)
    <3>0. PICK c \in ClientRank : \E i \in 1 .. Len(regions[j][c]) : m = regions[j][c][i]
      BY <1>6
    <3>1. PICK i \in 1 .. Len(regions[j][c]) : m = regions[j][c][i]
      BY <3>0
    <3>2. m = RegionMessage(RegionId(M, N, c, i - 1), t)
      BY <1>5, <3>1
    <3> QED
      BY <1>7, <3>2 DEF SnapshotAt
  <2>2. ASSUME NEW m \in SnapshotAt(t) PROVE m \in x
    <3>1. PICK s \in SimRank : m = RegionMessage(s, t)
      BY DEF SnapshotAt
    <3>0. PICK c \in ClientRank : \E i \in 1 .. Len(regions[j][c]) :
                                      RegionId(M, N, c, i - 1) = s
      BY <1>7
    <3>2. PICK i \in 1 .. Len(regions[j][c]) : RegionId(M, N, c, i - 1) = s
      BY <3>0
    <3>3. m = regions[j][c][i] /\ i \in DOMAIN regions[j][c]
      BY <1>5, <1>6, <3>1, <3>2
    <3> QED
      BY <3>3
  <2> QED
    BY <2>1, <2>2
<1>9. x \in SUBSET ToClientMessage
  <2>1. ASSUME NEW c \in ClientRank, NEW i \in DOMAIN regions[j][c]
        PROVE  regions[j][c][i] \in ToClientMessage
    <3>1. regions[j][c] \in Seq(ToClientMessage)
      BY FollowTypes
    <3> QED
      BY <3>1, <1>6, <2>1
  <2> QED
    BY <2>1
<1> HIDE DEF x
<1> QED
  BY <1>1, <1>3, <1>4, <1>7, <1>8, <1>9

LEMMA FollowReturn ==
  ASSUME TypeInv, FollowInv, ProtocolInv, NEW j \in Clients, QueryReturn(j),
         UNCHANGED simVars
  PROVE  FollowInv'
<1>1. /\ \A c \in ClientRank : clientPc[j][c] = "fetching" /\ clientPc'[j][c] = "ready"
      /\ UNCHANGED <<simPc, step, bcast, intercomm, clientPort>>
  BY FollowTypes DEF QueryReturn, QueryBarrier, AllRanks, AllGoTo, simVars, rankVars
<1>2. /\ intercomm[0] = j /\ simPc[0] \in InSession /\ simPc[0] # "query"
      /\ \A s \in SimRank : \E c \in ClientRank : \E i \in 1 .. Len(regions[j][c]) :
           RegionId(M, N, c, i - 1) = s
      /\ \E t \in 0 .. MaxSteps - 1 :
           /\ QueryAt(j, t) /\ SnapshotAt(t) \in SUBSET ToClientMessage
           /\ answered' = [answered EXCEPT ![j] = Append(@, SnapshotAt(t))]
  BY ReturnsSnapshot
<1>3. PICK t \in 0 .. MaxSteps - 1 :
        /\ QueryAt(j, t) /\ SnapshotAt(t) \in SUBSET ToClientMessage
        /\ answered' = [answered EXCEPT ![j] = Append(@, SnapshotAt(t))]
  BY <1>2
<1>4. RanksAt(j, t) /\ EarlierAt(t) /\ t < Taken(0) /\ clientPc[j][0] \in Querying
  BY <1>1, <1>3, FollowTypes DEF QueryAt, Querying
<1>5. PICK q \in Seq(SUBSET ToClientMessage) : q = answered[j]
  BY FollowTypes DEF ClientTypeOK
<1>6. PICK y \in SUBSET ToClientMessage : y = SnapshotAt(t)
  BY <1>3
<1>7. /\ Len(q) \in Nat /\ DOMAIN q = 1 .. Len(q)
       /\ DOMAIN Append(q, y) = 1 .. Len(q) + 1
       /\ Append(q, y)[Len(q) + 1] = y
       /\ \A i \in 1 .. Len(q) : Append(q, y)[i] = q[i]
  BY AnswerAppend
<1>8. /\ answered'[j] = Append(q, y)
       /\ \A i \in Clients : i # j => answered'[i] = answered[i]
  BY <1>3, <1>5, <1>6, FollowTypes DEF ClientTypeOK
<1>9. Taken(0)' = Taken(0)
  BY <1>1 DEF Taken
<1>10. AnswersInv'
  <2>1. ASSUME NEW i \in Clients, i # j
        PROVE  /\ \A k \in DOMAIN answered'[i] : \E v \in 0 .. MaxSteps - 1 :
                    v < Taken(0)' /\ answered'[i][k] = SnapshotAt(v)
               /\ \A k, l \in DOMAIN answered'[i] :
                    k < l => \A m \in answered'[i][k], n \in answered'[i][l] : m.step < n.step
    BY <1>8, <1>9, <2>1 DEF FollowInv, AnswersInv
  <2>2. ASSUME NEW k \in 1 .. Len(q) + 1
        PROVE  \E v \in 0 .. MaxSteps - 1 :
                 v < Taken(0)' /\ Append(q, y)[k] = SnapshotAt(v)
    <3>1. CASE k \in 1 .. Len(q)
      BY <1>5, <1>7, <1>9, <3>1 DEF FollowInv, AnswersInv
    <3>2. CASE k = Len(q) + 1
      BY <1>4, <1>6, <1>7, <1>9, <3>2
    <3> QED
      BY <1>7, <3>1, <3>2
  <2>3. ASSUME NEW k \in 1 .. Len(q) + 1, NEW l \in 1 .. Len(q) + 1, k < l,
               NEW m \in Append(q, y)[k], NEW n \in Append(q, y)[l]
        PROVE  m.step < n.step
    <3>1. k \in 1 .. Len(q) /\ (l \in 1 .. Len(q) \/ l = Len(q) + 1)
      BY <1>7, <2>3
    <3>2. CASE l \in 1 .. Len(q)
      BY <1>5, <1>7, <2>3, <3>1, <3>2 DEF FollowInv, AnswersInv
    <3>3. CASE l = Len(q) + 1
      <4>1. n.step = t
        <5>1. n \in SnapshotAt(t)
          BY <1>6, <1>7, <3>3
        <5> QED
          BY <5>1 DEF SnapshotAt, RegionMessage
      <4>2. m.step < t
        BY <1>4, <1>5, <1>7, <3>1 DEF EarlierAt
      <4> QED
        BY <4>1, <4>2
    <3> QED
      BY <3>1, <3>2, <3>3
  <2>4. /\ \A k \in DOMAIN answered'[j] : \E v \in 0 .. MaxSteps - 1 :
             v < Taken(0)' /\ answered'[j][k] = SnapshotAt(v)
        /\ \A k, l \in DOMAIN answered'[j] :
             k < l => \A m \in answered'[j][k], n \in answered'[j][l] : m.step < n.step
    BY <1>7, <1>8, <2>2, <2>3
  <2> QED
    BY <2>1, <2>4 DEF AnswersInv
<1>11. SessionInv'
  <2>1. \A s \in SimRank \ {0} : Answered(j, s)
    BY <1>2, <1>4 DEF Answered
  <2>2. \A s \in SimRank \ {0} : Settled(simPc[s], intercomm[s], bcast[s], j)
    BY <1>4, <2>1 DEF RanksAt
  <2>3. ~InQuery(j)'
    BY <1>1, <1>2, FollowTypes DEF InQuery, Querying
  <2>4. SessionOf(j)'
    BY <1>1, <2>2, <2>3 DEF SessionOf
  <2>5. \A i \in Clients : i # j => SessionOf(i)'
    BY <1>1, <1>2 DEF SessionOf
  <2> QED
    BY <2>4, <2>5 DEF SessionInv
<1> QED
  BY <1>1, <1>10, <1>11, FollowStill

-----------------------------------------------------------------------------
LEMMA FollowInit == Init => FollowInv
<1> SUFFICES ASSUME Init PROVE FollowInv
  OBVIOUS
<1>1. /\ \A s \in SimRank : /\ simPc[s] = "run" /\ step[s] = 0 /\ bcast[s] = <<>>
                            /\ intercomm[s] = NoClient
      /\ \A j \in Clients : answered[j] = <<>>
      /\ 0 \in SimRank
  BY RankZero DEF Init, SimInit, ClientInit
<1>2. \A s \in SimRank : Taken(s) = 0
  BY <1>1 DEF Taken, Processing, Final
<1>3. CountInv
  BY <1>1, <1>2 DEF CountInv, Final
<1>4. FreeInv
  BY <1>1 DEF FreeInv, Away, Idle
<1>5. JoiningInv /\ LeavingInv
  BY <1>1 DEF JoiningInv, LeavingInv
<1>6. SessionInv
  BY <1>1, ClientsAssumption DEF SessionInv, SessionOf
<1>7. AnswersInv
  BY <1>1 DEF AnswersInv
<1> QED
  BY <1>3, <1>4, <1>5, <1>6, <1>7 DEF FollowInv

LEMMA FollowNext == TypeInv /\ ProtocolInv /\ FollowInv /\ [Next]_vars => FollowInv'
<1> SUFFICES ASSUME TypeInv, ProtocolInv, FollowInv, [Next]_vars PROVE FollowInv'
  OBVIOUS
<1>1. CASE Listener
  BY <1>1, FollowListener
<1>2. CASE Root
  <2>1. CASE RootNext /\ UNCHANGED clientVars
    BY <2>1, FollowRoot
  <2>2. CASE DropAlone(0)
    BY <2>2, RankZero, FollowDropAlone
  <2> QED
    BY <1>2, <2>1, <2>2 DEF Root
<1>3. ASSUME NEW s \in SimRank \ {0}, Other(s) PROVE FollowInv'
  BY <1>3, FollowProcessOther, FollowHandleQuery, FollowFinalOther, FollowDropAlone
     DEF Other, OtherNext
<1>4. ASSUME NEW j \in Clients, Client(j) PROVE FollowInv'
  <2>1. CASE ClientNext(j) /\ UNCHANGED simVars
    BY <2>1, FollowQuietClient, FollowReply, FollowPing, FollowRegion, FollowReturn
       DEF ClientNext
  <2> QED
    BY <1>4, <2>1, FollowLeaveAlone DEF Client
<1>5. ASSUME NEW j \in Clients, Together(j) PROVE FollowInv'
  BY <1>5, FollowEstablish, FollowDisconnect DEF Together
<1>6. CASE UNCHANGED vars
  <2>1. /\ RanksStill /\ UNCHANGED <<simPc, step, bcast, intercomm, clientPort>>
        /\ UNCHANGED <<clientPc, regions, toClient>>
    BY <1>6 DEF vars, simVars, rankVars, clientVars, wireVars, RanksStill
  <2>2. \A j \in Clients, c \in ClientRank, s \in SimRank :
          WaitsFor(j, c, s)' <=> WaitsFor(j, c, s)
    BY <2>1 DEF WaitsFor, NextRegion
  <2>3. SessionInv'
    BY <2>1, <2>2, SessionSame DEF SessionInv
  <2> QED
    BY <2>1, <2>3, AnswersSame, FollowStill
<1> QED
  BY <1>1, <1>2, <1>3, <1>4, <1>5, <1>6 DEF Next, Done

(* Every reachable state satisfies the invariant above.                    *)
THEOREM BroadcastsFollowed == Spec => [](SafeInv /\ FollowInv)
<1>1. Init => FollowInv
  BY FollowInit
<1>2. SafeInv /\ FollowInv /\ [Next]_vars => FollowInv'
  BY FollowNext DEF SafeInv
<1> QED
  BY <1>1, <1>2, ProtocolKept, PTL DEF Spec

-----------------------------------------------------------------------------
(***************************************************************************)
(* What follows: no throw, nothing unread, coherent queries.               *)
(***************************************************************************)

LEMMA FollowNoThrow ==
  ASSUME TypeInv, ProtocolInv, FollowInv
  PROVE  NoThrow
<1> SUFFICES ASSUME NEW s \in SimRank, simPc[s] = "threw" PROVE FALSE
  BY DEF NoThrow
<1>1. s # 0
  BY DEF ProtocolInv, RootInv
<1>2. \A b, n : ~Away("threw", intercomm[s], b, n)
  BY DEF Away
<1>3. ~Free
  BY <1>1, <1>2 DEF FollowInv, FreeInv, Free
<1>4. ~Joins
  BY <1>1, <1>2 DEF FollowInv, JoiningInv, Joins, Joining
<1>5. ~Leaves
  BY <1>1, <1>2 DEF FollowInv, LeavingInv, Leaves, Leaving
<1>6. ASSUME NEW j \in Clients, Serves(j) PROVE FALSE
  BY <1>1, <1>6
     DEF FollowInv, SessionInv, SessionOf, Serves, QueryAt, RanksAt, Settled, Asked
<1> QED
  BY <1>3, <1>4, <1>5, <1>6, Phases

(* No rank of the simulation ever reaches the throws of is_sim.cpp, lines  *)
(* 234 and 242: whatever the listener writes meanwhile, the command that a *)
(* rank takes is one that it can handle where it is.                       *)
THEOREM NoRankThrows == Spec => []NoThrow
<1>1. SafeInv /\ FollowInv => NoThrow
  BY FollowNoThrow DEF SafeInv
<1> QED
  BY <1>1, BroadcastsFollowed, PTL

LEMMA FollowNothingUnread ==
  ASSUME TypeInv, ProtocolInv, FollowInv
  PROVE  NothingUnreadAtClose
<1> SUFFICES ASSUME NEW s \in SimRank, NEW j \in Clients, Dropping(s, j),
                    NEW c \in ClientRank, toSim[j][s][c] # <<>>
             PROVE  FALSE
  BY DEF NothingUnreadAtClose
<1>1. simPc[s] \in {"drop", "finDrop"} /\ intercomm[s] = j
  BY DEF Dropping
<1>2. CASE s = 0 /\ c = 0
  <2>1. Talk(clientPc[j][0], toSim[j][0][0], toClient[j][0][0], simPc[0], TRUE,
             Len(regions[j][0]), request[j])
    BY <1>1, <1>2 DEF ProtocolInv, TalkInv, TalkOf
  <2>2. clientPc[j][0] \in ClientState
    BY FollowTypes
  <2> QED
    BY <1>1, <1>2, <2>1, <2>2 DEF Talk, Attentive, ClientState, Outside
<1>3. CASE s # 0 \/ c # 0
  <2>1. WaitsFor(j, c, s)
    <3>1. Fetch(toSim[j][s][c], toClient[j][c][s], WaitsFor(j, c, s))
      BY <1>3 DEF ProtocolInv, FetchInv, FetchOf
    <3> QED
      BY <3>1 DEF Fetch
  <2>2. s # 0
    BY <1>3, <2>1, FollowTypes, FirstRegion DEF WaitsFor, TypeInv, WaitsForRegion
  <2>3. clientPc[j][0] \in Querying
    BY <2>1 DEF WaitsFor, ProtocolInv, QueryInv, QueryOf, Querying
  <2>4. Talk(clientPc[j][0], toSim[j][0][0], toClient[j][0][0], simPc[0], intercomm[0] = j,
             Len(regions[j][0]), request[j])
    BY DEF ProtocolInv, TalkInv, TalkOf
  <2>5. intercomm[0] = j /\ simPc[0] \in InSession
    BY <2>3, <2>4 DEF Talk, Attentive, Querying, InSession
  <2>6. simPc[s] \in {"run", "query"}
    BY <2>2, <2>3, <2>5
       DEF FollowInv, SessionInv, SessionOf, InQuery, QueryAt, RanksAt, Settled, Asked
  <2> QED
    BY <1>1, <2>6
<1> QED
  BY <1>2, <1>3

(* A rank that destroys the intercommunicator has read all that the client *)
(* sent to it: no close of a socket resets the connection over a reply.    *)
THEOREM EverythingRead == Spec => []NothingUnreadAtClose
<1>1. SafeInv /\ FollowInv => NothingUnreadAtClose
  BY FollowNothingUnread DEF SafeInv
<1> QED
  BY <1>1, BroadcastsFollowed, PTL

(* A snapshot has one region of every rank, and one timestep.              *)
LEMMA SnapshotSize ==
  ASSUME NEW t, NEW x, x = SnapshotAt(t)
  PROVE  /\ Cardinality(x) = M
         /\ {r.simRank : r \in x} = SimRank
         /\ TimestepsOf(x) = {t}
<1>1. M \in Nat /\ SimRank = 0 .. M-1 /\ 0 \in SimRank
  BY SizesAssumption, RankZero DEF SimRank
<1>2. IsFiniteSet(SimRank) /\ Cardinality(SimRank) = M
  <2>1. IsFiniteSet(0 .. M-1) /\ Cardinality(0 .. M-1) = IF 0 > M-1 THEN 0 ELSE (M-1) - 0 + 1
    BY <1>1, FS_Interval
  <2> QED
    BY <1>1, <2>1
<1>3. \A s : RegionMessage(s, t).simRank = s /\ RegionMessage(s, t).step = t
  BY DEF RegionMessage
<1>4. ExistsBijection(SimRank, SnapshotAt(t))
  <2> DEFINE f == [s \in SimRank |-> RegionMessage(s, t)]
  <2>1. f \in [SimRank -> SnapshotAt(t)]
    BY DEF SnapshotAt
  <2>2. \A s, u \in SimRank : f[s] = f[u] => s = u
    BY <1>3
  <2>3. \A m \in SnapshotAt(t) : \E s \in SimRank : f[s] = m
    BY DEF SnapshotAt
  <2> HIDE DEF f
  <2> QED
    BY <2>1, <2>2, <2>3 DEF ExistsBijection, Bijection, Injection, Surjection, IsInjective
<1>5. Cardinality(x) = M
  BY <1>2, <1>4, FS_Bijection
<1>6. {r.simRank : r \in x} = SimRank
  BY <1>3 DEF SnapshotAt
<1>7. TimestepsOf(x) = {t}
  BY <1>1, <1>3 DEF SnapshotAt, TimestepsOf
<1> QED
  BY <1>5, <1>6, <1>7

LEMMA FollowCoherent ==
  ASSUME FollowInv
  PROVE  QueryCoherent
<1> SUFFICES ASSUME NEW j \in Clients
             PROVE  /\ \A k \in DOMAIN answered[j] :
                         /\ Cardinality(answered[j][k]) = M
                         /\ {r.simRank : r \in answered[j][k]} = SimRank
                         /\ Cardinality(TimestepsOf(answered[j][k])) = 1
                    /\ \A k, l \in DOMAIN answered[j] :
                         k < l => \A t \in TimestepsOf(answered[j][k]),
                                     u \in TimestepsOf(answered[j][l]) : t < u
  BY DEF QueryCoherent
<1>1. ASSUME NEW k \in DOMAIN answered[j]
      PROVE  /\ Cardinality(answered[j][k]) = M
             /\ {r.simRank : r \in answered[j][k]} = SimRank
             /\ Cardinality(TimestepsOf(answered[j][k])) = 1
  <2>1. PICK t : answered[j][k] = SnapshotAt(t)
    BY DEF FollowInv, AnswersInv
  <2>2. /\ Cardinality(answered[j][k]) = M
        /\ {r.simRank : r \in answered[j][k]} = SimRank
        /\ TimestepsOf(answered[j][k]) = {t}
    BY <2>1, SnapshotSize
  <2> QED
    BY <2>2, FS_Singleton
<1>2. ASSUME NEW k \in DOMAIN answered[j], NEW l \in DOMAIN answered[j], k < l,
             NEW t \in TimestepsOf(answered[j][k]), NEW u \in TimestepsOf(answered[j][l])
      PROVE  t < u
  <2>1. PICK m \in answered[j][k] : t = m.step
    BY DEF TimestepsOf
  <2>2. PICK q \in answered[j][l] : u = q.step
    BY DEF TimestepsOf
  <2> QED
    BY <1>2, <2>1, <2>2 DEF FollowInv, AnswersInv
<1> QED
  BY <1>1, <1>2

(* Every query returns, over the ranks of the job, one region of every     *)
(* simulation rank, all of one timestep, later than that of the query      *)
(* before - for any number of ranks, however far they run ahead.           *)
THEOREM QueriesAreCoherent == Spec => []QueryCoherent
<1>1. SafeInv /\ FollowInv => QueryCoherent
  BY FollowCoherent
<1> QED
  BY <1>1, BroadcastsFollowed, PTL

-----------------------------------------------------------------------------
(***************************************************************************)
(* The refinement: LibIS does what InTransit promises.                     *)
(***************************************************************************)

(* A job whose session has not ended is connected to rank 0, which serves  *)
(* one job at a time, or the simulation is over.                           *)
InOwnSession(j) ==
  \/ clientPc[j][0] \in {"greeting", "ready"} \cup Querying
  \/ clientPc[j][0] = "awaitQuit" /\ request[j] # "DISCONNECT"
ActiveInv ==
  \A j \in Clients : InOwnSession(j) => intercomm[0] = j \/ simPc[0] = "gone"

LEMMA ActiveRoot ==
  ASSUME TypeInv, ProtocolInv, ActiveInv, RootNext, UNCHANGED clientVars
  PROVE  ActiveInv'
<1>1. intercomm' = intercomm
  BY RootFrame
<1>2. simPc[0] # "gone"
  BY FollowTypes
     DEF RootNext, ProcessIdle, ProcessNewQuery, ProcessClientCommand, InLoop, Greet,
         HandleQuery, Rejoin, Finalize, FinalJoin, FinalReceive, FinalGreet
<1> QED
  BY <1>1, <1>2 DEF ActiveInv, InOwnSession, clientVars

(* Rank 0 gives the intercommunicator up only when the job has asked for   *)
(* that, or at the end.                                                    *)
LEMMA ActiveDropped ==
  ASSUME TypeInv, ProtocolInv, ActiveInv, NEW j \in Clients,
         simPc[0] \in {"drop", "finDrop"}, intercomm[0] = j,
         simPc'[0] = IF simPc[0] = "finDrop" THEN "gone" ELSE "rejoin",
         \A i \in Clients : InOwnSession(i)' => InOwnSession(i)
  PROVE  ActiveInv'
<1>1. CASE simPc[0] = "finDrop"
  BY <1>1 DEF ActiveInv
<1>2. CASE simPc[0] = "drop"
  <2> SUFFICES ASSUME NEW i \in Clients, InOwnSession(i) PROVE FALSE
    BY DEF ActiveInv
  <2>1. i = j
    BY <1>2 DEF ActiveInv
  <2>2. Talk(clientPc[j][0], toSim[j][0][0], toClient[j][0][0], "drop", TRUE,
             Len(regions[j][0]), request[j])
    BY <1>2 DEF ProtocolInv, TalkInv, TalkOf
  <2> QED
    BY <2>1, <2>2 DEF Talk, Attentive, InOwnSession, Querying
<1> QED
  BY <1>1, <1>2

LEMMA ActiveClient ==
  ASSUME TypeInv, ProtocolInv, ActiveInv, NEW j \in Clients,
         ClientNext(j) \/ (\E c \in ClientRank : LeaveAlone(j, c)), UNCHANGED simVars
  PROVE  ActiveInv'
<1>1. \A i \in Clients : i # j => (InOwnSession(i)' <=> InOwnSession(i))
  BY OtherJobs DEF InOwnSession
<1>2. ASSUME InOwnSession(j)' PROVE InOwnSession(j)
  <2>1. CASE \/ TcpConnect(j) \/ TcpRefused(j) \/ SendHello(j) \/ SendHelloFails(j)
             \/ ConnectSync(j)
    BY <1>2, <2>1, FollowTypes
       DEF InOwnSession, Querying, TcpConnect, TcpRefused, SendHello, SendHelloFails,
           ConnectSync, GoTo, AllGoTo
  <2>2. CASE Greeted(j) \/ (\E cmd \in Command : SendCommand(j, cmd))
    BY <2>2, FollowTypes DEF InOwnSession, Greeted, SendCommand, AllRanks
  <2>3. CASE CommandReply(j)
    <3>1. clientPc[j][0] = "awaitQuit" /\ clientPc'[j][0] \in {"leaving", "fetching"}
      BY <2>3, FollowTypes DEF CommandReply, AllGoTo
    <3>2. clientPc'[j][0] = "fetching" => request[j] # "DISCONNECT"
      BY <2>3, FollowTypes DEF CommandReply, AllGoTo, EndsSession
    <3> QED
      BY <1>2, <3>1, <3>2 DEF InOwnSession, Querying
  <2>4. CASE (\E c \in ClientRank : Ping(j, c) \/ ReceiveRegion(j, c)) \/ QueryReturn(j)
    <3>1. \E c \in ClientRank : clientPc[j][c] \in Querying
      BY <2>4, FollowTypes DEF Ping, ReceiveRegion, QueryReturn, QueryBarrier, AllRanks, Querying
    <3>2. clientPc[j][0] \in Querying
      BY <3>1 DEF ProtocolInv, QueryInv, QueryOf
    <3> QED
      BY <3>2 DEF InOwnSession
  <2>5. CASE \E c \in ClientRank : LeaveAlone(j, c)
    BY <1>2, <2>5, FollowTypes DEF InOwnSession, LeaveAlone, Left, Querying
  <2> QED
    BY <2>1, <2>2, <2>3, <2>4, <2>5 DEF ClientNext
<1>3. UNCHANGED <<intercomm, simPc>>
  BY DEF simVars, rankVars
<1> QED
  BY <1>1, <1>2, <1>3 DEF ActiveInv

LEMMA ActiveNext == TypeInv /\ ProtocolInv /\ ActiveInv /\ [Next]_vars => ActiveInv'
<1> SUFFICES ASSUME TypeInv, ProtocolInv, ActiveInv, [Next]_vars PROVE ActiveInv'
  OBVIOUS
<1> USE RankZero
<1>1. CASE Listener
  BY <1>1 DEF Listener, ListenerNext, ListenerBind, ListenerAccept, ListenerStartRead,
              ListenerExit, ListenerReadError, ListenerRead, ListenerPublish,
              ListenerClose, rankVars, clientVars, ActiveInv, InOwnSession
<1>2. CASE RootNext /\ UNCHANGED clientVars
  BY <1>2, ActiveRoot
<1>3. ASSUME NEW s \in SimRank, DropAlone(s) PROVE ActiveInv'
  <2>1. \A i \in Clients : InOwnSession(i)' <=> InOwnSession(i)
    BY <1>3 DEF DropAlone, clientVars, InOwnSession
  <2>2. CASE s = 0
    <3>1. PICK j \in Clients : Dropping(0, j)
      BY <1>3, <2>2 DEF DropAlone
    <3>2. simPc'[0] = IF simPc[0] = "finDrop" THEN "gone" ELSE "rejoin"
      BY <1>3, <2>2 DEF DropAlone, Dropped
    <3> QED
      BY <2>1, <3>1, <3>2, ActiveDropped DEF Dropping
  <2>3. CASE s # 0
    <3>1. intercomm'[0] = intercomm[0] /\ simPc'[0] = simPc[0]
      BY <1>3, <2>3 DEF DropAlone, Dropped
    <3> QED
      BY <2>1, <3>1 DEF ActiveInv
  <2> QED
    BY <2>2, <2>3
<1>4. ASSUME NEW s \in SimRank \ {0}, OtherNext(s), UNCHANGED clientVars PROVE ActiveInv'
  <2>1. intercomm'[0] = intercomm[0] /\ simPc'[0] = simPc[0]
    BY <1>4, FollowTypes DEF OtherNext, ProcessOther, HandleQuery, FinalOther, Return
  <2> QED
    BY <1>4, <2>1 DEF ActiveInv, InOwnSession, clientVars
<1>5. ASSUME NEW j \in Clients, Client(j) PROVE ActiveInv'
  BY <1>5, ActiveClient DEF Client, LeaveAlone
<1>6. ASSUME NEW j \in Clients, Establish(j) PROVE ActiveInv'
  <2>1. /\ simPc[0] \in {"connect", "finConnect"} /\ intercomm'[0] = j
        /\ UNCHANGED request
        /\ \A i \in Clients : i # j => clientPc'[i] = clientPc[i]
    BY <1>6 DEF Establish, ConnectingTo, Connected, AllGoTo
  <2>2. intercomm[0] = NoClient
    BY <2>1 DEF ProtocolInv, RootInv
  <2>3. \A i \in Clients : ~InOwnSession(i)
    BY <2>1, <2>2, ClientsAssumption DEF ActiveInv
  <2> QED
    BY <2>1, <2>3 DEF ActiveInv, InOwnSession
<1>7. ASSUME NEW j \in Clients, DisconnectTogether(j) PROVE ActiveInv'
  <2>1. /\ simPc[0] \in {"drop", "finDrop"} /\ intercomm[0] = j
        /\ simPc'[0] = IF simPc[0] = "finDrop" THEN "gone" ELSE "rejoin"
    BY <1>7 DEF DisconnectTogether, Dropping, Dropped
  <2>2. \A i \in Clients : InOwnSession(i)' => InOwnSession(i)
    BY <1>7, FollowTypes DEF DisconnectTogether, Left, InOwnSession, Querying
  <2> QED
    BY <2>1, <2>2, ActiveDropped
<1>8. CASE UNCHANGED vars
  BY <1>8 DEF vars, simVars, rankVars, clientVars, ActiveInv, InOwnSession
<1> QED
  BY <1>1, <1>2, <1>3, <1>4, <1>5, <1>6, <1>7, <1>8 DEF Next, Root, Other, Together, Done

(* No two jobs are in a session at a time: a job between its accept and    *)
(* the end of its session - its own disconnect, or the quit it is told -   *)
(* is the one that rank 0 of the simulation is connected to, unless the    *)
(* simulation has ended (is_sim.cpp, lines 240-275).                       *)
THEOREM SessionsExclude == Spec => []ActiveInv
<1>1. Init => ActiveInv
  BY RankZero DEF Init, ClientInit, ActiveInv, InOwnSession, Querying
<1>2. SafeInv /\ ActiveInv /\ [Next]_vars => ActiveInv'
  BY ActiveNext DEF SafeInv
<1> QED
  BY <1>1, <1>2, ProtocolKept, PTL DEF Spec

(* The promise sees the sessions move one at a time.                       *)
LEMMA SessionValues ==
  ASSUME TypeInv, ProtocolInv, NEW j \in Clients
  PROVE  /\ Session(j) \in {"none", "open", "asking", "closed"}
         /\ Promise!Active(j) <=> InOwnSession(j)
<1>1. Session(j) \in {"none", "open", "asking", "closed"}
  BY FollowTypes DEF Session, ClientState
<1>2. Session(j) \in {"open", "asking"} <=> InOwnSession(j)
  BY FollowTypes DEF Session, ClientState, InOwnSession, Querying
<1> QED
  BY <1>1, <1>2 DEF Promise!Active

Elsewhere(j) ==
  \A i \in Clients : i # j =>
    /\ clientPc'[i] = clientPc[i] /\ request'[i] = request[i] /\ answered'[i] = answered[i]

LEMMA SessionMoves ==
  ASSUME NEW j \in Clients, NEW v, Elsewhere(j), Session(j)' = v, UNCHANGED answered
  PROVE  Promise!Go(j, v) /\ UNCHANGED [i \in Clients |-> SnapshotsOf(i)]
<1>1. \A i \in Clients : i # j => Session(i)' = Session(i)
  BY DEF Elsewhere, Session
<1>2. Promise!Go(j, v)
  BY <1>1 DEF Promise!Go
<1>3. \A i \in Clients : SnapshotsOf(i)' = SnapshotsOf(i)
  BY DEF SnapshotsOf
<1> QED
  BY <1>2, <1>3

PromiseStep == [Promise!Next]_(Promise!vars)
LEMMA SessionSteps ==
  ASSUME NEW j \in Clients, Elsewhere(j), UNCHANGED answered,
         \/ Session(j)' = Session(j)
         \/ Session(j) = "open" /\ Session(j)' = "asking"
         \/ Session(j) # "closed" /\ Session(j)' = "closed"
         \/ /\ Session(j) = "none" /\ Session(j)' = "open"
            /\ \A i \in Clients : ~Promise!Active(i)
  PROVE  PromiseStep
<1>1. CASE Session(j)' = Session(j)
  <2>1. \A i \in Clients : Session(i)' = Session(i) /\ SnapshotsOf(i)' = SnapshotsOf(i)
    BY <1>1 DEF Elsewhere, Session, SnapshotsOf
  <2> QED
    BY <2>1 DEF PromiseStep, Promise!vars
<1>2. CASE Session(j) = "open" /\ Session(j)' = "asking"
  <2>1. Promise!Ask(j)
    BY <1>2, SessionMoves DEF Promise!Ask
  <2> QED
    BY <2>1 DEF PromiseStep, Promise!Next
<1>3. CASE Session(j) # "closed" /\ Session(j)' = "closed"
  <2>1. Promise!Close(j)
    BY <1>3, SessionMoves DEF Promise!Close
  <2> QED
    BY <2>1 DEF PromiseStep, Promise!Next
<1>4. CASE /\ Session(j) = "none" /\ Session(j)' = "open"
           /\ \A i \in Clients : ~Promise!Active(i)
  <2>1. Promise!Open(j)
    BY <1>4, SessionMoves DEF Promise!Open
  <2> QED
    BY <2>1 DEF PromiseStep, Promise!Next
<1> QED
  BY <1>1, <1>2, <1>3, <1>4

LEMMA PromiseStill ==
  ASSUME UNCHANGED clientVars
  PROVE  PromiseStep
<1>1. \A i \in Clients : Session(i)' = Session(i) /\ SnapshotsOf(i)' = SnapshotsOf(i)
  BY DEF clientVars, Session, SnapshotsOf
<1> QED
  BY <1>1 DEF PromiseStep, Promise!vars

(* The pairs of rank and timestep of an answer.                            *)
Pairs(answer) == {<<r.simRank, r.step>> : r \in answer}

LEMMA PairsOfSnapshot ==
  ASSUME NEW t
  PROVE  Pairs(SnapshotAt(t)) = Promise!Snapshot(t)
<1>1. \A s : RegionMessage(s, t).simRank = s /\ RegionMessage(s, t).step = t
  BY DEF RegionMessage
<1>2. ASSUME NEW p \in Pairs(SnapshotAt(t)) PROVE p \in Promise!Snapshot(t)
  <2>1. PICK m \in SnapshotAt(t) : p = <<m.simRank, m.step>>
    BY DEF Pairs
  <2>2. PICK s \in SimRank : m = RegionMessage(s, t)
    BY DEF SnapshotAt
  <2> QED
    BY <1>1, <2>1, <2>2 DEF Promise!Snapshot
<1>3. ASSUME NEW p \in Promise!Snapshot(t) PROVE p \in Pairs(SnapshotAt(t))
  <2>1. PICK s \in SimRank : p = <<s, t>>
    BY DEF Promise!Snapshot
  <2>2. RegionMessage(s, t) \in SnapshotAt(t)
    BY DEF SnapshotAt
  <2> QED
    BY <1>1, <2>1, <2>2 DEF Pairs
<1> QED
  BY <1>2, <1>3

LEMMA SequenceAppend ==
  ASSUME NEW S, NEW f, NEW n \in Nat, f \in [1 .. n -> S], NEW g, NEW x \in S,
         g \in [1 .. n + 1 -> S], g[n + 1] = x, \A k \in 1 .. n : g[k] = f[k]
  PROVE  g = Append(f, x)
<1>1. f \in Seq(S) /\ Len(f) = n
  OBVIOUS
<1> QED
  BY <1>1

(* An answer appended is a snapshot appended.                              *)
LEMMA PairsAppend ==
  ASSUME NEW q \in Seq(SUBSET ToClientMessage), NEW y \in SUBSET ToClientMessage
  PROVE  [k \in DOMAIN Append(q, y) |-> Pairs(Append(q, y)[k])]
           = Append([k \in DOMAIN q |-> Pairs(q[k])], Pairs(y))
<1> DEFINE f == [k \in DOMAIN q |-> Pairs(q[k])]
           g == [k \in DOMAIN Append(q, y) |-> Pairs(Append(q, y)[k])]
           S == {Pairs(q[k]) : k \in DOMAIN q} \cup {Pairs(y)}
<1>1. /\ Len(q) \in Nat /\ DOMAIN q = 1 .. Len(q)
      /\ DOMAIN Append(q, y) = 1 .. Len(q) + 1
      /\ Append(q, y)[Len(q) + 1] = y
      /\ \A i \in 1 .. Len(q) : Append(q, y)[i] = q[i]
  BY AnswerAppend
<1>2. PICK n \in Nat : n = Len(q)
  BY <1>1
<1>3. \A i \in 1 .. n + 1 : i \in 1 .. n \/ i = n + 1
  OBVIOUS
<1>4. f \in [1 .. n -> S]
  BY <1>1, <1>2
<1>5. g[n + 1] = Pairs(y) /\ \A k \in 1 .. n : g[k] = f[k]
  BY <1>1, <1>2
<1>6. g \in [1 .. n + 1 -> S]
  BY <1>1, <1>2, <1>3
<1>7. Pairs(y) \in S
  OBVIOUS
<1> HIDE DEF f, g, S
<1>8. g = Append(f, Pairs(y))
  BY <1>4, <1>5, <1>6, <1>7, SequenceAppend
<1> QED
  BY <1>8 DEF f, g

LEMMA PromiseAnswer ==
  ASSUME TypeInv, FollowInv, ProtocolInv, NEW j \in Clients, QueryReturn(j),
         UNCHANGED simVars
  PROVE  PromiseStep
<1>1. PICK t \in 0 .. MaxSteps - 1 :
        /\ QueryAt(j, t) /\ SnapshotAt(t) \in SUBSET ToClientMessage
        /\ answered' = [answered EXCEPT ![j] = Append(@, SnapshotAt(t))]
  BY ReturnsSnapshot
<1>2. /\ clientPc[j][0] = "fetching" /\ clientPc'[j][0] = "ready"
      /\ \A i \in Clients : i # j => clientPc'[i] = clientPc[i]
      /\ UNCHANGED request
  BY FollowTypes DEF QueryReturn, QueryBarrier, AllRanks, AllGoTo
<1>3. Session(j) = "asking" /\ Session(j)' = "open"
  BY <1>2 DEF Session
<1>4. PICK q \in Seq(SUBSET ToClientMessage) : q = answered[j]
  BY FollowTypes DEF ClientTypeOK
<1>5. PICK y \in SUBSET ToClientMessage : y = SnapshotAt(t)
  BY <1>1
<1>6. /\ answered'[j] = Append(q, y)
      /\ \A i \in Clients : i # j => answered'[i] = answered[i]
  BY <1>1, <1>4, <1>5, FollowTypes DEF ClientTypeOK
<1>7. Promise!Go(j, "open")
  <2>1. \A i \in Clients : i # j => Session(i)' = Session(i)
    BY <1>2 DEF Session
  <2> QED
    BY <1>3, <2>1 DEF Promise!Go
<1>8. \A i \in Clients : SnapshotsOf(i) = [k \in DOMAIN answered[i] |-> Pairs(answered[i][k])]
  BY DEF SnapshotsOf, Pairs
<1>9. SnapshotsOf(j)' = Append(SnapshotsOf(j), Promise!Snapshot(t))
  <2>1. SnapshotsOf(j)' = [k \in DOMAIN Append(q, y) |-> Pairs(Append(q, y)[k])]
    BY <1>6 DEF SnapshotsOf, Pairs
  <2>2. SnapshotsOf(j) = [k \in DOMAIN q |-> Pairs(q[k])]
    BY <1>4, <1>8
  <2>3. Pairs(y) = Promise!Snapshot(t)
    BY <1>5, PairsOfSnapshot
  <2> QED
    BY <2>1, <2>2, <2>3, PairsAppend
<1>10. \A i \in Clients : i # j => SnapshotsOf(i)' = SnapshotsOf(i)
  BY <1>6 DEF SnapshotsOf
<1>11. Promise!New(t)
  <2> SUFFICES ASSUME NEW i \in Clients, NEW k \in DOMAIN SnapshotsOf(i),
                      NEW p \in SnapshotsOf(i)[k]
               PROVE  p[2] < t
    BY DEF Promise!New
  <2>1. k \in DOMAIN answered[i] /\ p \in Pairs(answered[i][k])
    BY <1>8
  <2>2. PICK m \in answered[i][k] : p = <<m.simRank, m.step>>
    BY <2>1 DEF Pairs
  <2>3. m.step < t
    BY <1>1, <2>1 DEF QueryAt, EarlierAt
  <2> QED
    BY <2>2, <2>3
<1>12. Promise!Answer(j, t)
  BY <1>3, <1>7, <1>9, <1>10, <1>11 DEF Promise!Answer
<1> QED
  BY <1>12 DEF PromiseStep, Promise!Next

(* Every step of a job is one of its session, or none.                     *)
LEMMA PromiseClient ==
  ASSUME TypeInv, FollowInv, ProtocolInv, NEW j \in Clients, UNCHANGED simVars,
         ClientNext(j) \/ (\E c \in ClientRank : LeaveAlone(j, c))
  PROVE  PromiseStep
<1>1. ASSUME UNCHANGED answered PROVE Elsewhere(j)
  BY <1>1, OtherJobs DEF Elsewhere
<1>2. CASE TcpConnect(j) \/ SendHello(j) \/ ConnectSync(j)
  <2>1. Session(j) = "none" /\ Session(j)' = "none" /\ UNCHANGED answered
    BY <1>2, FollowTypes DEF TcpConnect, SendHello, ConnectSync, GoTo, AllGoTo, Session
  <2> QED
    BY <1>1, <2>1, SessionSteps
<1>3. CASE TcpRefused(j) \/ SendHelloFails(j)
  <2>1. Session(j) = "none" /\ Session(j)' = "closed" /\ UNCHANGED answered
    BY <1>3, FollowTypes DEF TcpRefused, SendHelloFails, GoTo, Session
  <2> QED
    BY <1>1, <2>1, SessionSteps
<1>4. CASE Greeted(j)
  <2>1. Session(j) = "open" /\ Session(j)' \in {"open", "closed"} /\ UNCHANGED answered
    BY <1>4, FollowTypes DEF Greeted, AllRanks, AllGoTo, Session
  <2> QED
    BY <1>1, <2>1, SessionSteps
<1>5. CASE \E cmd \in Command : SendCommand(j, cmd)
  <2>1. Session(j) = "open" /\ Session(j)' \in {"asking", "closed"} /\ UNCHANGED answered
    BY <1>5, FollowTypes DEF SendCommand, GoTo, Session
  <2> QED
    BY <1>1, <2>1, SessionSteps
<1>6. CASE CommandReply(j)
  <2>1. /\ clientPc[j][0] = "awaitQuit" /\ UNCHANGED <<answered, request>>
        /\ \/ clientPc'[j][0] = "leaving"
           \/ clientPc'[j][0] = "fetching" /\ request[j] # "DISCONNECT"
    BY <1>6, FollowTypes DEF CommandReply, AllGoTo, EndsSession
  <2>2. \/ Session(j)' = Session(j)
        \/ Session(j) # "closed" /\ Session(j)' = "closed"
    BY <2>1 DEF Session
  <2> QED
    BY <1>1, <2>1, <2>2, SessionSteps
<1>7. CASE \E c \in ClientRank : Ping(j, c) \/ ReceiveRegion(j, c)
  <2>1. clientPc'[j][0] \in Querying <=> clientPc[j][0] \in Querying
    BY <1>7, FollowTypes DEF Ping, ReceiveRegion, GoTo, Querying
  <2>2. \E c \in ClientRank : clientPc[j][c] \in Querying
    BY <1>7 DEF Ping, ReceiveRegion, Querying
  <2>3. clientPc[j][0] \in Querying
    BY <2>2 DEF ProtocolInv, QueryInv, QueryOf
  <2>4. Session(j) = "asking" /\ Session(j)' = "asking"
    BY <2>1, <2>3 DEF Session, Querying
  <2>5. UNCHANGED answered
    BY <1>7 DEF Ping, ReceiveRegion
  <2> QED
    BY <1>1, <2>4, <2>5, SessionSteps
<1>8. CASE \E c \in ClientRank : LeaveAlone(j, c)
  <2>1. /\ UNCHANGED <<answered, request>>
        /\ \/ clientPc'[j][0] = clientPc[j][0]
           \/ clientPc[j][0] = "leaving" /\ clientPc'[j][0] = "gone"
    BY <1>8, FollowTypes DEF LeaveAlone, Left
  <2>2. Session(j)' = Session(j)
    BY <2>1 DEF Session
  <2> QED
    BY <1>1, <2>1, <2>2, SessionSteps
<1> QED
  BY <1>2, <1>3, <1>4, <1>5, <1>6, <1>7, <1>8, PromiseAnswer DEF ClientNext

LEMMA PromiseTogether ==
  ASSUME TypeInv, ProtocolInv, ActiveInv, NEW j \in Clients, Together(j)
  PROVE  PromiseStep
<1>1. CASE Establish(j)
  <2>1. /\ simPc[0] \in {"connect", "finConnect"}
        /\ clientPc[j][0] = "accepting" /\ clientPc'[j][0] = "greeting"
        /\ UNCHANGED <<request, answered>>
        /\ \A i \in Clients : i # j => clientPc'[i] = clientPc[i]
    BY <1>1, FollowTypes DEF Establish, ConnectingTo, AllRanks, AllGoTo
  <2>2. intercomm[0] = NoClient
    BY <2>1 DEF ProtocolInv, RootInv
  <2>3. \A i \in Clients : ~InOwnSession(i)
    BY <2>1, <2>2, ClientsAssumption DEF ActiveInv
  <2>4. \A i \in Clients : ~Promise!Active(i)
    BY <2>3, SessionValues
  <2>5. Session(j) = "none" /\ Session(j)' = "open" /\ Elsewhere(j)
    BY <2>1 DEF Session, Elsewhere
  <2> QED
    BY <2>1, <2>4, <2>5, SessionSteps
<1>2. CASE DisconnectTogether(j)
  <2>1. /\ clientPc[j][0] = "leaving" /\ clientPc'[j][0] = "gone"
        /\ UNCHANGED <<request, answered>>
        /\ \A i \in Clients : i # j => clientPc'[i] = clientPc[i]
    BY <1>2, FollowTypes DEF DisconnectTogether, Left, AllRanks
  <2>2. Session(j)' = Session(j) /\ Elsewhere(j)
    BY <2>1 DEF Session, Elsewhere
  <2> QED
    BY <2>1, <2>2, SessionSteps
<1> QED
  BY <1>1, <1>2 DEF Together

(* Simulation, clients and media do what InTransit promises: sessions      *)
(* exclude each other, and the snapshots handed out are complete, of one   *)
(* timestep each, and ever later, over all sessions and jobs.              *)
THEOREM PromiseKept == Spec => ImplementsInTransit
<1>1. Init => Promise!Init
  <2> SUFFICES ASSUME Init PROVE Promise!Init
    OBVIOUS
  <2>1. \A j \in Clients : clientPc[j][0] = "start" /\ answered[j] = <<>>
    BY RankZero DEF Init, ClientInit
  <2>2. \A j \in Clients : Session(j) = "none" /\ SnapshotsOf(j) = <<>>
    BY <2>1 DEF Session, SnapshotsOf
  <2> QED
    BY <2>2 DEF Promise!Init
<1>2. SafeInv /\ FollowInv /\ ActiveInv /\ [Next]_vars => [Promise!Next]_(Promise!vars)
  <2> SUFFICES ASSUME TypeInv, ProtocolInv, FollowInv, ActiveInv, [Next]_vars
               PROVE  PromiseStep
    BY DEF SafeInv, PromiseStep
  <2>1. CASE Listener \/ Root \/ (\E s \in SimRank \ {0} : Other(s)) \/ UNCHANGED vars
    <3>1. UNCHANGED clientVars
      BY <2>1 DEF Listener, Root, Other, DropAlone, vars
    <3> QED
      BY <3>1, PromiseStill
  <2>2. ASSUME NEW j \in Clients, Client(j) PROVE PromiseStep
    BY <2>2, PromiseClient DEF Client, LeaveAlone
  <2>3. ASSUME NEW j \in Clients, Together(j) PROVE PromiseStep
    BY <2>3, PromiseTogether
  <2> QED
    BY <2>1, <2>2, <2>3 DEF Next, Done
<1> QED
  BY <1>1, <1>2, BroadcastsFollowed, SessionsExclude, PTL
     DEF Spec, ImplementsInTransit, Promise!Spec
=============================================================================
