----------------------------- MODULE Broadcasts -----------------------------
(***************************************************************************)
(* How the ranks of the simulation follow rank 0.                          *)
(*                                                                         *)
(* In every call of process() rank 0 broadcasts whether there is a command *)
(* (is_sim.cpp, line 208) and in the destructor the last one (line 88).    *)
(* It does not wait for the others: they may be whole timesteps behind,    *)
(* with the broadcasts they have yet to receive in bcast.  What keeps the  *)
(* ranks together is said here for every such state: where a rank will be  *)
(* when it has caught up, by where rank 0 is now.                          *)
(***************************************************************************)
EXTENDS LibIS

(* Inside a call of process(), after its broadcast. *)
Processing == {"connect", "greet", "query", "drop", "rejoin"}

(* Inside query(), fetching regions; rank c waits for that of s.           *)
Querying == {"fetching", "waiting"}
WaitsFor(j, c, s) == clientPc[j][c] = "waiting" /\ NextRegion(j, c) = s

(* The first n entries of a queue of broadcasts are no commands, or one of *)
(* them is, the i-th.                                                      *)
Idle(b, n) == \A k \in 1 .. n : b[k].cmd = "NONE"
Only(b, n, i, cmd) ==
  /\ i \in 1 .. n /\ b[i].cmd = cmd
  /\ \A k \in 1 .. n : k # i => b[k].cmd = "NONE"

(* What a rank at pc with intercommunicator ic and timestep t does of the  *)
(* first n entries of its queue b ends ...                                 *)
Away(pc, ic, b, n) ==        \* ... with no intercommunicator
  \/ pc = "run" /\ ic = NoClient /\ Idle(b, n)
  \/ pc = "drop" /\ ic # NoClient /\ Idle(b, n)
  \/ pc = "run" /\ ic # NoClient /\ \E i \in 1 .. n : Only(b, n, i, "DISCONNECT")
Settled(pc, ic, b, j) ==     \* ... as it began, connected to j
  pc = "run" /\ ic = j /\ Idle(b, Len(b))
Asked(pc, ic, b, j, st, t) ==  \* ... with the region of timestep t sent to j
  /\ ic = j
  /\ \/ pc = "query" /\ st = t /\ Idle(b, Len(b))
     \/ pc = "run" /\ \E i \in 1 .. Len(b) :
                        Only(b, Len(b), i, "QUERY") /\ st + i - 1 = t
Joining(pc, ic, b, port, r, port0) ==  \* ... in connect(port0)
  \/ /\ b # <<>> /\ b[Len(b)].cmd = "CONNECT" /\ b[Len(b)].port = port0
     /\ Away(pc, ic, b, Len(b) - 1)
  \/ b = <<>> /\ pc = r /\ ic = NoClient /\ port = port0
Leaving(pc, ic, b) ==        \* ... at the end of the destructor
  \/ /\ b # <<>> /\ b[Len(b)].cmd # "CONNECT"
     /\ Away(pc, ic, b, Len(b) - 1) \/ (pc = "run" /\ Idle(b, Len(b) - 1))
  \/ b = <<>> /\ pc \in {"finDrop", "gone"}

(* The calls of libISProcess and libISFinalize whose broadcast rank s has  *)
(* taken part in.                                                          *)
Final == {"finConnect", "finGreet", "finDrop", "gone"}
Taken(s) == step[s] + IF simPc[s] \in Processing \cup Final THEN 1 ELSE 0
CountInv ==
  /\ \A s \in SimRank : simPc[s] \in Final => step[s] = MaxSteps
  /\ simPc[0] \in {"finJoin", "finRecv"} => step[0] = MaxSteps
  /\ \A s \in SimRank \ {0} : Taken(s) + Len(bcast[s]) = Taken(0)

(* Of the query of j that is under way: rank s has sent its region.        *)
Answered(j, s) ==
  /\ clientPc[j][0] \in Querying
  /\ \E c \in ClientRank :
       \/ \E i \in 1 .. Len(regions[j][c]) : RegionId(M, N, c, i - 1) = s
       \/ WaitsFor(j, c, s) /\ toClient[j][c][s] # <<>>
InQuery(j) == simPc[0] = "query" \/ clientPc[j][0] \in Querying
RanksAt(j, t) ==
  \A s \in SimRank \ {0} :
    IF Answered(j, s) THEN Settled(simPc[s], intercomm[s], bcast[s], j)
    ELSE Asked(simPc[s], intercomm[s], bcast[s], j, step[s], t)

(* The regions fetched and on their way are those of timestep t, and all   *)
(* that were returned before are earlier.                                  *)
FetchedAt(j, t) ==
  clientPc[j][0] \in Querying =>
    /\ \A c \in ClientRank :
         /\ Len(regions[j][c]) <= MySims(M, N, c)
         /\ \A i \in 1 .. Len(regions[j][c]) :
              regions[j][c][i] = RegionMessage(RegionId(M, N, c, i - 1), t)
    /\ \A c \in ClientRank, s \in SimRank :
         WaitsFor(j, c, s) /\ toClient[j][c][s] # <<>> =>
           toClient[j][c][s] = <<RegionMessage(s, t)>>
EarlierAt(t) ==
  \A i \in Clients : \A k \in DOMAIN answered[i] :
    \A m \in answered[i][k] : m.step < t
QueryAt(j, t) ==
  /\ t < Taken(0)
  /\ simPc[0] = "query" => step[0] = t
  /\ RanksAt(j, t) /\ FetchedAt(j, t) /\ EarlierAt(t)

(* Rank 0 has a client and neither loses it nor tells it to quit.          *)
InSession == {"greet", "run", "finJoin", "finRecv", "query"}

(* Rank 0 has no client, or is about to have none: the others will have    *)
(* none when they have received all broadcasts.                            *)
FreeInv ==
  simPc[0] = "drop" \/ (intercomm[0] = NoClient /\ simPc[0] \in {"run", "finJoin", "rejoin"})
    => \A s \in SimRank \ {0} :
         Away(simPc[s], intercomm[s], bcast[s], Len(bcast[s]))

(* Rank 0 is in connect: the others will be in the same call of connect,   *)
(* to the same port.                                                       *)
JoiningInv ==
  simPc[0] \in {"connect", "finConnect"} =>
    \A s \in SimRank \ {0} :
      Joining(simPc[s], intercomm[s], bcast[s], clientPort[s], simPc[0], clientPort[0])

(* Rank 0 has client j: the others will be connected to j, and if a query  *)
(* is under way each of them sends the region of the timestep t in which   *)
(* rank 0 took the command, or has sent it.                                *)
SessionOf(j) ==
  intercomm[0] = j /\ simPc[0] \in InSession =>
    IF InQuery(j)
    THEN \E t \in 0 .. MaxSteps - 1 : QueryAt(j, t)
    ELSE \A s \in SimRank \ {0} : Settled(simPc[s], intercomm[s], bcast[s], j)
SessionInv == \A j \in Clients : SessionOf(j)

(* Rank 0 is past the broadcast of the destructor: the last entry for each *)
(* of the others is that broadcast, and it connects nobody.                *)
LeavingInv ==
  simPc[0] \in {"finGreet", "finDrop", "gone"} =>
    \A s \in SimRank \ {0} : Leaving(simPc[s], intercomm[s], bcast[s])

(* What queries returned: the regions of all ranks at one timestep, which  *)
(* is over, and later for a later query.                                   *)
SnapshotAt(t) == {RegionMessage(s, t) : s \in SimRank}
AnswersInv ==
  \A i \in Clients :
    /\ \A k \in DOMAIN answered[i] : \E t \in 0 .. MaxSteps - 1 :
         t < Taken(0) /\ answered[i][k] = SnapshotAt(t)
    /\ \A k, l \in DOMAIN answered[i] :
         k < l => \A m \in answered[i][k], q \in answered[i][l] : m.step < q.step

(* The ranks follow: the simulation ranks that lag behind rank 0 will make *)
(* the calls it makes, with the client it has, and answer a query from the *)
(* timestep from which it does (is_sim.cpp, lines 72-101, 191-238).        *)
FollowInv ==
  CountInv /\ FreeInv /\ JoiningInv /\ SessionInv /\ LeavingInv /\ AnswersInv
=============================================================================
