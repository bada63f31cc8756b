-------------------------- MODULE ClientApiProofs --------------------------
(***************************************************************************)
(* ClientApi for every number of ranks, of queries and of ranks that log:  *)
(* the ranks find the connection in the same state, and the flag of        *)
(* query() says what sim_connected() says.                                 *)
(*                                                                         *)
(* The argument: simQuit changes only in collective calls, so it is the    *)
(* same on all ranks; and outside of the second half of a query `sim` is   *)
(* what simQuit says, until a rank has left or two of its threads have met *)
(* on the connection.                                                      *)
(***************************************************************************)
EXTENDS ClientApi, TLAPS

Asking == {"start", "command"}
Fetching == {"transfer", "gather", "barrier"}
Connected == {"loop", "query", "calling", "future", "disconnect"}
Apart == {"connect", "threw", "barrier", "accept", "raced", "exit"}

TypeInv ==
  /\ async \in BOOLEAN /\ running \in BOOLEAN
  /\ sim \in [Ranks -> {"null", "up"}]
  /\ simQuit \in [Ranks -> BOOLEAN] /\ flag \in [Ranks -> BOOLEAN]
  /\ pc \in [Ranks -> Connected \cup Apart]
  /\ stage \in [Ranks -> Asking \cup Fetching \cup {"idle", "return"}]
  /\ arg \in [Ranks -> {"valid", "other"}]

(* A rank has no query under way before it is connected, and a query has a *)
(* connection while the rank keeps it.                                     *)
InCall ==
  \A r \in Ranks : stage[r] # "idle" =>
    /\ pc[r] # "connect"
    /\ pc[r] \in Connected => sim[r] = "up"

(* All ranks know the same of the simulation. *)
SameNews == \A r, s \in Ranks : simQuit[r] = simQuit[s]

(* And the connection is what they know, once they have taken note of it.  *)
Connection ==
  \A r \in Ranks :
    /\ pc[r] \in Connected /\ stage[r] \in Asking \cup {"idle"} =>
         sim[r] = IF simQuit[r] THEN "null" ELSE "up"
    /\ stage[r] \in Fetching => ~simQuit[r]

(* A synchronous query has the flag of its caller, and sets it for a lost  *)
(* connection only.                                                        *)
FlagInv ==
  ~async => \A r \in Ranks :
    /\ stage[r] # "start" /\ arg[r] = "valid"
    /\ pc[r] \in Connected => (flag[r] <=> sim[r] = "null")

ApiInv ==
  TypeInv /\ InCall /\ SameNews /\ Connection /\ FlagInv

LEMMA ApiInitially == Init => ApiInv
BY DEF Init, ApiInv, TypeInv, InCall, SameNews, Connection, FlagInv,
   Asking, Fetching, Connected, Apart

LEMMA CollectiveSteps ==
  ASSUME ApiInv, \/ Connect \/ ConnectRefused \/ ConnectUnheard
                 \/ QueryCommand \/ Barrier \/ Disconnect
  PROVE  ApiInv'
<1> USE DEF ApiInv, TypeInv, InCall, SameNews, Connection, FlagInv,
        Asking, Fetching, Connected, Apart, All, Bcast
<1>1. CASE Connect
  BY <1>1 DEF Connect, input
<1>2. CASE QueryCommand
  BY <1>2 DEF QueryCommand, input
<1>3. CASE Barrier
  BY <1>3 DEF Barrier, input
<1>4. CASE Disconnect
  BY <1>4 DEF Disconnect, sim_connected, input
<1>5. CASE ConnectRefused
  BY <1>5 DEF ConnectRefused, input
<1>6. CASE ConnectUnheard
  BY <1>6 DEF ConnectUnheard, input
<1> QED
  BY <1>1, <1>2, <1>3, <1>4, <1>5, <1>6

LEMMA StepsOfARank ==
  ASSUME ApiInv, NEW r \in Ranks,
         \/ LoopHead(r) \/ query_async(r) \/ ThreadStarts(r) \/ Transfer(r)
         \/ Gather(r) \/ QueryReturn(r) \/ Get(r)
         \/ DisconnectUnderway(r) \/ DisconnectNothing(r)
  PROVE  ApiInv'
<1> USE DEF ApiInv, TypeInv, InCall, SameNews, Connection, FlagInv,
        Asking, Fetching, Connected, Apart, Goto, Stage
<1>1. CASE LoopHead(r)
  <2>1. CASE queries[r] < NumQueries /\ sim_connected(r) /\ stage[r] = "idle"
    BY <1>1, <2>1 DEF LoopHead, sim_connected, input
  <2>3. CASE queries[r] < NumQueries /\ sim_connected(r) /\ stage[r] # "idle"
    BY <1>1, <2>3 DEF LoopHead, sim_connected, input
  <2>2. CASE ~(queries[r] < NumQueries /\ sim_connected(r))
    BY <1>1, <2>2 DEF LoopHead, input
  <2> QED
    BY <2>1, <2>2, <2>3
<1>2. CASE query_async(r)
  BY <1>2 DEF query_async, input
<1>3. CASE ThreadStarts(r)
  BY <1>3 DEF ThreadStarts, input
<1>4. CASE Transfer(r)
  BY <1>4 DEF Transfer, input
<1>5. CASE Gather(r)
  BY <1>5 DEF Gather, input
<1>6. CASE QueryReturn(r)
  <2>1. CASE simQuit[r]
    BY <1>6, <2>1 DEF QueryReturn, Report, input
  <2>2. CASE ~simQuit[r]
    BY <1>6, <2>2 DEF QueryReturn, input
  <2> QED
    BY <2>1, <2>2
<1>7. CASE Get(r)
  BY <1>7 DEF Get, FutureReady, input
<1>8. CASE DisconnectNothing(r)
  BY <1>8 DEF DisconnectNothing, sim_connected, input
<1>9. CASE DisconnectUnderway(r)
  BY <1>9 DEF DisconnectUnderway, input
<1> QED
  BY <1>1, <1>2, <1>3, <1>4, <1>5, <1>6, <1>7, <1>8, <1>9

LEMMA ApiKept == ApiInv /\ [Next]_vars => ApiInv'
<1> SUFFICES ASSUME ApiInv, [Next]_vars PROVE ApiInv'
  OBVIOUS
<1>1. CASE SimulationEnds
  BY <1>1 DEF SimulationEnds, input, ApiInv, TypeInv, InCall, SameNews,
     Connection, FlagInv
<1>2. CASE ClientStep
  BY <1>2, CollectiveSteps, StepsOfARank DEF ClientStep
<1>3. CASE UNCHANGED vars
  BY <1>3 DEF vars, input, ApiInv, TypeInv, InCall, SameNews,
     Connection, FlagInv
<1> QED
  BY <1>1, <1>2, <1>3 DEF Next

LEMMA ApiAlways == Spec => []ApiInv
BY ApiInitially, ApiKept, PTL DEF Spec

(* However many ranks there are, they decide alike whether to go on. *)
THEOREM RanksDecideAlike == Spec => []RanksAgree
<1>1. ApiInv => RanksAgree
  BY DEF ApiInv, TypeInv, InCall, SameNews, Connection, RanksAgree, Deciding, Connected, Asking
<1> QED
  BY <1>1, ApiAlways, PTL

(* The flag that query() sets and sim_connected() tell the same. *)
THEOREM FlagTellsQuit == Spec => []QuitReported
<1>1. ApiInv => QuitReported
  BY DEF ApiInv, TypeInv, FlagInv, QuitReported, Connected
<1> QED
  BY <1>1, ApiAlways, PTL
=============================================================================
