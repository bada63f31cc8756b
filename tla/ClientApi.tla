----------------------------- MODULE ClientApi -----------------------------
(***************************************************************************)
(* is::client: the functions over the global connection `sim`, on every    *)
(* rank of a job that drives them as example_client does - connect, a loop *)
(* that asks sim_connected() and queries, disconnect.  The example calls   *)
(* query(), and has barriers around what it prints, which are left out; an *)
(* application may as well call query_async(), and wait for the future or  *)
(* keep it and go on.  The library works in collective calls, and every    *)
(* rank decides on its own, from its own `sim`, whether to make the next   *)
(* one; what a rank logs it learns from its own environment.  The          *)
(* simulation is only what its answers show: running or at its end.        *)
(***************************************************************************)
EXTENDS Integers

CONSTANTS
  N,           \* ranks of the job
  NumQueries,  \* num_queries of example_client
  LogSets      \* the sets of ranks where LIBIS_LOG_OUTPUT may be set

Ranks == 0 .. N - 1
ASSUME ClientApiAssumption ==
  N \in Nat \ {0} /\ NumQueries \in Nat /\ LogSets \subseteq SUBSET Ranks

VARIABLES
  async, waits,     \* the input: query_async or query, whether the application
                    \*   waits for a future before its next call,
  loggers,          \*   and which ranks log
  running,          \* whether the simulation goes on
  sim,              \* per rank: "null", "up"
  simQuit,          \* per rank: the member of the connection
  pc,               \* main: "connect", "loop", "query", "calling", "future",
                    \*   "disconnect", "exit"; where it stays for good:
                    \*   "threw", "barrier", "accept", "raced"
  stage,            \* SimulationConnection::query of the rank: "idle", "start",
                    \*   "command", "transfer", "gather", "barrier", "return"
  gathered,         \* contributions to the MPI_Gather that the root has not taken
  arg, flag,        \* the thread's sim_quit: "valid", "other"; and *sim_quit
  queries           \* per rank: calls of query made

input == <<async, waits, loggers>>
vars == <<input, running, sim, simQuit, pc, stage, gathered, arg, flag, queries>>

Init ==
  /\ async \in BOOLEAN /\ waits \in BOOLEAN /\ (~async => waits)
  /\ loggers \in LogSets /\ running = TRUE
  /\ sim = [r \in Ranks |-> "null"] /\ simQuit = [r \in Ranks |-> FALSE]
  /\ pc = [r \in Ranks |-> "connect"] /\ stage = [r \in Ranks |-> "idle"]
  /\ gathered = {} /\ arg = [r \in Ranks |-> "valid"]
  /\ flag = [r \in Ranks |-> FALSE] /\ queries = [r \in Ranks |-> 0]

SimulationEnds ==
  /\ running /\ running' = FALSE
  /\ UNCHANGED <<input, sim, simQuit, pc, stage, gathered, arg, flag, queries>>

Goto(r, l) == pc' = [pc EXCEPT ![r] = l]
Stage(r, l) == stage' = [stage EXCEPT ![r] = l]
All(v) == [r \in Ranks |-> v]

-----------------------------------------------------------------------------
(* What the ranks know of the answer that rank 0 received.  Mutated form:  *)
(* without the MPI_Bcast. *)
OnlyRoot(answer) == [r \in Ranks |-> r = 0 /\ answer]
Bcast(answer) == All(answer)

(* connect(), when the simulation comes to serve the client: the answer    *)
(* may already be to quit.                                                 *)
Connect ==
  /\ pc = All("connect")
  /\ LET quit == Bcast(~running) IN
       /\ simQuit' = quit /\ flag' = quit
       /\ sim' = [r \in Ranks |-> IF quit[r] THEN "null" ELSE "up"]
  /\ pc' = All("loop")
  /\ UNCHANGED <<input, running, stage, gathered, arg, queries>>

(* Nobody listens at the address: only rank 0 knows, and throws; the other *)
(* ranks wait for it in the barrier of sendCommand.                        *)
ConnectRefused ==
  /\ pc = All("connect")
  /\ pc' = [r \in Ranks |-> IF r = 0 THEN "threw" ELSE "barrier"]
  /\ UNCHANGED <<input, running, sim, simQuit, stage, gathered, arg, flag, queries>>

(* A simulation at its end does not read the greeting any more: all ranks  *)
(* wait in accept.                                                         *)
ConnectUnheard ==
  /\ pc = All("connect") /\ ~running /\ pc' = All("accept")
  /\ UNCHANGED <<input, running, sim, simQuit, stage, gathered, arg, flag, queries>>

(* The next turn of the loop.  What a second query on the connection does  *)
(* while the thread of the first one uses it is undefined.                 *)
sim_connected(r) == sim[r] # "null"
LoopHead(r) ==
  /\ pc[r] = "loop"
  /\ IF queries[r] < NumQueries /\ sim_connected(r)
     THEN /\ queries' = [queries EXCEPT ![r] = @ + 1]
          /\ IF stage[r] = "idle"
             THEN /\ Goto(r, IF async THEN "calling" ELSE "query")
                  /\ Stage(r, IF async THEN "start" ELSE "command")
                  /\ arg' = [arg EXCEPT ![r] = "valid"]
             ELSE Goto(r, "raced") /\ UNCHANGED <<stage, arg>>
     ELSE Goto(r, "disconnect") /\ UNCHANGED <<stage, queries, arg>>
  /\ UNCHANGED <<input, running, sim, simQuit, gathered, flag>>

(* query_async returns when the thread is started, which may then still    *)
(* have to read the parameter that it captured by reference: it finds that *)
(* value or any other.                                                     *)
query_async(r) ==
  /\ pc[r] = "calling" /\ Goto(r, "future")
  /\ UNCHANGED <<input, running, sim, simQuit, stage, gathered, arg, flag, queries>>
ThreadStarts(r) ==
  /\ stage[r] = "start" /\ Stage(r, "command")
  /\ \E a \in {"valid", "other"} :
       /\ pc[r] = "calling" => a = "valid"
       /\ arg' = [arg EXCEPT ![r] = a]
  /\ UNCHANGED <<input, running, sim, simQuit, pc, gathered, flag, queries>>

-----------------------------------------------------------------------------
(* sendCommand(QUERY), which ends in a barrier and a broadcast. *)
QueryCommand ==
  /\ stage = All("command")
  /\ simQuit' = Bcast(~running)
  /\ stage' = [r \in Ranks |-> IF simQuit'[r] THEN "return" ELSE "transfer"]
  /\ UNCHANGED <<input, running, sim, pc, gathered, arg, flag, queries>>

(* The regions of the rank; the simulation answers every ping.  Mutated    *)
(* form: only rank 0, which writes the log, takes part in the MPI_Gather.  *)
RootLogs(r) == r = 0
Logs(r) == r \in loggers
Transfer(r) ==
  /\ stage[r] = "transfer"
  /\ Stage(r, IF Logs(r) THEN "gather" ELSE "barrier")
  /\ UNCHANGED <<input, running, sim, simQuit, pc, gathered, arg, flag, queries>>

(* MPI_Gather: the root waits for all, the others only hand over 16 bytes. *)
Gather(r) ==
  /\ stage[r] = "gather"
  /\ IF r = 0 THEN gathered = Ranks \ {0} /\ gathered' = {}
              ELSE r \notin gathered /\ gathered' = gathered \cup {r}
  /\ Stage(r, "barrier")
  /\ UNCHANGED <<input, running, sim, simQuit, pc, arg, flag, queries>>

Barrier ==
  /\ stage = All("barrier") /\ stage' = All("return")
  /\ UNCHANGED <<input, running, sim, simQuit, pc, gathered, arg, flag, queries>>

(* The end of is::client::query, on either thread.  Mutated form: the flag *)
(* is for connect() only.                                                  *)
NoReport(r) == flag[r]
Report(r) == flag[r] \/ arg[r] = "valid"
QueryReturn(r) ==
  /\ stage[r] = "return" /\ Stage(r, "idle")
  /\ IF simQuit[r]
     THEN /\ sim' = [sim EXCEPT ![r] = "null"]
          /\ flag' = [flag EXCEPT ![r] = Report(r)]
     ELSE UNCHANGED <<sim, flag>>
  /\ IF pc[r] = "query" THEN Goto(r, "loop") ELSE UNCHANGED pc
  /\ UNCHANGED <<input, running, simQuit, gathered, arg, queries>>

(* get() waits for the thread.  An application that keeps the future does  *)
(* not (destroying it would wait, too).                                    *)
FutureReady(r) == waits => stage[r] = "idle"
Get(r) ==
  /\ pc[r] = "future" /\ FutureReady(r) /\ Goto(r, "loop")
  /\ UNCHANGED <<input, running, sim, simQuit, stage, gathered, arg, flag, queries>>

-----------------------------------------------------------------------------
(* disconnect(): with a connection, a DISCONNECT of all ranks.  A rank     *)
(* whose thread still uses the connection takes it away all the same; what *)
(* either thread does after that is undefined.                             *)
Disconnect ==
  /\ \A r \in Ranks : pc[r] = "disconnect" /\ sim_connected(r) /\ stage[r] = "idle"
  /\ sim' = All("null") /\ pc' = All("exit")
  /\ UNCHANGED <<input, running, simQuit, stage, gathered, arg, flag, queries>>
DisconnectUnderway(r) ==
  /\ pc[r] = "disconnect" /\ sim_connected(r) /\ stage[r] # "idle"
  /\ sim' = [sim EXCEPT ![r] = "null"] /\ Goto(r, "raced")
  /\ UNCHANGED <<input, running, simQuit, stage, gathered, arg, flag, queries>>
DisconnectNothing(r) ==
  /\ pc[r] = "disconnect" /\ ~sim_connected(r) /\ Goto(r, "exit")
  /\ UNCHANGED <<input, running, sim, simQuit, stage, gathered, arg, flag, queries>>

(* Once two threads of a rank have met on its connection, the model says   *)
(* nothing more about the job.                                             *)
Raced == \E r \in Ranks : pc[r] = "raced"
ClientStep ==
  /\ ~Raced
  /\ \/ Connect \/ ConnectRefused \/ ConnectUnheard
     \/ QueryCommand \/ Barrier \/ Disconnect
     \/ \E r \in Ranks :
          \/ LoopHead(r) \/ query_async(r) \/ ThreadStarts(r) \/ Transfer(r)
          \/ Gather(r) \/ QueryReturn(r) \/ Get(r)
          \/ DisconnectUnderway(r) \/ DisconnectNothing(r)
Next == SimulationEnds \/ ClientStep
Spec == Init /\ [][Next]_vars

(* No thread stops, and no wait of one can hold up another for ever but    *)
(* through a collective call: the finitely many steps are all made.        *)
FairSpec == Spec /\ WF_vars(ClientStep)

-----------------------------------------------------------------------------
(* A query never loses the connection that it runs on: disconnect(), made  *)
(* after query_async() has returned, does not take it from the thread.     *)
(* It does.  (is_client.h has query_async() block until the data is there, *)
(* which would make every later call safe.)                                *)
ConnectionAlive == \A r \in Ranks : stage[r] # "idle" => sim[r] = "up"

(* Ranks that decide on their own decide the same: when two come to the    *)
(* same place of the loop with no query under way, both or neither find    *)
(* the simulation connected.                                               *)
Deciding(r) == pc[r] = "loop" /\ stage[r] = "idle"
RanksAgree ==
  \A r, s \in Ranks :
    Deciding(r) /\ Deciding(s) /\ queries[r] = queries[s] => sim[r] = sim[s]

(* The two ways to learn that the simulation has quit agree, as long as    *)
(* the flag is passed to query(): it is true exactly if the connection is  *)
(* lost before the client gave it up.                                      *)
QuitReported ==
  \A r \in Ranks :
    ~async /\ pc[r] \in {"loop", "disconnect"} => (flag[r] <=> sim[r] = "null")

(* Once connected, every rank comes out of its calls and leaves, whenever  *)
(* the simulation ends, if the application waits for its futures and       *)
(* either all ranks log or none does.  (If only rank 0 logs, it stays in   *)
(* the MPI_Gather of query() and the others in the barrier.)               *)
Served == pc = All("loop")
AllRanksLeave ==
  Served /\ waits /\ loggers \in {{}, Ranks} ~> pc = All("exit")
=============================================================================
