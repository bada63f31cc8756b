----------------------------- MODULE InTransit -----------------------------
(***************************************************************************)
(* What libIS promises to client jobs, without ranks that communicate,     *)
(* threads or media (README.md, "Documentation"; is_client.h).  At most    *)
(* one job at a time is in a session with the simulation.  A query of that *)
(* job is answered with a snapshot - the region of every simulation rank   *)
(* at one timestep, and a later timestep than any snapshot handed out      *)
(* before, to whichever job - or it ends the session.                      *)
(***************************************************************************)
EXTENDS Integers, Sequences

CONSTANTS
  Clients,    \* client jobs
  SimRanks,   \* simulation ranks
  Timesteps   \* timesteps of the simulation

VARIABLES
  session,    \* session[j]: the state of job j's session
  snapshots   \* snapshots[j]: the snapshots job j was given

vars == <<session, snapshots>>

Snapshot(t) == {<<s, t>> : s \in SimRanks}

Init ==
  /\ session = [j \in Clients |-> "none"]
  /\ snapshots = [j \in Clients |-> <<>>]

Active(j) == session[j] \in {"open", "asking"}
Go(j, state) == session' = [session EXCEPT ![j] = state]

Open(j) ==
  /\ session[j] = "none"
  /\ \A i \in Clients : ~Active(i)
  /\ Go(j, "open")
  /\ UNCHANGED snapshots

Ask(j) ==
  /\ session[j] = "open"
  /\ Go(j, "asking")
  /\ UNCHANGED snapshots

(* The timestep t is later than that of every region handed out so far. *)
New(t) ==
  \A j \in Clients : \A k \in DOMAIN snapshots[j] :
    \A region \in snapshots[j][k] : region[2] < t

Answer(j, t) ==
  /\ session[j] = "asking"
  /\ New(t)
  /\ Go(j, "open")
  /\ snapshots' = [snapshots EXCEPT ![j] = Append(@, Snapshot(t))]

(* The job disconnects, is told to quit, or never gets a session. *)
Close(j) ==
  /\ session[j] # "closed"
  /\ Go(j, "closed")
  /\ UNCHANGED snapshots

Next ==
  \E j \in Clients :
    Open(j) \/ Ask(j) \/ Close(j) \/ \E t \in Timesteps : Answer(j, t)

Spec == Init /\ [][Next]_vars
=============================================================================
