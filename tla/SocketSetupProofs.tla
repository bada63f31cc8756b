------------------------- MODULE SocketSetupProofs -------------------------
(***************************************************************************)
(* Theorems about SocketSetup for every number of simulation ranks and of  *)
(* client ranks, every window and any number of failed accepts.            *)
(***************************************************************************)
EXTENDS SocketSetup, Functions, FiniteSetTheorems, TLAPS

-----------------------------------------------------------------------------
(***************************************************************************)
(* The inductive invariant.                                                *)
(***************************************************************************)

(* The list of hosts has the client ranks in order, and is complete when   *)
(* rank 0 accepts and when it has been sent.                               *)
HostsInOrder ==
  /\ Len(hosts) <= N - 1
  /\ \A k \in 1 .. Len(hosts) : hosts[k] = k
  /\ clientPc[0] \in {"accepting", "returned"} => Len(hosts) = N - 1
  /\ clientPc[0] # "waiting"
  /\ \A s \in SimRank : simPc[s] = "barrier" =>
       /\ Len(remoteHosts[s]) = N - 1
       /\ \A k \in 1 .. N - 1 : remoteHosts[s][k] = k

(* What each loop of connect has achieved: a simulation rank opens its     *)
(* sockets in the order of the client ranks, and the ranks of the windows  *)
(* that are over have finished the phase.                                  *)
ConnectLoops ==
  /\ \A s \in SimRank :
       /\ Len(simSockets[s]) <= N
       /\ \A k \in 1 .. Len(simSockets[s]) : simSockets[s][k] = k - 1
       /\ IF simPc[s] = "connect" THEN Len(simSockets[s]) = 0
                                  ELSE Len(simSockets[s]) > 0
  /\ phase = 1 =>
       \A s \in SimRank : s < round * Window => simPc[s] = "barrier"
  /\ phase # 1 => \A s \in SimRank : simPc[s] = "barrier"
  /\ phase = 2 =>
       \A s \in SimRank : s < round * Window => Len(simSockets[s]) = N
  /\ phase = 3 => \A s \in SimRank : Len(simSockets[s]) = N

(* A connection that waits in a backlog or was accepted was made by a      *)
(* simulation rank that has its end of it.                                 *)
BothEnds ==
  \A c \in ClientRank :
    /\ \A s \in Range(backlog[c]) : c < Len(simSockets[s])
    /\ acceptErrors[c] = 0 =>
         \A s \in DOMAIN remotes[c] : c < Len(simSockets[s])

(* As long as no accept fails on a client rank, it has one connection with *)
(* every simulation rank that has opened its end.                          *)
OneConnection ==
  \A c \in ClientRank :
    acceptErrors[c] = 0 =>
      /\ IsInjective(backlog[c])
      /\ Range(backlog[c]) \cap DOMAIN remotes[c] = {}
      /\ nconnected[c] = Cardinality(DOMAIN remotes[c])

(* As long as no accept fails on client rank 0, a client rank that knows    *)
(* how many connections to expect expects M, and returns after M.          *)
ExpectAll ==
  /\ nexpected[0] \in {-1, M}
  /\ acceptErrors[0] = 0 =>
    /\ \A i \in 1 .. Len(announced) : announced[i] = M
    /\ \A c \in OtherClientRank :
         clientPc[c] \in {"accepting", "returned"} => nexpected[c] = M
    /\ \A c \in ClientRank : clientPc[c] = "returned" => nconnected[c] = M

OwnSockets ==
  \A c \in ClientRank : \A i \in DOMAIN remotes[c] :
    /\ remotes[c][i] \in {i, Failed}
    /\ acceptErrors[c] = 0 => remotes[c][i] = i

IInv == /\ TypeOK /\ HostsInOrder /\ ConnectLoops /\ BothEnds
        /\ OneConnection /\ ExpectAll /\ OwnSockets

-----------------------------------------------------------------------------
LEMMA RankZero ==
  0 \in SimRank /\ 0 \in ClientRank /\ OtherClientRank \subseteq ClientRank
BY SetupSizes DEF SimRank, ClientRank, OtherClientRank

(* Appending to a sequence and taking its head. *)
LEMMA AppendFacts ==
  ASSUME NEW S, NEW q \in Seq(S), NEW e \in S
  PROVE  /\ Append(q, e) \in Seq(S)
         /\ Len(Append(q, e)) = Len(q) + 1
         /\ Append(q, e)[Len(q) + 1] = e
         /\ \A i \in 1 .. Len(q) : Append(q, e)[i] = q[i]
OBVIOUS

LEMMA AppendRange ==
  ASSUME NEW S, NEW q \in Seq(S), NEW e \in S
  PROVE  /\ Range(Append(q, e)) = Range(q) \cup {e}
         /\ IsInjective(q) /\ e \notin Range(q) => IsInjective(Append(q, e))
<1>1. /\ Append(q, e) \in Seq(S) /\ Len(q) \in Nat
      /\ DOMAIN Append(q, e) = 1 .. Len(q) + 1 /\ DOMAIN q = 1 .. Len(q)
      /\ Append(q, e)[Len(q) + 1] = e
      /\ \A i \in 1 .. Len(q) : Append(q, e)[i] = q[i]
  BY AppendFacts
<1> HIDE DEF Append
<1>2. Range(Append(q, e)) \subseteq Range(q) \cup {e}
  BY <1>1 DEF Range
<1>3. Range(q) \cup {e} \subseteq Range(Append(q, e))
  <2>1. Len(q) + 1 \in 1 .. Len(q) + 1 /\ 1 .. Len(q) \subseteq 1 .. Len(q) + 1
    BY <1>1
  <2> QED
    BY <1>1, <2>1 DEF Range
<1>4. ASSUME IsInjective(q), e \notin Range(q)
      PROVE  IsInjective(Append(q, e))
  BY <1>1, <1>4 DEF IsInjective, Range
<1> QED
  BY <1>2, <1>3, <1>4

LEMMA TailFacts ==
  ASSUME NEW S, NEW q \in Seq(S), q # <<>>
  PROVE  /\ Tail(q) \in Seq(S)
         /\ Head(q) = q[1] /\ Head(q) \in S
         /\ Len(q) \in Nat \ {0} /\ Len(Tail(q)) = Len(q) - 1
         /\ \A i \in 1 .. Len(q) - 1 : Tail(q)[i] = q[i + 1]
OBVIOUS

LEMMA TailRange ==
  ASSUME NEW S, NEW q \in Seq(S), q # <<>>
  PROVE  /\ Head(q) \in Range(q) /\ Range(q) \subseteq S
         /\ Range(Tail(q)) \subseteq Range(q)
         /\ IsInjective(q) =>
              IsInjective(Tail(q)) /\ Head(q) \notin Range(Tail(q))
<1>1. /\ Len(q) \in Nat \ {0} /\ Head(q) = q[1]
      /\ DOMAIN q = 1 .. Len(q) /\ DOMAIN Tail(q) = 1 .. Len(q) - 1
      /\ \A i \in 1 .. Len(q) - 1 : Tail(q)[i] = q[i + 1]
      /\ \A i \in 1 .. Len(q) : q[i] \in S
  BY TailFacts
<1>2. Head(q) \in Range(q) /\ Range(q) \subseteq S
  BY <1>1 DEF Range
<1>3. Range(Tail(q)) \subseteq Range(q)
  BY <1>1 DEF Range
<1>4. ASSUME IsInjective(q)
      PROVE  IsInjective(Tail(q)) /\ Head(q) \notin Range(Tail(q))
  BY <1>1, <1>4 DEF IsInjective, Range
<1> QED
  BY <1>2, <1>3, <1>4

(* remotes[c] stays a map from simulation ranks when one is registered.    *)
LEMMA RegisterFacts ==
  ASSUME TypeOK, NEW c \in ClientRank, NEW r \in SimRank,
         NEW x \in SimRank \cup {Failed}, Register(c, r, x)
  PROVE  /\ remotes' \in [ClientRank -> Remotes]
         /\ nconnected' \in [ClientRank -> Nat]
         /\ nconnected'[c] = nconnected[c] + 1
         /\ DOMAIN remotes'[c] = DOMAIN remotes[c] \cup {r}
         /\ remotes'[c][r] = x
         /\ \A i \in DOMAIN remotes[c] : i # r => remotes'[c][i] = remotes[c][i]
         /\ \A d \in ClientRank : d # c =>
              remotes'[d] = remotes[d] /\ nconnected'[d] = nconnected[d]
<1> DEFINE f == [k \in DOMAIN remotes[c] \cup {r} |->
                   IF k = r THEN x ELSE remotes[c][k]]
<1>1. /\ remotes' = [remotes EXCEPT ![c] = f]
      /\ nconnected' = [nconnected EXCEPT ![c] = @ + 1]
  BY DEF Register
<1>2. remotes \in [ClientRank -> Remotes] /\ nconnected \in [ClientRank -> Nat]
  BY DEF TypeOK
<1>3. PICK D \in SUBSET SimRank : remotes[c] \in [D -> SimRank \cup {Failed}]
  BY <1>2 DEF Remotes
<1>4. f \in [D \cup {r} -> SimRank \cup {Failed}] /\ D \cup {r} \in SUBSET SimRank
  BY <1>3
<1>5. f \in Remotes
  BY <1>4 DEF Remotes
<1>6. DOMAIN f = DOMAIN remotes[c] \cup {r} /\ f[r] = x
      /\ \A i \in DOMAIN remotes[c] : i # r => f[i] = remotes[c][i]
  OBVIOUS
<1> HIDE DEF f
<1> QED
  BY <1>1, <1>2, <1>5, <1>6

LEMMA RemotesFinite ==
  ASSUME TypeOK, NEW c \in ClientRank
  PROVE  /\ DOMAIN remotes[c] \subseteq SimRank
         /\ IsFiniteSet(DOMAIN remotes[c])
<1>1. DOMAIN remotes[c] \subseteq SimRank
  BY DEF TypeOK, Remotes
<1>2. IsFiniteSet(SimRank)
  BY FS_Interval, SetupSizes DEF SimRank
<1> QED
  BY <1>1, <1>2, FS_Subset

-----------------------------------------------------------------------------
LEMMA InitIInv == Init => IInv
<1> SUFFICES ASSUME Init PROVE IInv
  OBVIOUS
<1> USE DEF Init
<1>1. TypeOK
  <2>1. <<>> \in Remotes
    <3>1. {} \in SUBSET SimRank /\ <<>> \in [{} -> SimRank \cup {Failed}]
      OBVIOUS
    <3> QED
      BY <3>1 DEF Remotes
  <2> QED
    BY <2>1, SetupSizes, WindowAssumption, AcceptErrorsAssumption DEF TypeOK
<1>2. HostsInOrder
  BY SetupSizes, RankZero DEF HostsInOrder
<1>3. ConnectLoops
  BY SetupSizes, WindowAssumption DEF ConnectLoops, SimRank
<1>4. BothEnds
  BY DEF BothEnds, Range
<1>5. OneConnection
  <2>1. \A c \in ClientRank : DOMAIN remotes[c] = {}
    OBVIOUS
  <2> QED
    BY <2>1, FS_EmptySet DEF OneConnection, IsInjective
<1>6. ExpectAll
  BY RankZero DEF ExpectAll
<1>7. OwnSockets
  BY DEF OwnSockets
<1> QED
  BY <1>1, <1>2, <1>3, <1>4, <1>5, <1>6, <1>7 DEF IInv

-----------------------------------------------------------------------------
(***************************************************************************)
(* One lemma per action of connect.                                        *)
(***************************************************************************)

(* A new connection of s to c keeps the invariants about connections, when *)
(* s opens its end of it now.                                              *)
LEMMA NewConnection ==
  ASSUME IInv, NEW s \in SimRank, NEW c \in ClientRank,
         Len(simSockets[s]) = c,
         simSockets' \in [SimRank -> Seq(ClientRank)],
         Len(simSockets'[s]) = c + 1,
         \A r \in SimRank : r # s => simSockets'[r] = simSockets[r],
         backlog' = [backlog EXCEPT ![c] = Append(@, s)],
         UNCHANGED <<remotes, nconnected, acceptErrors>>
  PROVE  /\ backlog' \in [ClientRank -> Seq(SimRank)]
         /\ BothEnds' /\ OneConnection'
<1>0. TypeOK /\ BothEnds /\ OneConnection
  BY DEF IInv
<1>1. /\ backlog \in [ClientRank -> Seq(SimRank)]
      /\ simSockets \in [SimRank -> Seq(ClientRank)]
  BY <1>0 DEF TypeOK
<1>2. /\ Append(backlog[c], s) \in Seq(SimRank)
      /\ Range(Append(backlog[c], s)) = Range(backlog[c]) \cup {s}
      /\ IsInjective(backlog[c]) /\ s \notin Range(backlog[c]) =>
           IsInjective(Append(backlog[c], s))
  BY <1>1, AppendFacts, AppendRange
<1>3. /\ backlog'[c] = Append(backlog[c], s)
      /\ \A d \in ClientRank : d # c => backlog'[d] = backlog[d]
      /\ backlog' \in [ClientRank -> Seq(SimRank)]
  BY <1>1, <1>2
<1>4. c \in Nat /\ \A r \in SimRank :
        /\ Len(simSockets[r]) \in Nat /\ Len(simSockets'[r]) \in Nat
        /\ Len(simSockets'[r]) >= Len(simSockets[r])
  <2>1. c \in Nat
    BY DEF ClientRank
  <2>2. ASSUME NEW r \in SimRank
        PROVE  Len(simSockets[r]) \in Nat /\ Len(simSockets'[r]) \in Nat
    <3>1. simSockets[r] \in Seq(ClientRank) /\ simSockets'[r] \in Seq(ClientRank)
      BY <1>1
    <3> QED
      BY <3>1
  <2>3. ASSUME NEW r \in SimRank
        PROVE  Len(simSockets'[r]) >= Len(simSockets[r])
    <3>1. CASE r = s
      BY <3>1, <2>1
    <3>2. CASE r # s
      BY <3>2, <2>2
    <3> QED
      BY <3>1, <3>2
  <2> QED
    BY <2>1, <2>2, <2>3
<1>5. \A d \in ClientRank : /\ Range(backlog[d]) \subseteq SimRank
                            /\ DOMAIN remotes[d] \subseteq SimRank
  <2>1. \A d \in ClientRank : backlog[d] \in Seq(SimRank)
    BY <1>1
  <2>2. \A d \in ClientRank : Range(backlog[d]) \subseteq SimRank
    BY <2>1 DEF Range
  <2> QED
    BY <2>2, <1>0, RemotesFinite
<1>6. BothEnds'
  <2> SUFFICES ASSUME NEW d \in ClientRank
               PROVE  /\ \A r \in Range(backlog'[d]) : d < Len(simSockets'[r])
                      /\ acceptErrors[d] = 0 =>
                           \A r \in DOMAIN remotes[d] : d < Len(simSockets'[r])
    BY DEF BothEnds
  <2>1. d \in Int
    BY DEF ClientRank
  <2>2. \A r \in Range(backlog[d]) : d < Len(simSockets'[r])
    BY <2>1, <1>0, <1>4, <1>5 DEF BothEnds
  <2>3. \A r \in Range(backlog'[d]) : d < Len(simSockets'[r])
    BY <2>2, <1>2, <1>3, <1>4
  <2> QED
    BY <2>1, <2>3, <1>0, <1>4, <1>5 DEF BothEnds
<1>7. OneConnection'
  <2> SUFFICES ASSUME NEW d \in ClientRank, acceptErrors[d] = 0
               PROVE  /\ IsInjective(backlog'[d])
                      /\ Range(backlog'[d]) \cap DOMAIN remotes[d] = {}
                      /\ nconnected[d] = Cardinality(DOMAIN remotes[d])
    BY DEF OneConnection
  <2>1. d = c => s \notin DOMAIN remotes[c] /\ s \notin Range(backlog[c])
    BY <1>0, <1>4 DEF BothEnds
  <2> QED
    BY <2>1, <1>0, <1>2, <1>3 DEF OneConnection
<1> QED
  BY <1>3, <1>6, <1>7

LEMMA ConnectToRootStep ==
  ASSUME IInv, NEW s \in SimRank, ConnectToRoot(s)
  PROVE  IInv'
<1> USE RankZero DEF ConnectToRoot, gatherVars, acceptVars
<1>0. /\ TypeOK /\ HostsInOrder /\ ConnectLoops /\ BothEnds
      /\ OneConnection /\ ExpectAll /\ OwnSockets
  BY DEF IInv
<1>1. /\ simSockets' = [simSockets EXCEPT ![s] = <<0>>]
      /\ simSockets \in [SimRank -> Seq(ClientRank)]
      /\ simPc' = [simPc EXCEPT ![s] = "asked"]
      /\ Len(simSockets[s]) = 0
  BY <1>0 DEF TypeOK, ConnectLoops
<1>2. /\ <<0>> \in Seq(ClientRank) /\ Len(<<0>>) = 1 /\ <<0>>[1] = 0
  OBVIOUS
<1>3. /\ simSockets' \in [SimRank -> Seq(ClientRank)]
      /\ simSockets'[s] = <<0>>
      /\ \A r \in SimRank : r # s => simSockets'[r] = simSockets[r]
  BY <1>1, <1>2
<1>4. /\ backlog' \in [ClientRank -> Seq(SimRank)]
      /\ BothEnds' /\ OneConnection'
  <2>1. PICK c \in ClientRank : c = 0
    OBVIOUS
  <2>2. /\ Len(simSockets[s]) = c /\ Len(simSockets'[s]) = c + 1
        /\ backlog' = [backlog EXCEPT ![c] = Append(@, s)]
        /\ UNCHANGED <<remotes, nconnected, acceptErrors>>
    BY <2>1, <1>1, <1>2, <1>3
  <2> HIDE DEF ConnectToRoot
  <2> QED
    BY <2>2, <1>3, NewConnection
<1>5. TypeOK'
  BY <1>0, <1>1, <1>3, <1>4 DEF TypeOK
<1>6. HostsInOrder'
  BY <1>0, <1>1 DEF HostsInOrder, TypeOK
<1>7. ConnectLoops'
  <2>1. \A r \in SimRank :
          /\ Len(simSockets'[r]) <= N
          /\ \A k \in 1 .. Len(simSockets'[r]) : simSockets'[r][k] = k - 1
          /\ IF simPc'[r] = "connect" THEN Len(simSockets'[r]) = 0
                                      ELSE Len(simSockets'[r]) > 0
    BY <1>0, <1>1, <1>2, SetupSizes DEF ConnectLoops, TypeOK
  <2>2. \A r \in SimRank : r < round * Window => simPc'[r] = "barrier"
    BY <1>0, <1>1, SetupSizes, WindowAssumption
    DEF ConnectLoops, InWindow, SimRank, TypeOK
  <2> QED
    BY <2>1, <2>2, <1>0 DEF ConnectLoops
<1>8. ExpectAll' /\ OwnSockets'
  BY <1>0 DEF ExpectAll, OwnSockets
<1> QED
  BY <1>4, <1>5, <1>6, <1>7, <1>8 DEF IInv

LEMMA ConnectToOtherStep ==
  ASSUME IInv, NEW s \in SimRank, ConnectToOther(s)
  PROVE  IInv'
<1> USE RankZero DEF gatherVars, acceptVars
<1>0. /\ TypeOK /\ HostsInOrder /\ ConnectLoops /\ BothEnds
      /\ OneConnection /\ ExpectAll /\ OwnSockets
  BY DEF IInv
<1> DEFINE n == Len(simSockets[s])
<1>1. /\ phase = 2
      /\ simSockets \in [SimRank -> Seq(ClientRank)]
      /\ simSockets[s] \in Seq(ClientRank) /\ n \in Nat
      /\ remoteHosts[s] \in Seq(OtherClientRank)
      /\ DOMAIN remoteHosts[s] = 1 .. Len(remoteHosts[s])
      /\ n \in 1 .. Len(remoteHosts[s])
  <2>1. /\ simSockets \in [SimRank -> Seq(ClientRank)]
        /\ remoteHosts \in [SimRank -> Seq(OtherClientRank)]
    BY <1>0 DEF TypeOK
  <2>2. simSockets[s] \in Seq(ClientRank) /\ remoteHosts[s] \in Seq(OtherClientRank)
    BY <2>1
  <2>3. phase = 2 /\ n \in DOMAIN remoteHosts[s]
    BY DEF ConnectToOther, NextHost
  <2> QED
    BY <2>1, <2>2, <2>3
<1>2. simPc[s] = "barrier"
  BY <1>0, <1>1 DEF ConnectLoops
<1>3. n \in 1 .. N - 1 /\ remoteHosts[s][n] = n
  BY <1>0, <1>1, <1>2 DEF HostsInOrder
<1>4. n \in ClientRank /\ n + 1 <= N
  BY <1>3, SetupSizes DEF ClientRank
<1>5. /\ backlog' = [backlog EXCEPT ![n] = Append(@, s)]
      /\ simSockets' = [simSockets EXCEPT ![s] = Append(@, n)]
      /\ UNCHANGED <<phase, round, simPc, remoteHosts, clientPc, posted, hosts,
                     announced, nexpected, nconnected, remotes, acceptErrors>>
  BY <1>3 DEF ConnectToOther, NextHost
<1>6. /\ Append(simSockets[s], n) \in Seq(ClientRank)
      /\ Len(Append(simSockets[s], n)) = n + 1
      /\ Append(simSockets[s], n)[n + 1] = n
      /\ \A i \in 1 .. n : Append(simSockets[s], n)[i] = simSockets[s][i]
  BY <1>1, <1>4, AppendFacts
<1>7. /\ simSockets' \in [SimRank -> Seq(ClientRank)]
      /\ simSockets'[s] = Append(simSockets[s], n)
      /\ \A r \in SimRank : r # s => simSockets'[r] = simSockets[r]
  BY <1>1, <1>5, <1>6
<1>8. /\ backlog' \in [ClientRank -> Seq(SimRank)]
      /\ BothEnds' /\ OneConnection'
  <2>1. Len(simSockets[s]) = n /\ Len(simSockets'[s]) = n + 1
    BY <1>6, <1>7
  <2> HIDE DEF n
  <2> QED
    BY <2>1, <1>4, <1>5, <1>7, NewConnection
<1>9. TypeOK'
  <2> HIDE DEF n
  <2> QED
    BY <1>0, <1>5, <1>7, <1>8 DEF TypeOK
<1>10. HostsInOrder'
  BY <1>0, <1>5 DEF HostsInOrder
<1>11. ConnectLoops'
  <2>1. ASSUME NEW r \in SimRank
        PROVE  /\ Len(simSockets'[r]) <= N
               /\ \A k \in 1 .. Len(simSockets'[r]) : simSockets'[r][k] = k - 1
               /\ IF simPc[r] = "connect" THEN Len(simSockets'[r]) = 0
                                          ELSE Len(simSockets'[r]) > 0
    <3>1. CASE r = s
      <4>1. \A k \in 1 .. n : simSockets[s][k] = k - 1
        BY <1>0 DEF ConnectLoops
      <4> HIDE DEF n
      <4> QED
        BY <3>1, <4>1, <1>1, <1>2, <1>4, <1>6, <1>7
    <3>2. CASE r # s
      BY <3>2, <1>7, <1>0 DEF ConnectLoops
    <3> QED
      BY <3>1, <3>2
  <2>2. \A r \in SimRank : r < round * Window => Len(simSockets'[r]) = N
    <3>1. ~(s < round * Window)
      BY <1>0, SetupSizes, WindowAssumption
      DEF ConnectToOther, InWindow, SimRank, TypeOK
    <3> QED
      BY <3>1, <1>0, <1>1, <1>7 DEF ConnectLoops
  <2> QED
    BY <2>1, <2>2, <1>0, <1>1, <1>5 DEF ConnectLoops
<1>12. ExpectAll' /\ OwnSockets'
  BY <1>0, <1>5 DEF ExpectAll, OwnSockets
<1> QED
  BY <1>8, <1>9, <1>10, <1>11, <1>12 DEF IInv

LEMMA BarrierStep ==
  ASSUME IInv, Barrier
  PROVE  IInv'
<1> USE RankZero DEF Barrier, gatherVars, acceptVars
<1>0. /\ TypeOK /\ HostsInOrder /\ ConnectLoops /\ BothEnds
      /\ OneConnection /\ ExpectAll /\ OwnSockets
  BY DEF IInv
<1>1. /\ round \in Nat /\ Window \in Nat \ {0} /\ M \in Nat \ {0}
      /\ (round + 1) * Window = round * Window + Window
      /\ round * Window \in Nat /\ 0 * Window = 0
      /\ \A s \in SimRank : s \in Nat /\ s < M
      /\ \A s \in SimRank : Len(simSockets[s]) \in Nat
  BY <1>0, SetupSizes, WindowAssumption DEF TypeOK, SimRank
<1>2. TypeOK'
  BY <1>0, <1>1 DEF TypeOK, AnotherWindow
<1>3. HostsInOrder' /\ BothEnds' /\ OneConnection' /\ ExpectAll' /\ OwnSockets'
  BY <1>0 DEF HostsInOrder, BothEnds, OneConnection, ExpectAll, OwnSockets
<1>4. ASSUME phase = 1, NEW s \in SimRank, s < round * Window + Window
      PROVE  simPc[s] = "barrier"
  BY <1>0, <1>1, <1>4 DEF AtBarrier, InWindow, ConnectLoops
<1>5. ASSUME phase = 2, NEW s \in SimRank, s < round * Window + Window
      PROVE  Len(simSockets[s]) = N
  <2>1. CASE s < round * Window
    BY <2>1, <1>0, <1>5 DEF ConnectLoops
  <2>2. CASE ~(s < round * Window)
    <3>1. NextHost(s) \notin DOMAIN remoteHosts[s]
      BY <2>2, <1>1, <1>5 DEF AtBarrier, InWindow
    <3>2. simPc[s] = "barrier" /\ Len(simSockets[s]) > 0
          /\ Len(simSockets[s]) <= N
      BY <1>0, <1>5 DEF ConnectLoops
    <3>3. DOMAIN remoteHosts[s] = 1 .. N - 1
      BY <3>2, <1>0 DEF TypeOK, HostsInOrder
    <3> QED
      BY <3>1, <3>2, <3>3, <1>1, SetupSizes DEF NextHost
  <2> QED
    BY <2>1, <2>2
<1>6. ConnectLoops'
  <2>1. CASE AnotherWindow
    BY <2>1, <1>0, <1>1, <1>4, <1>5 DEF ConnectLoops
  <2>2. CASE ~AnotherWindow
    <3>1. \A s \in SimRank : s < round * Window + Window
      BY <2>2, <1>1 DEF AnotherWindow
    <3>2. phase = 1 => \A s \in SimRank : simPc[s] = "barrier"
      BY <3>1, <1>4
    <3>3. phase = 2 => \A s \in SimRank : Len(simSockets[s]) = N
      BY <3>1, <1>5
    <3> QED
      BY <2>2, <3>2, <3>3, <1>0, <1>1 DEF ConnectLoops
  <2> QED
    BY <2>1, <2>2
<1> QED
  BY <1>2, <1>3, <1>6 DEF IInv

-----------------------------------------------------------------------------
(***************************************************************************)
(* One lemma per action of accept.                                         *)
(***************************************************************************)

LEMMA GatherStep ==
  ASSUME IInv,
         \/ \E c \in ClientRank : PostHost(c) \/ LearnExpected(c)
         \/ \E c \in OtherClientRank : CollectHost(c)
         \/ StartAccepting
  PROVE  IInv'
<1> USE RankZero
<1>0. /\ TypeOK /\ HostsInOrder /\ ConnectLoops /\ BothEnds
      /\ OneConnection /\ ExpectAll /\ OwnSockets
  BY DEF IInv
<1>1. CASE \E c \in ClientRank : PostHost(c)
  <2> PICK c \in ClientRank : PostHost(c)
    BY <1>1
  <2>1. c \in OtherClientRank
    BY DEF PostHost, OtherClientRank
  <2>2. TypeOK'
    BY <2>1, <1>0 DEF PostHost, TypeOK, simVars, acceptVars
  <2>3. HostsInOrder'
    BY <1>0 DEF PostHost, HostsInOrder, TypeOK, simVars, acceptVars
  <2>4. ConnectLoops' /\ BothEnds' /\ OneConnection' /\ OwnSockets'
    BY <1>0 DEF PostHost, ConnectLoops, BothEnds, OneConnection, OwnSockets,
                simVars, acceptVars
  <2>5. ExpectAll'
    BY <1>0 DEF PostHost, ExpectAll, TypeOK, simVars, acceptVars
  <2> QED
    BY <2>2, <2>3, <2>4, <2>5 DEF IInv
<1>2. CASE \E c \in ClientRank : LearnExpected(c)
  <2> PICK c \in ClientRank : LearnExpected(c)
    BY <1>2
  <2>1. /\ clientPc[c] = "waiting" /\ c # 0
        /\ nexpected' = [nexpected EXCEPT ![c] = Head(announced)]
        /\ clientPc' = [clientPc EXCEPT ![c] = "accepting"]
    BY <1>0 DEF LearnExpected, HostsInOrder
  <2>2. announced \in Seq({-1, M}) /\ announced # <<>>
    BY <1>0 DEF TypeOK, LearnExpected
  <2>3. Head(announced) = announced[1] /\ 1 \in 1 .. Len(announced)
        /\ Head(announced) \in {-1, M}
    BY <2>2, TailFacts
  <2>4. TypeOK'
    <3>1. nexpected' \in [ClientRank -> {-1, 0, M}]
      BY <2>1, <2>3, <1>0 DEF TypeOK
    <3>2. clientPc' \in
            [ClientRank -> {"hosts", "waiting", "accepting", "returned"}]
      BY <2>1, <1>0 DEF TypeOK
    <3>3. UNCHANGED <<phase, round, simPc, remoteHosts, simSockets, backlog,
                      posted, hosts, announced, nconnected, remotes, acceptErrors>>
      BY DEF LearnExpected, simVars, gatherVars
    <3> QED
      BY <3>1, <3>2, <3>3, <1>0 DEF TypeOK
  <2>5. HostsInOrder'
    BY <2>1, <1>0 DEF LearnExpected, HostsInOrder, TypeOK, simVars, gatherVars
  <2>6. ConnectLoops' /\ BothEnds' /\ OneConnection' /\ OwnSockets'
    BY <1>0 DEF LearnExpected, ConnectLoops, BothEnds, OneConnection,
                OwnSockets, simVars, gatherVars
  <2>7. ExpectAll'
    <3>1. acceptErrors[0] = 0 => Head(announced) = M
      BY <2>3, <1>0 DEF ExpectAll
    <3> QED
      BY <2>1, <3>1, <1>0
      DEF LearnExpected, ExpectAll, TypeOK, OtherClientRank, simVars, gatherVars
  <2> QED
    BY <2>4, <2>5, <2>6, <2>7 DEF IInv
<1>3. CASE \E c \in OtherClientRank : CollectHost(c)
  <2> PICK c \in OtherClientRank : CollectHost(c)
    BY <1>3
  <2>1. /\ hosts \in Seq(OtherClientRank) /\ hosts' = Append(hosts, c)
        /\ c = Len(hosts) + 1 /\ clientPc[0] = "hosts" /\ Len(hosts) \in Nat
    BY <1>0 DEF CollectHost, NextSource, TypeOK
  <2>2. /\ Append(hosts, c) \in Seq(OtherClientRank)
        /\ Len(Append(hosts, c)) = Len(hosts) + 1
        /\ Append(hosts, c)[Len(hosts) + 1] = c
        /\ \A i \in 1 .. Len(hosts) : Append(hosts, c)[i] = hosts[i]
    BY <2>1, AppendFacts
  <2>3. TypeOK'
    BY <2>1, <2>2, <1>0 DEF CollectHost, TypeOK, simVars, acceptVars
  <2>4. HostsInOrder'
    <3>1. Len(hosts) + 1 <= N - 1
      BY <2>1, SetupSizes DEF OtherClientRank, ClientRank
    <3>2. \A k \in 1 .. Len(hosts) : hosts[k] = k
      BY <1>0 DEF HostsInOrder
    <3>3. Len(hosts') <= N - 1 /\ \A k \in 1 .. Len(hosts') : hosts'[k] = k
      BY <2>1, <2>2, <3>1, <3>2
    <3> QED
      BY <2>1, <3>3, <1>0 DEF CollectHost, HostsInOrder, simVars, acceptVars
  <2>5. /\ ConnectLoops' /\ BothEnds' /\ OneConnection' /\ ExpectAll'
        /\ OwnSockets'
    BY <1>0 DEF CollectHost, ConnectLoops, BothEnds, OneConnection, ExpectAll,
                OwnSockets, simVars, acceptVars
  <2> QED
    BY <2>3, <2>4, <2>5 DEF IInv
<1>4. CASE StartAccepting
  <2>1. /\ clientPc' = [clientPc EXCEPT ![0] = "accepting"]
        /\ clientPc[0] = "hosts" /\ Len(hosts) = N - 1
    BY <1>4 DEF StartAccepting
  <2>2. TypeOK' /\ HostsInOrder' /\ ExpectAll'
    BY <1>4, <2>1, <1>0 DEF StartAccepting, TypeOK, HostsInOrder, ExpectAll,
       OtherClientRank, simVars, gatherVars, acceptVars
  <2>3. ConnectLoops' /\ BothEnds' /\ OneConnection' /\ OwnSockets'
    BY <1>4, <1>0 DEF StartAccepting, ConnectLoops, BothEnds, OneConnection,
       OwnSockets, simVars, gatherVars, acceptVars
  <2> QED
    BY <2>2, <2>3 DEF IInv
<1> QED
  BY <1>1, <1>2, <1>3, <1>4

(* What taking the first connection of a backlog does to the invariants    *)
(* about connections, on any rank.                                         *)
LEMMA TakeConnection ==
  ASSUME IInv, NEW c \in ClientRank, backlog[c] # <<>>,
         Register(c, Head(backlog[c]), Head(backlog[c])),
         backlog' = [backlog EXCEPT ![c] = Tail(@)],
         UNCHANGED <<simSockets, acceptErrors>>
  PROVE  /\ Head(backlog[c]) \in SimRank
         /\ backlog' \in [ClientRank -> Seq(SimRank)]
         /\ remotes' \in [ClientRank -> Remotes]
         /\ nconnected' \in [ClientRank -> Nat]
         /\ \A d \in ClientRank : d # c => nconnected'[d] = nconnected[d]
         /\ BothEnds' /\ OneConnection' /\ OwnSockets'
<1> DEFINE s == Head(backlog[c])
<1>0. TypeOK /\ BothEnds /\ OneConnection /\ OwnSockets
  BY DEF IInv
<1>1. backlog \in [ClientRank -> Seq(SimRank)] /\ backlog[c] \in Seq(SimRank)
  BY <1>0 DEF TypeOK
<1>2. /\ s \in Range(backlog[c]) /\ Range(backlog[c]) \subseteq SimRank
      /\ Tail(backlog[c]) \in Seq(SimRank)
      /\ Range(Tail(backlog[c])) \subseteq Range(backlog[c])
      /\ IsInjective(backlog[c]) =>
           IsInjective(Tail(backlog[c])) /\ s \notin Range(Tail(backlog[c]))
  BY <1>1, TailFacts, TailRange
<1>3. s \in SimRank /\ Register(c, s, s)
  BY <1>2
<1>4. /\ backlog' \in [ClientRank -> Seq(SimRank)]
      /\ backlog'[c] = Tail(backlog[c])
      /\ \A d \in ClientRank : d # c => backlog'[d] = backlog[d]
  BY <1>1, <1>2
<1> HIDE DEF s
<1>5. /\ remotes' \in [ClientRank -> Remotes]
      /\ nconnected' \in [ClientRank -> Nat]
      /\ nconnected'[c] = nconnected[c] + 1
      /\ DOMAIN remotes'[c] = DOMAIN remotes[c] \cup {s}
      /\ remotes'[c][s] = s
      /\ \A i \in DOMAIN remotes[c] : i # s => remotes'[c][i] = remotes[c][i]
      /\ \A d \in ClientRank : d # c =>
           remotes'[d] = remotes[d] /\ nconnected'[d] = nconnected[d]
  BY <1>0, <1>3, RegisterFacts
<1>6. BothEnds'
  <2> SUFFICES ASSUME NEW d \in ClientRank
               PROVE  /\ \A r \in Range(backlog'[d]) : d < Len(simSockets[r])
                      /\ acceptErrors[d] = 0 =>
                           \A r \in DOMAIN remotes'[d] : d < Len(simSockets[r])
    BY DEF BothEnds
  <2>1. CASE d = c
    BY <2>1, <1>0, <1>2, <1>4, <1>5 DEF BothEnds
  <2>2. CASE d # c
    BY <2>2, <1>0, <1>4, <1>5 DEF BothEnds
  <2> QED
    BY <2>1, <2>2
<1>7. OneConnection'
  <2> SUFFICES ASSUME NEW d \in ClientRank, acceptErrors[d] = 0
               PROVE  /\ IsInjective(backlog'[d])
                      /\ Range(backlog'[d]) \cap DOMAIN remotes'[d] = {}
                      /\ nconnected'[d] = Cardinality(DOMAIN remotes'[d])
    BY DEF OneConnection
  <2>1. CASE d = c
    <3>1. s \notin DOMAIN remotes[c]
      BY <2>1, <1>0, <1>2 DEF OneConnection
    <3>2. Cardinality(DOMAIN remotes[c] \cup {s}) = Cardinality(DOMAIN remotes[c]) + 1
      BY <1>0, <3>1, RemotesFinite, FS_AddElement
    <3> QED
      BY <2>1, <3>1, <3>2, <1>0, <1>2, <1>4, <1>5 DEF OneConnection
  <2>2. CASE d # c
    BY <2>2, <1>0, <1>4, <1>5 DEF OneConnection
  <2> QED
    BY <2>1, <2>2
<1>8. OwnSockets'
  BY <1>0, <1>5 DEF OwnSockets
<1> QED
  BY <1>3, <1>4, <1>5, <1>6, <1>7, <1>8 DEF s

LEMMA AcceptOnRootStep ==
  ASSUME IInv, AcceptOnRoot
  PROVE  IInv'
<1> USE RankZero
<1>0. /\ TypeOK /\ HostsInOrder /\ ConnectLoops /\ BothEnds
      /\ OneConnection /\ ExpectAll /\ OwnSockets
  BY DEF IInv
<1> DEFINE s == Head(backlog[0])
<1>1. /\ s \in SimRank
      /\ backlog' \in [ClientRank -> Seq(SimRank)]
      /\ remotes' \in [ClientRank -> Remotes]
      /\ nconnected' \in [ClientRank -> Nat]
      /\ \A d \in ClientRank : d # 0 => nconnected'[d] = nconnected[d]
      /\ BothEnds' /\ OneConnection' /\ OwnSockets'
  <2>1. /\ 0 \in ClientRank /\ backlog[0] # <<>>
        /\ Register(0, Head(backlog[0]), Head(backlog[0]))
        /\ backlog' = [backlog EXCEPT ![0] = Tail(@)]
        /\ UNCHANGED <<simSockets, acceptErrors>>
    BY DEF AcceptOnRoot
  <2> QED
    BY <2>1, TakeConnection
<1>2. /\ clientPc[0] = "accepting"
      /\ remoteHosts' = [remoteHosts EXCEPT ![s] = hosts]
      /\ simPc' = [simPc EXCEPT ![s] = "barrier"]
      /\ \/ /\ nexpected' = [nexpected EXCEPT ![0] = M]
            /\ announced' = Append(announced, M)
         \/ UNCHANGED <<nexpected, announced>>
      /\ UNCHANGED <<phase, round, simSockets, clientPc, posted, hosts,
                     acceptErrors>>
  BY DEF AcceptOnRoot, Accepting, Announce, gatherVars
<1>3. Len(simSockets[s]) > 0
  <2>1. backlog[0] \in Seq(SimRank) /\ backlog[0] # <<>>
    BY <1>0 DEF TypeOK, AcceptOnRoot
  <2>2. s \in Range(backlog[0])
    BY <2>1, TailRange
  <2> QED
    BY <2>2, <1>0 DEF BothEnds
<1> HIDE DEF s
<1>4. /\ Append(announced, M) \in Seq({-1, M})
      /\ Len(Append(announced, M)) = Len(announced) + 1
      /\ Len(announced) \in Nat
      /\ Append(announced, M)[Len(announced) + 1] = M
      /\ \A i \in 1 .. Len(announced) : Append(announced, M)[i] = announced[i]
  <2>1. announced \in Seq({-1, M}) /\ M \in {-1, M}
    BY <1>0 DEF TypeOK
  <2> QED
    BY <2>1, AppendFacts
<1>5. TypeOK'
  BY <1>0, <1>1, <1>2, <1>4 DEF TypeOK
<1>6. HostsInOrder'
  BY <1>0, <1>1, <1>2 DEF HostsInOrder, TypeOK
<1>7. ConnectLoops'
  <2>1. simPc' \in [SimRank -> {"connect", "asked", "barrier"}]
        /\ simPc'[s] = "barrier"
        /\ \A r \in SimRank : r # s => simPc'[r] = simPc[r]
    BY <1>0, <1>1, <1>2 DEF TypeOK
  <2> QED
    BY <2>1, <1>0, <1>2, <1>3 DEF ConnectLoops
<1>8. ExpectAll'
  <2>1. /\ nexpected'[0] \in {-1, M}
        /\ \A c \in OtherClientRank : nexpected'[c] = nexpected[c]
    BY <1>0, <1>2 DEF ExpectAll, TypeOK, OtherClientRank
  <2>2. ASSUME acceptErrors[0] = 0
        PROVE  \A i \in 1 .. Len(announced') : announced'[i] = M
    <3>1. \A i \in 1 .. Len(announced) : announced[i] = M
      BY <2>2, <1>0 DEF ExpectAll
    <3>2. CASE announced' = Append(announced, M)
      BY <3>1, <3>2, <1>4
    <3>3. CASE announced' = announced
      BY <3>1, <3>3
    <3> QED
      BY <3>2, <3>3, <1>2
  <2>3. \A c \in ClientRank : clientPc[c] = "returned" => c # 0
    BY <1>2
  <2> QED
    BY <2>1, <2>2, <2>3, <1>0, <1>1, <1>2 DEF ExpectAll
<1> QED
  BY <1>1, <1>5, <1>6, <1>7, <1>8 DEF IInv

LEMMA AcceptOnOtherStep ==
  ASSUME IInv, NEW c \in ClientRank, AcceptOnOther(c)
  PROVE  IInv'
<1> USE RankZero
<1>0. /\ TypeOK /\ HostsInOrder /\ ConnectLoops /\ BothEnds
      /\ OneConnection /\ ExpectAll /\ OwnSockets
  BY DEF IInv
<1>1. /\ backlog' \in [ClientRank -> Seq(SimRank)]
      /\ remotes' \in [ClientRank -> Remotes]
      /\ nconnected' \in [ClientRank -> Nat]
      /\ \A d \in ClientRank : d # c => nconnected'[d] = nconnected[d]
      /\ BothEnds' /\ OneConnection' /\ OwnSockets'
  <2>1. /\ backlog[c] # <<>>
        /\ Register(c, Head(backlog[c]), Head(backlog[c]))
        /\ backlog' = [backlog EXCEPT ![c] = Tail(@)]
        /\ UNCHANGED <<simSockets, acceptErrors>>
    BY DEF AcceptOnOther, simVars
  <2> QED
    BY <2>1, TakeConnection
<1>2. /\ clientPc[c] = "accepting"
      /\ UNCHANGED <<simVars, clientPc, gatherVars, announced, nexpected,
                     acceptErrors>>
  BY DEF AcceptOnOther, Accepting
<1>3. TypeOK' /\ HostsInOrder' /\ ConnectLoops'
  BY <1>0, <1>1, <1>2
  DEF TypeOK, HostsInOrder, ConnectLoops, simVars, gatherVars
<1>4. ExpectAll'
  BY <1>0, <1>1, <1>2 DEF ExpectAll
<1> QED
  BY <1>1, <1>3, <1>4 DEF IInv

LEMMA AcceptFailsStep ==
  ASSUME IInv, NEW c \in ClientRank, AcceptFails(c)
  PROVE  IInv'
<1> USE RankZero
<1>0. /\ TypeOK /\ HostsInOrder /\ ConnectLoops /\ BothEnds
      /\ OneConnection /\ ExpectAll /\ OwnSockets
  BY DEF IInv
<1>1. /\ acceptErrors' \in [ClientRank -> 0 .. MaxAcceptErrors]
      /\ acceptErrors'[c] # 0
      /\ \A d \in ClientRank : d # c => acceptErrors'[d] = acceptErrors[d]
      /\ Register(c, 0, Failed)
      /\ UNCHANGED <<simVars, backlog, clientPc, gatherVars, nexpected>>
  <2>1. /\ acceptErrors \in [ClientRank -> 0 .. MaxAcceptErrors]
        /\ acceptErrors[c] < MaxAcceptErrors
        /\ acceptErrors' = [acceptErrors EXCEPT ![c] = @ + 1]
    BY <1>0 DEF AcceptFails, TypeOK
  <2>2. acceptErrors[c] + 1 \in 0 .. MaxAcceptErrors /\ acceptErrors[c] + 1 # 0
    BY <2>1, AcceptErrorsAssumption
  <2>3. Register(c, 0, Failed)
        /\ UNCHANGED <<simVars, backlog, clientPc, gatherVars, nexpected>>
    BY DEF AcceptFails
  <2> QED
    BY <2>1, <2>2, <2>3
<1>2. /\ remotes' \in [ClientRank -> Remotes]
      /\ nconnected' \in [ClientRank -> Nat]
      /\ DOMAIN remotes'[c] = DOMAIN remotes[c] \cup {0}
      /\ remotes'[c][0] = Failed
      /\ \A i \in DOMAIN remotes[c] : i # 0 => remotes'[c][i] = remotes[c][i]
      /\ \A d \in ClientRank : d # c =>
           remotes'[d] = remotes[d] /\ nconnected'[d] = nconnected[d]
  BY <1>0, <1>1, RegisterFacts
<1>3. announced' \in Seq({-1, M})
  <2>1. c = 0 => nexpected[0] \in {-1, M}
    BY <1>0 DEF ExpectAll
  <2>2. announced \in Seq({-1, M})
    BY <1>0 DEF TypeOK
  <2>3. c = 0 => announced' = Append(announced, nexpected[0])
    BY DEF AcceptFails, Announce
  <2>4. c # 0 => announced' = announced
    BY DEF AcceptFails
  <2> QED
    BY <2>1, <2>2, <2>3, <2>4, AppendFacts
<1>4. TypeOK'
  BY <1>0, <1>1, <1>2, <1>3 DEF TypeOK, simVars, gatherVars
<1>5. HostsInOrder' /\ ConnectLoops'
  BY <1>0, <1>1 DEF HostsInOrder, ConnectLoops, simVars, gatherVars
<1>6. BothEnds'
  BY <1>0, <1>1, <1>2 DEF BothEnds, simVars
<1>7. OneConnection'
  BY <1>0, <1>1, <1>2 DEF OneConnection, simVars
<1>8. ExpectAll'
  <2>1. CASE c = 0
    BY <2>1, <1>0, <1>1 DEF ExpectAll
  <2>2. CASE c # 0
    <3>1. acceptErrors'[0] = acceptErrors[0] /\ announced' = announced
      BY <2>2, <1>1 DEF AcceptFails
    <3>2. \A d \in ClientRank : clientPc[d] = "returned" => d # c
      BY DEF AcceptFails, Accepting
    <3> QED
      BY <3>1, <3>2, <1>0, <1>1, <1>2 DEF ExpectAll
  <2> QED
    BY <2>1, <2>2
<1>9. OwnSockets'
  BY <1>0, <1>1, <1>2 DEF OwnSockets
<1> QED
  BY <1>4, <1>5, <1>6, <1>7, <1>8, <1>9 DEF IInv

LEMMA FillSocketsStep ==
  ASSUME IInv, NEW c \in ClientRank, FillSockets(c)
  PROVE  IInv'
<1> USE RankZero
<1>0. /\ TypeOK /\ HostsInOrder /\ ConnectLoops /\ BothEnds
      /\ OneConnection /\ ExpectAll /\ OwnSockets
  BY DEF IInv
<1>1. /\ clientPc[c] = "accepting" /\ nconnected[c] = nexpected[c]
      /\ clientPc' = [clientPc EXCEPT ![c] = "returned"]
      /\ UNCHANGED <<simVars, backlog, gatherVars, announced, acceptVars,
                     acceptErrors>>
  BY DEF FillSockets
<1>2. TypeOK' /\ HostsInOrder'
  BY <1>0, <1>1
  DEF TypeOK, HostsInOrder, simVars, gatherVars, acceptVars
<1>3. ConnectLoops' /\ BothEnds' /\ OneConnection' /\ OwnSockets'
  BY <1>0, <1>1 DEF ConnectLoops, BothEnds, OneConnection, OwnSockets,
                    simVars, acceptVars
<1>4. ExpectAll'
  <2>1. acceptErrors[0] = 0 => nconnected[c] = M
    <3>1. nconnected[c] \in Nat
      BY <1>0 DEF TypeOK
    <3>2. acceptErrors[0] = 0 => nexpected[c] \in {-1, M}
      BY <1>0, <1>1 DEF ExpectAll, OtherClientRank
    <3> QED
      BY <3>1, <3>2, <1>1
  <2> QED
    BY <2>1, <1>0, <1>1 DEF ExpectAll, TypeOK, acceptVars
<1> QED
  BY <1>2, <1>3, <1>4 DEF IInv

-----------------------------------------------------------------------------
(***************************************************************************)
(* The theorems.                                                           *)
(***************************************************************************)

LEMMA NextIInv == IInv /\ [Next]_vars => IInv'
<1> SUFFICES ASSUME IInv, [Next]_vars PROVE IInv'
  OBVIOUS
<1>1. ASSUME NEW s \in SimRank, SimNext(s) PROVE IInv'
  BY <1>1, ConnectToRootStep, ConnectToOtherStep DEF SimNext
<1>2. CASE Barrier
  BY <1>2, BarrierStep
<1>3. ASSUME NEW c \in ClientRank, ClientNext(c) PROVE IInv'
  BY <1>3, GatherStep, AcceptOnRootStep, AcceptOnOtherStep, FillSocketsStep
  DEF ClientNext
<1>4. ASSUME NEW c \in ClientRank, AcceptFails(c) PROVE IInv'
  BY <1>4, AcceptFailsStep
<1>5. CASE UNCHANGED vars
  BY <1>5 DEF vars, simVars, gatherVars, acceptVars, IInv, TypeOK,
     HostsInOrder, ConnectLoops, BothEnds, OneConnection, ExpectAll, OwnSockets
<1> QED
  BY <1>1, <1>2, <1>3, <1>4, <1>5 DEF Next

LEMMA SetupInvariant == Spec => []IInv
BY InitIInv, NextIInv, PTL DEF Spec

(* Type correctness of the socket set-up.                                  *)
THEOREM SetupTypeCorrect == Spec => []TypeOK
<1>1. IInv => TypeOK
  BY DEF IInv
<1> QED
  BY <1>1, SetupInvariant, PTL

-----------------------------------------------------------------------------
(* The first loop: the connections that wait for client rank 0 are those   *)
(* of different ranks, which wait for its answer and are in the window.    *)
RootQueue ==
  /\ IsInjective(backlog[0])
  /\ \A s \in Range(backlog[0]) : simPc[s] = "asked"
  /\ \A s \in SimRank : simPc[s] = "asked" => phase = 1 /\ InWindow(s)

LEMMA RootQueueInitially == Init => RootQueue
BY RankZero DEF Init, RootQueue, IsInjective, Range

LEMMA RootQueueKept == IInv /\ RootQueue /\ [Next]_vars => RootQueue'
<1> SUFFICES ASSUME IInv, RootQueue, [Next]_vars PROVE RootQueue'
  OBVIOUS
<1> USE RankZero
<1>0. /\ backlog \in [ClientRank -> Seq(SimRank)] /\ backlog[0] \in Seq(SimRank)
      /\ simPc \in [SimRank -> {"connect", "asked", "barrier"}]
      /\ IInv => TypeOK /\ ConnectLoops
  BY DEF IInv, TypeOK
<1>1. ASSUME UNCHANGED <<backlog, simPc, phase, round>> PROVE RootQueue'
  BY <1>1 DEF RootQueue, InWindow
<1>2. ASSUME NEW s \in SimRank, ConnectToRoot(s) PROVE RootQueue'
  <2>1. /\ phase = 1 /\ InWindow(s) /\ simPc[s] = "connect"
        /\ backlog'[0] = Append(backlog[0], s)
        /\ simPc' = [simPc EXCEPT ![s] = "asked"] /\ UNCHANGED <<phase, round>>
    BY <1>0, <1>2 DEF ConnectToRoot
  <2>2. s \notin Range(backlog[0])
    BY <2>1 DEF RootQueue
  <2>3. IsInjective(backlog'[0]) /\ Range(backlog'[0]) = Range(backlog[0]) \cup {s}
    BY <1>0, <2>1, <2>2, AppendRange DEF RootQueue
  <2>4. \A r \in Range(backlog'[0]) : simPc'[r] = "asked"
    <3>1. Range(backlog[0]) \subseteq SimRank
      BY <1>0 DEF Range
    <3> QED
      BY <1>0, <2>1, <2>3, <3>1 DEF RootQueue
  <2>5. \A r \in SimRank : simPc'[r] = "asked" => phase' = 1 /\ InWindow(r)'
    BY <1>0, <2>1 DEF RootQueue, InWindow
  <2> QED
    BY <2>3, <2>4, <2>5 DEF RootQueue
<1>3. ASSUME NEW s \in SimRank, ConnectToOther(s) PROVE RootQueue'
  <2>1. remoteHosts[s] \in Seq(OtherClientRank)
    BY <1>0 DEF IInv, TypeOK
  <2>2. backlog'[0] = backlog[0]
    <3> DEFINE c == remoteHosts[s][NextHost(s)]
    <3>1. NextHost(s) \in DOMAIN remoteHosts[s]
          /\ backlog' = [backlog EXCEPT ![c] = Append(@, s)]
      BY <1>3 DEF ConnectToOther
    <3>2. c \in OtherClientRank
      BY <2>1, <3>1
    <3> QED
      BY <1>0, <3>1, <3>2 DEF OtherClientRank
  <2> QED
    BY <1>3, <2>2 DEF ConnectToOther, RootQueue, InWindow
<1>4. CASE Barrier
  <2>1. \A s \in SimRank : simPc[s] # "asked"
    BY <1>4 DEF Barrier, AtBarrier, RootQueue
  <2> QED
    BY <1>4, <2>1 DEF Barrier, RootQueue
<1>5. CASE AcceptOnRoot
  <2> DEFINE s == Head(backlog[0])
  <2>1. /\ backlog[0] # <<>> /\ backlog'[0] = Tail(backlog[0])
        /\ simPc' = [simPc EXCEPT ![s] = "barrier"] /\ UNCHANGED <<phase, round>>
    BY <1>0, <1>5 DEF AcceptOnRoot
  <2>2. /\ IsInjective(Tail(backlog[0])) /\ s \notin Range(Tail(backlog[0]))
        /\ Range(Tail(backlog[0])) \subseteq Range(backlog[0])
        /\ Range(backlog[0]) \subseteq SimRank /\ s \in SimRank
    BY <1>0, <2>1, TailRange DEF RootQueue
  <2>3. \A r \in Range(backlog'[0]) : simPc'[r] = "asked"
    BY <1>0, <2>1, <2>2 DEF RootQueue
  <2>4. \A r \in SimRank : simPc'[r] = "asked" => phase' = 1 /\ InWindow(r)'
    BY <1>0, <2>1, <2>2 DEF RootQueue, InWindow
  <2> QED
    BY <2>1, <2>2, <2>3, <2>4 DEF RootQueue
<1>6. ASSUME NEW c \in ClientRank, AcceptOnOther(c) PROVE RootQueue'
  <2>1. backlog'[0] = backlog[0] /\ UNCHANGED <<simPc, phase, round>>
    BY <1>0, <1>6 DEF AcceptOnOther, simVars
  <2> QED
    BY <2>1 DEF RootQueue, InWindow
<1>7. ASSUME NEW c \in ClientRank,
             \/ PostHost(c) \/ \E d \in OtherClientRank : CollectHost(d)
             \/ StartAccepting \/ LearnExpected(c) \/ FillSockets(c)
             \/ AcceptFails(c)
      PROVE  RootQueue'
  BY <1>1, <1>7 DEF PostHost, CollectHost, StartAccepting, LearnExpected,
     FillSockets, AcceptFails, simVars
<1>8. CASE UNCHANGED vars
  BY <1>1, <1>8 DEF vars, simVars
<1> QED
  BY <1>2, <1>3, <1>4, <1>5, <1>6, <1>7, <1>8 DEF Next, SimNext, ClientNext

(* The windows of the first loop keep the backlog of client rank 0 within  *)
(* its limit: every rank of a window finds room in it.                     *)
THEOREM WindowsLimitRoot == Spec => []RootNotFlooded
<1>1. ASSUME IInv, RootQueue PROVE RootNotFlooded
  <2> SUFFICES ASSUME NEW s \in SimRank, phase = 1, InWindow(s), simPc[s] = "connect"
               PROVE  HasRoom(0)
    BY DEF RootNotFlooded
  <2> DEFINE lo == round * Window
             hi == lo + Window - 1
             q  == backlog[0]
  <2>1. q \in Seq(SimRank) /\ round \in Nat /\ Window \in Nat \ {0}
    BY <1>1, RankZero, WindowAssumption DEF IInv, TypeOK
  <2>2. lo \in Nat /\ hi \in Int /\ (round + 1) * Window = lo + Window
    BY <2>1
  <2> HIDE DEF lo, q
  <2>3. \A r \in SimRank : InWindow(r) <=> r \in lo .. hi
    BY <2>1, <2>2, SetupSizes DEF InWindow, SimRank, lo
  <2>4. \A i \in 1 .. Len(q) : q[i] \in (lo .. hi) \ {s}
    <3> SUFFICES ASSUME NEW i \in 1 .. Len(q) PROVE q[i] \in (lo .. hi) \ {s}
      OBVIOUS
    <3>1. q[i] \in SimRank /\ q[i] \in Range(q)
      BY <2>1 DEF Range
    <3>2. simPc[q[i]] = "asked"
      BY <1>1, <3>1 DEF RootQueue, q
    <3> QED
      BY <1>1, <2>3, <3>1, <3>2 DEF RootQueue
  <2>5. q \in Injection(1 .. Len(q), (lo .. hi) \ {s})
    <3>1. q \in [1 .. Len(q) -> (lo .. hi) \ {s}]
      BY <2>1, <2>4
    <3>2. IsInjective(q)
      BY <1>1 DEF RootQueue, q
    <3> QED
      BY <3>1, <3>2 DEF Injection
  <2>6. IsFiniteSet(lo .. hi) /\ Cardinality(lo .. hi) = Window
    <3>1. lo \in Int /\ ~(lo > hi) /\ hi - lo + 1 = Window
      BY <2>1, <2>2
    <3> HIDE DEF hi
    <3> QED
      BY <2>2, <3>1, FS_Interval
  <2>7. s \in lo .. hi
    BY <2>3
  <2>8. IsFiniteSet((lo .. hi) \ {s}) /\ Cardinality((lo .. hi) \ {s}) = Window - 1
    BY <2>6, <2>7, FS_RemoveElement
  <2>9. Cardinality(1 .. Len(q)) <= Window - 1
    BY <2>5, <2>8, FS_Injection
  <2>10. Cardinality(1 .. Len(q)) = Len(q)
    <3>1. Len(q) \in Nat
      BY <2>1
    <3>2. Cardinality(1 .. Len(q)) = IF 1 > Len(q) THEN 0 ELSE Len(q) - 1 + 1
      BY <3>1, FS_Interval
    <3> QED
      BY <3>1, <3>2
  <2> QED
    BY <2>1, <2>9, <2>10 DEF HasRoom, q
<1>2. Spec => [](IInv /\ RootQueue)
  BY InitIInv, NextIInv, RootQueueInitially, RootQueueKept, PTL DEF Spec
<1> QED
  BY <1>1, <1>2, PTL

-----------------------------------------------------------------------------
(* Client rank 0 counts the simulation ranks it has answered, and the      *)
(* accepts that failed, alike.                                             *)
Answered == {s \in SimRank : simPc[s] = "barrier"}

RootCount ==
  /\ nconnected[0] = Cardinality(Answered) + acceptErrors[0]
  /\ clientPc[0] = "returned" => nconnected[0] = nexpected[0]

LEMMA RootCountInitially == Init => RootCount
<1>1. ASSUME Init PROVE Answered = {}
  BY <1>1 DEF Init, Answered
<1>2. ASSUME Init PROVE nconnected[0] = 0 /\ acceptErrors[0] = 0 /\ clientPc[0] = "hosts"
  BY <1>2, RankZero DEF Init
<1> QED
  BY <1>1, <1>2, FS_EmptySet DEF RootCount

LEMMA RootCountKept ==
  IInv /\ RootQueue /\ RootCount /\ [Next]_vars => RootCount'
<1> SUFFICES ASSUME IInv, RootQueue, RootCount, [Next]_vars PROVE RootCount'
  OBVIOUS
<1> USE RankZero
<1>0. /\ backlog[0] \in Seq(SimRank)
      /\ simPc \in [SimRank -> {"connect", "asked", "barrier"}]
      /\ nexpected \in [ClientRank -> {-1, 0, M}]
      /\ nconnected \in [ClientRank -> Nat]
      /\ acceptErrors \in [ClientRank -> 0 .. MaxAcceptErrors]
      /\ clientPc \in
           [ClientRank -> {"hosts", "waiting", "accepting", "returned"}]
      /\ clientPc[0] # "waiting"
  BY DEF IInv, TypeOK, HostsInOrder
<1>1. IsFiniteSet(Answered) /\ Cardinality(Answered) \in Nat
  <2>1. IsFiniteSet(SimRank) /\ Answered \subseteq SimRank
    BY FS_Interval, SetupSizes DEF SimRank, Answered
  <2> QED
    BY <2>1, FS_Subset, FS_CardinalityType
<1>2. ASSUME UNCHANGED <<simPc, nconnected, acceptErrors, clientPc, nexpected>>
      PROVE  RootCount'
  BY <1>2 DEF RootCount, Answered
<1>3. ASSUME NEW s \in SimRank, ConnectToRoot(s) PROVE RootCount'
  <2>1. Answered' = Answered
    BY <1>0, <1>3 DEF ConnectToRoot, Answered
  <2> QED
    BY <1>3, <2>1 DEF ConnectToRoot, acceptVars, RootCount
<1>4. CASE AcceptOnRoot
  <2> DEFINE s == Head(backlog[0])
  <2>1. /\ backlog[0] # <<>> /\ clientPc[0] = "accepting"
        /\ simPc' = [simPc EXCEPT ![s] = "barrier"]
        /\ nconnected' = [nconnected EXCEPT ![0] = @ + 1]
        /\ UNCHANGED <<clientPc, acceptErrors>>
    BY <1>4 DEF AcceptOnRoot, Accepting, Register
  <2>2. s \in SimRank /\ simPc[s] = "asked"
    BY <1>0, <2>1, TailRange DEF RootQueue
  <2> HIDE DEF s
  <2>3. Answered' = Answered \cup {s} /\ s \notin Answered
    BY <1>0, <2>1, <2>2 DEF Answered
  <2>4. Cardinality(Answered') = Cardinality(Answered) + 1
    BY <1>1, <2>3, FS_AddElement
  <2>5. nconnected'[0] = nconnected[0] + 1 /\ clientPc'[0] # "returned"
    BY <1>0, <2>1
  <2>6. acceptErrors[0] \in Nat /\ nconnected[0] = Cardinality(Answered) + acceptErrors[0]
    BY <1>0 DEF RootCount
  <2>7. nconnected'[0] = Cardinality(Answered') + acceptErrors'[0]
    BY <1>1, <2>1, <2>4, <2>5, <2>6
  <2> QED
    BY <2>5, <2>7 DEF RootCount
<1>5. ASSUME NEW c \in ClientRank, c # 0, Accepting(c),
             nconnected' = [nconnected EXCEPT ![c] = @ + 1],
             acceptErrors'[0] = acceptErrors[0],
             UNCHANGED <<simPc, clientPc, nexpected>>
      PROVE  RootCount'
  <2>1. nconnected'[0] = nconnected[0] /\ Answered' = Answered
    BY <1>0, <1>5 DEF Answered
  <2> QED
    BY <1>5, <2>1 DEF RootCount
<1>6. ASSUME NEW c \in ClientRank, AcceptOnOther(c) PROVE RootCount'
  <2>1. /\ c # 0 /\ Accepting(c)
        /\ nconnected' = [nconnected EXCEPT ![c] = @ + 1]
        /\ acceptErrors'[0] = acceptErrors[0]
        /\ UNCHANGED <<simPc, clientPc, nexpected>>
    BY <1>6 DEF AcceptOnOther, Register, simVars
  <2> QED
    BY <2>1, <1>5
<1>7. ASSUME NEW c \in ClientRank, AcceptFails(c) PROVE RootCount'
  <2>1. /\ Accepting(c)
        /\ nconnected' = [nconnected EXCEPT ![c] = @ + 1]
        /\ acceptErrors' = [acceptErrors EXCEPT ![c] = @ + 1]
        /\ UNCHANGED <<simPc, clientPc, nexpected>>
    BY <1>7 DEF AcceptFails, Register, simVars
  <2>2. CASE c # 0
    BY <1>0, <2>1, <2>2, <1>5
  <2>3. CASE c = 0
    <3>1. /\ nconnected'[0] = nconnected[0] + 1 /\ nconnected[0] \in Nat
          /\ acceptErrors'[0] = acceptErrors[0] + 1 /\ acceptErrors[0] \in Nat
          /\ clientPc'[0] # "returned"
          /\ Answered' = Answered
      BY <1>0, <2>1, <2>3 DEF Accepting, Answered
    <3> QED
      BY <1>1, <3>1 DEF RootCount
  <2> QED
    BY <2>2, <2>3
<1>8. ASSUME NEW c \in ClientRank, LearnExpected(c) PROVE RootCount'
  <2>1. nexpected'[0] = nexpected[0] /\ clientPc'[0] = clientPc[0]
    BY <1>0, <1>8 DEF LearnExpected
  <2>2. UNCHANGED <<simPc, nconnected, acceptErrors>>
    BY <1>8 DEF LearnExpected, simVars
  <2> QED
    BY <2>1, <2>2 DEF RootCount, Answered
<1>9. ASSUME NEW c \in ClientRank,
             PostHost(c) \/ StartAccepting \/ FillSockets(c)
      PROVE  RootCount'
  <2>1. /\ clientPc'[0] = "returned" =>
             clientPc[0] = "returned" \/ nconnected[0] = nexpected[0]
        /\ UNCHANGED <<simPc, nconnected, nexpected, acceptErrors>>
    BY <1>0, <1>9
    DEF PostHost, StartAccepting, FillSockets, simVars, acceptVars
  <2> QED
    BY <2>1 DEF RootCount, Answered
<1>10. ASSUME \/ \E s \in SimRank : ConnectToOther(s)
              \/ \E d \in OtherClientRank : CollectHost(d)
              \/ Barrier \/ UNCHANGED vars
       PROVE  RootCount'
  BY <1>2, <1>10
  DEF ConnectToOther, CollectHost, Barrier, vars, simVars, acceptVars
<1> QED
  BY <1>3, <1>4, <1>6, <1>7, <1>8, <1>9, <1>10 DEF Next, SimNext, ClientNext

(* When all have returned, client rank 0 has answered all M simulation     *)
(* ranks and counted M connections: none of its accepts failed.            *)
LEMMA NoErrorOnRoot ==
  ASSUME IInv, RootCount, AllReturned
  PROVE  acceptErrors[0] = 0
<1>1. /\ clientPc[0] = "returned" /\ nexpected[0] \in {-1, M}
      /\ nconnected[0] \in Nat /\ acceptErrors[0] \in Nat
  BY RankZero DEF IInv, TypeOK, ExpectAll, AllReturned
<1>2. Answered = SimRank
  BY DEF IInv, ConnectLoops, AllReturned, Answered
<1>3. Cardinality(Answered) = M
  BY <1>2, FS_Interval, SetupSizes DEF SimRank
<1>4. nconnected[0] = nexpected[0] /\ nconnected[0] = M + acceptErrors[0]
  BY <1>1, <1>3 DEF RootCount
<1> QED
  BY <1>1, <1>4, SetupSizes

(* When connect and accept have returned on every rank, the vectors of the *)
(* simulation are right, and so is that of every client rank on which no   *)
(* accept failed, and always that of rank 0: a failed accept spoils the    *)
(* sockets of its own rank alone.  A rank without a failure has counted M  *)
(* connections from different simulation ranks, so it has one from each.   *)
THEOREM VectorsAgree == Spec => []SocketsAgree
<1>1. ASSUME IInv, RootCount, AllReturned,
             NEW s \in SimRank, NEW c \in ClientRank
      PROVE  /\ Len(simSockets[s]) = N
             /\ simSockets[s][c + 1] = c
  <2>1. ConnectLoops /\ phase = 3
    BY <1>1 DEF IInv, AllReturned
  <2>2. Len(simSockets[s]) = N
    BY <2>1 DEF ConnectLoops
  <2>3. c \in Int /\ c + 1 \in 1 .. N
    BY SetupSizes DEF ClientRank
  <2>4. simSockets[s][c + 1] = (c + 1) - 1
    BY <2>1, <2>2, <2>3 DEF ConnectLoops
  <2> QED
    BY <2>2, <2>3, <2>4
<1>2. ASSUME IInv, RootCount, AllReturned,
             NEW s \in SimRank, NEW c \in ClientRank, acceptErrors[c] = 0
      PROVE  DOMAIN ClientSockets(c) = SimRank /\ ClientSockets(c)[s] = s
  <2>1. /\ TypeOK /\ OneConnection /\ ExpectAll /\ OwnSockets
        /\ clientPc[c] = "returned" /\ acceptErrors[0] = 0
    BY <1>2, NoErrorOnRoot DEF IInv, AllReturned
  <2>2. Cardinality(DOMAIN remotes[c]) = M
    BY <1>2, <2>1 DEF OneConnection, ExpectAll
  <2>3. DOMAIN remotes[c] = SimRank
    <3>1. IsFiniteSet(SimRank) /\ Cardinality(SimRank) = M
      BY FS_Interval, SetupSizes DEF SimRank
    <3>2. DOMAIN remotes[c] \in SUBSET SimRank
      BY <2>1, RemotesFinite
    <3> QED
      BY <3>1, <3>2, <2>2, FS_Subset
  <2>4. DOMAIN ClientSockets(c) = SimRank
    BY <2>2 DEF ClientSockets, SimRank
  <2>5. ClientSockets(c)[s] = remotes[c][s]
    BY <2>2, <2>3 DEF ClientSockets, SimRank
  <2>6. remotes[c][s] = s
    BY <1>2, <2>1, <2>3 DEF OwnSockets
  <2> QED
    BY <2>4, <2>5, <2>6
<1>3. IInv /\ RootCount => SocketsAgree
  BY <1>1, <1>2, NoErrorOnRoot DEF SocketsAgree
<1>4. Spec => [](IInv /\ RootQueue /\ RootCount)
  BY InitIInv, NextIInv, RootQueueInitially, RootQueueKept,
     RootCountInitially, RootCountKept, PTL DEF Spec
<1> QED
  BY <1>3, <1>4, PTL
=============================================================================
