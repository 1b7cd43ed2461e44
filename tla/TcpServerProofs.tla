--------------------------- MODULE TcpServerProofs ---------------------------
(***************************************************************************)
(* Proofs about TcpServer and its Acceptor for any table of descriptors    *)
(* and any number of peers.                                                *)
(***************************************************************************)
EXTENDS TcpServer, TLAPS

\* The functors of the batch that have not run yet.
Unrun == {functors[i] : i \in {j \in DOMAIN functors : j > ran}}

\* Every number in a name, every accepted descriptor and every request in the
\* backlog is a request of a peer of its own.
CountInv ==
    next_conn_id_ + backlog + (IF conn_fd = None THEN 0 ELSE 1) <= peers + 1

\* What owner says about the locals of handle_read_once and about the connections.
OwnerInv ==
    /\ conn_fd # None <=> pc = "test"
    /\ conn_fd # None => owner[conn_fd] = "accepted"
    /\ \A f \in Fds : owner[f] = "accepted" => conn_fd = f
    /\ \A f \in Fds : owner[f] = "connection" <=> state_[f] # "none"

\* Between the close of idle_fd_ and the next store into it its value is stale and
\* nothing is in reserve.
Stale == pc \in {"accept_idle", "reopen_idle"}

\* There is a place for the reserve as long as no other thread has taken it.
IdleInv ==
    /\ \A f \in Fds : owner[f] = "idle" => ~Stale /\ idle_fd_ = f
    /\ ~Stale /\ idle_fd_ # None => owner[idle_fd_] = "idle"
    /\ ~stolen => \/ Stale /\ FreeFds # {}
                  \/ ~Stale /\ idle_fd_ # None
                  \/ pc = "drop_idle" /\ FreeFds # {}

\* A connection is in connections_ under its own name while its channel is enabled,
\* then in one of the queues, then only the batch and the user have it.
ConnInv ==
    /\ \A f \in Fds : f \in registered <=> state_[f] = "Connected"
    /\ \A i \in Ids : connections_[i] # None =>
           i < next_conn_id_ /\ connections_[i] \in enabled /\ name_[connections_[i]] = i
    /\ \A f \in enabled : state_[f] = "Connected" /\ name_[f] \in Ids /\ connections_[name_[f]] = f
    /\ due \subseteq enabled \cup {AcceptChannel}
    /\ \A f \in Fds : state_[f] = "Connected" => f \in enabled \cup Elements(pending) \cup Unrun
    /\ \A f \in Fds : state_[f] = "Disconnected" => f \in Elements(functors) \cup held

\* A connection waits for connect_destoryed once, in one of the queues.
QueueInv ==
    /\ pc = "functors" => pending = <<>>
    /\ pc \notin {"functors", "crashed"} => functors = <<>> /\ ran = 0
    /\ ran <= Len(functors)
    /\ \A i, j \in DOMAIN pending : pending[i] = pending[j] => i = j
    /\ \A i, j \in DOMAIN functors : functors[i] = functors[j] => i = j
    /\ \A f \in Elements(pending) \cup Unrun : state_[f] = "Connected" /\ f \notin enabled

IInv ==
    TypeOK /\ CountInv /\ OwnerInv /\ IdleInv /\ ConnInv /\ QueueInv /\ FailsOnlyForPool

-----------------------------------------------------------------------------
(* Sequences *)

\* The elements of a sequence after push_back.
LEMMA AppendElements ==
    ASSUME NEW S, NEW s \in Seq(S), NEW e \in S
    PROVE  Elements(Append(s, e)) = Elements(s) \cup {e}
<1>1. /\ DOMAIN s = 1..Len(s) /\ Len(s) \in Nat
      /\ DOMAIN Append(s, e) = 1..(Len(s) + 1)
      /\ Append(s, e)[Len(s) + 1] = e
      /\ \A i \in 1..Len(s) : Append(s, e)[i] = s[i]
    OBVIOUS
<1>2. Elements(s) \cup {e} \subseteq Elements(Append(s, e))
    BY <1>1 DEF Elements
<1>3. Elements(Append(s, e)) \subseteq Elements(s) \cup {e}
    BY <1>1 DEF Elements
<1> QED BY <1>2, <1>3

\* The empty queue has no elements.
LEMMA EmptyElements == Elements(<<>>) = {}
BY DEF Elements

-----------------------------------------------------------------------------
(* The invariant holds initially *)

\* The state after construction satisfies the invariant.
LEMMA InitEstablishes == Init => IInv
<1> SUFFICES ASSUME Init PROVE IInv OBVIOUS
<1> USE AcceptorAssumption DEF Init, AcceptorInit
<1>1. TypeOK
  <2>1. /\ listenning_ \in BOOLEAN /\ doomed \in BOOLEAN /\ stolen \in BOOLEAN
        /\ started_ \in BOOLEAN
      BY Zenon
  <2>2. owner \in [Fds -> Owners] BY DEF Owners
  <2>3. state_ \in [Fds -> ConnStates] BY DEF ConnStates
  <2>4. name_ \in [Fds -> 0..MaxPeers] OBVIOUS
  <2>5. connections_ \in [Ids -> Fds \cup {None}] OBVIOUS
  <2>6. pending \in Seq(Fds) /\ functors \in Seq(Fds) OBVIOUS
  <2> QED BY <2>1, <2>2, <2>3, <2>4, <2>5, <2>6 DEF TypeOK
<1>2. CountInv BY DEF CountInv
<1>3. OwnerInv BY DEF OwnerInv
<1>4. IdleInv BY DEF IdleInv, Stale
<1>5. ConnInv BY DEF ConnInv
<1>6. QueueInv BY DEF QueueInv, Unrun, Elements
<1>7. FailsOnlyForPool BY DEF FailsOnlyForPool
<1> QED BY <1>1, <1>2, <1>3, <1>4, <1>5, <1>6, <1>7 DEF IInv

-----------------------------------------------------------------------------
(* handle_read_once *)

\* A step that leaves the connections and the queues alone disturbs neither of their
\* invariants, as long as it does not enter or leave the batch.
LEMMA ConnectionsKept ==
    ASSUME ConnInv, QueueInv, FailsOnlyForPool,
           UNCHANGED <<num_threads_, connVars, loopVars>>,
           pc \notin {"functors", "crashed"} \/ pc' = pc,
           pc' \notin {"functors", "crashed"} \/ pc' = pc
    PROVE  ConnInv' /\ QueueInv' /\ FailsOnlyForPool'
<1> USE DEF connVars, loopVars
<1>1. Unrun' = Unrun BY DEF Unrun
<1>2. ConnInv' BY <1>1 DEF ConnInv, Elements
<1>3. QueueInv' BY <1>1 DEF QueueInv, Elements
<1>4. FailsOnlyForPool' BY DEF FailsOnlyForPool
<1> QED BY <1>2, <1>3, <1>4

\* ::accept, with and without success.
LEMMA AcceptPreserves ==
    ASSUME IInv, accept, UNCHANGED <<started_, num_threads_, connVars, loopVars>>
    PROVE  IInv'
<1> USE AcceptorAssumption DEF accept, Goto
<1>0. TypeOK /\ CountInv /\ OwnerInv /\ IdleInv BY DEF IInv
<1>1. ConnInv' /\ QueueInv' /\ FailsOnlyForPool'
    BY ConnectionsKept DEF IInv, accept_one, accept_full, accept_error, accept_fatal
<1>2. CASE accept_one
  <2>1. PICK f \in FreeFds : owner' = [owner EXCEPT ![f] = "accepted"] /\ conn_fd' = f
      BY <1>2 DEF accept_one, Open
  <2>2. f \in Fds /\ owner[f] = "free" /\ f # None BY <2>1 DEF FreeFds
  <2>3. TypeOK'
    <3>1. owner' \in [Fds -> Owners] BY <1>0, <2>1, <2>2 DEF TypeOK, Owners
    <3>2. backlog' \in 0..MaxPeers BY <1>0, <1>2 DEF TypeOK, accept_one
    <3> QED BY <1>0, <1>2, <2>1, <2>2, <3>1, <3>2 DEF TypeOK, accept_one, AcceptSteps, connVars, loopVars
  <2>4. CountInv' BY <1>0, <1>2, <2>1, <2>2 DEF CountInv, OwnerInv, TypeOK, accept_one, connVars
  <2>5. OwnerInv' BY <1>0, <1>2, <2>1, <2>2 DEF OwnerInv, TypeOK, accept_one, connVars
  <2>6. IdleInv' BY <1>0, <1>2, <2>1, <2>2 DEF IdleInv, Stale, TypeOK, accept_one
  <2> QED BY <1>1, <2>3, <2>4, <2>5, <2>6 DEF IInv
<1>3. CASE accept_full
  <2>1. TypeOK' BY <1>0, <1>3 DEF TypeOK, accept_full, AcceptSteps, connVars, loopVars
  <2>2. CountInv' /\ OwnerInv' BY <1>0, <1>3 DEF CountInv, OwnerInv, accept_full, connVars
  <2>3. IdleInv' BY <1>0, <1>3 DEF IdleInv, Stale, FreeFds, accept_full
  <2> QED BY <1>1, <2>1, <2>2, <2>3 DEF IInv
<1>4. CASE accept_error
  <2>1. TypeOK' BY <1>0, <1>4 DEF TypeOK, accept_error, AcceptSteps, connVars, loopVars
  <2>2. CountInv' /\ OwnerInv'
      BY <1>0, <1>4 DEF TypeOK, CountInv, OwnerInv, accept_error, connVars
  <2>3. IdleInv' BY <1>0, <1>4 DEF IdleInv, Stale, FreeFds, accept_error
  <2> QED BY <1>1, <2>1, <2>2, <2>3 DEF IInv
<1>5. CASE accept_fatal
  <2>1. TypeOK'
    <3>1. doomed' \in BOOLEAN BY <1>5, Zenon DEF accept_fatal
    <3> QED BY <1>0, <1>5, <3>1 DEF TypeOK, accept_fatal, AcceptSteps, connVars, loopVars
  <2>2. CountInv' /\ OwnerInv' BY <1>0, <1>5 DEF CountInv, OwnerInv, accept_fatal, connVars
  <2>3. IdleInv' BY <1>0, <1>5 DEF IdleInv, Stale, FreeFds, accept_fatal
  <2> QED BY <1>1, <2>1, <2>2, <2>3 DEF IInv
<1> QED BY <1>2, <1>3, <1>4, <1>5

\* The connection the poll test rejects is closed again.
LEMMA TestFailedPreserves ==
    ASSUME IInv, test_failed, UNCHANGED <<started_, num_threads_, connVars, loopVars>>
    PROVE  IInv'
<1> USE AcceptorAssumption DEF test_failed, Goto, Close
<1>0. TypeOK /\ CountInv /\ OwnerInv /\ IdleInv BY DEF IInv
<1>1. ConnInv' /\ QueueInv' /\ FailsOnlyForPool' BY ConnectionsKept DEF IInv
<1>2. TypeOK'
  <2>1. owner' \in [Fds -> Owners] BY <1>0 DEF TypeOK, Owners
  <2> QED BY <1>0, <2>1 DEF TypeOK, connVars, loopVars
<1>3. CountInv' BY <1>0 DEF TypeOK, CountInv, connVars
<1>4. OwnerInv' BY <1>0 DEF TypeOK, OwnerInv, connVars
<1>5. IdleInv' BY <1>0 DEF TypeOK, IdleInv, OwnerInv, Stale, FreeFds
<1> QED BY <1>1, <1>2, <1>3, <1>4, <1>5 DEF IInv

\* The reserve is closed: it is there, or another thread has had its place before.
LEMMA CloseIdlePreserves ==
    ASSUME IInv, close_idle, UNCHANGED <<started_, num_threads_, connVars, loopVars>>
    PROVE  IInv'
<1> USE AcceptorAssumption DEF close_idle, Goto, Close
<1>0. TypeOK /\ CountInv /\ OwnerInv /\ IdleInv BY DEF IInv
<1>1. ConnInv' /\ QueueInv' /\ FailsOnlyForPool' BY ConnectionsKept DEF IInv
<1>2. TypeOK'
  <2>1. owner' \in [Fds -> Owners] BY <1>0 DEF TypeOK, Owners
  <2> QED BY <1>0, <2>1 DEF TypeOK, AcceptSteps, connVars, loopVars
<1>3. CountInv' BY <1>0 DEF TypeOK, CountInv, connVars
<1>4. OwnerInv' BY <1>0 DEF TypeOK, OwnerInv, IdleInv, Stale, connVars
<1>5. IdleInv' BY <1>0 DEF TypeOK, IdleInv, Stale, FreeFds
<1> QED BY <1>1, <1>2, <1>3, <1>4, <1>5 DEF IInv

\* Its number, or another free one, takes the request that could not be accepted.
LEMMA AcceptIdlePreserves ==
    ASSUME IInv, accept_idle, UNCHANGED <<started_, num_threads_, connVars, loopVars>>
    PROVE  IInv'
<1> USE AcceptorAssumption DEF accept_idle, Goto
<1>0. TypeOK /\ CountInv /\ OwnerInv /\ IdleInv BY DEF IInv
<1>1. ConnInv' /\ QueueInv' /\ FailsOnlyForPool' BY ConnectionsKept DEF IInv
<1>2. CASE FreeFds = {} \/ backlog = 0
  <2>1. idle_fd_' = None /\ UNCHANGED <<owner, backlog>> BY <1>2
  <2>2. TypeOK' BY <1>0, <2>1 DEF TypeOK, AcceptSteps, connVars, loopVars
  <2>3. CountInv' /\ OwnerInv' BY <1>0, <2>1 DEF CountInv, OwnerInv, connVars
  <2>4. IdleInv' BY <1>0, <2>1 DEF IdleInv, Stale, FreeFds
  <2> QED BY <1>1, <2>2, <2>3, <2>4 DEF IInv
<1>3. CASE ~(FreeFds = {} \/ backlog = 0)
  <2>1. PICK f \in FreeFds : owner' = [owner EXCEPT ![f] = "idle"] /\ idle_fd_' = f
      BY <1>3 DEF Open
  <2>2. f \in Fds /\ owner[f] = "free" /\ f # None BY <2>1 DEF FreeFds
  <2>3. backlog' = backlog - 1 /\ backlog # 0 BY <1>3
  <2>4. TypeOK'
    <3>1. owner' \in [Fds -> Owners] BY <1>0, <2>1, <2>2 DEF TypeOK, Owners
    <3>2. backlog' \in 0..MaxPeers BY <1>0, <2>3 DEF TypeOK
    <3> QED BY <1>0, <2>1, <2>2, <3>1, <3>2 DEF TypeOK, AcceptSteps, connVars, loopVars
  <2>5. CountInv' BY <1>0, <2>3 DEF TypeOK, CountInv, connVars
  <2>6. OwnerInv' BY <1>0, <2>1, <2>2 DEF TypeOK, OwnerInv, connVars
  <2>7. IdleInv' BY <1>0, <2>1, <2>2 DEF TypeOK, IdleInv, Stale
  <2> QED BY <1>1, <2>4, <2>5, <2>6, <2>7 DEF IInv
<1> QED BY <1>2, <1>3

\* The request is dropped.
LEMMA DropIdlePreserves ==
    ASSUME IInv, drop_idle, UNCHANGED <<started_, num_threads_, connVars, loopVars>>
    PROVE  IInv'
<1> USE AcceptorAssumption DEF drop_idle, Goto, Close
<1>0. TypeOK /\ CountInv /\ OwnerInv /\ IdleInv BY DEF IInv
<1>1. ConnInv' /\ QueueInv' /\ FailsOnlyForPool' BY ConnectionsKept DEF IInv
<1>2. TypeOK'
  <2>1. owner' \in [Fds -> Owners] BY <1>0 DEF TypeOK, Owners
  <2> QED BY <1>0, <2>1 DEF TypeOK, AcceptSteps, connVars, loopVars
<1>3. CountInv' BY <1>0 DEF TypeOK, CountInv, connVars
<1>4. OwnerInv' BY <1>0 DEF TypeOK, OwnerInv, IdleInv, Stale, connVars
<1>5. IdleInv' BY <1>0 DEF TypeOK, IdleInv, Stale, FreeFds
<1> QED BY <1>1, <1>2, <1>3, <1>4, <1>5 DEF IInv

\* The reserve is opened again.
LEMMA ReopenIdlePreserves ==
    ASSUME IInv, reopen_idle, UNCHANGED <<started_, num_threads_, connVars, loopVars>>
    PROVE  IInv'
<1> USE AcceptorAssumption DEF reopen_idle, Goto
<1>0. TypeOK /\ CountInv /\ OwnerInv /\ IdleInv BY DEF IInv
<1>1. ConnInv' /\ QueueInv' /\ FailsOnlyForPool' BY ConnectionsKept DEF IInv
<1>2. CASE FreeFds = {}
  <2>1. idle_fd_' = None /\ UNCHANGED owner BY <1>2
  <2>2. TypeOK' BY <1>0, <2>1 DEF TypeOK, AcceptSteps, connVars, loopVars
  <2>3. CountInv' /\ OwnerInv' BY <1>0, <2>1 DEF CountInv, OwnerInv, connVars
  <2>4. IdleInv' BY <1>0, <1>2, <2>1 DEF IdleInv, Stale
  <2> QED BY <1>1, <2>2, <2>3, <2>4 DEF IInv
<1>3. CASE FreeFds # {}
  <2>1. PICK f \in FreeFds : owner' = [owner EXCEPT ![f] = "idle"] /\ idle_fd_' = f
      BY <1>3 DEF Open
  <2>2. f \in Fds /\ owner[f] = "free" /\ f # None BY <2>1 DEF FreeFds
  <2>3. TypeOK'
    <3>1. owner' \in [Fds -> Owners] BY <1>0, <2>1, <2>2 DEF TypeOK, Owners
    <3> QED BY <1>0, <2>1, <2>2, <3>1 DEF TypeOK, AcceptSteps, connVars, loopVars
  <2>4. CountInv' BY <1>0 DEF CountInv, connVars
  <2>5. OwnerInv' BY <1>0, <2>1, <2>2 DEF TypeOK, OwnerInv, connVars
  <2>6. IdleInv' BY <1>0, <2>1, <2>2 DEF TypeOK, IdleInv, Stale
  <2> QED BY <1>1, <2>3, <2>4, <2>5, <2>6 DEF IInv
<1> QED BY <1>2, <1>3

-----------------------------------------------------------------------------
(* The kernel and the rest of the process *)

\* Peers and other threads come between any two steps of the loop.
LEMMA EnvironmentPreserves == ASSUME IInv, Environment PROVE IInv'
<1> USE AcceptorAssumption DEF Environment
<1>0. TypeOK /\ CountInv /\ OwnerInv /\ IdleInv BY DEF IInv
<1>1. ConnInv' /\ QueueInv' /\ FailsOnlyForPool'
    BY ConnectionsKept DEF IInv, PeerAsks, PeerGivesUp, OtherOpens, OtherCloses
<1>2. CASE PeerAsks
  <2>1. backlog + 1 \in 0..MaxPeers BY <1>0, <1>2 DEF PeerAsks, TypeOK, CountInv
  <2>2. TypeOK' BY <1>0, <1>2, <2>1 DEF PeerAsks, TypeOK, connVars, loopVars
  <2>3. CountInv' /\ OwnerInv' /\ IdleInv'
      BY <1>0, <1>2 DEF PeerAsks, TypeOK, CountInv, OwnerInv, IdleInv, Stale, FreeFds, connVars
  <2> QED BY <1>1, <2>2, <2>3 DEF IInv
<1>3. CASE PeerGivesUp
  <2>1. TypeOK' BY <1>0, <1>3 DEF PeerGivesUp, TypeOK, connVars, loopVars
  <2>2. CountInv' /\ OwnerInv' /\ IdleInv'
      BY <1>0, <1>3 DEF PeerGivesUp, TypeOK, CountInv, OwnerInv, IdleInv, Stale, FreeFds, connVars
  <2> QED BY <1>1, <2>1, <2>2 DEF IInv
<1>4. ASSUME NEW f \in Fds, OtherOpens(f) PROVE IInv'
  <2>1. owner[f] = "free" /\ owner' = [owner EXCEPT ![f] = "other"]
      BY <1>4 DEF OtherOpens, Open, FreeFds
  <2>2. TypeOK'
    <3>1. owner' \in [Fds -> Owners] BY <1>0, <2>1 DEF TypeOK, Owners
    <3>2. stolen' \in BOOLEAN BY <1>0, <1>4 DEF OtherOpens, TypeOK
    <3> QED BY <1>0, <1>4, <3>1, <3>2 DEF OtherOpens, TypeOK, connVars, loopVars
  <2>3. CountInv' /\ OwnerInv'
      BY <1>0, <1>4, <2>1 DEF OtherOpens, TypeOK, CountInv, OwnerInv, connVars
  <2>4. IdleInv' BY <1>0, <1>4, <2>1 DEF OtherOpens, TypeOK, IdleInv, Stale
  <2> QED BY <1>1, <2>2, <2>3, <2>4 DEF IInv
<1>5. ASSUME NEW f \in Fds, OtherCloses(f) PROVE IInv'
  <2>1. owner[f] = "other" /\ owner' = [g \in Fds |-> IF g = f THEN "free" ELSE owner[g]]
      BY <1>5 DEF OtherCloses, Close
  <2>2. TypeOK'
    <3>1. owner' \in [Fds -> Owners] BY <1>0, <2>1 DEF TypeOK, Owners
    <3> QED BY <1>0, <1>5, <3>1 DEF OtherCloses, TypeOK, connVars, loopVars
  <2>3. CountInv' /\ OwnerInv'
      BY <1>0, <1>5, <2>1 DEF OtherCloses, TypeOK, CountInv, OwnerInv, connVars
  <2>4. FreeFds \subseteq FreeFds' BY <2>1 DEF FreeFds
  <2>5. IdleInv' BY <1>0, <1>5, <2>1, <2>4 DEF OtherCloses, TypeOK, IdleInv, Stale
  <2> QED BY <1>1, <2>2, <2>3, <2>5 DEF IInv
<1> QED BY <1>2, <1>3, <1>4, <1>5

-----------------------------------------------------------------------------
(* The server *)

\* start(): the program crashes if the pool is to start a thread.
LEMMA StartPreserves == ASSUME IInv, start PROVE IInv'
<1> USE DEF start, pool_start, listen, Crash, Goto, connVars
<1>0. TypeOK /\ CountInv /\ OwnerInv /\ IdleInv /\ ConnInv /\ QueueInv /\ FailsOnlyForPool
    BY DEF IInv
<1>1. TypeOK'
  <2>1. listenning_' \in BOOLEAN /\ started_' \in BOOLEAN
    <3>1. started_' \in BOOLEAN BY Zenon
    <3>2. CASE num_threads_ = 0 BY <3>1, <3>2, Zenon
    <3>3. CASE num_threads_ # 0 BY <1>0, <3>1, <3>3 DEF TypeOK
    <3> QED BY <3>2, <3>3
  <2>2. pc' \in {"poll", "events", "functors", "crashed"} BY <1>0 DEF TypeOK
  <2>3. failed' \in {None, "pool", "remove_connection", "connect_destoryed"} BY <1>0 DEF TypeOK
  <2> QED BY <1>0, <2>1, <2>2, <2>3 DEF TypeOK
<1>2. CountInv' /\ OwnerInv' BY <1>0 DEF CountInv, OwnerInv
<1>3. IdleInv' BY <1>0 DEF IdleInv, Stale, FreeFds
<1>4. Unrun' = Unrun BY DEF Unrun
<1>5. ConnInv' BY <1>0, <1>4 DEF ConnInv, Elements
<1>6. QueueInv' BY <1>0, <1>4 DEF QueueInv, Elements
<1>7. FailsOnlyForPool' BY <1>0 DEF FailsOnlyForPool, TypeOK
<1> QED BY <1>1, <1>2, <1>3, <1>5, <1>6, <1>7 DEF IInv

\* A descriptor that has been accepted is nobody else's, and its number is new.
LEMMA NewConnectionPreserves == ASSUME IInv, new_connection PROVE IInv'
<1> USE AcceptorAssumption DEF new_connection, NextId, Open, Goto, loopVars
<1>0. TypeOK /\ CountInv /\ OwnerInv /\ IdleInv /\ ConnInv /\ QueueInv /\ FailsOnlyForPool
    BY DEF IInv
<1>1. /\ conn_fd \in Fds /\ owner[conn_fd] = "accepted" /\ state_[conn_fd] = "none"
      /\ conn_fd # None
    BY <1>0 DEF OwnerInv, TypeOK
<1>2. next_conn_id_ \in Ids /\ connections_[next_conn_id_] = None
  <2>1. next_conn_id_ \in Ids BY <1>0, <1>1 DEF TypeOK, CountInv, Ids
  <2> QED BY <1>0, <2>1 DEF TypeOK, ConnInv
<1>3. TypeOK'
  <2>1. owner' \in [Fds -> Owners] BY <1>0, <1>1 DEF TypeOK, Owners
  <2>2. state_' \in [Fds -> ConnStates] BY <1>0, <1>1 DEF TypeOK, ConnStates
  <2>3. name_' \in [Fds -> 0..MaxPeers] BY <1>0, <1>1, <1>2 DEF TypeOK, Ids
  <2>4. connections_' \in [Ids -> Fds \cup {None}] BY <1>0, <1>1, <1>2 DEF TypeOK
  <2>5. next_conn_id_' \in 1..MaxPeers + 1 BY <1>2 DEF Ids
  <2> QED BY <1>0, <1>1, <2>1, <2>2, <2>3, <2>4, <2>5 DEF TypeOK
<1>4. CountInv' BY <1>0, <1>1 DEF TypeOK, CountInv
<1>5. OwnerInv' BY <1>0, <1>1 DEF TypeOK, OwnerInv
<1>6. IdleInv' BY <1>0, <1>1 DEF TypeOK, IdleInv, Stale, FreeFds
<1>7. conn_fd \notin enabled \cup Elements(pending) \cup Unrun
    BY <1>0, <1>1 DEF ConnInv, QueueInv
<1>8. Unrun' = Unrun /\ Elements(pending)' = Elements(pending) /\ Elements(functors)' = Elements(functors)
    BY DEF Unrun, Elements
<1>9. ConnInv'
  <2>1. \A f \in Fds : f \in registered' <=> state_'[f] = "Connected" BY <1>0, <1>1 DEF TypeOK, ConnInv
  <2>2. \A i \in Ids : connections_'[i] # None =>
            i < next_conn_id_' /\ connections_'[i] \in enabled' /\ name_'[connections_'[i]] = i
      BY <1>0, <1>1, <1>2, <1>7 DEF TypeOK, ConnInv, Ids
  <2>3. \A f \in enabled' : state_'[f] = "Connected" /\ name_'[f] \in Ids /\ connections_'[name_'[f]] = f
    <3> SUFFICES ASSUME NEW f \in enabled'
                 PROVE  state_'[f] = "Connected" /\ name_'[f] \in Ids /\ connections_'[name_'[f]] = f
        OBVIOUS
    <3>1. CASE f = conn_fd BY <3>1, <1>0, <1>1, <1>2 DEF TypeOK
    <3>2. CASE f # conn_fd
      <4>1. f \in enabled /\ f \in Fds /\ f # None BY <3>2, <1>0 DEF TypeOK
      <4>2. state_[f] = "Connected" /\ name_[f] \in Ids /\ connections_[name_[f]] = f
          BY <1>0, <4>1 DEF ConnInv
      <4>3. name_[f] # next_conn_id_ BY <1>2, <4>1, <4>2
      <4> QED BY <1>0, <1>2, <3>2, <4>1, <4>2, <4>3 DEF TypeOK
    <3> QED BY <3>1, <3>2
  <2>4. due' \subseteq enabled' \cup {AcceptChannel} BY <1>0 DEF ConnInv
  <2>5. \A f \in Fds : state_'[f] = "Connected" =>
            f \in enabled' \cup Elements(pending)' \cup Unrun'
      BY <1>0, <1>1, <1>8 DEF TypeOK, ConnInv
  <2>6. \A f \in Fds : state_'[f] = "Disconnected" => f \in Elements(functors)' \cup held'
      BY <1>0, <1>1, <1>8 DEF TypeOK, ConnInv
  <2> QED BY <2>1, <2>2, <2>3, <2>4, <2>5, <2>6 DEF ConnInv
<1>10. QueueInv' 
  <2>1. \A f \in Elements(pending)' \cup Unrun' : state_'[f] = "Connected" /\ f \notin enabled'
    <3>1. Elements(pending) \cup Unrun \subseteq Fds BY <1>0 DEF TypeOK, Elements, Unrun
    <3> QED BY <3>1, <1>0, <1>7, <1>8 DEF TypeOK, QueueInv
  <2> QED BY <2>1, <1>0 DEF QueueInv
<1>11. FailsOnlyForPool' BY <1>0 DEF FailsOnlyForPool
<1> QED BY <1>3, <1>4, <1>5, <1>6, <1>9, <1>10, <1>11 DEF IInv

\* Only an enabled channel is reported: the assertions of the close hold, and the
\* connection moves from connections_ to the queue.
LEMMA RemoveConnectionPreserves ==
    ASSUME IInv, NEW f \in Fds, remove_connection(f) PROVE IInv'
<1> USE AcceptorAssumption DEF remove_connection, Crash, Goto
<1>0. TypeOK /\ CountInv /\ OwnerInv /\ IdleInv /\ ConnInv /\ QueueInv /\ FailsOnlyForPool
    BY DEF IInv
<1>1. f \in enabled /\ f # None BY <1>0 DEF ConnInv, AcceptChannel
<1>2. state_[f] = "Connected" /\ name_[f] \in Ids /\ connections_[name_[f]] = f
    BY <1>0, <1>1 DEF ConnInv
<1>3. /\ enabled' = enabled \ {f}
      /\ connections_' = [connections_ EXCEPT ![name_[f]] = None]
      /\ pending' = Append(pending, f)
      /\ UNCHANGED <<pc, failed>>
    BY <1>1, <1>2
<1>4. TypeOK'
  <2>1. connections_' \in [Ids -> Fds \cup {None}] BY <1>0, <1>2, <1>3 DEF TypeOK
  <2>2. pending' \in Seq(Fds) BY <1>0, <1>3 DEF TypeOK
  <2> QED BY <1>0, <1>3, <2>1, <2>2 DEF TypeOK
<1>5. CountInv' /\ OwnerInv' BY <1>0, <1>3 DEF CountInv, OwnerInv
<1>6. IdleInv' BY <1>0, <1>3 DEF IdleInv, Stale, FreeFds
<1>7. Unrun' = Unrun /\ Elements(functors)' = Elements(functors) BY DEF Unrun, Elements
<1>8. Elements(pending)' = Elements(pending) \cup {f} BY <1>0, <1>3, AppendElements DEF TypeOK
<1>9. ConnInv'
  <2>1. \A g \in Fds : g \in registered' <=> state_'[g] = "Connected" BY <1>0 DEF ConnInv
  <2>2. \A i \in Ids : connections_'[i] # None =>
            i < next_conn_id_' /\ connections_'[i] \in enabled' /\ name_'[connections_'[i]] = i
      BY <1>0, <1>2, <1>3 DEF TypeOK, ConnInv
  <2>3. \A g \in enabled' : state_'[g] = "Connected" /\ name_'[g] \in Ids /\ connections_'[name_'[g]] = g
      BY <1>0, <1>2, <1>3 DEF TypeOK, ConnInv
  <2>4. due' \subseteq enabled' \cup {AcceptChannel} BY <1>0, <1>3 DEF ConnInv
  <2>5. \A g \in Fds : state_'[g] = "Connected" =>
            g \in enabled' \cup Elements(pending)' \cup Unrun'
      BY <1>0, <1>3, <1>7, <1>8 DEF ConnInv
  <2>6. \A g \in Fds : state_'[g] = "Disconnected" => g \in Elements(functors)' \cup held'
      BY <1>0, <1>7 DEF ConnInv
  <2> QED BY <2>1, <2>2, <2>3, <2>4, <2>5, <2>6 DEF ConnInv
<1>10. QueueInv'
  <2>1. \A g \in Elements(pending)' \cup Unrun' : state_'[g] = "Connected" /\ g \notin enabled'
      BY <1>0, <1>2, <1>3, <1>7, <1>8 DEF QueueInv
  <2>2. \A i, j \in DOMAIN pending' : pending'[i] = pending'[j] => i = j
    <3>1. f \notin Elements(pending) BY <1>0, <1>1 DEF QueueInv
    <3>2. /\ Len(pending) \in Nat /\ DOMAIN pending = 1..Len(pending)
          /\ DOMAIN pending' = 1..(Len(pending) + 1)
          /\ pending'[Len(pending) + 1] = f
          /\ \A i \in 1..Len(pending) : pending'[i] = pending[i] /\ pending[i] # f
        BY <1>0, <1>3, <3>1 DEF TypeOK, Elements
    <3> QED BY <1>0, <3>2 DEF QueueInv
  <2> QED BY <2>1, <2>2, <1>0, <1>3 DEF QueueInv
<1>11. FailsOnlyForPool' BY <1>0, <1>3 DEF FailsOnlyForPool
<1> QED BY <1>4, <1>5, <1>6, <1>9, <1>10, <1>11 DEF IInv

\* A connection is in the batch once, and connected until its functor runs.
LEMMA ConnectDestoryedPreserves ==
    ASSUME IInv, NEW f \in Fds, connect_destoryed(f) PROVE IInv'
<1> USE AcceptorAssumption DEF connect_destoryed, Runs, Crash, Goto
<1>0. TypeOK /\ CountInv /\ OwnerInv /\ IdleInv /\ ConnInv /\ QueueInv /\ FailsOnlyForPool
    BY DEF IInv
<1>1. /\ Len(functors) \in Nat /\ DOMAIN functors = 1..Len(functors) /\ ran \in Nat
      /\ ran + 1 \in DOMAIN functors /\ functors[ran + 1] = f
    BY <1>0 DEF TypeOK
<1>2. f \in Unrun /\ f \in Elements(functors) BY <1>1 DEF Unrun, Elements
<1>3. state_[f] = "Connected" /\ f \notin enabled BY <1>0, <1>2 DEF QueueInv
<1>4. /\ state_' = [state_ EXCEPT ![f] = "Disconnected"]
      /\ enabled' = enabled
      /\ registered' = registered \ {f}
      /\ UNCHANGED <<pc, failed>>
    BY <1>3
<1>5. TypeOK'
  <2>1. state_' \in [Fds -> ConnStates] BY <1>0, <1>4 DEF TypeOK, ConnStates
  <2>2. ran' \in Nat BY <1>1
  <2> QED BY <1>0, <1>4, <2>1, <2>2 DEF TypeOK
<1>6. CountInv' /\ OwnerInv' BY <1>0, <1>3, <1>4 DEF TypeOK, CountInv, OwnerInv
<1>7. IdleInv' BY <1>0, <1>4 DEF IdleInv, Stale, FreeFds
<1>8. Unrun' = Unrun \ {f}
    BY <1>0, <1>1 DEF Unrun, QueueInv
<1>9. Elements(pending)' = {} /\ Elements(functors)' = Elements(functors)
    BY <1>0, EmptyElements DEF QueueInv, Elements
<1>10. ConnInv'
  <2>1. \A g \in Fds : g \in registered' <=> state_'[g] = "Connected" BY <1>0, <1>4 DEF TypeOK, ConnInv
  <2>2. \A i \in Ids : connections_'[i] # None =>
            i < next_conn_id_' /\ connections_'[i] \in enabled' /\ name_'[connections_'[i]] = i
      BY <1>0, <1>4 DEF ConnInv
  <2>3. \A g \in enabled' : state_'[g] = "Connected" /\ name_'[g] \in Ids /\ connections_'[name_'[g]] = g
      BY <1>0, <1>3, <1>4 DEF TypeOK, ConnInv
  <2>4. due' \subseteq enabled' \cup {AcceptChannel} BY <1>0, <1>4 DEF ConnInv
  <2>5. \A g \in Fds : state_'[g] = "Connected" =>
            g \in enabled' \cup Elements(pending)' \cup Unrun'
    <3>1. Elements(pending) = {} BY <1>0, EmptyElements DEF QueueInv
    <3> QED BY <1>0, <1>4, <1>8, <1>9, <3>1 DEF TypeOK, ConnInv
  <2>6. \A g \in Fds : state_'[g] = "Disconnected" => g \in Elements(functors)' \cup held'
      BY <1>0, <1>2, <1>4, <1>9 DEF TypeOK, ConnInv
  <2> QED BY <2>1, <2>2, <2>3, <2>4, <2>5, <2>6 DEF ConnInv
<1>11. QueueInv'
  <2>1. Unrun \subseteq Fds BY <1>0 DEF TypeOK, Unrun
  <2>2. \A g \in Elements(pending)' \cup Unrun' : state_'[g] = "Connected" /\ g \notin enabled'
      BY <1>0, <1>4, <1>8, <1>9, <2>1 DEF TypeOK, QueueInv
  <2>3. ran' <= Len(functors) BY <1>1
  <2> QED BY <2>2, <2>3, <1>0, <1>4 DEF QueueInv
<1>12. FailsOnlyForPool' BY <1>0, <1>4 DEF FailsOnlyForPool
<1> QED BY <1>5, <1>6, <1>7, <1>10, <1>11, <1>12 DEF IInv

\* ~TcpConnection runs for connections that are down only: one that is up has a
\* pointer in connections_ or in a queue.
LEMMA DestructedAreDown ==
    ASSUME TypeOK, ConnInv, QueueInv, Destruct,
           UNCHANGED <<connections_, enabled, pending>>,
           Unrun \subseteq Elements(functors)'
    PROVE  \E Gone \in SUBSET Fds :
               /\ \A f \in Gone : state_[f] = "Disconnected"
               /\ \A f \in Fds : state_[f] = "Disconnected" /\ f \notin Gone
                                     => f \in Elements(functors)' \cup held'
               /\ owner' = [f \in Fds |-> IF f \in Gone THEN "free" ELSE owner[f]]
               /\ state_' = [f \in Fds |-> IF f \in Gone THEN "none" ELSE state_[f]]
               /\ name_' = [f \in Fds |-> IF f \in Gone THEN 0 ELSE name_[f]]
<1> DEFINE Gone == {f \in Fds : state_[f] # "none" /\ ~Referenced(f)'}
<1>1. Gone \in SUBSET Fds OBVIOUS
<1>2. ASSUME NEW f \in Gone PROVE state_[f] = "Disconnected"
  <2>1. ~ \E i \in Ids : connections_[i] = f
      BY <1>2 DEF Referenced
  <2>2. f \notin Elements(pending) /\ f \notin Elements(functors)'
      BY <1>2 DEF Referenced, Elements
  <2>3. f \notin enabled BY <2>1 DEF ConnInv
  <2>4. state_[f] # "Connected" BY <2>2, <2>3 DEF ConnInv
  <2> QED BY <1>2, <2>4 DEF TypeOK, ConnStates
<1>3. ASSUME NEW f \in Fds, state_[f] = "Disconnected", f \notin Gone
      PROVE  f \in Elements(functors)' \cup held'
  <2>1. /\ ~ \E i \in Ids : connections_[i] = f
        /\ f \notin Elements(pending)
        => f \in Elements(functors)' \cup held'
      BY <1>3 DEF Referenced, Elements
  <2>2. ~ \E i \in Ids : connections_[i] = f BY <1>3, AcceptorAssumption DEF ConnInv
  <2>3. f \notin Elements(pending) BY <1>3 DEF QueueInv
  <2> QED BY <2>1, <2>2, <2>3
<1> QED BY <1>1, <1>2, <1>3 DEF Destruct

\* What a destructor changes, it changes for connections no other part of the
\* invariant speaks of.
LEMMA DestructPreserves ==
    ASSUME IInv, Destruct, Unrun' = Unrun, Unrun \subseteq Elements(functors)',
           UNCHANGED <<idle_fd_, conn_fd, backlog, peers, stolen, next_conn_id_, connections_, enabled,
                       registered, due, pending>>,
           Stale' = Stale, pc' = pc \/ {pc, pc'} \cap AcceptSteps = {}
    PROVE  /\ CountInv' /\ OwnerInv' /\ IdleInv' /\ ConnInv'
           /\ \A f \in Elements(pending)' \cup Unrun' : state_'[f] = "Connected" /\ f \notin enabled'
           /\ owner' \in [Fds -> Owners]
           /\ state_' \in [Fds -> ConnStates]
           /\ name_' \in [Fds -> 0..MaxPeers]
<1>0. TypeOK /\ CountInv /\ OwnerInv /\ IdleInv /\ ConnInv /\ QueueInv BY DEF IInv
<1>1. PICK Gone \in SUBSET Fds :
          /\ \A f \in Gone : state_[f] = "Disconnected"
          /\ \A f \in Fds : state_[f] = "Disconnected" /\ f \notin Gone
                                => f \in Elements(functors)' \cup held'
          /\ owner' = [f \in Fds |-> IF f \in Gone THEN "free" ELSE owner[f]]
          /\ state_' = [f \in Fds |-> IF f \in Gone THEN "none" ELSE state_[f]]
          /\ name_' = [f \in Fds |-> IF f \in Gone THEN 0 ELSE name_[f]]
    BY <1>0, DestructedAreDown
<1>2. \A f \in Gone : owner[f] = "connection" BY <1>0, <1>1 DEF OwnerInv
<1>3. owner' \in [Fds -> Owners] BY <1>0, <1>1 DEF TypeOK, Owners
<1>4. state_' \in [Fds -> ConnStates] BY <1>0, <1>1 DEF TypeOK, ConnStates
<1>5. name_' \in [Fds -> 0..MaxPeers] BY <1>0, <1>1, AcceptorAssumption DEF TypeOK
<1>6. CountInv' BY <1>0 DEF CountInv
<1>7. OwnerInv'
  <2>1. pc' = "test" <=> pc = "test" BY DEF AcceptSteps
  <2>2. conn_fd # None => conn_fd \in Fds BY <1>0 DEF TypeOK
  <2> QED BY <1>0, <1>1, <1>2, <2>1, <2>2 DEF OwnerInv
<1>8. IdleInv'
  <2>1. FreeFds \subseteq FreeFds' BY <1>1 DEF FreeFds
  <2>2. pc' = "drop_idle" <=> pc = "drop_idle" BY DEF AcceptSteps
  <2>3. idle_fd_ # None => idle_fd_ \in Fds BY <1>0 DEF TypeOK
  <2> QED BY <1>0, <1>1, <1>2, <2>1, <2>2, <2>3 DEF IdleInv
<1>9. Elements(pending)' = Elements(pending) BY DEF Elements
<1>10. ConnInv'
  <2>1. \A g \in Fds : g \in registered' <=> state_'[g] = "Connected" BY <1>0, <1>1 DEF ConnInv
  <2>2. \A i \in Ids : connections_'[i] # None =>
            i < next_conn_id_' /\ connections_'[i] \in enabled' /\ name_'[connections_'[i]] = i
      BY <1>0, <1>1 DEF TypeOK, ConnInv
  <2>3. \A g \in enabled' : state_'[g] = "Connected" /\ name_'[g] \in Ids /\ connections_'[name_'[g]] = g
      BY <1>0, <1>1 DEF TypeOK, ConnInv
  <2>4. due' \subseteq enabled' \cup {AcceptChannel} BY <1>0 DEF ConnInv
  <2>5. \A g \in Fds : state_'[g] = "Connected" =>
            g \in enabled' \cup Elements(pending)' \cup Unrun'
      BY <1>0, <1>1, <1>9 DEF ConnInv
  <2>6. \A g \in Fds : state_'[g] = "Disconnected" => g \in Elements(functors)' \cup held'
      BY <1>1
  <2> QED BY <2>1, <2>2, <2>3, <2>4, <2>5, <2>6 DEF ConnInv
<1>11. \A f \in Elements(pending)' \cup Unrun' : state_'[f] = "Connected" /\ f \notin enabled'
  <2>1. Elements(pending) \cup Unrun \subseteq Fds BY <1>0 DEF TypeOK, Elements, Unrun
  <2> QED BY <1>0, <1>1, <1>9, <2>1 DEF QueueInv
<1> QED BY <1>3, <1>4, <1>5, <1>6, <1>7, <1>8, <1>10, <1>11

\* User code takes a pointer.
LEMMA HoldPreserves == ASSUME IInv, NEW f \in Fds, Hold(f) PROVE IInv'
<1> USE DEF Hold, acceptorVars, loopVars
<1>0. TypeOK /\ CountInv /\ OwnerInv /\ IdleInv /\ ConnInv /\ QueueInv /\ FailsOnlyForPool
    BY DEF IInv
<1>1. TypeOK' BY <1>0 DEF TypeOK
<1>2. CountInv' /\ OwnerInv' BY <1>0 DEF CountInv, OwnerInv
<1>3. IdleInv' BY <1>0 DEF IdleInv, Stale, FreeFds
<1>4. Unrun' = Unrun BY DEF Unrun
<1>5. ConnInv' BY <1>0, <1>4 DEF ConnInv, Elements
<1>6. QueueInv' BY <1>0, <1>4 DEF QueueInv, Elements
<1>7. FailsOnlyForPool' BY <1>0 DEF FailsOnlyForPool
<1> QED BY <1>1, <1>2, <1>3, <1>5, <1>6, <1>7 DEF IInv

\* User code drops one, and the connection goes if it was the last.
LEMMA DropPreserves == ASSUME IInv, NEW f \in Fds, Drop(f) PROVE IInv'
<1> USE DEF Drop, loopVars
<1>0. TypeOK /\ QueueInv /\ FailsOnlyForPool BY DEF IInv
<1>1. Unrun' = Unrun /\ Unrun \subseteq Elements(functors)' BY DEF Unrun, Elements
<1>2. /\ CountInv' /\ OwnerInv' /\ IdleInv' /\ ConnInv'
      /\ \A g \in Elements(pending)' \cup Unrun' : state_'[g] = "Connected" /\ g \notin enabled'
      /\ owner' \in [Fds -> Owners]
      /\ state_' \in [Fds -> ConnStates]
      /\ name_' \in [Fds -> 0..MaxPeers]
  <2>1. Stale' = Stale /\ pc' = pc BY DEF Stale
  <2> QED BY <1>1, <2>1, DestructPreserves
<1>3. TypeOK' BY <1>0, <1>2 DEF TypeOK
<1>4. QueueInv' BY <1>0, <1>2 DEF QueueInv
<1>5. FailsOnlyForPool' BY <1>0 DEF FailsOnlyForPool
<1> QED BY <1>2, <1>3, <1>4, <1>5 DEF IInv

-----------------------------------------------------------------------------
(* The loop *)

\* poll reports enabled channels only.
LEMMA PollPreserves == ASSUME IInv, poll PROVE IInv'
<1> USE DEF poll, Goto, connVars
<1>0. TypeOK /\ CountInv /\ OwnerInv /\ IdleInv /\ ConnInv /\ QueueInv /\ FailsOnlyForPool
    BY DEF IInv
<1>1. due' \subseteq enabled \cup {AcceptChannel} OBVIOUS
<1>2. TypeOK' BY <1>0, <1>1 DEF TypeOK
<1>3. CountInv' /\ OwnerInv' BY <1>0 DEF CountInv, OwnerInv
<1>4. IdleInv' BY <1>0 DEF IdleInv, Stale, FreeFds
<1>5. Unrun' = Unrun BY DEF Unrun
<1>6. ConnInv' BY <1>0, <1>1, <1>5 DEF ConnInv, Elements
<1>7. QueueInv' BY <1>0, <1>5 DEF QueueInv, Elements
<1>8. FailsOnlyForPool' BY <1>0 DEF FailsOnlyForPool
<1> QED BY <1>2, <1>3, <1>4, <1>6, <1>7, <1>8 DEF IInv

\* The Acceptor's channel is reported: handle_read_once begins.
LEMMA HandleReadPreserves == ASSUME IInv, handle_read PROVE IInv'
<1> USE DEF handle_read, Goto, connVars
<1>0. TypeOK /\ CountInv /\ OwnerInv /\ IdleInv /\ ConnInv /\ QueueInv /\ FailsOnlyForPool
    BY DEF IInv
<1>1. TypeOK' BY <1>0 DEF TypeOK, AcceptSteps
<1>2. CountInv' /\ OwnerInv' BY <1>0 DEF CountInv, OwnerInv
<1>3. IdleInv' BY <1>0 DEF IdleInv, Stale, FreeFds
<1>4. Unrun' = Unrun BY DEF Unrun
<1>5. ConnInv' BY <1>0, <1>4 DEF ConnInv, Elements
<1>6. QueueInv' BY <1>0, <1>4 DEF QueueInv, Elements
<1>7. FailsOnlyForPool' BY <1>0 DEF FailsOnlyForPool
<1> QED BY <1>1, <1>2, <1>3, <1>5, <1>6, <1>7 DEF IInv

\* The queue is swapped into the batch: what was pending has not run yet.
LEMMA DoPendingPreserves == ASSUME IInv, do_pending_functors PROVE IInv'
<1> USE DEF do_pending_functors, Goto, connVars
<1>0. TypeOK /\ CountInv /\ OwnerInv /\ IdleInv /\ ConnInv /\ QueueInv /\ FailsOnlyForPool
    BY DEF IInv
<1>1. TypeOK' BY <1>0 DEF TypeOK
<1>2. CountInv' /\ OwnerInv' BY <1>0 DEF CountInv, OwnerInv
<1>3. IdleInv' BY <1>0 DEF IdleInv, Stale, FreeFds
<1>4. functors = <<>> BY <1>0 DEF QueueInv
<1>5. Unrun = {} /\ Elements(functors) = {} BY <1>4 DEF Unrun, Elements
<1>6. Unrun' = Elements(pending) /\ Elements(pending)' = {}
  <2>1. DOMAIN pending \subseteq {j \in Nat : j > 0} BY <1>0 DEF TypeOK
  <2> QED BY <2>1 DEF Unrun, Elements
<1>7. ConnInv' BY <1>0, <1>5, <1>6 DEF ConnInv
<1>8. QueueInv'
  <2>1. ran' <= Len(functors') BY <1>0 DEF TypeOK
  <2> QED BY <1>0, <1>6, <2>1 DEF QueueInv
<1>9. FailsOnlyForPool' BY <1>0 DEF FailsOnlyForPool
<1> QED BY <1>1, <1>2, <1>3, <1>7, <1>8, <1>9 DEF IInv

\* The batch is let go of when all of it has run.
LEMMA PendingDonePreserves == ASSUME IInv, pending_done PROVE IInv'
<1> USE DEF pending_done, Goto
<1>0. TypeOK /\ QueueInv /\ FailsOnlyForPool BY DEF IInv
<1>1. Unrun = {} /\ Unrun' = {}
  <2>1. \A j \in DOMAIN functors : ~(j > ran) BY <1>0 DEF TypeOK
  <2> QED BY <2>1 DEF Unrun
<1>2. /\ CountInv' /\ OwnerInv' /\ IdleInv' /\ ConnInv'
      /\ \A g \in Elements(pending)' \cup Unrun' : state_'[g] = "Connected" /\ g \notin enabled'
      /\ owner' \in [Fds -> Owners]
      /\ state_' \in [Fds -> ConnStates]
      /\ name_' \in [Fds -> 0..MaxPeers]
  <2>1. Stale' = Stale /\ pc \notin AcceptSteps /\ pc' \notin AcceptSteps BY DEF Stale, AcceptSteps
  <2> QED BY <1>1, <2>1, DestructPreserves
<1>3. TypeOK'
  <2>1. functors' \in Seq(Fds) OBVIOUS
  <2> QED BY <1>0, <1>2, <2>1 DEF TypeOK
<1>4. QueueInv' BY <1>0, <1>2 DEF QueueInv
<1>5. FailsOnlyForPool' BY <1>0 DEF FailsOnlyForPool
<1> QED BY <1>2, <1>3, <1>4, <1>5 DEF IInv

-----------------------------------------------------------------------------
(* The theorems *)

\* Every step of the server, its users, its peers and the process keeps the invariant.
LEMMA NextPreserves == IInv /\ [Next]_vars => IInv'
<1> SUFFICES ASSUME IInv, [Next]_vars PROVE IInv' OBVIOUS
<1>1. CASE LoopStep
  <2>1. CASE handle_read_once /\ UNCHANGED <<started_, num_threads_, connVars, loopVars>>
      BY <2>1, AcceptPreserves, TestFailedPreserves, CloseIdlePreserves, AcceptIdlePreserves,
         DropIdlePreserves, ReopenIdlePreserves DEF handle_read_once
  <2> QED BY <1>1, <2>1, NewConnectionPreserves, RemoveConnectionPreserves,
             ConnectDestoryedPreserves, PollPreserves, HandleReadPreserves, DoPendingPreserves,
             PendingDonePreserves DEF LoopStep
<1>2. CASE UNCHANGED vars
  <2> USE <1>2 DEF vars, acceptorVars, connVars, loopVars
  <2>1. Unrun' = Unrun BY DEF Unrun
  <2>2. TypeOK' BY DEF IInv, TypeOK
  <2>3. CountInv' /\ OwnerInv' /\ FailsOnlyForPool' BY DEF IInv, CountInv, OwnerInv, FailsOnlyForPool
  <2>4. IdleInv' BY DEF IInv, IdleInv, Stale, FreeFds
  <2>5. ConnInv' BY <2>1 DEF IInv, ConnInv, Elements
  <2>6. QueueInv' BY <2>1 DEF IInv, QueueInv, Elements
  <2> QED BY <2>2, <2>3, <2>4, <2>5, <2>6 DEF IInv
<1> QED BY <1>1, <1>2, StartPreserves, EnvironmentPreserves, HoldPreserves, DropPreserves DEF Next

\* The inductive invariant holds in every reachable state.
LEMMA Invariance == Spec => []IInv
BY InitEstablishes, NextPreserves, PTL DEF Spec

\* Every variable keeps its type: in particular the names of new_connection are new
\* numbers, and connections_ never has to hold more than there were peers.
THEOREM TypeCorrect == Spec => []TypeOK
<1>1. IInv => TypeOK BY DEF IInv
<1> QED BY <1>1, Invariance, PTL

\* The assertions of handle_close, remove_connection_in_loop and connect_destoryed never fail.
THEOREM AssertionsNeverFail == Spec => []FailsOnlyForPool
<1>1. IInv => FailsOnlyForPool BY DEF IInv
<1> QED BY <1>1, Invariance, PTL

\* No descriptor leaks: each one that is open is in the hands of the step of
\* handle_read_once that opened it or of a connection somebody points to.
THEOREM NoDescriptorLeaks == Spec => []NoLeak
<1>1. ASSUME IInv PROVE NoLeak
  <2> SUFFICES ASSUME NEW f \in Fds
               PROVE  /\ owner[f] = "accepted" => pc = "test" /\ conn_fd = f
                      /\ owner[f] = "idle" => idle_fd_ = f
                      /\ owner[f] = "connection" <=> state_[f] # "none"
                      /\ state_[f] # "none" => Referenced(f)
                      /\ f \in registered <=> state_[f] = "Connected"
      BY DEF NoLeak
  <2>1. owner[f] = "accepted" => pc = "test" /\ conn_fd = f
      BY <1>1, AcceptorAssumption DEF IInv, OwnerInv
  <2>2. owner[f] = "idle" => idle_fd_ = f BY <1>1 DEF IInv, IdleInv
  <2>3. state_[f] = "Connected" => Referenced(f)
    <3>1. Unrun \subseteq Elements(functors) BY DEF Unrun, Elements
    <3> QED BY <1>1, <3>1 DEF IInv, ConnInv, Referenced
  <2>4. state_[f] = "Disconnected" => Referenced(f) BY <1>1 DEF IInv, ConnInv, Referenced
  <2>5. state_[f] \in ConnStates BY <1>1 DEF IInv, TypeOK
  <2> QED BY <1>1, <2>1, <2>2, <2>3, <2>4, <2>5 DEF IInv, OwnerInv, ConnInv, ConnStates
<1> QED BY <1>1, Invariance, PTL

\* idle_fd_ is held in reserve whenever handle_read_once is not running, however
\* often it had to be given up, if no other thread came in between.
THEOREM ReserveIsKept == Spec => []ReserveKept
<1>1. IInv => ReserveKept BY DEF IInv, IdleInv, ReserveKept, Stale, AcceptSteps
<1> QED BY <1>1, Invariance, PTL

\* Nothing the server does closes a descriptor of another thread, stale as idle_fd_ may be.
THEOREM OthersAreUntouched == Spec => OthersUntouched
<1>1. ASSUME IInv, [Next]_vars
      PROVE  [\A f \in Fds : owner[f] = "other" /\ owner'[f] # "other" => Environment]_vars
  <2> SUFFICES ASSUME NEW f \in Fds, owner[f] = "other", Next, ~Environment
               PROVE  owner'[f] = "other"
      BY <1>1
  <2> USE AcceptorAssumption
  <2>0. TypeOK /\ OwnerInv /\ IdleInv /\ ConnInv /\ QueueInv BY <1>1 DEF IInv
  <2>1. state_[f] = "none" BY <2>0 DEF OwnerInv, TypeOK
  <2>2. CASE handle_read_once
    <3>1. CASE accept BY <3>1, <2>0 DEF accept, accept_one, accept_full, accept_error, accept_fatal,
                           Open, FreeFds, TypeOK
    <3>2. CASE test_failed BY <3>2, <2>0 DEF test_failed, Close, OwnerInv, TypeOK
    <3>3. CASE close_idle BY <3>3, <2>0 DEF close_idle, Close, IdleInv, Stale, TypeOK
    <3>4. CASE accept_idle BY <3>4, <2>0 DEF accept_idle, Open, FreeFds, TypeOK
    <3>5. CASE drop_idle BY <3>5, <2>0 DEF drop_idle, Close, IdleInv, Stale, TypeOK
    <3>6. CASE reopen_idle BY <3>6, <2>0 DEF reopen_idle, Open, FreeFds, TypeOK
    <3> QED BY <2>2, <3>1, <3>2, <3>3, <3>4, <3>5, <3>6 DEF handle_read_once
  <2>3. CASE new_connection BY <2>3, <2>0 DEF new_connection, Open, OwnerInv, TypeOK
  <2>4. CASE Destruct BY <2>4, <2>1 DEF Destruct
  <2>5. CASE UNCHANGED owner BY <2>5
  <2>6. CASE \E g \in Fds : Drop(g) BY <2>6, <2>4 DEF Drop
  <2>7. CASE pending_done BY <2>7, <2>4 DEF pending_done
  <2>8. CASE start BY <2>8 DEF start
  <2>9. CASE \E g \in Fds : Hold(g) BY <2>9 DEF Hold, acceptorVars
  <2>10. CASE \E g \in Fds : remove_connection(g) \/ connect_destoryed(g)
      BY <2>10 DEF remove_connection, connect_destoryed
  <2>11. CASE poll \/ handle_read \/ do_pending_functors
      BY <2>11 DEF poll, handle_read, do_pending_functors
  <2> QED BY <2>2, <2>3, <2>6, <2>7, <2>8, <2>9, <2>10, <2>11 DEF Next, LoopStep
<1> QED BY <1>1, Invariance, PTL DEF Spec, OthersUntouched

-----------------------------------------------------------------------------
(* The life cycle of a descriptor *)

\* The phase of a descriptor, read off its owner and the connection's state.
LEMMA PhaseValue ==
    ASSUME IInv, NEW f \in Fds
    PROVE  /\ owner[f] = "accepted" => Phase[f] = "open"
           /\ owner[f] # "accepted" /\ state_[f] = "Connected" => Phase[f] = "up"
           /\ owner[f] # "accepted" /\ state_[f] = "Disconnected" => Phase[f] = "down"
           /\ owner[f] # "accepted" /\ state_[f] = "none" => Phase[f] = "free"
<1>1. CASE owner[f] = "accepted"
  <2>1. state_[f] = "none" BY <1>1 DEF IInv, OwnerInv
  <2> QED BY <1>1, <2>1 DEF Phase
<1>2. CASE owner[f] # "accepted" /\ state_[f] = "Connected" BY <1>2 DEF Phase
<1>3. CASE owner[f] # "accepted" /\ state_[f] = "Disconnected" BY <1>3 DEF Phase
<1>4. CASE owner[f] # "accepted" /\ state_[f] = "none" BY <1>4 DEF Phase
<1> QED BY <1>1, <1>2, <1>3, <1>4

\* The same for the next state.
LEMMA PhaseValueNext ==
    ASSUME IInv', NEW f \in Fds
    PROVE  /\ owner'[f] = "accepted" => Phase'[f] = "open"
           /\ owner'[f] # "accepted" /\ state_'[f] = "Connected" => Phase'[f] = "up"
           /\ owner'[f] # "accepted" /\ state_'[f] = "Disconnected" => Phase'[f] = "down"
           /\ owner'[f] # "accepted" /\ state_'[f] = "none" => Phase'[f] = "free"
<1>1. CASE owner'[f] = "accepted"
  <2>1. state_'[f] = "none" BY <1>1 DEF IInv, OwnerInv
  <2> QED BY <1>1, <2>1 DEF Phase
<1>2. CASE owner'[f] # "accepted" /\ state_'[f] = "Connected" BY <1>2 DEF Phase
<1>3. CASE owner'[f] # "accepted" /\ state_'[f] = "Disconnected" BY <1>3 DEF Phase
<1>4. CASE owner'[f] # "accepted" /\ state_'[f] = "none" BY <1>4 DEF Phase
<1> QED BY <1>1, <1>2, <1>3, <1>4

\* One descriptor in one step: it keeps its phase or makes one of the transitions.
LEMMA PhaseStep ==
    ASSUME IInv, IInv', Next, NEW f \in Fds, Phase'[f] # Phase[f]
    PROVE  <<Phase[f], Phase'[f]>> \in Descriptors!Transitions
<1> USE AcceptorAssumption DEF Descriptors!Transitions
<1>0. /\ TypeOK /\ OwnerInv /\ IdleInv /\ ConnInv /\ QueueInv
      /\ TypeOK' /\ OwnerInv'
    BY DEF IInv
<1>1. owner[f] # "connection" => state_[f] = "none" BY <1>0 DEF OwnerInv
<1>2. state_[f] \in ConnStates /\ state_'[f] \in ConnStates BY <1>0 DEF TypeOK
<1>3. CASE UNCHANGED <<owner, state_>>
    BY <1>3, <1>2, PhaseValue, PhaseValueNext DEF ConnStates
<1>4. CASE handle_read_once /\ UNCHANGED <<started_, num_threads_, connVars, loopVars>>
  <2>1. UNCHANGED state_ BY <1>4 DEF connVars
  <2>2. CASE accept
    <3>1. CASE accept_one
      <4>1. PICK g \in FreeFds : owner' = [owner EXCEPT ![g] = "accepted"]
          BY <3>1 DEF accept_one, Open
      <4>2. g \in Fds /\ owner[g] = "free" BY <4>1 DEF FreeFds
      <4>3. CASE f = g BY <4>1, <4>2, <4>3, <1>0, <1>1, PhaseValue, PhaseValueNext DEF TypeOK
      <4>4. CASE f # g
        <5>1. owner'[f] = owner[f] BY <4>1, <4>4, <1>0 DEF TypeOK
        <5> QED BY <5>1, <2>1, <1>2, PhaseValue, PhaseValueNext DEF ConnStates
      <4> QED BY <4>3, <4>4
    <3> QED BY <2>1, <2>2, <3>1, <1>3 DEF accept, accept_full, accept_error, accept_fatal
  <2>3. CASE test_failed
    <3>1. CASE f = conn_fd
      <4>1. owner[f] = "accepted" /\ owner'[f] = "free"
          BY <2>3, <3>1, <1>0 DEF test_failed, Close, OwnerInv
      <4> QED BY <4>1, <1>1, <2>1, PhaseValue, PhaseValueNext
    <3>2. CASE f # conn_fd
      <4>1. owner'[f] = owner[f] BY <2>3, <3>2 DEF test_failed, Close
      <4> QED BY <4>1, <2>1, <1>2, PhaseValue, PhaseValueNext DEF ConnStates
    <3> QED BY <3>1, <3>2
  <2>4. CASE close_idle \/ accept_idle \/ drop_idle \/ reopen_idle
    <3>1. owner[f] # "accepted" /\ owner'[f] # "accepted"
        BY <2>4, <1>0 DEF OwnerInv, close_idle, accept_idle, drop_idle, reopen_idle, Goto
    <3> QED BY <3>1, <2>1, <1>2, PhaseValue, PhaseValueNext DEF ConnStates
  <2> QED BY <1>4, <2>2, <2>3, <2>4 DEF handle_read_once
<1>5. CASE new_connection
  <2>1. CASE f = conn_fd
    <3>1. owner[f] = "accepted" BY <1>5, <2>1, <1>0 DEF OwnerInv, new_connection
    <3>2. owner'[f] = "connection" /\ state_'[f] = "Connected"
        BY <1>5, <2>1, <1>0 DEF new_connection, Open, TypeOK
    <3> QED BY <3>1, <3>2, PhaseValue, PhaseValueNext
  <2>2. CASE f # conn_fd
    <3>1. owner'[f] = owner[f] /\ state_'[f] = state_[f]
        BY <1>5, <2>2, <1>0 DEF new_connection, Open, TypeOK
    <3> QED BY <3>1, <1>2, PhaseValue, PhaseValueNext DEF ConnStates
  <2> QED BY <2>1, <2>2
<1>6. ASSUME NEW g \in Fds, connect_destoryed(g)
      PROVE  <<Phase[f], Phase'[f]>> \in Descriptors!Transitions
  <2>1. owner' = owner BY <1>6 DEF connect_destoryed
  <2>2. CASE state_[g] = "Connected" /\ f = g
    <3>1. state_'[f] = "Disconnected" BY <1>6, <2>2, <1>0 DEF connect_destoryed, TypeOK
    <3>2. owner[f] = "connection" BY <2>2, <1>0 DEF OwnerInv
    <3> QED BY <2>1, <2>2, <3>1, <3>2, PhaseValue, PhaseValueNext
  <2>3. CASE ~(state_[g] = "Connected" /\ f = g)
    <3>1. state_'[f] = state_[f] BY <1>6, <2>3, <1>0 DEF connect_destoryed, TypeOK
    <3> QED BY <2>1, <3>1, <1>2, PhaseValue, PhaseValueNext DEF ConnStates
  <2> QED BY <2>2, <2>3
<1>7. ASSUME Destruct, UNCHANGED <<connections_, enabled, pending>>,
             Unrun \subseteq Elements(functors)'
      PROVE  <<Phase[f], Phase'[f]>> \in Descriptors!Transitions
  <2>1. PICK Gone \in SUBSET Fds :
            /\ \A g \in Gone : state_[g] = "Disconnected"
            /\ owner' = [g \in Fds |-> IF g \in Gone THEN "free" ELSE owner[g]]
            /\ state_' = [g \in Fds |-> IF g \in Gone THEN "none" ELSE state_[g]]
      BY <1>0, <1>7, DestructedAreDown
  <2>2. CASE f \in Gone
    <3>1. state_[f] = "Disconnected" /\ state_'[f] = "none" /\ owner'[f] = "free" BY <2>1, <2>2
    <3>2. owner[f] = "connection" BY <3>1, <1>0 DEF OwnerInv
    <3> QED BY <3>1, <3>2, PhaseValue, PhaseValueNext
  <2>3. CASE f \notin Gone
    <3>1. owner'[f] = owner[f] /\ state_'[f] = state_[f] BY <2>1, <2>3
    <3> QED BY <3>1, <1>2, PhaseValue, PhaseValueNext DEF ConnStates
  <2> QED BY <2>2, <2>3
<1>8. CASE pending_done
  <2>1. \A j \in DOMAIN functors : ~(j > ran) BY <1>8, <1>0 DEF pending_done, TypeOK
  <2>2. Unrun \subseteq Elements(functors)' BY <2>1 DEF Unrun
  <2> QED BY <1>7, <1>8, <2>2 DEF pending_done
<1>9. ASSUME NEW g \in Fds, Drop(g)
      PROVE  <<Phase[f], Phase'[f]>> \in Descriptors!Transitions
  <2>1. Unrun \subseteq Elements(functors)' BY <1>9 DEF Drop, loopVars, Unrun, Elements
  <2> QED BY <1>7, <1>9, <2>1 DEF Drop, loopVars
<1>10. CASE Environment
  <2>1. UNCHANGED state_ BY <1>10 DEF Environment, connVars
  <2>2. owner[f] = "accepted" <=> owner'[f] = "accepted"
      BY <1>10, <1>0 DEF Environment, PeerAsks, PeerGivesUp, OtherOpens, OtherCloses, Open, Close,
                         FreeFds, TypeOK
  <2> QED BY <2>1, <2>2, <1>2, PhaseValue, PhaseValueNext DEF ConnStates
<1>11. CASE start \/ \E g \in Fds : Hold(g)
    BY <1>11, <1>3 DEF start, Hold, acceptorVars, connVars
<1>12. CASE poll \/ handle_read \/ do_pending_functors \/ \E g \in Fds : remove_connection(g)
    BY <1>12, <1>3 DEF poll, handle_read, do_pending_functors, remove_connection, connVars
<1> QED BY <1>4, <1>5, <1>6, <1>8, <1>9, <1>10, <1>11, <1>12 DEF Next, LoopStep

\* TcpServer implements Lifecycle: every descriptor it accepts is announced, reported
\* down and closed in this order before its number is used again.
THEOREM ServerIsLifecycle == Spec => IsLifecycle
<1>1. ASSUME Init PROVE Descriptors!Init
  <2>1. ASSUME NEW f \in Fds PROVE Phase[f] = "free"
    <3>1. owner[f] # "accepted" /\ state_[f] = "none" BY <1>1 DEF Init, AcceptorInit
    <3> QED BY <1>1, <3>1, InitEstablishes, PhaseValue
  <2> QED BY <2>1 DEF Descriptors!Init, Phase
<1>2. ASSUME IInv, IInv', [Next]_vars PROVE [Descriptors!Next]_Phase
  <2>1. CASE Next
    <3>1. ASSUME NEW f \in Fds PROVE Phase'[f] \in Descriptors!Phases
      <4>1. state_'[f] \in ConnStates BY <1>2 DEF IInv, TypeOK
      <4> QED BY <1>2, <4>1, PhaseValueNext DEF Descriptors!Phases, ConnStates
    <3>2. Phase' \in [Fds -> Descriptors!Phases] BY <3>1 DEF Phase
    <3>3. \A f \in Fds : Phase'[f] # Phase[f] => <<Phase[f], Phase'[f]>> \in Descriptors!Transitions
        BY <1>2, <2>1, PhaseStep
    <3> QED BY <3>2, <3>3 DEF Descriptors!Next
  <2>2. CASE UNCHANGED vars BY <2>2 DEF vars, acceptorVars, connVars, Phase
  <2> QED BY <1>2, <2>1, <2>2
<1> QED BY <1>1, <1>2, Invariance, PTL DEF Spec, IsLifecycle, Descriptors!Spec

=============================================================================
