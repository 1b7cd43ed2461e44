----------------------------- MODULE TcpServer -----------------------------
(***************************************************************************)
(* tcp/TcpServer.{hpp,cpp} with its Acceptor and its EventLoopThreadPool:  *)
(* connections are accepted, entered into connections_ under their name,   *)
(* taken out again when the peer closes, and destroyed when the last       *)
(* TcpConnectionPtr to them goes.  User code may keep such pointers and    *)
(* drop them in any thread.  A TcpConnection is reduced to its state and   *)
(* its close; module TcpConnection has the rest.                           *)
(*                                                                         *)
(* start() must be called in the loop thread.  All connections live in     *)
(* base_loop_: EventLoopThreadPool::start crashes as soon as it is to      *)
(* start a thread, so loops_ stays empty and get_next_loop returns         *)
(* base_loop_.                                                             *)
(***************************************************************************)
EXTENDS Acceptor, Sequences

VARIABLES
    started_,
    num_threads_,   \* of the pool
    next_conn_id_,
    connections_,   \* the descriptor of the connection with each name
    name_,          \* the number in the name of the connection of each descriptor
    state_,         \* state_ of the TcpConnection of each descriptor
    enabled,        \* connections whose channel asks for events
    registered,     \* descriptors the poller has a channel for
    held,           \* connections user code keeps a TcpConnectionPtr to
    due,            \* channels poll has reported
    pending,        \* connect_destoryed functors in pending_functors_
    functors,       \* the batch of do_pending_functors, and how many of them have run
    ran,
    failed          \* what crashed the program

connVars == <<next_conn_id_, connections_, name_, state_, enabled, registered, held>>
loopVars == <<due, pending, functors, ran, failed>>
vars == <<acceptorVars, started_, num_threads_, connVars, loopVars>>

Ids == 1..MaxPeers
ConnStates == {"none", "Connected", "Disconnected"}
AcceptChannel == None   \* not the channel of one of Fds

Init ==
    /\ AcceptorInit
    /\ started_ = FALSE
    /\ num_threads_ \in {0, 1}
    /\ next_conn_id_ = 1
    /\ connections_ = [i \in Ids |-> None]
    /\ name_ = [f \in Fds |-> 0]
    /\ state_ = [f \in Fds |-> "none"]
    /\ enabled = {}
    /\ registered = {}
    /\ held = {}
    /\ due = {}
    /\ pending = <<>>
    /\ functors = <<>>
    /\ ran = 0
    /\ failed = None

Elements(s) == {s[i] : i \in DOMAIN s}
Crash(why) == Goto("crashed") /\ failed' = why

-----------------------------------------------------------------------------
(* start *)

\* EventLoopThreadPool::start uses the thread after it has moved it away.
pool_start == num_threads_ = 0

listen == listenning_' = TRUE

\* A second start() does nothing.
start ==
    /\ pc \in {"poll", "events", "functors"}
    /\ ~started_
    /\ started_' = TRUE
    /\ IF pool_start
       THEN listen /\ UNCHANGED <<pc, failed>>
       ELSE Crash("pool") /\ UNCHANGED listenning_
    /\ UNCHANGED <<idle_fd_, conn_fd, owner, backlog, peers, doomed, stolen, num_threads_, connVars, due, pending,
                   functors, ran>>

-----------------------------------------------------------------------------
(* Connections *)

\* Mutant: the number is not counted up.
NextId_Same == next_conn_id_

NextId == next_conn_id_ + 1

\* new_connection and connect_established
new_connection ==
    /\ pc = "test"
    /\ next_conn_id_' = NextId
    /\ name_' = [name_ EXCEPT ![conn_fd] = next_conn_id_]
    /\ connections_' = [connections_ EXCEPT ![next_conn_id_] = conn_fd]
    /\ state_' = [state_ EXCEPT ![conn_fd] = "Connected"]
    /\ enabled' = enabled \cup {conn_fd}
    /\ registered' = registered \cup {conn_fd}
    /\ Open(conn_fd, "connection")
    /\ conn_fd' = None
    /\ Goto("events")
    /\ UNCHANGED <<listenning_, idle_fd_, backlog, peers, doomed, stolen, started_, num_threads_, held, loopVars>>

\* handle_close and remove_connection, its close_callback_, which erases by name.
remove_connection(f) ==
    /\ pc = "events"
    /\ f \in due
    /\ due' = due \ {f}
    /\ \/ /\ state_[f] = "Connected"
          /\ connections_[name_[f]] # None
          /\ enabled' = enabled \ {f}
          /\ connections_' = [connections_ EXCEPT ![name_[f]] = None]
          /\ pending' = Append(pending, f)
          /\ UNCHANGED <<pc, failed>>
       \/ /\ state_[f] # "Connected" \/ connections_[name_[f]] = None
          /\ Crash("remove_connection")
          /\ UNCHANGED <<enabled, connections_, pending>>
    /\ UNCHANGED <<listenning_, idle_fd_, conn_fd, owner, backlog, peers, doomed, stolen, started_, num_threads_,
                   next_conn_id_, name_, state_, registered, held, functors, ran>>

\* The next functor of the batch runs, for descriptor f.
Runs(f) ==
    /\ pc = "functors"
    /\ ran < Len(functors)
    /\ ran' = ran + 1
    /\ f = functors[ran + 1]

\* Mutant: the connection is let go of and nobody is told.
connect_destoryed_Silent(f) ==
    /\ Runs(f)
    /\ state_' = [state_ EXCEPT ![f] = "none"]
    /\ enabled' = enabled \ {f}
    /\ registered' = registered \ {f}
    /\ Close(f)
    /\ UNCHANGED <<listenning_, idle_fd_, conn_fd, pc, backlog, peers, doomed, stolen, started_, num_threads_,
                   next_conn_id_, connections_, name_, held, due, pending, functors, failed>>

\* TcpConnection::connect_destoryed
connect_destoryed(f) ==
    /\ Runs(f)
    /\ IF state_[f] = "Connected"
       THEN /\ state_' = [state_ EXCEPT ![f] = "Disconnected"]
            /\ enabled' = enabled \ {f}
            /\ registered' = registered \ {f}
            /\ UNCHANGED <<pc, failed>>
       ELSE Crash("connect_destoryed") /\ UNCHANGED <<state_, enabled, registered>>
    /\ UNCHANGED <<listenning_, idle_fd_, conn_fd, owner, backlog, peers, doomed, stolen, started_, num_threads_,
                   next_conn_id_, connections_, name_, held, due, pending, functors>>

\* There is a TcpConnectionPtr to the connection of f.
Referenced(f) ==
    \/ \E i \in Ids : connections_[i] = f
    \/ f \in Elements(pending) \cup Elements(functors) \cup held

\* ~TcpConnection for the connections the last TcpConnectionPtr has gone of.
Destruct ==
    LET Gone == {f \in Fds : state_[f] # "none" /\ ~Referenced(f)'}
    IN  /\ owner' = [f \in Fds |-> IF f \in Gone THEN "free" ELSE owner[f]]
        /\ state_' = [f \in Fds |-> IF f \in Gone THEN "none" ELSE state_[f]]
        /\ name_' = [f \in Fds |-> IF f \in Gone THEN 0 ELSE name_[f]]

\* User code copies the pointer a callback gets ...
Hold(f) ==
    /\ \/ pc = "events" /\ state_[f] = "Connected"
       \/ pc = "functors" /\ f \in Elements(functors)
    /\ held' = held \cup {f}
    /\ UNCHANGED <<acceptorVars, started_, num_threads_, next_conn_id_, connections_, name_, state_, enabled,
                   registered, loopVars>>

\* ... and drops it, in any thread.
Drop(f) ==
    /\ pc # "crashed"
    /\ f \in held
    /\ held' = held \ {f}
    /\ UNCHANGED <<listenning_, idle_fd_, conn_fd, pc, backlog, peers, doomed, stolen, started_, num_threads_,
                   next_conn_id_, connections_, enabled, registered, loopVars>>
    /\ Destruct

-----------------------------------------------------------------------------
(* The loop *)

\* poll reports the backlog, and the connections whose peers have closed.
poll ==
    /\ pc = "poll"
    /\ \E closing \in SUBSET enabled :
           due' = closing \cup (IF listenning_ /\ backlog > 0 THEN {AcceptChannel} ELSE {})
    /\ Goto("events")
    /\ UNCHANGED <<listenning_, idle_fd_, conn_fd, owner, backlog, peers, doomed, stolen, started_, num_threads_,
                   connVars, pending, functors, ran, failed>>

\* The Acceptor's channel is next.
handle_read ==
    /\ pc = "events"
    /\ AcceptChannel \in due
    /\ due' = due \ {AcceptChannel}
    /\ Goto("accept")
    /\ UNCHANGED <<listenning_, idle_fd_, conn_fd, owner, backlog, peers, doomed, stolen, started_, num_threads_,
                   connVars, pending, functors, ran, failed>>

do_pending_functors ==
    /\ pc = "events"
    /\ due = {}
    /\ functors' = pending
    /\ pending' = <<>>
    /\ ran' = 0
    /\ Goto("functors")
    /\ UNCHANGED <<listenning_, idle_fd_, conn_fd, owner, backlog, peers, doomed, stolen, started_, num_threads_,
                   connVars, due, failed>>

\* The batch goes, and with it its pointers.
pending_done ==
    /\ pc = "functors"
    /\ ran = Len(functors)
    /\ functors' = <<>>
    /\ ran' = 0
    /\ Goto("poll")
    /\ UNCHANGED <<listenning_, idle_fd_, conn_fd, backlog, peers, doomed, stolen, started_, num_threads_,
                   next_conn_id_, connections_, enabled, registered, held, due, pending, failed>>
    /\ Destruct

LoopStep ==
    \/ handle_read_once /\ UNCHANGED <<started_, num_threads_, connVars, loopVars>>
    \/ new_connection
    \/ \E f \in Fds : remove_connection(f) \/ connect_destoryed(f)
    \/ poll
    \/ handle_read
    \/ do_pending_functors
    \/ pending_done

Environment ==
    /\ \/ PeerAsks
       \/ PeerGivesUp
       \/ \E f \in Fds : OtherOpens(f) \/ OtherCloses(f)
    /\ UNCHANGED <<started_, num_threads_, connVars, loopVars>>

Next ==
    \/ LoopStep
    \/ start
    \/ Environment
    \/ \E f \in Fds : Hold(f) \/ Drop(f)

\* Only the loop has to get on: no peer need close and no thread give a descriptor back.
Spec == Init /\ [][Next]_vars
FairSpec == Spec /\ WF_vars(LoopStep)

-----------------------------------------------------------------------------
(* Properties *)

\* Every variable keeps its type.
TypeOK ==
    /\ listenning_ \in BOOLEAN
    /\ idle_fd_ \in Fds \cup {None}
    /\ conn_fd \in Fds \cup {None}
    /\ pc \in {"poll", "events", "functors", "crashed"} \cup AcceptSteps
    /\ owner \in [Fds -> Owners]
    /\ backlog \in 0..MaxPeers
    /\ peers \in 0..MaxPeers
    /\ doomed \in BOOLEAN
    /\ stolen \in BOOLEAN
    /\ started_ \in BOOLEAN
    /\ num_threads_ \in Nat
    /\ next_conn_id_ \in 1..MaxPeers + 1
    /\ connections_ \in [Ids -> Fds \cup {None}]
    /\ name_ \in [Fds -> 0..MaxPeers]
    /\ state_ \in [Fds -> ConnStates]
    /\ enabled \in SUBSET Fds
    /\ registered \in SUBSET Fds
    /\ held \in SUBSET Fds
    /\ due \in SUBSET (Fds \cup {AcceptChannel})
    /\ pending \in Seq(Fds)
    /\ functors \in Seq(Fds)
    /\ ran \in Nat
    /\ failed \in {None, "pool", "remove_connection", "connect_destoryed"}

\* The assertions of handle_close, remove_connection_in_loop and connect_destoryed hold
\* whatever closes and arrives together: nothing but a pool with threads brings the server down.
FailsOnlyForPool == failed # None => failed = "pool" /\ num_threads_ > 0

\* No descriptor leaks and none is pulled away: an accepted one is in handle_read_once's hands,
\* one of a connection is that of a TcpConnection somebody points to, and the poller has
\* channels of open descriptors only.
NoLeak ==
    \A f \in Fds :
        /\ owner[f] = "accepted" => pc = "test" /\ conn_fd = f
        /\ owner[f] = "idle" => idle_fd_ = f
        /\ owner[f] = "connection" <=> state_[f] # "none"
        /\ state_[f] # "none" => Referenced(f)
        /\ f \in registered <=> state_[f] = "Connected"

\* However often the table of descriptors fills up, the reserve is there again when
\* handle_read_once returns, unless another thread has taken its place meanwhile.
ReserveKept ==
    ~stolen /\ pc \notin AcceptSteps => idle_fd_ # None /\ owner[idle_fd_] = "idle"

\* The calls of ::close on idle_fd_, whose number may have been given away in between, and
\* on connections never close a descriptor that is another thread's.
OthersUntouched ==
    [][\A f \in Fds : owner[f] = "other" /\ owner'[f] # "other" => Environment]_vars

\* While the reserve is kept the backlog is emptied even if the table stays full: peers are
\* accepted or dropped, and the loop does not spin on a backlog it cannot accept from.
BacklogDrains ==
    backlog > 0 ~> (backlog = 0 \/ idle_fd_ = None \/ doomed)

\* What a peer and the user see of a descriptor.
Phase == [f \in Fds |->
            CASE owner[f] = "accepted" -> "open"
              [] state_[f] = "Connected" -> "up"
              [] state_[f] = "Disconnected" -> "down"
              [] OTHER -> "free"]

Descriptors == INSTANCE Lifecycle WITH phase <- Phase

\* Every descriptor that is accepted goes through the life cycle of module Lifecycle, also when
\* user code keeps the connection for longer: its number is used again only after that.
IsLifecycle == Descriptors!Spec

=============================================================================
