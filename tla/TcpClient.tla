----------------------------- MODULE TcpClient -----------------------------
(***************************************************************************)
(* tcp/TcpClient.{hpp,cpp} with its Connector: the connection, its loss    *)
(* and the reconnect.  A TcpConnection is reduced to its state and to the  *)
(* close that its peer brings about; module TcpConnection has the rest.    *)
(*                                                                         *)
(* connect(), disconnect() and stop() may be called by any thread, but the *)
(* application serialises these calls; enable_retry() comes before them.   *)
(* It keeps no TcpConnectionPtr.                                           *)
(***************************************************************************)
EXTENDS Connector

VARIABLES
    retry_,
    client_connect_,  \* connect_ of the TcpClient
    connection_,      \* the connection's descriptor, or None
    conn,             \* state_ of the TcpConnection of each descriptor
    enabled,          \* connections whose channel asks for events
    calls,            \* number of calls so far
    stopped,          \* history: stop() has returned and connect() has not been called since
    overtaken,        \* history: a restart() was under way when the last stop() reset connect_
    misuse            \* history: the first connect() that came at the wrong time, see connect

clientVars == <<retry_, client_connect_, connection_, conn, enabled, calls>>
history == <<stopped, overtaken, misuse>>
vars == <<connectorVars, clientVars, history>>

ConnStates == {"none", "Connected", "Disconnecting", "Disconnected"}

Init ==
    /\ ConnectorInit
    /\ retry_ \in BOOLEAN
    /\ client_connect_ = TRUE
    /\ connection_ = None
    /\ conn = [f \in Fds |-> "none"]
    /\ enabled = {}
    /\ calls = 0
    /\ stopped = FALSE
    /\ overtaken = FALSE
    /\ misuse = "none"

-----------------------------------------------------------------------------
(* Calls of the user *)

\* Thread t begins a call: no call is under way, user code in the loop runs in callbacks and functors.
BeginCall(t) ==
    /\ \A u \in Users \ {LoopThread} : call[u] = "idle"
    /\ call[LoopThread] \notin {"start", "run_in_loop", "stop", "cancel", "shutdown"}
    /\ t = LoopThread => (Idle("events") \/ Idle("functors")) /\ ~MidEvent
    /\ pc # "aborted"
    /\ calls < MaxCalls
    /\ calls' = calls + 1

\* A start() is under way, in its thread or in the loop's queue.
StartPosted ==
    \/ \E t \in Threads : call[t] \in {"start", "run_in_loop", "start_in_loop"}
    \/ \E i \in DOMAIN pending : pending[i].op = "start"
    \/ \E i \in DOMAIN functors : functors[i].op = "start"

\* Something will call start_in_loop.
OnTheWay ==
    \/ StartPosted
    \/ \E t \in Threads : call[t] \in {"retry", "run_after"}
    \/ timers # {}

\* There is no connection, no attempt, nothing left of the last one and nothing to start one.
AtRest ==
    /\ connection_ = None
    /\ channel_ = None
    /\ call[LoopThread] \notin {"new_connection", "restart"}
    /\ ~OnTheWay

\* connect() goes on with Connector::start().  It comes too early, before the client is at rest, or
\* to a client at rest whose Connector has not been told that its last connection is gone.
connect(t) ==
    /\ BeginCall(t)
    /\ client_connect_' = TRUE
    /\ stopped' = FALSE
    /\ misuse' = CASE misuse # "none" -> misuse
                   [] ~AtRest -> "hasty"
                   [] AtRest /\ state_ # "Disconnected" -> "spent"
                   [] OTHER -> "none"
    /\ Goto(t, "start")
    /\ UNCHANGED <<connect_, state_, channel_, timer_id_, sock_fd, loopVars, sock, registered, gave_up,
                   retry_, connection_, conn, enabled, overtaken>>

\* stop() goes on with Connector::stop().
client_stop(t) ==
    /\ BeginCall(t)
    /\ client_connect_' = FALSE
    /\ Goto(t, "stop")
    /\ UNCHANGED <<connect_, state_, channel_, timer_id_, sock_fd, loopVars, sock, registered, gave_up,
                   retry_, connection_, conn, enabled, history>>

\* disconnect() resets connect_ ...
disconnect(t) ==
    /\ BeginCall(t)
    /\ client_connect_' = FALSE
    /\ Goto(t, "shutdown")
    /\ UNCHANGED <<connect_, state_, channel_, timer_id_, sock_fd, loopVars, sock, registered, gave_up,
                   retry_, connection_, conn, enabled, history>>

\* ... and shuts down the connection, if there is one.
disconnect_shutdown(t) ==
    /\ At(t, "shutdown")
    /\ Goto(t, "idle")
    /\ conn' = [f \in Fds |->
                 IF f = connection_ /\ conn[f] = "Connected" THEN "Disconnecting" ELSE conn[f]]
    /\ UNCHANGED <<connect_, state_, channel_, timer_id_, sock_fd, loopVars, sock, registered, gave_up,
                   retry_, client_connect_, connection_, enabled, calls, history>>

CallStep(t) ==
    \/ start(t) /\ UNCHANGED <<clientVars, history>>
    \/ start_run_in_loop(t) /\ UNCHANGED <<clientVars, history>>
    \/ /\ stop(t)
       /\ overtaken' = (call[LoopThread] = "restart")
       /\ UNCHANGED <<clientVars, stopped, misuse>>
    \/ /\ stop_cancel(t)
       /\ stopped' = TRUE
       /\ UNCHANGED <<clientVars, overtaken, misuse>>
    \/ disconnect_shutdown(t)

-----------------------------------------------------------------------------
(* The connection *)

\* new_connection; when its poll fails nobody closes the descriptor.
new_connection ==
    /\ At(LoopThread, "new_connection")
    /\ Goto(LoopThread, "idle")
    /\ sock_fd' = None
    /\ \/ /\ conn' = [conn EXCEPT ![sock_fd] = "Connected"]
          /\ connection_' = sock_fd
          /\ enabled' = enabled \cup {sock_fd}
          /\ registered' = registered \cup {<<"connection", sock_fd>>}
          /\ UNCHANGED gave_up
       \/ /\ gave_up' = TRUE
          /\ UNCHANGED <<conn, connection_, enabled, registered>>
    /\ UNCHANGED <<connect_, state_, channel_, timer_id_, loopVars, sock, retry_, client_connect_, calls, history>>

\* Poll reports the peer's close, or an answer to ours; the channel was watched by then.
PeerCloses(f) ==
    /\ pc = "poll"
    /\ f \in enabled \ due
    /\ due' = due \cup {f}
    /\ UNCHANGED <<connect_, state_, channel_, timer_id_, call, sock_fd, pc, failed, todo, timers, pending,
                   functors, sock, registered, gave_up, clientVars, history>>

\* Mutant: nobody restarts the Connector.
Reconnects_Never == FALSE

\* Mutant: the wish of the user is not asked for.
Reconnects_RetryOnly == retry_

\* remove_connection's test.
Reconnects == retry_ /\ client_connect_

\* handle_close of the connection and remove_connection, its close_callback_.
remove_connection(f) ==
    /\ Idle("events")
    /\ ~MidEvent
    /\ f \in due
    /\ due' = due \ {f}
    /\ enabled' = enabled \ {f}
    /\ IF conn[f] \in {"Connected", "Disconnecting"} /\ connection_ = f
       THEN /\ connection_' = None
            /\ pending' = Append(pending, Functor("destroy", f))
            /\ Goto(LoopThread, IF Reconnects THEN "restart" ELSE "idle")
            /\ UNCHANGED <<pc, failed>>
       ELSE Abort("remove_connection") /\ UNCHANGED <<connection_, pending, call>>
    /\ UNCHANGED <<connect_, state_, channel_, timer_id_, sock_fd, todo, timers, functors, sock,
                   registered, gave_up, retry_, client_connect_, conn, calls, history>>

\* Connector::restart
restart ==
    /\ At(LoopThread, "restart")
    /\ state_' = "Disconnected"
    /\ connect_' = TRUE
    /\ gave_up' = FALSE
    /\ Goto(LoopThread, "start_in_loop")
    /\ UNCHANGED <<channel_, timer_id_, sock_fd, loopVars, sock, registered, clientVars, history>>

\* Mutant: the connection is let go of and nobody is told.
connect_destoryed_Silent ==
    /\ Runs("destroy")
    /\ functors' = Tail(functors)
    /\ conn' = [conn EXCEPT ![Head(functors).arg] = "none"]
    /\ Close(Head(functors).arg)
    /\ registered' = registered \ {<<"connection", Head(functors).arg>>}
    /\ UNCHANGED <<connect_, state_, channel_, timer_id_, call, sock_fd, pc, failed, todo, due, timers, pending,
                   gave_up, retry_, client_connect_, connection_, enabled, calls, history>>

connect_destoryed ==
    /\ Runs("destroy")
    /\ functors' = Tail(functors)
    /\ LET f == Head(functors).arg
       IN  IF conn[f] \in {"Connected", "Disconnecting"}
           THEN /\ conn' = [conn EXCEPT ![f] = "Disconnected"]
                /\ enabled' = enabled \ {f}
                /\ registered' = registered \ {<<"connection", f>>}
                /\ UNCHANGED <<pc, failed>>
           ELSE Abort("connect_destoryed") /\ UNCHANGED <<conn, enabled, registered>>
    /\ UNCHANGED <<connect_, state_, channel_, timer_id_, call, sock_fd, todo, due, timers, pending,
                   sock, gave_up, retry_, client_connect_, connection_, calls, history>>

\* The batch goes, and with its functors the last TcpConnectionPtr: ~TcpConnection.
pending_done ==
    /\ Idle("functors")
    /\ functors = <<>>
    /\ pc' = "poll"
    /\ LET Released == {f \in Fds : conn[f] = "Disconnected"}
       IN  /\ sock' = [f \in Fds |-> IF f \in Released THEN "free" ELSE sock[f]]
           /\ conn' = [f \in Fds |-> IF f \in Released THEN "none" ELSE conn[f]]
    /\ UNCHANGED <<connect_, state_, channel_, timer_id_, call, sock_fd, failed, todo, due, timers, pending,
                   functors, registered, gave_up, retry_, client_connect_, connection_, enabled, calls, history>>

LoopStep ==
    \/ ConnectorLoopStep /\ UNCHANGED <<clientVars, history>>
    \/ new_connection
    \/ restart
    \/ \E f \in Fds : remove_connection(f)
    \/ connect_destoryed
    \/ pending_done

Kernel ==
    \/ \E f \in Fds : Resolve(f) /\ UNCHANGED <<clientVars, history>>
    \/ \E id \in Timers : Expire(id) /\ UNCHANGED <<clientVars, history>>
    \/ \E f \in Fds : PeerCloses(f)

Next ==
    \/ LoopStep
    \/ Kernel
    \/ \E t \in Users : connect(t) \/ client_stop(t) \/ disconnect(t)
    \/ \E t \in Threads : CallStep(t)

(***************************************************************************)
(* The loop and a thread inside a call get on, a connect is answered or    *)
(* times out, and time passes while the loop polls.  The peer need not     *)
(* close, and nobody has to call anything.                                 *)
(***************************************************************************)
Fairness ==
    /\ WF_vars(LoopStep)
    /\ \A t \in Threads : WF_vars(CallStep(t))
    /\ \A f \in Fds : WF_vars(Resolve(f) /\ UNCHANGED <<clientVars, history>>)
    /\ \A id \in Timers : SF_vars(Expire(id) /\ UNCHANGED <<clientVars, history>>)

Spec == Init /\ [][Next]_vars
FairSpec == Spec /\ Fairness

-----------------------------------------------------------------------------
(* Properties *)

Steps == {"idle", "start", "run_in_loop", "stop", "cancel", "shutdown", "start_in_loop", "retry",
          "run_after", "new_connection", "restart"}
Functors == [op : {"start", "reset", "cancel", "destroy"}, arg : Fds \cup Timers \cup {None}]

\* Every variable keeps its type.
TypeOK ==
    /\ connect_ \in BOOLEAN
    /\ state_ \in States
    /\ channel_ \in Fds \cup {None}
    /\ timer_id_ \in Timers \cup {None}
    /\ call \in [Threads -> Steps]
    /\ sock_fd \in Fds \cup {None}
    /\ pc \in {"poll", "events", "functors", "aborted"}
    /\ failed \in {None, "start", "channel", "handle_error", "handle_write", "remove_connection",
                    "connect_destoryed"}
    /\ todo \in Seq({"error", "write"})
    /\ due \in SUBSET (Timers \cup Fds)
    /\ timers \in SUBSET Timers
    /\ pending \in Seq(Functors)
    /\ functors \in Seq(Functors)
    /\ sock \in [Fds -> SockStates]
    /\ registered \in SUBSET ({"connector", "connection"} \X Fds)
    /\ gave_up \in BOOLEAN
    /\ retry_ \in BOOLEAN
    /\ client_connect_ \in BOOLEAN
    /\ connection_ \in Fds \cup {None}
    /\ conn \in [Fds -> ConnStates]
    /\ enabled \in SUBSET Fds
    /\ calls \in 0..MaxCalls
    /\ stopped \in BOOLEAN
    /\ overtaken \in BOOLEAN
    /\ misuse \in {"none", "hasty", "spent"}

\* However calls, timers and events interleave, the assertions of handle_write, handle_error,
\* handle_close, remove_connection and connect_destoryed hold.  That of connecting fails only
\* after a connect() that came before the client was at rest, and that of start_in_loop only
\* after such a one or one to a client at rest whose Connector is still Connected.
AbortsOnlyIfMisused ==
    /\ failed \in {None, "start", "channel"}
    /\ failed # None => misuse = "hasty" \/ (misuse = "spent" /\ failed = "start")

\* handle_write leaves the Connector Connected, and only restart() and retry() undo it: once its
\* connection is lost or given up without a reconnect, a client that is at rest cannot be used
\* again.  Its next connect() ends in the assertion of start_in_loop, whatever is called meanwhile.
SpentAborts == misuse = "spent" ~> failed = "start"

\* The pollers rely on one channel per descriptor, and on an open one: the Connector's is
\* removed before the connection adds its own, and both before the descriptor is closed.
OneChannelPerFd ==
    /\ \A f \in Fds : {<<"connector", f>>, <<"connection", f>>} \cap registered # {} => sock[f] # "free"
    /\ \A f \in Fds : ~({<<"connector", f>>, <<"connection", f>>} \subseteq registered)
    /\ Cardinality({r \in registered : r[1] = "connector"}) <= 1

\* A client that wants a connection has one, or is doing something about it: connecting, about
\* to, waiting for the retry timer, or handing the new connection over.  The exceptions are an
\* error after which the code does not try again, and a connection that was lost without
\* enable_retry().
NotStuck ==
    client_connect_ /\ connect_ /\ pc # "aborted" =>
        /\ state_ = "Disconnected" => OnTheWay \/ gave_up
        /\ state_ = "Connecting" => \/ call[LoopThread] = "retry"
                                    \/ <<"connector", channel_>> \in registered
        /\ state_ = "Connected" => \/ connection_ # None
                                   \/ call[LoopThread] \in {"new_connection", "restart"}
                                   \/ StartPosted \/ gave_up \/ ~retry_

\* A client that was stopped stays stopped until connect(): a connection that is lost later does
\* not make it reconnect.  The one exception is a restart() that had passed remove_connection's
\* test when stop() reset connect_: it sets connect_ again.
StopHolds == stopped /\ connect_ => overtaken

\* After stop() an attempt under way comes to its end and the retry timer goes, unless a
\* restart() overtook the stop().
StopSettles ==
    (stopped /\ ~overtaken) ~>
        (~stopped \/ pc = "aborted" \/ (state_ # "Connecting" /\ channel_ = None /\ timers = {}))

\* What the user and the kernel see of a descriptor.
Phase == [f \in Fds |->
            CASE sock[f] = "free" -> "free"
              [] conn[f] \in {"Connected", "Disconnecting"} -> "up"
              [] conn[f] = "Disconnected" -> "down"
              [] OTHER -> "open"]

Descriptors == INSTANCE Lifecycle WITH phase <- Phase

\* Every descriptor goes through the life cycle of module Lifecycle: no connection is
\* announced twice, or closed before the user has been told that it is down.
IsLifecycle == Descriptors!Spec

=============================================================================
