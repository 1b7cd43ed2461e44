----------------------------- MODULE Connector -----------------------------
(***************************************************************************)
(* tcp/Connector.{hpp,cpp}: non-blocking connects with retries, run by the *)
(* loop thread; start() and stop() may be called by other threads.         *)
(*                                                                         *)
(* The loop's queue is FIFO and a functor queued by a callback runs before *)
(* the next poll, as module EventLoop shows; a timer runs once, when it is *)
(* due, as module TimerQueue shows.  connect_ and timer_id_ are shared     *)
(* without a lock: each access is a step of its own.  The retry delay is   *)
(* left out: it is always k_init_retry_delay_ms.  The timers of the loop    *)
(* are taken to have different expirations, so that a cancel removes the   *)
(* timer it is for and no other: TimerQueue would take along those with    *)
(* the same one, see module TimerQueue.                                    *)
(***************************************************************************)
EXTENDS Naturals, Sequences, FiniteSets

CONSTANTS
    Users,        \* the threads that call the public operations
    LoopThread,   \* may be one of them: user code in callbacks
    Fds,          \* bound: descriptors
    Timers,       \* bound: retry timers
    None,
    MaxCalls      \* bound: calls of the public operations

ASSUME ConnectorAssumption ==
    /\ None \notin Fds \cup Timers
    /\ Fds \cap Timers = {}
    /\ MaxCalls \in Nat

VARIABLES
    connect_,
    state_,
    channel_,    \* the descriptor channel_ is for, or None
    timer_id_,
    call,        \* per thread: the step it is about to take, or "idle"
    sock_fd,     \* the parameter of retry and new_connection_callback_
    pc,          \* the loop thread: "poll", "events", "functors" or "aborted"
    failed,      \* the assertion that aborted the program
    todo,        \* callbacks Channel::handle_event is still to call for channel_
    due,         \* other events poll has reported: timers, and connections that close
    timers,      \* timers in the TimerQueue
    pending,     \* the loop's pending_functors_
    functors,    \* the batch do_pending_functors is running
    sock,        \* kernel: what became of each descriptor
    registered,  \* <<owner, descriptor>> of the channels in the poller
    gave_up      \* history: an error after which there is no retry

loopVars == <<pc, failed, todo, due, timers, pending, functors>>
connectorVars == <<connect_, state_, channel_, timer_id_, call, sock_fd, loopVars, sock, registered, gave_up>>

Threads == Users \cup {LoopThread}
States == {"Disconnected", "Connecting", "Connected"}
SockStates == {"free", "open", "connecting", "connected", "self", "failed"}
Functor(op, arg) == [op |-> op, arg |-> arg]

ConnectorInit ==
    /\ connect_ = FALSE
    /\ state_ = "Disconnected"
    /\ channel_ = None
    /\ timer_id_ = None
    /\ call = [t \in Threads |-> "idle"]
    /\ sock_fd = None
    /\ pc = "poll"
    /\ failed = None
    /\ todo = <<>>
    /\ due = {}
    /\ timers = {}
    /\ pending = <<>>
    /\ functors = <<>>
    /\ sock = [f \in Fds |-> "free"]
    /\ registered = {}
    /\ gave_up = FALSE

\* Thread t goes on with step s.
Goto(t, s) == call' = [call EXCEPT ![t] = s]
At(t, s) == call[t] = s /\ pc # "aborted"

\* An assertion of the code fails.
Abort(assertion) == pc' = "aborted" /\ failed' = assertion

\* The loop thread is between two callbacks or functors.
Idle(phase) == pc = phase /\ call[LoopThread] = "idle"

\* Close a descriptor.
Close(f) == sock' = [sock EXCEPT ![f] = "free"]

-----------------------------------------------------------------------------
(* start, stop and the attempt *)

\* start() sets connect_ ...
start(t) ==
    /\ At(t, "start")
    /\ connect_' = TRUE
    /\ gave_up' = FALSE
    /\ Goto(t, "run_in_loop")
    /\ UNCHANGED <<state_, channel_, timer_id_, sock_fd, loopVars, sock, registered>>

\* ... and has start_in_loop run in the loop.
start_run_in_loop(t) ==
    /\ At(t, "run_in_loop")
    /\ IF t = LoopThread
       THEN Goto(t, "start_in_loop") /\ UNCHANGED pending
       ELSE Goto(t, "idle") /\ pending' = Append(pending, Functor("start", None))
    /\ UNCHANGED <<connect_, state_, channel_, timer_id_, sock_fd, pc, failed, todo, due, timers,
                   functors, sock, registered, gave_up>>

\* stop() resets connect_ ...
stop(t) ==
    /\ At(t, "stop")
    /\ connect_' = FALSE
    /\ Goto(t, "cancel")
    /\ UNCHANGED <<state_, channel_, timer_id_, sock_fd, loopVars, sock, registered, gave_up>>

\* ... and cancels the timer it finds in timer_id_.
stop_cancel(t) ==
    /\ At(t, "cancel")
    /\ Goto(t, "idle")
    /\ IF t = LoopThread
       THEN timers' = timers \ {timer_id_} /\ UNCHANGED pending
       ELSE pending' = Append(pending, Functor("cancel", timer_id_)) /\ UNCHANGED timers
    /\ UNCHANGED <<connect_, state_, channel_, timer_id_, sock_fd, pc, failed, todo, due,
                   functors, sock, registered, gave_up>>

\* connecting: a channel that waits for the outcome.
connecting(f) ==
    /\ state_' = "Connecting"
    /\ Goto(LoopThread, "idle")
    /\ IF channel_ # None
       THEN Abort("channel") /\ UNCHANGED <<channel_, registered>>
       ELSE /\ channel_' = f
            /\ registered' = registered \cup {<<"connector", f>>}
            /\ UNCHANGED <<pc, failed>>
    /\ sock' = [sock EXCEPT ![f] = "connecting"]
    /\ UNCHANGED <<sock_fd, gave_up>>

\* connect(): in progress, to be tried again, or an error for good.
connect_socket ==
    \E f \in {g \in Fds : sock[g] = "free"} :
        \/ connecting(f)
        \/ /\ sock' = [sock EXCEPT ![f] = "open"]
           /\ sock_fd' = f
           /\ Goto(LoopThread, "retry")
           /\ UNCHANGED <<state_, channel_, registered, pc, failed, gave_up>>
        \/ /\ gave_up' = TRUE
           /\ Goto(LoopThread, "idle")
           /\ UNCHANGED <<state_, channel_, registered, pc, failed, sock, sock_fd>>

\* Mutant: no assertion, start() may come at any time.
MayStart_Always == TRUE

\* assert(state_ == State::Disconnected)
MayStart == state_ = "Disconnected"

start_in_loop ==
    /\ At(LoopThread, "start_in_loop")
    /\ \/ /\ ~MayStart
          /\ Abort("start")
          /\ Goto(LoopThread, "idle")
          /\ UNCHANGED <<state_, channel_, sock_fd, sock, registered, gave_up>>
       \/ /\ MayStart
          /\ connect_
          /\ connect_socket
       \/ /\ MayStart
          /\ ~connect_
          /\ Goto(LoopThread, "idle")
          /\ UNCHANGED <<state_, channel_, sock_fd, pc, failed, sock, registered, gave_up>>
    /\ UNCHANGED <<connect_, timer_id_, todo, due, timers, pending, functors>>

\* retry closes the descriptor and tests connect_ ...
retry ==
    /\ At(LoopThread, "retry")
    /\ Close(sock_fd)
    /\ state_' = "Disconnected"
    /\ Goto(LoopThread, IF connect_ THEN "run_after" ELSE "idle")
    /\ sock_fd' = None
    /\ UNCHANGED <<connect_, channel_, timer_id_, loopVars, registered, gave_up>>

Cancels == {pending[i].arg : i \in DOMAIN pending} \cup {functors[i].arg : i \in DOMAIN functors}
NewTimers == Timers \ (timers \cup Cancels \cup {timer_id_})

\* ... and sets a timer, one that nobody has the id of yet.
retry_run_after ==
    /\ At(LoopThread, "run_after")
    /\ NewTimers # {}
    /\ LET id == CHOOSE id \in NewTimers : TRUE
       IN  timers' = timers \cup {id} /\ timer_id_' = id
    /\ Goto(LoopThread, "idle")
    /\ UNCHANGED <<connect_, state_, channel_, sock_fd, pc, failed, todo, due, pending, functors,
                   sock, registered, gave_up>>

-----------------------------------------------------------------------------
(* The channel *)

\* Mutant: channel_ is never reset.
remove_and_reset_channel_NoReset ==
    /\ registered' = registered \ {<<"connector", channel_>>}
    /\ UNCHANGED pending

\* Mutant: the channel stays in the poller.
remove_and_reset_channel_Stays ==
    /\ pending' = Append(pending, Functor("reset", None))
    /\ UNCHANGED registered

\* remove_and_reset_channel; channel_ goes later, its callback is still running.
remove_and_reset_channel ==
    /\ registered' = registered \ {<<"connector", channel_>>}
    /\ pending' = Append(pending, Functor("reset", None))

Calls(callback) == Idle("events") /\ todo # <<>> /\ Head(todo) = callback

\* Channel::handle_event has called handle_error and is going to call handle_write.
MidEvent == todo # <<>> /\ <<"connector", channel_>> \notin registered

handle_error ==
    /\ Calls("error")
    /\ todo' = Tail(todo)
    /\ \/ /\ state_ = "Connecting"
          /\ remove_and_reset_channel
          /\ sock_fd' = channel_
          /\ Goto(LoopThread, "retry")
          /\ UNCHANGED <<pc, failed>>
       \/ /\ state_ # "Connecting"
          /\ Abort("handle_error")
          /\ UNCHANGED <<registered, pending, sock_fd, call>>
    /\ UNCHANGED <<connect_, state_, channel_, timer_id_, due, timers, functors, sock, gave_up>>

\* SO_ERROR of a descriptor, and a connection to itself.
getSocketError(f) == sock[f] = "failed"
isSelfConnect(f) == sock[f] = "self"

\* handle_write when the attempt is over: tried again after an error or a connection to
\* itself, handed to new_connection_callback_, or closed if nobody wants it any more.
AttemptOver ==
    /\ remove_and_reset_channel
    /\ IF ~getSocketError(channel_) /\ ~isSelfConnect(channel_)
       THEN /\ state_' = "Connected"
            /\ IF connect_
               THEN Goto(LoopThread, "new_connection") /\ sock_fd' = channel_ /\ UNCHANGED sock
               ELSE Close(channel_) /\ UNCHANGED <<call, sock_fd>>
       ELSE Goto(LoopThread, "retry") /\ sock_fd' = channel_ /\ UNCHANGED <<state_, sock>>

handle_write ==
    /\ Calls("write")
    /\ todo' = Tail(todo)
    /\ \/ /\ state_ = "Connecting"
          /\ AttemptOver
          /\ UNCHANGED <<pc, failed>>
       \/ /\ state_ = "Disconnected"
          /\ UNCHANGED <<state_, call, sock_fd, sock, pc, failed, registered, pending>>
       \/ /\ state_ = "Connected"
          /\ Abort("handle_write")
          /\ UNCHANGED <<state_, call, sock_fd, sock, registered, pending>>
    /\ UNCHANGED <<connect_, channel_, timer_id_, due, timers, functors, gave_up>>

-----------------------------------------------------------------------------
(* The kernel and the loop *)

\* The outcome of a non-blocking connect.
Resolve(f) ==
    /\ sock[f] = "connecting"
    /\ \E outcome \in {"connected", "self", "failed"} : sock' = [sock EXCEPT ![f] = outcome]
    /\ UNCHANGED <<connect_, state_, channel_, timer_id_, call, sock_fd, loopVars, registered, gave_up>>

\* A timer's time comes while the loop polls.
Expire(id) ==
    /\ pc = "poll"
    /\ id \in timers \ due
    /\ due' = due \cup {id}
    /\ UNCHANGED <<connect_, state_, channel_, timer_id_, call, sock_fd, pc, failed, todo, timers,
                   pending, functors, sock, registered, gave_up>>

\* revents of channel_: POLLERR and POLLOUT after a failure, POLLOUT after success.
Callbacks ==
    IF channel_ = None \/ <<"connector", channel_>> \notin registered THEN <<>>
    ELSE CASE getSocketError(channel_) -> <<"error", "write">>
           [] sock[channel_] \in {"connected", "self"} -> <<"write">>
           [] OTHER -> <<>>

poll ==
    /\ pc = "poll"
    /\ pc' = "events"
    /\ todo' = Callbacks
    /\ UNCHANGED <<connect_, state_, channel_, timer_id_, call, sock_fd, failed, due, timers, pending,
                   functors, sock, registered, gave_up>>

\* TimerQueue::handle_read runs the timer of retry.
RunTimer(id) ==
    /\ Idle("events")
    /\ ~MidEvent
    /\ id \in due
    /\ due' = due \ {id}
    /\ timers' = timers \ {id}
    /\ IF id \in timers THEN Goto(LoopThread, "start_in_loop") ELSE UNCHANGED call
    /\ UNCHANGED <<connect_, state_, channel_, timer_id_, sock_fd, pc, failed, todo, pending, functors,
                   sock, registered, gave_up>>

do_pending_functors ==
    /\ Idle("events")
    /\ todo = <<>>
    /\ due = {}
    /\ pc' = "functors"
    /\ functors' = pending
    /\ pending' = <<>>
    /\ UNCHANGED <<connect_, state_, channel_, timer_id_, call, sock_fd, failed, todo, due, timers,
                   sock, registered, gave_up>>

Runs(op) == Idle("functors") /\ functors # <<>> /\ Head(functors).op = op

run_start ==
    /\ Runs("start")
    /\ functors' = Tail(functors)
    /\ Goto(LoopThread, "start_in_loop")
    /\ UNCHANGED <<connect_, state_, channel_, timer_id_, sock_fd, pc, failed, todo, due, timers, pending,
                   sock, registered, gave_up>>

reset_channel ==
    /\ Runs("reset")
    /\ functors' = Tail(functors)
    /\ channel_' = None
    /\ UNCHANGED <<connect_, state_, timer_id_, call, sock_fd, pc, failed, todo, due, timers, pending,
                   sock, registered, gave_up>>

run_cancel ==
    /\ Runs("cancel")
    /\ timers' = timers \ {Head(functors).arg}
    /\ functors' = Tail(functors)
    /\ UNCHANGED <<connect_, state_, channel_, timer_id_, call, sock_fd, pc, failed, todo, due, pending,
                   sock, registered, gave_up>>

ConnectorLoopStep ==
    \/ start_in_loop
    \/ retry
    \/ retry_run_after
    \/ handle_error
    \/ handle_write
    \/ poll
    \/ \E id \in Timers : RunTimer(id)
    \/ do_pending_functors
    \/ run_start
    \/ reset_channel
    \/ run_cancel

=============================================================================
