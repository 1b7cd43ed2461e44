------------------------------ MODULE EventLoop ------------------------------
(***************************************************************************)
(* event_loop/EventLoop.{hpp,cpp}: one EventLoop object, the thread that   *)
(* owns it and the other threads that post functors to it or ask it to     *)
(* quit.                                                                   *)
(*                                                                         *)
(* The loop thread is sequential; the other threads interleave with it at  *)
(* the accesses that are shared: the push_back and the swap under          *)
(* pending_mut_ (each one step, since the mutex is held throughout), the   *)
(* atomic quit_ and the eventfd.  calling_pending_functors_ is only ever   *)
(* read by the loop thread (the test in queue_in_loop short-circuits for   *)
(* every other thread), so its stores need no step of their own.           *)
(***************************************************************************)
EXTENDS Naturals, Sequences

CONSTANTS
    LoopThread,  \* the thread that constructed the EventLoop (thread_id_)
    Callers,     \* the other threads that hold a pointer to it
    Functors,    \* functor objects; each is submitted at most once
    None,        \* "no functor"
    QuitCall     \* marks a thread that is inside quit()

ASSUME ThreadsAssumption == LoopThread \notin Callers
ASSUME MarkersAssumption == None \notin Functors /\ QuitCall \notin Functors /\ None # QuitCall

Threads == Callers \cup {LoopThread}

VARIABLES
    pc,                         \* where the loop thread is in the object's life
    looping_,
    quit_,
    calling_pending_functors_,
    active_channels_,           \* channels the last poll returned, not yet handled
    pending_functors_,
    functors,                   \* the vector do_pending_functors swapped out
    current,                    \* the functor being called, or None
    wakeup_fd_,                 \* the eventfd's counter
    call,                       \* per thread: the call it is inside of, or None
    posted,                     \* history: functors in the order of their push_back
    ran,                        \* history: functors in the order they were called
    inlined,                    \* history: functors run_in_loop called directly
    deferred,                   \* history: functors a channel callback queued
    unwoken,                    \* history: functors posted without a wakeup() so far
    early                       \* history: functors the loop thread posted outside loop()

vars == <<pc, looping_, quit_, calling_pending_functors_, active_channels_,
          pending_functors_, functors, current, wakeup_fd_, call,
          posted, ran, inlined, deferred, unwoken, early>>

loopState == <<pc, looping_, calling_pending_functors_, active_channels_, functors, current, ran>>
queueState == <<pending_functors_, posted, inlined, deferred, early>>

LoopPcs == {"none", "constructed", "test", "poll", "events", "run", "stopped", "destroyed"}
Looping == {"test", "poll", "events", "run"}
ChannelKinds == {"wakeup", "user"}

Elems(s) == {s[i] : i \in DOMAIN s}
Fresh(f) == f \notin Elems(posted) /\ f \notin inlined
Exists == pc \notin {"none", "destroyed"}

(***************************************************************************)
(* A thread may enter a public operation of the loop.  The loop thread can *)
(* do so outside loop(), or inside loop() from a channel's or a timer's    *)
(* callback and from a functor; the others whenever the object exists.     *)
(***************************************************************************)
CanCall(t) ==
    /\ Exists
    /\ call[t] = None
    /\ t = LoopThread =>
         \/ pc \in {"constructed", "stopped"}
         \/ pc = "events" /\ "user" \in active_channels_
         \/ pc = "run" /\ current # None

Init ==
    /\ pc = "none"
    /\ looping_ = FALSE
    /\ quit_ = FALSE
    /\ calling_pending_functors_ = FALSE
    /\ active_channels_ = {}
    /\ pending_functors_ = <<>>
    /\ functors = <<>>
    /\ current = None
    /\ wakeup_fd_ = 0
    /\ call = [t \in Threads |-> None]
    /\ posted = <<>>
    /\ ran = <<>>
    /\ inlined = {}
    /\ deferred = {}
    /\ unwoken = {}
    /\ early = {}

-----------------------------------------------------------------------------
(* The kernel's eventfd, as the loop uses it. *)

\* read(2) on a non-blocking eventfd: the counter is taken, or EAGAIN.
EventfdRead(n) == IF n > 0 THEN 0 ELSE n

-----------------------------------------------------------------------------
(* Operations any thread may call *)

\* wakeup(): the body reads the eventfd.
wakeup == wakeup_fd_' = EventfdRead(wakeup_fd_)

\* The first half of queue_in_loop: push_back under pending_mut_.
queue_in_loop(t, f) ==
    /\ CanCall(t)
    /\ Fresh(f)
    /\ pending_functors_' = Append(pending_functors_, f)
    /\ posted' = Append(posted, f)
    /\ deferred' = IF t = LoopThread /\ pc = "events" THEN deferred \cup {f} ELSE deferred
    /\ early' = IF t = LoopThread /\ ~looping_ THEN early \cup {f} ELSE early
    /\ unwoken' = unwoken \cup {f}
    /\ call' = [call EXCEPT ![t] = f]
    /\ UNCHANGED <<quit_, wakeup_fd_, inlined, loopState>>

\* Mutant: a functor posted by a functor does not wake the loop up.
NeedsWakeup_OtherThreadsOnly(t) == t # LoopThread

\* is_in_loop_thread() is FALSE, or the loop is running its functors.
NeedsWakeup(t) == t # LoopThread \/ calling_pending_functors_

\* The second half: wake the loop up if it might sleep on the new functor.
queue_in_loop_wakeup(t) ==
    /\ call[t] \in Functors
    /\ call' = [call EXCEPT ![t] = None]
    /\ IF NeedsWakeup(t)
       THEN wakeup /\ unwoken' = unwoken \ {call[t]}
       ELSE UNCHANGED <<wakeup_fd_, unwoken>>
    /\ UNCHANGED <<quit_, queueState, loopState>>

\* run_in_loop: call directly in the loop thread, otherwise queue_in_loop.
run_in_loop(t, f) ==
    IF t = LoopThread
    THEN /\ CanCall(t)
         /\ Fresh(f)
         /\ inlined' = inlined \cup {f}
         /\ UNCHANGED <<quit_, wakeup_fd_, call, pending_functors_, posted, deferred, unwoken, early, loopState>>
    ELSE queue_in_loop(t, f)

\* quit(): the store of quit_ (all there is to it in the loop thread) ...
quit(t) ==
    /\ CanCall(t)
    /\ quit_' = TRUE
    /\ call' = IF t = LoopThread THEN call ELSE [call EXCEPT ![t] = QuitCall]
    /\ UNCHANGED <<wakeup_fd_, unwoken, queueState, loopState>>

\* ... and the wakeup when called from another thread.
quit_wakeup(t) ==
    /\ call[t] = QuitCall
    /\ call' = [call EXCEPT ![t] = None]
    /\ wakeup
    /\ UNCHANGED <<quit_, unwoken, queueState, loopState>>

-----------------------------------------------------------------------------
(* The loop thread *)

\* The constructor: poller, timer queue and the wakeup channel are set up.
Construct ==
    /\ pc = "none"
    /\ pc' = "constructed"
    /\ UNCHANGED <<looping_, quit_, calling_pending_functors_, active_channels_, pending_functors_,
                   functors, current, wakeup_fd_, call, posted, ran, inlined, deferred, unwoken, early>>

\* loop() up to its while: the store of quit_ forgets an earlier quit().  Only the
\* loop thread reads looping_, so the two stores make one step.
loop ==
    /\ pc \in {"constructed", "stopped"}
    /\ call[LoopThread] = None
    /\ ~looping_
    /\ pc' = "test"
    /\ looping_' = TRUE
    /\ quit_' = FALSE
    /\ UNCHANGED <<calling_pending_functors_, active_channels_, functors, current, wakeup_fd_,
                   call, ran, unwoken, queueState>>

\* while (!quit_)
loop_test ==
    /\ pc = "test"
    /\ IF quit_
       THEN pc' = "stopped" /\ looping_' = FALSE /\ UNCHANGED active_channels_
       ELSE pc' = "poll" /\ active_channels_' = {} /\ UNCHANGED looping_
    /\ UNCHANGED <<quit_, calling_pending_functors_, functors, current, wakeup_fd_,
                   call, ran, unwoken, queueState>>

\* Mutant: poll without a time out; no event is certain but the eventfd's.
poll_NoTimeout ==
    /\ pc = "poll"
    /\ wakeup_fd_ > 0
    /\ pc' = "events"
    /\ active_channels_' = {"wakeup"}
    /\ UNCHANGED <<looping_, quit_, calling_pending_functors_, functors, current, wakeup_fd_,
                   call, ran, unwoken, queueState>>

\* poller_->poll(k_poll_time_ms, ..): the eventfd is reported iff readable, any
\* other channel may be; none of them when the 10 s time out passes first.
poll ==
    /\ pc = "poll"
    /\ pc' = "events"
    /\ \E other \in SUBSET {"user"} :
         active_channels_' = other \cup (IF wakeup_fd_ > 0 THEN {"wakeup"} ELSE {})
    /\ UNCHANGED <<looping_, quit_, calling_pending_functors_, functors, current, wakeup_fd_,
                   call, ran, unwoken, queueState>>

\* The wakeup channel's callback.
handle_read == wakeup_fd_' = EventfdRead(wakeup_fd_)

\* handle_event of one active channel.
handle_event(c) ==
    /\ pc = "events"
    /\ call[LoopThread] = None
    /\ c \in active_channels_
    /\ active_channels_' = active_channels_ \ {c}
    /\ IF c = "wakeup" THEN handle_read ELSE UNCHANGED wakeup_fd_
    /\ UNCHANGED <<pc, looping_, quit_, calling_pending_functors_, functors, current,
                   call, ran, unwoken, queueState>>

\* Mutant: the pending functors are copied, not swapped out.
do_pending_functors_Copy ==
    /\ pc = "events"
    /\ active_channels_ = {}
    /\ call[LoopThread] = None
    /\ pc' = "run"
    /\ calling_pending_functors_' = TRUE
    /\ functors' = pending_functors_
    /\ UNCHANGED <<looping_, quit_, active_channels_, current, wakeup_fd_, call,
                   ran, unwoken, queueState>>

\* Mutant: no functors are run once the loop has been told to quit.
do_pending_functors_NotOnQuit ==
    /\ pc = "events"
    /\ active_channels_ = {}
    /\ call[LoopThread] = None
    /\ pc' = IF quit_ THEN "test" ELSE "run"
    /\ calling_pending_functors_' = ~quit_
    /\ functors' = IF quit_ THEN <<>> ELSE pending_functors_
    /\ pending_functors_' = IF quit_ THEN pending_functors_ ELSE <<>>
    /\ UNCHANGED <<looping_, quit_, active_channels_, current, wakeup_fd_, call,
                   posted, ran, inlined, deferred, unwoken, early>>

\* do_pending_functors up to the swap under pending_mut_.
do_pending_functors ==
    /\ pc = "events"
    /\ active_channels_ = {}
    /\ call[LoopThread] = None
    /\ pc' = "run"
    /\ calling_pending_functors_' = TRUE
    /\ functors' = pending_functors_
    /\ pending_functors_' = <<>>
    /\ UNCHANGED <<looping_, quit_, active_channels_, current, wakeup_fd_, call,
                   posted, ran, inlined, deferred, unwoken, early>>

\* f() is entered for the next functor of the batch ...
call_functor ==
    /\ pc = "run"
    /\ current = None
    /\ functors # <<>>
    /\ current' = Head(functors)
    /\ functors' = Tail(functors)
    /\ ran' = Append(ran, Head(functors))
    /\ UNCHANGED <<pc, looping_, quit_, calling_pending_functors_, active_channels_, wakeup_fd_,
                   call, unwoken, queueState>>

\* ... and returns.
functor_returns ==
    /\ pc = "run"
    /\ current # None
    /\ call[LoopThread] = None
    /\ current' = None
    /\ UNCHANGED <<pc, looping_, quit_, calling_pending_functors_, active_channels_, functors,
                   wakeup_fd_, call, ran, unwoken, queueState>>

\* The end of do_pending_functors.
pending_done ==
    /\ pc = "run"
    /\ current = None
    /\ functors = <<>>
    /\ calling_pending_functors_' = FALSE
    /\ pc' = "test"
    /\ UNCHANGED <<looping_, quit_, active_channels_, functors, current, wakeup_fd_,
                   call, ran, unwoken, queueState>>

\* The destructor, in the loop thread; assert(!looping_).
Destruct ==
    /\ pc \in {"constructed", "stopped"}
    /\ call[LoopThread] = None
    /\ ~looping_
    /\ pc' = "destroyed"
    /\ UNCHANGED <<looping_, quit_, calling_pending_functors_, active_channels_, functors, current,
                   wakeup_fd_, call, ran, unwoken, queueState>>

LoopBody ==
    \/ loop_test
    \/ poll
    \/ \E c \in ChannelKinds : handle_event(c)
    \/ do_pending_functors
    \/ call_functor
    \/ functor_returns
    \/ pending_done

\* Operations, entered by thread t.
Call(t) ==
    \/ \E f \in Functors : queue_in_loop(t, f) \/ run_in_loop(t, f)
    \/ quit(t)

\* The rest of the operation thread t is inside of.
Return(t) == queue_in_loop_wakeup(t) \/ quit_wakeup(t)

\* The owner destroys the loop only when no other thread is inside a call.
Next ==
    \/ Construct
    \/ loop
    \/ LoopBody
    \/ \E t \in Threads : Call(t) \/ Return(t)
    \/ Destruct /\ \A t \in Callers : call[t] = None

(***************************************************************************)
(* loop() runs until it returns: callbacks and functors terminate, and the *)
(* poll returns after its time out at the latest.  Other threads need not  *)
(* call anything, nor does anyone have to call loop().                     *)
(***************************************************************************)
Fairness == WF_vars(LoopBody \/ Return(LoopThread))

Spec == Init /\ [][Next]_vars
FairSpec == Spec /\ Fairness

-----------------------------------------------------------------------------
(* Properties *)

\* Every variable of the loop, the queue and the histories keeps its type.
TypeOK ==
    /\ pc \in LoopPcs
    /\ looping_ \in BOOLEAN
    /\ quit_ \in BOOLEAN
    /\ calling_pending_functors_ \in BOOLEAN
    /\ active_channels_ \in SUBSET ChannelKinds
    /\ pending_functors_ \in Seq(Functors)
    /\ functors \in Seq(Functors)
    /\ current \in Functors \cup {None}
    /\ wakeup_fd_ \in Nat
    /\ call \in [Threads -> Functors \cup {None, QuitCall}]
    /\ posted \in Seq(Functors)
    /\ ran \in Seq(Functors)
    /\ inlined \in SUBSET Functors
    /\ deferred \in SUBSET Functors
    /\ unwoken \in SUBSET Functors
    /\ early \in SUBSET Functors

\* No functor handed to queue_in_loop is lost, duplicated or overtaken, whatever
\* the order of push_back, swap and the calls of do_pending_functors: what has
\* run, what the batch still holds and what is pending are the posts, in order.
RunOnceInOrder == posted = ran \o functors \o pending_functors_

\* A functor queued by a channel callback runs before the loop polls again and
\* before loop() returns, even if the callback also quits the loop.
\* Connector::remove_and_reset_channel and TcpServer::remove_connection_in_loop
\* free objects this way.
DeferredRunsThisRound ==
    pc \in {"test", "poll", "stopped", "destroyed"} => deferred \subseteq Elems(ran)

\* The test in queue_in_loop calls wakeup() often enough: when the loop thread is
\* in poll, each pending functor has had its wakeup() or its poster is about to
\* make it.  The one exception is what the loop thread posted outside loop().
SleepJustified ==
    pc = "poll" =>
        \A f \in (Elems(pending_functors_) \cap unwoken) \ early : \E t \in Callers : call[t] = f

\* A functor posted to a running loop is eventually called unless the loop quits.
FunctorEventuallyRuns ==
    \A f \in Functors :
        (looping_ /\ f \in Elems(pending_functors_)) ~> (f \in Elems(ran) \/ quit_)

\* What wakeup() is for: a poll that work was announced to does not sleep until
\* its time out, the eventfd is readable.
WakeupInterruptsPoll ==
    pc = "poll" /\ Elems(pending_functors_) \ unwoken # {}
        /\ (\A t \in Threads : call[t] = None)
    => wakeup_fd_ > 0

=============================================================================
