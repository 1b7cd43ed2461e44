--------------------------- MODULE EventLoopThread ---------------------------
(***************************************************************************)
(* event_loop/EventLoopThread.{hpp,cpp}: a thread whose stack holds an     *)
(* EventLoop, started by start_loop() and joined by the destructor.        *)
(*                                                                         *)
(* The loop itself is EventLoop: LoopThread is the thread that start_loop  *)
(* spawns, and Owner, one of the Callers, is the thread that owns the      *)
(* EventLoopThread object.  The loop's pointer is known to nobody before   *)
(* start_loop() has returned it, and the owner may then hand it on.        *)
(***************************************************************************)
EXTENDS EventLoop

CONSTANT Owner

ASSUME OwnerAssumption == Owner \in Callers

VARIABLES
    owner,    \* where the owner is in the life of the EventLoopThread object
    loop_,    \* the pointer to the loop has been published (it is never reset)
    thread_,  \* "none", "running" or "ended"
    exiting_

ownerVars == <<owner, loop_, thread_, exiting_>>
threadVars == <<vars, ownerVars>>

OwnerPcs == {"idle",      \* constructed, start_loop not called yet
             "waiting",   \* in start_loop, about to test loop_ under mut_
             "sleeping",  \* in cond_.wait
             "started",   \* start_loop has returned
             "quitting",  \* in the destructor, inside loop_->quit()
             "joining",   \* in the destructor, inside thread_.join()
             "done",      \* the EventLoopThread object is gone
             "crashed"}   \* quit() has been called through a null loop_

ThreadInit ==
    /\ Init
    /\ owner = "idle"
    /\ loop_ = FALSE
    /\ thread_ = "none"
    /\ exiting_ = FALSE

-----------------------------------------------------------------------------
(* The owner *)

\* start_loop(): the thread is created ...
start_loop ==
    /\ owner = "idle"
    /\ owner' = "waiting"
    /\ thread_' = "running"
    /\ UNCHANGED <<vars, loop_, exiting_>>

\* ... and the owner waits, with mut_ held at each test, until loop_ is set.
start_loop_wait ==
    /\ owner = "waiting"
    /\ owner' = IF loop_ THEN "started" ELSE "sleeping"
    /\ UNCHANGED <<vars, loop_, thread_, exiting_>>

\* ~EventLoopThread() of an object that was never started: loop_ is null.
destructor_null ==
    /\ owner = "idle"
    /\ owner' = "crashed"
    /\ exiting_' = TRUE
    /\ UNCHANGED <<vars, loop_, thread_>>

\* ~EventLoopThread(): loop_->quit(), whatever has become of the loop ...
destructor ==
    /\ owner = "started"
    /\ call[Owner] = None
    /\ owner' = "quitting"
    /\ exiting_' = TRUE
    /\ quit_' = TRUE
    /\ call' = [call EXCEPT ![Owner] = QuitCall]
    /\ UNCHANGED <<loop_, thread_, wakeup_fd_, unwoken, queueState, loopState>>

\* ... with its wakeup() ...
destructor_quit_returns ==
    /\ owner = "quitting"
    /\ owner' = "joining"
    /\ quit_wakeup(Owner)
    /\ UNCHANGED <<loop_, thread_, exiting_>>

\* ... and thread_.join().
destructor_join ==
    /\ owner = "joining"
    /\ thread_ = "ended"
    /\ owner' = "done"
    /\ UNCHANGED <<vars, loop_, thread_, exiting_>>

-----------------------------------------------------------------------------
(* thread_func *)

\* EventLoop loop;
thread_func_construct ==
    /\ thread_ = "running"
    /\ Construct
    /\ UNCHANGED ownerVars

\* Mutant: loop_ is set without notify_all.
thread_func_publish_NoNotify ==
    /\ pc = "constructed"
    /\ ~loop_
    /\ loop_' = TRUE
    /\ UNCHANGED <<vars, owner, thread_, exiting_>>

\* loop_ = &loop; cond_.notify_all();
thread_func_publish ==
    /\ pc = "constructed"
    /\ ~loop_
    /\ loop_' = TRUE
    /\ owner' = IF owner = "sleeping" THEN "waiting" ELSE owner
    /\ UNCHANGED <<vars, thread_, exiting_>>

\* loop.loop()
thread_func_loop ==
    /\ loop_
    /\ pc = "constructed"
    /\ loop
    /\ UNCHANGED ownerVars

\* loop() runs.
thread_func_body ==
    /\ LoopBody \/ Return(LoopThread)
    /\ UNCHANGED ownerVars

\* A callback or functor uses the loop.  There is none before start_loop() has
\* returned, since registering one takes the loop's pointer.
thread_func_callback ==
    /\ owner \notin {"idle", "waiting", "sleeping"}
    /\ pc \in Looping
    /\ Call(LoopThread)
    /\ UNCHANGED ownerVars

\* Mutant: loop() is not called.
thread_func_return_NoLoop ==
    /\ loop_
    /\ Destruct
    /\ thread_' = "ended"
    /\ UNCHANGED <<owner, loop_, exiting_>>

\* The local EventLoop is destroyed when loop() has returned; the thread ends.
thread_func_return ==
    /\ pc = "stopped"
    /\ Destruct
    /\ thread_' = "ended"
    /\ UNCHANGED <<owner, loop_, exiting_>>

ThreadFunc ==
    \/ thread_func_construct
    \/ thread_func_publish
    \/ thread_func_loop
    \/ thread_func_body
    \/ thread_func_return

\* Owner and the threads it gave the pointer to use the loop until the destructor.
user_call(t) ==
    /\ owner = "started"
    /\ Call(t)
    /\ UNCHANGED ownerVars

user_return(t) ==
    /\ owner # "quitting" \/ t # Owner
    /\ Return(t)
    /\ UNCHANGED ownerVars

OwnerStep ==
    \/ start_loop_wait
    \/ destructor_quit_returns
    \/ destructor_join

ThreadNext ==
    \/ start_loop
    \/ OwnerStep
    \/ destructor
    \/ destructor_null
    \/ ThreadFunc
    \/ thread_func_callback
    \/ \E t \in Callers : user_call(t) \/ user_return(t)

(***************************************************************************)
(* Both threads are scheduled.  start_loop() and the destructor are called *)
(* or not as the user likes.                                               *)
(***************************************************************************)
ThreadFairness ==
    /\ WF_threadVars(OwnerStep)
    /\ WF_threadVars(ThreadFunc)

ThreadSpec == ThreadInit /\ [][ThreadNext]_threadVars
FairThreadSpec == ThreadSpec /\ ThreadFairness

-----------------------------------------------------------------------------
(* Properties *)

\* The EventLoopThread's own variables keep their types.
ThreadTypeOK ==
    /\ owner \in OwnerPcs
    /\ loop_ \in BOOLEAN
    /\ thread_ \in {"none", "running", "ended"}
    /\ exiting_ \in BOOLEAN

\* start_loop() returns: the notify_all under mut_ is not lost, whether it comes
\* before the owner's first test of loop_ or while it sleeps.
StartLoopReturns == (owner = "waiting") ~> (owner = "started")

\* The destructor's quit() meets a loop that exists, unless somebody had told the loop to quit
\* before: thread_func then ends, and loop_ keeps pointing to its local EventLoop.
DestructorQuitsLiveLoop ==
    [][owner = "started" /\ owner' = "quitting" => Exists \/ quit_]_threadVars

\* The destructor returns: its quit() ends the loop and the thread can be joined,
\* provided loop() has begun; loop() forgets a quit() that comes before it.
DestructorReturns == (owner = "quitting" /\ quit_ /\ pc \in Looping) ~> (owner = "done")

=============================================================================
