--------------------------- MODULE EventLoopProofs ---------------------------
(***************************************************************************)
(* Proofs about EventLoop and EventLoopThread for any set of threads and   *)
(* any set of functors.                                                    *)
(***************************************************************************)
EXTENDS EventLoopThread, SequenceTheorems, TLAPS

\* What pc says about the rest of the loop's own state.
PcInv ==
    /\ looping_ <=> pc \in Looping
    /\ calling_pending_functors_ <=> pc = "run"
    /\ pc # "run" => functors = <<>> /\ current = None

\* The loop thread is inside an operation only where a callback can call one.
LoopCallInv ==
    \/ call[LoopThread] = None
    \/ pc = "events"
    \/ pc = "run" /\ current # None
    \/ pc \in {"constructed", "stopped"} /\ call[LoopThread] \in early

\* Where the functors are that channel callbacks have queued.
DeferredInv ==
    deferred \subseteq Elems(ran) \cup Elems(functors)
                       \cup (IF pc = "events" THEN Elems(pending_functors_) ELSE {})

\* A pending functor without a wakeup() has a poster about to make one, or was
\* queued by a channel callback, after which do_pending_functors comes.
WakeInv ==
    \A f \in (Elems(pending_functors_) \cap unwoken) \ early :
        (\E t \in Threads : call[t] = f) \/ pc = "events"

IInv == TypeOK /\ PcInv /\ LoopCallInv /\ RunOnceInOrder /\ DeferredInv /\ WakeInv

-----------------------------------------------------------------------------
(* Sequences *)

\* The elements of a sequence after push_back.
LEMMA AppendElems ==
    ASSUME NEW S, NEW s \in Seq(S), NEW e \in S
    PROVE  Elems(Append(s, e)) = Elems(s) \cup {e}
<1>1. /\ DOMAIN s = 1..Len(s) /\ Len(s) \in Nat
      /\ DOMAIN Append(s, e) = 1..(Len(s) + 1)
      /\ Append(s, e)[Len(s) + 1] = e
      /\ \A i \in 1..Len(s) : Append(s, e)[i] = s[i]
    OBVIOUS
<1>2. Elems(s) \cup {e} \subseteq Elems(Append(s, e))
    BY <1>1 DEF Elems
<1>3. Elems(Append(s, e)) \subseteq Elems(s) \cup {e}
    BY <1>1 DEF Elems
<1> QED BY <1>2, <1>3

\* The elements of a sequence whose head is taken off.
LEMMA HeadTailElems ==
    ASSUME NEW S, NEW s \in Seq(S), s # <<>>
    PROVE  Elems(s) = Elems(Tail(s)) \cup {Head(s)}
<1>1. /\ DOMAIN s = 1..Len(s) /\ Len(s) \in Nat /\ Len(s) > 0
      /\ Head(s) = s[1]
      /\ DOMAIN Tail(s) = 1..(Len(s) - 1)
      /\ \A i \in 1..(Len(s) - 1) : Tail(s)[i] = s[i + 1]
    OBVIOUS
<1>2. Elems(Tail(s)) \cup {Head(s)} \subseteq Elems(s)
    BY <1>1 DEF Elems
<1>3. ASSUME NEW x \in Elems(s) PROVE x \in Elems(Tail(s)) \cup {Head(s)}
  <2>1. PICK i \in 1..Len(s) : x = s[i] BY <1>1 DEF Elems
  <2>2. CASE i = 1 BY <2>1, <2>2, <1>1
  <2>3. CASE i # 1
    <3>1. i - 1 \in DOMAIN Tail(s) /\ Tail(s)[i - 1] = x BY <2>1, <2>3, <1>1
    <3> QED BY <3>1 DEF Elems
  <2> QED BY <2>2, <2>3
<1> QED BY <1>2, <1>3

\* push_back on the last of two sequences is push_back on their concatenation.
LEMMA AppendConcat ==
    ASSUME NEW S, NEW s \in Seq(S), NEW t \in Seq(S), NEW e \in S
    PROVE  s \o Append(t, e) = Append(s \o t, e)
<1>1. s \o Append(t, e) \in Seq(S) /\ Append(s \o t, e) \in Seq(S) OBVIOUS
<1>2. Len(s \o Append(t, e)) = Len(Append(s \o t, e)) OBVIOUS
<1>3. \A i \in 1..Len(s \o Append(t, e)) : (s \o Append(t, e))[i] = Append(s \o t, e)[i]
    OBVIOUS
<1> QED BY <1>1, <1>2, <1>3, SeqEqual

\* Moving the head of the second sequence to the end of the first.
LEMMA MoveHead ==
    ASSUME NEW S, NEW s \in Seq(S), NEW t \in Seq(S), t # <<>>
    PROVE  Append(s, Head(t)) \o Tail(t) = s \o t
<1>1. Append(s, Head(t)) \o Tail(t) \in Seq(S) /\ s \o t \in Seq(S) OBVIOUS
<1>2. Len(Append(s, Head(t)) \o Tail(t)) = Len(s \o t) OBVIOUS
<1>3. \A i \in 1..Len(s \o t) : (Append(s, Head(t)) \o Tail(t))[i] = (s \o t)[i]
    OBVIOUS
<1> QED BY <1>1, <1>2, <1>3, SeqEqual

-----------------------------------------------------------------------------
(* The invariant *)

\* The constructor's state satisfies the invariant.
LEMMA InitEstablishes == Init => IInv
<1> SUFFICES ASSUME Init PROVE IInv OBVIOUS
<1>1. TypeOK
  <2>1. looping_ \in BOOLEAN /\ quit_ \in BOOLEAN /\ calling_pending_functors_ \in BOOLEAN
      BY Zenon DEF Init
  <2>2. call \in [Threads -> Functors \cup {None, QuitCall}] BY DEF Init
  <2>3. <<>> \in Seq(Functors) OBVIOUS
  <2> QED BY <2>1, <2>2, <2>3 DEF Init, TypeOK, LoopPcs
<1>2. PcInv BY DEF Init, PcInv, Looping
<1>3. LoopCallInv BY DEF Init, LoopCallInv, Threads
<1>4. RunOnceInOrder BY DEF Init, RunOnceInOrder
<1>5. DeferredInv /\ WakeInv BY DEF Init, DeferredInv, WakeInv, Elems
<1> QED BY <1>1, <1>2, <1>3, <1>4, <1>5 DEF IInv

\* Posting: the one operation that adds to the queue.
LEMMA PostPreserves ==
    ASSUME IInv, NEW t \in Threads, NEW f \in Functors, queue_in_loop(t, f)
    PROVE  IInv'
<1> USE DEF queue_in_loop, loopState
<1>0. TypeOK BY DEF IInv
<1>1. TypeOK'
    BY <1>0 DEF TypeOK
<1>2. PcInv' BY DEF IInv, PcInv
<1>3. LoopCallInv'
  <2>1. CASE t = LoopThread
    BY <1>0, <2>1 DEF IInv, TypeOK, PcInv, Looping, CanCall, LoopCallInv
  <2>2. CASE t # LoopThread
    BY <1>0, <2>2 DEF IInv, TypeOK, LoopCallInv, Threads
  <2> QED BY <2>1, <2>2
<1>4. RunOnceInOrder'
  <2>1. ran \o functors \in Seq(Functors) BY <1>0 DEF TypeOK
  <2>2. (ran \o functors) \o Append(pending_functors_, f)
           = Append((ran \o functors) \o pending_functors_, f)
      BY <1>0, <2>1, AppendConcat DEF TypeOK
  <2> QED BY <2>2 DEF IInv, RunOnceInOrder
<1>5. Elems(pending_functors_') = Elems(pending_functors_) \cup {f}
    BY <1>0, AppendElems DEF TypeOK
<1>6. DeferredInv'
    BY <1>5 DEF IInv, DeferredInv
<1>7. WakeInv'
  <2> SUFFICES ASSUME NEW g \in (Elems(pending_functors_') \cap unwoken') \ early', pc # "events"
               PROVE  \E u \in Threads : call'[u] = g
      BY DEF WakeInv
  <2>1. CASE g = f
      BY <2>1, <1>0 DEF TypeOK
  <2>2. CASE g # f
    <3>1. g \in (Elems(pending_functors_) \cap unwoken) \ early BY <2>2, <1>5
    <3>2. PICK u \in Threads : call[u] = g BY <3>1 DEF IInv, WakeInv
    <3>3. u # t BY <3>2, MarkersAssumption, <1>0, <3>1 DEF CanCall, TypeOK, Elems
    <3> QED BY <3>2, <3>3, <1>0 DEF TypeOK
  <2> QED BY <2>1, <2>2
<1> QED BY <1>1, <1>2, <1>3, <1>4, <1>6, <1>7 DEF IInv

\* An operation that leaves the queue and the loop's own state alone and ends, or
\* begins, outside queue_in_loop: quit(), also in ~EventLoopThread.
LEMMA QuitPreserves ==
    ASSUME IInv, NEW t \in Threads, quit(t) \/ quit_wakeup(t) \/ (t = Owner /\ destructor)
    PROVE  IInv'
<1> USE DEF loopState, queueState
<1>0. TypeOK BY DEF IInv
<1>1. /\ UNCHANGED <<unwoken, queueState, loopState>>
      /\ quit_' \in BOOLEAN
      /\ wakeup_fd_' \in Nat
  <2>1. quit_' \in BOOLEAN BY <1>0, Zenon DEF quit, quit_wakeup, destructor, TypeOK
  <2>2. wakeup_fd_' \in Nat BY <1>0 DEF quit, quit_wakeup, destructor, wakeup, EventfdRead, TypeOK
  <2> QED BY <2>1, <2>2 DEF quit, quit_wakeup, destructor
<1>2. /\ call' \in [Threads -> Functors \cup {None, QuitCall}]
      /\ \A u \in Threads : call[u] \in Functors => call'[u] = call[u]
      /\ call'[LoopThread] = call[LoopThread] \/ call'[LoopThread] = None
    BY <1>0, MarkersAssumption, ThreadsAssumption, OwnerAssumption
        DEF quit, quit_wakeup, destructor, CanCall, TypeOK, Threads
<1>3. TypeOK' BY <1>0, <1>1, <1>2 DEF TypeOK
<1>4. PcInv' BY <1>1 DEF IInv, PcInv
<1>5. LoopCallInv' BY <1>1, <1>2 DEF IInv, LoopCallInv
<1>6. RunOnceInOrder' BY <1>1 DEF IInv, RunOnceInOrder
<1>7. DeferredInv' BY <1>1 DEF IInv, DeferredInv
<1>8. WakeInv'
  <2> SUFFICES ASSUME NEW g \in (Elems(pending_functors_) \cap unwoken) \ early, pc # "events"
               PROVE  \E u \in Threads : call'[u] = g
      BY <1>1 DEF WakeInv
  <2>1. PICK u \in Threads : call[u] = g BY DEF IInv, WakeInv
  <2> QED BY <2>1, <1>2, <1>0 DEF TypeOK
<1> QED BY <1>3, <1>4, <1>5, <1>6, <1>7, <1>8 DEF IInv

\* The second half of queue_in_loop.  A functor keeps no wakeup() only when its
\* poster is the loop thread outside do_pending_functors.
LEMMA WakePreserves ==
    ASSUME IInv, NEW t \in Threads, queue_in_loop_wakeup(t)
    PROVE  IInv'
<1> USE DEF queue_in_loop_wakeup, loopState, queueState
<1>0. TypeOK BY DEF IInv
<1>1. /\ UNCHANGED <<queueState, loopState>>
      /\ unwoken' \subseteq unwoken
      /\ wakeup_fd_' \in Nat
    BY <1>0 DEF wakeup, EventfdRead, TypeOK
<1>2. TypeOK' BY <1>0, <1>1 DEF TypeOK
<1>3. PcInv' BY <1>1 DEF IInv, PcInv
<1>4. LoopCallInv' BY <1>0, <1>1 DEF IInv, LoopCallInv, TypeOK, Threads
<1>5. RunOnceInOrder' BY <1>1 DEF IInv, RunOnceInOrder
<1>6. DeferredInv' BY <1>1 DEF IInv, DeferredInv
<1>7. WakeInv'
  <2> SUFFICES ASSUME NEW g \in (Elems(pending_functors_) \cap unwoken') \ early, pc # "events"
               PROVE  \E u \in Threads : call'[u] = g
      BY <1>1 DEF WakeInv
  <2>1. PICK u \in Threads : call[u] = g BY <1>1 DEF IInv, WakeInv
  <2>2. CASE u # t BY <2>1, <2>2, <1>0 DEF TypeOK
  <2>3. CASE u = t
    <3>1. ~NeedsWakeup(t) BY <2>1, <2>3
    <3>2. t = LoopThread /\ pc # "run" BY <3>1 DEF NeedsWakeup, IInv, PcInv
    <3>3. call[t] \in early BY <3>2, MarkersAssumption DEF IInv, LoopCallInv
    <3> QED BY <3>3, <2>1, <2>3
  <2> QED BY <2>2, <2>3
<1> QED BY <1>2, <1>3, <1>4, <1>5, <1>6, <1>7 DEF IInv

\* run_in_loop calls the functor at once or is queue_in_loop.
LEMMA RunInLoopPreserves ==
    ASSUME IInv, NEW t \in Threads, NEW f \in Functors, run_in_loop(t, f)
    PROVE  IInv'
<1>1. CASE t # LoopThread BY <1>1, PostPreserves DEF run_in_loop
<1>2. CASE t = LoopThread
  <2> USE <1>2 DEF run_in_loop, loopState
  <2>1. TypeOK' BY DEF IInv, TypeOK
  <2>2. PcInv' BY DEF IInv, PcInv
  <2>3. LoopCallInv' BY DEF IInv, LoopCallInv
  <2>4. RunOnceInOrder' BY DEF IInv, RunOnceInOrder
  <2>5. DeferredInv' BY DEF IInv, DeferredInv
  <2>6. WakeInv' BY DEF IInv, WakeInv
  <2> QED BY <2>1, <2>2, <2>3, <2>4, <2>5, <2>6 DEF IInv
<1> QED BY <1>1, <1>2

\* The steps of the loop thread that touch neither the queue nor the batch.
ControlStep ==
    \/ Construct
    \/ loop
    \/ loop_test
    \/ poll
    \/ \E c \in ChannelKinds : handle_event(c)
    \/ functor_returns
    \/ Destruct

\* The steps that only move the loop thread on.
LEMMA ControlPreserves ==
    ASSUME IInv, ControlStep
    PROVE  IInv'
<1> USE DEF queueState
<1>0. TypeOK BY DEF IInv
<1>1. /\ UNCHANGED <<pending_functors_, posted, inlined, deferred, early, unwoken, functors, ran, call>>
      /\ calling_pending_functors_' = calling_pending_functors_
    BY DEF ControlStep, Construct, loop, loop_test, poll, handle_event, functor_returns, Destruct
<1>2. TypeOK'
  <2>1. looping_' \in BOOLEAN /\ quit_' \in BOOLEAN
      BY <1>0, Zenon DEF ControlStep, Construct, loop, loop_test, poll, handle_event,
                         functor_returns, Destruct, TypeOK
  <2>2. pc' \in LoopPcs /\ active_channels_' \in SUBSET ChannelKinds
      BY <1>0 DEF ControlStep, Construct, loop, loop_test, poll, handle_event,
                  functor_returns, Destruct, TypeOK, LoopPcs, ChannelKinds
  <2>3. wakeup_fd_' \in Nat /\ current' \in Functors \cup {None}
      BY <1>0 DEF ControlStep, Construct, loop, loop_test, poll, handle_event,
                  functor_returns, Destruct, TypeOK, EventfdRead, handle_read
  <2> QED BY <1>0, <1>1, <2>1, <2>2, <2>3 DEF TypeOK
<1>3. PcInv'
    BY <1>0 DEF IInv, PcInv, Looping, ControlStep, Construct, loop, loop_test, poll, handle_event,
           functor_returns, Destruct
<1>4. LoopCallInv'
    BY <1>1 DEF IInv, LoopCallInv, ControlStep, Construct, loop, loop_test, poll, handle_event,
           functor_returns, Destruct
<1>5. RunOnceInOrder' BY <1>1 DEF IInv, RunOnceInOrder
<1>6. pc = "events" => pc' = "events"
    BY DEF ControlStep, Construct, loop, loop_test, poll, handle_event, functor_returns, Destruct
<1>7. DeferredInv' BY <1>1, <1>6 DEF IInv, DeferredInv
<1>8. WakeInv' BY <1>1, <1>6 DEF IInv, WakeInv
<1> QED BY <1>2, <1>3, <1>4, <1>5, <1>7, <1>8 DEF IInv

\* do_pending_functors: the swap, each call, the end.
LEMMA SwapPreserves == ASSUME IInv, do_pending_functors PROVE IInv'
<1> USE DEF do_pending_functors
<1>0. TypeOK BY DEF IInv
<1>1. functors = <<>> /\ current = None BY DEF IInv, PcInv
<1>2. TypeOK' BY <1>0 DEF TypeOK, LoopPcs
<1>3. PcInv' BY DEF IInv, PcInv, Looping
<1>4. LoopCallInv' BY DEF LoopCallInv
<1>5. RunOnceInOrder'
  <2>1. ran \o <<>> = ran BY <1>0 DEF TypeOK
  <2>2. (ran \o pending_functors_) \o <<>> = ran \o pending_functors_ BY <1>0 DEF TypeOK
  <2> QED BY <1>1, <2>1, <2>2 DEF IInv, RunOnceInOrder
<1>6. Elems(<<>>) = {} BY DEF Elems
<1>7. DeferredInv' BY <1>1, <1>6 DEF IInv, DeferredInv
<1>8. WakeInv' BY <1>6 DEF WakeInv
<1> QED BY <1>2, <1>3, <1>4, <1>5, <1>7, <1>8 DEF IInv

\* Entering a functor moves it from the batch to the history.
LEMMA CallPreserves == ASSUME IInv, call_functor PROVE IInv'
<1> USE DEF call_functor, queueState
<1>0. TypeOK BY DEF IInv
<1>1. Head(functors) \in Functors /\ Tail(functors) \in Seq(Functors) BY <1>0 DEF TypeOK
<1>2. TypeOK' BY <1>0, <1>1 DEF TypeOK
<1>3. PcInv' BY DEF IInv, PcInv
<1>4. LoopCallInv' BY <1>1, MarkersAssumption DEF IInv, LoopCallInv
<1>5. RunOnceInOrder' BY <1>0, MoveHead DEF IInv, TypeOK, RunOnceInOrder
<1>6. Elems(ran') \cup Elems(functors') = Elems(ran) \cup Elems(functors)
  <2>1. Elems(ran') = Elems(ran) \cup {Head(functors)} BY <1>0, <1>1, AppendElems DEF TypeOK
  <2>2. Elems(functors) = Elems(functors') \cup {Head(functors)}
      BY <1>0, HeadTailElems DEF TypeOK
  <2> QED BY <2>1, <2>2
<1>7. DeferredInv' BY <1>6 DEF IInv, DeferredInv
<1>8. WakeInv' BY DEF IInv, WakeInv
<1> QED BY <1>2, <1>3, <1>4, <1>5, <1>7, <1>8 DEF IInv

\* The batch is empty at the end of do_pending_functors.
LEMMA DonePreserves == ASSUME IInv, pending_done PROVE IInv'
<1> USE DEF pending_done, queueState
<1>2. TypeOK' BY DEF IInv, TypeOK, LoopPcs
<1>3. PcInv' BY DEF IInv, PcInv, Looping
<1>4. LoopCallInv' BY DEF IInv, LoopCallInv
<1>5. RunOnceInOrder' BY DEF IInv, RunOnceInOrder
<1>7. DeferredInv' BY DEF IInv, DeferredInv
<1>8. WakeInv' BY DEF IInv, WakeInv
<1> QED BY <1>2, <1>3, <1>4, <1>5, <1>7, <1>8 DEF IInv

\* IInv is inductive: every step of the loop thread and of any other thread
\* preserves it.
LEMMA NextPreserves == IInv /\ [Next]_vars => IInv'
<1> SUFFICES ASSUME IInv, [Next]_vars PROVE IInv' OBVIOUS
<1>1. CASE Construct BY <1>1, ControlPreserves DEF ControlStep
<1>2. CASE loop BY <1>2, ControlPreserves DEF ControlStep
<1>3. CASE LoopBody
    BY <1>3, ControlPreserves, SwapPreserves, CallPreserves, DonePreserves DEF LoopBody, ControlStep
<1>4. CASE \E t \in Threads : Call(t)
    BY <1>4, PostPreserves, RunInLoopPreserves, QuitPreserves DEF Call
<1>5. CASE \E t \in Threads : Return(t)
    BY <1>5, WakePreserves, QuitPreserves DEF Return
<1>6. CASE Destruct BY <1>6, ControlPreserves DEF ControlStep
<1>7. CASE UNCHANGED vars
    BY <1>7 DEF vars, IInv, TypeOK, PcInv, LoopCallInv, RunOnceInOrder, DeferredInv, WakeInv
<1> QED BY <1>1, <1>2, <1>3, <1>4, <1>5, <1>6, <1>7 DEF Next

\* IInv holds in every reachable state.
LEMMA Invariance == Spec => []IInv
<1> QED BY InitEstablishes, NextPreserves, PTL DEF Spec

-----------------------------------------------------------------------------
(* The theorems *)

\* Every variable of an EventLoop keeps its type, for any number of threads.
THEOREM TypeCorrect == Spec => []TypeOK
<1>1. IInv => TypeOK BY DEF IInv
<1> QED BY <1>1, Invariance, PTL

\* queue_in_loop and do_pending_functors lose, duplicate and reorder nothing,
\* however many threads post however many functors.
THEOREM QueueIsFifo == Spec => []RunOnceInOrder
<1>1. IInv => RunOnceInOrder BY DEF IInv
<1> QED BY <1>1, Invariance, PTL

\* The batch is empty and nothing deferred is pending when the loop tests quit_.
LEMMA DeferredFollows == IInv => DeferredRunsThisRound
<1> SUFFICES ASSUME IInv, pc \in {"test", "poll", "stopped", "destroyed"}
             PROVE  deferred \subseteq Elems(ran)
    BY DEF DeferredRunsThisRound
<1>1. functors = <<>> /\ pc # "events" BY DEF IInv, PcInv
<1>2. Elems(<<>>) = {} BY DEF Elems
<1> QED BY <1>1, <1>2 DEF IInv, DeferredInv

\* The loop thread is not inside a call while it polls.
LEMMA SleepFollows == IInv => SleepJustified
<1> SUFFICES ASSUME IInv, pc = "poll",
                    NEW f \in (Elems(pending_functors_) \cap unwoken) \ early
             PROVE  \E t \in Callers : call[t] = f
    BY DEF SleepJustified
<1>1. PICK t \in Threads : call[t] = f BY DEF IInv, WakeInv
<1>2. f \in Functors BY DEF IInv, TypeOK
<1>3. t # LoopThread BY <1>1, <1>2, MarkersAssumption DEF IInv, LoopCallInv
<1> QED BY <1>1, <1>3 DEF Threads

\* What a channel callback defers has run when the loop tests quit_ again.
THEOREM DeferredRuns == Spec => []DeferredRunsThisRound
BY DeferredFollows, Invariance, PTL

\* The wakeup() test of queue_in_loop misses no functor a polling loop would
\* sleep on, except those the loop thread queued outside loop().
THEOREM NoSilentSleep == Spec => []SleepJustified
BY SleepFollows, Invariance, PTL

-----------------------------------------------------------------------------
(* EventLoopThread *)

\* Where the thread and its loop are in the life of the EventLoopThread object.  loop()
\* returns only when it was told to quit, and thread_func does not call it again.
LifeInv ==
    /\ owner = "idle" => thread_ = "none"
    /\ owner = "done" => thread_ = "ended"
    /\ thread_ = "none" => pc = "none"
    /\ thread_ = "ended" => pc = "destroyed"
    /\ loop_ => pc # "none"
    /\ owner = "started" => loop_
    /\ pc \in {"stopped", "destroyed"} => quit_

ThreadIInv == IInv /\ ThreadTypeOK /\ LifeInv

\* The EventLoopThread object as it is constructed satisfies the invariant.
LEMMA ThreadInitEstablishes == ThreadInit => ThreadIInv
<1> SUFFICES ASSUME ThreadInit PROVE ThreadIInv OBVIOUS
<1>1. IInv BY InitEstablishes DEF ThreadInit
<1>2. loop_ \in BOOLEAN /\ exiting_ \in BOOLEAN BY Zenon DEF ThreadInit
<1>3. ThreadTypeOK BY <1>2 DEF ThreadInit, ThreadTypeOK, OwnerPcs
<1>4. LifeInv BY DEF ThreadInit, Init, LifeInv
<1> QED BY <1>1, <1>3, <1>4 DEF ThreadIInv

\* A step of the owner or of thread_func in which the EventLoop takes no part.
LEMMA UnchangedPreserves == ASSUME IInv, UNCHANGED vars PROVE IInv'
BY DEF vars, IInv, TypeOK, PcInv, LoopCallInv, RunOnceInOrder, DeferredInv, WakeInv

\* start_loop, its wait, the publication of loop_, the join.
LEMMA HandshakePreserves ==
    ASSUME ThreadIInv,
           start_loop \/ start_loop_wait \/ destructor_null \/ destructor_join \/ thread_func_publish
    PROVE  ThreadIInv'
<1> USE DEF start_loop, start_loop_wait, destructor_null, destructor_join, thread_func_publish
<1>1. UNCHANGED vars OBVIOUS
<1>2. IInv' BY <1>1, UnchangedPreserves DEF ThreadIInv
<1>3. pc' = pc /\ quit_' = quit_ BY <1>1 DEF vars
<1>4. loop_' \in BOOLEAN /\ exiting_' \in BOOLEAN BY Zenon DEF ThreadIInv, ThreadTypeOK
<1>5. ThreadTypeOK' BY <1>4 DEF ThreadIInv, ThreadTypeOK, OwnerPcs
<1>6. LifeInv' BY <1>3 DEF ThreadIInv, LifeInv
<1> QED BY <1>2, <1>5, <1>6 DEF ThreadIInv

\* ~EventLoopThread calls quit(), on whatever has become of the loop.
LEMMA DestructorPreserves ==
    ASSUME ThreadIInv, destructor \/ destructor_quit_returns
    PROVE  ThreadIInv'
<1>1. IInv' BY QuitPreserves, OwnerAssumption DEF ThreadIInv, destructor_quit_returns, Threads
<1>2. pc' = pc /\ loop_' = loop_ /\ thread_' = thread_
    BY DEF destructor, destructor_quit_returns, quit_wakeup, loopState
<1>3. quit_ => quit_' BY DEF destructor, destructor_quit_returns, quit_wakeup
<1>4. exiting_' \in BOOLEAN BY Zenon DEF ThreadIInv, ThreadTypeOK, destructor, destructor_quit_returns
<1>5. owner' \in {"quitting", "joining"} BY DEF destructor, destructor_quit_returns
<1>6. ThreadTypeOK' BY <1>2, <1>4, <1>5 DEF ThreadIInv, ThreadTypeOK, OwnerPcs
<1>7. LifeInv' BY <1>2, <1>3, <1>5 DEF ThreadIInv, LifeInv
<1> QED BY <1>1, <1>6, <1>7 DEF ThreadIInv

\* The EventLoop is constructed and loop() called.
LEMMA EnterPreserves ==
    ASSUME ThreadIInv, thread_func_construct \/ thread_func_loop
    PROVE  ThreadIInv'
<1>1. Construct \/ loop BY DEF thread_func_construct, thread_func_loop
<1>2. IInv' BY <1>1, ControlPreserves DEF ThreadIInv, ControlStep
<1>3. UNCHANGED ownerVars BY DEF thread_func_construct, thread_func_loop
<1>4. ThreadTypeOK' BY <1>3 DEF ThreadIInv, ThreadTypeOK, ownerVars
<1>5. pc \notin {"stopped", "destroyed"} /\ pc' \in {"constructed", "test"}
    BY DEF thread_func_construct, thread_func_loop, Construct, loop
<1>6. thread_ # "none" BY DEF ThreadIInv, LifeInv, thread_func_construct, thread_func_loop
<1>7. LifeInv' BY <1>3, <1>5, <1>6 DEF ThreadIInv, LifeInv, ownerVars
<1> QED BY <1>2, <1>4, <1>7 DEF ThreadIInv

\* The body of loop() leaves for "stopped" only when quit_ is set.
LEMMA BodyPreserves ==
    ASSUME ThreadIInv, LoopBody, UNCHANGED ownerVars
    PROVE  ThreadIInv'
<1>1. IInv' BY ControlPreserves, SwapPreserves, CallPreserves, DonePreserves
    DEF ThreadIInv, LoopBody, ControlStep
<1>2. ThreadTypeOK' BY DEF ThreadIInv, ThreadTypeOK, ownerVars
<1>3. quit_' = quit_ BY DEF LoopBody, loop_test, poll, handle_event, do_pending_functors, call_functor,
                            functor_returns, pending_done
<1>4. /\ pc \in Looping /\ pc' \in Looping \cup {"stopped"}
      /\ pc' = "stopped" => quit_
    BY DEF LoopBody, loop_test, poll, handle_event, do_pending_functors, call_functor,
           functor_returns, pending_done, Looping
<1>5. LifeInv' BY <1>3, <1>4 DEF ThreadIInv, LifeInv, ownerVars, Looping
<1> QED BY <1>1, <1>2, <1>5 DEF ThreadIInv

\* Calls of the EventLoop's operations, by any thread.
LEMMA OperationPreserves ==
    ASSUME ThreadIInv, NEW t \in Threads, Call(t) \/ Return(t), UNCHANGED ownerVars
    PROVE  ThreadIInv'
<1>1. IInv' BY PostPreserves, RunInLoopPreserves, QuitPreserves, WakePreserves DEF ThreadIInv, Call, Return
<1>2. ThreadTypeOK' BY DEF ThreadIInv, ThreadTypeOK, ownerVars
<1>3. pc' = pc BY DEF Call, Return, queue_in_loop, run_in_loop, quit, queue_in_loop_wakeup, quit_wakeup,
                      loopState
<1>4. quit_ => quit_' BY DEF Call, Return, queue_in_loop, run_in_loop, quit, queue_in_loop_wakeup, quit_wakeup
<1>5. LifeInv' BY <1>3, <1>4 DEF ThreadIInv, LifeInv, ownerVars
<1> QED BY <1>1, <1>2, <1>5 DEF ThreadIInv

\* thread_func returns.
LEMMA ReturnPreserves ==
    ASSUME ThreadIInv, thread_func_return
    PROVE  ThreadIInv'
<1>1. IInv' BY ControlPreserves DEF ThreadIInv, ControlStep, thread_func_return
<1>2. /\ pc = "stopped" /\ pc' = "destroyed" /\ quit_' = quit_ /\ thread_' = "ended"
      /\ UNCHANGED <<owner, loop_, exiting_>>
    BY DEF thread_func_return, Destruct
<1>3. ThreadTypeOK' BY <1>2 DEF ThreadIInv, ThreadTypeOK
<1>4. owner # "idle"
  <2>1. pc # "none" BY <1>2
  <2> QED BY <1>2 DEF ThreadIInv, LifeInv
<1>5. LifeInv' BY <1>2, <1>4 DEF ThreadIInv, LifeInv
<1> QED BY <1>1, <1>3, <1>5 DEF ThreadIInv

\* ThreadIInv is inductive.
LEMMA ThreadNextPreserves == ThreadIInv /\ [ThreadNext]_threadVars => ThreadIInv'
<1> SUFFICES ASSUME ThreadIInv, [ThreadNext]_threadVars PROVE ThreadIInv' OBVIOUS
<1>1. CASE start_loop \/ start_loop_wait \/ destructor_null \/ destructor_join \/ thread_func_publish
    BY <1>1, HandshakePreserves
<1>2. CASE destructor \/ destructor_quit_returns BY <1>2, DestructorPreserves
<1>3. CASE thread_func_construct \/ thread_func_loop BY <1>3, EnterPreserves
<1>4. CASE thread_func_body BY <1>4, BodyPreserves, OperationPreserves DEF thread_func_body, Threads
<1>5. CASE thread_func_callback BY <1>5, OperationPreserves DEF thread_func_callback, Threads
<1>6. CASE \E t \in Callers : user_call(t) \/ user_return(t)
    BY <1>6, OperationPreserves DEF user_call, user_return, Threads
<1>7. CASE thread_func_return BY <1>7, ReturnPreserves
<1>8. CASE UNCHANGED threadVars
  <2>1. UNCHANGED vars /\ UNCHANGED ownerVars BY <1>8 DEF threadVars
  <2>2. IInv' BY <2>1, UnchangedPreserves DEF ThreadIInv
  <2>3. ThreadTypeOK' /\ LifeInv' BY <2>1 DEF ThreadIInv, ThreadTypeOK, LifeInv, ownerVars, vars
  <2> QED BY <2>2, <2>3 DEF ThreadIInv
<1> QED BY <1>1, <1>2, <1>3, <1>4, <1>5, <1>6, <1>7, <1>8 DEF ThreadNext, OwnerStep, ThreadFunc

\* ThreadIInv holds in every reachable state.
LEMMA ThreadInvariance == ThreadSpec => []ThreadIInv
BY ThreadInitEstablishes, ThreadNextPreserves, PTL DEF ThreadSpec

\* ~EventLoopThread calls quit() on a loop that is gone only if quit() was called before:
\* nothing else makes thread_func return.
THEOREM QuitMeetsALoop == ThreadSpec => DestructorQuitsLiveLoop
<1>1. ThreadIInv => (owner = "started" => Exists \/ quit_) BY DEF ThreadIInv, LifeInv, Exists
<1>2. ThreadIInv /\ [ThreadNext]_threadVars
          => [owner = "started" /\ owner' = "quitting" => Exists \/ quit_]_threadVars
    BY <1>1
<1> QED BY <1>2, ThreadInvariance, PTL DEF ThreadSpec, DestructorQuitsLiveLoop

\* An EventLoop in an EventLoopThread keeps its promises about functors, although the
\* destructors of the two objects break the rules the EventLoop alone relies on: the loop
\* goes while other threads are inside calls, and quit() is called when it has gone.
THEOREM ThreadQueueIsFifo == ThreadSpec => []RunOnceInOrder
<1>1. ThreadIInv => RunOnceInOrder BY DEF ThreadIInv, IInv
<1> QED BY <1>1, ThreadInvariance, PTL

\* What a channel callback of such a loop defers has run before loop() returns, and so before
\* ~EventLoopThread does.
THEOREM ThreadDeferredRuns == ThreadSpec => []DeferredRunsThisRound
<1>1. ThreadIInv => DeferredRunsThisRound BY DeferredFollows DEF ThreadIInv
<1> QED BY <1>1, ThreadInvariance, PTL

\* Such a loop does not sleep on a functor either that nobody announced.
THEOREM ThreadNoSilentSleep == ThreadSpec => []SleepJustified
<1>1. ThreadIInv => SleepJustified BY SleepFollows DEF ThreadIInv
<1> QED BY <1>1, ThreadInvariance, PTL
=============================================================================
