----------------------------- MODULE TimerQueue -----------------------------
(***************************************************************************)
(* time_utils/TimerQueue.{hpp,cpp} with Timer, TimerId and TimeStamp: the  *)
(* timers of one EventLoop, its timerfd, and the threads that add and      *)
(* cancel timers.                                                          *)
(*                                                                         *)
(* Time is counted in ticks of the clock that TimeStamps are taken from;   *)
(* Micro ticks make the microsecond that how_much_time_from_now rounds to. *)
(* The multimap timers_ is the set of its timers, each under its           *)
(* expiration_ as key; timers with the same key may run in either order.   *)
(* A call from another thread goes through EventLoop::run_in_loop, whose   *)
(* queue (module EventLoop) keeps the order of the calls.                  *)
(***************************************************************************)
EXTENDS Integers, Sequences

CONSTANTS
    Timers,       \* Timer objects; each is added at most once
    Interval,     \* [Timers -> Nat]: interval_, 0 for a one-shot timer
    Delays,       \* the delays run_after is called with
    Micro,        \* ticks per microsecond
    MinDelay,     \* the least delay the timerfd is armed with (100 microseconds)
    Word,         \* 2^64, in microseconds
    MaxClock      \* bound of the clock

ASSUME IntervalAssumption == Interval \in [Timers -> Nat]
ASSUME TimeAssumption ==
    /\ Delays \subseteq Nat
    /\ Micro \in Nat \ {0}
    /\ MinDelay \in Nat \ {0}
    /\ Word \in Nat \ {0}
    /\ MaxClock \in Nat

Disarmed == -1

VARIABLES
    clock,        \* system_clock::now()
    timers_,
    expiration_,  \* per timer; 0 before the timer is constructed
    timer_fd_,    \* when the timerfd becomes readable, or Disarmed
    pc,           \* the loop thread: "idle", "active", "running" or "aborted"
    now,          \* handle_read's local variables
    expired,
    todo,         \* the timers of expired whose run() is still to come
    pending,      \* calls queued by other threads
    created,      \* history: timers passed to add_timer
    first,        \* history: the expiration each timer was added with
    runs,         \* history: how often each timer's callback was called
    cancelled,    \* history: timers cancel_in_loop was called with after they were added
    erased,       \* history: timers cancel_in_loop erased
    armed         \* history: the last timerfd_settime, for which time and when

vars == <<clock, timers_, expiration_, timer_fd_, pc, now, expired, todo, pending,
          created, first, runs, cancelled, erased, armed>>

\* Timers whose add_timer_in_loop is still queued.
Queued == {pending[i].timer : i \in {j \in DOMAIN pending : pending[j].op = "add"}}

Init ==
    /\ clock = 0
    /\ timers_ = {}
    /\ expiration_ = [t \in Timers |-> 0]
    /\ timer_fd_ = Disarmed
    /\ pc = "idle"
    /\ now = 0
    /\ expired = {}
    /\ todo = {}
    /\ pending = <<>>
    /\ created = {}
    /\ first = [t \in Timers |-> 0]
    /\ runs = [t \in Timers |-> 0]
    /\ cancelled = {}
    /\ erased = {}
    /\ armed = [for |-> 0, at |-> 0]

-----------------------------------------------------------------------------
(* Timers and the timerfd *)

\* Timer::repeat()
Repeat(t) == Interval[t] > 0

\* The quotient of two durations, which C++ truncates toward zero.
Quotient(a, b) == IF a >= 0 THEN a \div b ELSE -((-a) \div b)

\* how_much_time_from_now, in ticks.  The quotient is stored in a uint64_t before
\* it is compared with 100: a time that has passed becomes a huge delay.
how_much_time_from_now(when) ==
    LET ms_interval == (Quotient(when - clock, Micro) % Word) * Micro
    IN  IF ms_interval < MinDelay THEN MinDelay ELSE ms_interval

\* reset_timer_fd: timerfd_settime with a relative time.
reset_timer_fd(when) ==
    /\ timer_fd_' = clock + how_much_time_from_now(when)
    /\ armed' = [for |-> when, at |-> clock]

\* timers_.begin()->first: the least key.
Earliest(S, e) == CHOOSE w \in {e[t] : t \in S} : \A t \in S : w <= e[t]

\* Mutant: only the first timer arms the timerfd.
EarliestChanged_FirstOnly(when) == timers_ = {}

\* insert()'s result: the new timer goes in front of all others.
EarliestChanged(when) == \A t \in timers_ : when < expiration_[t]

-----------------------------------------------------------------------------
(* Operations of the loop thread: outside handle_read, or from a callback in it *)

InLoopThread == pc \in {"idle", "active"} \/ (pc = "running" /\ todo # expired)

\* insert, and reset_timer_fd if the new timer is the earliest.
add_timer_in_loop(t, when) ==
    /\ timers_' = timers_ \cup {t}
    /\ IF EarliestChanged(when) THEN reset_timer_fd(when) ELSE UNCHANGED <<timer_fd_, armed>>
    /\ UNCHANGED <<cancelled, erased>>

\* The timer is looked for in timers_ only, and erased by key.
cancel_in_loop(t) ==
    LET hit == {u \in timers_ : t \in timers_ /\ expiration_[u] = expiration_[t]}
    IN  /\ timers_' = timers_ \ hit
        /\ erased' = erased \cup hit
        /\ cancelled' = IF t \in Queued THEN cancelled ELSE cancelled \cup {t}
        /\ UNCHANGED <<timer_fd_, armed>>

\* add_time, for delays whose microseconds fit an int.
add_time(time, delay) == time + delay

\* The constructor of Timer.
construct_timer(t, when) ==
    /\ t \notin created
    /\ created' = created \cup {t}
    /\ expiration_' = [expiration_ EXCEPT ![t] = when]
    /\ first' = [first EXCEPT ![t] = when]

\* add_timer in the loop thread: run_in_loop calls at once.
add_timer(t, when) ==
    /\ InLoopThread
    /\ construct_timer(t, when)
    /\ add_timer_in_loop(t, when)
    /\ UNCHANGED <<clock, pc, now, expired, todo, pending, runs>>

\* add_timer in another thread: run_in_loop queues.
add_timer_queued(t, when) ==
    /\ pc # "aborted"
    /\ construct_timer(t, when)
    /\ pending' = Append(pending, [op |-> "add", timer |-> t])
    /\ UNCHANGED <<clock, timers_, timer_fd_, pc, now, expired, todo, runs, cancelled, erased, armed>>

\* EventLoop::run_after, from any thread.
run_after(t, delay) ==
    /\ Interval[t] = 0
    /\ \/ add_timer(t, add_time(clock, delay))
       \/ add_timer_queued(t, add_time(clock, delay))

\* EventLoop::run_every, from any thread.
run_every(t) ==
    /\ Interval[t] > 0
    /\ \/ add_timer(t, add_time(clock, Interval[t]))
       \/ add_timer_queued(t, add_time(clock, Interval[t]))

\* cancel in the loop thread.
cancel(t) ==
    /\ InLoopThread
    /\ t \in created
    /\ cancel_in_loop(t)
    /\ UNCHANGED <<clock, expiration_, pc, now, expired, todo, pending, created, first, runs>>

\* cancel in another thread; one per timer, to bound the queue.
cancel_queued(t) ==
    /\ pc # "aborted"
    /\ t \in created \ cancelled
    /\ ~\E i \in DOMAIN pending : pending[i] = [op |-> "cancel", timer |-> t]
    /\ pending' = Append(pending, [op |-> "cancel", timer |-> t])
    /\ UNCHANGED <<clock, timers_, expiration_, timer_fd_, pc, now, expired, todo, created, first,
                   runs, cancelled, erased, armed>>

\* EventLoop::do_pending_functors comes to a queued call.
run_pending ==
    /\ pc = "idle"
    /\ pending # <<>>
    /\ pending' = Tail(pending)
    /\ LET t == Head(pending).timer
       IN  IF Head(pending).op = "add"
           THEN add_timer_in_loop(t, expiration_[t])
           ELSE cancel_in_loop(t)
    /\ UNCHANGED <<clock, expiration_, pc, now, expired, todo, created, first, runs>>

-----------------------------------------------------------------------------
(* The timerfd becomes readable *)

Due == timer_fd_ # Disarmed /\ timer_fd_ <= clock

\* The poll returns timer_fd_channel_; callbacks of other channels may come first.
poll ==
    /\ pc = "idle"
    /\ Due
    /\ pc' = "active"
    /\ UNCHANGED <<clock, timers_, expiration_, timer_fd_, now, expired, todo, pending,
                   created, first, runs, cancelled, erased, armed>>

\* Mutant: timers that are about to expire are taken too.
Expired_Early(n) == {t \in timers_ : expiration_[t] <= n + 1}

\* [timers_.begin(), timers_.lower_bound(n)).
Expired(n) == {t \in timers_ : expiration_[t] < n}

\* Mutant: the expired timers stay in timers_.
get_expired_Copy(n) ==
    /\ expired' = Expired(n)
    /\ UNCHANGED timers_

\* get_expired: the expired entries move out of timers_.
get_expired(n) ==
    /\ expired' = Expired(n)
    /\ timers_' = timers_ \ Expired(n)

\* read_timer_fd: the timerfd is read even if a callback has set it anew since the
\* poll.
read_timer_fd == timer_fd_' = IF Due THEN Disarmed ELSE timer_fd_

\* handle_read up to the first run(), when get_expired's assertion holds.
handle_read ==
    /\ pc = "active"
    /\ \A t \in timers_ : expiration_[t] # clock
    /\ pc' = "running"
    /\ now' = clock
    /\ read_timer_fd
    /\ get_expired(clock)
    /\ todo' = expired'
    /\ UNCHANGED <<clock, expiration_, pending, created, first, runs, cancelled, erased, armed>>

\* assert(now < last_iter->first) fails: the earliest remaining key is now.
handle_read_aborts ==
    /\ pc = "active"
    /\ \E t \in timers_ : expiration_[t] = clock
    /\ pc' = "aborted"
    /\ UNCHANGED <<clock, timers_, expiration_, timer_fd_, now, expired, todo, pending,
                   created, first, runs, cancelled, erased, armed>>

\* The callback of the next expired timer, in the order of the keys.
run(t) ==
    /\ pc = "running"
    /\ t \in todo
    /\ \A u \in todo : expiration_[t] <= expiration_[u]
    /\ todo' = todo \ {t}
    /\ runs' = [runs EXCEPT ![t] = @ + 1]
    /\ UNCHANGED <<clock, timers_, expiration_, timer_fd_, pc, now, expired, pending,
                   created, first, cancelled, erased, armed>>

\* Timer::restart(now)
Restarted(t) == now + Interval[t]

\* reset: repeating timers start again from handle_read's now.
reset ==
    /\ pc = "running"
    /\ todo = {}
    /\ pc' = "idle"
    /\ LET again == {t \in expired : Repeat(t)}
           e == [t \in Timers |-> IF t \in again THEN Restarted(t) ELSE expiration_[t]]
       IN  /\ expiration_' = e
           /\ timers_' = timers_ \cup again
           /\ IF timers_ \cup again # {}
              THEN reset_timer_fd(Earliest(timers_ \cup again, e))
              ELSE UNCHANGED <<timer_fd_, armed>>
    /\ expired' = {}
    /\ UNCHANGED <<clock, now, todo, pending, created, first, runs, cancelled, erased>>

\* Time passes, also while a callback runs.
Tick ==
    /\ clock < MaxClock
    /\ clock' = clock + 1
    /\ UNCHANGED <<timers_, expiration_, timer_fd_, pc, now, expired, todo, pending,
                   created, first, runs, cancelled, erased, armed>>

Next ==
    \/ \E t \in Timers, d \in Delays : run_after(t, d)
    \/ \E t \in Timers : run_every(t)
    \/ \E t \in Timers : cancel(t) \/ cancel_queued(t)
    \/ run_pending
    \/ poll
    \/ handle_read
    \/ handle_read_aborts
    \/ \E t \in Timers : run(t)
    \/ reset
    \/ Tick

Spec == Init /\ [][Next]_vars

-----------------------------------------------------------------------------
(* Properties *)

\* Every variable of the queue keeps its type.
TypeOK ==
    /\ clock \in Nat
    /\ timers_ \in SUBSET Timers
    /\ expiration_ \in [Timers -> Nat]
    /\ timer_fd_ \in Nat \cup {Disarmed}
    /\ pc \in {"idle", "active", "running", "aborted"}
    /\ now \in Nat
    /\ expired \in SUBSET Timers
    /\ todo \in SUBSET expired
    /\ pending \in Seq([op : {"add", "cancel"}, timer : Timers])
    /\ created \in SUBSET Timers
    /\ first \in [Timers -> Nat]
    /\ runs \in [Timers -> Nat]
    /\ cancelled \in SUBSET Timers
    /\ erased \in SUBSET Timers
    /\ armed \in [for : Nat, at : Nat]

\* No callback comes early, and a repeating one not too often, however late the
\* loop is and however the timerfd is set meanwhile: the n-th run of a timer is
\* n - 1 intervals after the time it was added for.
NeverEarly ==
    \A t \in Timers : runs[t] > 0 => clock > first[t] + (runs[t] - 1) * Interval[t]

\* get_expired, the callbacks' own add_timer and cancel, and reset lose no timer:
\* one that was neither erased nor is a one-shot that has run is held by the
\* queue, in one place only, and a one-shot runs no second time.  A timer is
\* erased only by the cancel of a timer with its expiration, its own or another's
\* that it shares a key with.
NoTimerLost ==
    /\ \A t \in created \ erased :
         Repeat(t) \/ runs[t] = 0 => t \in timers_ \cup expired \cup Queued
    /\ timers_ \cap expired = {}
    /\ (timers_ \cup expired) \cap Queued = {}
    /\ (timers_ \cup expired \cup Queued) \cap erased = {}
    /\ \A t \in erased : \E u \in cancelled \cap erased : expiration_[u] = expiration_[t]
    /\ \A t \in Timers : Repeat(t) \/ runs[t] <= 1

\* Between two handle_reads the timerfd is set, for no later than the earliest
\* timer, and fires by then unless that time had passed when it was set.
ArmedForEarliest ==
    pc = "idle" /\ timers_ # {} =>
        /\ timer_fd_ # Disarmed
        /\ \A t \in timers_ : armed.for <= expiration_[t]
        /\ armed.for > armed.at - Micro =>
             timer_fd_ <= armed.for \/ timer_fd_ = armed.at + MinDelay

\* A cancelled timer is not started again: cancel_self() of test4 cancels the
\* repeating timer whose callback it is, so that it should run no more.
CancelledNotRestarted ==
    [][\A t \in cancelled : t \in expired => t \notin timers_']_vars

=============================================================================
