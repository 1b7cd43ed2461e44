-------------------------- MODULE TimerQueueProofs --------------------------
(***************************************************************************)
(* Proofs about TimerQueue for any timers, intervals, delays and clock.    *)
(***************************************************************************)
EXTENDS TimerQueue, WellFoundedInduction, TLAPS

\* The positions of the calls of add_timer in a queue.
Adds(q) == {i \in DOMAIN q : q[i].op = "add"}

\* add_timer is queued once for a timer.
QueueInv == \A i, j \in Adds(pending) : pending[i].timer = pending[j].timer => i = j

\* Only handle_read has expired timers in hand.
BatchInv ==
    /\ pc # "running" => expired = {} /\ todo = {}
    /\ now <= clock
    /\ \A t \in expired : expiration_[t] < now

\* A timer is in one place at most, and in none before it is constructed.
PlaceInv ==
    /\ timers_ \cap expired = {}
    /\ (timers_ \cup expired) \cap Queued = {}
    /\ (timers_ \cup expired \cup Queued) \cap erased = {}
    /\ timers_ \cup expired \cup Queued \cup erased \subseteq created

\* How often a timer has run, by where it is.
RunsInv ==
    /\ \A t \in created \ erased : Repeat(t) \/ runs[t] = 0 => t \in timers_ \cup expired \cup Queued
    /\ \A t \in Timers \ created : runs[t] = 0
    /\ \A t \in expired \ todo : runs[t] > 0
    /\ \A t \in timers_ \cup todo \cup Queued : ~Repeat(t) => runs[t] = 0
    /\ \A t \in Timers : ~Repeat(t) => runs[t] <= 1

\* The n-th run of a timer is n - 1 intervals after the time it was added for, and the
\* expiration of one that is still to run n intervals.
TimeInv ==
    /\ NeverEarly
    /\ \A t \in timers_ \cup todo \cup Queued : expiration_[t] >= first[t] + runs[t] * Interval[t]
    /\ \A t \in expired \ todo : now > first[t] + (runs[t] - 1) * Interval[t]

\* The timerfd was last set for no later than any timer; it is set unless handle_read is
\* under way and reset will set it.
ArmedInv ==
    /\ \A t \in timers_ : armed.for <= expiration_[t]
    /\ pc \in {"idle", "active"} /\ timers_ # {} => timer_fd_ # Disarmed
    /\ timer_fd_ # Disarmed /\ armed.for > armed.at - Micro =>
           timer_fd_ <= armed.for \/ timer_fd_ = armed.at + MinDelay

IInv == TypeOK /\ QueueInv /\ BatchInv /\ PlaceInv /\ RunsInv /\ TimeInv /\ ArmedInv

-----------------------------------------------------------------------------
(* Numbers *)

\* A set of times has an earliest one.
LEMMA NatMin ==
    ASSUME NEW T, T \subseteq Nat, T # {}
    PROVE  \E x \in T : \A y \in T : x <= y
<1>1. PICK x \in T : \A y \in T : ~(<<y, x>> \in OpToRel(<, Nat)) BY NatLessThanWellFounded, WFMin
<1>2. \A y \in T : ~(y < x) BY <1>1 DEF OpToRel
<1> QED BY <1>2

\* timers_.begin()->first
LEMMA EarliestIsLeast ==
    ASSUME NEW S \in SUBSET Timers, S # {}, NEW e \in [Timers -> Nat]
    PROVE  Earliest(S, e) \in Nat /\ \A t \in S : Earliest(S, e) <= e[t]
<1> DEFINE T == {e[t] : t \in S}
<1>1. T \subseteq Nat /\ T # {} OBVIOUS
<1>2. \A t \in S : e[t] \in T OBVIOUS
<1> HIDE DEF T
<1>3. PICK x \in T : \A y \in T : x <= y BY <1>1, NatMin
<1>4. \A t \in S : x <= e[t] BY <1>2, <1>3
<1>5. Earliest(S, e) = CHOOSE w \in T : \A t \in S : w <= e[t] BY DEF Earliest, T
<1> QED BY <1>1, <1>3, <1>4, <1>5

\* One interval more.
LEMMA OneMore ==
    ASSUME NEW n \in Nat, NEW i \in Nat
    PROVE  (n + 1 - 1) * i = n * i /\ (n - 1) * i + i = n * i /\ n * i \in Nat
OBVIOUS

\* The delay that the timerfd is set to ends by the time it is set for, or is the least
\* one, unless that time has passed by a microsecond.
LEMMA DelayIsShort ==
    ASSUME NEW when \in Nat, clock \in Nat
    PROVE  /\ how_much_time_from_now(when) \in Nat
           /\ when > clock - Micro => \/ clock + how_much_time_from_now(when) <= when
                                      \/ how_much_time_from_now(when) = MinDelay
<1> DEFINE q == Quotient(when - clock, Micro)
           r == q % Word
<1> USE TimeAssumption
<1>1. q \in Int
  <2>1. \A a, b \in Nat : b # 0 => a \div b \in Nat OBVIOUS
  <2>2. when - clock >= 0 => when - clock \in Nat OBVIOUS
  <2>3. ~(when - clock >= 0) => -(when - clock) \in Nat OBVIOUS
  <2>4. CASE when - clock >= 0 BY <2>1, <2>2, <2>4 DEF Quotient
  <2>5. CASE ~(when - clock >= 0)
    <3>1. (-(when - clock)) \div Micro \in Nat BY <2>1, <2>3, <2>5
    <3> QED BY <2>5, <3>1 DEF Quotient
  <2> QED BY <2>4, <2>5
<1>2. \A n \in Int, w \in Nat : w # 0 => n % w \in Nat /\ (n >= 0 => n % w <= n) OBVIOUS
<1> HIDE DEF q
<1>3. r \in Nat /\ (q >= 0 => r <= q) BY <1>1, <1>2
<1> HIDE DEF r
<1>4. \A a, b \in Nat : a * b \in Nat OBVIOUS
<1>5. r * Micro \in Nat BY <1>3, <1>4
<1>6. how_much_time_from_now(when) = IF r * Micro < MinDelay THEN MinDelay ELSE r * Micro
    BY DEF how_much_time_from_now, q, r
<1>7. ASSUME when > clock - Micro PROVE clock + r * Micro <= when \/ r * Micro = 0
  <2>1. CASE when - clock >= 0
    <3>1. \A a, b \in Nat : b # 0 => a \div b \in Nat /\ (a \div b) * b <= a OBVIOUS
    <3>2. q = (when - clock) \div Micro /\ when - clock \in Nat BY <2>1 DEF q, Quotient
    <3>3. q \in Nat /\ q * Micro <= when - clock BY <3>1, <3>2
    <3>4. \A a, b, c \in Nat : a <= b => a * c <= b * c OBVIOUS
    <3>5. r <= q /\ r * Micro <= q * Micro BY <1>3, <3>3, <3>4
    <3>6. q * Micro \in Nat BY <1>4, <3>3
    <3> QED BY <1>5, <3>3, <3>5, <3>6
  <2>2. CASE ~(when - clock >= 0)
    <3>1. \A a, b \in Nat : a < b => a \div b = 0 OBVIOUS
    <3>2. -(when - clock) \in Nat /\ -(when - clock) < Micro BY <1>7, <2>2
    <3>3. q = 0 BY <2>2, <3>1, <3>2 DEF q, Quotient
    <3>4. r = 0 BY <1>3, <3>3
    <3> QED BY <3>4
  <2> QED BY <2>1, <2>2
<1>8. MinDelay > 0 /\ MinDelay \in Nat OBVIOUS
<1> QED BY <1>5, <1>6, <1>7, <1>8

-----------------------------------------------------------------------------
(* The queue of calls *)

Call == [op : {"add", "cancel"}, timer : Timers]

\* The timers whose add_timer is in q.
Held(q) == {q[i].timer : i \in Adds(q)}

\* Queued in these words.
LEMMA QueuedIsHeld == Queued = Held(pending)
BY DEF Queued, Held, Adds

\* A call is queued behind the others.
LEMMA HeldAppend ==
    ASSUME NEW q \in Seq(Call), NEW c \in Call,
           \A i, j \in Adds(q) : q[i].timer = q[j].timer => i = j,
           c.op = "add" => c.timer \notin Held(q)
    PROVE  /\ Append(q, c) \in Seq(Call)
           /\ Held(Append(q, c)) = Held(q) \cup (IF c.op = "add" THEN {c.timer} ELSE {})
           /\ \A i, j \in Adds(Append(q, c)) :
                  Append(q, c)[i].timer = Append(q, c)[j].timer => i = j
<1> DEFINE r == Append(q, c)
<1>1. /\ r \in Seq(Call) /\ DOMAIN r = DOMAIN q \cup {Len(q) + 1} /\ Len(q) + 1 \notin DOMAIN q
      /\ r[Len(q) + 1] = c
      /\ \A i \in DOMAIN q : r[i] = q[i]
    OBVIOUS
<1> HIDE DEF r
<1>2. Adds(r) = Adds(q) \cup (IF c.op = "add" THEN {Len(q) + 1} ELSE {}) BY <1>1 DEF Adds
<1>3. \A i \in Adds(q) : r[i] = q[i] /\ q[i].timer \in Held(q) BY <1>1 DEF Adds, Held
<1>4. Held(r) = Held(q) \cup (IF c.op = "add" THEN {c.timer} ELSE {}) BY <1>1, <1>2, <1>3 DEF Held
<1>5. \A i, j \in Adds(r) : r[i].timer = r[j].timer => i = j BY <1>1, <1>2, <1>3
<1> QED BY <1>1, <1>4, <1>5 DEF r

\* The first call is taken.
LEMMA HeldTail ==
    ASSUME NEW q \in Seq(Call), q # <<>>,
           \A i, j \in Adds(q) : q[i].timer = q[j].timer => i = j
    PROVE  /\ Tail(q) \in Seq(Call) /\ Head(q) \in Call
           /\ Head(q).op = "add" => Head(q).timer \in Held(q)
           /\ Held(Tail(q)) = Held(q) \ (IF Head(q).op = "add" THEN {Head(q).timer} ELSE {})
           /\ \A i, j \in Adds(Tail(q)) : Tail(q)[i].timer = Tail(q)[j].timer => i = j
<1> DEFINE r == Tail(q)
<1>1. /\ r \in Seq(Call) /\ Head(q) \in Call /\ Head(q) = q[1] /\ 1 \in DOMAIN q
      /\ \A i \in DOMAIN r : i + 1 \in DOMAIN q /\ i + 1 # 1 /\ r[i] = q[i + 1]
      /\ \A i \in DOMAIN q : i # 1 => i - 1 \in DOMAIN r /\ r[i - 1] = q[i]
      /\ DOMAIN r \subseteq Nat
    OBVIOUS
<1> HIDE DEF r
<1>2. \A i \in Adds(r) : i \in Nat /\ i + 1 \in Adds(q) /\ i + 1 # 1 /\ r[i] = q[i + 1] BY <1>1 DEF Adds
<1>3. \A i \in Adds(q) : i # 1 => i - 1 \in Adds(r) /\ r[i - 1] = q[i] BY <1>1 DEF Adds
<1>4. 1 \in Adds(q) <=> Head(q).op = "add" BY <1>1 DEF Adds
<1>5. \A i, j \in Adds(r) : r[i].timer = r[j].timer => i = j BY <1>2
<1>6. Held(r) \subseteq Held(q) \ (IF Head(q).op = "add" THEN {Head(q).timer} ELSE {})
    BY <1>1, <1>2, <1>4 DEF Held
<1>7. Held(q) \ (IF Head(q).op = "add" THEN {Head(q).timer} ELSE {}) \subseteq Held(r)
    BY <1>1, <1>3, <1>4 DEF Held
<1>8. Head(q).op = "add" => Head(q).timer \in Held(q) BY <1>1, <1>4 DEF Held
<1> QED BY <1>1, <1>5, <1>6, <1>7, <1>8 DEF r
-----------------------------------------------------------------------------
(* The timerfd *)

\* reset_timer_fd sets the timerfd, to fire in time.
LEMMA ArmStep ==
    ASSUME clock \in Nat, NEW when \in Nat, reset_timer_fd(when)
    PROVE  /\ timer_fd_' \in Nat /\ timer_fd_' # Disarmed
           /\ armed' \in [for : Nat, at : Nat] /\ armed'.for = when
           /\ armed'.for > armed'.at - Micro =>
                  timer_fd_' <= armed'.for \/ timer_fd_' = armed'.at + MinDelay
<1>1. armed' = [for |-> when, at |-> clock] BY DEF reset_timer_fd
<1>2. timer_fd_' = clock + how_much_time_from_now(when) BY DEF reset_timer_fd
<1>3. /\ how_much_time_from_now(when) \in Nat
      /\ when > clock - Micro => \/ clock + how_much_time_from_now(when) <= when
                                 \/ how_much_time_from_now(when) = MinDelay
    BY DelayIsShort
<1>4. timer_fd_' \in Nat BY <1>2, <1>3
<1>5. armed'.for = when /\ armed'.at = clock BY <1>1
<1>6. armed' \in [for : Nat, at : Nat] BY <1>1
<1> QED BY <1>2, <1>3, <1>4, <1>5, <1>6 DEF Disarmed

\* A new timer has the timerfd set anew if it is the earliest, and it is set for an
\* earlier one otherwise.
LEMMA AddArms ==
    ASSUME TypeOK, ArmedInv, NEW t \in Timers, NEW when \in Nat, pc' = pc,
           expiration_' \in [Timers -> Nat], expiration_'[t] = when,
           \A u \in timers_ : expiration_'[u] = expiration_[u],
           add_timer_in_loop(t, when)
    PROVE  ArmedInv' /\ timer_fd_' \in Nat \cup {Disarmed} /\ armed' \in [for : Nat, at : Nat]
<1>1. clock \in Nat /\ armed.for \in Nat /\ timers_ \subseteq Timers /\ expiration_ \in [Timers -> Nat]
    BY DEF TypeOK
<1>2. timers_' = timers_ \cup {t} BY DEF add_timer_in_loop
<1>3. CASE EarliestChanged(when)
  <2>1. reset_timer_fd(when) BY <1>3 DEF add_timer_in_loop
  <2>2. /\ timer_fd_' \in Nat /\ timer_fd_' # Disarmed
        /\ armed' \in [for : Nat, at : Nat] /\ armed'.for = when
        /\ armed'.for > armed'.at - Micro =>
               timer_fd_' <= armed'.for \/ timer_fd_' = armed'.at + MinDelay
    BY <1>1, <2>1, ArmStep
  <2>3. \A u \in timers_' : armed'.for <= expiration_'[u]
    BY <1>1, <1>2, <1>3, <2>2 DEF EarliestChanged
  <2> QED BY <2>2, <2>3 DEF ArmedInv
<1>4. CASE ~EarliestChanged(when)
  <2>1. timer_fd_' = timer_fd_ /\ armed' = armed BY <1>4 DEF add_timer_in_loop
  <2>2. PICK u \in timers_ : expiration_[u] <= when BY <1>1, <1>4 DEF EarliestChanged
  <2>3. \A v \in timers_' : armed'.for <= expiration_'[v] BY <1>1, <1>2, <2>1, <2>2 DEF ArmedInv
  <2> QED BY <2>1, <2>2, <2>3 DEF ArmedInv, TypeOK
<1> QED BY <1>3, <1>4

-----------------------------------------------------------------------------
(* The invariant is established and preserved *)

\* The empty TimerQueue satisfies the invariant.
LEMMA InitEstablishes == Init => IInv
<1> SUFFICES ASSUME Init PROVE IInv OBVIOUS
<1> USE IntervalAssumption, TimeAssumption
<1>1. TypeOK BY DEF Init, TypeOK
<1>2. Adds(pending) = {} /\ Queued = {} BY QueuedIsHeld DEF Init, Adds, Held
<1>3. QueueInv /\ BatchInv /\ PlaceInv BY <1>2 DEF Init, QueueInv, BatchInv, PlaceInv
<1>4. RunsInv /\ TimeInv /\ ArmedInv BY <1>2 DEF Init, RunsInv, TimeInv, NeverEarly, ArmedInv, Disarmed
<1> QED BY <1>1, <1>3, <1>4 DEF IInv

\* A new timer has not run, and is in no place.
LEMMA ConstructedIsNew ==
    ASSUME IInv, NEW t \in Timers, NEW when \in Nat, construct_timer(t, when)
    PROVE  /\ t \notin timers_ \cup expired \cup todo \cup Queued \cup erased
           /\ runs[t] = 0
           /\ created' \in SUBSET Timers /\ created' = created \cup {t}
           /\ expiration_' \in [Timers -> Nat] /\ first' \in [Timers -> Nat]
           /\ expiration_'[t] = when /\ first'[t] = when
           /\ \A u \in Timers : u # t => expiration_'[u] = expiration_[u] /\ first'[u] = first[u]
BY DEF IInv, construct_timer, PlaceInv, RunsInv, TypeOK

\* add_timer in the loop thread.
LEMMA AddPreserves ==
    ASSUME IInv, NEW t \in Timers, NEW when \in Nat, add_timer(t, when)
    PROVE  IInv'
<1> USE IntervalAssumption
<1>1. construct_timer(t, when) /\ add_timer_in_loop(t, when) BY DEF add_timer
<1>2. /\ t \notin timers_ \cup expired \cup todo \cup Queued \cup erased
      /\ runs[t] = 0
      /\ created' \in SUBSET Timers /\ created' = created \cup {t}
      /\ expiration_' \in [Timers -> Nat] /\ first' \in [Timers -> Nat]
      /\ expiration_'[t] = when /\ first'[t] = when
      /\ \A u \in Timers : u # t => expiration_'[u] = expiration_[u] /\ first'[u] = first[u]
    BY <1>1, ConstructedIsNew
<1>3. UNCHANGED <<clock, pc, now, expired, todo, pending, runs, cancelled, erased>>
    BY <1>1 DEF add_timer, add_timer_in_loop
<1>4. timers_' = timers_ \cup {t} BY <1>1 DEF add_timer_in_loop
<1>5. TypeOK /\ ArmedInv /\ timers_ \subseteq Timers /\ expired \subseteq Timers /\ todo \subseteq expired
    BY DEF IInv, TypeOK
<1>6. ArmedInv' /\ timer_fd_' \in Nat \cup {Disarmed} /\ armed' \in [for : Nat, at : Nat]
  <2>1. \A u \in timers_ : expiration_'[u] = expiration_[u] BY <1>2, <1>5
  <2> QED BY <1>1, <1>2, <1>3, <1>5, <2>1, AddArms
<1>7. TypeOK' BY <1>2, <1>3, <1>4, <1>5, <1>6 DEF TypeOK
<1>8. Queued' = Queued /\ QueueInv' BY <1>3 DEF IInv, Queued, QueueInv, Adds
<1>9. Queued \subseteq Timers BY <1>5 DEF IInv, PlaceInv, TypeOK
<1>10. BatchInv' BY <1>2, <1>3, <1>5 DEF IInv, BatchInv
<1>11. PlaceInv' BY <1>2, <1>3, <1>4, <1>8 DEF IInv, PlaceInv
<1>12. RunsInv' BY <1>2, <1>3, <1>4, <1>5, <1>8, <1>9 DEF IInv, RunsInv, Repeat
<1>13. TimeInv'
  <2>1. NeverEarly' BY <1>2, <1>3 DEF IInv, TimeInv, NeverEarly
  <2>2. \A u \in timers_' \cup todo' \cup Queued' : expiration_'[u] >= first'[u] + runs'[u] * Interval[u]
    <3>1. expiration_'[t] >= first'[t] + runs'[t] * Interval[t] BY <1>2, <1>3
    <3> QED BY <1>2, <1>3, <1>4, <1>5, <1>8, <1>9, <3>1 DEF IInv, TimeInv
  <2>3. \A u \in expired' \ todo' : now' > first'[u] + (runs'[u] - 1) * Interval[u]
    BY <1>2, <1>3, <1>5 DEF IInv, TimeInv
  <2> QED BY <2>1, <2>2, <2>3 DEF TimeInv
<1> QED BY <1>6, <1>7, <1>8, <1>10, <1>11, <1>12, <1>13 DEF IInv

\* add_timer in another thread.
LEMMA AddQueuedPreserves ==
    ASSUME IInv, NEW t \in Timers, NEW when \in Nat, add_timer_queued(t, when)
    PROVE  IInv'
<1> USE IntervalAssumption
<1> DEFINE c == [op |-> "add", timer |-> t]
<1>1. construct_timer(t, when) BY DEF add_timer_queued
<1>2. /\ t \notin timers_ \cup expired \cup todo \cup Queued \cup erased
      /\ runs[t] = 0
      /\ created' \in SUBSET Timers /\ created' = created \cup {t}
      /\ expiration_' \in [Timers -> Nat] /\ first' \in [Timers -> Nat]
      /\ expiration_'[t] = when /\ first'[t] = when
      /\ \A u \in Timers : u # t => expiration_'[u] = expiration_[u] /\ first'[u] = first[u]
    BY <1>1, ConstructedIsNew
<1>3. UNCHANGED <<clock, timers_, timer_fd_, pc, now, expired, todo, runs, cancelled, erased, armed>>
    BY DEF add_timer_queued
<1>4. pending' = Append(pending, c) BY DEF add_timer_queued
<1>5. TypeOK /\ timers_ \subseteq Timers /\ expired \subseteq Timers /\ todo \subseteq expired
    BY DEF IInv, TypeOK
<1>6. pending \in Seq(Call) BY <1>5 DEF TypeOK, Call
<1>7. c \in Call /\ c.op = "add" /\ c.timer = t BY DEF Call
<1>8. t \notin Held(pending) BY <1>2, QueuedIsHeld
<1>9. /\ pending' \in Seq(Call) /\ Held(pending') = Held(pending) \cup {t}
      /\ \A i, j \in Adds(pending') : pending'[i].timer = pending'[j].timer => i = j
  <2>1. \A i, j \in Adds(pending) : pending[i].timer = pending[j].timer => i = j BY DEF IInv, QueueInv
  <2> HIDE DEF c
  <2> QED BY <1>4, <1>6, <1>7, <1>8, <2>1, HeldAppend
<1>10. Queued' = Queued \cup {t}
  <2>1. Queued' = Held(pending') BY DEF Queued, Held, Adds
  <2> QED BY <1>9, <2>1, QueuedIsHeld
<1>11. TypeOK' BY <1>2, <1>3, <1>5, <1>9 DEF TypeOK, Call
<1>12. QueueInv' BY <1>9 DEF QueueInv, Adds
<1>13. Queued \subseteq Timers BY <1>5 DEF IInv, PlaceInv, TypeOK
<1>14. BatchInv' BY <1>2, <1>3, <1>5 DEF IInv, BatchInv
<1>15. PlaceInv' BY <1>2, <1>3, <1>10 DEF IInv, PlaceInv
<1>16. RunsInv' BY <1>2, <1>3, <1>5, <1>10, <1>13 DEF IInv, RunsInv, Repeat
<1>17. TimeInv'
  <2>1. NeverEarly' BY <1>2, <1>3 DEF IInv, TimeInv, NeverEarly
  <2>2. \A u \in timers_' \cup todo' \cup Queued' : expiration_'[u] >= first'[u] + runs'[u] * Interval[u]
    <3>1. expiration_'[t] >= first'[t] + runs'[t] * Interval[t] BY <1>2, <1>3
    <3> QED BY <1>2, <1>3, <1>5, <1>10, <1>13, <3>1 DEF IInv, TimeInv
  <2>3. \A u \in expired' \ todo' : now' > first'[u] + (runs'[u] - 1) * Interval[u]
    BY <1>2, <1>3, <1>5 DEF IInv, TimeInv
  <2> QED BY <2>1, <2>2, <2>3 DEF TimeInv
<1>18. ArmedInv' BY <1>2, <1>3, <1>5 DEF IInv, ArmedInv
<1> QED BY <1>11, <1>12, <1>14, <1>15, <1>16, <1>17, <1>18 DEF IInv

\* cancel_in_loop, called at once or from the queue.
LEMMA CancelInLoopPreserves ==
    ASSUME IInv, NEW t \in Timers, cancel_in_loop(t),
           pending' \in Seq(Call), Queued' = Queued, QueueInv',
           UNCHANGED <<clock, expiration_, pc, now, expired, todo, created, first, runs>>
    PROVE  IInv'
<1> DEFINE hit == {u \in timers_ : t \in timers_ /\ expiration_[u] = expiration_[t]}
<1>1. /\ timers_' = timers_ \ hit /\ erased' = erased \cup hit
      /\ timer_fd_' = timer_fd_ /\ armed' = armed
      /\ cancelled' \in {cancelled, cancelled \cup {t}}
    BY DEF cancel_in_loop
<1>2. hit \subseteq timers_ OBVIOUS
<1> HIDE DEF hit
<1>3. TypeOK' BY <1>1, <1>2 DEF IInv, TypeOK, Call
<1>4. BatchInv' BY DEF IInv, BatchInv
<1>5. PlaceInv' BY <1>1, <1>2 DEF IInv, PlaceInv
<1>6. RunsInv' BY <1>1, <1>2 DEF IInv, RunsInv, Repeat
<1>7. TimeInv' BY <1>1, <1>2 DEF IInv, TimeInv, NeverEarly
<1>8. ArmedInv' BY <1>1, <1>2 DEF IInv, ArmedInv
<1> QED BY <1>3, <1>4, <1>5, <1>6, <1>7, <1>8 DEF IInv

\* cancel in the loop thread.
LEMMA CancelPreserves ==
    ASSUME IInv, NEW t \in Timers, cancel(t)
    PROVE  IInv'
<1>1. cancel_in_loop(t) /\ pending' = pending BY DEF cancel
<1>2. pending' \in Seq(Call) BY <1>1 DEF IInv, TypeOK, Call
<1>3. Queued' = Queued /\ QueueInv' BY <1>1 DEF IInv, Queued, QueueInv, Adds
<1>4. UNCHANGED <<clock, expiration_, pc, now, expired, todo, created, first, runs>> BY DEF cancel
<1> QED BY <1>1, <1>2, <1>3, <1>4, CancelInLoopPreserves

\* What a step that leaves the timers alone preserves.
LEMMA QueuePreserves ==
    ASSUME IInv, pending' \in Seq(Call), Queued' = Queued, QueueInv',
           UNCHANGED <<clock, timers_, expiration_, timer_fd_, pc, now, expired, todo, created, first,
                       runs, cancelled, erased, armed>>
    PROVE  IInv'
<1>1. TypeOK' BY DEF IInv, TypeOK, Call
<1>2. BatchInv' /\ PlaceInv' BY DEF IInv, BatchInv, PlaceInv
<1>3. RunsInv' /\ TimeInv' BY DEF IInv, RunsInv, TimeInv, NeverEarly, Repeat
<1>4. ArmedInv' BY DEF IInv, ArmedInv
<1> QED BY <1>1, <1>2, <1>3, <1>4 DEF IInv

\* cancel in another thread.
LEMMA CancelQueuedPreserves ==
    ASSUME IInv, NEW t \in Timers, cancel_queued(t)
    PROVE  IInv'
<1> DEFINE c == [op |-> "cancel", timer |-> t]
<1>1. pending' = Append(pending, c) BY DEF cancel_queued
<1>2. pending \in Seq(Call) BY DEF IInv, TypeOK, Call
<1>3. c \in Call /\ c.op # "add" BY DEF Call
<1>4. \A i, j \in Adds(pending) : pending[i].timer = pending[j].timer => i = j BY DEF IInv, QueueInv
<1> HIDE DEF c
<1>5. /\ pending' \in Seq(Call) /\ Held(pending') = Held(pending)
      /\ \A i, j \in Adds(pending') : pending'[i].timer = pending'[j].timer => i = j
    BY <1>1, <1>2, <1>3, <1>4, HeldAppend
<1>6. Queued' = Queued
  <2>1. Queued' = Held(pending') BY DEF Queued, Held, Adds
  <2> QED BY <1>5, <2>1, QueuedIsHeld
<1>7. QueueInv' BY <1>5 DEF QueueInv, Adds
<1>8. UNCHANGED <<clock, timers_, expiration_, timer_fd_, pc, now, expired, todo, created, first,
                  runs, cancelled, erased, armed>>
    BY DEF cancel_queued
<1> QED BY <1>5, <1>6, <1>7, <1>8, QueuePreserves

\* do_pending_functors runs a queued call.
LEMMA RunPendingPreserves ==
    ASSUME IInv, run_pending
    PROVE  IInv'
<1> USE IntervalAssumption
<1> DEFINE c == Head(pending)
           t == c.timer
<1>1. /\ pending # <<>> /\ pending' = Tail(pending)
      /\ UNCHANGED <<clock, expiration_, pc, now, expired, todo, created, first, runs>>
      /\ IF c.op = "add" THEN add_timer_in_loop(t, expiration_[t]) ELSE cancel_in_loop(t)
    BY DEF run_pending
<1>2. pending \in Seq(Call) BY DEF IInv, TypeOK, Call
<1>3. \A i, j \in Adds(pending) : pending[i].timer = pending[j].timer => i = j BY DEF IInv, QueueInv
<1>4. /\ pending' \in Seq(Call) /\ c \in Call
      /\ c.op = "add" => t \in Held(pending)
      /\ Held(pending') = Held(pending) \ (IF c.op = "add" THEN {t} ELSE {})
      /\ \A i, j \in Adds(pending') : pending'[i].timer = pending'[j].timer => i = j
    BY <1>1, <1>2, <1>3, HeldTail
<1>5. t \in Timers BY <1>4 DEF Call
<1> HIDE DEF t, c
<1>6. QueueInv' BY <1>4 DEF QueueInv, Adds
<1>7. Queued' = Queued \ (IF c.op = "add" THEN {t} ELSE {})
  <2>1. Queued' = Held(pending') BY DEF Queued, Held, Adds
  <2> QED BY <1>4, <2>1, QueuedIsHeld
<1>8. CASE c.op = "add"
  <2>1. add_timer_in_loop(t, expiration_[t]) BY <1>1, <1>8
  <2>2. /\ timers_' = timers_ \cup {t} /\ UNCHANGED <<cancelled, erased>>
    BY <2>1 DEF add_timer_in_loop
  <2>3. t \in Queued /\ Queued' = Queued \ {t} BY <1>4, <1>7, <1>8, QueuedIsHeld
  <2>4. TypeOK /\ ArmedInv /\ expiration_ \in [Timers -> Nat] BY DEF IInv, TypeOK
  <2>5. ArmedInv' /\ timer_fd_' \in Nat \cup {Disarmed} /\ armed' \in [for : Nat, at : Nat]
    <3>1. expiration_[t] \in Nat BY <1>5, <2>4
    <3>2. expiration_' = expiration_ /\ pc' = pc BY <1>1
    <3> HIDE <1>1
    <3> QED BY <1>5, <2>1, <2>4, <3>1, <3>2, AddArms
  <2>6. TypeOK' BY <1>1, <1>4, <1>5, <2>2, <2>4, <2>5 DEF TypeOK, Call
  <2>7. BatchInv' BY <1>1 DEF IInv, BatchInv
  <2>8. PlaceInv' BY <1>1, <2>2, <2>3 DEF IInv, PlaceInv
  <2>9. RunsInv' BY <1>1, <2>2, <2>3 DEF IInv, RunsInv, Repeat
  <2>10. TimeInv' BY <1>1, <2>2, <2>3 DEF IInv, TimeInv, NeverEarly
  <2> QED BY <1>6, <2>5, <2>6, <2>7, <2>8, <2>9, <2>10 DEF IInv
<1>9. CASE c.op # "add"
  <2>1. cancel_in_loop(t) /\ Queued' = Queued BY <1>1, <1>7, <1>9
  <2> QED BY <1>1, <1>4, <1>5, <1>6, <2>1, CancelInLoopPreserves
<1> QED BY <1>8, <1>9

\* The poll finds the timerfd readable; an assertion fails.
LEMMA PollPreserves ==
    ASSUME IInv, poll \/ handle_read_aborts
    PROVE  IInv'
<1>1. /\ pc \in {"idle", "active"} /\ pc' \in {"active", "aborted"}
      /\ UNCHANGED <<clock, timers_, expiration_, timer_fd_, now, expired, todo, pending, created,
                     first, runs, cancelled, erased, armed>>
    BY DEF poll, handle_read_aborts
<1>2. Queued' = Queued /\ QueueInv' BY <1>1 DEF IInv, Queued, QueueInv, Adds
<1>3. TypeOK' BY <1>1 DEF IInv, TypeOK
<1>4. BatchInv' /\ PlaceInv' BY <1>1, <1>2 DEF IInv, BatchInv, PlaceInv
<1>5. RunsInv' /\ TimeInv' BY <1>1, <1>2 DEF IInv, RunsInv, TimeInv, NeverEarly, Repeat
<1>6. ArmedInv' BY <1>1 DEF IInv, ArmedInv
<1> QED BY <1>2, <1>3, <1>4, <1>5, <1>6 DEF IInv

\* handle_read takes the expired timers out of timers_.
LEMMA HandleReadPreserves ==
    ASSUME IInv, handle_read
    PROVE  IInv'
<1>1. /\ pc = "active" /\ pc' = "running" /\ now' = clock
      /\ timer_fd_' \in {timer_fd_, Disarmed}
      /\ expired' = Expired(clock) /\ timers_' = timers_ \ Expired(clock) /\ todo' = expired'
      /\ UNCHANGED <<clock, expiration_, pending, created, first, runs, cancelled, erased, armed>>
    BY DEF handle_read, read_timer_fd, get_expired
<1>2. /\ Expired(clock) \subseteq timers_
      /\ \A u \in Expired(clock) : expiration_[u] < clock
    BY DEF Expired
<1>3. expired = {} /\ todo = {} BY <1>1 DEF IInv, BatchInv
<1>4. Queued' = Queued /\ QueueInv' BY <1>1 DEF IInv, Queued, QueueInv, Adds
<1>5. TypeOK' BY <1>1, <1>2 DEF IInv, TypeOK
<1>6. BatchInv' BY <1>1, <1>2 DEF IInv, BatchInv, TypeOK
<1>7. PlaceInv' BY <1>1, <1>2, <1>3, <1>4 DEF IInv, PlaceInv
<1>8. RunsInv' BY <1>1, <1>2, <1>3, <1>4 DEF IInv, RunsInv, Repeat
<1>9. TimeInv' BY <1>1, <1>2, <1>3, <1>4 DEF IInv, TimeInv, NeverEarly
<1>10. ArmedInv' BY <1>1, <1>2 DEF IInv, ArmedInv
<1> QED BY <1>4, <1>5, <1>6, <1>7, <1>8, <1>9, <1>10 DEF IInv

\* A callback runs after the expiration of its timer.
LEMMA RunPreserves ==
    ASSUME IInv, NEW t \in Timers, run(t)
    PROVE  IInv'
<1> USE IntervalAssumption
<1>1. /\ pc = "running" /\ t \in todo /\ todo' = todo \ {t} /\ runs' = [runs EXCEPT ![t] = @ + 1]
      /\ UNCHANGED <<clock, timers_, expiration_, timer_fd_, pc, now, expired, pending, created, first,
                     cancelled, erased, armed>>
    BY DEF run
<1>2. TypeOK BY DEF IInv
<1>3. /\ runs'[t] = runs[t] + 1 /\ runs[t] \in Nat
      /\ \A u \in Timers : u # t => runs'[u] = runs[u]
    BY <1>1, <1>2 DEF TypeOK
<1>4. t \in expired /\ t \notin timers_ \cup Queued /\ t \in created BY <1>1, <1>2 DEF IInv, PlaceInv, TypeOK
<1>5. Queued' = Queued /\ QueueInv' BY <1>1 DEF IInv, Queued, QueueInv, Adds
<1>6. Queued \subseteq Timers /\ timers_ \subseteq Timers /\ expired \subseteq Timers /\ todo \subseteq expired
    BY <1>2 DEF IInv, PlaceInv, TypeOK
<1>7. TypeOK' BY <1>1, <1>2 DEF TypeOK
<1>8. BatchInv' BY <1>1 DEF IInv, BatchInv
<1>9. PlaceInv' BY <1>1, <1>5 DEF IInv, PlaceInv
<1>10. RunsInv'
  <2>1. \A u \in created' \ erased' : Repeat(u) \/ runs'[u] = 0 => u \in timers_' \cup expired' \cup Queued'
    BY <1>1, <1>2, <1>3, <1>4, <1>5 DEF IInv, RunsInv, TypeOK
  <2>2. \A u \in Timers \ created' : runs'[u] = 0 BY <1>1, <1>3, <1>4 DEF IInv, RunsInv
  <2>3. \A u \in expired' \ todo' : runs'[u] > 0 BY <1>1, <1>3, <1>6 DEF IInv, RunsInv
  <2>4. \A u \in timers_' \cup todo' \cup Queued' : ~Repeat(u) => runs'[u] = 0
    BY <1>1, <1>3, <1>4, <1>5, <1>6 DEF IInv, RunsInv
  <2>5. \A u \in Timers : ~Repeat(u) => runs'[u] <= 1 BY <1>1, <1>3 DEF IInv, RunsInv
  <2> QED BY <2>1, <2>2, <2>3, <2>4, <2>5 DEF RunsInv, Repeat
<1>11. TimeInv'
  <2>1. first[t] \in Nat /\ Interval[t] \in Nat /\ now \in Nat /\ clock \in Nat /\ expiration_[t] \in Nat
    BY <1>2 DEF TypeOK
  <2>2. (runs[t] + 1 - 1) * Interval[t] = runs[t] * Interval[t] /\ runs[t] * Interval[t] \in Nat
    BY <1>3, <2>1, OneMore
  <2>3. expiration_[t] >= first[t] + runs[t] * Interval[t] /\ expiration_[t] < now /\ now <= clock
    BY <1>1, <1>4 DEF IInv, TimeInv, BatchInv
  <2>4. /\ now > first[t] + (runs'[t] - 1) * Interval[t]
        /\ clock > first[t] + (runs'[t] - 1) * Interval[t]
    BY <1>3, <2>1, <2>2, <2>3
  <2>5. NeverEarly' BY <1>1, <1>3, <2>4 DEF IInv, TimeInv, NeverEarly
  <2>6. \A u \in timers_' \cup todo' \cup Queued' : expiration_'[u] >= first'[u] + runs'[u] * Interval[u]
    BY <1>1, <1>3, <1>4, <1>5, <1>6 DEF IInv, TimeInv
  <2>7. \A u \in expired' \ todo' : now' > first'[u] + (runs'[u] - 1) * Interval[u]
    BY <1>1, <1>3, <1>6, <2>4 DEF IInv, TimeInv
  <2> QED BY <2>5, <2>6, <2>7 DEF TimeInv
<1>12. ArmedInv' BY <1>1 DEF IInv, ArmedInv
<1> QED BY <1>5, <1>7, <1>8, <1>9, <1>10, <1>11, <1>12 DEF IInv

\* reset puts the repeating timers back, an interval after they were taken, and sets the
\* timerfd for the earliest timer.
LEMMA ResetPreserves ==
    ASSUME IInv, reset
    PROVE  IInv'
<1> USE IntervalAssumption
<1> DEFINE again == {t \in expired : Repeat(t)}
           e == [t \in Timers |-> IF t \in again THEN Restarted(t) ELSE expiration_[t]]
           S == timers_ \cup again
<1>1. /\ pc = "running" /\ pc' = "idle" /\ todo = {} /\ expired' = {}
      /\ expiration_' = e /\ timers_' = S
      /\ IF S # {} THEN reset_timer_fd(Earliest(S, e)) ELSE UNCHANGED <<timer_fd_, armed>>
      /\ UNCHANGED <<clock, now, todo, pending, created, first, runs, cancelled, erased>>
    BY DEF reset
<1>2. TypeOK BY DEF IInv
<1>3. again \subseteq expired /\ expired \subseteq Timers /\ timers_ \subseteq Timers /\ S \subseteq Timers
    BY <1>2 DEF TypeOK
<1>4. \A u \in expired : ~Repeat(u) => u \notin again OBVIOUS
<1>5. \A u \in expired : Repeat(u) => u \in again OBVIOUS
<1>6. \A u \in Timers : e[u] = IF u \in again THEN now + Interval[u] ELSE expiration_[u]
    BY DEF Restarted
<1>7. e \in [Timers -> Nat]
  <2>1. \A u \in Timers : now + Interval[u] \in Nat /\ expiration_[u] \in Nat BY <1>2 DEF TypeOK
  <2> QED BY <2>1 DEF Restarted
<1>8. S = timers_ \cup again OBVIOUS
<1> HIDE DEF again, e, S
<1>9. Queued' = Queued /\ QueueInv' BY <1>1 DEF IInv, Queued, QueueInv, Adds
<1>10. Queued \subseteq Timers BY <1>2 DEF IInv, PlaceInv, TypeOK
<1>11. /\ ArmedInv' /\ timer_fd_' \in Nat \cup {Disarmed} /\ armed' \in [for : Nat, at : Nat]
  <2>1. CASE S # {}
    <3>1. Earliest(S, e) \in Nat /\ \A t \in S : Earliest(S, e) <= e[t]
        BY <1>3, <1>7, <2>1, EarliestIsLeast
    <3>2. reset_timer_fd(Earliest(S, e)) /\ clock \in Nat BY <1>1, <1>2, <2>1 DEF TypeOK
    <3>3. /\ timer_fd_' \in Nat /\ timer_fd_' # Disarmed
          /\ armed' \in [for : Nat, at : Nat] /\ armed'.for = Earliest(S, e)
          /\ armed'.for > armed'.at - Micro =>
                 timer_fd_' <= armed'.for \/ timer_fd_' = armed'.at + MinDelay
        BY <3>1, <3>2, ArmStep
    <3>4. \A u \in timers_' : armed'.for <= expiration_'[u] BY <1>1, <3>1, <3>3
    <3> QED BY <3>3, <3>4 DEF ArmedInv
  <2>2. CASE S = {}
    <3>1. timer_fd_' = timer_fd_ /\ armed' = armed /\ timers_' = {} BY <1>1, <2>2
    <3> QED BY <1>2, <3>1 DEF IInv, ArmedInv, TypeOK
  <2> QED BY <2>1, <2>2
<1>12. TypeOK' BY <1>1, <1>2, <1>3, <1>7, <1>11 DEF TypeOK
<1>13. BatchInv' BY <1>1 DEF IInv, BatchInv
<1>14. PlaceInv' BY <1>1, <1>3, <1>8, <1>9 DEF IInv, PlaceInv
<1>15. RunsInv'
  <2>1. \A u \in expired : runs[u] > 0 /\ runs[u] \in Nat BY <1>1, <1>2, <1>3 DEF IInv, RunsInv, TypeOK
  <2>2. \A u \in created' \ erased' : Repeat(u) \/ runs'[u] = 0 => u \in timers_' \cup expired' \cup Queued'
    BY <1>1, <1>5, <1>8, <1>9, <2>1 DEF IInv, RunsInv
  <2>3. \A u \in timers_' \cup todo' \cup Queued' : ~Repeat(u) => runs'[u] = 0
    BY <1>1, <1>3, <1>8, <1>9 DEF IInv, RunsInv, again
  <2> QED BY <1>1, <2>2, <2>3 DEF IInv, RunsInv, Repeat
<1>16. TimeInv'
  <2>1. \A u \in again : e[u] >= first[u] + runs[u] * Interval[u]
    <3> SUFFICES ASSUME NEW u \in again PROVE e[u] >= first[u] + runs[u] * Interval[u] OBVIOUS
    <3>1. u \in Timers /\ u \in expired \ todo BY <1>1, <1>3
    <3>2. first[u] \in Nat /\ Interval[u] \in Nat /\ now \in Nat /\ runs[u] \in Nat BY <1>2, <3>1 DEF TypeOK
    <3>3. now > first[u] + (runs[u] - 1) * Interval[u] BY <3>1 DEF IInv, TimeInv
    <3>4. (runs[u] - 1) * Interval[u] + Interval[u] = runs[u] * Interval[u] /\ runs[u] * Interval[u] \in Nat
        BY <3>2, OneMore
    <3>5. e[u] = now + Interval[u] BY <1>6, <3>1
    <3>6. (runs[u] - 1) * Interval[u] = runs[u] * Interval[u] - Interval[u]
      <4>1. \A a, b \in Int : (a - 1) * b \in Int OBVIOUS
      <4>2. (runs[u] - 1) * Interval[u] \in Int BY <3>2, <4>1
      <4> QED BY <3>2, <3>4, <4>2
    <3> HIDE <1>1
    <3> QED BY <3>2, <3>3, <3>4, <3>5, <3>6
  <2>2. \A u \in timers_ \cup Queued : u \notin again /\ e[u] = expiration_[u]
    BY <1>3, <1>6, <1>10 DEF IInv, PlaceInv
  <2>3. \A u \in timers_' \cup todo' \cup Queued' : expiration_'[u] >= first'[u] + runs'[u] * Interval[u]
    BY <1>1, <1>8, <1>9, <2>1, <2>2 DEF IInv, TimeInv
  <2>4. NeverEarly' BY <1>1 DEF IInv, TimeInv, NeverEarly
  <2> QED BY <1>1, <2>3, <2>4 DEF TimeInv
<1> QED BY <1>9, <1>11, <1>12, <1>13, <1>14, <1>15, <1>16 DEF IInv

\* Time passes: what has run was not early and is not so later.
LEMMA TickPreserves ==
    ASSUME IInv, Tick
    PROVE  IInv'
<1> USE IntervalAssumption
<1>1. /\ clock' = clock + 1
      /\ UNCHANGED <<timers_, expiration_, timer_fd_, pc, now, expired, todo, pending,
                     created, first, runs, cancelled, erased, armed>>
    BY DEF Tick
<1>2. TypeOK BY DEF IInv
<1>3. Queued' = Queued /\ QueueInv' BY <1>1 DEF IInv, Queued, QueueInv, Adds
<1>4. TypeOK' BY <1>1, <1>2 DEF TypeOK
<1>5. BatchInv' /\ PlaceInv' BY <1>1, <1>2, <1>3 DEF IInv, BatchInv, PlaceInv, TypeOK
<1>6. RunsInv' BY <1>1, <1>3 DEF IInv, RunsInv, Repeat
<1>7. NeverEarly'
  <2> SUFFICES ASSUME NEW t \in Timers, runs[t] > 0
               PROVE  clock + 1 > first[t] + (runs[t] - 1) * Interval[t]
    BY <1>1 DEF NeverEarly
  <2>1. clock > first[t] + (runs[t] - 1) * Interval[t] BY DEF IInv, TimeInv, NeverEarly
  <2>2. \A a, b \in Int : (a - 1) * b \in Int OBVIOUS
  <2>3. clock \in Nat /\ first[t] \in Nat /\ runs[t] \in Int /\ Interval[t] \in Int BY <1>2 DEF TypeOK
  <2>4. (runs[t] - 1) * Interval[t] \in Int BY <2>2, <2>3
  <2> QED BY <2>1, <2>3, <2>4
<1>8. TimeInv' BY <1>1, <1>3, <1>7 DEF IInv, TimeInv
<1>9. ArmedInv' BY <1>1 DEF IInv, ArmedInv
<1> QED BY <1>3, <1>4, <1>5, <1>6, <1>8, <1>9 DEF IInv

\* Nothing happens.
LEMMA StutterPreserves ==
    ASSUME IInv, UNCHANGED vars
    PROVE  IInv'
<1>1. pending' = pending BY DEF vars
<1>2. pending' \in Seq(Call) BY <1>1 DEF IInv, TypeOK, Call
<1>3. Queued' = Queued /\ QueueInv' BY <1>1 DEF IInv, Queued, QueueInv, Adds
<1>4. UNCHANGED <<clock, timers_, expiration_, timer_fd_, pc, now, expired, todo, created, first,
                  runs, cancelled, erased, armed>>
    BY DEF vars
<1> QED BY <1>2, <1>3, <1>4, QueuePreserves

\* IInv is inductive.
LEMMA NextPreserves == IInv /\ [Next]_vars => IInv'
<1> SUFFICES ASSUME IInv, [Next]_vars PROVE IInv' OBVIOUS
<1>1. ASSUME NEW t \in Timers, NEW d \in Delays, run_after(t, d) PROVE IInv'
  <2>1. add_time(clock, d) \in Nat BY TimeAssumption DEF IInv, TypeOK, add_time
  <2>2. add_timer(t, add_time(clock, d)) \/ add_timer_queued(t, add_time(clock, d)) BY <1>1 DEF run_after
  <2> QED BY <2>1, <2>2, AddPreserves, AddQueuedPreserves
<1>2. ASSUME NEW t \in Timers, run_every(t) PROVE IInv'
  <2>1. add_time(clock, Interval[t]) \in Nat BY IntervalAssumption DEF IInv, TypeOK, add_time
  <2>2. add_timer(t, add_time(clock, Interval[t])) \/ add_timer_queued(t, add_time(clock, Interval[t]))
    BY <1>2 DEF run_every
  <2> QED BY <2>1, <2>2, AddPreserves, AddQueuedPreserves
<1>3. ASSUME NEW t \in Timers, cancel(t) \/ cancel_queued(t) PROVE IInv'
    BY <1>3, CancelPreserves, CancelQueuedPreserves
<1>4. CASE run_pending BY <1>4, RunPendingPreserves
<1>5. CASE poll \/ handle_read_aborts BY <1>5, PollPreserves
<1>6. CASE handle_read BY <1>6, HandleReadPreserves
<1>7. ASSUME NEW t \in Timers, run(t) PROVE IInv' BY <1>7, RunPreserves
<1>8. CASE reset BY <1>8, ResetPreserves
<1>9. CASE Tick BY <1>9, TickPreserves
<1>10. CASE UNCHANGED vars BY <1>10, StutterPreserves
<1> QED BY <1>1, <1>2, <1>3, <1>4, <1>5, <1>6, <1>7, <1>8, <1>9, <1>10 DEF Next

\* The inductive invariant holds in every reachable state.
LEMMA Invariance == Spec => []IInv
BY InitEstablishes, NextPreserves, PTL DEF Spec

\* A timer that was erased shares its expiration with one that was cancelled.
ErasedInv == \A t \in erased : \E u \in cancelled \cap erased : expiration_[u] = expiration_[t]

\* An erased timer keeps its expiration, and only cancel_in_loop erases, together with the
\* timer it is called for.
LEMMA ErasedPreserves == IInv /\ ErasedInv /\ [Next]_vars => ErasedInv'
<1> SUFFICES ASSUME IInv, ErasedInv, [Next]_vars PROVE ErasedInv' OBVIOUS
<1>0. TypeOK /\ PlaceInv BY DEF IInv
<1>2. ASSUME NEW t \in Timers, NEW when, add_timer(t, when) \/ add_timer_queued(t, when) PROVE ErasedInv'
  <2>1. /\ t \notin created /\ erased' = erased /\ cancelled' = cancelled
        /\ expiration_' = [expiration_ EXCEPT ![t] = when]
      BY <1>2 DEF add_timer, add_timer_queued, construct_timer, add_timer_in_loop
  <2>2. \A u \in erased : u # t /\ u \in Timers BY <1>0, <2>1 DEF PlaceInv, TypeOK
  <2>3. \A u \in erased : expiration_'[u] = expiration_[u] BY <1>0, <2>1, <2>2 DEF TypeOK
  <2> QED BY <2>1, <2>3 DEF ErasedInv
<1>3. ASSUME NEW t \in Timers, cancel_in_loop(t), expiration_' = expiration_ PROVE ErasedInv'
  <2> DEFINE hit == {u \in timers_ : t \in timers_ /\ expiration_[u] = expiration_[t]}
  <2>1. erased' = erased \cup hit /\ cancelled \subseteq cancelled' BY <1>3 DEF cancel_in_loop
  <2>2. hit # {} => t \in hit /\ t \in cancelled'
      BY <1>0, <1>3 DEF cancel_in_loop, PlaceInv
  <2>3. \A u \in hit : expiration_[u] = expiration_[t] OBVIOUS
  <2> HIDE DEF hit
  <2> QED BY <1>3, <2>1, <2>2, <2>3 DEF ErasedInv
<1>4. ASSUME NEW t \in Timers, cancel(t) PROVE ErasedInv' BY <1>3, <1>4 DEF cancel
<1>5. CASE run_pending
  <2>1. Head(pending).timer \in Timers /\ expiration_' = expiration_
    <3>1. pending # <<>> /\ expiration_' = expiration_ BY <1>5 DEF run_pending
    <3>2. pending \in Seq(Call) BY <1>0 DEF TypeOK, Call
    <3>3. Head(pending) \in Call BY <3>1, <3>2, HeldTail DEF IInv, QueueInv
    <3> QED BY <3>1, <3>3 DEF Call
  <2>2. cancel_in_loop(Head(pending).timer) \/ (erased' = erased /\ cancelled' = cancelled)
      BY <1>5 DEF run_pending, add_timer_in_loop
  <2> QED BY <1>3, <2>1, <2>2 DEF ErasedInv
<1>6. CASE reset
  <2>1. /\ erased' = erased /\ cancelled' = cancelled
        /\ \A u \in Timers : u \notin expired => expiration_'[u] = expiration_[u]
      BY <1>6 DEF reset
  <2>2. \A u \in erased : u \in Timers /\ u \notin expired BY <1>0 DEF PlaceInv, TypeOK
  <2> QED BY <2>1, <2>2 DEF ErasedInv
<1>7. CASE \/ poll \/ handle_read \/ handle_read_aborts \/ Tick \/ UNCHANGED vars
           \/ \E t \in Timers : run(t) \/ cancel_queued(t)
  <2>1. erased' = erased /\ cancelled' = cancelled /\ expiration_' = expiration_
      BY <1>7 DEF poll, handle_read, handle_read_aborts, Tick, vars, run, cancel_queued
  <2> QED BY <2>1 DEF ErasedInv
<1> QED BY <1>2, <1>4, <1>5, <1>6, <1>7 DEF Next, run_after, run_every

\* It holds in every reachable state.
LEMMA ErasedInvariance == Spec => []ErasedInv
<1>1. Init => ErasedInv BY DEF Init, ErasedInv
<1> QED BY <1>1, ErasedPreserves, Invariance, PTL DEF Spec

-----------------------------------------------------------------------------
(* What it gives *)

\* The queue's variables keep their types: every time that is computed, the timerfd's
\* included, is a natural number.
THEOREM TypeCorrect == Spec => []TypeOK
<1>1. IInv => TypeOK BY DEF IInv
<1> QED BY <1>1, Invariance, PTL

\* No callback runs before its time, however late handle_read is called and whatever
\* timers callbacks add and cancel: Timer::restart counts from handle_read's now, which
\* is past the expiration.
THEOREM CallbacksAreNotEarly == Spec => []NeverEarly
<1>1. IInv => NeverEarly BY DEF IInv, TimeInv
<1> QED BY <1>1, Invariance, PTL

\* Whatever calls other threads queue and callbacks make, a timer leaves the queue only by
\* running as a one-shot, or by a cancel of a timer with the same expiration: cancel_in_loop
\* erases by key and takes the others along.  No timer is in two places, and a one-shot runs
\* once.
THEOREM TimersAreKept == Spec => []NoTimerLost
<1>1. IInv /\ ErasedInv => NoTimerLost
  <2> SUFFICES ASSUME IInv, ErasedInv PROVE NoTimerLost OBVIOUS
  <2>1. \A t \in created \ erased : Repeat(t) \/ runs[t] = 0 => t \in timers_ \cup expired \cup Queued
    BY DEF IInv, RunsInv
  <2>2. \A t \in Timers : Repeat(t) \/ runs[t] <= 1 BY DEF IInv, RunsInv
  <2> QED BY <2>1, <2>2 DEF IInv, PlaceInv, ErasedInv, NoTimerLost
<1> QED BY <1>1, Invariance, ErasedInvariance, PTL

\* When the loop polls with timers in the queue, the timerfd is set for no later than the
\* earliest of them: no order of add_timer, cancel and handle_read leaves a timer that
\* nothing wakes the loop for, unless the time had passed when reset_timer_fd was called.
THEOREM TimerFdIsArmed == Spec => []ArmedForEarliest
<1>1. IInv => ArmedForEarliest BY DEF IInv, ArmedInv, ArmedForEarliest
<1> QED BY <1>1, Invariance, PTL


=============================================================================
