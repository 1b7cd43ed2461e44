# A TLA+ verification of reactor_network_lib

reactor_network_lib is a C++20 TCP library in the reactor style: a thread owns an
`EventLoop`, which polls file descriptors, calls the callbacks of the `Channel`s that
are ready, and runs functors that other threads have queued.  This directory holds
TLA+ models of its core, the TLC runs that check them on small instances, and proofs
checked by TLAPS.

## 1. The system

| Component | State it keeps | Operations | Interacts with |
|---|---|---|---|
| `EventLoop` | `looping_`, `quit_`, `calling_pending_functors_`, `pending_functors_` under `pending_mut_`, an eventfd | `loop`, `quit`, `queue_in_loop`, `run_in_loop`, `wakeup` | everything: poller, timers, any calling thread |
| `EventLoopThread` | `loop_`, `thread_`, a mutex and a condition | `start_loop`, `thread_func`, destructor | one `EventLoop` on its thread's stack |
| `EventLoopThreadPool` | threads, loops, `next_` | `start`, `get_next_loop` | `EventLoopThread`, `TcpServer` |
| `Channel` | `events_`, `revents_`, `index_` | enable/disable, `handle_event` | `EventLoop`, poller, its owner's callbacks |
| `Epoller`, `Poller` | map of channels, event list or vector of pollfds | `poll`, `update_channel`, `remove_channel` | the kernel |
| `TimerQueue` | a multimap of timers by expiration, a timerfd | `add_timer`, `cancel`, `handle_read` | `EventLoop` (queue and channel) |
| `Buffer` | a vector, reader and writer index | `append`, `read_fd`, `retrieve`... | `TcpConnection` |
| `TcpConnection` | atomic `state_`, channel, two buffers | `send`, `shutdown`, handlers, `connect_established`, `connect_destoryed` | loop, channel, owner (`TcpServer`, `TcpClient`) |
| `Connector` | `state_`, `connect_`, channel, retry timer | `start`, `stop`, `restart`, handlers | loop, timers, `TcpClient` |
| `TcpClient` | `connection_` under a mutex, `retry_`, `connect_` | `connect`, `disconnect`, `stop` | `Connector`, `TcpConnection` |
| `Acceptor` | listening socket, `idle_fd_` | `listen`, `handle_read_once` | `TcpServer` |
| `TcpServer` | map of connections | `start`, `new_connection`, `remove_connection` | `Acceptor`, pool, `TcpConnection` |
| `Logger`, `LogWritter` | `container_` of log lines under `collect_mutex_`, `running_`, a detached writer thread | `<<`, `run`, `write`, destructor | everything |

What is hard to test here: functors posted in the middle of a round; callbacks that add
and cancel timers, or close connections, while the loop is using them; channels of
reused descriptors; a state tested in one thread and used in another; partial writes;
resets that arrive together with data; time outs that hide a missing wakeup; a retry
timer that outlives the wish to connect; a full table of descriptors that other threads use
as well; destructors at exit that race a detached thread.  The hazards are listed with their lines in `PROJECT.json`.

For each component, what makes it correct:

- *EventLoop*: every functor runs once and in order; deferred work runs in its round;
  the loop never sleeps on work nobody announced.
- *EventLoopThread*: `start_loop` returns a live loop; the destructor finds one and returns.
- *Pollers*: the kernel's view is that of the channels; no stale address; assertions hold.
- *TimerQueue*: no callback early or too often, none lost but by a
  cancel, the timerfd armed for the earliest timer.
- *Buffer*: index order, and the bytes come out as they went in.
- *TcpConnection*: the byte stream is preserved across direct, partial and buffered
  writes; shutdown waits for buffered output and happens; a connection is taken down
  once and after its input has been read.
- *Connector/TcpClient*: one channel per descriptor, no reconnect after `stop`, never
  stuck while a connection is wanted.  *Acceptor/TcpServer*: every accepted descriptor has
  one owner and is closed once; the backlog is emptied even when descriptors run out.
- Both: the user hears of every connection once when it is up and once when it is down,
  before its descriptor is used again (`Lifecycle`).
- *Logger*: no line lost or out of order before `main` returns; a fatal line stops the
  program.

## 2. Modules

| Module | Models | Notes |
|---|---|---|
| `EventLoop` | `event_loop/EventLoop` | each critical section and each atomic access is a step; the loop thread and `Callers` interleave |
| `EventLoopThread` | `event_loop/EventLoopThread` | extends `EventLoop`: the loop lives in the spawned thread, `Owner` is one of the `Callers` |
| `TimerQueue` (`MCTimerQueue`) | `time_utils/*` | the clock advances between any two steps; a batch of expired timers runs one callback at a time |
| `ByteStream` | what a `Buffer` promises | abstract: bytes in, the same bytes out |
| `Buffer` | `buffer/Buffer` | the object is a record; `Stream == INSTANCE ByteStream` |
| `Channel`, `Epoller`, `Poller` | the classes of these names | operators on their tables; the epoll set is the kernel's (external) |
| `Pollers` (`MCPollers`) | composition | both pollers driven by the same calls |
| `TcpConnection` (`MCTcpConnection`) | `tcp/TcpConnection`, `Channel::handle_event` | the loop's rounds, other threads, the kernel's socket and the peer |
| `Lifecycle` | what client and server promise of a descriptor | abstract: free, open, up, down, and the moves between them |
| `Connector` | `tcp/Connector` and the loop it runs in | each access of `connect_` and `timer_id_`, which are shared without a lock, is a step |
| `TcpClient` | `tcp/TcpClient` | extends `Connector`; `Descriptors == INSTANCE Lifecycle WITH phase <- Phase` |
| `Acceptor` | `tcp/Acceptor`, `sockets::accept` | the kernel's table of descriptors is shared with other threads, which act between any two system calls |
| `TcpServer` | `tcp/TcpServer`, `EventLoopThreadPool::start` | extends `Acceptor`; implements `Lifecycle` as well |
| `Logger` | `logger/logger`, `init.hpp` | the writer thread, and `main` from its return to the end of the process |
| `EventLoopProofs`, `TimerQueueProofs`, `PollersProofs`, `BufferProofs`, `TcpConnectionProofs`, `TcpClientProofs`, `TcpServerProofs`, `LoggerProofs` | | proofs about the modules of these names; `EventLoopProofs` has those about `EventLoopThread` too |

Actions and operators bear the names of the functions they model, with a suffix for the
part of a function that is a step of its own (`queue_in_loop`, then
`queue_in_loop_wakeup`); variables bear the names of the members.  Variables called
*history* in their comment record what happened, for the properties; no action's guard
reads one except to submit each functor, message or timer object once (`Fresh`, `sent`,
`created`) and to bound the queue of cancels (`cancelled`).  Definitions marked *Mutant*
are wrong versions of a definition that comes after them; no specification uses them.  They
show that the properties notice the mistake.

What the models build on each other: `TcpConnection` assumes a FIFO queue whose deferred
functors run before the next poll (`RunOnceInOrder`, `DeferredRunsThisRound` of
`EventLoop`), a byte stream for `output_buffer_` (`IsByteStream` of `Buffer`) and a
poller that watches `events_` (`EpollSetInSync` of `Pollers`).  `TimerQueue`, `Connector`
and `TcpServer` rely on the queue in the same way, and `Connector` on a timer that runs once
and not early (`NoTimerLost`, `NeverEarly`).  Client and server reduce a `TcpConnection` to its
`state_` and its close; what happens in between is `TcpConnection`'s matter.

### Correspondence in more detail

*EventLoop.* `pc` says where the loop thread is: `constructed`, then in `loop()` at the
`test` of `quit_`, in `poll`, handling `events`, in `do_pending_functors` (`run`), or
`stopped`.  The loop thread's own user code (callbacks, functors) may call the public
operations in `events` and `run`.  `call[t]` is the operation thread `t` is in the
middle of: between `push_back` and `wakeup`, or between the store of `quit_` and
`wakeup`.  The eventfd is its counter.

*EventLoopThread.* `owner` is the owner's program counter through `start_loop` and the
destructor; a thread asleep in `cond_.wait` is woken up by `notify_all` only.
Nobody but the owner knows the loop before `start_loop` returns.

*TimerQueue.* `timers_` is the set of timers in the multimap, keyed by `expiration_`.
`handle_read` is split where user code runs: it takes the expired timers, then `run(t)`
for each in key order, then `reset`.  `how_much_time_from_now` keeps the truncation
to microseconds, the minimum of 100 and the wrap-around of the unsigned difference.  The
assertion in `get_expired` is an abort when it fails.

*Buffer.* `data[i + 1]` is the byte C++ calls `buffer_[i]`.  `readv` is any string that
fits the two areas.

*Pollers.* The calls keep a contract: enable first, one registered channel per descriptor,
remove when there are no events, and nothing for a removed channel.  The library keeps it but
for the late send of `CloseAssertion`, which enables a removed channel; what the pollers do
then is not covered.  `Construct` makes a new `Channel`
object out of a removed one, so descriptors are reused.  The assertions of the two
`fill_active_channels` are stated for everything the kernel might report
(`fill_active_channels_asserts`, `poller_fill_asserts`).

*TcpConnection.* `todo` is the sequence of callbacks `handle_event` is going to call for the
polled `revents`; user code runs between them.  A send or shutdown in another thread is
two steps, the test (or compare-exchange) of `state_` and the `push_back`.  The kernel
takes any part of a write while it has `room`; it reports POLLHUP after a reset or when
both directions are shut, and POLLIN with it if reading is asked for, as Linux does.

*Connector and TcpClient.* `call[t]` is the step thread `t` takes next inside a function; for
the loop thread also the part of a callback that is still to come (`retry`, `run_after`,
`new_connection`, `restart`), so that other threads act in between.  `sock` is what the
kernel knows of a descriptor, `registered` who has a channel for it in the poller.  A failed
attempt reports POLLERR and POLLOUT: `todo` is `<<"error", "write">>`, and `handle_write`
must find the attempt dealt with.  A cancel removes the one timer it is for: the timers of the
loop are taken to have different expirations, since `TimerQueue` would erase all that share
the key, and a retry timer taken along by somebody else's cancel would leave the client stuck.
The application serialises `connect`, `disconnect` and
`stop`, in whatever threads it calls them.

*Acceptor and TcpServer.* `owner` is the kernel's table: which part of the process has opened
each descriptor.  `handle_read_once` is one step per system call.  `Close` frees a number
whoever has it, as `::close` does, so that a second close of `idle_fd_` would hit another
thread's descriptor.  `Referenced` says where a `TcpConnectionPtr` is; `Destruct` is the
destructor of a connection that has lost its last one, by the end of a batch of functors or
by user code in any thread.  The errors `sockets::accept` does not expect write to
`LOG_SYSFATAL`, which aborts the program a little later: `doomed`.

*Logger.* `trash` is the local vector of `write` in each of the two threads.  The swap in
`output` is two steps, because at exit it runs without the lock: the lines may then be
seen by both threads, written twice and freed twice (`Freed`, the program may crash).

## 3. Runs

| Run | Bounds | Shows |
|---|---|---|
| `event_loop` | 2 callers, 3 functors | `RunOnceInOrder`, `DeferredRunsThisRound`, `SleepJustified`; `FunctorEventuallyRuns` under fairness |
| `event_loop_wakeup` | 1 caller, 2 functors | **violated**: `WakeupInterruptsPoll` |
| `event_loop_thread` | owner and a user, 2 functors | the handshake and the destructor: `StartLoopReturns`, `DestructorReturns`, `DestructorQuitsLiveLoop` |
| `timer_queue` | a one-shot and a repeating timer, clock to 8 | `NeverEarly`, `NoTimerLost`, `ArmedForEarliest` |
| `timer_queue_cancel_self` | as above | **violated**: `CancelledNotRestarted` |
| `buffer` | 2 bytes, small sizes | `IndexOrder`, `SpaceAssertions`, refinement of `ByteStream` |
| `pollers` | 4 channels, two of them on one descriptor | all assertions, tables in step with the kernel |
| `tcp_connection` | 2 callers, 2 messages of 2 bytes, 1 unread chunk | `StreamInOrder`, `WritesWhenNeeded`, `DestroyedOnce`, `DrainBeforeShutdown`, `NoInputLost`, and three liveness properties |
| `tcp_connection_close` | 1 caller | **violated**: `CloseAssertion` |
| `tcp_client` | loop thread and a user, 3 calls, 2 descriptors, 4 timers | `AbortsOnlyIfMisused`, `OneChannelPerFd`, `NotStuck`, `StopHolds`, `StopSettles`, `SpentAborts`, refinement of `Lifecycle` |
| `tcp_server` | 3 descriptors, 3 peers | `FailsOnlyForPool`, `NoLeak`, `ReserveKept`, `OthersUntouched`, `BacklogDrains`, refinement of `Lifecycle` |
| `logger` | 3 Loggers, one fatal, 2 lines each | `LinesInOrder`, `NothingForgotten`, `LinesSaved` |

Why the bounds are enough to be interesting: three functors fill a batch, a queue and
leave one to be posted during either; two callers can be in the middle of a call at once.
A one-shot and a repeating timer can have the same key, the repeating one lives through
several rounds, and the clock can overtake both.  The buffer's sizes are small enough that growing, moving and
overflowing into `extra_buff` all occur within a few calls.  Descriptors are reused by a
second channel.  Messages of two bytes have a proper part, and two of them can overtake
each other.  Three calls make connect, stop, connect; a client needs a second descriptor
only while the connection it has lost is not destroyed yet; four timers are more than can be
alive, queued for a cancel and in `timer_id_` together.  Three descriptors are the reserve, a connection and
one that is another thread's or a second connection, so the table fills in every way; the third
peer reuses a number.  Three Loggers put one before and one after the fatal one.

The bounds are constants of the modules: `MaxClock`, `MaxChunk`, `MaxBytes`, `MaxInbox`,
`MaxOutput`, `MaxCalls`, `MaxPeers`, `MaxLines` and the sizes of the constant sets.

Deadlock is checked in `pollers`.  Elsewhere the system really may stop: a loop that has
quit and been destroyed, a clock at its bound, an assertion that aborted the program.

### What the violated runs show

1. `wakeup()` reads the eventfd where its own message speaks of writing
   (`EventLoop.cpp:173`).  A loop asleep in poll is not woken up by `queue_in_loop` or
   `quit`; the time out of 10 s is what keeps `FunctorEventuallyRuns` and
   `DestructorReturns` true.
2. A repeating timer cancelled in its own callback is inserted again by `reset`
   (`TimerQueue.cpp:137`).
3. A `send()` from another thread that passed its test of `state_` runs after
   `connect_destoryed` and enables writing on the removed channel; the next POLLHUP fails
   the assertion of `handle_close` (`TcpConnection.cpp:62`, `:172`).

Behaviours the models have and the properties state as their exceptions:

- `~EventLoopThread` calls `quit()` through `loop_` (`EventLoopThread.cpp:19`), which points to a
  local variable of `thread_func`: once somebody has quit the loop, as the functor of
  `EventLoopThreadTest.hpp` does, the loop may be destroyed by then (`DestructorQuitsLiveLoop`).
- A client that is at rest - no connection, no attempt, no timer, nothing queued - aborts at its
  next `connect()` if its Connector is still Connected (`Connector.cpp:45`): `handle_write` sets
  that state and only `restart` and `retry` reset it.  A `disconnect()`, a connection lost without
  a reconnect, an attempt closed because of `stop()` and a failed test poll in `new_connection`
  all leave it.  `misuse` is then `"spent"`, and `SpentAborts` says that the abort is certain.
- A `connect()` that comes before the client is at rest (`AtRest`; `misuse` is `"hasty"`) may fail
  an assertion of `start_in_loop` or `connecting`, for example after `stop()` while an attempt is
  under way, or while the retry timer is still there because its cancel is in the queue.  The user
  cannot see whether the client is at rest.
- `AbortsOnlyIfMisused` says that these two are the only ways: the assertions of the handlers, of
  `remove_connection` and of `connect_destoryed` never fail, that of `connecting` only after a
  hasty `connect()`.
- A client without a connection that does nothing about it although it was told to connect has
  met an error after which the code does not try again, or has lost its connection without
  `enable_retry()` (`NotStuck`).
- A timer may be erased because another with the same expiration is cancelled (`NoTimerLost`).
- A reconnect that has passed the test in `remove_connection` sets the Connector's
  `connect_` after a `stop()` from another thread (`overtaken` in `StopHolds` and `StopSettles`).
- The reserve descriptor is lost if another thread takes its place in the table between
  `::close` and `::open`.  It comes back only if a later round of the same kind finds a place
  free; until then a full table makes the loop spin (`ReserveKept`, `BacklogDrains`).
- A pool with threads dereferences a moved-from pointer in `start()` (`FailsOnlyForPool`).
- At exit the destructors of the Loggers and the writer thread may write lines twice, and the
  writer's last lines may be lost (`LinesInOrder`, `NothingForgotten`).

Behaviours that no property is about, because nothing in the repository states otherwise:
`quit()` before `loop()` is forgotten (a FIXME in the code); a timer whose key equals `now`
aborts `get_expired`; another thread's `quit()` may call `wakeup()` on a loop that has ended
meanwhile; a message queued by another thread before its `shutdown()` is lost if older output
drains first; a client whose test poll fails keeps the descriptor open and has no connection.

### Fairness

- `event_loop`: weak fairness of the loop thread inside `loop()`.  A poll returns after
  `k_poll_time_ms` at the latest, callbacks and functors are taken to terminate.  Nothing is
  assumed of the other threads.
- `event_loop_thread`: weak fairness of the owner inside `start_loop` and the
  destructor, and of `thread_func`.  `DestructorReturns` assumes that `loop()` has begun.
- `tcp_connection`: weak fairness of the loop, of a thread inside a call, and of the peer
  reading.  The last is an assumption about the peer, without which no output drains.
- `tcp_client`: weak fairness of the loop, of a thread inside a call and of the kernel's
  answer to a connect, which comes or times out; strong fairness of a timer's expiry, which
  can only be seen while the loop polls: time passes there in each round.
- `tcp_server`: weak fairness of the loop only.  No peer need close and no thread need give a
  descriptor back, so `BacklogDrains` is about a table that stays full.
- `logger`: weak fairness of the writer thread; `main` need not return.

## 4. Proofs

Every safety invariant, every action property and every refinement that a run checks is also
a theorem, for every value of the constants.  TLC has checked each inductive invariant on the
instance of its run before it was proved.  Where a bound such as `MaxClock` or `MaxLines` is in
the guards, it is any natural number.

| Module | Theorems | Assumptions on the constants |
|---|---|---|
| `EventLoopProofs` | `TypeCorrect`, `QueueIsFifo` (`RunOnceInOrder`), `DeferredRuns` (`DeferredRunsThisRound`), `NoSilentSleep` (`SleepJustified`); about `ThreadSpec`: `QuitMeetsALoop` (`DestructorQuitsLiveLoop`), `ThreadQueueIsFifo`, `ThreadDeferredRuns`, `ThreadNoSilentSleep` (as for `Spec`) | `ThreadsAssumption`, `MarkersAssumption`: the markers differ, the loop thread is not a caller; `OwnerAssumption`: the owner is one |
| `TimerQueueProofs` | `TypeCorrect`, `CallbacksAreNotEarly` (`NeverEarly`), `TimersAreKept` (`NoTimerLost`), `TimerFdIsArmed` (`ArmedForEarliest`) | `IntervalAssumption`, `TimeAssumption`: times are natural numbers, a microsecond, the least delay and the word are not 0 |
| `PollersProofs` | `TypeCorrect`, `EpollSetMatches` (`EpollSetInSync`), `PollFdsMatch` (`PollFdsInSync`), `NoAssertionFails` (`AssertionsHold`) | `FdAssumption`, `EpollerAssumption`: descriptors are natural numbers, `NoChannel` is not a channel, the event list begins with a place |
| `BufferProofs` | `BufferTypes`, `IndicesInOrder` (`IndexOrder`), `SpaceIsMade` (`SpaceAssertions`), `BytesPreserved`, `BufferIsByteStream` (`IsByteStream`) | `BufferAssumption`: sizes are natural numbers, `Zero` is a byte |
| `TcpConnectionProofs` | `TypeCorrect`, `BytesInOrder` (`StreamInOrder`), `WritesExactlyWhenNeeded` (`WritesWhenNeeded`), `DestroyedOnlyOnce` (`DestroyedOnce`), `OutputBeforeShutdown` (`DrainBeforeShutdown`), `NoInputIsLost` (`NoInputLost`) | `PayloadAssumption`: messages are non-empty byte strings; `TcpMarkersAssumption` |
| `TcpClientProofs` | `TypeCorrect`, `StopIsObeyed` (`StopHolds`), `ChannelsDoNotClash` (`OneChannelPerFd`), `AssertionsFailOnlyIfMisused` (`AbortsOnlyIfMisused`), `NeverStuck` (`NotStuck`), `ClientIsLifecycle` (`IsLifecycle`) | `ConnectorAssumption`: the marker, the descriptors and the timers are different things |
| `TcpServerProofs` | `TypeCorrect`, `AssertionsNeverFail` (`FailsOnlyForPool`), `NoDescriptorLeaks` (`NoLeak`), `ReserveIsKept` (`ReserveKept`), `OthersAreUntouched` (`OthersUntouched`), `ServerIsLifecycle` (`IsLifecycle`) | `AcceptorAssumption`: there is a descriptor, and the marker is none |
| `LoggerProofs` | `TypeCorrect`, `LinesReachTheFile` (`LinesInOrder`), `NoLineIsForgotten` (`NothingForgotten`) | `LoggerAssumption`: at least one Logger, fatal ones among them |

In each module `IInv` is the inductive invariant, a conjunction of named parts; a lemma per
operation, or per group of operations that do the same to the state, shows that it is kept,
`NextPreserves` puts them together, and the theorems follow from `IInv`.  The lemmas on
sequences come first.  What the strengthenings are for:

*EventLoop.* `DeferredRunsThisRound` and `SleepJustified` only speak of some program counters.
`PcInv` says what the program counter tells of `looping_`, the batch and
`calling_pending_functors_`, `LoopCallInv` when the loop thread can be inside a call,
`DeferredInv` that a deferred functor has run, is in the batch, or is pending while the loop
handles events, and `WakeInv` that an unannounced functor has a poster in the middle of its
call, was posted outside `loop()`, or will be swapped out before the next poll.

*EventLoopThread.* `ThreadSpec` does not implement `Spec`: the loop is destroyed without asking
whether other threads are inside calls, and `~EventLoopThread` calls `quit()` on a loop that may
be gone.  `IInv` is kept all the same, so the loop keeps
its promises (`ThreadQueueIsFifo`, `ThreadDeferredRuns`, `ThreadNoSilentSleep`).  `LifeInv` adds how
owner, thread and loop stand to each other; `loop()` returns only when `quit_` is set, and
`thread_func` does not call it a second time.

*TimerQueue.* `NeverEarly` needs to know that the expiration of a timer that is still to run is
at least its first expiration and as many intervals as it has run (`TimeInv`): `Timer::restart`
counts from `now`, which is later than the expiration that made the timer run.  `PlaceInv` has
each timer in one place only, and in none before it is constructed; `BatchInv` has timers in
`handle_read`'s hands only while it runs.  `ErasedInv`, on top of `IInv`, has each erased timer
share its expiration with one that was cancelled: `cancel_in_loop` erases the timer it is called
for along with the others, and nothing changes an erased timer's expiration.  `ArmedInv` has the timerfd set for no later than any
timer in `timers_` at all times, except that between `read_timer_fd` and `reset` it need not be
set at all.  `DelayIsShort` is about the arithmetic: truncation to microseconds, the unsigned
word and the least delay never set the timerfd too late, unless the time had passed by a
microsecond or more.

*Pollers.* For the `Poller`, that `index_` is a bijection between the registered channels and
`poll_fds_` (`PollInv`) is what survives the swap with the last element in `remove_channel`;
the `Epoller`'s side says for each `index_` what the map and the kernel hold.

*Buffer.* The argument goes through `Content`, the readable bytes as a sequence: appending and
reading add to its end, retrieving takes from its front, making space keeps it.  The invariant
is `in = out \o Content(buf)` with the index order and one strengthening the class comment
does not state: `k_cheap_prepend <= reader_index_`.  Without it `make_space` could move the
content up and over the end of the vector.

*TcpConnection.* `connect_destoryed` is in a queue at most once because a round of events has at
most one callback that closes (`TodoInv`), and the queue is empty of it when the next round
begins (`DestroyInv`).  That a channel reads as long as its connection is open (`ReadInv`) is why
POLLHUP alone never closes one with input left.

*TcpClient.* The heart is `TokenInv`: as long as no `connect()` was misused, one thread, one timer
or one functor at most is on its way to `start_in_loop`, and it gets there after the attempt
before it has ended and `channel_` was reset.  `StuckInv` is its counterpart: there is at least
one while a connection is wanted, and no cancel in the queue is for the last timer.  `HistoryInv`
is proved on top of `IInv`: `LostInv` has a client with `enable_retry()` that has lost its
connection on the way to `restart`, `OvertakenInv` has `connect_` stay reset from the middle of
`stop()` on unless a `restart` was under way, and `SpentInv` has a Connector that was started
while Connected stay so until the assertion of `start_in_loop`.
`ChannelInv`, `LoopCallInv`, `TodoInv` and `ConnInv` follow the descriptor from the Connector's
channel through the hands of the loop thread to the connection.

*TcpServer.* `OwnerInv` ties the kernel's table to the locals of `handle_read_once` and to the
connections, `IdleInv` says when the value of `idle_fd_` is stale, and `ConnInv` and `QueueInv`
who refers to a connection: `connections_`, one of the two queues once, or only the batch and
the user.  `CountInv` bounds the names of connections by the number of peers.

*Client and server as Lifecycles.* `Lifecycle` is proved step by step: one lemma says which
phases a step of each kind can change and how; the invariant excludes a connection on a closed
descriptor and a report of a connection that is not up.

*Logger.* `PcInv` has the writer thread hold `collect_mutex_` while it writes; until `main`
returns (`OrderInv`) file, hand and container are the lines 1, 2, 3... so a line in hand cannot
be in the file, and no line is freed twice.  At exit only `TakeInv` is left: whoever takes the
lines out has seen all of them, though perhaps not alone.

`TypeOK` and `StreamPreserved` are stated by theorems and by no run: `IsByteStream` contains
the second.  TLC has checked the `TypeOK` of each module on the instance of its run.

Only model-checked: the liveness properties (`FunctorEventuallyRuns`, `StartLoopReturns`,
`DestructorReturns`, `OutputDrains`, `ShutdownHappens`, `WriteCompleteTold`, `StopSettles`,
`SpentAborts`, `BacklogDrains`, `LinesSaved`), since fairness and ENABLED are outside the prover's reach; and
the three violations, which need a behaviour, not a proof.

## 5. Not modelled

- The destructors of `TcpClient`, `Connector` and `TcpServer`.  A client that is destroyed
  leaves callbacks with a dangling `this` behind (its close callback captures it, and so does
  the timer of the "HACK"), `~Connector` asserts that there is no channel, and a server leaves
  its connections with a close callback to itself.  A model would only say so.
- The lifetime of a `TcpConnection` against its queued lambdas, which hold a raw `this`, and
  the `string_view` of a `send` from another thread: in `TcpConnection` the users keep both
  alive, in `TcpServer` the pointers are counted but nothing is sent.
- `EventLoopThreadPool` with threads: `start()` crashes, so the round robin and connections in
  other loops cannot happen.
- `Acceptor::handle_read_all`, `Logger::register_to`, `Buffer::shrink` and
  `Buffer::prepend`: nothing in the library calls them.  (`BufferTest.hpp` calls the last two,
  the latter, it says, in error; `shrink` keeps indices that may lie beyond the new
  vector.)
- `::socket` failing in `Connector::connect`; it logs to `LOG_SYSFATAL` and goes on with -1.
- `timer_id_` is a `weak_ptr` copied without a lock: the model takes each access as one step.
  `retry_delay_ms_` never changes (`std::min` with its own value), and delays have no length.
- At exit: other threads that still log, and the destruction of `g_writter` while the writer
  thread goes through `loggers_`.
- POLLPRI, POLLNVAL and spurious readiness; what the log lines say.
- Socket options, addresses and their conversion: system calls without state of their own.
- The difference between `system_clock` and the monotonic clock of the timerfd, and the
  overflow of delays beyond 2147 s.

## 6. Plan

Every component whose operations can happen is modelled, and every safety property of the runs
is proved.  What is left is to state as invariants, and to prove, what the liveness properties
rest on: that the step which the fairness speaks of is there to be taken (a client that is to
retry has a timer the poll waits for, a connection with output asks for POLLOUT, a Logger
with lines is one the writer thread comes to).
