--------------------------- MODULE TcpClientProofs ---------------------------
(***************************************************************************)
(* Proofs about TcpClient and its Connector for any threads, descriptors   *)
(* and timers and any number of calls.                                     *)
(***************************************************************************)
EXTENDS TcpClient, FiniteSetTheorems, TLAPS

\* The steps of the public operations, which the application serialises.
UserSteps == {"start", "run_in_loop", "stop", "cancel", "shutdown"}

\* Threads other than the loop's run nothing but public operations, one at a time.
CallInv ==
    /\ \A t \in Threads \ {LoopThread} : call[t] \in UserSteps \cup {"idle"}
    /\ \A t, u \in Threads : call[t] \in UserSteps /\ call[u] \in UserSteps => t = u
    /\ pc = "poll" => call[LoopThread] = "idle"

\* While stop() is under way nobody wants a connection.
StopInv == \A t \in Threads : call[t] \in {"stop", "cancel"} => ~client_connect_

\* The positions of the functors for op in a queue.
Positions(q, op) == {i \in DOMAIN q : q[i].op = op}
Queued(op) == Positions(pending, op) # {} \/ Positions(functors, op) # {}
Lone(S) == \A x, y \in S : x = y

\* A functor that a callback queues runs in the same round, and there is one reset.
QueueInv ==
    /\ pc \in {"poll", "events"} => functors = <<>>
    /\ \A op \in {"reset", "destroy"} : Positions(pending, op) # {} => pc \in {"events", "aborted"}
    /\ Lone(Positions(pending, "reset"))
    /\ Lone(Positions(functors, "reset"))

\* The poller has a channel of the Connector.
Watching == \E f \in Fds : <<"connector", f>> \in registered

\* The descriptor in the hands of retry or of new_connection_callback_.
InHand == IF call[LoopThread] \in {"retry", "new_connection"} THEN {sock_fd} ELSE {}

\* channel_ is in the poller while the attempt is under way, then waits for its reset.
ChannelInv ==
    /\ \A f \in Fds : <<"connector", f>> \in registered =>
           channel_ = f /\ state_ = "Connecting" /\ sock[f] # "free" /\ conn[f] = "none"
    /\ Queued("reset") => channel_ # None /\ ~Watching
    /\ Watching => InHand = {}
    /\ pc # "aborted" => /\ channel_ # None => Watching \/ Queued("reset")
                         /\ state_ = "Connecting" => Watching \/ call[LoopThread] = "retry"

\* What the loop thread is about to do, and the descriptor it has in hand.
LoopCallInv ==
    /\ \A f \in InHand : f \in Fds /\ sock[f] # "free" /\ conn[f] = "none"
    /\ call[LoopThread] = "retry" => state_ # "Connected"
    /\ call[LoopThread] = "run_after" => state_ = "Disconnected"
    /\ call[LoopThread] \in {"new_connection", "restart"} => state_ = "Connected" /\ connection_ = None
    /\ call[LoopThread] = "restart" => channel_ = None

\* The round of events of channel_.
TodoInv ==
    /\ todo \in {<<>>, <<"write">>, <<"error", "write">>}
    /\ pc \in {"poll", "functors"} => todo = <<>>
    /\ todo = <<"error", "write">> => Watching
    /\ pc # "aborted" /\ todo = <<"write">> /\ ~Watching =>
           \/ call[LoopThread] = "retry"
           \/ state_ = "Disconnected" /\ call[LoopThread] \in {"run_after", "idle"}

Up == {"Connected", "Disconnecting"}

\* connect_destoryed is queued once for a connection that is up and no longer connection_.
DestroysUp(q) ==
    /\ \A i \in Positions(q, "destroy") : q[i].arg \in Fds /\ conn[q[i].arg] \in Up /\ q[i].arg # connection_
    /\ \A i, j \in Positions(q, "destroy") : q[i].arg = q[j].arg => i = j

\* The connection is connection_ until its close is handled.
ConnInv ==
    /\ \A f \in Fds : conn[f] # "none" => sock[f] # "free"
    /\ \A f \in Fds : <<"connection", f>> \in registered => conn[f] \in Up
    /\ connection_ # None => conn[connection_] \in Up /\ state_ = "Connected"
    /\ enabled \subseteq {connection_}
    /\ due \cap Fds \subseteq enabled
    /\ due \cap Fds # {} => channel_ = None
    /\ pc = "functors" => due = {}
    /\ DestroysUp(pending)
    /\ DestroysUp(functors)

\* No assertion has failed but those of start_in_loop and connecting.
FailedInv ==
    /\ pc # "aborted" => failed = None
    /\ failed \in {None, "start", "channel"}

\* The threads that are on their way to start_in_loop.
Calling == {t \in Threads : call[t] \in {"start", "run_in_loop", "start_in_loop", "retry", "run_after"}}

\* A client that wants a connection and has none will call start_in_loop: none of the
\* cancels in the queue is for the last timer that would.
StuckInv ==
    client_connect_ /\ connect_ /\ pc # "aborted" /\ state_ = "Disconnected" =>
        Calling # {} \/ timers \ Cancels # {} \/ Queued("start") \/ gave_up

\* At most one thread, timer or functor is going to call start_in_loop.
OneSource ==
    /\ Lone(Calling) /\ Lone(timers)
    /\ Lone(Positions(pending, "start")) /\ Lone(Positions(functors, "start"))
    /\ Calling # {} => timers = {} /\ ~Queued("start")
    /\ timers # {} => ~Queued("start")
    /\ Positions(pending, "start") # {} => Positions(functors, "start") = {}

\* Without a misuse of connect() that one comes after the end of the attempt before it and
\* the reset of channel_.
TokenInv ==
    misuse = "none" =>
        /\ failed = None
        /\ OneSource
        /\ Calling # {} \/ timers # {} \/ Queued("start") =>
               ~Watching /\ (state_ = "Disconnected" \/ call[LoopThread] = "retry")
        /\ Queued("reset") => /\ due \cap Timers = {}
                              /\ ~Queued("start")
                              /\ \A t \in Threads : call[t] \notin {"start", "run_in_loop", "start_in_loop"}
        /\ todo # <<>> => due \cap Timers = {}
        /\ pc = "poll" => due \cap Timers \subseteq timers

\* The threads that have a start() to finish.
Starting == {t \in Threads : call[t] \in {"start", "run_in_loop", "start_in_loop"}}

\* A client with enable_retry() that wants a connection and has lost the last one restarts.
LostInv ==
    client_connect_ /\ connect_ /\ retry_ /\ pc # "aborted" /\ state_ = "Connected" =>
        \/ connection_ # None
        \/ call[LoopThread] \in {"new_connection", "restart"}
        \/ Starting # {} \/ Queued("start") \/ gave_up

\* Once stop() has reset connect_, only a restart() it found under way sets it again.
OvertakenInv ==
    /\ \A t \in Threads : call[t] = "cancel" /\ ~overtaken => ~connect_ /\ call[LoopThread] # "restart"
    /\ stopped => ~client_connect_ /\ \A t \in Threads : call[t] # "start"
    /\ stopped /\ ~overtaken => ~connect_ /\ call[LoopThread] # "restart"

\* A Connector that was started although it is still Connected stays so until the assertion
\* of start_in_loop.
SpentInv ==
    misuse = "spent" =>
        IF pc = "aborted" THEN failed = "start"
        ELSE /\ state_ = "Connected" /\ connection_ = None
             /\ call[LoopThread] \notin {"new_connection", "restart"}

\* What the histories say, on top of IInv.
HistoryInv == LostInv /\ OvertakenInv /\ SpentInv

IInv ==
    /\ TypeOK /\ CallInv /\ StopInv /\ QueueInv /\ ChannelInv /\ LoopCallInv /\ TodoInv /\ ConnInv
    /\ FailedInv /\ StuckInv /\ TokenInv

-----------------------------------------------------------------------------
(* Queues *)

\* Where the functors of each kind are after queue_in_loop.
LEMMA AppendPositions ==
    ASSUME NEW S, NEW q \in Seq(S), NEW g \in S, NEW op
    PROVE  /\ Append(q, g) \in Seq(S)
           /\ g.op # op => Positions(Append(q, g), op) = Positions(q, op)
           /\ g.op = op => Positions(Append(q, g), op) = Positions(q, op) \cup {Len(q) + 1}
           /\ Append(q, g)[Len(q) + 1] = g
           /\ \A i \in Positions(q, op) : Append(q, g)[i] = q[i]
<1>1. /\ Len(q) \in Nat /\ DOMAIN q = 1..Len(q)
      /\ DOMAIN Append(q, g) = 1..(Len(q) + 1)
      /\ Append(q, g)[Len(q) + 1] = g
      /\ \A i \in 1..Len(q) : Append(q, g)[i] = q[i]
    OBVIOUS
<1>2. g.op # op => Positions(Append(q, g), op) = Positions(q, op) BY <1>1 DEF Positions
<1>3. g.op = op => Positions(Append(q, g), op) = Positions(q, op) \cup {Len(q) + 1}
    BY <1>1 DEF Positions
<1> QED BY <1>1, <1>2, <1>3 DEF Positions

\* ... and when the first one has been taken off.
LEMMA TailPositions ==
    ASSUME NEW S, NEW q \in Seq(S), q # <<>>, NEW op
    PROVE  /\ Tail(q) \in Seq(S)
           /\ Head(q) \in S
           /\ \A i \in Positions(Tail(q), op) :
                  i \in Nat /\ i > 0 /\ i + 1 \in Positions(q, op) /\ Tail(q)[i] = q[i + 1]
           /\ Lone(Positions(q, op)) => Lone(Positions(Tail(q), op))
           /\ Head(q).op = op => 1 \in Positions(q, op)
           /\ Head(q).op = op /\ Lone(Positions(q, op)) => Positions(Tail(q), op) = {}
           /\ Head(q).op # op => (Positions(Tail(q), op) = {} <=> Positions(q, op) = {})
<1>1. /\ Len(q) \in Nat /\ DOMAIN q = 1..Len(q) /\ Len(q) > 0
      /\ Head(q) = q[1] /\ Head(q) \in S /\ Tail(q) \in Seq(S)
      /\ DOMAIN Tail(q) = 1..(Len(q) - 1)
      /\ \A i \in 1..(Len(q) - 1) : Tail(q)[i] = q[i + 1]
    OBVIOUS
<1>2. \A i \in Positions(Tail(q), op) :
          i \in Nat /\ i > 0 /\ i + 1 \in Positions(q, op) /\ Tail(q)[i] = q[i + 1]
    BY <1>1 DEF Positions
<1>3. Head(q).op = op => 1 \in Positions(q, op) BY <1>1 DEF Positions
<1>4. ASSUME Lone(Positions(q, op)) PROVE Lone(Positions(Tail(q), op))
  <2> SUFFICES ASSUME NEW i \in Positions(Tail(q), op), NEW j \in Positions(Tail(q), op) PROVE i = j
      BY DEF Lone
  <2>1. i + 1 = j + 1 BY <1>2, <1>4 DEF Lone
  <2> QED BY <1>2, <2>1
<1>5. ASSUME Head(q).op = op, Lone(Positions(q, op)), NEW i \in Positions(Tail(q), op) PROVE FALSE
  <2>1. i + 1 = 1 BY <1>2, <1>3, <1>5 DEF Lone
  <2> QED BY <1>2, <2>1
<1>6. ASSUME Head(q).op # op, NEW i \in Positions(q, op) PROVE Positions(Tail(q), op) # {}
  <2>1. i \in 2..Len(q) BY <1>1, <1>6 DEF Positions
  <2>2. i - 1 \in 1..(Len(q) - 1) /\ Tail(q)[i - 1] = q[i] BY <1>1, <2>1
  <2>3. i - 1 \in Positions(Tail(q), op) BY <1>1, <1>6, <2>2 DEF Positions
  <2> QED BY <2>3
<1> QED BY <1>1, <1>2, <1>3, <1>4, <1>5, <1>6

\* The arguments of the functors in the queues.
LEMMA CancelsOf ==
    ASSUME TypeOK
    PROVE  /\ \A g \in Functors : pending' = Append(pending, g) /\ functors' = functors
                                      => Cancels' = Cancels \cup {g.arg}
           /\ functors # <<>> /\ functors' = Tail(functors) /\ pending' = pending
                  => Cancels' \subseteq Cancels /\ Cancels \subseteq Cancels' \cup {Head(functors).arg}
           /\ functors' = pending /\ pending' = <<>> => Cancels' \subseteq Cancels
<1>1. /\ pending \in Seq(Functors) /\ Len(pending) \in Nat /\ DOMAIN pending = 1..Len(pending)
      /\ functors \in Seq(Functors) /\ Len(functors) \in Nat /\ DOMAIN functors = 1..Len(functors)
    BY DEF TypeOK
<1>2. ASSUME NEW g \in Functors, pending' = Append(pending, g), functors' = functors
      PROVE  Cancels' = Cancels \cup {g.arg}
  <2>1. /\ DOMAIN pending' = 1..(Len(pending) + 1)
        /\ pending'[Len(pending) + 1] = g
        /\ \A i \in 1..Len(pending) : pending'[i] = pending[i]
      BY <1>1, <1>2
  <2>2. Cancels' \subseteq Cancels \cup {g.arg} BY <1>1, <1>2, <2>1 DEF Cancels
  <2>3. Cancels \cup {g.arg} \subseteq Cancels' BY <1>1, <1>2, <2>1 DEF Cancels
  <2> QED BY <2>2, <2>3
<1>3. ASSUME functors # <<>>, functors' = Tail(functors), pending' = pending
      PROVE  Cancels' \subseteq Cancels /\ Cancels \subseteq Cancels' \cup {Head(functors).arg}
  <2>1. /\ Len(functors) > 0 /\ Head(functors) = functors[1]
        /\ DOMAIN functors' = 1..(Len(functors) - 1)
        /\ \A i \in 1..(Len(functors) - 1) : functors'[i] = functors[i + 1]
      BY <1>1, <1>3
  <2>2. Cancels' \subseteq Cancels BY <1>1, <1>3, <2>1 DEF Cancels
  <2>3. ASSUME NEW i \in DOMAIN functors PROVE functors[i].arg \in Cancels' \cup {Head(functors).arg}
    <3>1. CASE i = 1 BY <2>1, <3>1
    <3>2. CASE i # 1
      <4>1. i - 1 \in DOMAIN functors' /\ functors'[i - 1] = functors[i] BY <1>1, <2>1, <3>2
      <4> QED BY <4>1 DEF Cancels
    <3> QED BY <3>1, <3>2
  <2>4. Cancels \subseteq Cancels' \cup {Head(functors).arg} BY <1>3, <2>3 DEF Cancels
  <2> QED BY <2>2, <2>4
<1>4. functors' = pending /\ pending' = <<>> => Cancels' \subseteq Cancels BY DEF Cancels
<1> QED BY <1>2, <1>3, <1>4

-----------------------------------------------------------------------------
(* Facts of the invariant *)

\* The poller's channel of the Connector is channel_.
LEMMA WatchesChannel ==
    ASSUME TypeOK, ChannelInv
    PROVE  Watching <=> <<"connector", channel_>> \in registered
BY DEF TypeOK, ChannelInv, Watching

\* Goto for one thread.
LEMMA GotoStep ==
    ASSUME TypeOK, NEW t \in Threads, NEW s \in Steps, Goto(t, s)
    PROVE  /\ call' \in [Threads -> Steps]
           /\ call'[t] = s
           /\ \A u \in Threads : u # t => call'[u] = call[u]
BY DEF TypeOK, Goto

\* The loop thread is one of the threads.
LEMMA LoopIsThread == LoopThread \in Threads
BY DEF Threads

\* A call begins when no other is under way.
LEMMA BeginCallStep ==
    ASSUME IInv, NEW t \in Users, BeginCall(t)
    PROVE  /\ t \in Threads /\ call[t] = "idle" /\ pc # "aborted"
           /\ \A u \in Threads : call[u] \notin UserSteps
           /\ t = LoopThread => pc # "poll" /\ (todo = <<"write">> => Watching)
           /\ calls' \in 0..MaxCalls
<1>0. TypeOK /\ CallInv /\ ChannelInv /\ TodoInv BY DEF IInv
<1>1. t \in Threads BY DEF Threads
<1>2. call[t] = "idle" BY DEF BeginCall, Idle
<1>3. \A u \in Threads : call[u] \notin UserSteps BY DEF BeginCall, Threads, UserSteps
<1>4. t = LoopThread => pc # "poll" /\ (todo = <<"write">> => Watching)
    BY <1>0, WatchesChannel DEF BeginCall, Idle, MidEvent
<1>5. calls' \in 0..MaxCalls BY <1>0, ConnectorAssumption DEF BeginCall, TypeOK
<1> QED BY <1>1, <1>2, <1>3, <1>4, <1>5 DEF BeginCall

\* The state after construction satisfies the invariant.
LEMMA InitEstablishes == Init => IInv
<1> SUFFICES ASSUME Init PROVE IInv OBVIOUS
<1> USE ConnectorAssumption, LoopIsThread DEF Init, ConnectorInit
<1>1. TypeOK
  <2>1. /\ connect_ \in BOOLEAN /\ gave_up \in BOOLEAN /\ retry_ \in BOOLEAN /\ client_connect_ \in BOOLEAN
        /\ stopped \in BOOLEAN /\ overtaken \in BOOLEAN
      BY Zenon
  <2>2. call \in [Threads -> Steps] BY DEF Steps
  <2>3. sock \in [Fds -> SockStates] BY DEF SockStates
  <2>4. conn \in [Fds -> ConnStates] BY DEF ConnStates
  <2>5. <<>> \in Seq({"error", "write"}) /\ <<>> \in Seq(Functors) OBVIOUS
  <2> QED BY <2>1, <2>2, <2>3, <2>4, <2>5 DEF TypeOK, States
<1>2. CallInv /\ StopInv BY DEF CallInv, StopInv, UserSteps
<1>3. \A op : Positions(pending, op) = {} /\ Positions(functors, op) = {} BY DEF Positions
<1>4. ~Watching /\ InHand = {} /\ Calling = {} BY DEF Watching, InHand, Calling
<1>5. QueueInv BY <1>3 DEF QueueInv, Lone
<1>6. ChannelInv BY <1>3, <1>4 DEF ChannelInv, Queued
<1>7. LoopCallInv BY <1>4 DEF LoopCallInv
<1>8. TodoInv BY DEF TodoInv
<1>9. ConnInv BY <1>3 DEF ConnInv, DestroysUp
<1>10. FailedInv /\ StuckInv BY DEF FailedInv, StuckInv
<1>11. TokenInv BY <1>3, <1>4 DEF TokenInv, OneSource, Queued, Lone
<1> QED BY <1>1, <1>2, <1>5, <1>6, <1>7, <1>8, <1>9, <1>10, <1>11 DEF IInv

\* queue_in_loop, in the terms of the invariant.
LEMMA Enqueues ==
    ASSUME TypeOK, NEW g \in Functors, pending' = Append(pending, g), functors' = functors
    PROVE  /\ pending' \in Seq(Functors)
           /\ \A op : op # g.op => /\ Positions(pending', op) = Positions(pending, op)
                                   /\ Queued(op)' <=> Queued(op)
           /\ Positions(pending', g.op) = Positions(pending, g.op) \cup {Len(pending) + 1}
           /\ Queued(g.op)'
           /\ \A op : Positions(functors', op) = Positions(functors, op)
           /\ pending'[Len(pending) + 1] = g
           /\ \A op : \A i \in Positions(pending, op) : pending'[i] = pending[i]
           /\ Cancels' = Cancels \cup {g.arg}
<1>1. pending \in Seq(Functors) BY DEF TypeOK
<1>2. ASSUME NEW op
      PROVE  /\ op # g.op => Positions(pending', op) = Positions(pending, op)
             /\ op = g.op => Positions(pending', op) = Positions(pending, op) \cup {Len(pending) + 1}
             /\ Positions(functors', op) = Positions(functors, op)
             /\ \A i \in Positions(pending, op) : pending'[i] = pending[i]
  <2>1. g.op # op => Positions(Append(pending, g), op) = Positions(pending, op)
      BY <1>1, AppendPositions
  <2>2. g.op = op => Positions(Append(pending, g), op) = Positions(pending, op) \cup {Len(pending) + 1}
      BY <1>1, AppendPositions
  <2>3. \A i \in Positions(pending, op) : Append(pending, g)[i] = pending[i]
      BY <1>1 DEF Positions
  <2> QED BY <2>1, <2>2, <2>3
<1>3. pending' \in Seq(Functors) /\ pending'[Len(pending) + 1] = g BY <1>1, AppendPositions
<1>4. Cancels' = Cancels \cup {g.arg} BY CancelsOf
<1> QED BY <1>2, <1>3, <1>4 DEF Queued

\* The functor at the head of the batch is taken off.
LEMMA Dequeues ==
    ASSUME TypeOK, functors # <<>>, functors' = Tail(functors), pending' = pending, NEW op
    PROVE  /\ functors' \in Seq(Functors)
           /\ Head(functors) \in Functors
           /\ Positions(pending', op) = Positions(pending, op)
           /\ \A i \in Positions(functors', op) :
                  i \in Nat /\ i > 0 /\ i + 1 \in Positions(functors, op) /\ functors'[i] = functors[i + 1]
           /\ Lone(Positions(functors, op)) => Lone(Positions(functors', op))
           /\ Head(functors).op = op => 1 \in Positions(functors, op) /\ functors[1] = Head(functors) /\ Queued(op)
           /\ Head(functors).op = op /\ Lone(Positions(functors, op)) => Positions(functors', op) = {}
           /\ Head(functors).op # op => /\ Positions(functors', op) = {} <=> Positions(functors, op) = {}
                                        /\ Queued(op)' <=> Queued(op)
           /\ Queued(op)' => Queued(op)
           /\ Cancels' \subseteq Cancels
           /\ Cancels \subseteq Cancels' \cup {Head(functors).arg}
<1>1. functors \in Seq(Functors) BY DEF TypeOK
<1>2. /\ Positions(pending', op) = Positions(pending, op)
      /\ Positions(functors', op) = Positions(Tail(functors), op)
    BY DEF Positions
<1>3. /\ Tail(functors) \in Seq(Functors)
      /\ Head(functors) \in Functors
      /\ \A i \in Positions(Tail(functors), op) :
             i \in Nat /\ i > 0 /\ i + 1 \in Positions(functors, op) /\ Tail(functors)[i] = functors[i + 1]
      /\ Lone(Positions(functors, op)) => Lone(Positions(Tail(functors), op))
      /\ Head(functors).op = op => 1 \in Positions(functors, op)
      /\ Head(functors).op = op /\ Lone(Positions(functors, op)) => Positions(Tail(functors), op) = {}
      /\ Head(functors).op # op => (Positions(Tail(functors), op) = {} <=> Positions(functors, op) = {})
    BY <1>1, TailPositions
<1>4. Head(functors) = functors[1] BY <1>1
<1>5. Queued(op)' <=> (Positions(pending, op) # {} \/ Positions(Tail(functors), op) # {})
    BY <1>2 DEF Queued
<1>6. Queued(op)' => Queued(op) BY <1>3, <1>5 DEF Queued
<1>7. Head(functors).op = op => Queued(op) BY <1>3 DEF Queued
<1>8. Head(functors).op # op => (Queued(op)' <=> Queued(op)) BY <1>3, <1>5 DEF Queued
<1>9. /\ Cancels' \subseteq Cancels
      /\ Cancels \subseteq Cancels' \cup {Head(functors).arg}
    BY CancelsOf
<1> QED BY <1>2, <1>3, <1>4, <1>6, <1>7, <1>8, <1>9

-----------------------------------------------------------------------------
(* The calls of the user *)

\* connect() is the beginning of Connector::start(): unless it is misused nothing else is on its way.
LEMMA ConnectPreserves ==
    ASSUME IInv, NEW t \in Users, connect(t)
    PROVE  IInv'
<1> USE LoopIsThread
<1>0. /\ TypeOK /\ CallInv /\ StopInv /\ QueueInv /\ ChannelInv /\ LoopCallInv /\ TodoInv /\ ConnInv
      /\ FailedInv /\ StuckInv /\ TokenInv
    BY DEF IInv
<1>1. /\ t \in Threads /\ call[t] = "idle" /\ pc # "aborted"
      /\ \A u \in Threads : call[u] \notin UserSteps
      /\ t = LoopThread => pc # "poll" /\ (todo = <<"write">> => Watching)
      /\ calls' \in 0..MaxCalls
    BY BeginCallStep DEF connect
<1>2. /\ call' \in [Threads -> Steps]
      /\ call'[t] = "start"
      /\ \A u \in Threads : u # t => call'[u] = call[u]
    BY <1>0, <1>1, GotoStep DEF connect, Steps
<1>3. /\ Watching' <=> Watching
      /\ \A op : /\ Positions(pending', op) = Positions(pending, op)
                 /\ Positions(functors', op) = Positions(functors, op)
                 /\ Queued(op)' <=> Queued(op)
      /\ Cancels' = Cancels
    BY DEF connect, loopVars, Watching, Positions, Queued, Cancels
<1>4. InHand' = InHand BY <1>1, <1>2, LoopIsThread DEF InHand, connect
<1>5. Calling' = Calling \cup {t} BY <1>1, <1>2 DEF Calling
<1>6. misuse' = "none" => /\ misuse = "none" /\ state_ = "Disconnected"
                          /\ Calling = {} /\ timers = {} /\ ~Queued("start") /\ ~Queued("reset") /\ ~Watching
  <2>1. misuse' = "none" => misuse = "none" /\ AtRest /\ state_ = "Disconnected" BY DEF connect
  <2>2. AtRest => channel_ = None /\ ~OnTheWay BY DEF AtRest
  <2>3. ~OnTheWay => Calling = {} /\ timers = {} /\ ~Queued("start")
      BY DEF OnTheWay, StartPosted, Calling, Queued, Positions
  <2>4. channel_ = None => ~Queued("reset") /\ ~Watching
      BY <1>0, ConnectorAssumption DEF ChannelInv, Watching
  <2> QED BY <2>1, <2>2, <2>3, <2>4
<1>7. TypeOK'
  <2>1. /\ connect_' \in BOOLEAN /\ gave_up' \in BOOLEAN /\ retry_' \in BOOLEAN /\ client_connect_' \in BOOLEAN
        /\ stopped' \in BOOLEAN /\ overtaken' \in BOOLEAN
      BY <1>0, Zenon DEF connect, loopVars, TypeOK, clientVars, history
  <2> QED BY <1>0, <1>1, <1>2, <1>3, <1>4, <1>5, <1>6, <2>1 DEF connect, loopVars, TypeOK, States
<1>8. CallInv' BY <1>0, <1>1, <1>2 DEF connect, loopVars, CallInv, UserSteps
<1>9. StopInv' BY <1>0, <1>1, <1>2 DEF connect, StopInv, UserSteps
<1>10. QueueInv' BY <1>0 DEF connect, loopVars, QueueInv
<1>11. ChannelInv' BY <1>0, <1>1, <1>2, <1>3, <1>4 DEF connect, ChannelInv
<1>12. LoopCallInv' BY <1>0, <1>2, <1>4 DEF connect, LoopCallInv
<1>13. TodoInv' BY <1>0, <1>1, <1>2, <1>3 DEF connect, loopVars, TodoInv
<1>14. ConnInv' BY <1>0 DEF connect, loopVars, ConnInv, DestroysUp
<1>15. FailedInv' BY <1>0 DEF connect, loopVars, FailedInv
<1>16. StuckInv' BY <1>0, <1>5 DEF StuckInv
<1>17. TokenInv' BY <1>0, <1>3, <1>5, <1>6 DEF connect, loopVars, TokenInv, OneSource, Lone
<1> QED BY <1>7, <1>8, <1>9, <1>10, <1>11, <1>12, <1>13, <1>14, <1>15, <1>16, <1>17 DEF IInv

\* stop() of the client ends its wish for a connection.
LEMMA ClientStopPreserves ==
    ASSUME IInv, NEW t \in Users, client_stop(t)
    PROVE  IInv'
<1> USE LoopIsThread
<1>0. /\ TypeOK /\ CallInv /\ StopInv /\ QueueInv /\ ChannelInv /\ LoopCallInv /\ TodoInv /\ ConnInv
      /\ FailedInv /\ StuckInv /\ TokenInv
    BY DEF IInv
<1>1. /\ t \in Threads /\ call[t] = "idle" /\ pc # "aborted"
      /\ \A u \in Threads : call[u] \notin UserSteps
      /\ t = LoopThread => pc # "poll" /\ (todo = <<"write">> => Watching)
      /\ calls' \in 0..MaxCalls
    BY BeginCallStep DEF client_stop
<1>2. /\ call' \in [Threads -> Steps]
      /\ call'[t] = "stop"
      /\ \A u \in Threads : u # t => call'[u] = call[u]
    BY <1>0, <1>1, GotoStep DEF client_stop, Steps
<1>3. /\ Watching' <=> Watching
      /\ \A op : /\ Positions(pending', op) = Positions(pending, op)
                 /\ Positions(functors', op) = Positions(functors, op)
                 /\ Queued(op)' <=> Queued(op)
      /\ Cancels' = Cancels
    BY DEF client_stop, loopVars, Watching, Positions, Queued, Cancels
<1>4. InHand' = InHand BY <1>1, <1>2 DEF InHand, client_stop
<1>5. Calling' = Calling BY <1>1, <1>2 DEF Calling
<1>6. TypeOK'
  <2>1. /\ connect_' \in BOOLEAN /\ gave_up' \in BOOLEAN /\ retry_' \in BOOLEAN /\ client_connect_' \in BOOLEAN
        /\ stopped' \in BOOLEAN /\ overtaken' \in BOOLEAN
      BY <1>0, Zenon DEF client_stop, loopVars, history, TypeOK, clientVars
  <2> QED BY <1>0, <1>1, <1>2, <1>3, <1>4, <1>5, <2>1 DEF client_stop, loopVars, history, TypeOK, States
<1>7. CallInv' BY <1>0, <1>1, <1>2 DEF client_stop, loopVars, CallInv, UserSteps
<1>8. StopInv' BY <1>0, <1>2 DEF client_stop, history, StopInv
<1>9. QueueInv' BY <1>0 DEF client_stop, loopVars, QueueInv
<1>10. ChannelInv' BY <1>0, <1>1, <1>2, <1>3, <1>4 DEF client_stop, ChannelInv
<1>11. LoopCallInv' BY <1>0, <1>2, <1>4 DEF client_stop, LoopCallInv
<1>12. TodoInv' BY <1>0, <1>1, <1>2, <1>3 DEF client_stop, loopVars, TodoInv
<1>13. ConnInv' BY <1>0 DEF client_stop, loopVars, ConnInv, DestroysUp
<1>14. FailedInv' BY <1>0 DEF client_stop, loopVars, FailedInv
<1>15. StuckInv' BY <1>0 DEF client_stop, StuckInv
<1>16. TokenInv' BY <1>0, <1>1, <1>2, <1>3, <1>5 DEF client_stop, loopVars, history, TokenInv, OneSource
<1> QED BY <1>6, <1>7, <1>8, <1>9, <1>10, <1>11, <1>12, <1>13, <1>14, <1>15, <1>16 DEF IInv

\* disconnect() ends the wish for a connection as well.
LEMMA DisconnectPreserves ==
    ASSUME IInv, NEW t \in Users, disconnect(t)
    PROVE  IInv'
<1> USE LoopIsThread
<1>0. /\ TypeOK /\ CallInv /\ StopInv /\ QueueInv /\ ChannelInv /\ LoopCallInv /\ TodoInv /\ ConnInv
      /\ FailedInv /\ StuckInv /\ TokenInv
    BY DEF IInv
<1>1. /\ t \in Threads /\ call[t] = "idle" /\ pc # "aborted"
      /\ \A u \in Threads : call[u] \notin UserSteps
      /\ t = LoopThread => pc # "poll" /\ (todo = <<"write">> => Watching)
      /\ calls' \in 0..MaxCalls
    BY BeginCallStep DEF disconnect
<1>2. /\ call' \in [Threads -> Steps]
      /\ call'[t] = "shutdown"
      /\ \A u \in Threads : u # t => call'[u] = call[u]
    BY <1>0, <1>1, GotoStep DEF disconnect, Steps
<1>3. /\ Watching' <=> Watching
      /\ \A op : /\ Positions(pending', op) = Positions(pending, op)
                 /\ Positions(functors', op) = Positions(functors, op)
                 /\ Queued(op)' <=> Queued(op)
      /\ Cancels' = Cancels
    BY DEF disconnect, loopVars, Watching, Positions, Queued, Cancels
<1>4. InHand' = InHand BY <1>1, <1>2 DEF InHand, disconnect
<1>5. Calling' = Calling BY <1>1, <1>2 DEF Calling
<1>6. TypeOK'
  <2>1. /\ connect_' \in BOOLEAN /\ gave_up' \in BOOLEAN /\ retry_' \in BOOLEAN /\ client_connect_' \in BOOLEAN
        /\ stopped' \in BOOLEAN /\ overtaken' \in BOOLEAN
      BY <1>0, Zenon DEF disconnect, loopVars, history, TypeOK, clientVars
  <2> QED BY <1>0, <1>1, <1>2, <1>3, <1>4, <1>5, <2>1 DEF disconnect, loopVars, history, TypeOK, States
<1>7. CallInv' BY <1>0, <1>1, <1>2 DEF disconnect, loopVars, CallInv, UserSteps
<1>8. StopInv' BY <1>0, <1>2 DEF disconnect, history, StopInv
<1>9. QueueInv' BY <1>0 DEF disconnect, loopVars, QueueInv
<1>10. ChannelInv' BY <1>0, <1>1, <1>2, <1>3, <1>4 DEF disconnect, ChannelInv
<1>11. LoopCallInv' BY <1>0, <1>2, <1>4 DEF disconnect, LoopCallInv
<1>12. TodoInv' BY <1>0, <1>1, <1>2, <1>3 DEF disconnect, loopVars, TodoInv
<1>13. ConnInv' BY <1>0 DEF disconnect, loopVars, ConnInv, DestroysUp
<1>14. FailedInv' BY <1>0 DEF disconnect, loopVars, FailedInv
<1>15. StuckInv' BY <1>0 DEF disconnect, StuckInv
<1>16. TokenInv' BY <1>0, <1>1, <1>2, <1>3, <1>5 DEF disconnect, loopVars, history, TokenInv, OneSource
<1> QED BY <1>6, <1>7, <1>8, <1>9, <1>10, <1>11, <1>12, <1>13, <1>14, <1>15, <1>16 DEF IInv

\* The rest of disconnect() leaves the Connector alone.
LEMMA DisconnectShutdownPreserves ==
    ASSUME IInv, NEW t \in Threads, disconnect_shutdown(t)
    PROVE  IInv'
<1> USE LoopIsThread
<1>0. /\ TypeOK /\ CallInv /\ StopInv /\ QueueInv /\ ChannelInv /\ LoopCallInv /\ TodoInv /\ ConnInv
      /\ FailedInv /\ StuckInv /\ TokenInv
    BY DEF IInv
<1>1. call[t] = "shutdown" /\ pc # "aborted" BY DEF disconnect_shutdown, At
<1>2. /\ call' \in [Threads -> Steps]
      /\ call'[t] = "idle"
      /\ \A u \in Threads : u # t => call'[u] = call[u]
    BY <1>0, <1>1, GotoStep DEF disconnect_shutdown, Steps
<1>3. /\ Watching' <=> Watching
      /\ \A op : /\ Positions(pending', op) = Positions(pending, op)
                 /\ Positions(functors', op) = Positions(functors, op)
                 /\ Queued(op)' <=> Queued(op)
      /\ Cancels' = Cancels
    BY DEF disconnect_shutdown, loopVars, Watching, Positions, Queued, Cancels
<1>4. InHand' = InHand BY <1>1, <1>2 DEF InHand, disconnect_shutdown
<1>5. Calling' = Calling BY <1>1, <1>2 DEF Calling
<1>6. /\ conn' \in [Fds -> ConnStates]
      /\ \A f \in Fds : /\ conn[f] \in Up <=> conn'[f] \in Up
                        /\ conn[f] = "none" <=> conn'[f] = "none"
    BY <1>0 DEF disconnect_shutdown, TypeOK, ConnStates, Up
<1>7. TypeOK'
  <2>1. /\ connect_' \in BOOLEAN /\ gave_up' \in BOOLEAN /\ retry_' \in BOOLEAN /\ client_connect_' \in BOOLEAN
        /\ stopped' \in BOOLEAN /\ overtaken' \in BOOLEAN
      BY <1>0, Zenon DEF disconnect_shutdown, loopVars, history, TypeOK, clientVars
  <2> QED
      BY <1>0, <1>1, <1>2, <1>3, <1>4, <1>5, <1>6, <2>1
      DEF disconnect_shutdown, loopVars, history, TypeOK, States
<1>8. CallInv' BY <1>0, <1>2 DEF disconnect_shutdown, loopVars, CallInv, UserSteps
<1>9. StopInv' BY <1>0, <1>2 DEF disconnect_shutdown, history, StopInv
<1>10. QueueInv' BY <1>0 DEF disconnect_shutdown, loopVars, QueueInv
<1>11. ChannelInv' BY <1>0, <1>1, <1>2, <1>3, <1>4 DEF disconnect_shutdown, ChannelInv
<1>12. LoopCallInv' BY <1>0, <1>2, <1>4 DEF disconnect_shutdown, LoopCallInv
<1>13. TodoInv' BY <1>0, <1>1, <1>2, <1>3 DEF disconnect_shutdown, loopVars, TodoInv
<1>14. ConnInv' BY <1>0, <1>6 DEF disconnect_shutdown, loopVars, ConnInv, DestroysUp, TypeOK
<1>15. FailedInv' BY <1>0 DEF disconnect_shutdown, loopVars, FailedInv
<1>16. StuckInv' BY <1>0, <1>3, <1>5 DEF disconnect_shutdown, loopVars, StuckInv
<1>17. TokenInv'
    BY <1>0, <1>1, <1>2, <1>3, <1>5 DEF disconnect_shutdown, loopVars, history, TokenInv, OneSource
<1> QED BY <1>7, <1>8, <1>9, <1>10, <1>11, <1>12, <1>13, <1>14, <1>15, <1>16, <1>17 DEF IInv

\* Connector::start() sets connect_: no stop() has the last word.
LEMMA StartPreserves ==
    ASSUME IInv, NEW t \in Threads, start(t), UNCHANGED <<clientVars, history>>
    PROVE  IInv'
<1> USE LoopIsThread
<1>0. /\ TypeOK /\ CallInv /\ StopInv /\ QueueInv /\ ChannelInv /\ LoopCallInv /\ TodoInv /\ ConnInv
      /\ FailedInv /\ StuckInv /\ TokenInv
    BY DEF IInv
<1>1. call[t] = "start" /\ pc # "aborted" BY DEF start, At
<1>2. /\ call' \in [Threads -> Steps]
      /\ call'[t] = "run_in_loop"
      /\ \A u \in Threads : u # t => call'[u] = call[u]
    BY <1>0, <1>1, GotoStep DEF start, Steps
<1>3. /\ Watching' <=> Watching
      /\ \A op : /\ Positions(pending', op) = Positions(pending, op)
                 /\ Positions(functors', op) = Positions(functors, op)
                 /\ Queued(op)' <=> Queued(op)
      /\ Cancels' = Cancels
    BY DEF start, loopVars, Watching, Positions, Queued, Cancels
<1>4. InHand' = InHand BY <1>1, <1>2 DEF InHand, start
<1>5. Calling' = Calling /\ t \in Calling BY <1>1, <1>2 DEF Calling
<1>6. TypeOK'
  <2>1. /\ connect_' \in BOOLEAN /\ gave_up' \in BOOLEAN /\ retry_' \in BOOLEAN /\ client_connect_' \in BOOLEAN
        /\ stopped' \in BOOLEAN /\ overtaken' \in BOOLEAN
      BY <1>0, Zenon DEF start, loopVars, clientVars, history, TypeOK
  <2> QED BY <1>0, <1>1, <1>2, <1>3, <1>4, <1>5, <2>1 DEF start, loopVars, clientVars, history, TypeOK, States
<1>7. CallInv' BY <1>0, <1>1, <1>2 DEF start, loopVars, CallInv, UserSteps
<1>8. StopInv' BY <1>0, <1>1, <1>2 DEF clientVars, history, StopInv
<1>9. QueueInv' BY <1>0 DEF start, loopVars, QueueInv
<1>10. ChannelInv' BY <1>0, <1>1, <1>2, <1>3, <1>4 DEF start, clientVars, ChannelInv
<1>11. LoopCallInv' BY <1>0, <1>2, <1>4 DEF start, clientVars, LoopCallInv
<1>12. TodoInv' BY <1>0, <1>1, <1>2, <1>3 DEF start, loopVars, TodoInv
<1>13. ConnInv' BY <1>0 DEF start, loopVars, clientVars, ConnInv, DestroysUp
<1>14. FailedInv' BY <1>0 DEF start, loopVars, FailedInv
<1>15. StuckInv' BY <1>0, <1>5 DEF StuckInv
<1>16. TokenInv' BY <1>0, <1>1, <1>2, <1>3, <1>5 DEF start, loopVars, history, TokenInv, OneSource
<1> QED BY <1>6, <1>7, <1>8, <1>9, <1>10, <1>11, <1>12, <1>13, <1>14, <1>15, <1>16 DEF IInv

\* Connector::stop() resets connect_.
LEMMA StopPreserves ==
    ASSUME IInv, NEW t \in Threads, stop(t), overtaken' = (call[LoopThread] = "restart"),
           UNCHANGED <<clientVars, stopped, misuse>>
    PROVE  IInv'
<1> USE LoopIsThread
<1>0. /\ TypeOK /\ CallInv /\ StopInv /\ QueueInv /\ ChannelInv /\ LoopCallInv /\ TodoInv /\ ConnInv
      /\ FailedInv /\ StuckInv /\ TokenInv
    BY DEF IInv
<1>1. call[t] = "stop" /\ pc # "aborted" BY DEF stop, At
<1>2. /\ call' \in [Threads -> Steps]
      /\ call'[t] = "cancel"
      /\ \A u \in Threads : u # t => call'[u] = call[u]
    BY <1>0, <1>1, GotoStep DEF stop, Steps
<1>3. /\ Watching' <=> Watching
      /\ \A op : /\ Positions(pending', op) = Positions(pending, op)
                 /\ Positions(functors', op) = Positions(functors, op)
                 /\ Queued(op)' <=> Queued(op)
      /\ Cancels' = Cancels
    BY DEF stop, loopVars, Watching, Positions, Queued, Cancels
<1>4. InHand' = InHand BY <1>1, <1>2 DEF InHand, stop
<1>5. Calling' = Calling BY <1>1, <1>2 DEF Calling
<1>6. TypeOK'
  <2>1. /\ connect_' \in BOOLEAN /\ gave_up' \in BOOLEAN /\ retry_' \in BOOLEAN /\ client_connect_' \in BOOLEAN
        /\ stopped' \in BOOLEAN /\ overtaken' \in BOOLEAN
      BY <1>0, Zenon DEF stop, loopVars, clientVars, history, TypeOK
  <2> QED BY <1>0, <1>1, <1>2, <1>3, <1>4, <1>5, <2>1 DEF stop, loopVars, clientVars, history, TypeOK, States
<1>7. CallInv' BY <1>0, <1>1, <1>2 DEF stop, loopVars, CallInv, UserSteps
<1>8. StopInv' BY <1>0, <1>1, <1>2 DEF stop, clientVars, history, StopInv
<1>9. QueueInv' BY <1>0 DEF stop, loopVars, QueueInv
<1>10. ChannelInv' BY <1>0, <1>1, <1>2, <1>3, <1>4 DEF stop, clientVars, ChannelInv
<1>11. LoopCallInv' BY <1>0, <1>2, <1>4 DEF stop, clientVars, LoopCallInv
<1>12. TodoInv' BY <1>0, <1>1, <1>2, <1>3 DEF stop, loopVars, TodoInv
<1>13. ConnInv' BY <1>0 DEF stop, loopVars, clientVars, ConnInv, DestroysUp
<1>14. FailedInv' BY <1>0 DEF stop, loopVars, FailedInv
<1>15. StuckInv' BY <1>0 DEF stop, StuckInv
<1>16. TokenInv' BY <1>0, <1>1, <1>2, <1>3, <1>5 DEF stop, loopVars, history, TokenInv, OneSource
<1> QED BY <1>6, <1>7, <1>8, <1>9, <1>10, <1>11, <1>12, <1>13, <1>14, <1>15, <1>16 DEF IInv

\* In the loop's thread start_in_loop comes next.
LEMMA StartInLoopNext ==
    ASSUME IInv, NEW t \in Threads, start_run_in_loop(t), t = LoopThread,
           UNCHANGED <<clientVars, history>>
    PROVE  IInv'
<1> USE LoopIsThread
<1>0. /\ TypeOK /\ CallInv /\ StopInv /\ QueueInv /\ ChannelInv /\ LoopCallInv /\ TodoInv /\ ConnInv
      /\ FailedInv /\ StuckInv /\ TokenInv
    BY DEF IInv
<1>1. call[t] = "run_in_loop" /\ pc # "aborted" BY DEF start_run_in_loop, At
<1>2. /\ call' \in [Threads -> Steps]
      /\ call'[t] = "start_in_loop"
      /\ \A u \in Threads : u # t => call'[u] = call[u]
    BY <1>0, <1>1, GotoStep DEF start_run_in_loop, Steps
<1>3. /\ Watching' <=> Watching
      /\ \A op : /\ Positions(pending', op) = Positions(pending, op)
                 /\ Positions(functors', op) = Positions(functors, op)
                 /\ Queued(op)' <=> Queued(op)
      /\ Cancels' = Cancels
    BY DEF start_run_in_loop, loopVars, Watching, Positions, Queued, Cancels
<1>4. InHand' = InHand BY <1>1, <1>2 DEF InHand, start_run_in_loop
<1>5. Calling' = Calling /\ t \in Calling BY <1>1, <1>2 DEF Calling
<1>6. TypeOK'
  <2>1. /\ connect_' \in BOOLEAN /\ gave_up' \in BOOLEAN /\ retry_' \in BOOLEAN /\ client_connect_' \in BOOLEAN
        /\ stopped' \in BOOLEAN /\ overtaken' \in BOOLEAN
      BY <1>0, Zenon DEF start_run_in_loop, clientVars, history, TypeOK
  <2> QED
      BY <1>0, <1>1, <1>2, <1>3, <1>4, <1>5, <2>1 DEF start_run_in_loop, clientVars, history, TypeOK, States
<1>7. CallInv' BY <1>0, <1>1, <1>2 DEF start_run_in_loop, CallInv, UserSteps
<1>8. StopInv' BY <1>0, <1>2 DEF start_run_in_loop, clientVars, history, StopInv
<1>9. QueueInv' BY <1>0 DEF start_run_in_loop, QueueInv
<1>10. ChannelInv' BY <1>0, <1>1, <1>3, <1>4 DEF start_run_in_loop, clientVars, ChannelInv
<1>11. LoopCallInv' BY <1>0, <1>2, <1>4 DEF start_run_in_loop, clientVars, LoopCallInv
<1>12. TodoInv' BY <1>0, <1>1, <1>3 DEF start_run_in_loop, TodoInv
<1>13. ConnInv' BY <1>0 DEF start_run_in_loop, clientVars, ConnInv, DestroysUp
<1>14. FailedInv' BY <1>0 DEF start_run_in_loop, FailedInv
<1>15. StuckInv' BY <1>0, <1>5 DEF StuckInv
<1>16. TokenInv' BY <1>0, <1>1, <1>3, <1>5 DEF start_run_in_loop, history, TokenInv, OneSource
<1> QED BY <1>6, <1>7, <1>8, <1>9, <1>10, <1>11, <1>12, <1>13, <1>14, <1>15, <1>16 DEF IInv

\* Another thread queues start_in_loop.
LEMMA StartQueued ==
    ASSUME IInv, NEW t \in Threads, start_run_in_loop(t), t # LoopThread,
           UNCHANGED <<clientVars, history>>
    PROVE  IInv'
<1> USE LoopIsThread
<1>0. /\ TypeOK /\ CallInv /\ StopInv /\ QueueInv /\ ChannelInv /\ LoopCallInv /\ TodoInv /\ ConnInv
      /\ FailedInv /\ StuckInv /\ TokenInv
    BY DEF IInv
<1>1. call[t] = "run_in_loop" /\ pc # "aborted" BY DEF start_run_in_loop, At
<1>2. /\ call' \in [Threads -> Steps]
      /\ call'[t] = "idle"
      /\ \A u \in Threads : u # t => call'[u] = call[u]
    BY <1>0, <1>1, GotoStep DEF start_run_in_loop, Steps
<1>3. Watching' <=> Watching BY DEF start_run_in_loop, Watching
<1>4. /\ pending' \in Seq(Functors)
      /\ \A op \in {"start", "reset", "cancel", "destroy"} \ {"start"} :
             Positions(pending', op) = Positions(pending, op) /\ (Queued(op)' <=> Queued(op))
      /\ Positions(pending', "start") = Positions(pending, "start") \cup {Len(pending) + 1}
      /\ Queued("start")'
      /\ \A op \in {"start", "reset", "cancel", "destroy"} :
             /\ Positions(functors', op) = Positions(functors, op)
             /\ \A i \in Positions(pending, op) : pending'[i] = pending[i]
      /\ Cancels' = Cancels \cup {None}
  <2>1. /\ Functor("start", None) \in Functors
        /\ Functor("start", None).op = "start" /\ Functor("start", None).arg = None
      BY <1>0 DEF Functor, Functors, TypeOK
  <2>2. pending' = Append(pending, Functor("start", None)) /\ functors' = functors
      BY <1>0 DEF start_run_in_loop
  <2> HIDE DEF Functor
  <2> QED BY <1>0, <2>1, <2>2, Enqueues
<1>5. InHand' = InHand BY <1>1, <1>2 DEF InHand, start_run_in_loop
<1>6. Calling' = Calling \ {t} /\ t \in Calling BY <1>1, <1>2 DEF Calling
<1>7. misuse = "none" => Calling' = {} /\ ~Queued("start") /\ timers = {} BY <1>0, <1>6 DEF TokenInv, OneSource, Lone
<1>8. TypeOK'
  <2>1. /\ connect_' \in BOOLEAN /\ gave_up' \in BOOLEAN /\ retry_' \in BOOLEAN /\ client_connect_' \in BOOLEAN
        /\ stopped' \in BOOLEAN /\ overtaken' \in BOOLEAN
      BY <1>0, Zenon DEF start_run_in_loop, clientVars, history, TypeOK
  <2> QED
      BY <1>0, <1>1, <1>2, <1>3, <1>4, <1>5, <1>6, <1>7, <2>1
      DEF start_run_in_loop, clientVars, history, TypeOK, States
<1>9. CallInv' BY <1>0, <1>2 DEF start_run_in_loop, CallInv
<1>10. StopInv' BY <1>0, <1>2 DEF start_run_in_loop, clientVars, history, StopInv
<1>11. QueueInv' BY <1>0, <1>4 DEF start_run_in_loop, QueueInv
<1>12. ChannelInv' BY <1>0, <1>2, <1>3, <1>4, <1>5 DEF start_run_in_loop, clientVars, ChannelInv
<1>13. LoopCallInv' BY <1>0, <1>2, <1>5 DEF start_run_in_loop, clientVars, LoopCallInv
<1>14. TodoInv' BY <1>0, <1>2, <1>3 DEF start_run_in_loop, TodoInv
<1>15. ConnInv' BY <1>0, <1>4 DEF start_run_in_loop, clientVars, ConnInv, DestroysUp
<1>16. FailedInv' BY <1>0 DEF start_run_in_loop, FailedInv
<1>17. StuckInv' BY <1>0, <1>4 DEF StuckInv
<1>18. TokenInv'
    BY <1>0, <1>1, <1>2, <1>3, <1>4, <1>6 DEF start_run_in_loop, history, TokenInv, OneSource, Lone, Queued
<1> QED BY <1>8, <1>9, <1>10, <1>11, <1>12, <1>13, <1>14, <1>15, <1>16, <1>17, <1>18 DEF IInv

\* The end of stop() in the loop's thread.
LEMMA StopCancelsPreserves ==
    ASSUME IInv, NEW t \in Threads, t = LoopThread, stop_cancel(t),
           stopped' = TRUE, UNCHANGED <<clientVars, overtaken, misuse>>
    PROVE  IInv'
<1> USE LoopIsThread
<1>0. /\ TypeOK /\ CallInv /\ StopInv /\ QueueInv /\ ChannelInv /\ LoopCallInv /\ TodoInv /\ ConnInv
      /\ FailedInv /\ StuckInv /\ TokenInv
    BY DEF IInv
<1>1. call[t] = "cancel" /\ pc # "aborted" BY DEF stop_cancel, At
<1>2. /\ call' \in [Threads -> Steps]
      /\ call'[t] = "idle"
      /\ \A u \in Threads : u # t => call'[u] = call[u]
    BY <1>0, <1>1, GotoStep DEF stop_cancel, Steps
<1>3. /\ Watching' <=> Watching
      /\ \A op : /\ Positions(pending', op) = Positions(pending, op)
                 /\ Positions(functors', op) = Positions(functors, op)
                 /\ Queued(op)' <=> Queued(op)
      /\ Cancels' = Cancels
    BY DEF stop_cancel, loopVars, Watching, Positions, Queued, Cancels
<1>4. InHand' = InHand BY <1>1, <1>2 DEF InHand, stop_cancel
<1>5. Calling' = Calling BY <1>1, <1>2 DEF Calling
<1>6. TypeOK'
  <2>1. /\ connect_' \in BOOLEAN /\ gave_up' \in BOOLEAN /\ retry_' \in BOOLEAN /\ client_connect_' \in BOOLEAN
        /\ stopped' \in BOOLEAN /\ overtaken' \in BOOLEAN
      BY <1>0, Zenon DEF stop_cancel, clientVars, history, TypeOK
  <2> QED BY <1>0, <1>1, <1>2, <1>3, <1>4, <1>5, <2>1 DEF stop_cancel, clientVars, history, TypeOK, States
<1>7. CallInv' BY <1>0, <1>2 DEF CallInv, UserSteps
<1>8. StopInv' BY <1>0, <1>1, <1>2 DEF stop_cancel, clientVars, StopInv, CallInv, UserSteps
<1>9. QueueInv' BY <1>0 DEF stop_cancel, QueueInv
<1>10. ChannelInv' BY <1>0, <1>1, <1>3, <1>4 DEF stop_cancel, clientVars, ChannelInv
<1>11. LoopCallInv' BY <1>0, <1>2, <1>4 DEF stop_cancel, clientVars, LoopCallInv
<1>12. TodoInv' BY <1>0, <1>1, <1>3 DEF stop_cancel, TodoInv
<1>13. ConnInv' BY <1>0 DEF stop_cancel, clientVars, ConnInv, DestroysUp
<1>14. FailedInv' BY <1>0 DEF stop_cancel, FailedInv
<1>15. StuckInv' BY <1>0, <1>1 DEF clientVars, StuckInv, StopInv
<1>16. TokenInv' BY <1>0, <1>1, <1>2, <1>3, <1>5 DEF stop_cancel, TokenInv, OneSource, Lone, CallInv
<1> QED BY <1>6, <1>7, <1>8, <1>9, <1>10, <1>11, <1>12, <1>13, <1>14, <1>15, <1>16 DEF IInv

\* Another thread queues the cancel of the timer.
LEMMA CancelQueued ==
    ASSUME IInv, NEW t \in Threads, t # LoopThread, stop_cancel(t),
           stopped' = TRUE, UNCHANGED <<clientVars, overtaken, misuse>>
    PROVE  IInv'
<1> USE LoopIsThread
<1>0. /\ TypeOK /\ CallInv /\ StopInv /\ QueueInv /\ ChannelInv /\ LoopCallInv /\ TodoInv /\ ConnInv
      /\ FailedInv /\ StuckInv /\ TokenInv
    BY DEF IInv
<1>1. call[t] = "cancel" /\ pc # "aborted" BY DEF stop_cancel, At
<1>2. /\ call' \in [Threads -> Steps]
      /\ call'[t] = "idle"
      /\ \A u \in Threads : u # t => call'[u] = call[u]
    BY <1>0, <1>1, GotoStep DEF stop_cancel, Steps
<1>3. Watching' <=> Watching BY DEF stop_cancel, Watching
<1>4. /\ pending' \in Seq(Functors)
      /\ \A op \in {"start", "reset", "cancel", "destroy"} \ {"cancel"} :
             Positions(pending', op) = Positions(pending, op) /\ (Queued(op)' <=> Queued(op))
      /\ Positions(pending', "cancel") = Positions(pending, "cancel") \cup {Len(pending) + 1}
      /\ Queued("cancel")'
      /\ \A op \in {"start", "reset", "cancel", "destroy"} :
             /\ Positions(functors', op) = Positions(functors, op)
             /\ \A i \in Positions(pending, op) : pending'[i] = pending[i]
      /\ Cancels' = Cancels \cup {timer_id_}
  <2>1. /\ Functor("cancel", timer_id_) \in Functors
        /\ Functor("cancel", timer_id_).op = "cancel" /\ Functor("cancel", timer_id_).arg = timer_id_
      BY <1>0 DEF Functor, Functors, TypeOK
  <2>2. pending' = Append(pending, Functor("cancel", timer_id_)) /\ functors' = functors
      BY <1>0 DEF stop_cancel
  <2> HIDE DEF Functor
  <2> QED BY <1>0, <2>1, <2>2, Enqueues
<1>5. InHand' = InHand BY <1>1, <1>2 DEF InHand, stop_cancel
<1>6. Calling' = Calling BY <1>1, <1>2 DEF Calling
<1>7. TypeOK'
  <2>1. /\ connect_' \in BOOLEAN /\ gave_up' \in BOOLEAN /\ retry_' \in BOOLEAN /\ client_connect_' \in BOOLEAN
        /\ stopped' \in BOOLEAN /\ overtaken' \in BOOLEAN
      BY <1>0, Zenon DEF stop_cancel, clientVars, history, TypeOK
  <2> QED
      BY <1>0, <1>1, <1>2, <1>3, <1>4, <1>5, <1>6, <2>1 DEF stop_cancel, clientVars, history, TypeOK, States
<1>8. CallInv' BY <1>0, <1>2 DEF stop_cancel, CallInv
<1>9. StopInv' BY <1>0, <1>1, <1>2 DEF stop_cancel, clientVars, StopInv, CallInv, UserSteps
<1>10. QueueInv' BY <1>0, <1>4 DEF stop_cancel, QueueInv
<1>11. ChannelInv' BY <1>0, <1>2, <1>3, <1>4, <1>5 DEF stop_cancel, clientVars, ChannelInv
<1>12. LoopCallInv' BY <1>0, <1>2, <1>5 DEF stop_cancel, clientVars, LoopCallInv
<1>13. TodoInv' BY <1>0, <1>2, <1>3 DEF stop_cancel, TodoInv
<1>14. ConnInv' BY <1>0, <1>4 DEF stop_cancel, clientVars, ConnInv, DestroysUp
<1>15. FailedInv' BY <1>0 DEF stop_cancel, FailedInv
<1>16. StuckInv' BY <1>0, <1>1 DEF clientVars, StuckInv, StopInv
<1>17. TokenInv' BY <1>0, <1>2, <1>3, <1>4, <1>6 DEF stop_cancel, TokenInv, OneSource
<1> QED BY <1>7, <1>8, <1>9, <1>10, <1>11, <1>12, <1>13, <1>14, <1>15, <1>16, <1>17 DEF IInv

-----------------------------------------------------------------------------
(* start_in_loop *)

\* What start_in_loop leaves alone.
StartFrame == UNCHANGED <<connect_, timer_id_, todo, due, timers, pending, functors, clientVars, history>>

\* Where an attempt may begin nothing is left of an earlier one, or connect() was misused.
LEMMA AttemptBegins ==
    ASSUME IInv, At(LoopThread, "start_in_loop")
    PROVE  /\ call[LoopThread] = "start_in_loop" /\ pc # "aborted" /\ pc # "poll"
           /\ LoopThread \in Calling
           /\ state_ = "Disconnected" => ~Watching /\ todo = <<>> /\ connection_ = None /\ due \cap Fds = {}
           /\ misuse = "none" => /\ state_ = "Disconnected" /\ channel_ = None /\ Calling = {LoopThread}
                        /\ timers = {} /\ ~Queued("start") /\ ~Queued("reset")
<1> USE LoopIsThread
<1>0. TypeOK /\ CallInv /\ ChannelInv /\ TodoInv /\ ConnInv /\ TokenInv BY DEF IInv
<1>1. call[LoopThread] = "start_in_loop" /\ pc # "aborted" /\ pc # "poll" BY <1>0 DEF At, CallInv
<1>2. LoopThread \in Calling BY <1>1 DEF Calling
<1>3. state_ = "Disconnected" => ~Watching BY <1>0 DEF ChannelInv, Watching
<1>4. state_ = "Disconnected" => todo = <<>> BY <1>0, <1>1, <1>3 DEF TodoInv
<1>5. state_ = "Disconnected" => connection_ = None /\ due \cap Fds = {}
    BY <1>0, ConnectorAssumption DEF ConnInv, TypeOK
<1>6. ASSUME misuse = "none" PROVE state_ = "Disconnected" /\ ~Queued("reset") /\ timers = {} /\ ~Queued("start")
    BY <1>0, <1>1, <1>2, <1>6 DEF TokenInv, OneSource
<1>7. misuse = "none" => Calling = {LoopThread} BY <1>0, <1>2 DEF TokenInv, OneSource, Lone
<1>8. misuse = "none" => channel_ = None BY <1>0, <1>1, <1>3, <1>6 DEF ChannelInv
<1> QED BY <1>1, <1>2, <1>3, <1>4, <1>5, <1>6, <1>7, <1>8

\* start_in_loop's assertion fails only after a misuse of connect().
LEMMA StartAborts ==
    ASSUME IInv, At(LoopThread, "start_in_loop"), StartFrame,
           Abort("start"), ~MayStart, Goto(LoopThread, "idle"),
           UNCHANGED <<state_, channel_, sock_fd, sock, registered, gave_up>>
    PROVE  IInv'
<1> USE LoopIsThread
<1>0. /\ TypeOK /\ CallInv /\ StopInv /\ QueueInv /\ ChannelInv /\ LoopCallInv /\ TodoInv /\ ConnInv
      /\ FailedInv /\ StuckInv /\ TokenInv
    BY DEF IInv
<1>1. /\ call[LoopThread] = "start_in_loop" /\ pc # "aborted" /\ pc # "poll"
      /\ LoopThread \in Calling
      /\ state_ = "Disconnected" => ~Watching /\ todo = <<>> /\ connection_ = None /\ due \cap Fds = {}
      /\ misuse = "none" => /\ state_ = "Disconnected" /\ channel_ = None /\ Calling = {LoopThread}
                   /\ timers = {} /\ ~Queued("start") /\ ~Queued("reset")
    BY AttemptBegins
<1>2. /\ call' \in [Threads -> Steps]
      /\ call'[LoopThread] = "idle"
      /\ \A u \in Threads : u # LoopThread => call'[u] = call[u]
    BY <1>0, LoopIsThread, GotoStep DEF Steps
<1>3. /\ \A op \in {"start", "reset", "cancel", "destroy"} :
             /\ Positions(pending', op) = Positions(pending, op)
             /\ Positions(functors', op) = Positions(functors, op)
             /\ Queued(op)' <=> Queued(op)
      /\ Cancels' = Cancels
    BY DEF StartFrame, Queued, Cancels
<1>4. Watching' <=> Watching BY DEF Watching
<1>5. Calling' = Calling \ {LoopThread} /\ InHand' = {} BY <1>2 DEF Calling, InHand
<1>6. InHand = {} BY <1>1 DEF InHand
<1>7. TypeOK'
  <2>1. /\ connect_' \in BOOLEAN /\ gave_up' \in BOOLEAN /\ retry_' \in BOOLEAN /\ client_connect_' \in BOOLEAN
        /\ stopped' \in BOOLEAN /\ overtaken' \in BOOLEAN
      BY <1>0, Zenon DEF StartFrame, Abort, clientVars, history, TypeOK
  <2> QED
      BY <1>0, <1>1, <1>2, <1>3, <1>4, <1>5, <1>6, <2>1
      DEF StartFrame, Abort, clientVars, history, TypeOK, States
<1>8. CallInv' BY <1>0, <1>2 DEF CallInv, UserSteps
<1>9. StopInv' BY <1>0, <1>2 DEF StartFrame, clientVars, history, StopInv
<1>10. QueueInv' BY <1>0 DEF StartFrame, Abort, QueueInv
<1>11. ChannelInv' BY <1>0, <1>3, <1>4, <1>5 DEF StartFrame, Abort, clientVars, ChannelInv
<1>12. LoopCallInv' BY <1>0, <1>2, <1>5 DEF LoopCallInv
<1>13. TodoInv' BY <1>0, <1>4 DEF StartFrame, Abort, TodoInv
<1>14. ConnInv' BY <1>0 DEF StartFrame, Abort, clientVars, ConnInv, DestroysUp
<1>15. FailedInv' BY <1>0 DEF Abort, FailedInv
<1>16. StuckInv' BY <1>0 DEF Abort, StuckInv
<1>17. TokenInv' BY <1>0, <1>1 DEF StartFrame, history, TokenInv, MayStart
<1> QED BY <1>7, <1>8, <1>9, <1>10, <1>11, <1>12, <1>13, <1>14, <1>15, <1>16, <1>17 DEF IInv

\* An error for good, or nobody wants the connection any more.
LEMMA StartEnds ==
    ASSUME IInv, At(LoopThread, "start_in_loop"), StartFrame,
           MayStart, Goto(LoopThread, "idle"), gave_up' = TRUE \/ (~connect_ /\ gave_up' = gave_up),
           UNCHANGED <<state_, channel_, sock_fd, pc, failed, sock, registered>>
    PROVE  IInv'
<1> USE LoopIsThread
<1>0. /\ TypeOK /\ CallInv /\ StopInv /\ QueueInv /\ ChannelInv /\ LoopCallInv /\ TodoInv /\ ConnInv
      /\ FailedInv /\ StuckInv /\ TokenInv
    BY DEF IInv
<1>1. /\ call[LoopThread] = "start_in_loop" /\ pc # "aborted" /\ pc # "poll"
      /\ LoopThread \in Calling
      /\ state_ = "Disconnected" => ~Watching /\ todo = <<>> /\ connection_ = None /\ due \cap Fds = {}
      /\ misuse = "none" => /\ state_ = "Disconnected" /\ channel_ = None /\ Calling = {LoopThread}
                   /\ timers = {} /\ ~Queued("start") /\ ~Queued("reset")
    BY AttemptBegins
<1>2. /\ call' \in [Threads -> Steps]
      /\ call'[LoopThread] = "idle"
      /\ \A u \in Threads : u # LoopThread => call'[u] = call[u]
    BY <1>0, LoopIsThread, GotoStep DEF Steps
<1>3. /\ \A op \in {"start", "reset", "cancel", "destroy"} :
             /\ Positions(pending', op) = Positions(pending, op)
             /\ Positions(functors', op) = Positions(functors, op)
             /\ Queued(op)' <=> Queued(op)
      /\ Cancels' = Cancels
    BY DEF StartFrame, Queued, Cancels
<1>4. Watching' <=> Watching BY DEF Watching
<1>5. Calling' = Calling \ {LoopThread} /\ InHand' = {} BY <1>2 DEF Calling, InHand
<1>6. InHand = {} BY <1>1 DEF InHand
<1>7. TypeOK'
  <2>1. /\ connect_' \in BOOLEAN /\ gave_up' \in BOOLEAN /\ retry_' \in BOOLEAN /\ client_connect_' \in BOOLEAN
        /\ stopped' \in BOOLEAN /\ overtaken' \in BOOLEAN
      BY <1>0, Zenon DEF StartFrame, clientVars, history, TypeOK
  <2> QED
      BY <1>0, <1>1, <1>2, <1>3, <1>4, <1>5, <1>6, <2>1 DEF StartFrame, clientVars, history, TypeOK, States
<1>8. CallInv' BY <1>0, <1>2 DEF CallInv, UserSteps
<1>9. StopInv' BY <1>0, <1>2 DEF StartFrame, clientVars, history, StopInv
<1>10. QueueInv' BY <1>0 DEF StartFrame, QueueInv
<1>11. ChannelInv' BY <1>0, <1>1, <1>3, <1>4, <1>5 DEF StartFrame, clientVars, ChannelInv
<1>12. LoopCallInv' BY <1>0, <1>2, <1>5 DEF LoopCallInv
<1>13. TodoInv' BY <1>0, <1>2, <1>4 DEF StartFrame, TodoInv, MayStart
<1>14. ConnInv' BY <1>0 DEF StartFrame, clientVars, ConnInv, DestroysUp
<1>15. FailedInv' BY <1>0 DEF FailedInv
<1>16. StuckInv' BY <1>0 DEF StartFrame, StuckInv
<1>17. TokenInv' BY <1>0, <1>2, <1>3, <1>4, <1>5 DEF StartFrame, history, TokenInv, OneSource, MayStart, Lone
<1> QED BY <1>7, <1>8, <1>9, <1>10, <1>11, <1>12, <1>13, <1>14, <1>15, <1>16, <1>17 DEF IInv

\* A connect that is to be tried again.
LEMMA ConnectRetries ==
    ASSUME IInv, At(LoopThread, "start_in_loop"), StartFrame,
           MayStart, NEW f \in Fds, sock[f] = "free", sock' = [sock EXCEPT ![f] = "open"],
           sock_fd' = f, Goto(LoopThread, "retry"), UNCHANGED <<state_, channel_, registered, pc, failed, gave_up>>
    PROVE  IInv'
<1> USE LoopIsThread
<1>0. /\ TypeOK /\ CallInv /\ StopInv /\ QueueInv /\ ChannelInv /\ LoopCallInv /\ TodoInv /\ ConnInv
      /\ FailedInv /\ StuckInv /\ TokenInv
    BY DEF IInv
<1>1. /\ call[LoopThread] = "start_in_loop" /\ pc # "aborted" /\ pc # "poll"
      /\ LoopThread \in Calling
      /\ state_ = "Disconnected" => ~Watching /\ todo = <<>> /\ connection_ = None /\ due \cap Fds = {}
      /\ misuse = "none" => /\ state_ = "Disconnected" /\ channel_ = None /\ Calling = {LoopThread}
                   /\ timers = {} /\ ~Queued("start") /\ ~Queued("reset")
    BY AttemptBegins
<1>2. /\ call' \in [Threads -> Steps]
      /\ call'[LoopThread] = "retry"
      /\ \A u \in Threads : u # LoopThread => call'[u] = call[u]
    BY <1>0, LoopIsThread, GotoStep DEF Steps
<1>3. /\ \A op \in {"start", "reset", "cancel", "destroy"} :
             /\ Positions(pending', op) = Positions(pending, op)
             /\ Positions(functors', op) = Positions(functors, op)
             /\ Queued(op)' <=> Queued(op)
      /\ Cancels' = Cancels
    BY DEF StartFrame, Queued, Cancels
<1>4. ~Watching' /\ ~Watching /\ state_ = "Disconnected" BY <1>1 DEF Watching, MayStart
<1>5. Calling' = Calling /\ InHand' = {f} BY <1>1, <1>2 DEF Calling, InHand
<1>6. /\ sock' \in [Fds -> SockStates]
      /\ \A g \in Fds : g # f => sock'[g] = sock[g]
      /\ sock'[f] = "open" /\ conn[f] = "none"
    BY <1>0 DEF TypeOK, SockStates, ConnInv
<1>7. TypeOK'
  <2>1. /\ connect_' \in BOOLEAN /\ gave_up' \in BOOLEAN /\ retry_' \in BOOLEAN /\ client_connect_' \in BOOLEAN
        /\ stopped' \in BOOLEAN /\ overtaken' \in BOOLEAN
      BY <1>0, Zenon DEF StartFrame, clientVars, history, TypeOK
  <2> QED
      BY <1>0, <1>1, <1>2, <1>3, <1>4, <1>5, <1>6, <2>1 DEF StartFrame, clientVars, history, TypeOK, States
<1>8. CallInv' BY <1>0, <1>1, <1>2 DEF CallInv, UserSteps
<1>9. StopInv' BY <1>0, <1>2 DEF StartFrame, clientVars, history, StopInv
<1>10. QueueInv' BY <1>0 DEF StartFrame, QueueInv
<1>11. ChannelInv' BY <1>0, <1>3, <1>4 DEF ChannelInv
<1>12. LoopCallInv' BY <1>0, <1>2, <1>4, <1>5, <1>6 DEF StartFrame, clientVars, LoopCallInv
<1>13. TodoInv' BY <1>0, <1>2, <1>4 DEF StartFrame, TodoInv
<1>14. ConnInv' BY <1>0 DEF StartFrame, clientVars, ConnInv, DestroysUp
<1>15. FailedInv' BY <1>0 DEF FailedInv
<1>16. StuckInv' BY <1>0, <1>3, <1>5 DEF StartFrame, clientVars, StuckInv
<1>17. TokenInv' BY <1>0, <1>2, <1>3, <1>4, <1>5 DEF StartFrame, history, TokenInv, OneSource
<1> QED BY <1>7, <1>8, <1>9, <1>10, <1>11, <1>12, <1>13, <1>14, <1>15, <1>16, <1>17 DEF IInv

\* connecting: the poller has the channel of the attempt.
LEMMA ConnectingBegins ==
    ASSUME IInv, At(LoopThread, "start_in_loop"), StartFrame,
           MayStart, channel_ = None, NEW f \in Fds, sock[f] = "free", connecting(f)
    PROVE  IInv'
<1> USE LoopIsThread
<1>0. /\ TypeOK /\ CallInv /\ StopInv /\ QueueInv /\ ChannelInv /\ LoopCallInv /\ TodoInv /\ ConnInv
      /\ FailedInv /\ StuckInv /\ TokenInv
    BY DEF IInv
<1>1. /\ call[LoopThread] = "start_in_loop" /\ pc # "aborted" /\ pc # "poll"
      /\ LoopThread \in Calling
      /\ state_ = "Disconnected" => ~Watching /\ todo = <<>> /\ connection_ = None /\ due \cap Fds = {}
      /\ misuse = "none" => /\ state_ = "Disconnected" /\ channel_ = None /\ Calling = {LoopThread}
                   /\ timers = {} /\ ~Queued("start") /\ ~Queued("reset")
    BY AttemptBegins
<1>2. /\ call' \in [Threads -> Steps]
      /\ call'[LoopThread] = "idle"
      /\ \A u \in Threads : u # LoopThread => call'[u] = call[u]
    BY <1>0, LoopIsThread, GotoStep DEF Steps, connecting
<1>3. /\ \A op \in {"start", "reset", "cancel", "destroy"} :
             /\ Positions(pending', op) = Positions(pending, op)
             /\ Positions(functors', op) = Positions(functors, op)
             /\ Queued(op)' <=> Queued(op)
      /\ Cancels' = Cancels
    BY DEF StartFrame, Queued, Cancels
<1>4. /\ channel_' = f /\ state_' = "Connecting"
      /\ registered' = registered \cup {<<"connector", f>>}
      /\ Watching' /\ ~Watching /\ state_ = "Disconnected"
    BY <1>1 DEF connecting, Watching, MayStart
<1>5. Calling' = Calling \ {LoopThread} /\ InHand' = {} BY <1>2 DEF Calling, InHand
<1>6. /\ sock' \in [Fds -> SockStates]
      /\ \A g \in Fds : g # f => sock'[g] = sock[g]
      /\ sock'[f] = "connecting" /\ conn[f] = "none"
    BY <1>0 DEF TypeOK, SockStates, ConnInv, connecting
<1>7. TypeOK'
  <2>1. /\ connect_' \in BOOLEAN /\ gave_up' \in BOOLEAN /\ retry_' \in BOOLEAN /\ client_connect_' \in BOOLEAN
        /\ stopped' \in BOOLEAN /\ overtaken' \in BOOLEAN
      BY <1>0, Zenon DEF StartFrame, connecting, clientVars, history, TypeOK
  <2> QED
      BY <1>0, <1>1, <1>2, <1>3, <1>4, <1>5, <1>6, <2>1
      DEF StartFrame, connecting, clientVars, history, TypeOK, States
<1>8. CallInv' BY <1>0, <1>2 DEF CallInv, UserSteps
<1>9. StopInv' BY <1>0, <1>2 DEF StartFrame, clientVars, history, StopInv
<1>10. QueueInv' BY <1>0 DEF StartFrame, connecting, QueueInv
<1>11. ChannelInv' BY <1>0, <1>3, <1>4, <1>5, <1>6 DEF StartFrame, clientVars, ChannelInv
<1>12. LoopCallInv' BY <1>0, <1>2, <1>5 DEF LoopCallInv
<1>13. TodoInv' BY <1>0, <1>4 DEF StartFrame, connecting, TodoInv
<1>14. ConnInv' BY <1>0, <1>1, <1>4 DEF StartFrame, connecting, clientVars, ConnInv, DestroysUp
<1>15. FailedInv' BY <1>0 DEF connecting, FailedInv
<1>16. StuckInv' BY <1>0 DEF connecting, StuckInv
<1>17. TokenInv' BY <1>0, <1>1, <1>3, <1>5 DEF StartFrame, connecting, history, TokenInv, OneSource
<1> QED BY <1>7, <1>8, <1>9, <1>10, <1>11, <1>12, <1>13, <1>14, <1>15, <1>16, <1>17 DEF IInv

\* connecting's assertion fails only after a misuse of connect().
LEMMA ConnectingAborts ==
    ASSUME IInv, At(LoopThread, "start_in_loop"), StartFrame,
           MayStart, channel_ # None, NEW f \in Fds, sock[f] = "free", connecting(f)
    PROVE  IInv'
<1> USE LoopIsThread
<1>0. /\ TypeOK /\ CallInv /\ StopInv /\ QueueInv /\ ChannelInv /\ LoopCallInv /\ TodoInv /\ ConnInv
      /\ FailedInv /\ StuckInv /\ TokenInv
    BY DEF IInv
<1>1. /\ call[LoopThread] = "start_in_loop" /\ pc # "aborted" /\ pc # "poll"
      /\ LoopThread \in Calling
      /\ state_ = "Disconnected" => ~Watching /\ todo = <<>> /\ connection_ = None /\ due \cap Fds = {}
      /\ misuse = "none" => /\ state_ = "Disconnected" /\ channel_ = None /\ Calling = {LoopThread}
                   /\ timers = {} /\ ~Queued("start") /\ ~Queued("reset")
    BY AttemptBegins
<1>2. /\ call' \in [Threads -> Steps]
      /\ call'[LoopThread] = "idle"
      /\ \A u \in Threads : u # LoopThread => call'[u] = call[u]
    BY <1>0, LoopIsThread, GotoStep DEF Steps, connecting
<1>3. /\ \A op \in {"start", "reset", "cancel", "destroy"} :
             /\ Positions(pending', op) = Positions(pending, op)
             /\ Positions(functors', op) = Positions(functors, op)
             /\ Queued(op)' <=> Queued(op)
      /\ Cancels' = Cancels
    BY DEF StartFrame, Queued, Cancels
<1>4. /\ ~Watching' /\ ~Watching /\ state_ = "Disconnected"
    BY <1>1 DEF connecting, Watching, MayStart
<1>5. Calling' = Calling \ {LoopThread} /\ InHand' = {} BY <1>2 DEF Calling, InHand
<1>6. /\ sock' \in [Fds -> SockStates]
      /\ \A g \in Fds : g # f => sock'[g] = sock[g]
      /\ sock'[f] = "connecting" /\ conn[f] = "none"
    BY <1>0 DEF TypeOK, SockStates, ConnInv, connecting
<1>7. TypeOK'
  <2>1. /\ connect_' \in BOOLEAN /\ gave_up' \in BOOLEAN /\ retry_' \in BOOLEAN /\ client_connect_' \in BOOLEAN
        /\ stopped' \in BOOLEAN /\ overtaken' \in BOOLEAN
      BY <1>0, Zenon DEF StartFrame, connecting, Abort, clientVars, history, TypeOK
  <2> QED
      BY <1>0, <1>1, <1>2, <1>3, <1>4, <1>5, <1>6, <2>1
      DEF StartFrame, connecting, Abort, clientVars, history, TypeOK, States
<1>8. CallInv' BY <1>0, <1>2 DEF CallInv, UserSteps
<1>9. StopInv' BY <1>0, <1>2 DEF StartFrame, clientVars, history, StopInv
<1>10. QueueInv' BY <1>0 DEF StartFrame, connecting, Abort, QueueInv
<1>11. ChannelInv' BY <1>0, <1>4 DEF connecting, Abort, ChannelInv
<1>12. LoopCallInv' BY <1>0, <1>2, <1>5 DEF LoopCallInv
<1>13. TodoInv' BY <1>0, <1>4 DEF StartFrame, connecting, Abort, TodoInv
<1>14. ConnInv' BY <1>0, <1>4 DEF StartFrame, connecting, Abort, clientVars, ConnInv, DestroysUp
<1>15. FailedInv' BY <1>0 DEF connecting, Abort, FailedInv
<1>16. StuckInv' BY <1>0 DEF connecting, StuckInv
<1>17. TokenInv' BY <1>0, <1>1 DEF StartFrame, history, TokenInv
<1> QED BY <1>7, <1>8, <1>9, <1>10, <1>11, <1>12, <1>13, <1>14, <1>15, <1>16, <1>17 DEF IInv

\* start_in_loop, whatever comes of it.
LEMMA StartInLoopPreserves ==
    ASSUME IInv, start_in_loop, UNCHANGED <<clientVars, history>>
    PROVE  IInv'
<1>1. At(LoopThread, "start_in_loop") /\ StartFrame BY DEF start_in_loop, StartFrame
<1>2. CASE ~MayStart /\ Abort("start") /\ Goto(LoopThread, "idle")
           /\ UNCHANGED <<state_, channel_, sock_fd, sock, registered, gave_up>>
    BY <1>1, <1>2, StartAborts
<1>3. CASE MayStart /\ connect_socket
  <2>1. PICK f \in Fds :
            /\ sock[f] = "free"
            /\ \/ connecting(f)
               \/ /\ sock' = [sock EXCEPT ![f] = "open"]
                  /\ sock_fd' = f
                  /\ Goto(LoopThread, "retry")
                  /\ UNCHANGED <<state_, channel_, registered, pc, failed, gave_up>>
               \/ /\ gave_up' = TRUE
                  /\ Goto(LoopThread, "idle")
                  /\ UNCHANGED <<state_, channel_, registered, pc, failed, sock, sock_fd>>
      BY <1>3 DEF connect_socket
  <2>2. CASE connecting(f) BY <1>1, <1>3, <2>1, <2>2, ConnectingBegins, ConnectingAborts
  <2>3. CASE /\ sock' = [sock EXCEPT ![f] = "open"] /\ sock_fd' = f /\ Goto(LoopThread, "retry")
             /\ UNCHANGED <<state_, channel_, registered, pc, failed, gave_up>>
      BY <1>1, <1>3, <2>1, <2>3, ConnectRetries
  <2>4. CASE /\ gave_up' = TRUE /\ Goto(LoopThread, "idle")
             /\ UNCHANGED <<state_, channel_, registered, pc, failed, sock, sock_fd>>
      BY <1>1, <1>3, <2>4, StartEnds
  <2> QED BY <2>1, <2>2, <2>3, <2>4
<1>4. CASE MayStart /\ ~connect_ /\ Goto(LoopThread, "idle")
           /\ UNCHANGED <<state_, channel_, sock_fd, pc, failed, sock, registered, gave_up>>
    BY <1>1, <1>4, StartEnds
<1> QED BY <1>2, <1>3, <1>4 DEF start_in_loop

\* retry closes the descriptor; unless connect_ is reset the timer comes next.
LEMMA RetryPreserves ==
    ASSUME IInv, retry, UNCHANGED <<clientVars, history>>
    PROVE  IInv'
<1> USE LoopIsThread
<1>0. /\ TypeOK /\ CallInv /\ StopInv /\ QueueInv /\ ChannelInv /\ LoopCallInv /\ TodoInv /\ ConnInv
      /\ FailedInv /\ StuckInv /\ TokenInv
    BY DEF IInv
<1>1. call[LoopThread] = "retry" /\ pc # "aborted" /\ pc # "poll" BY <1>0 DEF retry, At, CallInv
<1>2. /\ call' \in [Threads -> Steps]
      /\ call'[LoopThread] = (IF connect_ THEN "run_after" ELSE "idle")
      /\ \A u \in Threads : u # LoopThread => call'[u] = call[u]
    BY <1>0, GotoStep DEF retry, Steps
<1>3. /\ Watching' <=> Watching
      /\ \A op \in {"start", "reset", "cancel", "destroy"} :
             /\ Positions(pending', op) = Positions(pending, op)
             /\ Positions(functors', op) = Positions(functors, op)
             /\ Queued(op)' <=> Queued(op)
      /\ Cancels' = Cancels
    BY DEF retry, loopVars, Watching, Queued, Cancels
<1>4. /\ ~Watching /\ InHand = {sock_fd} /\ InHand' = {} /\ sock_fd \in Fds /\ conn[sock_fd] = "none"
      /\ connection_ = None
    BY <1>0, <1>1, <1>2 DEF ChannelInv, InHand, LoopCallInv, ConnInv
<1>5. /\ Calling' \subseteq Calling
      /\ LoopThread \in Calling /\ (connect_ => LoopThread \in Calling')
    BY <1>1, <1>2 DEF Calling
<1>6. /\ sock' \in [Fds -> SockStates]
      /\ \A g \in Fds : g # sock_fd => sock'[g] = sock[g]
    BY <1>0, <1>4 DEF retry, TypeOK, SockStates, Close
<1>7. TypeOK'
  <2>1. /\ connect_' \in BOOLEAN /\ gave_up' \in BOOLEAN /\ retry_' \in BOOLEAN /\ client_connect_' \in BOOLEAN
        /\ stopped' \in BOOLEAN /\ overtaken' \in BOOLEAN
      BY <1>0, Zenon DEF retry, loopVars, clientVars, history, TypeOK
  <2> QED
      BY <1>0, <1>1, <1>2, <1>3, <1>4, <1>5, <1>6, <2>1 DEF retry, loopVars, clientVars, history, TypeOK, States
<1>8. CallInv' BY <1>0, <1>1, <1>2 DEF retry, loopVars, CallInv, UserSteps
<1>9. StopInv' BY <1>0, <1>2 DEF retry, clientVars, history, StopInv
<1>10. QueueInv' BY <1>0 DEF retry, loopVars, QueueInv
<1>11. ChannelInv' BY <1>0, <1>3, <1>4 DEF retry, loopVars, ChannelInv, Watching
<1>12. LoopCallInv' BY <1>0, <1>2, <1>4 DEF retry, LoopCallInv
<1>13. TodoInv' BY <1>0, <1>2, <1>4 DEF retry, loopVars, TodoInv
<1>14. ConnInv' BY <1>0, <1>4, <1>6 DEF retry, loopVars, clientVars, ConnInv, DestroysUp
<1>15. FailedInv' BY <1>0 DEF retry, loopVars, FailedInv
<1>16. StuckInv' BY <1>0, <1>5 DEF retry, StuckInv
<1>17. TokenInv' BY <1>0, <1>2, <1>3, <1>5 DEF retry, loopVars, history, TokenInv, OneSource, Lone
<1> QED BY <1>7, <1>8, <1>9, <1>10, <1>11, <1>12, <1>13, <1>14, <1>15, <1>16, <1>17 DEF IInv

\* retry sets a timer that nobody is about to cancel.
LEMMA RetryRunAfterPreserves ==
    ASSUME IInv, retry_run_after, UNCHANGED <<clientVars, history>>
    PROVE  IInv'
<1> USE LoopIsThread
<1>0. /\ TypeOK /\ CallInv /\ StopInv /\ QueueInv /\ ChannelInv /\ LoopCallInv /\ TodoInv /\ ConnInv
      /\ FailedInv /\ StuckInv /\ TokenInv
    BY DEF IInv
<1>1. call[LoopThread] = "run_after" /\ pc # "aborted" /\ pc # "poll" BY <1>0 DEF retry_run_after, At, CallInv
<1>2. /\ call' \in [Threads -> Steps]
      /\ call'[LoopThread] = "idle"
      /\ \A u \in Threads : u # LoopThread => call'[u] = call[u]
    BY <1>0, LoopIsThread, GotoStep DEF retry_run_after, Steps
<1>3. /\ Watching' <=> Watching
      /\ \A op \in {"start", "reset", "cancel", "destroy"} :
             /\ Positions(pending', op) = Positions(pending, op)
             /\ Positions(functors', op) = Positions(functors, op)
             /\ Queued(op)' <=> Queued(op)
      /\ Cancels' = Cancels
    BY DEF retry_run_after, loopVars, Watching, Queued, Cancels
<1>4. PICK id \in Timers : id \notin timers \cup Cancels /\ timers' = timers \cup {id} /\ timer_id_' = id
    BY <1>0 DEF retry_run_after, NewTimers
<1>5. /\ Calling' = Calling \ {LoopThread} /\ LoopThread \in Calling
      /\ InHand = {} /\ InHand' = {}
    BY <1>1, <1>2 DEF Calling, InHand
<1>6. misuse = "none" => Calling' = {} /\ timers = {} BY <1>0, <1>5 DEF TokenInv, OneSource, Lone
<1>7. TypeOK'
  <2>1. /\ connect_' \in BOOLEAN /\ gave_up' \in BOOLEAN /\ retry_' \in BOOLEAN /\ client_connect_' \in BOOLEAN
        /\ stopped' \in BOOLEAN /\ overtaken' \in BOOLEAN
      BY <1>0, Zenon DEF retry_run_after, clientVars, history, TypeOK
  <2> QED
      BY <1>0, <1>1, <1>2, <1>3, <1>4, <1>5, <1>6, <2>1 DEF retry_run_after, clientVars, history, TypeOK, States
<1>8. CallInv' BY <1>0, <1>2 DEF CallInv, UserSteps
<1>9. StopInv' BY <1>0, <1>2 DEF retry_run_after, clientVars, history, StopInv
<1>10. QueueInv' BY <1>0 DEF retry_run_after, QueueInv
<1>11. ChannelInv' BY <1>0, <1>1, <1>3, <1>5 DEF retry_run_after, clientVars, ChannelInv
<1>12. LoopCallInv' BY <1>0, <1>2, <1>5 DEF LoopCallInv
<1>13. TodoInv' BY <1>0, <1>1, <1>2, <1>3 DEF retry_run_after, TodoInv
<1>14. ConnInv' BY <1>0 DEF retry_run_after, clientVars, ConnInv, DestroysUp
<1>15. FailedInv' BY <1>0 DEF retry_run_after, FailedInv
<1>16. StuckInv' BY <1>0, <1>3, <1>4 DEF StuckInv
<1>17. TokenInv' BY <1>0, <1>1, <1>2, <1>3, <1>5 DEF retry_run_after, history, TokenInv, OneSource, Lone
<1> QED BY <1>7, <1>8, <1>9, <1>10, <1>11, <1>12, <1>13, <1>14, <1>15, <1>16, <1>17 DEF IInv

-----------------------------------------------------------------------------
(* The events of channel_ *)

\* When the attempt is over the channel is the only thing left of it.
LEMMA AttemptIsWatched ==
    ASSUME IInv, Watching
    PROVE  /\ channel_ \in Fds /\ channel_ # None /\ state_ = "Connecting"
           /\ sock[channel_] # "free" /\ conn[channel_] = "none"
           /\ \A f \in Fds : <<"connector", f>> \in registered => f = channel_
           /\ connection_ = None /\ InHand = {} /\ ~Queued("reset")
           /\ misuse = "none" => Calling = {} /\ timers = {} /\ ~Queued("start")
           /\ misuse = "none" => \A t \in Threads : call[t] \notin {"start", "run_in_loop", "start_in_loop"}
<1>0. TypeOK /\ ChannelInv /\ ConnInv /\ TokenInv BY DEF IInv
<1>1. PICK f \in Fds : <<"connector", f>> \in registered BY DEF Watching
<1>2. channel_ = f /\ state_ = "Connecting" /\ sock[f] # "free" /\ conn[f] = "none"
    BY <1>0, <1>1 DEF ChannelInv
<1>3. \A g \in Fds : <<"connector", g>> \in registered => g = channel_ BY <1>0 DEF ChannelInv
<1>4. connection_ = None BY <1>0, <1>2 DEF ConnInv
<1>5. InHand = {} /\ ~Queued("reset") BY <1>0 DEF ChannelInv
<1>6. misuse = "none" => Calling = {} /\ timers = {} /\ ~Queued("start") BY <1>0 DEF TokenInv
<1>7. channel_ # None BY <1>2, ConnectorAssumption
<1>8. Calling = {} => \A t \in Threads : call[t] \notin {"start", "run_in_loop", "start_in_loop"}
    BY DEF Calling
<1> QED BY <1>2, <1>3, <1>4, <1>5, <1>6, <1>7, <1>8

\* handle_error takes the channel out of the poller and goes on with retry.
LEMMA HandleErrorPreserves ==
    ASSUME IInv, handle_error, UNCHANGED <<clientVars, history>>
    PROVE  IInv'
<1> USE LoopIsThread
<1>0. /\ TypeOK /\ CallInv /\ StopInv /\ QueueInv /\ ChannelInv /\ LoopCallInv /\ TodoInv /\ ConnInv
      /\ FailedInv /\ StuckInv /\ TokenInv
    BY DEF IInv
<1>1. /\ todo = <<"error", "write">> /\ todo' = <<"write">> /\ Watching
      /\ pc = "events" /\ call[LoopThread] = "idle"
  <2>1. Head(<<"error", "write">>) = "error" /\ Tail(<<"error", "write">>) = <<"write">> /\ Head(<<"write">>) = "write"
      OBVIOUS
  <2>2. todo = <<"error", "write">> BY <1>0, <2>1 DEF handle_error, Calls, TodoInv
  <2> QED BY <1>0, <2>1, <2>2 DEF handle_error, Calls, Idle, TodoInv
<1>2. /\ channel_ \in Fds /\ channel_ # None /\ state_ = "Connecting"
      /\ sock[channel_] # "free" /\ conn[channel_] = "none"
      /\ \A f \in Fds : <<"connector", f>> \in registered => f = channel_
      /\ connection_ = None /\ InHand = {} /\ ~Queued("reset")
      /\ misuse = "none" => Calling = {} /\ timers = {} /\ ~Queued("start")
      /\ misuse = "none" => \A t \in Threads : call[t] \notin {"start", "run_in_loop", "start_in_loop"}
    BY <1>1, AttemptIsWatched
<1>3. /\ remove_and_reset_channel /\ sock_fd' = channel_ /\ UNCHANGED <<pc, failed>>
      /\ call' \in [Threads -> Steps]
      /\ call'[LoopThread] = "retry"
      /\ \A u \in Threads : u # LoopThread => call'[u] = call[u]
    BY <1>0, <1>2, GotoStep DEF handle_error, Steps
<1>4. /\ pending' \in Seq(Functors)
      /\ \A op \in {"start", "reset", "cancel", "destroy"} \ {"reset"} :
             Positions(pending', op) = Positions(pending, op) /\ (Queued(op)' <=> Queued(op))
      /\ Positions(pending', "reset") = Positions(pending, "reset") \cup {Len(pending) + 1}
      /\ Queued("reset")'
      /\ \A op \in {"start", "reset", "cancel", "destroy"} :
             /\ Positions(functors', op) = Positions(functors, op)
             /\ \A i \in Positions(pending, op) : pending'[i] = pending[i]
      /\ Cancels' = Cancels \cup {None}
  <2>1. /\ Functor("reset", None) \in Functors
        /\ Functor("reset", None).op = "reset" /\ Functor("reset", None).arg = None
      BY <1>0 DEF Functor, Functors, TypeOK
  <2>2. pending' = Append(pending, Functor("reset", None)) /\ functors' = functors
      BY <1>3 DEF handle_error, remove_and_reset_channel
  <2> HIDE DEF Functor
  <2> QED BY <1>0, <2>1, <2>2, Enqueues
<1>5. /\ registered' = registered \ {<<"connector", channel_>>} /\ ~Watching'
      /\ \A f \in Fds : <<"connector", f>> \notin registered'
      /\ \A f \in Fds : <<"connection", f>> \in registered' => <<"connection", f>> \in registered
    BY <1>2, <1>3 DEF Watching, remove_and_reset_channel
<1>6. Calling' = Calling \cup {LoopThread} /\ InHand' = {channel_}
    BY <1>3 DEF Calling, InHand
<1>7. \A op \in {"start", "reset"} : ~Queued(op) => Positions(pending, op) = {} /\ Positions(functors, op) = {}
    BY DEF Queued
<1>8. TypeOK'
  <2>1. /\ connect_' \in BOOLEAN /\ gave_up' \in BOOLEAN /\ retry_' \in BOOLEAN /\ client_connect_' \in BOOLEAN
        /\ stopped' \in BOOLEAN /\ overtaken' \in BOOLEAN
      BY <1>0, Zenon DEF handle_error, clientVars, history, TypeOK
  <2> QED
      BY <1>0, <1>1, <1>2, <1>3, <1>4, <1>5, <1>6, <1>7, <2>1
      DEF handle_error, clientVars, history, TypeOK, States
<1>9. CallInv' BY <1>0, <1>1, <1>3 DEF CallInv, UserSteps
<1>10. StopInv' BY <1>0, <1>3 DEF handle_error, clientVars, history, StopInv
<1>11. QueueInv' BY <1>0, <1>1, <1>2, <1>4, <1>7 DEF handle_error, QueueInv, Lone
<1>12. ChannelInv' BY <1>0, <1>2, <1>3, <1>4, <1>5 DEF handle_error, ChannelInv
<1>13. LoopCallInv' BY <1>0, <1>2, <1>3, <1>6 DEF handle_error, clientVars, LoopCallInv
<1>14. TodoInv' BY <1>0, <1>1, <1>3 DEF TodoInv
<1>15. ConnInv' BY <1>0, <1>3, <1>4, <1>5 DEF handle_error, clientVars, ConnInv, DestroysUp
<1>16. FailedInv' BY <1>0, <1>3 DEF FailedInv
<1>17. StuckInv' BY <1>0, <1>6 DEF StuckInv
<1>18. TokenInv'
    BY <1>0, <1>1, <1>2, <1>3, <1>4, <1>5, <1>6 DEF handle_error, history, TokenInv, OneSource, Lone
<1> QED BY <1>8, <1>9, <1>10, <1>11, <1>12, <1>13, <1>14, <1>15, <1>16, <1>17, <1>18 DEF IInv

\* What handle_write leaves alone while an attempt is over, and what it does in any case.
WriteFrame ==
    /\ todo' = <<>> /\ remove_and_reset_channel
    /\ UNCHANGED <<connect_, channel_, timer_id_, due, timers, functors, gave_up, pc, failed, clientVars, history>>

\* A failure, or a connection to itself, is tried again.
LEMMA WriteRetries ==
    ASSUME IInv, Watching, todo = <<"write">>, pc = "events", call[LoopThread] = "idle", WriteFrame,
           Goto(LoopThread, "retry"), sock_fd' = channel_, UNCHANGED <<state_, sock>>
    PROVE  IInv'
<1> USE LoopIsThread
<1>0. /\ TypeOK /\ CallInv /\ StopInv /\ QueueInv /\ ChannelInv /\ LoopCallInv /\ TodoInv /\ ConnInv
      /\ FailedInv /\ StuckInv /\ TokenInv
    BY DEF IInv
<1>1. /\ channel_ \in Fds /\ channel_ # None /\ state_ = "Connecting"
      /\ sock[channel_] # "free" /\ conn[channel_] = "none"
      /\ \A f \in Fds : <<"connector", f>> \in registered => f = channel_
      /\ connection_ = None /\ InHand = {} /\ ~Queued("reset")
      /\ misuse = "none" => Calling = {} /\ timers = {} /\ ~Queued("start")
      /\ misuse = "none" => \A t \in Threads : call[t] \notin {"start", "run_in_loop", "start_in_loop"}
    BY AttemptIsWatched
<1>2. /\ call' \in [Threads -> Steps]
      /\ call'[LoopThread] = "retry"
      /\ \A u \in Threads : u # LoopThread => call'[u] = call[u]
    BY <1>0, LoopIsThread, GotoStep DEF Steps
<1>3. /\ pending' \in Seq(Functors)
      /\ \A op \in {"start", "reset", "cancel", "destroy"} \ {"reset"} :
             Positions(pending', op) = Positions(pending, op) /\ (Queued(op)' <=> Queued(op))
      /\ Positions(pending', "reset") = Positions(pending, "reset") \cup {Len(pending) + 1}
      /\ Queued("reset")'
      /\ \A op \in {"start", "reset", "cancel", "destroy"} :
             /\ Positions(functors', op) = Positions(functors, op)
             /\ \A i \in Positions(pending, op) : pending'[i] = pending[i]
      /\ Cancels' = Cancels \cup {None}
  <2>1. /\ Functor("reset", None) \in Functors
        /\ Functor("reset", None).op = "reset" /\ Functor("reset", None).arg = None
      BY <1>0 DEF Functor, Functors, TypeOK
  <2>2. pending' = Append(pending, Functor("reset", None)) /\ functors' = functors
      BY <1>0 DEF WriteFrame, remove_and_reset_channel
  <2> HIDE DEF Functor
  <2> QED BY <1>0, <2>1, <2>2, Enqueues
<1>4. /\ registered' = registered \ {<<"connector", channel_>>} /\ ~Watching'
      /\ \A f \in Fds : <<"connector", f>> \notin registered'
      /\ \A f \in Fds : <<"connection", f>> \in registered' => <<"connection", f>> \in registered
    BY <1>1 DEF Watching, WriteFrame, remove_and_reset_channel
<1>5. Calling' = Calling \cup {LoopThread} /\ InHand' = {channel_}
    BY <1>2 DEF Calling, InHand
<1>6. \A op \in {"start", "reset"} : ~Queued(op) => Positions(pending, op) = {} /\ Positions(functors, op) = {}
    BY DEF Queued
<1>7. TypeOK'
  <2>1. /\ connect_' \in BOOLEAN /\ gave_up' \in BOOLEAN /\ retry_' \in BOOLEAN /\ client_connect_' \in BOOLEAN
        /\ stopped' \in BOOLEAN /\ overtaken' \in BOOLEAN
      BY <1>0, Zenon DEF WriteFrame, clientVars, history, TypeOK
  <2> QED
      BY <1>0, <1>1, <1>2, <1>3, <1>4, <1>5, <1>6, <2>1 DEF WriteFrame, clientVars, history, TypeOK, States
<1>8. CallInv' BY <1>0, <1>2 DEF WriteFrame, CallInv, UserSteps
<1>9. StopInv' BY <1>0, <1>2 DEF WriteFrame, clientVars, history, StopInv
<1>10. QueueInv' BY <1>0, <1>1, <1>3, <1>6 DEF WriteFrame, QueueInv, Lone
<1>11. ChannelInv' BY <1>0, <1>1, <1>2, <1>3, <1>4 DEF WriteFrame, ChannelInv
<1>12. LoopCallInv' BY <1>0, <1>1, <1>2, <1>5 DEF WriteFrame, clientVars, LoopCallInv
<1>13. TodoInv' BY <1>0 DEF WriteFrame, TodoInv
<1>14. ConnInv' BY <1>0, <1>3, <1>4 DEF WriteFrame, clientVars, ConnInv, DestroysUp
<1>15. FailedInv' BY <1>0 DEF WriteFrame, FailedInv
<1>16. StuckInv' BY <1>0, <1>5 DEF StuckInv
<1>17. TokenInv' BY <1>0, <1>1, <1>2, <1>3, <1>4, <1>5 DEF WriteFrame, history, TokenInv, OneSource, Lone
<1> QED BY <1>7, <1>8, <1>9, <1>10, <1>11, <1>12, <1>13, <1>14, <1>15, <1>16, <1>17 DEF IInv

\* A connection is handed to new_connection_callback_.
LEMMA WriteConnects ==
    ASSUME IInv, Watching, todo = <<"write">>, pc = "events", call[LoopThread] = "idle", WriteFrame,
           Goto(LoopThread, "new_connection"), sock_fd' = channel_, state_' = "Connected", UNCHANGED sock
    PROVE  IInv'
<1> USE LoopIsThread
<1>0. /\ TypeOK /\ CallInv /\ StopInv /\ QueueInv /\ ChannelInv /\ LoopCallInv /\ TodoInv /\ ConnInv
      /\ FailedInv /\ StuckInv /\ TokenInv
    BY DEF IInv
<1>1. /\ channel_ \in Fds /\ channel_ # None /\ state_ = "Connecting"
      /\ sock[channel_] # "free" /\ conn[channel_] = "none"
      /\ \A f \in Fds : <<"connector", f>> \in registered => f = channel_
      /\ connection_ = None /\ InHand = {} /\ ~Queued("reset")
      /\ misuse = "none" => Calling = {} /\ timers = {} /\ ~Queued("start")
      /\ misuse = "none" => \A t \in Threads : call[t] \notin {"start", "run_in_loop", "start_in_loop"}
    BY AttemptIsWatched
<1>2. /\ call' \in [Threads -> Steps]
      /\ call'[LoopThread] = "new_connection"
      /\ \A u \in Threads : u # LoopThread => call'[u] = call[u]
    BY <1>0, LoopIsThread, GotoStep DEF Steps
<1>3. /\ pending' \in Seq(Functors)
      /\ \A op \in {"start", "reset", "cancel", "destroy"} \ {"reset"} :
             Positions(pending', op) = Positions(pending, op) /\ (Queued(op)' <=> Queued(op))
      /\ Positions(pending', "reset") = Positions(pending, "reset") \cup {Len(pending) + 1}
      /\ Queued("reset")'
      /\ \A op \in {"start", "reset", "cancel", "destroy"} :
             /\ Positions(functors', op) = Positions(functors, op)
             /\ \A i \in Positions(pending, op) : pending'[i] = pending[i]
      /\ Cancels' = Cancels \cup {None}
  <2>1. /\ Functor("reset", None) \in Functors
        /\ Functor("reset", None).op = "reset" /\ Functor("reset", None).arg = None
      BY <1>0 DEF Functor, Functors, TypeOK
  <2>2. pending' = Append(pending, Functor("reset", None)) /\ functors' = functors
      BY <1>0 DEF WriteFrame, remove_and_reset_channel
  <2> HIDE DEF Functor
  <2> QED BY <1>0, <2>1, <2>2, Enqueues
<1>4. /\ registered' = registered \ {<<"connector", channel_>>} /\ ~Watching'
      /\ \A f \in Fds : <<"connector", f>> \notin registered'
      /\ \A f \in Fds : <<"connection", f>> \in registered' => <<"connection", f>> \in registered
    BY <1>1 DEF Watching, WriteFrame, remove_and_reset_channel
<1>5. Calling' = Calling /\ InHand' = {channel_}
    BY <1>2 DEF Calling, InHand
<1>6. \A op \in {"start", "reset"} : ~Queued(op) => Positions(pending, op) = {} /\ Positions(functors, op) = {}
    BY DEF Queued
<1>7. TypeOK'
  <2>1. /\ connect_' \in BOOLEAN /\ gave_up' \in BOOLEAN /\ retry_' \in BOOLEAN /\ client_connect_' \in BOOLEAN
        /\ stopped' \in BOOLEAN /\ overtaken' \in BOOLEAN
      BY <1>0, Zenon DEF WriteFrame, clientVars, history, TypeOK
  <2> QED
      BY <1>0, <1>1, <1>2, <1>3, <1>4, <1>5, <1>6, <2>1 DEF WriteFrame, clientVars, history, TypeOK, States
<1>8. CallInv' BY <1>0, <1>2 DEF WriteFrame, CallInv, UserSteps
<1>9. StopInv' BY <1>0, <1>2 DEF WriteFrame, clientVars, history, StopInv
<1>10. QueueInv' BY <1>0, <1>1, <1>3, <1>6 DEF WriteFrame, QueueInv, Lone
<1>11. ChannelInv' BY <1>0, <1>1, <1>3, <1>4 DEF WriteFrame, ChannelInv
<1>12. LoopCallInv' BY <1>0, <1>1, <1>2, <1>5 DEF WriteFrame, clientVars, LoopCallInv
<1>13. TodoInv' BY <1>0 DEF WriteFrame, TodoInv
<1>14. ConnInv' BY <1>0, <1>3, <1>4 DEF WriteFrame, clientVars, ConnInv, DestroysUp
<1>15. FailedInv' BY <1>0 DEF WriteFrame, FailedInv
<1>16. StuckInv' BY <1>0 DEF StuckInv
<1>17. TokenInv' BY <1>0, <1>1, <1>2, <1>3, <1>5 DEF WriteFrame, history, TokenInv, OneSource
<1> QED BY <1>7, <1>8, <1>9, <1>10, <1>11, <1>12, <1>13, <1>14, <1>15, <1>16, <1>17 DEF IInv

\* A connection that nobody wants any more is closed.
LEMMA WriteCloses ==
    ASSUME IInv, Watching, todo = <<"write">>, pc = "events", call[LoopThread] = "idle", WriteFrame,
           Close(channel_), state_' = "Connected", UNCHANGED <<call, sock_fd>>
    PROVE  IInv'
<1> USE LoopIsThread
<1>0. /\ TypeOK /\ CallInv /\ StopInv /\ QueueInv /\ ChannelInv /\ LoopCallInv /\ TodoInv /\ ConnInv
      /\ FailedInv /\ StuckInv /\ TokenInv
    BY DEF IInv
<1>1. /\ channel_ \in Fds /\ channel_ # None /\ state_ = "Connecting"
      /\ sock[channel_] # "free" /\ conn[channel_] = "none"
      /\ \A f \in Fds : <<"connector", f>> \in registered => f = channel_
      /\ connection_ = None /\ InHand = {} /\ ~Queued("reset")
      /\ misuse = "none" => Calling = {} /\ timers = {} /\ ~Queued("start")
      /\ misuse = "none" => \A t \in Threads : call[t] \notin {"start", "run_in_loop", "start_in_loop"}
    BY AttemptIsWatched
<1>2. /\ sock' \in [Fds -> SockStates]
      /\ \A g \in Fds : g # channel_ => sock'[g] = sock[g]
    BY <1>0, <1>1 DEF TypeOK, SockStates, Close
<1>3. /\ pending' \in Seq(Functors)
      /\ \A op \in {"start", "reset", "cancel", "destroy"} \ {"reset"} :
             Positions(pending', op) = Positions(pending, op) /\ (Queued(op)' <=> Queued(op))
      /\ Positions(pending', "reset") = Positions(pending, "reset") \cup {Len(pending) + 1}
      /\ Queued("reset")'
      /\ \A op \in {"start", "reset", "cancel", "destroy"} :
             /\ Positions(functors', op) = Positions(functors, op)
             /\ \A i \in Positions(pending, op) : pending'[i] = pending[i]
      /\ Cancels' = Cancels \cup {None}
  <2>1. /\ Functor("reset", None) \in Functors
        /\ Functor("reset", None).op = "reset" /\ Functor("reset", None).arg = None
      BY <1>0 DEF Functor, Functors, TypeOK
  <2>2. pending' = Append(pending, Functor("reset", None)) /\ functors' = functors
      BY <1>0 DEF WriteFrame, remove_and_reset_channel
  <2> HIDE DEF Functor
  <2> QED BY <1>0, <2>1, <2>2, Enqueues
<1>4. /\ registered' = registered \ {<<"connector", channel_>>} /\ ~Watching'
      /\ \A f \in Fds : <<"connector", f>> \notin registered'
      /\ \A f \in Fds : <<"connection", f>> \in registered' => <<"connection", f>> \in registered
    BY <1>1 DEF Watching, WriteFrame, remove_and_reset_channel
<1>5. Calling' = Calling /\ InHand' = {}
    BY DEF Calling, InHand
<1>6. \A op \in {"start", "reset"} : ~Queued(op) => Positions(pending, op) = {} /\ Positions(functors, op) = {}
    BY DEF Queued
<1>7. TypeOK'
  <2>1. /\ connect_' \in BOOLEAN /\ gave_up' \in BOOLEAN /\ retry_' \in BOOLEAN /\ client_connect_' \in BOOLEAN
        /\ stopped' \in BOOLEAN /\ overtaken' \in BOOLEAN
      BY <1>0, Zenon DEF WriteFrame, clientVars, history, TypeOK
  <2> QED
      BY <1>0, <1>1, <1>2, <1>3, <1>4, <1>5, <1>6, <2>1 DEF WriteFrame, clientVars, history, TypeOK, States
<1>8. CallInv' BY <1>0 DEF CallInv
<1>9. StopInv' BY <1>0 DEF WriteFrame, clientVars, history, StopInv
<1>10. QueueInv' BY <1>0, <1>1, <1>3, <1>6 DEF WriteFrame, QueueInv, Lone
<1>11. ChannelInv' BY <1>0, <1>1, <1>3, <1>4 DEF WriteFrame, ChannelInv
<1>12. LoopCallInv' BY <1>0, <1>5 DEF LoopCallInv
<1>13. TodoInv' BY <1>0 DEF WriteFrame, TodoInv
<1>14. ConnInv' BY <1>0, <1>1, <1>2, <1>3, <1>4 DEF WriteFrame, clientVars, ConnInv, DestroysUp
<1>15. FailedInv' BY <1>0 DEF WriteFrame, FailedInv
<1>16. StuckInv' BY <1>0 DEF StuckInv
<1>17. TokenInv' BY <1>0, <1>1, <1>3, <1>5 DEF WriteFrame, history, TokenInv, OneSource
<1> QED BY <1>7, <1>8, <1>9, <1>10, <1>11, <1>12, <1>13, <1>14, <1>15, <1>16, <1>17 DEF IInv

\* After handle_error there is nothing left to do.
LEMMA WriteIdles ==
    ASSUME IInv, todo = <<"write">>, todo' = <<>>,
           UNCHANGED <<connect_, state_, channel_, timer_id_, call, sock_fd, pc, failed, due, timers, pending,
                       functors, sock, registered, gave_up, clientVars, history>>
    PROVE  IInv'
<1> USE LoopIsThread
<1>0. /\ TypeOK /\ CallInv /\ StopInv /\ QueueInv /\ ChannelInv /\ LoopCallInv /\ TodoInv /\ ConnInv
      /\ FailedInv /\ StuckInv /\ TokenInv
    BY DEF IInv
<1>1. /\ Watching' <=> Watching
      /\ \A op \in {"start", "reset", "cancel", "destroy"} :
             /\ Positions(pending', op) = Positions(pending, op)
             /\ Positions(functors', op) = Positions(functors, op)
             /\ Queued(op)' <=> Queued(op)
      /\ Cancels' = Cancels /\ Calling' = Calling /\ InHand' = InHand
    BY DEF Watching, Queued, Cancels, Calling, InHand
<1>2. TypeOK'
  <2>1. /\ connect_' \in BOOLEAN /\ gave_up' \in BOOLEAN /\ retry_' \in BOOLEAN /\ client_connect_' \in BOOLEAN
        /\ stopped' \in BOOLEAN /\ overtaken' \in BOOLEAN
      BY <1>0, Zenon DEF clientVars, history, TypeOK
  <2> QED BY <1>0, <1>1, <2>1 DEF clientVars, history, TypeOK, States
<1>3. CallInv' BY <1>0 DEF CallInv
<1>4. StopInv' BY <1>0 DEF clientVars, history, StopInv
<1>5. QueueInv' BY <1>0 DEF QueueInv
<1>6. ChannelInv' BY <1>0, <1>1 DEF clientVars, ChannelInv
<1>7. LoopCallInv' BY <1>0, <1>1 DEF clientVars, LoopCallInv
<1>8. TodoInv' BY <1>0 DEF TodoInv
<1>9. ConnInv' BY <1>0 DEF clientVars, ConnInv, DestroysUp
<1>10. FailedInv' BY <1>0 DEF FailedInv
<1>11. StuckInv' BY <1>0, <1>1 DEF clientVars, StuckInv
<1>12. TokenInv' BY <1>0, <1>1 DEF history, TokenInv, OneSource
<1> QED BY <1>2, <1>3, <1>4, <1>5, <1>6, <1>7, <1>8, <1>9, <1>10, <1>11, <1>12 DEF IInv

\* handle_write: its assertion holds, and what it does keeps the invariant.
LEMMA HandleWritePreserves ==
    ASSUME IInv, handle_write, UNCHANGED <<clientVars, history>>
    PROVE  IInv'
<1>0. TypeOK /\ ChannelInv /\ TodoInv BY DEF IInv
<1>1. /\ todo = <<"write">> /\ todo' = <<>>
      /\ pc = "events" /\ call[LoopThread] = "idle"
  <2>1. Head(<<"error", "write">>) = "error" /\ Tail(<<"write">>) = <<>> OBVIOUS
  <2>2. todo = <<"write">> BY <1>0, <2>1 DEF handle_write, Calls, TodoInv
  <2> QED BY <2>1, <2>2 DEF handle_write, Calls, Idle
<1>2. CASE Watching
  <2>1. state_ = "Connecting" BY <1>2, AttemptIsWatched
  <2>2. AttemptOver /\ WriteFrame BY <1>1, <2>1 DEF handle_write, WriteFrame, AttemptOver
  <2>3. \/ Goto(LoopThread, "retry") /\ sock_fd' = channel_ /\ UNCHANGED <<state_, sock>>
        \/ Goto(LoopThread, "new_connection") /\ sock_fd' = channel_ /\ state_' = "Connected" /\ UNCHANGED sock
        \/ Close(channel_) /\ state_' = "Connected" /\ UNCHANGED <<call, sock_fd>>
      BY <2>2 DEF AttemptOver
  <2> QED BY <1>1, <1>2, <2>2, <2>3, WriteRetries, WriteConnects, WriteCloses
<1>3. CASE ~Watching
  <2>1. state_ = "Disconnected" BY <1>0, <1>1, <1>3 DEF TodoInv
  <2> QED BY <1>1, <2>1, WriteIdles DEF handle_write
<1> QED BY <1>2, <1>3

-----------------------------------------------------------------------------
(* The loop *)

\* poll finds events of channel_ only while it is watched.
LEMMA PollPreserves ==
    ASSUME IInv, poll, UNCHANGED <<clientVars, history>>
    PROVE  IInv'
<1> USE LoopIsThread
<1>0. /\ TypeOK /\ CallInv /\ StopInv /\ QueueInv /\ ChannelInv /\ LoopCallInv /\ TodoInv /\ ConnInv
      /\ FailedInv /\ StuckInv /\ TokenInv
    BY DEF IInv
<1>1. /\ Watching' <=> Watching
      /\ \A op \in {"start", "reset", "cancel", "destroy"} :
             /\ Positions(pending', op) = Positions(pending, op)
             /\ Positions(functors', op) = Positions(functors, op)
             /\ Queued(op)' <=> Queued(op)
      /\ Cancels' = Cancels
    BY DEF poll, loopVars, Watching, Queued, Cancels
<1>2. todo' \in {<<>>, <<"write">>, <<"error", "write">>} /\ (todo' # <<>> => Watching)
    BY <1>0, WatchesChannel, Zenon DEF poll, Callbacks
<1>3. todo' \in Seq({"error", "write"})
  <2>1. /\ <<>> \in Seq({"error", "write"}) /\ <<"write">> \in Seq({"error", "write"})
        /\ <<"error", "write">> \in Seq({"error", "write"})
      OBVIOUS
  <2> QED BY <1>2, <2>1, Zenon
<1>4. Calling' = Calling /\ InHand' = InHand BY DEF poll, Calling, InHand
<1>5. pc = "poll" /\ pc' = "events" BY DEF poll
<1>6. TypeOK'
  <2>1. /\ connect_' \in BOOLEAN /\ gave_up' \in BOOLEAN /\ retry_' \in BOOLEAN /\ client_connect_' \in BOOLEAN
        /\ stopped' \in BOOLEAN /\ overtaken' \in BOOLEAN
      BY <1>0, Zenon DEF poll, clientVars, history, TypeOK
  <2> QED BY <1>0, <1>1, <1>2, <1>3, <1>4, <1>5, <2>1 DEF poll, clientVars, history, TypeOK, States
<1>7. CallInv' BY <1>0 DEF poll, CallInv
<1>8. StopInv' BY <1>0 DEF poll, clientVars, history, StopInv
<1>9. QueueInv' BY <1>0 DEF poll, QueueInv
<1>10. ChannelInv' BY <1>0, <1>1, <1>4 DEF poll, clientVars, ChannelInv
<1>11. LoopCallInv' BY <1>0, <1>4 DEF poll, clientVars, LoopCallInv
<1>12. TodoInv' BY <1>0, <1>1, <1>2 DEF poll, TodoInv
<1>13. ConnInv' BY <1>0 DEF poll, clientVars, ConnInv, DestroysUp
<1>14. FailedInv' BY <1>0 DEF poll, FailedInv
<1>15. StuckInv' BY <1>0, <1>1, <1>4 DEF poll, clientVars, StuckInv
<1>16. TokenInv' BY <1>0, <1>1, <1>2, <1>4 DEF poll, history, TokenInv, OneSource
<1> QED BY <1>6, <1>7, <1>8, <1>9, <1>10, <1>11, <1>12, <1>13, <1>14, <1>15, <1>16 DEF IInv

\* A timer that is still in the queue calls start_in_loop.
LEMMA RunTimerPreserves ==
    ASSUME IInv, NEW id \in Timers, RunTimer(id), UNCHANGED <<clientVars, history>>
    PROVE  IInv'
<1> USE LoopIsThread
<1>0. /\ TypeOK /\ CallInv /\ StopInv /\ QueueInv /\ ChannelInv /\ LoopCallInv /\ TodoInv /\ ConnInv
      /\ FailedInv /\ StuckInv /\ TokenInv
    BY DEF IInv
<1>1. pc = "events" /\ call[LoopThread] = "idle" /\ (todo # <<>> => Watching) /\ id \notin Fds
    BY <1>0, WatchesChannel, ConnectorAssumption DEF RunTimer, Idle, MidEvent
<1>2. /\ Watching' <=> Watching
      /\ \A op \in {"start", "reset", "cancel", "destroy"} :
             /\ Positions(pending', op) = Positions(pending, op)
             /\ Positions(functors', op) = Positions(functors, op)
             /\ Queued(op)' <=> Queued(op)
      /\ Cancels' = Cancels
    BY DEF RunTimer, loopVars, Watching, Queued, Cancels
<1>3. /\ call' \in [Threads -> Steps]
      /\ call'[LoopThread] = (IF id \in timers THEN "start_in_loop" ELSE "idle")
      /\ \A u \in Threads : u # LoopThread => call'[u] = call[u]
    BY <1>0, <1>1, GotoStep DEF RunTimer, Steps, TypeOK
<1>4. InHand = {} /\ InHand' = {} BY <1>1, <1>3 DEF InHand
<1>5. Calling' = (IF id \in timers THEN Calling \cup {LoopThread} ELSE Calling) BY <1>1, <1>3 DEF Calling
<1>6. due' = due \ {id} /\ timers' = timers \ {id} /\ id \in due BY DEF RunTimer
<1>7. TypeOK'
  <2>1. /\ connect_' \in BOOLEAN /\ gave_up' \in BOOLEAN /\ retry_' \in BOOLEAN /\ client_connect_' \in BOOLEAN
        /\ stopped' \in BOOLEAN /\ overtaken' \in BOOLEAN
      BY <1>0, Zenon DEF RunTimer, clientVars, history, TypeOK
  <2> QED BY <1>0, <1>1, <1>2, <1>3, <1>4, <1>5, <1>6, <2>1 DEF RunTimer, clientVars, history, TypeOK, States
<1>8. CallInv' BY <1>0, <1>1, <1>3 DEF RunTimer, CallInv, UserSteps
<1>9. StopInv' BY <1>0, <1>3 DEF RunTimer, clientVars, history, StopInv
<1>10. QueueInv' BY <1>0 DEF RunTimer, QueueInv
<1>11. ChannelInv' BY <1>0, <1>1, <1>2, <1>4 DEF RunTimer, clientVars, ChannelInv
<1>12. LoopCallInv' BY <1>0, <1>3, <1>4 DEF LoopCallInv
<1>13. TodoInv' BY <1>0, <1>1, <1>2 DEF RunTimer, TodoInv
<1>14. ConnInv' BY <1>0 DEF RunTimer, clientVars, ConnInv, DestroysUp
<1>15. FailedInv' BY <1>0 DEF RunTimer, FailedInv
<1>16. StuckInv' BY <1>0, <1>2, <1>5 DEF RunTimer, clientVars, StuckInv
<1>17. TokenInv' BY <1>0, <1>1, <1>2, <1>5 DEF RunTimer, history, TokenInv, OneSource, Lone
<1> QED BY <1>7, <1>8, <1>9, <1>10, <1>11, <1>12, <1>13, <1>14, <1>15, <1>16, <1>17 DEF IInv

\* The batch of functors is taken from the queue.
LEMMA DoPendingFunctorsPreserves ==
    ASSUME IInv, do_pending_functors, UNCHANGED <<clientVars, history>>
    PROVE  IInv'
<1> USE LoopIsThread
<1>0. /\ TypeOK /\ CallInv /\ StopInv /\ QueueInv /\ ChannelInv /\ LoopCallInv /\ TodoInv /\ ConnInv
      /\ FailedInv /\ StuckInv /\ TokenInv
    BY DEF IInv
<1>1. /\ pc = "events" /\ call[LoopThread] = "idle" /\ todo = <<>> /\ due = {} /\ functors = <<>>
      /\ functors' = pending /\ pending' = <<>>
    BY <1>0 DEF do_pending_functors, Idle, QueueInv
<1>2. /\ \A op \in {"start", "reset", "cancel", "destroy"} :
             /\ Positions(pending', op) = {} /\ Positions(functors, op) = {}
             /\ Positions(functors', op) = Positions(pending, op)
    BY <1>1 DEF Positions
<1>3. /\ \A op \in {"start", "reset", "cancel", "destroy"} : Queued(op)' <=> Queued(op)
    BY <1>2 DEF Queued
<1>4. Cancels' \subseteq Cancels BY <1>0, <1>1, CancelsOf
<1>5. /\ Watching' <=> Watching
      /\ Calling' = Calling /\ InHand' = InHand BY DEF do_pending_functors, Watching, Calling, InHand
<1>6. TypeOK'
  <2>1. /\ connect_' \in BOOLEAN /\ gave_up' \in BOOLEAN /\ retry_' \in BOOLEAN /\ client_connect_' \in BOOLEAN
        /\ stopped' \in BOOLEAN /\ overtaken' \in BOOLEAN
      BY <1>0, Zenon DEF do_pending_functors, clientVars, history, TypeOK
  <2> QED
      BY <1>0, <1>1, <1>2, <1>3, <1>4, <1>5, <2>1 DEF do_pending_functors, clientVars, history, TypeOK, States
<1>7. CallInv' BY <1>0 DEF do_pending_functors, CallInv
<1>8. StopInv' BY <1>0 DEF do_pending_functors, clientVars, history, StopInv
<1>9. QueueInv' BY <1>0, <1>2 DEF do_pending_functors, QueueInv
<1>10. ChannelInv' BY <1>0, <1>1, <1>3, <1>5 DEF do_pending_functors, clientVars, ChannelInv
<1>11. LoopCallInv' BY <1>0, <1>5 DEF do_pending_functors, clientVars, LoopCallInv
<1>12. TodoInv' BY <1>0 DEF do_pending_functors, TodoInv
<1>13. ConnInv' BY <1>0, <1>2 DEF do_pending_functors, clientVars, ConnInv, DestroysUp
<1>14. FailedInv' BY <1>0, <1>1 DEF do_pending_functors, FailedInv
<1>15. StuckInv' BY <1>0, <1>1, <1>3, <1>4, <1>5 DEF do_pending_functors, clientVars, StuckInv
<1>16. TokenInv' BY <1>0, <1>2, <1>3, <1>5 DEF do_pending_functors, history, TokenInv, OneSource
<1> QED BY <1>6, <1>7, <1>8, <1>9, <1>10, <1>11, <1>12, <1>13, <1>14, <1>15, <1>16 DEF IInv

\* What running a functor for op takes out of the queue.
LEMMA FunctorRuns ==
    ASSUME TypeOK, NEW op \in {"start", "reset", "cancel", "destroy"}, Runs(op),
           functors' = Tail(functors), pending' = pending
    PROVE  /\ functors' \in Seq(Functors)
           /\ Head(functors) \in Functors /\ Head(functors).op = op
           /\ \A o \in {"start", "reset", "cancel", "destroy"} :
                  /\ Positions(pending', o) = Positions(pending, o)
                  /\ Lone(Positions(functors, o)) => Lone(Positions(functors', o))
                  /\ Positions(functors, o) = {} => Positions(functors', o) = {}
                  /\ o # op => (Queued(o)' <=> Queued(o))
                  /\ Queued(o)' => Queued(o)
           /\ Queued(op) /\ Positions(functors, op) # {} /\ 1 \in Positions(functors, op) /\ functors[1] = Head(functors)
           /\ Lone(Positions(functors, op)) => Positions(functors', op) = {}
           /\ \A o \in {"start", "reset", "cancel", "destroy"} :
                  \A i \in Positions(functors', o) :
                      i \in Nat /\ i > 0 /\ i + 1 \in Positions(functors, o) /\ functors'[i] = functors[i + 1]
           /\ Cancels' \subseteq Cancels /\ Head(functors).arg \in Cancels
           /\ Cancels \subseteq Cancels' \cup {Head(functors).arg}
<1>0. functors # <<>> /\ Head(functors).op = op BY DEF Runs
<1>1. functors' \in Seq(Functors) /\ Head(functors) \in Functors BY <1>0, Dequeues
<1>2. ASSUME NEW o \in {"start", "reset", "cancel", "destroy"}
      PROVE  /\ Positions(pending', o) = Positions(pending, o)
             /\ Lone(Positions(functors, o)) => Lone(Positions(functors', o))
             /\ Positions(functors, o) = {} => Positions(functors', o) = {}
             /\ o # op => (Queued(o)' <=> Queued(o))
             /\ Queued(o)' => Queued(o)
  <2>1. \A i \in Positions(functors', o) :
                      i \in Nat /\ i > 0 /\ i + 1 \in Positions(functors, o) /\ functors'[i] = functors[i + 1]
      BY <1>0, Dequeues
  <2> QED BY <1>0, <2>1, Dequeues
<1>3. /\ Queued(op) /\ 1 \in Positions(functors, op) /\ functors[1] = Head(functors)
      /\ Lone(Positions(functors, op)) => Positions(functors', op) = {}
    BY <1>0, Dequeues
<1>4. ASSUME NEW o \in {"start", "reset", "cancel", "destroy"}, NEW i \in Positions(functors', o)
      PROVE  i \in Nat /\ i > 0 /\ i + 1 \in Positions(functors, o) /\ functors'[i] = functors[i + 1]
    BY <1>0, Dequeues
<1>5. Cancels' \subseteq Cancels /\ Cancels \subseteq Cancels' \cup {Head(functors).arg} BY <1>0, CancelsOf
<1>6. Head(functors).arg \in Cancels BY <1>3 DEF Cancels, Positions
<1> QED BY <1>0, <1>1, <1>2, <1>3, <1>4, <1>5, <1>6

\* The functors for connect_destoryed when another one has run.
LEMMA DestroysStayUp ==
    ASSUME DestroysUp(pending), DestroysUp(functors), UNCHANGED <<pending, conn, connection_>>,
           \A i \in Positions(functors', "destroy") :
               i \in Nat /\ i > 0 /\ i + 1 \in Positions(functors, "destroy") /\ functors'[i] = functors[i + 1]
    PROVE  DestroysUp(pending)' /\ DestroysUp(functors)'
<1>1. DestroysUp(pending)' BY DEF DestroysUp
<1>2. ASSUME NEW i \in Positions(functors', "destroy")
      PROVE  functors'[i].arg \in Fds /\ conn'[functors'[i].arg] \in Up /\ functors'[i].arg # connection_'
    BY <1>2 DEF DestroysUp
<1>3. ASSUME NEW i \in Positions(functors', "destroy"), NEW j \in Positions(functors', "destroy"),
             functors'[i].arg = functors'[j].arg
      PROVE  i = j
  <2>1. i + 1 = j + 1 BY <1>3 DEF DestroysUp
  <2> QED BY <2>1
<1> QED BY <1>1, <1>2, <1>3 DEF DestroysUp

\* The functor of start().
LEMMA RunStartPreserves ==
    ASSUME IInv, run_start, UNCHANGED <<clientVars, history>>
    PROVE  IInv'
<1> USE LoopIsThread
<1>0. /\ TypeOK /\ CallInv /\ StopInv /\ QueueInv /\ ChannelInv /\ LoopCallInv /\ TodoInv /\ ConnInv
      /\ FailedInv /\ StuckInv /\ TokenInv
    BY DEF IInv
<1>1. /\ pc = "functors" /\ call[LoopThread] = "idle" /\ todo = <<>> /\ due = {}
    BY <1>0 DEF Runs, Idle, TodoInv, ConnInv, run_start
<1>2. /\ functors' \in Seq(Functors)
      /\ Head(functors) \in Functors
      /\ \A op \in {"start", "reset", "cancel", "destroy"} :
             /\ Positions(pending', op) = Positions(pending, op)
             /\ Lone(Positions(functors, op)) => Lone(Positions(functors', op))
             /\ Positions(functors, op) = {} => Positions(functors', op) = {}
             /\ op # "start" => (Queued(op)' <=> Queued(op))
             /\ Queued(op)' => Queued(op)
      /\ Queued("start") /\ Positions(functors, "start") # {}
      /\ Lone(Positions(functors, "start")) => Positions(functors', "start") = {}
      /\ \A i \in Positions(functors', "destroy") :
             i \in Nat /\ i > 0 /\ i + 1 \in Positions(functors, "destroy") /\ functors'[i] = functors[i + 1]
      /\ Cancels' \subseteq Cancels /\ Head(functors).arg \in Cancels
      /\ Cancels \subseteq Cancels' \cup {Head(functors).arg}
    BY <1>0, FunctorRuns DEF run_start
<1>3. DestroysUp(pending)' /\ DestroysUp(functors)'
    BY <1>0, <1>2, DestroysStayUp DEF run_start, ConnInv, clientVars
<1>4. Watching' <=> Watching BY DEF run_start, Watching
<1>5. /\ call' \in [Threads -> Steps]
      /\ call'[LoopThread] = "start_in_loop"
      /\ \A u \in Threads : u # LoopThread => call'[u] = call[u]
    BY <1>0, LoopIsThread, GotoStep DEF run_start, Steps
<1>6. Calling' = Calling \cup {LoopThread} /\ InHand' = {} /\ InHand = {} BY <1>1, <1>5 DEF Calling, InHand
<1>7. misuse = "none" => Calling = {} /\ timers = {} /\ Positions(pending', "start") = {} /\ Positions(functors', "start") = {}
                /\ ~Queued("start")' /\ ~Queued("reset")
    BY <1>0, <1>2 DEF TokenInv, OneSource, Queued
<1>8. TypeOK'
  <2>1. /\ connect_' \in BOOLEAN /\ gave_up' \in BOOLEAN /\ retry_' \in BOOLEAN /\ client_connect_' \in BOOLEAN
        /\ stopped' \in BOOLEAN /\ overtaken' \in BOOLEAN
      BY <1>0, Zenon DEF run_start, clientVars, history, TypeOK
  <2> QED
      BY <1>0, <1>1, <1>2, <1>3, <1>4, <1>5, <1>6, <1>7, <2>1 DEF run_start, clientVars, history, TypeOK, States
<1>9. CallInv' BY <1>0, <1>1, <1>5 DEF run_start, CallInv, UserSteps
<1>10. StopInv' BY <1>0, <1>5 DEF run_start, clientVars, history, StopInv
<1>11. QueueInv' BY <1>0, <1>2 DEF run_start, QueueInv
<1>12. ChannelInv' BY <1>0, <1>1, <1>2, <1>4, <1>6 DEF run_start, clientVars, ChannelInv
<1>13. LoopCallInv' BY <1>0, <1>5, <1>6 DEF LoopCallInv
<1>14. TodoInv' BY <1>0, <1>1 DEF run_start, TodoInv
<1>15. ConnInv' BY <1>0, <1>3 DEF run_start, clientVars, ConnInv
<1>16. FailedInv' BY <1>0 DEF run_start, FailedInv
<1>17. StuckInv' BY <1>0, <1>6 DEF StuckInv
<1>18. TokenInv' BY <1>0, <1>1, <1>2, <1>4, <1>6, <1>7 DEF run_start, history, TokenInv, OneSource, Lone
<1> QED BY <1>8, <1>9, <1>10, <1>11, <1>12, <1>13, <1>14, <1>15, <1>16, <1>17, <1>18 DEF IInv

\* channel_ goes after its callback.
LEMMA ResetChannelPreserves ==
    ASSUME IInv, reset_channel, UNCHANGED <<clientVars, history>>
    PROVE  IInv'
<1> USE LoopIsThread
<1>0. /\ TypeOK /\ CallInv /\ StopInv /\ QueueInv /\ ChannelInv /\ LoopCallInv /\ TodoInv /\ ConnInv
      /\ FailedInv /\ StuckInv /\ TokenInv
    BY DEF IInv
<1>1. /\ pc = "functors" /\ call[LoopThread] = "idle" /\ todo = <<>> /\ due = {}
    BY <1>0 DEF Runs, Idle, TodoInv, ConnInv, reset_channel
<1>2. /\ functors' \in Seq(Functors)
      /\ Head(functors) \in Functors
      /\ \A op \in {"start", "reset", "cancel", "destroy"} :
             /\ Positions(pending', op) = Positions(pending, op)
             /\ Lone(Positions(functors, op)) => Lone(Positions(functors', op))
             /\ Positions(functors, op) = {} => Positions(functors', op) = {}
             /\ op # "reset" => (Queued(op)' <=> Queued(op))
             /\ Queued(op)' => Queued(op)
      /\ Queued("reset") /\ Positions(functors, "reset") # {}
      /\ Lone(Positions(functors, "reset")) => Positions(functors', "reset") = {}
      /\ \A i \in Positions(functors', "destroy") :
             i \in Nat /\ i > 0 /\ i + 1 \in Positions(functors, "destroy") /\ functors'[i] = functors[i + 1]
      /\ Cancels' \subseteq Cancels /\ Head(functors).arg \in Cancels
      /\ Cancels \subseteq Cancels' \cup {Head(functors).arg}
    BY <1>0, FunctorRuns DEF reset_channel
<1>3. DestroysUp(pending)' /\ DestroysUp(functors)'
    BY <1>0, <1>2, DestroysStayUp DEF reset_channel, ConnInv, clientVars
<1>4. Watching' <=> Watching BY DEF reset_channel, Watching
<1>5. Calling' = Calling /\ InHand' = {} /\ InHand = {} BY <1>1 DEF reset_channel, Calling, InHand
<1>6. ~Watching /\ ~Queued("reset")' BY <1>0, <1>1, <1>2 DEF ChannelInv, QueueInv, Queued
<1>7. TypeOK'
  <2>1. /\ connect_' \in BOOLEAN /\ gave_up' \in BOOLEAN /\ retry_' \in BOOLEAN /\ client_connect_' \in BOOLEAN
        /\ stopped' \in BOOLEAN /\ overtaken' \in BOOLEAN
      BY <1>0, Zenon DEF reset_channel, clientVars, history, TypeOK
  <2> QED
      BY <1>0, <1>1, <1>2, <1>3, <1>4, <1>5, <1>6, <2>1 DEF reset_channel, clientVars, history, TypeOK, States
<1>8. CallInv' BY <1>0 DEF reset_channel, CallInv
<1>9. StopInv' BY <1>0 DEF reset_channel, clientVars, history, StopInv
<1>10. QueueInv' BY <1>0, <1>2 DEF reset_channel, QueueInv
<1>11. ChannelInv' BY <1>0, <1>6 DEF reset_channel, ChannelInv, Watching
<1>12. LoopCallInv' BY <1>0, <1>5 DEF reset_channel, clientVars, LoopCallInv
<1>13. TodoInv' BY <1>0, <1>6 DEF reset_channel, TodoInv
<1>14. ConnInv' BY <1>0, <1>3 DEF reset_channel, clientVars, ConnInv
<1>15. FailedInv' BY <1>0 DEF reset_channel, FailedInv
<1>16. StuckInv' BY <1>0, <1>2, <1>5 DEF reset_channel, clientVars, StuckInv
<1>17. TokenInv' BY <1>0, <1>2, <1>4, <1>5 DEF reset_channel, history, TokenInv, OneSource
<1> QED BY <1>7, <1>8, <1>9, <1>10, <1>11, <1>12, <1>13, <1>14, <1>15, <1>16, <1>17 DEF IInv

\* A cancel takes its timer out of the queue.
LEMMA RunCancelPreserves ==
    ASSUME IInv, run_cancel, UNCHANGED <<clientVars, history>>
    PROVE  IInv'
<1> USE LoopIsThread
<1>0. /\ TypeOK /\ CallInv /\ StopInv /\ QueueInv /\ ChannelInv /\ LoopCallInv /\ TodoInv /\ ConnInv
      /\ FailedInv /\ StuckInv /\ TokenInv
    BY DEF IInv
<1>1. /\ pc = "functors" /\ call[LoopThread] = "idle" /\ todo = <<>> /\ due = {}
    BY <1>0 DEF Runs, Idle, TodoInv, ConnInv, run_cancel
<1>2. /\ functors' \in Seq(Functors)
      /\ Head(functors) \in Functors
      /\ \A op \in {"start", "reset", "cancel", "destroy"} :
             /\ Positions(pending', op) = Positions(pending, op)
             /\ Lone(Positions(functors, op)) => Lone(Positions(functors', op))
             /\ Positions(functors, op) = {} => Positions(functors', op) = {}
             /\ op # "cancel" => (Queued(op)' <=> Queued(op))
             /\ Queued(op)' => Queued(op)
      /\ Queued("cancel") /\ Positions(functors, "cancel") # {}
      /\ Lone(Positions(functors, "cancel")) => Positions(functors', "cancel") = {}
      /\ \A i \in Positions(functors', "destroy") :
             i \in Nat /\ i > 0 /\ i + 1 \in Positions(functors, "destroy") /\ functors'[i] = functors[i + 1]
      /\ Cancels' \subseteq Cancels /\ Head(functors).arg \in Cancels
      /\ Cancels \subseteq Cancels' \cup {Head(functors).arg}
    BY <1>0, FunctorRuns DEF run_cancel
<1>3. DestroysUp(pending)' /\ DestroysUp(functors)'
    BY <1>0, <1>2, DestroysStayUp DEF run_cancel, ConnInv, clientVars
<1>4. Watching' <=> Watching BY DEF run_cancel, Watching
<1>5. Calling' = Calling /\ InHand' = {} /\ InHand = {} BY <1>1 DEF run_cancel, Calling, InHand
<1>6. TypeOK'
  <2>1. /\ connect_' \in BOOLEAN /\ gave_up' \in BOOLEAN /\ retry_' \in BOOLEAN /\ client_connect_' \in BOOLEAN
        /\ stopped' \in BOOLEAN /\ overtaken' \in BOOLEAN
      BY <1>0, Zenon DEF run_cancel, clientVars, history, TypeOK
  <2> QED BY <1>0, <1>1, <1>2, <1>3, <1>4, <1>5, <2>1 DEF run_cancel, clientVars, history, TypeOK, States
<1>7. CallInv' BY <1>0 DEF run_cancel, CallInv
<1>8. StopInv' BY <1>0 DEF run_cancel, clientVars, history, StopInv
<1>9. QueueInv' BY <1>0, <1>2 DEF run_cancel, QueueInv
<1>10. ChannelInv' BY <1>0, <1>2, <1>4, <1>5 DEF run_cancel, clientVars, ChannelInv
<1>11. LoopCallInv' BY <1>0, <1>5 DEF run_cancel, clientVars, LoopCallInv
<1>12. TodoInv' BY <1>0, <1>4 DEF run_cancel, TodoInv
<1>13. ConnInv' BY <1>0, <1>3 DEF run_cancel, clientVars, ConnInv
<1>14. FailedInv' BY <1>0 DEF run_cancel, FailedInv
<1>15. StuckInv' BY <1>0, <1>2, <1>5 DEF run_cancel, clientVars, StuckInv
<1>16. TokenInv' BY <1>0, <1>1, <1>2, <1>4, <1>5 DEF run_cancel, history, TokenInv, OneSource, Lone
<1> QED BY <1>6, <1>7, <1>8, <1>9, <1>10, <1>11, <1>12, <1>13, <1>14, <1>15, <1>16 DEF IInv

-----------------------------------------------------------------------------
(* The connection *)

\* new_connection: the descriptor that handle_write handed over is in nobody else's hands.
LEMMA NewConnectionMade ==
    ASSUME IInv, At(LoopThread, "new_connection"), Goto(LoopThread, "idle"), sock_fd' = None,
           conn' = [conn EXCEPT ![sock_fd] = "Connected"], connection_' = sock_fd,
           enabled' = enabled \cup {sock_fd}, registered' = registered \cup {<<"connection", sock_fd>>},
           UNCHANGED gave_up,
           UNCHANGED <<connect_, state_, channel_, timer_id_, loopVars, sock, retry_, client_connect_, calls, history>>
    PROVE  IInv'
<1> USE LoopIsThread
<1>0. /\ TypeOK /\ CallInv /\ StopInv /\ QueueInv /\ ChannelInv /\ LoopCallInv /\ TodoInv /\ ConnInv
      /\ FailedInv /\ StuckInv /\ TokenInv
    BY DEF IInv
<1>1. call[LoopThread] = "new_connection" /\ pc # "aborted" /\ pc # "poll" BY <1>0 DEF At, CallInv
<1>2. /\ InHand = {sock_fd} /\ sock_fd \in Fds /\ sock[sock_fd] # "free" /\ conn[sock_fd] = "none"
      /\ state_ = "Connected" /\ connection_ = None /\ ~Watching
    BY <1>0, <1>1 DEF InHand, LoopCallInv, ChannelInv
<1>3. /\ Watching' <=> Watching
      /\ \A op \in {"start", "reset", "cancel", "destroy"} :
             /\ Positions(pending', op) = Positions(pending, op)
             /\ Positions(functors', op) = Positions(functors, op)
             /\ Queued(op)' <=> Queued(op)
      /\ Cancels' = Cancels
    BY <1>0 DEF loopVars, Watching, Queued, Cancels, TypeOK
<1>4. /\ call' \in [Threads -> Steps]
      /\ call'[LoopThread] = "idle"
      /\ \A u \in Threads : u # LoopThread => call'[u] = call[u]
    BY <1>0, LoopIsThread, GotoStep DEF Steps
<1>5. Calling' = Calling /\ InHand' = {} BY <1>1, <1>4 DEF Calling, InHand
<1>6. /\ conn' \in [Fds -> ConnStates] /\ conn'[sock_fd] = "Connected"
      /\ \A f \in Fds : f # sock_fd => conn'[f] = conn[f]
    BY <1>0, <1>2 DEF TypeOK, ConnStates
<1>7. enabled = {} /\ due \cap Fds = {} BY <1>0, <1>2, ConnectorAssumption DEF ConnInv, TypeOK
<1>8. \A f \in Fds : <<"connector", f>> \notin registered /\ <<"connector", f>> \notin registered'
    BY <1>2, <1>3 DEF Watching
<1>9. TypeOK'
  <2>1. /\ connect_' \in BOOLEAN /\ gave_up' \in BOOLEAN /\ retry_' \in BOOLEAN /\ client_connect_' \in BOOLEAN
        /\ stopped' \in BOOLEAN /\ overtaken' \in BOOLEAN
      BY <1>0, Zenon DEF loopVars, history, TypeOK, clientVars
  <2> QED BY <1>0, <1>1, <1>2, <1>3, <1>4, <1>5, <1>6, <1>7, <1>8, <2>1 DEF loopVars, history, TypeOK, States
<1>10. CallInv' BY <1>0, <1>4 DEF CallInv, UserSteps
<1>11. StopInv' BY <1>0, <1>4 DEF history, StopInv
<1>12. QueueInv' BY <1>0 DEF loopVars, QueueInv
<1>13. ChannelInv' BY <1>0, <1>2, <1>3 DEF loopVars, ChannelInv
<1>14. LoopCallInv' BY <1>0, <1>4, <1>5 DEF LoopCallInv
<1>15. TodoInv' BY <1>0, <1>1, <1>3 DEF loopVars, TodoInv
<1>16. ConnInv' BY <1>0, <1>2, <1>6, <1>7 DEF loopVars, ConnInv, DestroysUp, Up
<1>17. FailedInv' BY <1>0 DEF loopVars, FailedInv
<1>18. StuckInv' BY <1>0, <1>3, <1>5 DEF loopVars, StuckInv
<1>19. TokenInv' BY <1>0, <1>1, <1>3, <1>4, <1>5 DEF loopVars, history, TokenInv, OneSource
<1> QED BY <1>9, <1>10, <1>11, <1>12, <1>13, <1>14, <1>15, <1>16, <1>17, <1>18, <1>19 DEF IInv

\* The test poll fails: the descriptor stays open.
LEMMA NewConnectionFails ==
    ASSUME IInv, At(LoopThread, "new_connection"), Goto(LoopThread, "idle"), sock_fd' = None,
           gave_up' = TRUE, UNCHANGED <<conn, connection_, enabled, registered>>,
           UNCHANGED <<connect_, state_, channel_, timer_id_, loopVars, sock, retry_, client_connect_, calls, history>>
    PROVE  IInv'
<1> USE LoopIsThread
<1>0. /\ TypeOK /\ CallInv /\ StopInv /\ QueueInv /\ ChannelInv /\ LoopCallInv /\ TodoInv /\ ConnInv
      /\ FailedInv /\ StuckInv /\ TokenInv
    BY DEF IInv
<1>1. call[LoopThread] = "new_connection" /\ pc # "aborted" /\ pc # "poll" BY <1>0 DEF At, CallInv
<1>2. /\ InHand = {sock_fd} /\ sock_fd \in Fds /\ sock[sock_fd] # "free" /\ conn[sock_fd] = "none"
      /\ state_ = "Connected" /\ connection_ = None /\ ~Watching
    BY <1>0, <1>1 DEF InHand, LoopCallInv, ChannelInv
<1>3. /\ Watching' <=> Watching
      /\ \A op \in {"start", "reset", "cancel", "destroy"} :
             /\ Positions(pending', op) = Positions(pending, op)
             /\ Positions(functors', op) = Positions(functors, op)
             /\ Queued(op)' <=> Queued(op)
      /\ Cancels' = Cancels
    BY <1>0 DEF loopVars, Watching, Queued, Cancels, TypeOK
<1>4. /\ call' \in [Threads -> Steps]
      /\ call'[LoopThread] = "idle"
      /\ \A u \in Threads : u # LoopThread => call'[u] = call[u]
    BY <1>0, LoopIsThread, GotoStep DEF Steps
<1>5. Calling' = Calling /\ InHand' = {} BY <1>1, <1>4 DEF Calling, InHand
<1>6. TypeOK'
  <2>1. /\ connect_' \in BOOLEAN /\ gave_up' \in BOOLEAN /\ retry_' \in BOOLEAN /\ client_connect_' \in BOOLEAN
        /\ stopped' \in BOOLEAN /\ overtaken' \in BOOLEAN
      BY <1>0, Zenon DEF loopVars, history, TypeOK, clientVars
  <2> QED BY <1>0, <1>1, <1>2, <1>3, <1>4, <1>5, <2>1 DEF loopVars, history, TypeOK, States
<1>7. CallInv' BY <1>0, <1>4 DEF CallInv, UserSteps
<1>8. StopInv' BY <1>0, <1>4 DEF history, StopInv
<1>9. QueueInv' BY <1>0 DEF loopVars, QueueInv
<1>10. ChannelInv' BY <1>0, <1>2, <1>3 DEF loopVars, ChannelInv
<1>11. LoopCallInv' BY <1>0, <1>4, <1>5 DEF LoopCallInv
<1>12. TodoInv' BY <1>0, <1>1, <1>3 DEF loopVars, TodoInv
<1>13. ConnInv' BY <1>0 DEF loopVars, ConnInv, DestroysUp
<1>14. FailedInv' BY <1>0 DEF loopVars, FailedInv
<1>15. StuckInv' BY <1>0 DEF StuckInv
<1>16. TokenInv' BY <1>0, <1>1, <1>3, <1>4, <1>5 DEF loopVars, history, TokenInv, OneSource
<1> QED BY <1>6, <1>7, <1>8, <1>9, <1>10, <1>11, <1>12, <1>13, <1>14, <1>15, <1>16 DEF IInv

\* restart: a connection is lost only when nothing is left of the attempt that made it.
LEMMA RestartPreserves ==
    ASSUME IInv, restart
    PROVE  IInv'
<1> USE LoopIsThread
<1>0. /\ TypeOK /\ CallInv /\ StopInv /\ QueueInv /\ ChannelInv /\ LoopCallInv /\ TodoInv /\ ConnInv
      /\ FailedInv /\ StuckInv /\ TokenInv
    BY DEF IInv
<1>1. call[LoopThread] = "restart" /\ pc # "aborted" /\ pc # "poll" BY <1>0 DEF restart, At, CallInv
<1>2. /\ Watching' <=> Watching
      /\ \A op \in {"start", "reset", "cancel", "destroy"} :
             /\ Positions(pending', op) = Positions(pending, op)
             /\ Positions(functors', op) = Positions(functors, op)
             /\ Queued(op)' <=> Queued(op)
      /\ Cancels' = Cancels
    BY DEF restart, loopVars, Watching, Queued, Cancels
<1>3. /\ call' \in [Threads -> Steps]
      /\ call'[LoopThread] = "start_in_loop"
      /\ \A u \in Threads : u # LoopThread => call'[u] = call[u]
    BY <1>0, LoopIsThread, GotoStep DEF restart, Steps
<1>4. /\ state_ = "Connected" /\ connection_ = None /\ channel_ = None /\ ~Watching /\ todo = <<>> /\ ~Queued("reset")
    BY <1>0, <1>1 DEF LoopCallInv, ChannelInv, Watching, TodoInv
<1>5. Calling' = Calling \cup {LoopThread} /\ InHand' = {} BY <1>1, <1>3 DEF Calling, InHand
<1>6. misuse = "none" => Calling = {} /\ timers = {} /\ ~Queued("start") BY <1>0, <1>1, <1>4 DEF TokenInv
<1>7. TypeOK'
  <2>1. /\ connect_' \in BOOLEAN /\ gave_up' \in BOOLEAN /\ retry_' \in BOOLEAN /\ client_connect_' \in BOOLEAN
        /\ stopped' \in BOOLEAN /\ overtaken' \in BOOLEAN
      BY <1>0, Zenon DEF restart, loopVars, clientVars, history, TypeOK
  <2> QED
      BY <1>0, <1>1, <1>2, <1>3, <1>4, <1>5, <1>6, <2>1
      DEF restart, loopVars, clientVars, history, TypeOK, States
<1>8. CallInv' BY <1>0, <1>1, <1>3 DEF restart, loopVars, CallInv, UserSteps
<1>9. StopInv' BY <1>0, <1>3, <1>4 DEF restart, clientVars, history, StopInv
<1>10. QueueInv' BY <1>0 DEF restart, loopVars, QueueInv
<1>11. ChannelInv' BY <1>0, <1>2, <1>4 DEF restart, ChannelInv
<1>12. LoopCallInv' BY <1>0, <1>3, <1>5 DEF LoopCallInv
<1>13. TodoInv' BY <1>0, <1>4 DEF restart, loopVars, TodoInv
<1>14. ConnInv' BY <1>0, <1>4 DEF restart, loopVars, clientVars, ConnInv, DestroysUp
<1>15. FailedInv' BY <1>0 DEF restart, loopVars, FailedInv
<1>16. StuckInv' BY <1>0, <1>5 DEF StuckInv
<1>17. TokenInv' BY <1>0, <1>2, <1>4, <1>5, <1>6 DEF restart, loopVars, history, TokenInv, OneSource, Lone
<1> QED BY <1>7, <1>8, <1>9, <1>10, <1>11, <1>12, <1>13, <1>14, <1>15, <1>16, <1>17 DEF IInv

\* remove_connection: its assertions hold, connect_destoryed is queued and Connector::restart() may come next.
LEMMA RemoveConnectionPreserves ==
    ASSUME IInv, NEW f \in Fds, remove_connection(f)
    PROVE  IInv'
<1> USE LoopIsThread
<1>0. /\ TypeOK /\ CallInv /\ StopInv /\ QueueInv /\ ChannelInv /\ LoopCallInv /\ TodoInv /\ ConnInv
      /\ FailedInv /\ StuckInv /\ TokenInv
    BY DEF IInv
<1>1. /\ pc = "events" /\ call[LoopThread] = "idle" /\ (todo # <<>> => Watching) /\ f \in due
      /\ connection_ = f /\ f # None /\ conn[f] \in Up /\ state_ = "Connected" /\ channel_ = None /\ ~Watching
  <2>1. pc = "events" /\ call[LoopThread] = "idle" /\ (todo # <<>> => Watching) /\ f \in due
      BY <1>0, WatchesChannel DEF remove_connection, Idle, MidEvent
  <2>2. connection_ = f /\ f # None /\ conn[f] \in Up /\ state_ = "Connected" /\ channel_ = None
      BY <1>0, <2>1, ConnectorAssumption DEF ConnInv
  <2> QED BY <1>0, <2>1, <2>2 DEF ChannelInv, Watching
<1>2. /\ connection_' = None /\ pending' = Append(pending, Functor("destroy", f)) /\ UNCHANGED <<pc, failed>>
      /\ Goto(LoopThread, IF Reconnects THEN "restart" ELSE "idle")
    BY <1>1 DEF remove_connection, Up
<1>3. /\ call' \in [Threads -> Steps]
      /\ call'[LoopThread] = (IF Reconnects THEN "restart" ELSE "idle")
      /\ \A u \in Threads : u # LoopThread => call'[u] = call[u]
    BY <1>0, <1>2, GotoStep DEF Steps
<1>4. /\ pending' \in Seq(Functors)
      /\ \A op \in {"start", "reset", "cancel", "destroy"} \ {"destroy"} :
             Positions(pending', op) = Positions(pending, op) /\ (Queued(op)' <=> Queued(op))
      /\ Positions(pending', "destroy") = Positions(pending, "destroy") \cup {Len(pending) + 1}
      /\ Queued("destroy")'
      /\ \A op \in {"start", "reset", "cancel", "destroy"} :
             /\ Positions(functors', op) = Positions(functors, op)
             /\ \A i \in Positions(pending, op) : pending'[i] = pending[i]
      /\ Cancels' = Cancels \cup {f}
  <2>1. /\ Functor("destroy", f) \in Functors
        /\ Functor("destroy", f).op = "destroy" /\ Functor("destroy", f).arg = f
      BY <1>0 DEF Functor, Functors, TypeOK
  <2>2. pending' = Append(pending, Functor("destroy", f)) /\ functors' = functors
      BY <1>2 DEF remove_connection
  <2> HIDE DEF Functor
  <2> QED BY <1>0, <2>1, <2>2, Enqueues
<1>5. pending'[Len(pending) + 1].arg = f /\ Len(pending) + 1 \notin Positions(pending, "destroy")
      /\ None \notin Fds
    BY <1>0, <1>2, ConnectorAssumption DEF TypeOK, Functor, Positions
<1>6. DestroysUp(pending)' /\ DestroysUp(functors)'
  <2>1. DestroysUp(functors)' BY <1>0, <1>1, <1>2, <1>5 DEF remove_connection, ConnInv, DestroysUp
  <2>2. \A i \in Positions(pending, "destroy") :
            pending'[i] = pending[i] /\ pending[i].arg \in Fds /\ conn[pending[i].arg] \in Up /\ pending[i].arg # f
      BY <1>0, <1>1, <1>4 DEF ConnInv, DestroysUp
  <2>3. \A i \in Positions(pending', "destroy") :
            i \in Positions(pending, "destroy") \/ (i = Len(pending) + 1 /\ pending'[i].arg = f)
      BY <1>4, <1>5
  <2>4. conn' = conn /\ connection_' = None /\ \A g \in Fds : g # None BY <1>2, <1>5 DEF remove_connection
  <2>5. ASSUME NEW i \in Positions(pending', "destroy")
        PROVE  pending'[i].arg \in Fds /\ conn'[pending'[i].arg] \in Up /\ pending'[i].arg # connection_'
      BY <1>1, <2>2, <2>3, <2>4
  <2>6. ASSUME NEW i \in Positions(pending', "destroy"), NEW j \in Positions(pending', "destroy"),
               pending'[i].arg = pending'[j].arg
        PROVE  i = j
    <3>1. CASE i \in Positions(pending, "destroy") /\ j \in Positions(pending, "destroy")
        BY <1>0, <2>2, <2>6, <3>1 DEF ConnInv, DestroysUp
    <3> QED BY <2>2, <2>3, <2>6, <3>1
  <2> QED BY <2>1, <2>5, <2>6 DEF DestroysUp
<1>7. /\ Watching' <=> Watching
      /\ Calling' = Calling /\ InHand' = {} BY <1>1, <1>3 DEF remove_connection, Watching, Calling, InHand
<1>8. TypeOK'
  <2>1. /\ connect_' \in BOOLEAN /\ gave_up' \in BOOLEAN /\ retry_' \in BOOLEAN /\ client_connect_' \in BOOLEAN
        /\ stopped' \in BOOLEAN /\ overtaken' \in BOOLEAN
      BY <1>0, Zenon DEF remove_connection, clientVars, history, TypeOK
  <2> QED
      BY <1>0, <1>1, <1>2, <1>3, <1>4, <1>5, <1>6, <1>7, <2>1
      DEF remove_connection, clientVars, history, TypeOK, States
<1>9. CallInv' BY <1>0, <1>1, <1>3 DEF remove_connection, CallInv, UserSteps
<1>10. StopInv' BY <1>0, <1>3 DEF remove_connection, history, StopInv, Reconnects
<1>11. QueueInv' BY <1>0, <1>1, <1>4, <1>5 DEF remove_connection, QueueInv
<1>12. ChannelInv' BY <1>0, <1>1, <1>4, <1>7 DEF remove_connection, ChannelInv
<1>13. LoopCallInv' BY <1>0, <1>1, <1>3, <1>7 DEF remove_connection, LoopCallInv
<1>14. TodoInv' BY <1>0, <1>1 DEF remove_connection, TodoInv
<1>15. ConnInv' BY <1>0, <1>4, <1>5, <1>6 DEF remove_connection, ConnInv
<1>16. FailedInv' BY <1>0, <1>4, <1>5 DEF remove_connection, FailedInv
<1>17. StuckInv' BY <1>0, <1>1 DEF remove_connection, StuckInv
<1>18. TokenInv' BY <1>0, <1>1, <1>3, <1>4, <1>5, <1>7 DEF remove_connection, history, TokenInv, OneSource
<1> QED BY <1>8, <1>9, <1>10, <1>11, <1>12, <1>13, <1>14, <1>15, <1>16, <1>17, <1>18 DEF IInv

\* connect_destoryed: its assertion holds, the connection goes down once.
LEMMA ConnectDestroyedPreserves ==
    ASSUME IInv, connect_destoryed
    PROVE  IInv'
<1> USE LoopIsThread
<1>0. /\ TypeOK /\ CallInv /\ StopInv /\ QueueInv /\ ChannelInv /\ LoopCallInv /\ TodoInv /\ ConnInv
      /\ FailedInv /\ StuckInv /\ TokenInv
    BY DEF IInv
<1>1. /\ pc = "functors" /\ call[LoopThread] = "idle" /\ todo = <<>> /\ due = {}
    BY <1>0 DEF Runs, Idle, TodoInv, ConnInv, connect_destoryed
<1>2. /\ functors' \in Seq(Functors)
      /\ Head(functors) \in Functors
      /\ \A op \in {"start", "reset", "cancel", "destroy"} :
             /\ Positions(pending', op) = Positions(pending, op)
             /\ Lone(Positions(functors, op)) => Lone(Positions(functors', op))
             /\ Positions(functors, op) = {} => Positions(functors', op) = {}
             /\ op # "destroy" => (Queued(op)' <=> Queued(op))
             /\ Queued(op)' => Queued(op)
      /\ Queued("destroy") /\ Positions(functors, "destroy") # {}
      /\ Lone(Positions(functors, "destroy")) => Positions(functors', "destroy") = {}
      /\ \A i \in Positions(functors', "destroy") :
             i \in Nat /\ i > 0 /\ i + 1 \in Positions(functors, "destroy") /\ functors'[i] = functors[i + 1]
      /\ Cancels' \subseteq Cancels /\ Head(functors).arg \in Cancels
      /\ Cancels \subseteq Cancels' \cup {Head(functors).arg}
    BY <1>0, FunctorRuns DEF connect_destoryed
<1>3. PICK f \in Fds : f = Head(functors).arg /\ conn[f] \in Up /\ f # connection_ /\ sock[f] # "free"
                       /\ \A i \in Positions(functors', "destroy") : functors'[i].arg # f
  <2>1. 1 \in Positions(functors, "destroy") /\ functors[1] = Head(functors)
      BY <1>0, FunctorRuns DEF connect_destoryed
  <2>2. /\ Head(functors).arg \in Fds /\ conn[Head(functors).arg] \in Up /\ Head(functors).arg # connection_
      BY <1>0, <2>1 DEF ConnInv, DestroysUp
  <2>3. ASSUME NEW i \in Positions(functors', "destroy"), functors'[i].arg = Head(functors).arg PROVE FALSE
    <3>1. i + 1 = 1 BY <1>0, <1>2, <2>1, <2>3 DEF ConnInv, DestroysUp
    <3> QED BY <1>2, <3>1
  <2>4. sock[Head(functors).arg] # "free" BY <1>0, <2>2 DEF ConnInv, Up
  <2> QED BY <2>2, <2>3, <2>4
<1>4. /\ conn' = [conn EXCEPT ![f] = "Disconnected"] /\ enabled' = enabled \ {f}
      /\ registered' = registered \ {<<"connection", f>>} /\ UNCHANGED <<pc, failed>>
    BY <1>3 DEF connect_destoryed, Up
<1>5. /\ conn' \in [Fds -> ConnStates] /\ conn'[f] = "Disconnected"
      /\ \A g \in Fds : g # f => conn'[g] = conn[g]
    BY <1>0, <1>4 DEF TypeOK, ConnStates
<1>6. DestroysUp(pending)' /\ DestroysUp(functors)'
  <2>1. Positions(pending', "destroy") = {} BY <1>0, <1>1, <1>2 DEF QueueInv
  <2>2. ASSUME NEW i \in Positions(functors', "destroy")
        PROVE  functors'[i].arg \in Fds /\ conn'[functors'[i].arg] \in Up /\ functors'[i].arg # connection_'
    <3>1. functors'[i].arg \in Fds /\ conn[functors'[i].arg] \in Up /\ functors'[i].arg # connection_
        BY <1>0, <1>2 DEF ConnInv, DestroysUp
    <3>2. connection_' = connection_ BY DEF connect_destoryed
    <3> QED BY <1>3, <1>5, <3>1, <3>2
  <2>3. ASSUME NEW i \in Positions(functors', "destroy"), NEW j \in Positions(functors', "destroy"),
               functors'[i].arg = functors'[j].arg
        PROVE  i = j
    <3>1. i + 1 = j + 1 BY <1>0, <1>2, <2>3 DEF ConnInv, DestroysUp
    <3> QED BY <1>2, <3>1
  <2> QED BY <2>1, <2>2, <2>3 DEF DestroysUp
<1>7. /\ Watching' <=> Watching
      /\ Calling' = Calling /\ InHand' = {} /\ InHand = {}
    BY <1>1, <1>4 DEF connect_destoryed, Watching, Calling, InHand
<1>8. TypeOK'
  <2>1. /\ connect_' \in BOOLEAN /\ gave_up' \in BOOLEAN /\ retry_' \in BOOLEAN /\ client_connect_' \in BOOLEAN
        /\ stopped' \in BOOLEAN /\ overtaken' \in BOOLEAN
      BY <1>0, Zenon DEF connect_destoryed, history, TypeOK, clientVars
  <2> QED
      BY <1>0, <1>1, <1>2, <1>3, <1>4, <1>5, <1>6, <1>7, <2>1 DEF connect_destoryed, history, TypeOK, States
<1>9. CallInv' BY <1>0, <1>4 DEF connect_destoryed, CallInv
<1>10. StopInv' BY <1>0 DEF connect_destoryed, history, StopInv
<1>11. QueueInv' BY <1>0, <1>2, <1>4 DEF connect_destoryed, QueueInv
<1>12. ChannelInv' BY <1>0, <1>2, <1>4, <1>7 DEF connect_destoryed, ChannelInv
<1>13. LoopCallInv' BY <1>0, <1>7 DEF connect_destoryed, LoopCallInv
<1>14. TodoInv' BY <1>0, <1>4, <1>7 DEF connect_destoryed, TodoInv
<1>15. ConnInv' BY <1>0, <1>3, <1>4, <1>6 DEF connect_destoryed, ConnInv
<1>16. FailedInv' BY <1>0, <1>4 DEF FailedInv
<1>17. StuckInv' BY <1>0, <1>2, <1>4, <1>7 DEF connect_destoryed, StuckInv
<1>18. TokenInv' BY <1>0, <1>2, <1>4, <1>7 DEF connect_destoryed, history, TokenInv, OneSource
<1> QED BY <1>8, <1>9, <1>10, <1>11, <1>12, <1>13, <1>14, <1>15, <1>16, <1>17, <1>18 DEF IInv

\* With the batch the last pointers to its connections go: their descriptors are nobody's.
LEMMA PendingDonePreserves ==
    ASSUME IInv, pending_done
    PROVE  IInv'
<1> USE LoopIsThread
<1>0. /\ TypeOK /\ CallInv /\ StopInv /\ QueueInv /\ ChannelInv /\ LoopCallInv /\ TodoInv /\ ConnInv
      /\ FailedInv /\ StuckInv /\ TokenInv
    BY DEF IInv
<1>1. /\ pc = "functors" /\ call[LoopThread] = "idle" /\ todo = <<>> /\ due = {} /\ functors = <<>> /\ pc' = "poll"
    BY <1>0 DEF pending_done, Idle, TodoInv, ConnInv
<1>2. /\ Watching' <=> Watching
      /\ \A op \in {"start", "reset", "cancel", "destroy"} :
             /\ Positions(pending', op) = Positions(pending, op)
             /\ Positions(functors', op) = Positions(functors, op)
             /\ Queued(op)' <=> Queued(op)
      /\ Cancels' = Cancels
    BY DEF pending_done, loopVars, Watching, Queued, Cancels
<1>3. /\ sock' \in [Fds -> SockStates] /\ conn' \in [Fds -> ConnStates]
      /\ \A f \in Fds : /\ conn[f] # "Disconnected" => conn'[f] = conn[f] /\ sock'[f] = sock[f]
                        /\ conn'[f] # "Disconnected"
                        /\ conn[f] = "Disconnected" => conn'[f] = "none"
    BY <1>0 DEF pending_done, TypeOK, SockStates, ConnStates
<1>4. Calling' = Calling /\ InHand' = {} /\ InHand = {} BY <1>1 DEF pending_done, Calling, InHand
<1>5. \A op \in {"reset", "destroy"} : Positions(pending, op) = {} /\ Positions(functors, op) = {} /\ ~Queued(op)
    BY <1>0, <1>1 DEF QueueInv, Queued, Positions
<1>6. TypeOK'
  <2>1. /\ connect_' \in BOOLEAN /\ gave_up' \in BOOLEAN /\ retry_' \in BOOLEAN /\ client_connect_' \in BOOLEAN
        /\ stopped' \in BOOLEAN /\ overtaken' \in BOOLEAN
      BY <1>0, Zenon DEF pending_done, history, TypeOK, clientVars
  <2> QED BY <1>0, <1>1, <1>2, <1>3, <1>4, <1>5, <2>1 DEF pending_done, history, TypeOK, States
<1>7. CallInv' BY <1>0, <1>1 DEF pending_done, CallInv
<1>8. StopInv' BY <1>0 DEF pending_done, history, StopInv
<1>9. QueueInv' BY <1>0, <1>5 DEF pending_done, QueueInv
<1>10. ChannelInv' BY <1>0, <1>1, <1>2, <1>4 DEF pending_done, ChannelInv
<1>11. LoopCallInv' BY <1>0, <1>4 DEF pending_done, LoopCallInv
<1>12. TodoInv' BY <1>0, <1>1 DEF pending_done, TodoInv
<1>13. ConnInv' BY <1>0 DEF pending_done, ConnInv, DestroysUp, Up, TypeOK
<1>14. FailedInv' BY <1>0, <1>1 DEF pending_done, FailedInv
<1>15. StuckInv' BY <1>0, <1>1, <1>2, <1>4 DEF pending_done, StuckInv
<1>16. TokenInv' BY <1>0, <1>1, <1>2, <1>4 DEF pending_done, history, TokenInv, OneSource
<1> QED BY <1>6, <1>7, <1>8, <1>9, <1>10, <1>11, <1>12, <1>13, <1>14, <1>15, <1>16 DEF IInv

-----------------------------------------------------------------------------
(* The kernel *)

\* The outcome of a connect.
LEMMA ResolvePreserves ==
    ASSUME IInv, NEW f \in Fds, Resolve(f), UNCHANGED <<clientVars, history>>
    PROVE  IInv'
<1> USE LoopIsThread
<1>0. /\ TypeOK /\ CallInv /\ StopInv /\ QueueInv /\ ChannelInv /\ LoopCallInv /\ TodoInv /\ ConnInv
      /\ FailedInv /\ StuckInv /\ TokenInv
    BY DEF IInv
<1>1. /\ Watching' <=> Watching
      /\ \A op \in {"start", "reset", "cancel", "destroy"} :
             /\ Positions(pending', op) = Positions(pending, op)
             /\ Positions(functors', op) = Positions(functors, op)
             /\ Queued(op)' <=> Queued(op)
      /\ Cancels' = Cancels
    BY DEF Resolve, loopVars, Watching, Queued, Cancels
<1>2. /\ sock' \in [Fds -> SockStates] /\ sock[f] = "connecting" /\ sock'[f] # "free"
      /\ \A g \in Fds : g # f => sock'[g] = sock[g]
    BY <1>0 DEF Resolve, TypeOK, SockStates
<1>3. Calling' = Calling /\ InHand' = InHand BY DEF Resolve, Calling, InHand
<1>4. TypeOK'
  <2>1. /\ connect_' \in BOOLEAN /\ gave_up' \in BOOLEAN /\ retry_' \in BOOLEAN /\ client_connect_' \in BOOLEAN
        /\ stopped' \in BOOLEAN /\ overtaken' \in BOOLEAN
      BY <1>0, Zenon DEF Resolve, loopVars, clientVars, history, TypeOK
  <2> QED BY <1>0, <1>1, <1>2, <1>3, <2>1 DEF Resolve, loopVars, clientVars, history, TypeOK, States
<1>5. CallInv' BY <1>0 DEF Resolve, loopVars, CallInv
<1>6. StopInv' BY <1>0 DEF Resolve, clientVars, history, StopInv
<1>7. QueueInv' BY <1>0 DEF Resolve, loopVars, QueueInv
<1>8. ChannelInv' BY <1>0, <1>1, <1>3 DEF Resolve, loopVars, clientVars, ChannelInv
<1>9. LoopCallInv' BY <1>0, <1>3 DEF Resolve, clientVars, LoopCallInv
<1>10. TodoInv' BY <1>0, <1>1 DEF Resolve, loopVars, TodoInv
<1>11. ConnInv' BY <1>0 DEF Resolve, loopVars, clientVars, ConnInv, DestroysUp
<1>12. FailedInv' BY <1>0 DEF Resolve, loopVars, FailedInv
<1>13. StuckInv' BY <1>0, <1>1, <1>3 DEF Resolve, loopVars, clientVars, StuckInv
<1>14. TokenInv' BY <1>0, <1>1, <1>3 DEF Resolve, loopVars, history, TokenInv, OneSource
<1> QED BY <1>4, <1>5, <1>6, <1>7, <1>8, <1>9, <1>10, <1>11, <1>12, <1>13, <1>14 DEF IInv

\* A timer comes due while the loop polls, with nothing left of the last round.
LEMMA ExpirePreserves ==
    ASSUME IInv, NEW id \in Timers, Expire(id), UNCHANGED <<clientVars, history>>
    PROVE  IInv'
<1> USE LoopIsThread
<1>0. /\ TypeOK /\ CallInv /\ StopInv /\ QueueInv /\ ChannelInv /\ LoopCallInv /\ TodoInv /\ ConnInv
      /\ FailedInv /\ StuckInv /\ TokenInv
    BY DEF IInv
<1>1. /\ pc = "poll" /\ todo = <<>> /\ functors = <<>> /\ due' = due \cup {id} /\ id \in timers /\ id \notin Fds
    BY <1>0, ConnectorAssumption DEF Expire, TodoInv, QueueInv
<1>2. /\ Watching' <=> Watching
      /\ \A op \in {"start", "reset", "cancel", "destroy"} :
             /\ Positions(pending', op) = Positions(pending, op)
             /\ Positions(functors', op) = Positions(functors, op)
             /\ Queued(op)' <=> Queued(op)
      /\ Cancels' = Cancels
    BY DEF Expire, loopVars, Watching, Queued, Cancels
<1>3. ~Queued("reset") BY <1>0, <1>1 DEF QueueInv, Queued, Positions
<1>4. Calling' = Calling /\ InHand' = InHand BY DEF Expire, Calling, InHand
<1>5. TypeOK'
  <2>1. /\ connect_' \in BOOLEAN /\ gave_up' \in BOOLEAN /\ retry_' \in BOOLEAN /\ client_connect_' \in BOOLEAN
        /\ stopped' \in BOOLEAN /\ overtaken' \in BOOLEAN
      BY <1>0, Zenon DEF Expire, clientVars, history, TypeOK
  <2> QED BY <1>0, <1>1, <1>2, <1>3, <1>4, <2>1 DEF Expire, clientVars, history, TypeOK, States
<1>6. CallInv' BY <1>0 DEF Expire, CallInv
<1>7. StopInv' BY <1>0 DEF Expire, clientVars, history, StopInv
<1>8. QueueInv' BY <1>0 DEF Expire, QueueInv
<1>9. ChannelInv' BY <1>0, <1>2, <1>4 DEF Expire, clientVars, ChannelInv
<1>10. LoopCallInv' BY <1>0, <1>4 DEF Expire, clientVars, LoopCallInv
<1>11. TodoInv' BY <1>0 DEF Expire, TodoInv
<1>12. ConnInv' BY <1>0, <1>1 DEF Expire, clientVars, ConnInv, DestroysUp
<1>13. FailedInv' BY <1>0 DEF Expire, FailedInv
<1>14. StuckInv' BY <1>0, <1>2, <1>4 DEF Expire, clientVars, StuckInv
<1>15. TokenInv' BY <1>0, <1>1, <1>2, <1>3, <1>4 DEF Expire, history, TokenInv, OneSource
<1> QED BY <1>5, <1>6, <1>7, <1>8, <1>9, <1>10, <1>11, <1>12, <1>13, <1>14, <1>15 DEF IInv

\* The peer's close is reported when channel_ has been reset.
LEMMA PeerClosesPreserves ==
    ASSUME IInv, NEW f \in Fds, PeerCloses(f)
    PROVE  IInv'
<1> USE LoopIsThread
<1>0. /\ TypeOK /\ CallInv /\ StopInv /\ QueueInv /\ ChannelInv /\ LoopCallInv /\ TodoInv /\ ConnInv
      /\ FailedInv /\ StuckInv /\ TokenInv
    BY DEF IInv
<1>1. /\ pc = "poll" /\ todo = <<>> /\ functors = <<>> /\ due' = due \cup {f} /\ f \in enabled /\ f \notin Timers
      /\ state_ = "Connected"
    BY <1>0, ConnectorAssumption DEF PeerCloses, TodoInv, QueueInv, ConnInv, TypeOK
<1>2. /\ Watching' <=> Watching
      /\ \A op \in {"start", "reset", "cancel", "destroy"} :
             /\ Positions(pending', op) = Positions(pending, op)
             /\ Positions(functors', op) = Positions(functors, op)
             /\ Queued(op)' <=> Queued(op)
      /\ Cancels' = Cancels
    BY DEF PeerCloses, loopVars, Watching, Queued, Cancels
<1>3. ~Queued("reset") BY <1>0, <1>1 DEF QueueInv, Queued, Positions
<1>4. channel_ = None BY <1>0, <1>1, <1>3 DEF ChannelInv, Watching
<1>5. Calling' = Calling /\ InHand' = InHand BY DEF PeerCloses, Calling, InHand
<1>6. TypeOK'
  <2>1. /\ connect_' \in BOOLEAN /\ gave_up' \in BOOLEAN /\ retry_' \in BOOLEAN /\ client_connect_' \in BOOLEAN
        /\ stopped' \in BOOLEAN /\ overtaken' \in BOOLEAN
      BY <1>0, Zenon DEF PeerCloses, clientVars, history, TypeOK
  <2> QED BY <1>0, <1>1, <1>2, <1>3, <1>4, <1>5, <2>1 DEF PeerCloses, clientVars, history, TypeOK, States
<1>7. CallInv' BY <1>0 DEF PeerCloses, CallInv
<1>8. StopInv' BY <1>0 DEF PeerCloses, clientVars, history, StopInv
<1>9. QueueInv' BY <1>0 DEF PeerCloses, QueueInv
<1>10. ChannelInv' BY <1>0, <1>2, <1>5 DEF PeerCloses, clientVars, ChannelInv
<1>11. LoopCallInv' BY <1>0, <1>5 DEF PeerCloses, clientVars, LoopCallInv
<1>12. TodoInv' BY <1>0 DEF PeerCloses, TodoInv
<1>13. ConnInv' BY <1>0, <1>4 DEF PeerCloses, clientVars, ConnInv, DestroysUp
<1>14. FailedInv' BY <1>0 DEF PeerCloses, FailedInv
<1>15. StuckInv' BY <1>0, <1>2, <1>5 DEF PeerCloses, clientVars, StuckInv
<1>16. TokenInv' BY <1>0, <1>1, <1>2, <1>5 DEF PeerCloses, history, TokenInv, OneSource
<1> QED BY <1>6, <1>7, <1>8, <1>9, <1>10, <1>11, <1>12, <1>13, <1>14, <1>15, <1>16 DEF IInv

\* A stuttering step.
LEMMA StutterPreserves ==
    ASSUME IInv, UNCHANGED vars
    PROVE  IInv'
<1> USE LoopIsThread
<1>0. /\ TypeOK /\ CallInv /\ StopInv /\ QueueInv /\ ChannelInv /\ LoopCallInv /\ TodoInv /\ ConnInv
      /\ FailedInv /\ StuckInv /\ TokenInv
    BY DEF IInv
<1>1. /\ Watching' <=> Watching
      /\ \A op \in {"start", "reset", "cancel", "destroy"} :
             /\ Positions(pending', op) = Positions(pending, op)
             /\ Positions(functors', op) = Positions(functors, op)
             /\ Queued(op)' <=> Queued(op)
      /\ Cancels' = Cancels
    BY DEF vars, connectorVars, loopVars, Watching, Queued, Cancels
<1>2. Calling' = Calling /\ InHand' = InHand BY DEF vars, connectorVars, Calling, InHand
<1>3. TypeOK'
  <2>1. /\ connect_' \in BOOLEAN /\ gave_up' \in BOOLEAN /\ retry_' \in BOOLEAN /\ client_connect_' \in BOOLEAN
        /\ stopped' \in BOOLEAN /\ overtaken' \in BOOLEAN
      BY <1>0, Zenon DEF vars, connectorVars, loopVars, clientVars, history, TypeOK
  <2> QED BY <1>0, <1>1, <1>2, <2>1 DEF vars, connectorVars, loopVars, clientVars, history, TypeOK, States
<1>4. CallInv' BY <1>0 DEF vars, connectorVars, loopVars, CallInv
<1>5. StopInv' BY <1>0 DEF vars, connectorVars, clientVars, history, StopInv
<1>6. QueueInv' BY <1>0 DEF vars, connectorVars, loopVars, QueueInv
<1>7. ChannelInv' BY <1>0, <1>1, <1>2 DEF vars, connectorVars, loopVars, clientVars, ChannelInv
<1>8. LoopCallInv' BY <1>0, <1>2 DEF vars, connectorVars, clientVars, LoopCallInv
<1>9. TodoInv' BY <1>0, <1>1 DEF vars, connectorVars, loopVars, TodoInv
<1>10. ConnInv' BY <1>0 DEF vars, connectorVars, loopVars, clientVars, ConnInv, DestroysUp
<1>11. FailedInv' BY <1>0 DEF vars, connectorVars, loopVars, FailedInv
<1>12. StuckInv' BY <1>0, <1>1, <1>2 DEF vars, connectorVars, loopVars, clientVars, StuckInv
<1>13. TokenInv' BY <1>0, <1>1, <1>2 DEF vars, connectorVars, loopVars, history, TokenInv, OneSource
<1> QED BY <1>3, <1>4, <1>5, <1>6, <1>7, <1>8, <1>9, <1>10, <1>11, <1>12, <1>13 DEF IInv

\* Every step of the specification keeps the invariant.
LEMMA NextPreserves == IInv /\ [Next]_vars => IInv'
<1> SUFFICES ASSUME IInv, [Next]_vars PROVE IInv' OBVIOUS
<1>1. CASE ConnectorLoopStep /\ UNCHANGED <<clientVars, history>>
    BY <1>1, StartInLoopPreserves, RetryPreserves, RetryRunAfterPreserves, HandleErrorPreserves,
       HandleWritePreserves, PollPreserves, RunTimerPreserves, DoPendingFunctorsPreserves, RunStartPreserves,
       ResetChannelPreserves, RunCancelPreserves
    DEF ConnectorLoopStep
<1>2. CASE new_connection
  <2>1. /\ At(LoopThread, "new_connection") /\ Goto(LoopThread, "idle") /\ sock_fd' = None
        /\ UNCHANGED <<connect_, state_, channel_, timer_id_, loopVars, sock, retry_, client_connect_, calls, history>>
      BY <1>2 DEF new_connection
  <2>2. CASE /\ conn' = [conn EXCEPT ![sock_fd] = "Connected"] /\ connection_' = sock_fd
             /\ enabled' = enabled \cup {sock_fd} /\ registered' = registered \cup {<<"connection", sock_fd>>}
             /\ UNCHANGED gave_up
      BY <2>1, <2>2, NewConnectionMade
  <2>3. CASE gave_up' = TRUE /\ UNCHANGED <<conn, connection_, enabled, registered>>
      BY <2>1, <2>3, NewConnectionFails
  <2> QED BY <1>2, <2>2, <2>3 DEF new_connection
<1>3. CASE restart BY <1>3, RestartPreserves
<1>4. CASE \E f \in Fds : remove_connection(f) BY <1>4, RemoveConnectionPreserves
<1>5. CASE connect_destoryed BY <1>5, ConnectDestroyedPreserves
<1>6. CASE pending_done BY <1>6, PendingDonePreserves
<1>7. CASE Kernel BY <1>7, ResolvePreserves, ExpirePreserves, PeerClosesPreserves DEF Kernel
<1>8. CASE \E t \in Users : connect(t) \/ client_stop(t) \/ disconnect(t)
    BY <1>8, ConnectPreserves, ClientStopPreserves, DisconnectPreserves
<1>9. CASE \E t \in Threads : CallStep(t)
  <2>1. PICK t \in Threads : CallStep(t) BY <1>9
  <2>2. CASE start(t) /\ UNCHANGED <<clientVars, history>> BY <2>2, StartPreserves
  <2>3. CASE start_run_in_loop(t) /\ UNCHANGED <<clientVars, history>> BY <2>3, StartInLoopNext, StartQueued
  <2>4. CASE /\ stop(t) /\ overtaken' = (call[LoopThread] = "restart")
             /\ UNCHANGED <<clientVars, stopped, misuse>>
      BY <2>4, StopPreserves
  <2>5. CASE /\ stop_cancel(t) /\ stopped' = TRUE
             /\ UNCHANGED <<clientVars, overtaken, misuse>>
      BY <2>5, StopCancelsPreserves, CancelQueued
  <2>6. CASE disconnect_shutdown(t) BY <2>6, DisconnectShutdownPreserves
  <2> QED BY <2>1, <2>2, <2>3, <2>4, <2>5, <2>6 DEF CallStep
<1>10. CASE UNCHANGED vars BY <1>10, StutterPreserves
<1> QED BY <1>1, <1>2, <1>3, <1>4, <1>5, <1>6, <1>7, <1>8, <1>9, <1>10 DEF Next, LoopStep

\* The invariant holds throughout.
LEMMA Invariance == Spec => []IInv
BY InitEstablishes, NextPreserves, PTL DEF Spec

-----------------------------------------------------------------------------
(* The histories *)

\* A start() in the loop's queue stays there until the loop runs it.
LEMMA QueuedStartStays ==
    ASSUME IInv, Next, Queued("start")
    PROVE  Queued("start")' \/ call'[LoopThread] = "start_in_loop"
<1>0. TypeOK /\ QueueInv BY DEF IInv
<1>1. CASE UNCHANGED <<pending, functors>> BY <1>1 DEF Queued
<1>2. ASSUME NEW g \in Functors, pending' = Append(pending, g), functors' = functors PROVE Queued("start")'
    BY <1>0, <1>2, Enqueues
<1>3. ASSUME NEW op \in {"reset", "cancel", "destroy"}, Runs(op), functors' = Tail(functors), pending' = pending
      PROVE  Queued("start")'
    BY <1>0, <1>3, Dequeues DEF Runs
<1>4. ASSUME NEW op \in {"start", "reset", "cancel", "destroy"}, NEW a \in Fds \cup Timers \cup {None}
      PROVE  Functor(op, a) \in Functors
    BY DEF Functor, Functors
<1>5. CASE ConnectorLoopStep
  <2>1. CASE run_start BY <1>0, <2>1, LoopIsThread, GotoStep DEF run_start, Steps
  <2>2. CASE reset_channel \/ run_cancel BY <2>2, <1>3 DEF reset_channel, run_cancel
  <2>3. CASE do_pending_functors
    <3>1. functors = <<>> BY <1>0, <2>3 DEF do_pending_functors, Idle, QueueInv
    <3>2. Positions(functors', "start") = Positions(pending, "start") BY <2>3 DEF do_pending_functors
    <3>3. Positions(functors, "start") = {} BY <3>1 DEF Positions
    <3> QED BY <3>2, <3>3 DEF Queued
  <2>4. CASE handle_error \/ handle_write
    <3>1. \/ UNCHANGED <<pending, functors>>
          \/ pending' = Append(pending, Functor("reset", None)) /\ functors' = functors
        BY <2>4 DEF handle_error, handle_write, AttemptOver, remove_and_reset_channel
    <3> QED BY <3>1, <1>1, <1>2, <1>4
  <2>5. CASE start_in_loop \/ retry \/ retry_run_after \/ poll \/ \E id \in Timers : RunTimer(id)
      BY <2>5, <1>1 DEF start_in_loop, retry, retry_run_after, poll, RunTimer, loopVars
  <2> QED BY <1>5, <2>1, <2>2, <2>3, <2>4, <2>5 DEF ConnectorLoopStep
<1>6. CASE new_connection \/ restart \/ pending_done
    BY <1>6, <1>1 DEF new_connection, restart, pending_done, loopVars
<1>7. ASSUME NEW f \in Fds, remove_connection(f) PROVE Queued("start")'
  <2>1. \/ UNCHANGED <<pending, functors>>
        \/ pending' = Append(pending, Functor("destroy", f)) /\ functors' = functors
      BY <1>7 DEF remove_connection
  <2> QED BY <2>1, <1>2, <1>4 DEF Queued
<1>8. CASE connect_destoryed BY <1>8, <1>3 DEF connect_destoryed
<1>9. CASE Kernel BY <1>9, <1>1 DEF Kernel, Resolve, Expire, PeerCloses, loopVars
<1>10. CASE \E t \in Users : connect(t) \/ client_stop(t) \/ disconnect(t)
    BY <1>10, <1>1 DEF connect, client_stop, disconnect, loopVars
<1>11. CASE \E t \in Threads : CallStep(t)
  <2>1. PICK t \in Threads : CallStep(t) BY <1>11
  <2>2. CASE start(t) \/ stop(t) \/ disconnect_shutdown(t)
      BY <2>2, <1>1 DEF start, stop, disconnect_shutdown, loopVars
  <2>3. CASE start_run_in_loop(t)
    <3>1. \/ UNCHANGED <<pending, functors>>
          \/ pending' = Append(pending, Functor("start", None)) /\ functors' = functors
        BY <2>3 DEF start_run_in_loop
    <3> QED BY <3>1, <1>1, <1>2, <1>4
  <2>4. CASE stop_cancel(t)
    <3>1. \/ UNCHANGED <<pending, functors>>
          \/ pending' = Append(pending, Functor("cancel", timer_id_)) /\ functors' = functors
        BY <2>4 DEF stop_cancel
    <3>2. timer_id_ \in Timers \cup {None} BY <1>0 DEF TypeOK
    <3> QED BY <3>1, <3>2, <1>1, <1>2, <1>4
  <2> QED BY <2>1, <2>2, <2>3, <2>4 DEF CallStep
<1> QED BY <1>5, <1>6, <1>7, <1>8, <1>9, <1>10, <1>11 DEF Next, LoopStep

\* A start() goes on in its thread until the loop has it: the loop thread is inside the
\* call, between two callbacks, or about to do something else.
LEMMA StartingStays ==
    ASSUME IInv, Next, Starting # {}, state_ = "Connected", pc' # "aborted"
    PROVE  Starting' # {} \/ Queued("start")'
<1>0. TypeOK /\ CallInv BY DEF IInv
<1>1. PICK t \in Threads : call[t] \in {"start", "run_in_loop", "start_in_loop"} BY DEF Starting
<1>2. ASSUME call'[t] \in {"start", "run_in_loop", "start_in_loop"} PROVE Starting' # {}
    BY <1>2 DEF Starting
<1>3. CASE UNCHANGED call BY <1>1, <1>2, <1>3
<1>4. ASSUME call[LoopThread] \notin {"start", "run_in_loop", "start_in_loop"}, NEW s, Goto(LoopThread, s)
      PROVE  Starting' # {}
    BY <1>0, <1>1, <1>2, <1>4 DEF TypeOK, Goto
<1>5. CASE ConnectorLoopStep
  <2>1. ~start_in_loop BY DEF start_in_loop, MayStart, Abort
  <2>2. CASE retry \/ retry_run_after \/ run_start \/ \E id \in Timers : RunTimer(id)
      BY <2>2, <1>3, <1>4 DEF retry, retry_run_after, run_start, RunTimer, At, Runs, Idle
  <2>3. CASE handle_error \/ handle_write
      BY <2>3, <1>3, <1>4 DEF handle_error, handle_write, AttemptOver, Calls, Idle
  <2>4. CASE poll \/ do_pending_functors \/ reset_channel \/ run_cancel
      BY <2>4, <1>3 DEF poll, do_pending_functors, reset_channel, run_cancel
  <2> QED BY <1>5, <2>1, <2>2, <2>3, <2>4 DEF ConnectorLoopStep
<1>6. CASE new_connection \/ restart \/ \E f \in Fds : remove_connection(f)
    BY <1>6, <1>3, <1>4 DEF new_connection, restart, remove_connection, At, Idle
<1>7. CASE connect_destoryed \/ pending_done \/ Kernel
    BY <1>7, <1>3 DEF connect_destoryed, pending_done, Kernel, Resolve, Expire, PeerCloses
<1>8. ASSUME NEW u \in Users, connect(u) \/ client_stop(u) \/ disconnect(u) PROVE Starting' # {}
  <2>1. u \in Threads /\ call[u] = "idle" BY <1>8, BeginCallStep DEF connect, client_stop, disconnect
  <2>2. \E s : Goto(u, s) BY <1>8 DEF connect, client_stop, disconnect
  <2> QED BY <2>1, <2>2, <1>0, <1>1, <1>2 DEF TypeOK, Goto
<1>9. CASE \E u \in Threads : CallStep(u)
  <2>1. PICK u \in Threads : CallStep(u) BY <1>9
  <2>2. CASE u # t
    <3>1. \E s : Goto(u, s)
        BY <2>1 DEF CallStep, start, start_run_in_loop, stop, stop_cancel, disconnect_shutdown
    <3> QED BY <2>2, <3>1, <1>0, <1>1, <1>2 DEF TypeOK, Goto
  <2>3. CASE u = t
    <3>1. CASE start(t) BY <3>1, <1>0, <1>2 DEF start, Goto, TypeOK
    <3>2. CASE start_run_in_loop(t) /\ t = LoopThread BY <3>2, <1>0, <1>2 DEF start_run_in_loop, Goto, TypeOK
    <3>3. CASE start_run_in_loop(t) /\ t # LoopThread
      <4>1. Functor("start", None) \in Functors /\ Functor("start", None).op = "start"
          BY DEF Functor, Functors
      <4>2. pending' = Append(pending, Functor("start", None)) /\ functors' = functors
          BY <3>3 DEF start_run_in_loop
      <4> QED BY <4>1, <4>2, <1>0, Enqueues
    <3> QED BY <2>1, <2>3, <1>1, <3>1, <3>2, <3>3
           DEF CallStep, stop, stop_cancel, disconnect_shutdown, At
  <2> QED BY <2>2, <2>3
<1> QED BY <1>5, <1>6, <1>7, <1>8, <1>9 DEF Next, LoopStep

\* Only the step it is about to take, or the end of a call, moves the loop thread on, and
\* nothing moves a program that has aborted.
LEMMA LoopMovesOn ==
    ASSUME IInv, Next
    PROVE  /\ pc = "aborted" => pc' = "aborted" /\ UNCHANGED <<failed, state_, connect_, connection_, call, history>>
           /\ call[LoopThread] = "new_connection" => new_connection \/ call'[LoopThread] = "new_connection"
           /\ call[LoopThread] = "restart" => restart \/ call'[LoopThread] = "restart"
<1>0. TypeOK /\ CallInv BY DEF IInv
<1>1. CASE ConnectorLoopStep /\ UNCHANGED <<clientVars, history>>
  <2>1. CASE start_in_loop \/ retry \/ retry_run_after
      BY <1>1, <2>1 DEF start_in_loop, retry, retry_run_after, At
  <2>2. CASE handle_error \/ handle_write BY <1>1, <2>2 DEF handle_error, handle_write, Calls, Idle
  <2>3. CASE poll BY <1>0, <1>1, <2>3 DEF poll, CallInv
  <2>4. CASE do_pending_functors \/ run_start \/ reset_channel \/ run_cancel \/ \E id \in Timers : RunTimer(id)
      BY <1>1, <2>4 DEF do_pending_functors, run_start, reset_channel, run_cancel, RunTimer, Runs, Idle
  <2> QED BY <1>1, <2>1, <2>2, <2>3, <2>4 DEF ConnectorLoopStep
<1>2. CASE new_connection \/ restart BY <1>2 DEF new_connection, restart, At
<1>3. CASE connect_destoryed \/ pending_done \/ \E f \in Fds : remove_connection(f)
    BY <1>3 DEF connect_destoryed, pending_done, remove_connection, Runs, Idle
<1>4. CASE Kernel BY <1>4 DEF Kernel, Resolve, Expire, PeerCloses, loopVars, clientVars, history
<1>5. ASSUME NEW u \in Users, connect(u) \/ client_stop(u) \/ disconnect(u)
      PROVE  /\ pc # "aborted"
             /\ call[LoopThread] \in {"new_connection", "restart"} => call'[LoopThread] = call[LoopThread]
  <2>1. u \in Threads /\ call[u] = "idle" /\ pc # "aborted"
      BY <1>5, BeginCallStep DEF connect, client_stop, disconnect
  <2>2. \E s : Goto(u, s) BY <1>5 DEF connect, client_stop, disconnect
  <2> QED BY <2>1, <2>2, <1>0, LoopIsThread DEF TypeOK, Goto
<1>6. ASSUME NEW u \in Threads, CallStep(u)
      PROVE  /\ pc # "aborted"
             /\ call[LoopThread] \in {"new_connection", "restart"} => call'[LoopThread] = call[LoopThread]
  <2>1. /\ pc # "aborted" /\ call[u] \notin {"new_connection", "restart"}
        /\ \E s : Goto(u, s)
      BY <1>6 DEF CallStep, start, start_run_in_loop, stop, stop_cancel, disconnect_shutdown, At
  <2> QED BY <2>1, <1>0, LoopIsThread DEF TypeOK, Goto
<1> QED BY <1>1, <1>2, <1>3, <1>4, <1>5, <1>6 DEF Next, LoopStep

\* No step leaves a client that wants a connection, and has enable_retry(), without one.
LEMMA LostPreserves ==
    ASSUME IInv, LostInv, Next
    PROVE  LostInv'
<1> SUFFICES ASSUME client_connect_', connect_', retry_', pc' # "aborted", state_' = "Connected",
                    connection_' = None, Starting' = {}, ~Queued("start")', ~gave_up',
                    call'[LoopThread] \notin {"new_connection", "restart"}
             PROVE  FALSE
    BY DEF LostInv
<1> USE LoopIsThread
<1>0. TypeOK BY DEF IInv
<1>1. call'[LoopThread] # "start_in_loop" /\ \A t \in Threads : call'[t] \notin {"start", "run_in_loop"}
    BY DEF Starting
<1>2. pc # "aborted" BY LoopMovesOn
<1>3. state_ = "Connected"
  <2>1. state_' = state_ \/ handle_write \/ state_' # "Connected"
      BY DEF Next, LoopStep, ConnectorLoopStep, start_in_loop, connect_socket, connecting, retry, retry_run_after,
             handle_error, poll, RunTimer, do_pending_functors, run_start, reset_channel, run_cancel,
             new_connection, restart, remove_connection, connect_destoryed, pending_done, Kernel, Resolve,
             Expire, PeerCloses, connect, client_stop, disconnect, CallStep, start, start_run_in_loop, stop,
             stop_cancel, disconnect_shutdown
  <2>2. CASE handle_write /\ state_ # "Connected"
    <3>1. AttemptOver /\ connect_' = connect_ BY <2>2 DEF handle_write
    <3>2. Goto(LoopThread, "new_connection") \/ state_' = state_
        BY <3>1 DEF AttemptOver
    <3> QED BY <2>2, <3>2, <1>0 DEF Goto, TypeOK
  <2> QED BY <2>1, <2>2
<1>4. Starting = {} /\ ~Queued("start") BY <1>1, <1>3, StartingStays, QueuedStartStays
<1>5. client_connect_ /\ connect_ /\ retry_ /\ ~gave_up /\ ~restart
  <2>1. ~restart BY DEF restart
  <2>2. \A t \in Threads : ~start(t) BY <1>0, <1>1 DEF start, Goto, TypeOK
  <2>3. \A t \in Users : ~connect(t)
    <3>1. SUFFICES ASSUME NEW t \in Users, connect(t) PROVE FALSE OBVIOUS
    <3>2. t \in Threads BY DEF Threads
    <3> QED BY <3>1, <3>2, <1>0, <1>1 DEF connect, Goto, TypeOK
  <2>4. /\ client_connect_' = client_connect_ /\ connect_' = connect_ /\ retry_' = retry_
        /\ (gave_up' = gave_up \/ gave_up' = TRUE)
    <3>1. CASE ConnectorLoopStep /\ UNCHANGED <<clientVars, history>>
        BY <3>1, <1>3 DEF ConnectorLoopStep, start_in_loop, MayStart, retry, retry_run_after, handle_error,
           handle_write, poll, RunTimer, do_pending_functors, run_start, reset_channel, run_cancel, clientVars
    <3>2. CASE new_connection \/ connect_destoryed \/ pending_done \/ \E f \in Fds : remove_connection(f)
        BY <3>2 DEF new_connection, connect_destoryed, pending_done, remove_connection
    <3>3. CASE Kernel BY <3>3 DEF Kernel, Resolve, Expire, PeerCloses, clientVars
    <3>4. ~\E t \in Users : client_stop(t) \/ disconnect(t) BY DEF client_stop, disconnect
    <3>5. CASE \E t \in Threads : CallStep(t)
      <4>1. ~\E t \in Threads : stop(t) BY DEF stop
      <4> QED BY <2>2, <3>5, <4>1 DEF CallStep, start_run_in_loop, stop_cancel, disconnect_shutdown, clientVars
    <3> QED BY <2>1, <2>3, <3>1, <3>2, <3>3, <3>4, <3>5 DEF Next, LoopStep
  <2>5. client_connect_ /\ connect_ /\ retry_ BY <2>4
  <2>6. ~gave_up BY <2>4
  <2> QED BY <2>1, <2>5, <2>6
<1>6. ~new_connection
  <2>1. SUFFICES ASSUME new_connection PROVE FALSE OBVIOUS
  <2>2. connection_' = sock_fd /\ sock_fd \in InHand BY <2>1 DEF new_connection, At, InHand
  <2> QED BY <2>2, ConnectorAssumption DEF IInv, LoopCallInv
<1>7. connection_ # None BY <1>2, <1>3, <1>4, <1>5, <1>6, LoopMovesOn DEF LostInv
<1>8. \E f \in Fds : remove_connection(f)
    BY <1>5, <1>6, <1>7 DEF Next, LoopStep, clientVars, connect_destoryed, pending_done, Kernel, PeerCloses,
       connect, client_stop, disconnect, CallStep, disconnect_shutdown
<1>9. Reconnects => call'[LoopThread] = "restart" BY <1>0, <1>2, <1>8 DEF remove_connection, Goto, TypeOK, Abort
<1> QED BY <1>5, <1>9 DEF Reconnects

\* Nothing but connect() and a restart() that stop() found under way sets connect_ again.
LEMMA OvertakenPreserves ==
    ASSUME IInv, OvertakenInv, Next
    PROVE  OvertakenInv'
<1> USE LoopIsThread
<1>0. TypeOK /\ CallInv /\ StopInv BY DEF IInv
<1>1. ASSUME UNCHANGED <<connect_, client_connect_, stopped, overtaken>>,
             \A t \in Threads : call'[t] \in {"cancel", "start", "restart"} => call'[t] = call[t]
      PROVE  OvertakenInv'
    BY <1>0, <1>1 DEF OvertakenInv
<1>2. ASSUME NEW t \in Threads, NEW s, Goto(t, s)
      PROVE  call'[t] = s /\ \A u \in Threads : u # t => call'[u] = call[u]
    BY <1>0, <1>2 DEF TypeOK, Goto
<1>3. CASE ConnectorLoopStep /\ UNCHANGED <<clientVars, history>>
  <2>1. UNCHANGED <<connect_, client_connect_, stopped, overtaken>>
      BY <1>3 DEF ConnectorLoopStep, start_in_loop, retry, retry_run_after, handle_error, handle_write,
             poll, RunTimer, do_pending_functors, run_start, reset_channel, run_cancel, clientVars, history
  <2>2. call' = call \/ \E s \in {"idle", "retry", "run_after", "new_connection", "start_in_loop"} : Goto(LoopThread, s)
      BY <1>3 DEF ConnectorLoopStep, start_in_loop, connect_socket, connecting, retry, retry_run_after, handle_error,
             handle_write, AttemptOver, poll, RunTimer, do_pending_functors, run_start, reset_channel, run_cancel
  <2> QED BY <2>1, <2>2, <1>1, <1>2
<1>4. CASE new_connection BY <1>4, <1>1, <1>2 DEF new_connection, history
<1>5. CASE restart
  <2>1. call[LoopThread] = "restart" /\ call'[LoopThread] = "start_in_loop" BY <1>5, <1>2 DEF restart, At
  <2>2. UNCHANGED <<client_connect_, stopped, overtaken>> BY <1>5 DEF restart, clientVars, history
  <2>3. \A t \in Threads : t # LoopThread => call'[t] = call[t] BY <1>5, <1>2 DEF restart
  <2> QED BY <2>1, <2>2, <2>3 DEF OvertakenInv
<1>6. ASSUME NEW f \in Fds, remove_connection(f) PROVE OvertakenInv'
  <2>1. UNCHANGED <<connect_, client_connect_, stopped, overtaken>> BY <1>6 DEF remove_connection, history
  <2>2. CASE Goto(LoopThread, "restart") /\ client_connect_
    <3>1. call'[LoopThread] = "restart" /\ \A t \in Threads : t # LoopThread => call'[t] = call[t]
        BY <2>2, <1>2
    <3>2. ~stopped /\ \A t \in Threads : call'[t] # "cancel" BY <2>2, <3>1, <1>0 DEF OvertakenInv, StopInv
    <3> QED BY <2>1, <3>1, <3>2 DEF OvertakenInv
  <2>3. (Goto(LoopThread, "restart") /\ client_connect_) \/ Goto(LoopThread, "idle") \/ call' = call
      BY <1>6 DEF remove_connection, Reconnects
  <2> QED BY <2>1, <2>2, <2>3, <1>1, <1>2
<1>7. CASE connect_destoryed \/ pending_done BY <1>7, <1>1 DEF connect_destoryed, pending_done, history
<1>8. CASE Kernel BY <1>8, <1>1 DEF Kernel, Resolve, Expire, PeerCloses, clientVars, history
<1>9. ASSUME NEW t \in Users, connect(t) PROVE OvertakenInv'
  <2>1. t \in Threads /\ \A u \in Threads : call[u] \notin UserSteps BY <1>9, BeginCallStep DEF connect
  <2>2. call'[t] = "start" /\ \A u \in Threads : u # t => call'[u] = call[u] BY <1>9, <2>1, <1>2 DEF connect
  <2>3. ~stopped' /\ \A u \in Threads : call'[u] # "cancel" BY <1>9, <2>1, <2>2 DEF connect, UserSteps
  <2> QED BY <2>3 DEF OvertakenInv
<1>10. ASSUME NEW t \in Users, client_stop(t) \/ disconnect(t) PROVE OvertakenInv'
  <2>1. t \in Threads /\ call[t] = "idle" BY <1>10, BeginCallStep DEF client_stop, disconnect
  <2>2. call'[t] \in {"stop", "shutdown"} /\ \A u \in Threads : u # t => call'[u] = call[u]
      BY <1>10, <2>1, <1>2 DEF client_stop, disconnect
  <2>3. UNCHANGED <<connect_, stopped, overtaken>> /\ ~client_connect_'
      BY <1>10 DEF client_stop, disconnect, history
  <2> QED BY <2>1, <2>2, <2>3 DEF OvertakenInv
<1>11. ASSUME NEW t \in Threads, CallStep(t) PROVE OvertakenInv'
  <2>1. CASE start(t) /\ UNCHANGED <<clientVars, history>>
    <3>1. call[t] = "start" /\ call'[t] = "run_in_loop" /\ \A u \in Threads : u # t => call'[u] = call[u]
        BY <2>1, <1>2 DEF start, At
    <3>2. ~stopped' BY <2>1, <3>1 DEF OvertakenInv, history
    <3>3. \A u \in Threads : call'[u] # "cancel" BY <3>1, <1>0 DEF CallInv, UserSteps
    <3> QED BY <3>2, <3>3 DEF OvertakenInv
  <2>2. CASE start_run_in_loop(t) /\ UNCHANGED <<clientVars, history>>
    <3>1. Goto(t, "start_in_loop") \/ Goto(t, "idle") BY <2>2 DEF start_run_in_loop
    <3> QED BY <2>2, <3>1, <1>1, <1>2 DEF start_run_in_loop, clientVars, history
  <2>3. CASE /\ stop(t) /\ overtaken' = (call[LoopThread] = "restart")
             /\ UNCHANGED <<clientVars, stopped, misuse>>
    <3>1. call[t] = "stop" /\ call'[t] = "cancel" /\ \A u \in Threads : u # t => call'[u] = call[u]
        BY <2>3, <1>2 DEF stop, At
    <3>2. ~connect_' /\ UNCHANGED <<client_connect_, stopped>> BY <2>3 DEF stop, clientVars
    <3>3. ~overtaken' => call'[LoopThread] # "restart" BY <2>3, <3>1
    <3> QED BY <3>1, <3>2, <3>3 DEF OvertakenInv
  <2>4. CASE stop_cancel(t) /\ stopped' = TRUE /\ UNCHANGED <<clientVars, overtaken, misuse>>
    <3>1. call[t] = "cancel" /\ call'[t] = "idle" /\ \A u \in Threads : u # t => call'[u] = call[u]
        BY <2>4, <1>2 DEF stop_cancel, At
    <3>2. UNCHANGED <<connect_, client_connect_, overtaken>> BY <2>4 DEF stop_cancel, clientVars
    <3>3. ~client_connect_ /\ \A u \in Threads : call'[u] # "start" BY <3>1, <1>0 DEF StopInv, CallInv, UserSteps
    <3> QED BY <3>1, <3>2, <3>3 DEF OvertakenInv
  <2>5. CASE disconnect_shutdown(t) BY <2>5, <1>1, <1>2 DEF disconnect_shutdown, history
  <2> QED BY <1>11, <2>1, <2>2, <2>3, <2>4, <2>5 DEF CallStep
<1> QED BY <1>3, <1>4, <1>5, <1>6, <1>7, <1>8, <1>9, <1>10, <1>11 DEF Next, LoopStep

\* A Connector that is started in state Connected does nothing more until it aborts.
LEMMA SpentPreserves ==
    ASSUME IInv, SpentInv, Next
    PROVE  SpentInv'
<1> USE LoopIsThread
<1>0. TypeOK /\ ChannelInv /\ LoopCallInv /\ TodoInv /\ ConnInv BY DEF IInv
<1>1. ASSUME NEW u \in Users, connect(u), misuse' = "spent", misuse # "spent" PROVE SpentInv'
  <2>1. u \in Threads /\ call[u] = "idle" /\ pc # "aborted" BY <1>1, BeginCallStep DEF connect
  <2>2. AtRest /\ state_ # "Disconnected" BY <1>1 DEF connect
  <2>3. ~Watching BY <2>2, <1>0, ConnectorAssumption DEF AtRest, ChannelInv, Watching
  <2>4. state_ = "Connected" BY <2>1, <2>2, <2>3, <1>0 DEF AtRest, OnTheWay, ChannelInv, TypeOK, States
  <2>5. call'[LoopThread] \in {call[LoopThread], "start"} BY <1>1, <2>1, <1>0 DEF connect, Goto, TypeOK
  <2> QED BY <1>1, <2>1, <2>2, <2>4, <2>5 DEF SpentInv, connect, AtRest, loopVars
<1>2. misuse' = misuse \/ \E u \in Users : connect(u)
    BY DEF Next, LoopStep, history, new_connection, restart, remove_connection, connect_destoryed, pending_done,
           Kernel, PeerCloses, client_stop, disconnect, CallStep, disconnect_shutdown
<1>3. ASSUME misuse = "spent", pc = "aborted" PROVE SpentInv' BY <1>3, LoopMovesOn DEF SpentInv, history
<1>4. ASSUME misuse = "spent", pc # "aborted" PROVE SpentInv'
  <2>0. /\ state_ = "Connected" /\ connection_ = None
        /\ call[LoopThread] \notin {"new_connection", "restart", "retry"}
      BY <1>4, <1>0 DEF SpentInv, LoopCallInv
  <2>1. ~Watching /\ todo = <<>> BY <1>4, <2>0, <1>0 DEF ChannelInv, Watching, TodoInv
  <2>2. \A f \in Fds : f \notin due BY <2>0, <1>0, ConnectorAssumption DEF ConnInv
  <2>3. ASSUME UNCHANGED pc \/ pc' # "aborted", UNCHANGED <<state_, connection_>>,
               call'[LoopThread] \notin {"new_connection", "restart"}
        PROVE  SpentInv'
      BY <1>4, <2>0, <2>3 DEF SpentInv
  <2>4. CASE ConnectorLoopStep /\ UNCHANGED <<clientVars, history>>
    <3>1. CASE start_in_loop BY <3>1, <2>0 DEF start_in_loop, MayStart, Abort, SpentInv
    <3>2. ~retry /\ ~handle_error /\ ~handle_write BY <2>0, <2>1 DEF retry, At, handle_error, handle_write, Calls
    <3>3. CASE retry_run_after \/ run_start \/ \E id \in Timers : RunTimer(id)
      <4>1. UNCHANGED <<pc, state_, connection_>>
          BY <2>4, <3>3 DEF retry_run_after, run_start, RunTimer, clientVars
      <4>2. Goto(LoopThread, "idle") \/ Goto(LoopThread, "start_in_loop") \/ call' = call
          BY <3>3 DEF retry_run_after, run_start, RunTimer
      <4>3. call'[LoopThread] \notin {"new_connection", "restart"} BY <4>2, <2>0, <1>0 DEF Goto, TypeOK
      <4> QED BY <4>1, <4>3, <2>3
    <3>4. CASE poll \/ do_pending_functors \/ reset_channel \/ run_cancel
        BY <2>0, <2>3, <2>4, <3>4 DEF poll, do_pending_functors, reset_channel, run_cancel, clientVars
    <3> QED BY <2>4, <3>1, <3>2, <3>3, <3>4 DEF ConnectorLoopStep
  <2>5. ~new_connection /\ ~restart /\ ~\E f \in Fds : remove_connection(f)
      BY <2>0, <2>2 DEF new_connection, restart, remove_connection, At
  <2>6. CASE connect_destoryed
    <3>1. pc' # "aborted"
      <4>1. 1 \in Positions(functors, "destroy") /\ functors[1] = Head(functors)
          BY <2>6, <1>0, Dequeues DEF connect_destoryed, Runs
      <4>2. conn[Head(functors).arg] \in Up BY <4>1, <1>0 DEF ConnInv, DestroysUp
      <4> QED BY <2>6, <4>2, <1>4 DEF connect_destoryed, Up
    <3> QED BY <2>0, <2>3, <2>6, <3>1 DEF connect_destoryed
  <2>7. CASE pending_done BY <2>0, <2>3, <2>7 DEF pending_done
  <2>8. CASE Kernel BY <2>0, <2>3, <2>8 DEF Kernel, Resolve, Expire, PeerCloses, loopVars, clientVars
  <2>9. ASSUME NEW u \in Users, connect(u) \/ client_stop(u) \/ disconnect(u) PROVE SpentInv'
    <3>1. u \in Threads /\ UNCHANGED <<pc, state_, connection_>>
        BY <2>9 DEF connect, client_stop, disconnect, loopVars, Threads
    <3>2. Goto(u, "start") \/ Goto(u, "stop") \/ Goto(u, "shutdown") BY <2>9 DEF connect, client_stop, disconnect
    <3>3. call'[LoopThread] \notin {"new_connection", "restart"} BY <3>1, <3>2, <2>0, <1>0 DEF Goto, TypeOK
    <3> QED BY <3>1, <3>3, <2>3
  <2>10. ASSUME NEW u \in Threads, CallStep(u) PROVE SpentInv'
    <3>1. UNCHANGED <<pc, state_, connection_>>
        BY <2>10 DEF CallStep, start, start_run_in_loop, stop, stop_cancel, disconnect_shutdown, loopVars, clientVars
    <3>2. \E s \in {"run_in_loop", "start_in_loop", "idle", "cancel"} : Goto(u, s)
        BY <2>10 DEF CallStep, start, start_run_in_loop, stop, stop_cancel, disconnect_shutdown
    <3>3. call'[LoopThread] \notin {"new_connection", "restart"} BY <3>2, <2>0, <1>0 DEF Goto, TypeOK
    <3> QED BY <3>1, <3>3, <2>3
  <2> QED BY <2>4, <2>5, <2>6, <2>7, <2>8, <2>9, <2>10 DEF Next, LoopStep
<1> QED BY <1>1, <1>2, <1>3, <1>4 DEF SpentInv

\* The histories say so throughout.
LEMMA HistoryInvariance == Spec => []HistoryInv
<1>1. Init => HistoryInv
    BY LoopIsThread DEF Init, ConnectorInit, HistoryInv, LostInv, OvertakenInv, SpentInv
<1>2. ASSUME IInv, HistoryInv, [Next]_vars PROVE HistoryInv'
  <2>1. CASE Next BY <1>2, <2>1, LostPreserves, OvertakenPreserves, SpentPreserves DEF HistoryInv
  <2>2. CASE UNCHANGED vars
      BY <1>2, <2>2 DEF vars, connectorVars, loopVars, clientVars, history, HistoryInv, LostInv, OvertakenInv,
                        SpentInv, Starting, Queued
  <2> QED BY <1>2, <2>1, <2>2
<1> QED BY <1>1, <1>2, Invariance, PTL DEF Spec

-----------------------------------------------------------------------------
(* Results *)

\* Every variable keeps its type, whatever threads call the client and however the loop,
\* the kernel and they interleave.
THEOREM TypeCorrect == Spec => []TypeOK
<1>1. IInv => TypeOK BY DEF IInv
<1> QED BY <1>1, Invariance, PTL

\* After stop() nothing sets connect_ of the Connector again until connect(), except a
\* restart() that had passed remove_connection's test when stop() reset connect_.
THEOREM StopIsObeyed == Spec => []StopHolds
<1>1. HistoryInv => StopHolds BY DEF HistoryInv, OvertakenInv, StopHolds
<1> QED BY <1>1, HistoryInvariance, PTL

\* The Connector's channel and the connection's never are in the poller for the same
\* descriptor, the descriptor is open while one is, and the Connector has one channel.
THEOREM ChannelsDoNotClash == Spec => []OneChannelPerFd
<1>1. ASSUME IInv PROVE OneChannelPerFd
  <2>0. TypeOK /\ ChannelInv /\ ConnInv BY <1>1 DEF IInv
  <2>1. \A f \in Fds : {<<"connector", f>>, <<"connection", f>>} \cap registered # {} => sock[f] # "free"
      BY <2>0 DEF ChannelInv, ConnInv, Up
  <2>2. \A f \in Fds : ~({<<"connector", f>>, <<"connection", f>>} \subseteq registered)
      BY <2>0 DEF ChannelInv, ConnInv, Up
  <2>3. Cardinality({r \in registered : r[1] = "connector"}) <= 1
    <3>1. {r \in registered : r[1] = "connector"} \subseteq {<<"connector", channel_>>}
        BY <2>0 DEF TypeOK, ChannelInv
    <3>2. IsFiniteSet({<<"connector", channel_>>}) /\ Cardinality({<<"connector", channel_>>}) = 1
        BY FS_Singleton
    <3> QED BY <3>1, <3>2, FS_Subset
  <2> QED BY <2>1, <2>2, <2>3 DEF OneChannelPerFd
<1> QED BY <1>1, Invariance, PTL

\* The assertions of handle_write, handle_error, remove_connection and connect_destoryed
\* never fail, that of connecting only after a connect() to a client that was not at rest,
\* and that of start_in_loop only after such a one or one to a Connector left Connected.
THEOREM AssertionsFailOnlyIfMisused == Spec => []AbortsOnlyIfMisused
<1>1. ASSUME IInv, HistoryInv PROVE AbortsOnlyIfMisused
  <2>0. TypeOK /\ FailedInv /\ TokenInv /\ SpentInv BY <1>1 DEF IInv, HistoryInv
  <2>1. failed # None => misuse \in {"hasty", "spent"} BY <2>0 DEF TypeOK, TokenInv
  <2> QED BY <2>0, <2>1 DEF FailedInv, SpentInv, AbortsOnlyIfMisused
<1> QED BY <1>1, Invariance, HistoryInvariance, PTL

\* A client that wants a connection has one, is handing it over, connects, or is going to call
\* start_in_loop, unless an error it does not retry after stopped it or a connection was lost
\* without enable_retry(): no interleaving of stop(), connect(), the timer's cancel and the
\* loss of a connection loses the last retry.
THEOREM NeverStuck == Spec => []NotStuck
<1>1. ASSUME IInv, HistoryInv PROVE NotStuck
  <2>0. TypeOK /\ ChannelInv /\ StuckInv /\ LostInv BY <1>1 DEF IInv, HistoryInv
  <2>1. Starting # {} \/ Queued("start") => StartPosted BY DEF Starting, Queued, Positions, StartPosted
  <2>2. Calling # {} \/ timers \ Cancels # {} \/ Queued("start") => OnTheWay
      BY <2>1 DEF Calling, Starting, OnTheWay
  <2>3. Watching => <<"connector", channel_>> \in registered BY <2>0, WatchesChannel
  <2>4. client_connect_ /\ connect_ /\ pc # "aborted" /\ state_ = "Disconnected" => OnTheWay \/ gave_up
      BY <2>0, <2>2 DEF StuckInv
  <2>5. pc # "aborted" /\ state_ = "Connecting" =>
            call[LoopThread] = "retry" \/ <<"connector", channel_>> \in registered
      BY <2>0, <2>3 DEF ChannelInv
  <2>6. client_connect_ /\ connect_ /\ pc # "aborted" /\ state_ = "Connected" =>
            \/ connection_ # None
            \/ call[LoopThread] \in {"new_connection", "restart"}
            \/ StartPosted \/ gave_up \/ ~retry_
      BY <2>0, <2>1 DEF LostInv
  <2> QED BY <2>4, <2>5, <2>6, Zenon DEF NotStuck
<1> QED BY <1>1, Invariance, HistoryInvariance, PTL

-----------------------------------------------------------------------------
(* The life cycle of a descriptor *)

\* The phase of a descriptor, by what the kernel and its connection say.
LEMMA PhaseValue ==
    ASSUME IInv, NEW f \in Fds
    PROVE  /\ sock[f] = "free" => Phase[f] = "free"
           /\ sock[f] # "free" /\ conn[f] \in Up => Phase[f] = "up"
           /\ sock[f] # "free" /\ conn[f] = "Disconnected" => Phase[f] = "down"
           /\ sock[f] # "free" /\ conn[f] = "none" => Phase[f] = "open"
<1>1. CASE sock[f] = "free"
  <2>1. conn[f] = "none" BY <1>1 DEF IInv, ConnInv
  <2> QED BY <1>1, <2>1 DEF Phase
<1>2. CASE sock[f] # "free" /\ conn[f] \in Up BY <1>2 DEF Phase, Up
<1>3. CASE sock[f] # "free" /\ conn[f] = "Disconnected" BY <1>3 DEF Phase, Up
<1>4. CASE sock[f] # "free" /\ conn[f] = "none" BY <1>4 DEF Phase, Up
<1> QED BY <1>1, <1>2, <1>3, <1>4

\* The same for the next state.
LEMMA PhaseValueNext ==
    ASSUME IInv', NEW f \in Fds
    PROVE  /\ sock'[f] = "free" => Phase'[f] = "free"
           /\ sock'[f] # "free" /\ conn'[f] \in Up => Phase'[f] = "up"
           /\ sock'[f] # "free" /\ conn'[f] = "Disconnected" => Phase'[f] = "down"
           /\ sock'[f] # "free" /\ conn'[f] = "none" => Phase'[f] = "open"
<1>1. CASE sock'[f] = "free"
  <2>1. conn'[f] = "none" BY <1>1 DEF IInv, ConnInv
  <2> QED BY <1>1, <2>1 DEF Phase
<1>2. CASE sock'[f] # "free" /\ conn'[f] \in Up BY <1>2 DEF Phase, Up
<1>3. CASE sock'[f] # "free" /\ conn'[f] = "Disconnected" BY <1>3 DEF Phase, Up
<1>4. CASE sock'[f] # "free" /\ conn'[f] = "none" BY <1>4 DEF Phase, Up
<1> QED BY <1>1, <1>2, <1>3, <1>4

\* One descriptor in one step: it keeps its phase or makes one of the transitions.
LEMMA PhaseStep ==
    ASSUME IInv, IInv', Next, NEW f \in Fds, Phase'[f] # Phase[f]
    PROVE  <<Phase[f], Phase'[f]>> \in Descriptors!Transitions
<1> USE DEF Descriptors!Transitions
<1>0. /\ TypeOK /\ ChannelInv /\ LoopCallInv /\ TodoInv /\ ConnInv /\ TypeOK'
    BY DEF IInv
<1>1. /\ conn[f] \in Up \cup {"none", "Disconnected"} /\ conn'[f] \in Up \cup {"none", "Disconnected"}
      /\ conn[f] # "none" => sock[f] # "free"
    BY <1>0 DEF TypeOK, ConnStates, Up, ConnInv
<1>2. ASSUME conn'[f] = conn[f] \/ (conn[f] \in Up /\ conn'[f] \in Up), sock[f] = "free" <=> sock'[f] = "free"
      PROVE  FALSE
    BY <1>1, <1>2, PhaseValue, PhaseValueNext DEF Up
<1>3. CASE UNCHANGED <<sock, conn>> BY <1>2, <1>3
<1>4. ASSUME conn'[f] = conn[f], conn[f] = "none" PROVE <<Phase[f], Phase'[f]>> \in Descriptors!Transitions
    BY <1>2, <1>4, PhaseValue, PhaseValueNext
<1>5. ASSUME NEW g \in Fds, conn[g] = "none", NEW v, sock' = [sock EXCEPT ![g] = v], UNCHANGED conn
      PROVE  <<Phase[f], Phase'[f]>> \in Descriptors!Transitions
  <2>1. CASE f = g BY <1>4, <1>5, <2>1
  <2>2. CASE f # g BY <1>2, <1>5, <2>2, <1>0 DEF TypeOK
  <2> QED BY <2>1, <2>2
<1>6. CASE start_in_loop /\ UNCHANGED <<clientVars, history>>
  <2>1. UNCHANGED conn BY <1>6 DEF clientVars
  <2>2. CASE connect_socket
    <3>1. PICK g \in Fds : /\ sock[g] = "free"
                           /\ \/ sock' = [sock EXCEPT ![g] = "connecting"]
                              \/ sock' = [sock EXCEPT ![g] = "open"]
                              \/ UNCHANGED sock
        BY <2>2 DEF connect_socket, connecting
    <3>2. conn[g] = "none" BY <3>1, <1>0 DEF ConnInv
    <3> QED BY <2>1, <3>1, <3>2, <1>3, <1>5
  <2> QED BY <1>6, <2>1, <2>2, <1>3 DEF start_in_loop
<1>7. CASE retry /\ UNCHANGED <<clientVars, history>>
  <2>1. sock_fd \in Fds /\ conn[sock_fd] = "none" BY <1>7, <1>0 DEF retry, At, LoopCallInv, InHand
  <2> QED BY <1>7, <2>1, <1>5 DEF retry, Close, clientVars
<1>8. CASE handle_write /\ UNCHANGED <<clientVars, history>>
  <2>1. CASE UNCHANGED sock BY <1>8, <2>1, <1>3 DEF clientVars
  <2>2. CASE state_ = "Connecting" /\ Close(channel_)
    <3>1. call[LoopThread] = "idle" /\ pc = "events" BY <1>8 DEF handle_write, Calls, Idle
    <3>2. Watching BY <2>2, <3>1, <1>0 DEF ChannelInv
    <3>3. channel_ \in Fds /\ conn[channel_] = "none" BY <3>2, AttemptIsWatched
    <3> QED BY <1>8, <2>2, <3>3, <1>5 DEF Close, clientVars
  <2> QED BY <1>8, <2>1, <2>2 DEF handle_write, AttemptOver
<1>9. CASE ConnectorLoopStep /\ UNCHANGED <<clientVars, history>>
  <2>1. CASE ~start_in_loop /\ ~retry /\ ~handle_write
      BY <1>9, <2>1, <1>3 DEF ConnectorLoopStep, retry_run_after, handle_error, poll, RunTimer,
         do_pending_functors, run_start, reset_channel, run_cancel, clientVars
  <2> QED BY <1>6, <1>7, <1>8, <1>9, <2>1
<1>10. CASE new_connection
  <2>1. sock' = sock /\ sock_fd \in Fds /\ sock[sock_fd] # "free" /\ conn[sock_fd] = "none"
      BY <1>10, <1>0 DEF new_connection, At, LoopCallInv, InHand
  <2>2. CASE conn' = [conn EXCEPT ![sock_fd] = "Connected"]
    <3>1. CASE f = sock_fd
      <4>1. conn'[f] \in Up BY <2>2, <3>1, <1>0 DEF TypeOK, Up
      <4> QED BY <2>1, <3>1, <4>1, PhaseValue, PhaseValueNext
    <3>2. CASE f # sock_fd BY <2>1, <2>2, <3>2, <1>2, <1>0 DEF TypeOK
    <3> QED BY <3>1, <3>2
  <2> QED BY <1>10, <2>1, <2>2, <1>3 DEF new_connection
<1>11. CASE restart \/ \E g \in Fds : remove_connection(g)
    BY <1>11, <1>3 DEF restart, remove_connection, clientVars
<1>12. CASE connect_destoryed
  <2>1. sock' = sock BY <1>12 DEF connect_destoryed
  <2>2. CASE conn[f] \in Up /\ conn'[f] = "Disconnected"
      BY <2>1, <2>2, <1>1, PhaseValue, PhaseValueNext DEF Up
  <2>3. CASE conn'[f] = conn[f] BY <2>1, <2>3, <1>2
  <2>4. conn'[f] = conn[f] \/ (conn[f] \in Up /\ conn'[f] = "Disconnected")
      BY <1>12, <1>0 DEF connect_destoryed, TypeOK, Up
  <2> QED BY <2>2, <2>3, <2>4
<1>13. CASE pending_done
  <2>1. \/ conn[f] = "Disconnected" /\ sock'[f] = "free"
        \/ conn[f] # "Disconnected" /\ conn'[f] = conn[f] /\ sock'[f] = sock[f]
      BY <1>13 DEF pending_done
  <2> QED BY <2>1, <1>1, <1>2, PhaseValue, PhaseValueNext
<1>14. CASE Kernel
  <2>1. conn' = conn /\ (sock[f] = "free" <=> sock'[f] = "free")
      BY <1>14, <1>0 DEF Kernel, Resolve, Expire, PeerCloses, clientVars, TypeOK
  <2> QED BY <2>1, <1>2
<1>15. CASE \E t \in Users : connect(t) \/ client_stop(t) \/ disconnect(t)
    BY <1>15, <1>3 DEF connect, client_stop, disconnect
<1>16. CASE \E t \in Threads : CallStep(t)
  <2>1. PICK t \in Threads : CallStep(t) BY <1>16
  <2>2. CASE disconnect_shutdown(t)
    <3>1. sock' = sock /\ (conn'[f] = conn[f] \/ (conn[f] \in Up /\ conn'[f] \in Up))
        BY <2>2 DEF disconnect_shutdown, Up
    <3> QED BY <3>1, <1>2
  <2>3. CASE ~disconnect_shutdown(t)
      BY <2>1, <2>3, <1>3 DEF CallStep, start, start_run_in_loop, stop, stop_cancel, clientVars
  <2> QED BY <2>2, <2>3
<1> QED BY <1>9, <1>10, <1>11, <1>12, <1>13, <1>14, <1>15, <1>16 DEF Next, LoopStep

\* TcpClient implements Lifecycle: a descriptor is closed again, or announced once,
\* reported down once and closed only then, whatever the calls and the retries.
THEOREM ClientIsLifecycle == Spec => IsLifecycle
<1>1. ASSUME Init PROVE Descriptors!Init
  <2>1. ASSUME NEW f \in Fds PROVE Phase[f] = "free"
    <3>1. sock[f] = "free" BY <1>1 DEF Init, ConnectorInit
    <3> QED BY <1>1, <3>1, InitEstablishes, PhaseValue
  <2> QED BY <2>1 DEF Descriptors!Init, Phase
<1>2. ASSUME IInv, IInv', [Next]_vars PROVE [Descriptors!Next]_Phase
  <2>1. CASE Next
    <3>1. ASSUME NEW f \in Fds PROVE Phase'[f] \in Descriptors!Phases
      <4>1. conn'[f] \in Up \cup {"none", "Disconnected"} BY <1>2 DEF IInv, TypeOK, ConnStates, Up
      <4> QED BY <1>2, <4>1, PhaseValueNext DEF Descriptors!Phases
    <3>2. Phase' \in [Fds -> Descriptors!Phases] BY <3>1 DEF Phase
    <3>3. \A f \in Fds : Phase'[f] # Phase[f] => <<Phase[f], Phase'[f]>> \in Descriptors!Transitions
        BY <1>2, <2>1, PhaseStep
    <3> QED BY <3>2, <3>3 DEF Descriptors!Next
  <2>2. CASE UNCHANGED vars BY <2>2 DEF vars, connectorVars, clientVars, Phase
  <2> QED BY <1>2, <2>1, <2>2
<1> QED BY <1>1, <1>2, Invariance, PTL DEF Spec, IsLifecycle, Descriptors!Spec

=============================================================================
