---------------------------- MODULE TcpConnection ----------------------------
(***************************************************************************)
(* tcp/TcpConnection.{hpp,cpp} and Channel::handle_event: one connection,  *)
(* its loop thread, other threads that call send() and shutdown(), and the *)
(* peer behind the kernel's socket.                                        *)
(*                                                                         *)
(* The loop's queue is FIFO and a functor queued by a callback runs before *)
(* the next poll, as module EventLoop shows.  output_buffer_ is the byte   *)
(* stream that module Buffer implements; the poller watches events_, as    *)
(* module Pollers shows.  A thread that calls the connection keeps its     *)
(* TcpConnectionPtr, so the object stays.                                  *)
(***************************************************************************)
EXTENDS Naturals, Sequences

CONSTANTS
    Callers,    \* the threads other than the loop's
    Messages,   \* each is sent at most once
    Payload,    \* [Messages -> sequences of bytes]
    None,
    MaxInbox,   \* bound: chunks the peer has sent and nobody has read
    MaxOutput   \* bound: bytes in all messages together

\* The bytes that occur in messages.
Byte == UNION {{Payload[m][i] : i \in DOMAIN Payload[m]} : m \in Messages}

\* A send of no bytes neither writes nor buffers any and is left out.
ASSUME PayloadAssumption == \A m \in Messages : Payload[m] \in Seq(Byte) \ {<<>>}
ASSUME TcpMarkersAssumption == None \notin Messages /\ MaxInbox \in Nat /\ MaxOutput \in Nat

VARIABLES
    state_,
    events_,         \* events_ of channel_
    output_buffer_,  \* its readable bytes
    pc,              \* the loop thread: "poll", "events", "functors" or "aborted"
    todo,            \* callbacks Channel::handle_event is still to call
    pending,         \* the loop's pending_functors_
    functors,        \* the batch do_pending_functors is running
    call,            \* per other thread: the functor it is about to queue, or None
    sent,            \* messages passed to a send() that found the connection Connected
    inbox,           \* kernel: chunks to read
    peer,            \* kernel: "open", "fin" or "reset"
    sockerr,         \* kernel: an error is waiting to be reported
    room,            \* kernel: the socket accepts data
    shut,            \* kernel: shutdown_write() has been called
    accepted,        \* history: bytes handed to send_in_loop
    wire,            \* history: bytes the kernel took
    told,            \* history: length of wire at the last write_complete_callback_
    closed           \* history: handle_close has been called

kernel == <<inbox, peer, sockerr, room, shut>>
history == <<accepted, wire, told, closed>>
vars == <<state_, events_, output_buffer_, pc, todo, pending, functors, call, sent, kernel, history>>

States == {"Connecting", "Connected", "Disconnecting", "Disconnected"}
Ops == {"send", "shutdown", "write_complete", "destroy"}
Functor(op) == [op |-> op, msg |-> None]

Init ==
    /\ state_ = "Connecting"
    /\ events_ = {}
    /\ output_buffer_ = <<>>
    /\ pc = "poll"
    /\ todo = <<>>
    /\ pending = <<>>
    /\ functors = <<>>
    /\ call = [t \in Callers |-> None]
    /\ sent = {}
    /\ inbox = 0
    /\ peer = "open"
    /\ sockerr = FALSE
    /\ room = TRUE
    /\ shut = FALSE
    /\ accepted = <<>>
    /\ wire = <<>>
    /\ told = 0
    /\ closed = FALSE

is_writing == "write" \in events_

-----------------------------------------------------------------------------
(* The kernel and the peer *)

\* What write(2) of n bytes may return; an error, EAGAIN too, counts as 0.
WriteResults(n) == IF peer = "reset" \/ shut \/ ~room THEN {0} ELSE 1..n

\* k of n bytes have been taken.
Wrote(k, n) == room' \in (IF k = n THEN {room, FALSE} ELSE {FALSE})

PeerSends ==
    /\ peer = "open"
    /\ inbox < MaxInbox
    /\ inbox' = inbox + 1
    /\ UNCHANGED <<state_, events_, output_buffer_, pc, todo, pending, functors, call, sent,
                   peer, sockerr, room, shut, history>>

PeerReads ==
    /\ peer # "reset"
    /\ ~room
    /\ room' = TRUE
    /\ UNCHANGED <<state_, events_, output_buffer_, pc, todo, pending, functors, call, sent,
                   inbox, peer, sockerr, shut, history>>

\* The peer's FIN arrives, or its RST.
PeerCloses ==
    /\ peer # "reset"
    /\ \/ peer = "open" /\ peer' = "fin" /\ UNCHANGED sockerr
       \/ peer' = "reset" /\ sockerr' = TRUE
    /\ UNCHANGED <<state_, events_, output_buffer_, pc, todo, pending, functors, call, sent,
                   inbox, room, shut, history>>

\* revents: what was asked for and is ready; POLLHUP and POLLERR come unasked.
Ready ==
    {e \in {"in", "out", "hup", "err"} :
        \/ e = "in" /\ "read" \in events_ /\ (inbox > 0 \/ peer # "open")
        \/ e = "out" /\ is_writing /\ (room \/ shut \/ peer = "reset")
        \/ e = "hup" /\ events_ # {} /\ (peer = "reset" \/ (peer = "fin" /\ shut))
        \/ e = "err" /\ events_ # {} /\ sockerr}

-----------------------------------------------------------------------------
(* Operations of the connection, in the loop thread *)

\* message.data() + n_wrote
Rest(data, k) == SubSeq(data, k + 1, Len(data))

\* Mutant: new data goes to the socket past the data that waits.
WriteDirectly_Always == TRUE

\* Nothing in the output queue: try writing directly.
WriteDirectly == ~is_writing /\ output_buffer_ = <<>>

\* Mutant: what is left over is buffered, and nobody waits for room.
send_in_loop_NoEnable(m) ==
    LET data == Payload[m]
    IN  \E k \in (IF WriteDirectly THEN WriteResults(Len(data)) ELSE {0}) :
          /\ accepted' = accepted \o data
          /\ wire' = wire \o SubSeq(data, 1, k)
          /\ IF WriteDirectly THEN Wrote(k, Len(data)) ELSE UNCHANGED room
          /\ output_buffer_' = output_buffer_ \o Rest(data, k)
          /\ UNCHANGED events_
          /\ pending' = IF k = Len(data) THEN Append(pending, Functor("write_complete")) ELSE pending

\* send_in_loop: write, buffer the rest and wait for POLLOUT, or report completion.
send_in_loop(m) ==
    LET data == Payload[m]
    IN  \E k \in (IF WriteDirectly THEN WriteResults(Len(data)) ELSE {0}) :
          /\ accepted' = accepted \o data
          /\ wire' = wire \o SubSeq(data, 1, k)
          /\ IF WriteDirectly THEN Wrote(k, Len(data)) ELSE UNCHANGED room
          /\ output_buffer_' = output_buffer_ \o Rest(data, k)
          /\ events_' = IF k < Len(data) THEN events_ \cup {"write"} ELSE events_
          /\ pending' = IF k = Len(data) THEN Append(pending, Functor("write_complete")) ELSE pending

\* Mutant: the data that waits is not waited for.
ShutsNow_Always(ev) == TRUE

\* The test of shutdown_in_loop.
ShutsNow(ev) == "write" \notin ev

\* shutdown_in_loop, when channel_'s events are ev.
shutdown_in_loop(ev) == shut' = (shut \/ ShutsNow(ev))

\* connect_established; the owner calls it in a callback of another channel.
connect_established ==
    /\ pc = "events"
    /\ state_ = "Connecting"
    /\ state_' = "Connected"
    /\ events_' = events_ \cup {"read"}
    /\ UNCHANGED <<output_buffer_, pc, todo, pending, functors, call, sent, kernel, history>>

\* handle_close; close_callback_ of TcpServer and TcpClient queues connect_destoryed.
\* The assertion fails in the state Disconnected.
handle_close ==
    IF state_ \in {"Connected", "Disconnecting"}
    THEN /\ events_' = {}
         /\ pending' = Append(pending, Functor("destroy"))
         /\ closed' = TRUE
         /\ todo' = Tail(todo)
         /\ UNCHANGED pc
    ELSE /\ pc' = "aborted"
         /\ UNCHANGED <<events_, pending, closed, todo>>

-----------------------------------------------------------------------------
(* Channel::handle_event *)

\* Mutant: POLLHUP closes although there is input left.
CloseCondition_HupOnly(r) == "hup" \in r

CloseCondition(r) == "hup" \in r /\ "in" \notin r

When(condition, callback) == IF condition THEN <<callback>> ELSE <<>>

\* The callbacks handle_event calls for revents r, in order.
Callbacks(r) ==
    When(CloseCondition(r), "close") \o When("err" \in r, "error")
        \o When("in" \in r, "read") \o When("out" \in r, "write")

Calls(callback) == pc = "events" /\ todo # <<>> /\ Head(todo) = callback

close_callback ==
    /\ Calls("close")
    /\ handle_close
    /\ UNCHANGED <<state_, output_buffer_, functors, call, sent, kernel, accepted, wire, told>>

\* getSocketError takes the error; there is no more to handle_error.
handle_error ==
    /\ Calls("error")
    /\ todo' = Tail(todo)
    /\ sockerr' = FALSE
    /\ UNCHANGED <<state_, events_, output_buffer_, pc, pending, functors, call, sent,
                   inbox, peer, room, shut, history>>

\* handle_read: data (for message_callback_), an error, or the end.
handle_read ==
    /\ Calls("read")
    /\ \/ /\ inbox > 0
          /\ inbox' \in 0..(inbox - 1)
          /\ todo' = Tail(todo)
          /\ UNCHANGED <<events_, pc, pending, sockerr, closed>>
       \/ /\ inbox = 0
          /\ sockerr
          /\ sockerr' = FALSE
          /\ todo' = Tail(todo)
          /\ UNCHANGED <<events_, pc, pending, inbox, closed>>
       \/ /\ inbox = 0
          /\ ~sockerr
          /\ handle_close
          /\ UNCHANGED <<inbox, sockerr>>
    /\ UNCHANGED <<state_, output_buffer_, functors, call, sent, peer, room, shut, accepted, wire, told>>

\* Mutant: a shutdown() that found the channel writing is forgotten.
Drained_NoShutdown ==
    /\ events_' = events_ \ {"write"}
    /\ pending' = Append(pending, Functor("write_complete"))
    /\ UNCHANGED shut

\* Mutant: nobody is told that the buffer has been written.
Drained_NoCallback ==
    /\ events_' = events_ \ {"write"}
    /\ UNCHANGED pending
    /\ IF state_ = "Disconnecting" THEN shutdown_in_loop(events_') ELSE UNCHANGED shut

\* Mutant: the channel goes on waiting for POLLOUT.
Drained_KeepWriting ==
    /\ UNCHANGED events_
    /\ pending' = Append(pending, Functor("write_complete"))
    /\ IF state_ = "Disconnecting" THEN shutdown_in_loop(events_') ELSE UNCHANGED shut

\* handle_write has emptied output_buffer_.
Drained ==
    /\ events_' = events_ \ {"write"}
    /\ pending' = Append(pending, Functor("write_complete"))
    /\ IF state_ = "Disconnecting" THEN shutdown_in_loop(events_') ELSE UNCHANGED shut

handle_write ==
    /\ Calls("write")
    /\ todo' = Tail(todo)
    /\ \/ /\ is_writing
          /\ \E k \in WriteResults(Len(output_buffer_)) :
               /\ wire' = wire \o SubSeq(output_buffer_, 1, k)
               /\ output_buffer_' = Rest(output_buffer_, k)
               /\ Wrote(k, Len(output_buffer_))
               /\ IF k = Len(output_buffer_) THEN Drained ELSE UNCHANGED <<events_, pending, shut>>
       \/ /\ ~is_writing
          /\ UNCHANGED <<output_buffer_, wire, room, events_, pending, shut>>
    /\ UNCHANGED <<state_, pc, functors, call, sent, inbox, peer, sockerr, accepted, told, closed>>

-----------------------------------------------------------------------------
(* Operations of the user *)

\* User code runs in the loop thread in callbacks and functors.
InLoopThread == pc \in {"events", "functors"}

send(m) ==
    /\ InLoopThread
    /\ state_ = "Connected"
    /\ m \notin sent
    /\ sent' = sent \cup {m}
    /\ send_in_loop(m)
    /\ UNCHANGED <<state_, pc, todo, functors, call, inbox, peer, sockerr, shut, told, closed>>

\* send() in another thread: the test of state_ ...
send_queued(t, m) ==
    /\ call[t] = None
    /\ state_ = "Connected"
    /\ m \notin sent
    /\ sent' = sent \cup {m}
    /\ call' = [call EXCEPT ![t] = [op |-> "send", msg |-> m]]
    /\ UNCHANGED <<state_, events_, output_buffer_, pc, todo, pending, functors, kernel, history>>

\* shutdown(): the compare_exchange succeeds once.
shutdown ==
    /\ InLoopThread
    /\ state_ = "Connected"
    /\ state_' = "Disconnecting"
    /\ shutdown_in_loop(events_)
    /\ UNCHANGED <<events_, output_buffer_, pc, todo, pending, functors, call, sent,
                   inbox, peer, sockerr, room, history>>

\* shutdown() in another thread: the compare_exchange ...
shutdown_queued(t) ==
    /\ call[t] = None
    /\ state_ = "Connected"
    /\ state_' = "Disconnecting"
    /\ call' = [call EXCEPT ![t] = Functor("shutdown")]
    /\ UNCHANGED <<events_, output_buffer_, pc, todo, pending, functors, sent, kernel, history>>

\* ... and the functor queued by run_in_loop.
queue_in_loop(t) ==
    /\ call[t] # None
    /\ pending' = Append(pending, call[t])
    /\ call' = [call EXCEPT ![t] = None]
    /\ UNCHANGED <<state_, events_, output_buffer_, pc, todo, functors, sent, kernel, history>>

-----------------------------------------------------------------------------
(* The loop *)

poll ==
    /\ pc = "poll"
    /\ pc' = "events"
    /\ todo' = Callbacks(Ready)
    /\ UNCHANGED <<state_, events_, output_buffer_, pending, functors, call, sent, kernel, history>>

do_pending_functors ==
    /\ pc = "events"
    /\ todo = <<>>
    /\ pc' = "functors"
    /\ functors' = pending
    /\ pending' = <<>>
    /\ UNCHANGED <<state_, events_, output_buffer_, todo, call, sent, kernel, history>>

Runs(op) == pc = "functors" /\ functors # <<>> /\ Head(functors).op = op

run_send ==
    /\ Runs("send")
    /\ functors' = Tail(functors)
    /\ send_in_loop(Head(functors).msg)
    /\ UNCHANGED <<state_, pc, todo, call, sent, inbox, peer, sockerr, shut, told, closed>>

run_shutdown ==
    /\ Runs("shutdown")
    /\ functors' = Tail(functors)
    /\ shutdown_in_loop(events_)
    /\ UNCHANGED <<state_, events_, output_buffer_, pc, todo, pending, call, sent,
                   inbox, peer, sockerr, room, history>>

run_write_complete ==
    /\ Runs("write_complete")
    /\ functors' = Tail(functors)
    /\ told' = Len(wire)
    /\ UNCHANGED <<state_, events_, output_buffer_, pc, todo, pending, call, sent, kernel,
                   accepted, wire, closed>>

\* disable_all, connect_callback_ and remove_channel.
connect_destoryed ==
    /\ Runs("destroy")
    /\ functors' = Tail(functors)
    /\ state_' = "Disconnected"
    /\ events_' = {}
    /\ UNCHANGED <<output_buffer_, pc, todo, pending, call, sent, kernel, history>>

pending_done ==
    /\ pc = "functors"
    /\ functors = <<>>
    /\ pc' = "poll"
    /\ UNCHANGED <<state_, events_, output_buffer_, todo, pending, functors, call, sent, kernel, history>>

LoopStep ==
    \/ poll
    \/ close_callback
    \/ handle_error
    \/ handle_read
    \/ handle_write
    \/ do_pending_functors
    \/ run_send
    \/ run_shutdown
    \/ run_write_complete
    \/ connect_destoryed
    \/ pending_done

Next ==
    \/ LoopStep
    \/ connect_established
    \/ \E m \in Messages : send(m)
    \/ shutdown
    \/ \E t \in Callers :
         \/ \E m \in Messages : send_queued(t, m)
         \/ shutdown_queued(t)
         \/ queue_in_loop(t)
    \/ PeerSends
    \/ PeerReads
    \/ PeerCloses

(***************************************************************************)
(* The loop runs, a thread inside send() or shutdown() gets on, and the    *)
(* peer goes on reading until it closes.  Nobody has to call anything, and *)
(* the peer need not send or close.                                        *)
(***************************************************************************)
Fairness ==
    /\ WF_vars(LoopStep)
    /\ \A t \in Callers : WF_vars(queue_in_loop(t))
    /\ WF_vars(PeerReads)

Spec == Init /\ [][Next]_vars
FairSpec == Spec /\ Fairness

-----------------------------------------------------------------------------
(* Properties *)

\* Every variable of the connection, the loop and the kernel keeps its type.
TypeOK ==
    /\ state_ \in States
    /\ events_ \in SUBSET {"read", "write"}
    /\ output_buffer_ \in Seq(Byte)
    /\ pc \in {"poll", "events", "functors", "aborted"}
    /\ todo \in Seq({"close", "error", "read", "write"})
    /\ pending \in Seq([op : Ops, msg : Messages \cup {None}])
    /\ functors \in Seq([op : Ops, msg : Messages \cup {None}])
    /\ call \in [Callers -> [op : Ops, msg : Messages \cup {None}] \cup {None}]
    /\ sent \in SUBSET Messages
    /\ inbox \in 0..MaxInbox
    /\ peer \in {"open", "fin", "reset"}
    /\ sockerr \in BOOLEAN
    /\ room \in BOOLEAN
    /\ shut \in BOOLEAN
    /\ accepted \in Seq(Byte)
    /\ wire \in Seq(Byte)
    /\ told \in Nat
    /\ closed \in BOOLEAN

\* What the peer gets is what was sent, in order and once: direct writes, partial
\* writes and the output buffer never drop, repeat or overtake a byte.
StreamInOrder == accepted = wire \o output_buffer_

\* The channel waits for POLLOUT exactly while there is output to write: with less
\* the rest would never leave, with more the loop would spin.
WritesWhenNeeded == ~closed => (is_writing <=> output_buffer_ # <<>>)

\* shutdown() never cuts off output that send_in_loop has buffered, unless the
\* connection has been closed by then.
DrainBeforeShutdown == [][~shut /\ shut' => output_buffer_' = <<>> \/ closed]_vars

\* A connection is closed only when all that the peer sent has been read, also
\* when the reset comes in the same round as the data.
NoInputLost == [][~closed /\ closed' => inbox = 0]_vars

\* connect_destoryed's assertion: it runs once, however many events ask for a close.
DestroyedOnce == Runs("destroy") => state_ \in {"Connected", "Disconnecting"}

\* handle_close's assertion: a close is only handled on a connection that is up.
CloseAssertion == pc # "aborted"

\* Buffered output is written in the end while the connection is up and the peer
\* goes on reading.
OutputDrains == (output_buffer_ # <<>> /\ ~closed) ~> (output_buffer_ = <<>> \/ closed \/ shut)

\* shutdown() from any thread, at once or after the output has drained, shuts the
\* socket down.
ShutdownHappens == (state_ = "Disconnecting") ~> (shut \/ closed)

\* Whenever all output has been written, write_complete_callback_ is called.
WriteCompleteTold ==
    \A n \in 1..MaxOutput :
        (wire = accepted /\ Len(wire) = n) ~> (told >= n \/ pc = "aborted")

=============================================================================
