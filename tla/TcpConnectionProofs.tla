------------------------- MODULE TcpConnectionProofs -------------------------
(***************************************************************************)
(* Proofs about TcpConnection for any messages, any threads that send them *)
(* and any way the kernel takes the bytes.                                 *)
(***************************************************************************)
EXTENDS TcpConnection, SequenceTheorems, TLAPS

\* What may be queued: only send_in_loop has an argument.
GoodFunctors == {g \in [op : Ops, msg : Messages \cup {None}] : g.op = "send" => g.msg \in Messages}

QueueInv ==
    /\ pending \in Seq(GoodFunctors)
    /\ functors \in Seq(GoodFunctors)
    /\ \A t \in Callers : call[t] # None => call[t] \in GoodFunctors /\ call[t].op # "destroy"
    /\ pc # "functors" => functors = <<>>

\* POLLOUT is asked for only with output to write, and always then on an open connection.
OutputInv ==
    /\ is_writing => output_buffer_ # <<>>
    /\ ~closed /\ output_buffer_ # <<>> => is_writing

\* An open connection reads, and nothing has been asked of it before it is established.
ReadInv ==
    /\ state_ = "Connecting" =>
           /\ events_ = {} /\ pending = <<>> /\ functors = <<>> /\ ~closed
           /\ \A t \in Callers : call[t] = None
    /\ state_ # "Connecting" /\ ~closed => "read" \in events_

\* The callbacks that may close the connection.
Closers == {"close", "read"}

Once(s) == \A i, j \in DOMAIN s : s[i] \in Closers /\ s[j] \in Closers => i = j

\* One round of events closes at most once, and not by POLLHUP as long as the channel reads.
TodoInv ==
    /\ Once(todo)
    /\ \A i \in DOMAIN todo : todo[i] = "close" => closed

\* The position of connect_destoryed in a queue.
Destroys(q) == {i \in DOMAIN q : q[i].op = "destroy"}

\* connect_destoryed is queued once, in the round that closes, and runs before the next.
DestroyInv ==
    /\ Destroys(pending) # {} => pc = "events" /\ \A i \in DOMAIN todo : todo[i] \notin Closers
    /\ Destroys(pending) \cup Destroys(functors) # {} => state_ \in {"Connected", "Disconnecting"} /\ closed
    /\ \A i, j \in Destroys(pending) : i = j
    /\ \A i, j \in Destroys(functors) : i = j

IInv ==
    TypeOK /\ QueueInv /\ StreamInOrder /\ OutputInv /\ ReadInv /\ TodoInv /\ DestroyInv
-----------------------------------------------------------------------------
(* Sequences *)

\* Concatenation is associative.
LEMMA ConcatAssoc ==
    ASSUME NEW S, NEW s \in Seq(S), NEW t \in Seq(S), NEW u \in Seq(S)
    PROVE  (s \o t) \o u = s \o (t \o u)
<1>1. (s \o t) \o u \in Seq(S) /\ s \o (t \o u) \in Seq(S) OBVIOUS
<1>2. Len((s \o t) \o u) = Len(s \o (t \o u)) OBVIOUS
<1>3. \A i \in 1..Len((s \o t) \o u) : ((s \o t) \o u)[i] = (s \o (t \o u))[i] OBVIOUS
<1> QED BY <1>1, <1>2, <1>3, SeqEqual

\* Nothing and a sequence make that sequence.
LEMMA ConcatEmpty == ASSUME NEW S, NEW s \in Seq(S) PROVE <<>> \o s = s /\ s \o <<>> = s
<1>1. <<>> \o s \in Seq(S) /\ s \o <<>> \in Seq(S) OBVIOUS
<1>2. Len(<<>> \o s) = Len(s) /\ Len(s \o <<>>) = Len(s) OBVIOUS
<1>3. \A i \in 1..Len(s) : (<<>> \o s)[i] = s[i] /\ (s \o <<>>)[i] = s[i] OBVIOUS
<1> QED BY <1>1, <1>2, <1>3, SeqEqual

\* The bytes the kernel has taken and the rest are the data.
LEMMA SplitData ==
    ASSUME NEW S, NEW s \in Seq(S), NEW k \in 0..Len(s)
    PROVE  /\ SubSeq(s, 1, k) \in Seq(S) /\ Rest(s, k) \in Seq(S)
           /\ Len(Rest(s, k)) = Len(s) - k
           /\ SubSeq(s, 1, k) \o Rest(s, k) = s
<1>1. Len(s) \in Nat /\ \A i \in 1..Len(s) : s[i] \in S OBVIOUS
<1>2. /\ SubSeq(s, 1, k) = [i \in 1..k |-> s[i]]
      /\ Rest(s, k) = [i \in 1..(Len(s) - k) |-> s[i + k]]
    BY <1>1 DEF Rest
<1>3. /\ SubSeq(s, 1, k) \in Seq(S) /\ Len(SubSeq(s, 1, k)) = k
      /\ Rest(s, k) \in Seq(S) /\ Len(Rest(s, k)) = Len(s) - k
    BY <1>1, <1>2
<1>4. SubSeq(s, 1, k) \o Rest(s, k) \in Seq(S) /\ Len(SubSeq(s, 1, k) \o Rest(s, k)) = Len(s)
    BY <1>1, <1>3
<1>5. \A i \in 1..Len(s) : (SubSeq(s, 1, k) \o Rest(s, k))[i] = s[i]
    BY <1>1, <1>2, <1>3
<1> QED BY <1>3, <1>4, <1>5, SeqEqual

\* queue_in_loop of another functor leaves connect_destoryed where it is.
LEMMA AppendOther ==
    ASSUME NEW S, NEW q \in Seq(S), NEW g \in S, g.op # "destroy"
    PROVE  Destroys(Append(q, g)) = Destroys(q)
<1>1. /\ Len(q) \in Nat /\ DOMAIN q = 1..Len(q)
      /\ DOMAIN Append(q, g) = 1..(Len(q) + 1)
      /\ Append(q, g)[Len(q) + 1] = g
      /\ \A i \in 1..Len(q) : Append(q, g)[i] = q[i]
    OBVIOUS
<1> QED BY <1>1 DEF Destroys

\* queue_in_loop of connect_destoryed.
LEMMA AppendDestroy ==
    ASSUME NEW S, NEW q \in Seq(S), NEW g \in S, Destroys(q) = {}
    PROVE  \A i, j \in Destroys(Append(q, g)) : i = j
<1>1. /\ Len(q) \in Nat /\ DOMAIN q = 1..Len(q)
      /\ DOMAIN Append(q, g) = 1..(Len(q) + 1)
      /\ \A i \in 1..Len(q) : Append(q, g)[i] = q[i]
    OBVIOUS
<1> QED BY <1>1 DEF Destroys

\* The first functor of a queue is taken off.
LEMMA TailDestroys ==
    ASSUME NEW S, NEW q \in Seq(S), q # <<>>, \A i, j \in Destroys(q) : i = j
    PROVE  /\ Tail(q) \in Seq(S)
           /\ \A i, j \in Destroys(Tail(q)) : i = j
           /\ Destroys(q) = {} => Destroys(Tail(q)) = {}
           /\ Head(q).op = "destroy" => Destroys(q) # {} /\ Destroys(Tail(q)) = {}
<1>1. /\ Len(q) \in Nat /\ DOMAIN q = 1..Len(q) /\ Len(q) > 0
      /\ Head(q) = q[1] /\ Tail(q) \in Seq(S)
      /\ DOMAIN Tail(q) = 1..(Len(q) - 1)
      /\ \A i \in 1..(Len(q) - 1) : Tail(q)[i] = q[i + 1]
    OBVIOUS
<1>2. \A i \in Destroys(Tail(q)) : i \in Nat /\ i > 0 /\ i + 1 \in Destroys(q) BY <1>1 DEF Destroys
<1>3. Head(q).op = "destroy" => 1 \in Destroys(q) BY <1>1 DEF Destroys
<1>4. \A i, j \in Destroys(Tail(q)) : i = j
  <2> SUFFICES ASSUME NEW i \in Destroys(Tail(q)), NEW j \in Destroys(Tail(q)) PROVE i = j OBVIOUS
  <2>1. i + 1 = j + 1 BY <1>2
  <2> QED BY <1>2, <2>1
<1>5. Head(q).op = "destroy" => Destroys(Tail(q)) = {}
  <2> SUFFICES ASSUME Head(q).op = "destroy", NEW i \in Destroys(Tail(q)) PROVE FALSE OBVIOUS
  <2>1. i + 1 = 1 BY <1>2, <1>3
  <2> QED BY <1>2, <2>1
<1> QED BY <1>1, <1>2, <1>3, <1>4, <1>5

\* The first callback of a round has been called.
LEMMA TailTodo ==
    ASSUME TypeOK, TodoInv, todo # <<>>
    PROVE  /\ Tail(todo) \in Seq({"close", "error", "read", "write"})
           /\ Once(Tail(todo))
           /\ \A i \in DOMAIN Tail(todo) : \E j \in DOMAIN todo : Tail(todo)[i] = todo[j]
           /\ Head(todo) \in Closers => \A i \in DOMAIN Tail(todo) : Tail(todo)[i] \notin Closers
           /\ \E j \in DOMAIN todo : Head(todo) = todo[j]
<1>1. /\ Len(todo) \in Nat /\ DOMAIN todo = 1..Len(todo) /\ Len(todo) > 0
      /\ Head(todo) = todo[1] /\ Tail(todo) \in Seq({"close", "error", "read", "write"})
      /\ DOMAIN Tail(todo) = 1..(Len(todo) - 1)
      /\ \A i \in 1..(Len(todo) - 1) : Tail(todo)[i] = todo[i + 1]
    BY DEF TypeOK
<1>2. \A i \in DOMAIN Tail(todo) : i \in Nat /\ i > 0 /\ i + 1 \in DOMAIN todo /\ Tail(todo)[i] = todo[i + 1]
    BY <1>1
<1>3. ASSUME NEW i \in DOMAIN Tail(todo), NEW j \in DOMAIN Tail(todo),
             Tail(todo)[i] \in Closers, Tail(todo)[j] \in Closers
      PROVE  i = j
  <2>1. i + 1 = j + 1 BY <1>2, <1>3 DEF TodoInv, Once
  <2> QED BY <1>2, <2>1
<1>4. ASSUME Head(todo) \in Closers, NEW i \in DOMAIN Tail(todo), Tail(todo)[i] \in Closers PROVE FALSE
  <2>1. i + 1 = 1 BY <1>1, <1>2, <1>4 DEF TodoInv, Once
  <2> QED BY <1>2, <2>1
<1> QED BY <1>1, <1>2, <1>3, <1>4 DEF Once

Callback == {"close", "error", "read", "write"}

\* Two lists of callbacks one after the other, one of them without a closer.
LEMMA ConcatOnce ==
    ASSUME NEW s \in Seq(Callback), NEW t \in Seq(Callback), Once(s), Once(t),
           \/ \A i \in DOMAIN s : s[i] \notin Closers
           \/ \A i \in DOMAIN t : t[i] \notin Closers
    PROVE  /\ s \o t \in Seq(Callback)
           /\ Once(s \o t)
           /\ \A i \in DOMAIN (s \o t) : \/ \E j \in DOMAIN s : (s \o t)[i] = s[j]
                                         \/ \E j \in DOMAIN t : (s \o t)[i] = t[j]
<1>1. /\ Len(s) \in Nat /\ DOMAIN s = 1..Len(s) /\ Len(t) \in Nat /\ DOMAIN t = 1..Len(t)
      /\ s \o t \in Seq(Callback)
      /\ DOMAIN (s \o t) = 1..(Len(s) + Len(t))
      /\ \A i \in 1..Len(s) : (s \o t)[i] = s[i]
      /\ \A i \in (Len(s) + 1)..(Len(s) + Len(t)) : (s \o t)[i] = t[i - Len(s)]
    OBVIOUS
<1>2. ASSUME NEW i \in DOMAIN (s \o t), NEW j \in DOMAIN (s \o t),
             (s \o t)[i] \in Closers, (s \o t)[j] \in Closers
      PROVE  i = j
  <2>1. CASE \A k \in DOMAIN s : s[k] \notin Closers
    <3>1. i \in (Len(s) + 1)..(Len(s) + Len(t)) /\ j \in (Len(s) + 1)..(Len(s) + Len(t))
        BY <1>1, <1>2, <2>1
    <3>2. /\ i - Len(s) \in DOMAIN t /\ t[i - Len(s)] \in Closers
          /\ j - Len(s) \in DOMAIN t /\ t[j - Len(s)] \in Closers
        BY <1>1, <1>2, <3>1
    <3>3. i - Len(s) = j - Len(s) BY <3>2 DEF Once
    <3> QED BY <1>1, <3>1, <3>3
  <2>2. CASE \A k \in DOMAIN t : t[k] \notin Closers
    <3>1. i \in 1..Len(s) /\ j \in 1..Len(s)
      <4>1. \A n \in (Len(s) + 1)..(Len(s) + Len(t)) : (s \o t)[n] \notin Closers BY <1>1, <2>2
      <4> QED BY <1>1, <1>2, <4>1
    <3> QED BY <1>1, <1>2, <3>1 DEF Once
  <2> QED BY <2>1, <2>2
<1>3. ASSUME NEW i \in DOMAIN (s \o t)
      PROVE  \/ \E j \in DOMAIN s : (s \o t)[i] = s[j]
             \/ \E j \in DOMAIN t : (s \o t)[i] = t[j]
  <2>1. CASE i \in 1..Len(s) BY <1>1, <2>1
  <2>2. CASE i \in (Len(s) + 1)..(Len(s) + Len(t))
    <3>1. i - Len(s) \in DOMAIN t BY <1>1, <2>2
    <3> QED BY <1>1, <2>2, <3>1
  <2> QED BY <1>1, <2>1, <2>2
<1> QED BY <1>1, <1>2, <1>3 DEF Once

\* One callback, or none.
LEMMA WhenOnce ==
    ASSUME NEW c \in BOOLEAN, NEW b \in Callback
    PROVE  /\ When(c, b) \in Seq(Callback) /\ Once(When(c, b))
           /\ \A i \in DOMAIN When(c, b) : When(c, b)[i] = b
           /\ ~c => DOMAIN When(c, b) = {}
<1>1. CASE c
  <2>1. When(c, b) = <<b>> BY <1>1 DEF When
  <2>2. DOMAIN <<b>> = {1} /\ <<b>>[1] = b /\ <<b>> \in Seq(Callback) OBVIOUS
  <2>3. Once(<<b>>) /\ \A i \in DOMAIN <<b>> : <<b>>[i] = b BY <2>2 DEF Once
  <2> QED BY <1>1, <2>1, <2>2, <2>3, Zenon
<1>2. CASE ~c
  <2>1. When(c, b) = <<>> BY <1>2 DEF When
  <2> QED BY <1>2, <2>1 DEF Once
<1> QED BY <1>1, <1>2

\* handle_event closes at most once per round: POLLHUP counts only without POLLIN.
LEMMA CallbacksOnce ==
    ASSUME NEW r
    PROVE  /\ Callbacks(r) \in Seq(Callback) /\ Once(Callbacks(r))
           /\ \A i \in DOMAIN Callbacks(r) : Callbacks(r)[i] = "close" => CloseCondition(r)
<1> DEFINE A == When(CloseCondition(r), "close")
           B == When("err" \in r, "error")
           C == When("in" \in r, "read")
           D == When("out" \in r, "write")
<1>1. /\ CloseCondition(r) \in BOOLEAN
      /\ ("err" \in r) \in BOOLEAN /\ ("in" \in r) \in BOOLEAN /\ ("out" \in r) \in BOOLEAN
    BY DEF CloseCondition
<1>2. /\ A \in Seq(Callback) /\ Once(A) /\ \A i \in DOMAIN A : A[i] = "close"
      /\ ~CloseCondition(r) => DOMAIN A = {}
    BY <1>1, WhenOnce, Zenon DEF Callback
<1>3. B \in Seq(Callback) /\ Once(B) /\ \A i \in DOMAIN B : B[i] = "error"
    BY <1>1, WhenOnce DEF Callback
<1>4. /\ C \in Seq(Callback) /\ Once(C) /\ \A i \in DOMAIN C : C[i] = "read"
      /\ "in" \notin r => DOMAIN C = {}
    BY <1>1, WhenOnce, Zenon DEF Callback
<1>5. D \in Seq(Callback) /\ Once(D) /\ \A i \in DOMAIN D : D[i] = "write"
    BY <1>1, WhenOnce DEF Callback
<1>6. Callbacks(r) = ((A \o B) \o C) \o D BY DEF Callbacks
<1> HIDE DEF A, B, C, D
<1>7. /\ A \o B \in Seq(Callback) /\ Once(A \o B)
      /\ \A i \in DOMAIN (A \o B) : (A \o B)[i] = "error" \/ ((A \o B)[i] = "close" /\ CloseCondition(r))
  <2>1. \A i \in DOMAIN B : B[i] \notin Closers BY <1>3 DEF Closers
  <2> QED BY <1>2, <1>3, <2>1, ConcatOnce
<1>8. /\ (A \o B) \o C \in Seq(Callback) /\ Once((A \o B) \o C)
      /\ \A i \in DOMAIN ((A \o B) \o C) : ((A \o B) \o C)[i] = "close" => CloseCondition(r)
  <2>1. CASE CloseCondition(r)
    <3>1. \A i \in DOMAIN C : C[i] \notin Closers BY <1>4, <2>1 DEF CloseCondition
    <3> QED BY <1>4, <1>7, <2>1, <3>1, ConcatOnce
  <2>2. CASE ~CloseCondition(r)
    <3>1. \A i \in DOMAIN (A \o B) : (A \o B)[i] \notin Closers BY <1>7, <2>2 DEF Closers
    <3>2. /\ (A \o B) \o C \in Seq(Callback) /\ Once((A \o B) \o C)
          /\ \A i \in DOMAIN ((A \o B) \o C) :
                 \/ \E j \in DOMAIN (A \o B) : ((A \o B) \o C)[i] = (A \o B)[j]
                 \/ \E j \in DOMAIN C : ((A \o B) \o C)[i] = C[j]
        BY <1>4, <1>7, <3>1, ConcatOnce
    <3> QED BY <1>4, <3>1, <3>2 DEF Closers
  <2> QED BY <2>1, <2>2
<1>9. /\ ((A \o B) \o C) \o D \in Seq(Callback) /\ Once(((A \o B) \o C) \o D)
      /\ \A i \in DOMAIN (((A \o B) \o C) \o D) :
             (((A \o B) \o C) \o D)[i] = "close" => CloseCondition(r)
  <2>1. \A i \in DOMAIN D : D[i] \notin Closers /\ D[i] # "close" BY <1>5 DEF Closers
  <2>2. /\ ((A \o B) \o C) \o D \in Seq(Callback) /\ Once(((A \o B) \o C) \o D)
        /\ \A i \in DOMAIN (((A \o B) \o C) \o D) :
               \/ \E j \in DOMAIN ((A \o B) \o C) : (((A \o B) \o C) \o D)[i] = ((A \o B) \o C)[j]
               \/ \E j \in DOMAIN D : (((A \o B) \o C) \o D)[i] = D[j]
      BY <1>5, <1>8, <2>1, ConcatOnce
  <2> QED BY <1>8, <2>1, <2>2
<1> QED BY <1>6, <1>9

-----------------------------------------------------------------------------
(* The invariant holds initially *)

FunctorType == [op : Ops, msg : Messages \cup {None}]

\* A new connection satisfies the invariant.
LEMMA InitEstablishes == Init => IInv
<1> SUFFICES ASSUME Init PROVE IInv OBVIOUS
<1> USE TcpMarkersAssumption DEF Init
<1>1. TypeOK
  <2>1. sockerr \in BOOLEAN /\ room \in BOOLEAN /\ shut \in BOOLEAN /\ closed \in BOOLEAN BY Zenon
  <2>2. /\ <<>> \in Seq(Byte) /\ <<>> \in Seq(FunctorType)
        /\ <<>> \in Seq({"close", "error", "read", "write"})
      OBVIOUS
  <2> QED BY <2>1, <2>2 DEF TypeOK, States, FunctorType
<1>2. QueueInv BY DEF QueueInv
<1>3. StreamInOrder BY DEF StreamInOrder
<1>4. OutputInv /\ ReadInv BY DEF OutputInv, ReadInv, is_writing
<1>5. TodoInv /\ DestroyInv BY DEF TodoInv, DestroyInv, Once, Destroys
<1> QED BY <1>1, <1>2, <1>3, <1>4, <1>5 DEF IInv

-----------------------------------------------------------------------------
(* send_in_loop *)

\* What write(2) takes is a part of what it is given.
LEMMA WriteResultsInRange ==
    ASSUME NEW n \in Nat PROVE WriteResults(n) \subseteq 0..n
BY DEF WriteResults

\* A queue stays one when a functor without an argument is added.
LEMMA AppendFunctor ==
    ASSUME NEW q, q \in Seq(GoodFunctors), q \in Seq(FunctorType), NEW op \in Ops \ {"send"}
    PROVE  /\ Append(q, Functor(op)) \in Seq(GoodFunctors)
           /\ Append(q, Functor(op)) \in Seq(FunctorType)
           /\ op # "destroy" => Destroys(Append(q, Functor(op))) = Destroys(q)
<1>1. Functor(op) \in FunctorType /\ Functor(op).op = op BY DEF Functor, FunctorType
<1>2. Functor(op) \in GoodFunctors BY <1>1 DEF GoodFunctors, FunctorType
<1>3. op # "destroy" => Destroys(Append(q, Functor(op))) = Destroys(q)
    BY <1>1, <1>2, AppendOther
<1> QED BY <1>1, <1>2, <1>3

\* The bytes are written, buffered behind the others and waited for.
LEMMA SendStep ==
    ASSUME IInv, NEW m \in Messages, send_in_loop(m), UNCHANGED closed
    PROVE  /\ output_buffer_' \in Seq(Byte) /\ accepted' \in Seq(Byte) /\ wire' \in Seq(Byte)
           /\ room' \in BOOLEAN
           /\ events_' \in SUBSET {"read", "write"}
           /\ events_ \subseteq events_'
           /\ pending' \in Seq(GoodFunctors) /\ pending' \in Seq(FunctorType)
           /\ Destroys(pending') = Destroys(pending)
           /\ StreamInOrder'
           /\ OutputInv'
<1> DEFINE data == Payload[m]
<1>0. TypeOK /\ QueueInv /\ StreamInOrder /\ OutputInv BY DEF IInv
<1>1. data \in Seq(Byte) /\ Len(data) \in Nat /\ Len(data) > 0 BY PayloadAssumption
<1>2. PICK k \in (IF WriteDirectly THEN WriteResults(Len(data)) ELSE {0}) :
          /\ accepted' = accepted \o data
          /\ wire' = wire \o SubSeq(data, 1, k)
          /\ IF WriteDirectly THEN Wrote(k, Len(data)) ELSE UNCHANGED room
          /\ output_buffer_' = output_buffer_ \o Rest(data, k)
          /\ events_' = IF k < Len(data) THEN events_ \cup {"write"} ELSE events_
          /\ pending' = IF k = Len(data) THEN Append(pending, Functor("write_complete")) ELSE pending
    BY DEF send_in_loop
<1> HIDE DEF data
<1>3. k \in 0..Len(data) /\ (~WriteDirectly => k = 0)
    BY <1>1, <1>2, WriteResultsInRange
<1> DEFINE done == SubSeq(data, 1, k)
           rest == Rest(data, k)
<1>4. done \in Seq(Byte) /\ rest \in Seq(Byte) /\ Len(rest) = Len(data) - k /\ done \o rest = data
    BY <1>1, <1>3, SplitData
<1>5. wire' = wire \o done /\ output_buffer_' = output_buffer_ \o rest BY <1>2
<1> HIDE DEF done, rest
<1>6. wire \in Seq(Byte) /\ output_buffer_ \in Seq(Byte) /\ accepted \in Seq(Byte) BY <1>0 DEF TypeOK
<1>7. output_buffer_' \in Seq(Byte) /\ accepted' \in Seq(Byte) /\ wire' \in Seq(Byte)
  <2>1. done \in Seq(Byte) /\ rest \in Seq(Byte) BY <1>4
  <2>2. accepted' = accepted \o data /\ data \in Seq(Byte) BY <1>1, <1>2
  <2> QED BY <1>5, <1>6, <2>1, <2>2
<1>8. output_buffer_ # <<>> => done = <<>>
  <2> SUFFICES ASSUME output_buffer_ # <<>> PROVE done = <<>> OBVIOUS
  <2>1. k = 0 BY <1>3 DEF WriteDirectly
  <2> QED BY <1>1, <2>1 DEF done
<1>9. StreamInOrder'
  <2>1. accepted' = (wire \o output_buffer_) \o (done \o rest) BY <1>0, <1>2, <1>4 DEF StreamInOrder
  <2>2. CASE output_buffer_ = <<>>
    <3>1. wire \o output_buffer_ = wire /\ output_buffer_ \o rest = rest
        BY <2>2, <1>4, <1>6, ConcatEmpty
    <3>2. done \in Seq(Byte) /\ rest \in Seq(Byte) BY <1>4
    <3>3. (wire \o done) \o rest = wire \o (done \o rest) BY <1>6, <3>2, ConcatAssoc
    <3> QED BY <1>5, <2>1, <3>1, <3>3 DEF StreamInOrder
  <2>3. CASE output_buffer_ # <<>>
    <3>1. done \o rest = rest /\ wire \o done = wire BY <2>3, <1>4, <1>6, <1>8, ConcatEmpty
    <3>2. (wire \o output_buffer_) \o rest = wire \o (output_buffer_ \o rest)
        BY <1>4, <1>6, ConcatAssoc
    <3> QED BY <1>5, <2>1, <3>1, <3>2 DEF StreamInOrder
  <2> QED BY <2>2, <2>3
<1>10. room' \in BOOLEAN BY <1>0, <1>2 DEF TypeOK, Wrote
<1>11. events_' \in SUBSET {"read", "write"} /\ events_ \subseteq events_' BY <1>0, <1>2 DEF TypeOK
<1>12. /\ pending' \in Seq(GoodFunctors) /\ pending' \in Seq(FunctorType)
       /\ Destroys(pending') = Destroys(pending)
  <2>1. "write_complete" \in Ops \ {"send"} BY DEF Ops
  <2>2. pending \in Seq(GoodFunctors) /\ pending \in Seq(FunctorType)
      BY <1>0 DEF TypeOK, QueueInv, FunctorType
  <2> QED BY <1>2, <2>1, <2>2, AppendFunctor
<1>13. OutputInv'
  <2>1. Len(output_buffer_') = Len(output_buffer_) + (Len(data) - k)
    <3>1. rest \in Seq(Byte) BY <1>4
    <3>2. Len(output_buffer_ \o rest) = Len(output_buffer_) + Len(rest) BY <1>6, <3>1
    <3> QED BY <1>4, <1>5, <3>2
  <2>2. CASE k < Len(data)
    <3>1. output_buffer_' # <<>> BY <1>1, <1>3, <1>6, <2>1, <2>2
    <3>2. "write" \in events_' BY <1>2, <2>2
    <3> QED BY <3>1, <3>2 DEF OutputInv, is_writing
  <2>3. CASE k = Len(data)
    <3>1. events_' = events_ /\ output_buffer_ = <<>> /\ ~is_writing
        BY <1>1, <1>2, <1>3, <2>3 DEF WriteDirectly
    <3>2. output_buffer_' = <<>> BY <1>6, <1>7, <2>1, <2>3, <3>1, <1>1
    <3> QED BY <3>1, <3>2 DEF OutputInv, is_writing
  <2> QED BY <1>1, <1>3, <2>2, <2>3
<1> QED BY <1>7, <1>9, <1>10, <1>11, <1>12, <1>13

-----------------------------------------------------------------------------
(* The kernel and the peer *)

\* Nothing the peer does is seen before the next poll or system call.
LEMMA KernelPreserves == ASSUME IInv, PeerSends \/ PeerReads \/ PeerCloses PROVE IInv'
<1> USE TcpMarkersAssumption DEF PeerSends, PeerReads, PeerCloses, history
<1>0. TypeOK /\ QueueInv /\ StreamInOrder /\ OutputInv /\ ReadInv /\ TodoInv /\ DestroyInv BY DEF IInv
<1>1. TypeOK'
  <2>1. inbox' \in 0..MaxInbox BY <1>0 DEF TypeOK
  <2>2. peer' \in {"open", "fin", "reset"} BY <1>0 DEF TypeOK
  <2>3. sockerr' \in BOOLEAN /\ room' \in BOOLEAN /\ shut' \in BOOLEAN BY <1>0 DEF TypeOK
  <2> QED BY <1>0, <2>1, <2>2, <2>3 DEF TypeOK
<1>2. QueueInv' /\ StreamInOrder' BY <1>0 DEF QueueInv, StreamInOrder
<1>3. OutputInv' /\ ReadInv' BY <1>0 DEF OutputInv, ReadInv, is_writing
<1>4. TodoInv' /\ DestroyInv' BY <1>0 DEF TodoInv, Once, DestroyInv, Destroys
<1> QED BY <1>1, <1>2, <1>3, <1>4 DEF IInv

-----------------------------------------------------------------------------
(* Channel::handle_event *)

\* handle_close queues connect_destoryed: it has not been queued before, for every
\* round has one callback that can close.
LEMMA CloseStep ==
    ASSUME IInv, Calls("close") \/ Calls("read"), handle_close,
           UNCHANGED <<state_, output_buffer_, functors, call, accepted, wire>>
    PROVE  /\ events_' \in SUBSET {"read", "write"}
           /\ pc' \in {"poll", "events", "functors", "aborted"}
           /\ todo' \in Seq(Callback)
           /\ pending' \in Seq(FunctorType)
           /\ closed' \in BOOLEAN
           /\ QueueInv' /\ StreamInOrder' /\ OutputInv' /\ ReadInv' /\ TodoInv' /\ DestroyInv'
<1> USE DEF handle_close
<1>0. TypeOK /\ QueueInv /\ StreamInOrder /\ OutputInv /\ ReadInv /\ TodoInv /\ DestroyInv BY DEF IInv
<1>1. pc = "events" /\ todo # <<>> /\ Head(todo) \in Closers /\ functors = <<>>
    BY <1>0 DEF Calls, Closers, QueueInv
<1>2. /\ Tail(todo) \in Seq(Callback) /\ Once(Tail(todo))
      /\ \A i \in DOMAIN Tail(todo) : Tail(todo)[i] \notin Closers
      /\ Destroys(pending) = {}
  <2>1. \E j \in DOMAIN todo : todo[j] \in Closers BY <1>0, <1>1, TailTodo
  <2>2. Destroys(pending) = {} BY <1>0, <2>1 DEF DestroyInv
  <2> QED BY <1>0, <1>1, <2>2, TailTodo DEF Callback
<1>3. StreamInOrder' BY <1>0 DEF StreamInOrder
<1>4. CASE state_ \in {"Connected", "Disconnecting"}
  <2>1. /\ events_' = {} /\ pending' = Append(pending, Functor("destroy")) /\ closed' = TRUE
        /\ todo' = Tail(todo) /\ pc' = pc
      BY <1>4
  <2>2. "destroy" \in Ops \ {"send"} BY DEF Ops
  <2>3. pending' \in Seq(GoodFunctors) /\ pending' \in Seq(FunctorType)
      BY <1>0, <2>1, <2>2, AppendFunctor DEF TypeOK, QueueInv, FunctorType
  <2>4. QueueInv' BY <1>0, <2>1, <2>3 DEF QueueInv
  <2>5. OutputInv' /\ ReadInv' BY <1>4, <2>1 DEF OutputInv, ReadInv, is_writing
  <2>6. TodoInv' BY <1>2, <2>1 DEF TodoInv
  <2>7. DestroyInv'
    <3>1. \A i, j \in Destroys(pending') : i = j
      <4>1. Functor("destroy") \in FunctorType BY DEF Functor, FunctorType, Ops
      <4>2. pending \in Seq(FunctorType) BY <1>0 DEF TypeOK, FunctorType
      <4> QED BY <1>2, <2>1, <4>1, <4>2, AppendDestroy
    <3>2. Destroys(functors) = {} BY <1>1 DEF Destroys
    <3> QED BY <1>1, <1>2, <1>4, <2>1, <3>1, <3>2 DEF DestroyInv
  <2>8. closed' \in BOOLEAN BY <2>1, Zenon
  <2>9. events_' \in SUBSET {"read", "write"} BY <2>1
  <2>10. pc' \in {"poll", "events", "functors", "aborted"} /\ todo' \in Seq(Callback)
      BY <1>1, <1>2, <2>1
  <2> QED BY <1>3, <2>3, <2>4, <2>5, <2>6, <2>7, <2>8, <2>9, <2>10
<1>5. CASE state_ \notin {"Connected", "Disconnecting"}
  <2>1. pc' = "aborted" /\ UNCHANGED <<events_, pending, closed, todo>> BY <1>5
  <2>2. QueueInv' BY <1>0, <1>1, <2>1 DEF QueueInv
  <2>3. OutputInv' /\ ReadInv' BY <1>0, <2>1 DEF OutputInv, ReadInv, is_writing
  <2>4. TodoInv' BY <1>0, <2>1 DEF TodoInv, Once
  <2>5. Destroys(functors) = {} BY <1>1 DEF Destroys
  <2>6. DestroyInv' BY <1>0, <1>2, <2>1, <2>5 DEF DestroyInv
  <2> QED BY <1>0, <1>3, <2>1, <2>2, <2>3, <2>4, <2>6 DEF TypeOK, Callback, FunctorType
<1> QED BY <1>4, <1>5

\* The close callback of POLLHUP.
LEMMA CloseCallbackPreserves == ASSUME IInv, close_callback PROVE IInv'
<1> USE DEF close_callback, kernel
<1>0. TypeOK BY DEF IInv
<1>1. /\ events_' \in SUBSET {"read", "write"}
      /\ pc' \in {"poll", "events", "functors", "aborted"}
      /\ todo' \in Seq(Callback)
      /\ pending' \in Seq(FunctorType)
      /\ closed' \in BOOLEAN
      /\ QueueInv' /\ StreamInOrder' /\ OutputInv' /\ ReadInv' /\ TodoInv' /\ DestroyInv'
    BY CloseStep
<1>2. TypeOK' BY <1>0, <1>1 DEF TypeOK, Callback, FunctorType
<1> QED BY <1>1, <1>2 DEF IInv

\* What is left of a round when a callback that does not close has been called.
LEMMA CallbackDone ==
    ASSUME TypeOK, TodoInv, DestroyInv, QueueInv, todo # <<>>, pc = "events", pc' = pc,
           todo' = Tail(todo), UNCHANGED <<closed, functors, state_>>,
           Destroys(pending') = Destroys(pending)
    PROVE  todo' \in Seq(Callback) /\ TodoInv' /\ DestroyInv'
<1>1. todo' \in Seq(Callback) BY TailTodo DEF Callback
<1>2. TodoInv' BY TailTodo DEF TodoInv
<1>3. Destroys(pending') # {} => \A i \in DOMAIN todo' : todo'[i] \notin Closers
    BY TailTodo DEF DestroyInv
<1>4. DestroyInv' BY <1>3 DEF DestroyInv
<1> QED BY <1>1, <1>2, <1>4

\* The error callback takes the error.
LEMMA HandleErrorPreserves == ASSUME IInv, handle_error PROVE IInv'
<1> USE DEF handle_error, history, Calls
<1>0. TypeOK /\ QueueInv /\ StreamInOrder /\ OutputInv /\ ReadInv /\ TodoInv /\ DestroyInv BY DEF IInv
<1>1. todo' \in Seq(Callback) /\ TodoInv' /\ DestroyInv' BY <1>0, CallbackDone
<1>2. sockerr' \in BOOLEAN BY Zenon
<1>3. TypeOK' BY <1>0, <1>1, <1>2 DEF TypeOK, Callback
<1>4. QueueInv' /\ StreamInOrder' BY <1>0 DEF QueueInv, StreamInOrder
<1>5. OutputInv' /\ ReadInv' BY <1>0 DEF OutputInv, ReadInv, is_writing
<1> QED BY <1>1, <1>3, <1>4, <1>5 DEF IInv

\* The read callback takes data or the error, or closes.
LEMMA HandleReadPreserves == ASSUME IInv, handle_read PROVE IInv'
<1> USE TcpMarkersAssumption DEF handle_read
<1>0. TypeOK /\ QueueInv /\ StreamInOrder /\ OutputInv /\ ReadInv /\ TodoInv /\ DestroyInv BY DEF IInv
<1>1. CASE inbox = 0 /\ ~sockerr
  <2>1. handle_close /\ UNCHANGED <<inbox, sockerr>> BY <1>1, <1>0 DEF TypeOK
  <2>2. /\ events_' \in SUBSET {"read", "write"}
        /\ pc' \in {"poll", "events", "functors", "aborted"}
        /\ todo' \in Seq(Callback)
        /\ pending' \in Seq(FunctorType)
        /\ closed' \in BOOLEAN
        /\ QueueInv' /\ StreamInOrder' /\ OutputInv' /\ ReadInv' /\ TodoInv' /\ DestroyInv'
      BY <2>1, CloseStep
  <2>3. TypeOK' BY <1>0, <2>1, <2>2 DEF TypeOK, Callback, FunctorType
  <2> QED BY <2>2, <2>3 DEF IInv
<1>2. CASE ~(inbox = 0 /\ ~sockerr)
  <2>1. /\ todo' = Tail(todo) /\ todo # <<>> /\ pc = "events"
        /\ UNCHANGED <<events_, pc, pending, closed>>
      BY <1>2, <1>0 DEF TypeOK, Calls
  <2>2. todo' \in Seq(Callback) /\ TodoInv' /\ DestroyInv' BY <1>0, <2>1, CallbackDone
  <2>3. inbox' \in 0..MaxInbox BY <1>0, <1>2 DEF TypeOK
  <2>4. sockerr' \in BOOLEAN BY <1>0, <1>2 DEF TypeOK
  <2>5. TypeOK' BY <1>0, <2>1, <2>2, <2>3, <2>4 DEF TypeOK, Callback
  <2>6. QueueInv' /\ StreamInOrder' BY <1>0, <2>1 DEF QueueInv, StreamInOrder
  <2>7. OutputInv' /\ ReadInv' BY <1>0, <2>1 DEF OutputInv, ReadInv, is_writing
  <2> QED BY <2>2, <2>5, <2>6, <2>7 DEF IInv
<1> QED BY <1>1, <1>2

\* The write callback moves bytes from the buffer to the socket.
LEMMA HandleWritePreserves == ASSUME IInv, handle_write PROVE IInv'
<1> USE DEF handle_write
<1>0. TypeOK /\ QueueInv /\ StreamInOrder /\ OutputInv /\ ReadInv /\ TodoInv /\ DestroyInv BY DEF IInv
<1>1. CASE is_writing
  <2>1. PICK k \in WriteResults(Len(output_buffer_)) :
            /\ wire' = wire \o SubSeq(output_buffer_, 1, k)
            /\ output_buffer_' = Rest(output_buffer_, k)
            /\ Wrote(k, Len(output_buffer_))
            /\ IF k = Len(output_buffer_) THEN Drained ELSE UNCHANGED <<events_, pending, shut>>
      BY <1>1
  <2>2. output_buffer_ \in Seq(Byte) /\ wire \in Seq(Byte) /\ Len(output_buffer_) \in Nat BY <1>0 DEF TypeOK
  <2>3. k \in 0..Len(output_buffer_) BY <2>1, <2>2, WriteResultsInRange
  <2> DEFINE done == SubSeq(output_buffer_, 1, k)
             rest == Rest(output_buffer_, k)
  <2>4. /\ done \in Seq(Byte) /\ rest \in Seq(Byte) /\ done \o rest = output_buffer_
        /\ Len(rest) = Len(output_buffer_) - k
      BY <2>2, <2>3, SplitData
  <2>5. wire' = wire \o done /\ output_buffer_' = rest BY <2>1
  <2> HIDE DEF done, rest
  <2>6. StreamInOrder'
    <3>1. done \in Seq(Byte) /\ rest \in Seq(Byte) BY <2>4
    <3>2. (wire \o done) \o rest = wire \o (done \o rest) BY <2>2, <3>1, ConcatAssoc
    <3> QED BY <1>0, <2>4, <2>5, <3>2 DEF StreamInOrder
  <2>7. output_buffer_' \in Seq(Byte) /\ wire' \in Seq(Byte)
    <3>1. done \in Seq(Byte) /\ rest \in Seq(Byte) BY <2>4
    <3> QED BY <2>2, <2>5, <3>1
  <2>8. room' \in BOOLEAN BY <1>0, <2>1 DEF TypeOK, Wrote
  <2>9. state_ # "Connecting" BY <1>0, <1>1 DEF ReadInv, is_writing
  <2>10. CASE k = Len(output_buffer_)
    <3>1. /\ events_' = events_ \ {"write"}
          /\ pending' = Append(pending, Functor("write_complete"))
          /\ IF state_ = "Disconnecting" THEN shutdown_in_loop(events_') ELSE UNCHANGED shut
        BY <2>1, <2>10 DEF Drained
    <3>2. "write_complete" \in Ops \ {"send"} BY DEF Ops
    <3>3. /\ pending' \in Seq(GoodFunctors) /\ pending' \in Seq(FunctorType)
          /\ Destroys(pending') = Destroys(pending)
        BY <1>0, <3>1, <3>2, AppendFunctor DEF TypeOK, QueueInv, FunctorType
    <3>4. todo' \in Seq(Callback) /\ TodoInv' /\ DestroyInv' BY <1>0, <3>3, CallbackDone DEF Calls
    <3>5. shut' \in BOOLEAN BY <1>0, <3>1 DEF TypeOK, shutdown_in_loop, ShutsNow
    <3>6. events_' \in SUBSET {"read", "write"} BY <1>0, <3>1 DEF TypeOK
    <3>7. TypeOK' BY <1>0, <2>7, <2>8, <3>3, <3>4, <3>5, <3>6 DEF TypeOK, Callback, FunctorType
    <3>8. QueueInv' BY <1>0, <3>3 DEF QueueInv
    <3>9. output_buffer_' = <<>> BY <2>2, <2>4, <2>5, <2>7, <2>10
    <3>10. OutputInv' BY <3>1, <3>9 DEF OutputInv, is_writing
    <3>11. ReadInv' BY <1>0, <2>9, <3>1 DEF ReadInv
    <3> QED BY <2>6, <3>4, <3>7, <3>8, <3>10, <3>11 DEF IInv
  <2>11. CASE k # Len(output_buffer_)
    <3>1. UNCHANGED <<events_, pending, shut>> BY <2>1, <2>11
    <3>2. todo' \in Seq(Callback) /\ TodoInv' /\ DestroyInv' BY <1>0, <3>1, CallbackDone DEF Calls
    <3>3. TypeOK' BY <1>0, <2>7, <2>8, <3>1, <3>2 DEF TypeOK, Callback
    <3>4. QueueInv' BY <1>0, <3>1 DEF QueueInv
    <3>5. output_buffer_' # <<>>
      <4>1. Len(rest) # 0 BY <2>2, <2>3, <2>4, <2>11
      <4> QED BY <2>5, <4>1
    <3>6. OutputInv' BY <1>1, <3>1, <3>5 DEF OutputInv, is_writing
    <3>7. ReadInv' BY <1>0, <2>9, <3>1 DEF ReadInv
    <3> QED BY <2>6, <3>2, <3>3, <3>4, <3>6, <3>7 DEF IInv
  <2> QED BY <2>10, <2>11
<1>2. CASE ~is_writing
  <2>1. UNCHANGED <<output_buffer_, wire, room, events_, pending, shut>> BY <1>2
  <2>2. todo' \in Seq(Callback) /\ TodoInv' /\ DestroyInv' BY <1>0, <2>1, CallbackDone DEF Calls
  <2>3. TypeOK' BY <1>0, <2>1, <2>2 DEF TypeOK, Callback
  <2>4. QueueInv' /\ StreamInOrder' BY <1>0, <2>1 DEF QueueInv, StreamInOrder
  <2>5. OutputInv' /\ ReadInv' BY <1>0, <2>1 DEF OutputInv, ReadInv, is_writing
  <2> QED BY <2>2, <2>3, <2>4, <2>5 DEF IInv
<1> QED BY <1>1, <1>2

-----------------------------------------------------------------------------
(* Operations of the owner and the user *)

\* connect_established: the channel reads from now on.
LEMMA EstablishedPreserves == ASSUME IInv, connect_established PROVE IInv'
<1> USE DEF connect_established, kernel, history
<1>0. TypeOK /\ QueueInv /\ StreamInOrder /\ OutputInv /\ ReadInv /\ TodoInv /\ DestroyInv BY DEF IInv
<1>1. TypeOK' BY <1>0 DEF TypeOK, States
<1>2. QueueInv' /\ StreamInOrder' BY <1>0 DEF QueueInv, StreamInOrder
<1>3. OutputInv' /\ ReadInv' BY <1>0 DEF OutputInv, ReadInv, is_writing
<1>4. TodoInv' BY <1>0 DEF TodoInv, Once
<1>5. DestroyInv' BY <1>0 DEF DestroyInv, Destroys
<1> QED BY <1>1, <1>2, <1>3, <1>4, <1>5 DEF IInv

\* send() in the loop thread.
LEMMA SendPreserves == ASSUME IInv, NEW m \in Messages, send(m) PROVE IInv'
<1> USE DEF send
<1>0. TypeOK /\ QueueInv /\ ReadInv /\ TodoInv /\ DestroyInv BY DEF IInv
<1>1. /\ output_buffer_' \in Seq(Byte) /\ accepted' \in Seq(Byte) /\ wire' \in Seq(Byte)
      /\ room' \in BOOLEAN
      /\ events_' \in SUBSET {"read", "write"}
      /\ events_ \subseteq events_'
      /\ pending' \in Seq(GoodFunctors) /\ pending' \in Seq(FunctorType)
      /\ Destroys(pending') = Destroys(pending)
      /\ StreamInOrder'
      /\ OutputInv'
    BY SendStep
<1>2. TypeOK' BY <1>0, <1>1 DEF TypeOK, FunctorType
<1>3. QueueInv' BY <1>0, <1>1 DEF QueueInv
<1>4. ReadInv' BY <1>0, <1>1 DEF ReadInv
<1>5. TodoInv' BY <1>0 DEF TodoInv, Once
<1>6. DestroyInv' BY <1>0, <1>1 DEF DestroyInv
<1> QED BY <1>1, <1>2, <1>3, <1>4, <1>5, <1>6 DEF IInv

\* send() and shutdown() in another thread: the functor is made.
LEMMA CallPreserves ==
    ASSUME IInv, NEW t \in Callers, shutdown_queued(t) \/ \E m \in Messages : send_queued(t, m)
    PROVE  IInv'
<1> USE DEF kernel, history
<1>0. TypeOK /\ QueueInv /\ StreamInOrder /\ OutputInv /\ ReadInv /\ TodoInv /\ DestroyInv BY DEF IInv
<1>1. PICK g \in GoodFunctors : g.op # "destroy" /\ call' = [call EXCEPT ![t] = g]
  <2>1. CASE shutdown_queued(t)
    <3>1. Functor("shutdown") \in GoodFunctors /\ Functor("shutdown").op = "shutdown"
        BY DEF Functor, GoodFunctors, Ops
    <3> QED BY <2>1, <3>1 DEF shutdown_queued
  <2>2. ASSUME NEW m \in Messages, send_queued(t, m)
        PROVE  \E g \in GoodFunctors : g.op # "destroy" /\ call' = [call EXCEPT ![t] = g]
    <3>1. [op |-> "send", msg |-> m] \in GoodFunctors BY DEF GoodFunctors, Ops
    <3> QED BY <2>2, <3>1 DEF send_queued
  <2> QED BY <2>1, <2>2
<1>2. /\ state_ = "Connected" /\ state_' \in {"Connected", "Disconnecting"}
      /\ sent' \in SUBSET Messages
      /\ UNCHANGED <<events_, output_buffer_, pc, todo, pending, functors, kernel, history>>
    BY <1>0 DEF send_queued, shutdown_queued, TypeOK
<1>3. TypeOK'
  <2>1. GoodFunctors \subseteq FunctorType BY DEF GoodFunctors, FunctorType
  <2>2. call' \in [Callers -> FunctorType \cup {None}] BY <1>0, <1>1, <2>1 DEF TypeOK, FunctorType
  <2> QED BY <1>0, <1>2, <2>2 DEF TypeOK, States, FunctorType
<1>4. QueueInv'
  <2>1. \A u \in Callers : call'[u] # None => call'[u] \in GoodFunctors /\ call'[u].op # "destroy"
      BY <1>0, <1>1 DEF TypeOK, QueueInv
  <2> QED BY <1>0, <1>2, <2>1 DEF QueueInv
<1>5. StreamInOrder' /\ OutputInv' /\ ReadInv'
    BY <1>0, <1>2 DEF StreamInOrder, OutputInv, ReadInv, is_writing
<1>6. TodoInv' BY <1>0, <1>2 DEF TodoInv, Once
<1>7. DestroyInv' BY <1>0, <1>2 DEF DestroyInv, Destroys
<1> QED BY <1>3, <1>4, <1>5, <1>6, <1>7 DEF IInv

\* ... and queued.
LEMMA QueuePreserves == ASSUME IInv, NEW t \in Callers, queue_in_loop(t) PROVE IInv'
<1> USE DEF queue_in_loop, kernel, history
<1>0. TypeOK /\ QueueInv /\ StreamInOrder /\ OutputInv /\ ReadInv /\ TodoInv /\ DestroyInv BY DEF IInv
<1>1. call[t] \in GoodFunctors /\ call[t].op # "destroy" /\ call[t] \in FunctorType
    BY <1>0 DEF QueueInv, GoodFunctors, FunctorType
<1>2. pending' \in Seq(GoodFunctors) /\ pending' \in Seq(FunctorType)
    BY <1>0, <1>1 DEF TypeOK, QueueInv, FunctorType
<1>3. Destroys(pending') = Destroys(pending) BY <1>0, <1>1, AppendOther DEF QueueInv
<1>4. TypeOK'
  <2>1. call' \in [Callers -> FunctorType \cup {None}] BY <1>0 DEF TypeOK, FunctorType
  <2> QED BY <1>0, <1>2, <2>1 DEF TypeOK, FunctorType
<1>5. QueueInv' BY <1>0, <1>2 DEF TypeOK, QueueInv
<1>6. StreamInOrder' /\ OutputInv' BY <1>0 DEF StreamInOrder, OutputInv, is_writing
<1>7. ReadInv' BY <1>0 DEF ReadInv
<1>8. TodoInv' BY <1>0 DEF TodoInv, Once
<1>9. DestroyInv' BY <1>0, <1>3 DEF DestroyInv
<1> QED BY <1>4, <1>5, <1>6, <1>7, <1>8, <1>9 DEF IInv

\* shutdown() in the loop thread.
LEMMA ShutdownPreserves == ASSUME IInv, shutdown PROVE IInv'
<1> USE DEF shutdown, history
<1>0. TypeOK /\ QueueInv /\ StreamInOrder /\ OutputInv /\ ReadInv /\ TodoInv /\ DestroyInv BY DEF IInv
<1>1. shut' \in BOOLEAN BY <1>0 DEF TypeOK, shutdown_in_loop, ShutsNow
<1>2. TypeOK' BY <1>0, <1>1 DEF TypeOK, States
<1>3. QueueInv' /\ StreamInOrder' BY <1>0 DEF QueueInv, StreamInOrder
<1>4. OutputInv' /\ ReadInv' BY <1>0 DEF OutputInv, ReadInv, is_writing
<1>5. TodoInv' BY <1>0 DEF TodoInv, Once
<1>6. DestroyInv' BY <1>0 DEF DestroyInv, Destroys
<1> QED BY <1>2, <1>3, <1>4, <1>5, <1>6 DEF IInv

-----------------------------------------------------------------------------
(* The loop *)

\* On an open connection POLLHUP comes with POLLIN, so that the input is read first.
LEMMA HupComesWithInput ==
    ASSUME ReadInv, CloseCondition(Ready) PROVE closed
<1>1. "hup" \in Ready /\ "in" \notin Ready BY DEF CloseCondition
<1>2. events_ # {} /\ (peer = "reset" \/ peer = "fin") BY <1>1 DEF Ready
<1>3. "read" \notin events_ BY <1>1, <1>2 DEF Ready
<1> QED BY <1>2, <1>3 DEF ReadInv

\* poll: a new round of events begins, after all functors of the last one.
LEMMA PollPreserves == ASSUME IInv, poll PROVE IInv'
<1> USE DEF poll, kernel, history
<1>0. TypeOK /\ QueueInv /\ StreamInOrder /\ OutputInv /\ ReadInv /\ TodoInv /\ DestroyInv BY DEF IInv
<1>1. todo' \in Seq(Callback) /\ Once(todo') /\ \A i \in DOMAIN todo' : todo'[i] = "close" => closed
    BY <1>0, CallbacksOnce, HupComesWithInput
<1>2. TypeOK' BY <1>0, <1>1 DEF TypeOK, Callback
<1>3. QueueInv' /\ StreamInOrder' BY <1>0 DEF QueueInv, StreamInOrder
<1>4. OutputInv' /\ ReadInv' BY <1>0 DEF OutputInv, ReadInv, is_writing
<1>5. TodoInv' BY <1>1 DEF TodoInv
<1>6. Destroys(pending) = {} BY <1>0 DEF DestroyInv
<1>7. DestroyInv' BY <1>0, <1>6 DEF DestroyInv
<1> QED BY <1>2, <1>3, <1>4, <1>5, <1>7 DEF IInv

\* The queue becomes the batch.
LEMMA DoPendingPreserves == ASSUME IInv, do_pending_functors PROVE IInv'
<1> USE DEF do_pending_functors, kernel, history
<1>0. TypeOK /\ QueueInv /\ StreamInOrder /\ OutputInv /\ ReadInv /\ TodoInv /\ DestroyInv BY DEF IInv
<1>1. TypeOK'
  <2>1. <<>> \in Seq(FunctorType) OBVIOUS
  <2> QED BY <1>0, <2>1 DEF TypeOK, FunctorType
<1>2. QueueInv' /\ StreamInOrder' BY <1>0 DEF QueueInv, StreamInOrder
<1>3. OutputInv' /\ ReadInv' BY <1>0 DEF OutputInv, ReadInv, is_writing
<1>4. TodoInv' BY <1>0 DEF TodoInv, Once
<1>5. Destroys(pending') = {} BY DEF Destroys
<1>6. DestroyInv' BY <1>0, <1>5 DEF DestroyInv
<1> QED BY <1>1, <1>2, <1>3, <1>4, <1>6 DEF IInv

\* The batch without its first functor, in the middle of the batch.
LEMMA BatchStep ==
    ASSUME IInv, NEW op, Runs(op), functors' = Tail(functors)
    PROVE  /\ pc = "functors" /\ state_ # "Connecting"
           /\ Head(functors) \in GoodFunctors
           /\ functors' \in Seq(GoodFunctors) /\ functors' \in Seq(FunctorType)
           /\ Destroys(pending) = {}
           /\ \A i, j \in Destroys(functors') : i = j
           /\ Destroys(functors) = {} => Destroys(functors') = {}
           /\ op = "destroy" => Destroys(functors) # {} /\ Destroys(functors') = {}
<1>0. TypeOK /\ QueueInv /\ ReadInv /\ DestroyInv BY DEF IInv
<1>1. pc = "functors" /\ functors # <<>> /\ Head(functors).op = op BY DEF Runs
<1>2. functors \in Seq(GoodFunctors) /\ functors \in Seq(FunctorType) BY <1>0 DEF QueueInv, TypeOK, FunctorType
<1>3. Head(functors) \in GoodFunctors /\ functors' \in Seq(GoodFunctors) /\ functors' \in Seq(FunctorType)
    BY <1>1, <1>2
<1>4. state_ # "Connecting" /\ Destroys(pending) = {} BY <1>0, <1>1 DEF ReadInv, DestroyInv
<1>5. \A i, j \in Destroys(functors) : i = j BY <1>0 DEF DestroyInv
<1> QED BY <1>1, <1>2, <1>3, <1>4, <1>5, TailDestroys

\* send_in_loop as a functor.
LEMMA RunSendPreserves == ASSUME IInv, run_send PROVE IInv'
<1> USE DEF run_send
<1>0. TypeOK /\ QueueInv /\ ReadInv /\ TodoInv /\ DestroyInv BY DEF IInv
<1>1. /\ pc = "functors" /\ state_ # "Connecting"
      /\ Head(functors) \in GoodFunctors
      /\ functors' \in Seq(GoodFunctors) /\ functors' \in Seq(FunctorType)
      /\ Destroys(pending) = {}
      /\ \A i, j \in Destroys(functors') : i = j
      /\ Destroys(functors) = {} => Destroys(functors') = {}
    BY BatchStep
<1>2. Head(functors).msg \in Messages BY <1>1 DEF Runs, GoodFunctors
<1>3. /\ output_buffer_' \in Seq(Byte) /\ accepted' \in Seq(Byte) /\ wire' \in Seq(Byte)
      /\ room' \in BOOLEAN
      /\ events_' \in SUBSET {"read", "write"}
      /\ events_ \subseteq events_'
      /\ pending' \in Seq(GoodFunctors) /\ pending' \in Seq(FunctorType)
      /\ Destroys(pending') = Destroys(pending)
      /\ StreamInOrder'
      /\ OutputInv'
    BY <1>2, SendStep
<1>4. TypeOK' BY <1>0, <1>1, <1>3 DEF TypeOK, FunctorType
<1>5. QueueInv' BY <1>0, <1>1, <1>3 DEF QueueInv
<1>6. ReadInv' BY <1>0, <1>1, <1>3 DEF ReadInv
<1>7. TodoInv' BY <1>0 DEF TodoInv, Once
<1>8. DestroyInv' BY <1>0, <1>1, <1>3 DEF DestroyInv
<1> QED BY <1>3, <1>4, <1>5, <1>6, <1>7, <1>8 DEF IInv

\* shutdown_in_loop and write_complete_callback_ as functors.
LEMMA RunOtherPreserves == ASSUME IInv, run_shutdown \/ run_write_complete PROVE IInv'
<1> USE DEF run_shutdown, run_write_complete, kernel, history
<1>0. TypeOK /\ QueueInv /\ StreamInOrder /\ OutputInv /\ ReadInv /\ TodoInv /\ DestroyInv BY DEF IInv
<1>1. /\ pc = "functors" /\ state_ # "Connecting"
      /\ functors' \in Seq(GoodFunctors) /\ functors' \in Seq(FunctorType)
      /\ Destroys(pending) = {}
      /\ \A i, j \in Destroys(functors') : i = j
      /\ Destroys(functors) = {} => Destroys(functors') = {}
    BY BatchStep
<1>2. TypeOK'
  <2>1. shut' \in BOOLEAN BY <1>0 DEF TypeOK, shutdown_in_loop, ShutsNow
  <2>2. told' \in Nat BY <1>0 DEF TypeOK
  <2> QED BY <1>0, <1>1, <2>1, <2>2 DEF TypeOK, FunctorType
<1>3. QueueInv' /\ StreamInOrder' BY <1>0, <1>1 DEF QueueInv, StreamInOrder
<1>4. OutputInv' /\ ReadInv' BY <1>0, <1>1 DEF OutputInv, ReadInv, is_writing
<1>5. TodoInv' BY <1>0 DEF TodoInv, Once
<1>6. DestroyInv' BY <1>0, <1>1 DEF DestroyInv
<1> QED BY <1>2, <1>3, <1>4, <1>5, <1>6 DEF IInv

\* connect_destoryed: the only one.
LEMMA DestroyedPreserves == ASSUME IInv, connect_destoryed PROVE IInv'
<1> USE DEF connect_destoryed, kernel, history
<1>0. TypeOK /\ QueueInv /\ StreamInOrder /\ OutputInv /\ ReadInv /\ TodoInv /\ DestroyInv BY DEF IInv
<1>1. /\ pc = "functors" /\ state_ # "Connecting"
      /\ functors' \in Seq(GoodFunctors) /\ functors' \in Seq(FunctorType)
      /\ Destroys(pending) = {}
      /\ Destroys(functors) # {} /\ Destroys(functors') = {}
    BY BatchStep
<1>2. closed BY <1>0, <1>1 DEF DestroyInv
<1>3. TypeOK' BY <1>0, <1>1 DEF TypeOK, FunctorType, States
<1>4. QueueInv' /\ StreamInOrder' BY <1>0, <1>1 DEF QueueInv, StreamInOrder
<1>5. OutputInv' /\ ReadInv' BY <1>2 DEF OutputInv, ReadInv, is_writing
<1>6. TodoInv' BY <1>0 DEF TodoInv, Once
<1>7. DestroyInv' BY <1>1 DEF DestroyInv
<1> QED BY <1>3, <1>4, <1>5, <1>6, <1>7 DEF IInv

\* The end of the batch.
LEMMA PendingDonePreserves == ASSUME IInv, pending_done PROVE IInv'
<1> USE DEF pending_done, kernel, history
<1>0. TypeOK /\ QueueInv /\ StreamInOrder /\ OutputInv /\ ReadInv /\ TodoInv /\ DestroyInv BY DEF IInv
<1>1. TypeOK' BY <1>0 DEF TypeOK
<1>2. QueueInv' /\ StreamInOrder' BY <1>0 DEF QueueInv, StreamInOrder
<1>3. OutputInv' /\ ReadInv' BY <1>0 DEF OutputInv, ReadInv, is_writing
<1>4. TodoInv' BY <1>0 DEF TodoInv, Once
<1>5. DestroyInv' BY <1>0 DEF DestroyInv
<1> QED BY <1>1, <1>2, <1>3, <1>4, <1>5 DEF IInv

-----------------------------------------------------------------------------
(* The theorems *)

\* Every step of the loop, of other threads and of the peer keeps the invariant.
LEMMA NextPreserves == IInv /\ [Next]_vars => IInv'
<1> SUFFICES ASSUME IInv, [Next]_vars PROVE IInv' OBVIOUS
<1>1. CASE LoopStep
    BY <1>1, PollPreserves, CloseCallbackPreserves, HandleErrorPreserves, HandleReadPreserves,
       HandleWritePreserves, DoPendingPreserves, RunSendPreserves, RunOtherPreserves,
       DestroyedPreserves, PendingDonePreserves DEF LoopStep
<1>2. CASE UNCHANGED vars
  <2> USE <1>2 DEF vars, kernel, history
  <2>1. TypeOK' BY DEF IInv, TypeOK
  <2>2. QueueInv' /\ StreamInOrder' BY DEF IInv, QueueInv, StreamInOrder
  <2>3. OutputInv' /\ ReadInv' BY DEF IInv, OutputInv, ReadInv, is_writing
  <2>4. TodoInv' /\ DestroyInv' BY DEF IInv, TodoInv, Once, DestroyInv, Destroys
  <2> QED BY <2>1, <2>2, <2>3, <2>4 DEF IInv
<1> QED BY <1>1, <1>2, EstablishedPreserves, SendPreserves, ShutdownPreserves, CallPreserves,
           QueuePreserves, KernelPreserves DEF Next

\* The inductive invariant holds in every reachable state.
LEMMA Invariance == Spec => []IInv
BY InitEstablishes, NextPreserves, PTL DEF Spec

\* Every variable keeps its type; send_in_loop always has a message.
THEOREM TypeCorrect == Spec => []TypeOK
<1>1. IInv => TypeOK BY DEF IInv
<1> QED BY <1>1, Invariance, PTL

\* The socket gets the bytes of send_in_loop in order and once, whatever part of them
\* each write takes.
THEOREM BytesInOrder == Spec => []StreamInOrder
<1>1. IInv => StreamInOrder BY DEF IInv
<1> QED BY <1>1, Invariance, PTL

\* While the connection is open the channel waits for POLLOUT exactly when
\* output_buffer_ is not empty.
THEOREM WritesExactlyWhenNeeded == Spec => []WritesWhenNeeded
<1>1. IInv => WritesWhenNeeded BY DEF IInv, OutputInv, WritesWhenNeeded
<1> QED BY <1>1, Invariance, PTL

\* connect_destoryed finds the connection up.
THEOREM DestroyedOnlyOnce == Spec => []DestroyedOnce
<1>1. ASSUME IInv PROVE DestroyedOnce
  <2> SUFFICES ASSUME Runs("destroy") PROVE state_ \in {"Connected", "Disconnecting"}
      BY DEF DestroyedOnce
  <2>1. functors \in Seq(GoodFunctors) /\ functors # <<>> /\ Head(functors).op = "destroy"
      BY <1>1 DEF IInv, QueueInv, Runs
  <2>2. 1 \in Destroys(functors) BY <2>1 DEF Destroys
  <2> QED BY <1>1, <2>2 DEF IInv, DestroyInv
<1> QED BY <1>1, Invariance, PTL

\* shutdown_write() comes after the last buffered byte of an open connection.
THEOREM OutputBeforeShutdown == Spec => DrainBeforeShutdown
<1>1. ASSUME IInv, [Next]_vars
      PROVE  [~shut /\ shut' => output_buffer_' = <<>> \/ closed]_vars
  <2> SUFFICES ASSUME Next, ~shut, shut', ~closed PROVE output_buffer_' = <<>>
      BY <1>1
  <2>0. TypeOK /\ OutputInv BY <1>1 DEF IInv
  <2>1. CASE shutdown
    <3>1. "write" \notin events_ BY <2>1 DEF shutdown, shutdown_in_loop, ShutsNow
    <3> QED BY <2>0, <2>1, <3>1 DEF shutdown, OutputInv, is_writing
  <2>2. CASE run_shutdown
    <3>1. "write" \notin events_ BY <2>2 DEF run_shutdown, shutdown_in_loop, ShutsNow
    <3> QED BY <2>0, <2>2, <3>1 DEF run_shutdown, OutputInv, is_writing
  <2>3. CASE handle_write
    <3>1. PICK k \in WriteResults(Len(output_buffer_)) :
              output_buffer_' = Rest(output_buffer_, k) /\ k = Len(output_buffer_)
        BY <2>3 DEF handle_write
    <3>2. output_buffer_ \in Seq(Byte) /\ Len(output_buffer_) \in 0..Len(output_buffer_) BY <2>0 DEF TypeOK
    <3>3. output_buffer_' \in Seq(Byte) /\ Len(output_buffer_') = 0 BY <3>1, <3>2, SplitData
    <3> QED BY <3>3
  <2>4. CASE UNCHANGED shut BY <2>4
  <2>5. CASE poll \/ close_callback \/ handle_error \/ handle_read \/ do_pending_functors
      BY <2>5, <2>4 DEF poll, close_callback, handle_error, handle_read, do_pending_functors, kernel
  <2>6. CASE run_send \/ run_write_complete \/ connect_destoryed \/ pending_done \/ connect_established
      BY <2>6, <2>4 DEF run_send, run_write_complete, connect_destoryed, pending_done,
                        connect_established, kernel
  <2>7. CASE PeerSends \/ PeerReads \/ PeerCloses \/ \E m \in Messages : send(m)
      BY <2>7, <2>4 DEF PeerSends, PeerReads, PeerCloses, send
  <2>8. ASSUME NEW t \in Callers,
               \/ shutdown_queued(t)
               \/ queue_in_loop(t)
               \/ \E m \in Messages : send_queued(t, m)
        PROVE  output_buffer_' = <<>>
      BY <2>8, <2>4 DEF shutdown_queued, queue_in_loop, send_queued, kernel
  <2> QED BY <2>1, <2>2, <2>3, <2>5, <2>6, <2>7, <2>8 DEF Next, LoopStep
<1> QED BY <1>1, Invariance, PTL DEF Spec, DrainBeforeShutdown

\* handle_close comes when everything the peer sent has been read.
THEOREM NoInputIsLost == Spec => NoInputLost
<1>1. ASSUME IInv, [Next]_vars
      PROVE  [~closed /\ closed' => inbox = 0]_vars
  <2> SUFFICES ASSUME Next, ~closed, closed' PROVE inbox = 0
      BY <1>1
  <2>0. TypeOK /\ TodoInv BY <1>1 DEF IInv
  <2>1. CASE close_callback
    <3>1. todo # <<>> /\ Head(todo) = "close" BY <2>1 DEF close_callback, Calls
    <3>2. \E j \in DOMAIN todo : todo[j] = "close" BY <2>0, <3>1, TailTodo
    <3> QED BY <2>0, <3>2 DEF TodoInv
  <2>2. CASE handle_read BY <2>2 DEF handle_read
  <2>3. CASE UNCHANGED closed BY <2>3
  <2>4. CASE poll \/ handle_error \/ handle_write \/ do_pending_functors
      BY <2>4, <2>3 DEF poll, handle_error, handle_write, do_pending_functors, history
  <2>5. CASE run_send \/ run_shutdown \/ run_write_complete \/ connect_destoryed \/ pending_done
      BY <2>5, <2>3 DEF run_send, run_shutdown, run_write_complete, connect_destoryed, pending_done, history
  <2>6. CASE PeerSends \/ PeerReads \/ PeerCloses \/ connect_established \/ shutdown
      BY <2>6, <2>3 DEF PeerSends, PeerReads, PeerCloses, connect_established, shutdown, history
  <2>7. ASSUME NEW t \in Callers,
               \/ shutdown_queued(t)
               \/ queue_in_loop(t)
               \/ \E m \in Messages : send_queued(t, m)
        PROVE  inbox = 0
      BY <2>7, <2>3 DEF shutdown_queued, queue_in_loop, send_queued, history
  <2>8. CASE \E m \in Messages : send(m) BY <2>8, <2>3 DEF send
  <2> QED BY <2>1, <2>2, <2>4, <2>5, <2>6, <2>7, <2>8 DEF Next, LoopStep
<1> QED BY <1>1, Invariance, PTL DEF Spec, NoInputLost

=============================================================================
