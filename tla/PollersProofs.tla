---------------------------- MODULE PollersProofs ----------------------------
(***************************************************************************)
(* Proofs about both pollers for any channels and descriptors.             *)
(***************************************************************************)
EXTENDS Pollers, FiniteSetTheorems, SequenceTheorems, TLAPS

\* A descriptor has one registered channel at a time.
RegisteredInv ==
    /\ IsFiniteSet(registered)
    /\ \A c, d \in registered : fd_[c] = fd_[d] => c = d

\* A registered channel has the entry of its descriptor in the Epoller's map, and the
\* kernel has it under its address unless it was deleted for having no events.
EpollInv ==
    /\ \A c \in registered :
           /\ index_[c] \in {"added", "deleted"}
           /\ channels_[fd_[c]] = c
           /\ index_[c] = "added" => epoll[fd_[c]] = [ptr |-> c, events |-> events_[c]]
           /\ index_[c] = "deleted" => epoll[fd_[c]] = NotWatched /\ events_[c] = {}
    /\ \A c \in Channels \ registered : index_[c] = "new"
    /\ \A f \in Fds : (\A c \in registered : fd_[c] # f) => channels_[f] = NoChannel /\ epoll[f] = NotWatched

\* The pollfd of a registered channel is for its descriptor and its events, and is ignored
\* when there are none.
OwnPollFd(c) ==
    /\ poll_index[c] \in 1..Len(poll_fds_)
    /\ poll_fds_[poll_index[c]].fd \in {fd_[c], Ignore(fd_[c])}
    /\ poll_fds_[poll_index[c]].events = events_[c]
    /\ events_[c] = {} => poll_fds_[poll_index[c]].fd = Ignore(fd_[c])

\* index_ is a bijection from the registered channels to the positions of poll_fds_.
PollInv ==
    /\ poll_channels = registered
    /\ Len(poll_fds_) = Cardinality(registered)
    /\ \A c \in registered : OwnPollFd(c)
    /\ \A c, d \in registered : poll_index[c] = poll_index[d] => c = d
    /\ \A i \in 1..Len(poll_fds_) : \E c \in registered : poll_index[c] = i

IInv == TypeOK /\ RegisteredInv /\ EpollInv /\ PollInv

-----------------------------------------------------------------------------
(* Facts *)

\* Negating a descriptor for poll(2) loses nothing.
LEMMA DecodeIgnore ==
    ASSUME NEW fd \in Nat
    PROVE  Decoded(fd) = fd /\ Decoded(Ignore(fd)) = fd /\ Ignore(fd) < 0 /\ Ignore(fd) \in Int
BY DEF Decoded, Ignore

\* Descriptors are numbers.
LEMMA FdIsNat == \A c \in Channels : fd_[c] \in Fds /\ fd_[c] \in Nat
BY FdAssumption

\* An entry of the kernel's set under a channel's address is not the empty one.
LEMMA WatchedIsNot ==
    ASSUME NEW c \in Channels, NEW ev
    PROVE  [ptr |-> c, events |-> ev] # NotWatched
BY EpollerAssumption DEF NotWatched

\* The state after construction satisfies the invariant.
LEMMA InitEstablishes == Init => IInv
<1> SUFFICES ASSUME Init PROVE IInv OBVIOUS
<1> USE DEF Init, EpollerInit, PollerInit
<1>1. TypeOK
  <2>1. <<>> \in Seq([fd : Int, events : SUBSET Events]) OBVIOUS
  <2>2. epoll \in [Fds -> [ptr : Channels \cup {NoChannel}, events : SUBSET Events]] BY DEF NotWatched
  <2> QED BY <2>1, <2>2, EpollerAssumption DEF TypeOK
<1>2. RegisteredInv BY FS_EmptySet DEF RegisteredInv
<1>3. EpollInv BY DEF EpollInv
<1>4. PollInv BY FS_EmptySet DEF PollInv
<1> QED BY <1>1, <1>2, <1>3, <1>4 DEF IInv

-----------------------------------------------------------------------------
(* update *)

\* The Epoller's tables and the kernel's set after update_channel.
LEMMA UpdateEpoll ==
    ASSUME IInv, NEW c \in Channels, NEW ev \in SUBSET Events, update(c, ev),
           c \in registered \/ MayRegister(c)
    PROVE  EpollInv' /\ index_' \in [Channels -> {"new", "added", "deleted"}]
           /\ channels_' \in [Fds -> Channels \cup {NoChannel}]
           /\ epoll' \in [Fds -> [ptr : Channels \cup {NoChannel}, events : SUBSET Events]]
<1>0. TypeOK /\ RegisteredInv /\ EpollInv BY DEF IInv
<1>1. fd_[c] \in Fds BY FdIsNat
<1>2. /\ events_' = [events_ EXCEPT ![c] = ev] /\ events_'[c] = ev
      /\ \A d \in Channels : d # c => events_'[d] = events_[d]
      /\ registered' = registered \cup {c}
    BY <1>0 DEF update, TypeOK
<1>3. \A d \in registered : d # c => fd_[d] # fd_[c] BY <1>0 DEF RegisteredInv, MayRegister
<1>4. CASE index_[c] = "added" /\ ev = {}
  <2>1. /\ channels_' = channels_ /\ index_' = [index_ EXCEPT ![c] = "deleted"]
        /\ epoll' = [epoll EXCEPT ![fd_[c]] = NotWatched]
      BY <1>4 DEF update, update_channel, unwatch
  <2>2. c \in registered BY <1>0, <1>4 DEF EpollInv
  <2>3. /\ index_' \in [Channels -> {"new", "added", "deleted"}] /\ index_'[c] = "deleted"
        /\ \A d \in Channels : d # c => index_'[d] = index_[d]
      BY <1>0, <2>1 DEF TypeOK
  <2>4. /\ epoll'[fd_[c]] = NotWatched
        /\ \A f \in Fds : f # fd_[c] => epoll'[f] = epoll[f]
        /\ epoll' \in [Fds -> [ptr : Channels \cup {NoChannel}, events : SUBSET Events]]
      BY <1>0, <1>1, <2>1 DEF TypeOK, NotWatched
  <2>5. EpollInv'
    <3>1. ASSUME NEW d \in registered', d # c
          PROVE  d \in registered /\ d \in Channels /\ fd_[d] \in Fds /\ fd_[d] # fd_[c]
        BY <1>0, <1>2, <1>3, <3>1, FdIsNat DEF TypeOK
    <3>2. channels_[fd_[c]] = c BY <1>0, <2>2 DEF EpollInv
    <3> QED BY <1>0, <1>2, <1>4, <2>1, <2>2, <2>3, <2>4, <3>1, <3>2 DEF EpollInv
  <2> QED BY <1>0, <2>1, <2>3, <2>4, <2>5 DEF TypeOK
<1>5. CASE ~(index_[c] = "added" /\ ev = {})
  <2>1. /\ channels_' = [channels_ EXCEPT ![fd_[c]] = c]
        /\ index_' = [index_ EXCEPT ![c] = "added"]
        /\ epoll' = [epoll EXCEPT ![fd_[c]] = [ptr |-> c, events |-> ev]]
    <3>1. CASE index_[c] = "added"
      <4>1. c \in registered BY <1>0, <3>1 DEF EpollInv
      <4>2. channels_[fd_[c]] = c BY <1>0, <4>1 DEF EpollInv
      <4>3. channels_' = channels_ /\ index_' = index_ /\ epoll' = [epoll EXCEPT ![fd_[c]] = [ptr |-> c, events |-> ev]]
          BY <1>5, <3>1 DEF update, update_channel, watch
      <4> QED BY <1>0, <1>1, <3>1, <4>2, <4>3 DEF TypeOK
    <3>2. CASE index_[c] \in {"new", "deleted"} BY <3>2 DEF update, update_channel, watch
    <3> QED BY <1>0, <3>1, <3>2 DEF TypeOK
  <2>2. /\ index_' \in [Channels -> {"new", "added", "deleted"}] /\ index_'[c] = "added"
        /\ \A d \in Channels : d # c => index_'[d] = index_[d]
      BY <1>0, <2>1 DEF TypeOK
  <2>3. /\ channels_' \in [Fds -> Channels \cup {NoChannel}] /\ channels_'[fd_[c]] = c
        /\ \A f \in Fds : f # fd_[c] => channels_'[f] = channels_[f]
      BY <1>0, <1>1, <2>1 DEF TypeOK
  <2>4. /\ epoll' \in [Fds -> [ptr : Channels \cup {NoChannel}, events : SUBSET Events]]
        /\ epoll'[fd_[c]] = [ptr |-> c, events |-> ev]
        /\ \A f \in Fds : f # fd_[c] => epoll'[f] = epoll[f]
      BY <1>0, <1>1, <2>1 DEF TypeOK
  <2>5. EpollInv'
    <3>1. ASSUME NEW d \in registered', d # c
          PROVE  d \in registered /\ d \in Channels /\ fd_[d] \in Fds /\ fd_[d] # fd_[c]
        BY <1>0, <1>2, <1>3, <3>1, FdIsNat DEF TypeOK
    <3> QED BY <1>0, <1>2, <2>2, <2>3, <2>4, <3>1 DEF EpollInv
  <2> QED BY <2>2, <2>3, <2>4, <2>5
<1> QED BY <1>4, <1>5

\* The Poller's tables after update_channel: a new channel's pollfd goes to the end.
LEMMA UpdatePoll ==
    ASSUME IInv, NEW c \in Channels, NEW ev \in SUBSET Events, update(c, ev),
           c \in registered \/ (poll_index[c] = 0 /\ MayRegister(c) /\ ev # {})
    PROVE  /\ PollInv' /\ RegisteredInv'
           /\ poll_index' \in [Channels -> Nat]
           /\ poll_fds_' \in Seq([fd : Int, events : SUBSET Events])
<1>0. TypeOK /\ RegisteredInv /\ PollInv BY DEF IInv
<1>1. /\ events_'[c] = ev
      /\ \A d \in Channels : d # c => events_'[d] = events_[d]
      /\ registered' = registered \cup {c} /\ registered \subseteq Channels
    BY <1>0 DEF update, TypeOK
<1>2. poll_fds_ \in Seq([fd : Int, events : SUBSET Events]) /\ Len(poll_fds_) \in Nat BY <1>0 DEF TypeOK
<1>3. fd_[c] \in Nat /\ fd_[c] \in Int /\ Ignore(fd_[c]) \in Int BY FdIsNat, DecodeIgnore
<1>4. CASE c \in registered
  <2> DEFINE i == poll_index[c]
  <2>1. registered' = registered /\ RegisteredInv' BY <1>0, <1>1, <1>4 DEF RegisteredInv
  <2>2. i \in 1..Len(poll_fds_) /\ i # 0 /\ poll_fds_[i].fd \in {fd_[c], Ignore(fd_[c])}
      BY <1>0, <1>2, <1>4 DEF PollInv, OwnPollFd
  <2>3. PICK p \in [fd : Int, events : SUBSET Events] :
            /\ poll_fds_' = [poll_fds_ EXCEPT ![i] = p]
            /\ p.fd \in {fd_[c], Ignore(fd_[c])} /\ p.events = ev /\ (ev = {} => p.fd = Ignore(fd_[c]))
    <3>1. poll_fds_' = [poll_fds_ EXCEPT ![i] = [fd |-> IF ev = {} THEN Ignore(fd_[c]) ELSE poll_fds_[i].fd, events |-> ev]]
        BY <2>2 DEF update, poller_update_channel
    <3>2. [fd |-> IF ev = {} THEN Ignore(fd_[c]) ELSE poll_fds_[i].fd, events |-> ev] \in [fd : Int, events : SUBSET Events]
        BY <1>3, <2>2
    <3> QED BY <2>2, <3>1, <3>2
  <2>4. UNCHANGED <<poll_index, poll_channels>> BY <2>2 DEF update, poller_update_channel
  <2>5. /\ poll_fds_' \in Seq([fd : Int, events : SUBSET Events]) /\ Len(poll_fds_') = Len(poll_fds_)
        /\ poll_fds_'[i] = p
        /\ \A j \in 1..Len(poll_fds_) : j # i => poll_fds_'[j] = poll_fds_[j]
      BY <1>2, <2>2, <2>3
  <2>6. OwnPollFd(c)' BY <1>1, <2>2, <2>3, <2>4, <2>5 DEF OwnPollFd
  <2>7. ASSUME NEW d \in registered, d # c PROVE OwnPollFd(d)'
    <3>1. OwnPollFd(d) /\ poll_index[d] # i /\ d \in Channels BY <1>0, <1>1, <1>4, <2>7 DEF PollInv
    <3> QED BY <1>1, <2>4, <2>5, <2>7, <3>1 DEF OwnPollFd
  <2>8. PollInv' BY <1>0, <2>1, <2>4, <2>5, <2>6, <2>7 DEF PollInv
  <2> QED BY <1>0, <2>1, <2>4, <2>5, <2>8 DEF TypeOK
<1>5. CASE c \notin registered
  <2> DEFINE n == Len(poll_fds_)
             p == [fd |-> fd_[c], events |-> ev]
  <2>1. \A d \in registered : fd_[d] # fd_[c] BY <1>5 DEF MayRegister
  <2>2. RegisteredInv' /\ Cardinality(registered') = Cardinality(registered) + 1
      BY <1>0, <1>1, <1>5, <2>1, FS_AddElement DEF RegisteredInv
  <2>3. /\ poll_fds_' = Append(poll_fds_, p)
        /\ poll_index' = [poll_index EXCEPT ![c] = n + 1]
        /\ poll_channels' = poll_channels \cup {c}
      BY <1>5 DEF update, poller_update_channel
  <2>4. p \in [fd : Int, events : SUBSET Events] BY <1>3
  <2>5. /\ poll_fds_' \in Seq([fd : Int, events : SUBSET Events]) /\ Len(poll_fds_') = n + 1
        /\ poll_fds_'[n + 1] = p
        /\ \A j \in 1..n : poll_fds_'[j] = poll_fds_[j]
      BY <1>2, <2>3, <2>4
  <2>6. /\ poll_index' \in [Channels -> Nat] /\ poll_index'[c] = n + 1
        /\ \A d \in Channels : d # c => poll_index'[d] = poll_index[d]
      BY <1>0, <1>2, <2>3 DEF TypeOK
  <2>7. OwnPollFd(c)'
    <3>1. p.fd = fd_[c] /\ p.events = ev OBVIOUS
    <3> QED BY <1>1, <1>2, <1>5, <2>5, <2>6, <3>1 DEF OwnPollFd
  <2>8. ASSUME NEW d \in registered PROVE OwnPollFd(d)' /\ d # c /\ poll_index'[d] = poll_index[d] /\ poll_index'[d] \in 1..n
    <3>1. OwnPollFd(d) /\ d # c /\ d \in Channels BY <1>0, <1>1, <1>5 DEF PollInv
    <3>2. poll_index'[d] = poll_index[d] /\ poll_index[d] \in 1..n BY <2>6, <3>1 DEF OwnPollFd
    <3>3. poll_fds_'[poll_index[d]] = poll_fds_[poll_index[d]] /\ events_'[d] = events_[d] BY <1>1, <2>5, <3>1, <3>2
    <3>4. poll_index'[d] \in 1..Len(poll_fds_') BY <1>2, <2>5, <3>2
    <3> QED BY <3>1, <3>2, <3>3, <3>4 DEF OwnPollFd
  <2>9. \A d, e \in registered' : poll_index'[d] = poll_index'[e] => d = e
    <3>1. n + 1 \notin 1..n BY <1>2
    <3> QED BY <1>0, <1>1, <2>6, <2>8, <3>1 DEF PollInv
  <2>10. \A j \in 1..Len(poll_fds_') : \E d \in registered' : poll_index'[d] = j
    <3>1. \A j \in 1..Len(poll_fds_') : j = n + 1 \/ j \in 1..n BY <1>2, <2>5
    <3>2. \A j \in 1..n : \E d \in registered : poll_index[d] = j BY <1>0 DEF PollInv
    <3> QED BY <1>1, <2>6, <2>8, <3>1, <3>2
  <2>11. PollInv' BY <1>0, <1>1, <2>2, <2>3, <2>5, <2>7, <2>8, <2>9, <2>10 DEF PollInv
  <2> QED BY <2>2, <2>5, <2>6, <2>11
<1> QED BY <1>4, <1>5

\* What a call of Channel::update() does to the invariant.
LEMMA UpdatePreserves ==
    ASSUME IInv, NEW c \in Channels, NEW ev \in SUBSET Events, update(c, ev),
           c \in registered \/ (poll_index[c] = 0 /\ MayRegister(c) /\ ev # {})
    PROVE  IInv'
<1>1. /\ EpollInv' /\ index_' \in [Channels -> {"new", "added", "deleted"}]
      /\ channels_' \in [Fds -> Channels \cup {NoChannel}]
      /\ epoll' \in [Fds -> [ptr : Channels \cup {NoChannel}, events : SUBSET Events]]
    BY UpdateEpoll
<1>2. /\ PollInv' /\ RegisteredInv'
      /\ poll_index' \in [Channels -> Nat]
      /\ poll_fds_' \in Seq([fd : Int, events : SUBSET Events])
    BY UpdatePoll
<1>3. TypeOK /\ PollInv BY DEF IInv
<1>4. /\ events_' \in [Channels -> SUBSET Events] /\ registered' \in SUBSET Channels
      /\ event_list' \in Nat
    BY <1>3 DEF update, update_channel, TypeOK
<1>5. TypeOK' BY <1>1, <1>2, <1>4 DEF TypeOK, PollInv
<1> QED BY <1>1, <1>2, <1>5 DEF IInv

-----------------------------------------------------------------------------
(* remove_channel *)

\* The Epoller's tables and the kernel's set after remove_channel.
LEMMA RemoveEpoll ==
    ASSUME IInv, NEW c \in Channels, Remove(c)
    PROVE  /\ EpollInv' /\ index_' \in [Channels -> {"new", "added", "deleted"}]
           /\ channels_' \in [Fds -> Channels \cup {NoChannel}]
           /\ epoll' \in [Fds -> [ptr : Channels \cup {NoChannel}, events : SUBSET Events]]
<1>0. TypeOK /\ RegisteredInv /\ EpollInv BY DEF IInv
<1>1. fd_[c] \in Fds BY FdIsNat
<1>2. c \in registered /\ registered' = registered \ {c} /\ events_' = events_ BY DEF Remove
<1>3. \A d \in registered' : d \in registered /\ d # c /\ d \in Channels /\ fd_[d] \in Fds /\ fd_[d] # fd_[c]
    BY <1>0, <1>2, FdIsNat DEF RegisteredInv, TypeOK
<1>4. /\ index_' \in [Channels -> {"new", "added", "deleted"}] /\ index_'[c] = "new"
      /\ \A d \in Channels : d # c => index_'[d] = index_[d]
    BY <1>0 DEF Remove, remove_channel, TypeOK
<1>5. /\ channels_' \in [Fds -> Channels \cup {NoChannel}] /\ channels_'[fd_[c]] = NoChannel
      /\ \A f \in Fds : f # fd_[c] => channels_'[f] = channels_[f]
    BY <1>0, <1>1 DEF Remove, remove_channel, TypeOK
<1>6. /\ epoll' \in [Fds -> [ptr : Channels \cup {NoChannel}, events : SUBSET Events]]
      /\ epoll'[fd_[c]] = NotWatched
      /\ \A f \in Fds : f # fd_[c] => epoll'[f] = epoll[f]
  <2>1. CASE index_[c] = "added"
    <3>1. epoll' = [epoll EXCEPT ![fd_[c]] = NotWatched] BY <2>1 DEF Remove, remove_channel, unwatch
    <3> QED BY <1>0, <1>1, <3>1 DEF TypeOK, NotWatched
  <2>2. CASE index_[c] # "added"
    <3>1. epoll' = epoll BY <2>2 DEF Remove, remove_channel
    <3>2. epoll[fd_[c]] = NotWatched BY <1>0, <1>2, <2>2 DEF EpollInv
    <3> QED BY <1>0, <3>1, <3>2 DEF TypeOK
  <2> QED BY <2>1, <2>2
<1>7. EpollInv'
  <2>1. ASSUME NEW d \in registered'
        PROVE  /\ index_'[d] \in {"added", "deleted"}
               /\ channels_'[fd_[d]] = d
               /\ index_'[d] = "added" => epoll'[fd_[d]] = [ptr |-> d, events |-> events_'[d]]
               /\ index_'[d] = "deleted" => epoll'[fd_[d]] = NotWatched /\ events_'[d] = {}
      BY <1>0, <1>2, <1>3, <1>4, <1>5, <1>6 DEF EpollInv
  <2>2. \A d \in Channels \ registered' : index_'[d] = "new" BY <1>0, <1>2, <1>4 DEF EpollInv
  <2>3. ASSUME NEW f \in Fds, \A d \in registered' : fd_[d] # f
        PROVE  channels_'[f] = NoChannel /\ epoll'[f] = NotWatched
    <3>1. CASE f = fd_[c] BY <1>5, <1>6, <3>1
    <3>2. CASE f # fd_[c]
      <4>1. \A d \in registered : fd_[d] # f BY <1>2, <2>3, <3>2
      <4> QED BY <1>0, <1>5, <1>6, <3>2, <4>1 DEF EpollInv
    <3> QED BY <3>1, <3>2
  <2>4. NotWatched' = NotWatched BY DEF NotWatched
  <2> QED BY <2>1, <2>2, <2>3, <2>4 DEF EpollInv
<1> QED BY <1>4, <1>5, <1>6, <1>7

\* The last element of a vector takes the place of another one and is popped.
LEMMA MoveLast ==
    ASSUME NEW S, NEW s \in Seq(S), NEW i \in 1..Len(s)
    PROVE  /\ SubSeq([s EXCEPT ![i] = s[Len(s)]], 1, Len(s) - 1) \in Seq(S)
           /\ Len(SubSeq([s EXCEPT ![i] = s[Len(s)]], 1, Len(s) - 1)) = Len(s) - 1
           /\ \A j \in 1..(Len(s) - 1) :
                  SubSeq([s EXCEPT ![i] = s[Len(s)]], 1, Len(s) - 1)[j] = IF j = i THEN s[Len(s)] ELSE s[j]
<1> DEFINE m == [s EXCEPT ![i] = s[Len(s)]]
           t == SubSeq(m, 1, Len(s) - 1)
<1>1. Len(s) \in Nat /\ Len(s) > 0 /\ Len(s) \in 1..Len(s) OBVIOUS
<1>2. /\ m \in Seq(S) /\ Len(m) = Len(s)
      /\ \A j \in 1..Len(s) : m[j] = IF j = i THEN s[Len(s)] ELSE s[j]
    BY <1>1
<1> HIDE DEF m
<1>3. \A j \in 1..(Len(s) - 1) : j \in 1..Len(s) /\ m[j] \in S BY <1>1, <1>2
<1>4. /\ t \in Seq(S)
      /\ Len(t) = IF 1 <= Len(s) - 1 THEN Len(s) - 1 - 1 + 1 ELSE 0
      /\ \A j \in 1..(Len(s) - 1 - 1 + 1) : t[j] = m[1 + j - 1]
    BY <1>1, <1>3, SubSeqProperties
<1> HIDE DEF t
<1>5. Len(t) = Len(s) - 1 /\ \A j \in 1..(Len(s) - 1) : t[j] = m[j]
  <2>1. \A n \in Nat : n > 0 => /\ n - 1 - 1 + 1 = n - 1
                                /\ (IF 1 <= n - 1 THEN n - 1 - 1 + 1 ELSE 0) = n - 1
                                /\ \A j \in 1..(n - 1) : 1 + j - 1 = j
      OBVIOUS
  <2> QED BY <1>1, <1>4, <2>1
<1>6. t \in Seq(S) /\ Len(t) = Len(s) - 1
      /\ \A j \in 1..(Len(s) - 1) : t[j] = IF j = i THEN s[Len(s)] ELSE s[j]
    BY <1>2, <1>3, <1>4, <1>5
<1> QED BY <1>6 DEF t, m

\* remove_channel of the Poller: the channel of the last pollfd, and no other, takes over
\* the place of the removed one.
LEMMA RemovePoll ==
    ASSUME IInv, NEW c \in Channels, Remove(c)
    PROVE  /\ PollInv' /\ RegisteredInv'
           /\ poll_index' \in [Channels -> Nat]
           /\ poll_fds_' \in Seq([fd : Int, events : SUBSET Events])
<1> DEFINE idx == poll_index[c]
           n == Len(poll_fds_)
           last == poll_fds_[n]
<1>0. TypeOK /\ RegisteredInv /\ PollInv BY DEF IInv
<1>1. /\ c \in registered /\ registered' = registered \ {c} /\ events_' = events_ /\ registered \subseteq Channels
      /\ poll_channels = registered
    BY <1>0 DEF Remove, TypeOK, PollInv
<1>2. poll_fds_ \in Seq([fd : Int, events : SUBSET Events]) /\ n \in Nat BY <1>0 DEF TypeOK
<1>3. idx \in 1..n /\ n > 0 /\ n \in 1..n /\ idx \in Nat BY <1>0, <1>1, <1>2 DEF PollInv, OwnPollFd
<1>4. /\ poll_channels' = poll_channels \ {c}
      /\ poll_fds_' = SubSeq([poll_fds_ EXCEPT ![idx] = last], 1, n - 1)
      /\ poll_index' = [d \in Channels |-> IF idx # n /\ d # c /\ Moved(d, last) THEN idx ELSE poll_index[d]]
    BY DEF Remove, poller_remove_channel
<1>5. idx \in 1..Len(poll_fds_) BY <1>3
<1>6. /\ poll_fds_' \in Seq([fd : Int, events : SUBSET Events]) /\ Len(poll_fds_') = n - 1
      /\ \A j \in 1..(n - 1) : poll_fds_'[j] = IF j = idx THEN last ELSE poll_fds_[j]
    BY <1>2, <1>4, <1>5, MoveLast
<1>7. PICK e \in registered : poll_index[e] = n BY <1>0, <1>3 DEF PollInv
<1>8. Decoded(last.fd) = fd_[e]
  <2>1. last.fd \in {fd_[e], Ignore(fd_[e])} BY <1>0, <1>7 DEF PollInv, OwnPollFd
  <2>2. fd_[e] \in Nat BY <1>1, FdIsNat
  <2> QED BY <2>1, <2>2, DecodeIgnore
<1>9. \A d \in Channels : Moved(d, last) <=> d = e BY <1>0, <1>1, <1>7, <1>8 DEF Moved, RegisteredInv
<1>10. /\ poll_index' \in [Channels -> Nat]
       /\ \A d \in registered' : poll_index'[d] = IF d = e THEN idx ELSE poll_index[d]
  <2>1. poll_index \in [Channels -> Nat] BY <1>0 DEF TypeOK
  <2>2. e # c => idx # n BY <1>0, <1>1, <1>7 DEF PollInv
  <2>3. \A d \in registered' : d \in Channels /\ d # c BY <1>1
  <2> QED BY <1>3, <1>4, <1>9, <2>1, <2>2, <2>3
<1>11. ASSUME NEW d \in registered'
       PROVE  /\ d \in registered /\ d # c /\ OwnPollFd(d)
              /\ poll_index'[d] \in 1..(n - 1) /\ poll_fds_'[poll_index'[d]] = poll_fds_[poll_index[d]]
  <2>1. d \in registered /\ d # c /\ OwnPollFd(d) BY <1>0, <1>1 DEF PollInv
  <2>2. poll_index[d] \in 1..n /\ poll_index[d] # idx BY <1>0, <1>1, <2>1 DEF PollInv, OwnPollFd
  <2>3. CASE d = e
    <3>1. poll_index'[d] = idx /\ idx # n BY <1>7, <1>10, <2>2, <2>3
    <3>2. idx \in 1..(n - 1) BY <1>2, <1>3, <3>1
    <3> QED BY <1>6, <1>7, <2>1, <2>3, <3>1, <3>2
  <2>4. CASE d # e
    <3>1. poll_index'[d] = poll_index[d] /\ poll_index[d] # n BY <1>0, <1>7, <1>10, <2>1, <2>4 DEF PollInv
    <3>2. poll_index[d] \in 1..(n - 1) BY <1>2, <2>2, <3>1
    <3> QED BY <1>6, <2>1, <2>2, <3>1, <3>2
  <2> QED BY <2>3, <2>4
<1>12. ASSUME NEW d \in registered' PROVE OwnPollFd(d)'
  <2>1. OwnPollFd(d) /\ events_'[d] = events_[d] BY <1>1, <1>11
  <2> QED BY <1>6, <1>11, <2>1 DEF OwnPollFd
<1>13. ASSUME NEW d1 \in registered', NEW d2 \in registered', poll_index'[d1] = poll_index'[d2] PROVE d1 = d2
  <2>1. poll_index[d1] # idx /\ poll_index[d2] # idx BY <1>0, <1>1, <1>11 DEF PollInv
  <2>2. (d1 = e /\ d2 = e) \/ (d1 # e /\ d2 # e) BY <1>10, <1>13, <2>1
  <2> QED BY <1>0, <1>10, <1>11, <1>13, <2>2 DEF PollInv
<1>14. ASSUME NEW j \in 1..(n - 1) PROVE \E d \in registered' : poll_index'[d] = j
  <2>1. j \in 1..n /\ j # n BY <1>2
  <2>2. CASE j = idx
    <3>1. e \in registered' BY <1>1, <1>7, <2>1, <2>2
    <3> QED BY <1>10, <2>2, <3>1
  <2>3. CASE j # idx
    <3>1. PICK d \in registered : poll_index[d] = j BY <1>0, <2>1 DEF PollInv
    <3>2. d # c /\ d # e BY <1>7, <2>1, <2>3, <3>1
    <3> QED BY <1>1, <1>10, <3>1, <3>2
  <2> QED BY <2>2, <2>3
<1>15. RegisteredInv' /\ Cardinality(registered') = Cardinality(registered) - 1
    BY <1>0, <1>1, FS_RemoveElement DEF RegisteredInv
<1>16. PollInv'
  <2>1. poll_channels' = registered' BY <1>1, <1>4
  <2>2. Len(poll_fds_') = Cardinality(registered') BY <1>0, <1>6, <1>15 DEF PollInv
  <2> QED BY <1>6, <1>12, <1>13, <1>14, <2>1, <2>2 DEF PollInv
<1> QED BY <1>6, <1>10, <1>15, <1>16

-----------------------------------------------------------------------------
(* Invariance *)

\* Every step of the specification keeps the invariant.
LEMMA NextPreserves == IInv /\ [Next]_vars => IInv'
<1> SUFFICES ASSUME IInv, [Next]_vars PROVE IInv' OBVIOUS
<1>0. TypeOK /\ RegisteredInv /\ EpollInv /\ PollInv BY DEF IInv
<1>1. ASSUME NEW c \in Channels, Enable(c) PROVE IInv'
  <2>1. c \in registered \/ (poll_index[c] = 0 /\ MayRegister(c)) BY <1>1 DEF Enable
  <2>2. /\ enable_reading(c) \in SUBSET Events /\ enable_reading(c) # {}
        /\ enable_writing(c) \in SUBSET Events /\ enable_writing(c) # {}
      BY <1>0 DEF TypeOK, Events, enable_reading, enable_writing
  <2> QED BY <1>1, <2>1, <2>2, UpdatePreserves DEF Enable
<1>2. ASSUME NEW c \in Channels, Disable(c) PROVE IInv'
  <2>1. c \in registered BY <1>2 DEF Disable
  <2>2. disable_writing(c) \in SUBSET Events /\ disable_all(c) \in SUBSET Events
      BY <1>0 DEF TypeOK, Events, disable_writing, disable_all
  <2> QED BY <1>2, <2>1, <2>2, UpdatePreserves DEF Disable
<1>3. ASSUME NEW c \in Channels, Remove(c) PROVE IInv'
  <2>1. /\ EpollInv' /\ index_' \in [Channels -> {"new", "added", "deleted"}]
        /\ channels_' \in [Fds -> Channels \cup {NoChannel}]
        /\ epoll' \in [Fds -> [ptr : Channels \cup {NoChannel}, events : SUBSET Events]]
      BY <1>3, RemoveEpoll
  <2>2. /\ PollInv' /\ RegisteredInv'
        /\ poll_index' \in [Channels -> Nat]
        /\ poll_fds_' \in Seq([fd : Int, events : SUBSET Events])
      BY <1>3, RemovePoll
  <2>3. /\ events_' \in [Channels -> SUBSET Events] /\ registered' \in SUBSET Channels
        /\ event_list' \in Nat
      BY <1>0, <1>3 DEF Remove, remove_channel, TypeOK
  <2>4. TypeOK' BY <2>1, <2>2, <2>3 DEF TypeOK, PollInv
  <2> QED BY <2>1, <2>2, <2>4 DEF IInv
<1>4. ASSUME NEW c \in Channels, Construct(c) PROVE IInv'
  <2>1. /\ c \notin registered /\ registered' = registered /\ events_' = events_
        /\ poll_channels' = poll_channels /\ poll_fds_' = poll_fds_
        /\ UNCHANGED epollerVars
      BY <1>4 DEF Construct
  <2>2. /\ poll_index' \in [Channels -> Nat]
        /\ \A d \in Channels : d # c => poll_index'[d] = poll_index[d]
      BY <1>0, <1>4 DEF Construct, TypeOK
  <2>3. \A d \in registered : poll_index'[d] = poll_index[d] BY <1>0, <2>1, <2>2 DEF TypeOK
  <2>4. TypeOK' BY <1>0, <2>1, <2>2 DEF TypeOK, epollerVars
  <2>5. RegisteredInv' BY <1>0, <2>1 DEF RegisteredInv
  <2>6. EpollInv' BY <1>0, <2>1 DEF EpollInv, epollerVars, NotWatched
  <2>7. \A d \in registered : OwnPollFd(d)' BY <1>0, <2>1, <2>3 DEF PollInv, OwnPollFd
  <2>8. PollInv' BY <1>0, <2>1, <2>3, <2>7 DEF PollInv
  <2> QED BY <2>4, <2>5, <2>6, <2>8 DEF IInv
<1>5. ASSUME UNCHANGED <<events_, registered, pollerVars, index_, channels_, epoll>>, event_list' \in Nat PROVE IInv'
  <2>1. TypeOK' BY <1>0, <1>5 DEF TypeOK, pollerVars
  <2>2. RegisteredInv' BY <1>0, <1>5 DEF RegisteredInv
  <2>3. EpollInv' BY <1>0, <1>5 DEF EpollInv, NotWatched
  <2>4. PollInv' BY <1>0, <1>5 DEF PollInv, OwnPollFd, pollerVars
  <2> QED BY <2>1, <2>2, <2>3, <2>4 DEF IInv
<1>6. CASE Poll
  <2>1. event_list' \in Nat BY <1>0, <1>6 DEF Poll, epoll_wait, Grown, TypeOK
  <2> QED BY <1>5, <1>6, <2>1 DEF Poll, epoll_wait
<1>7. CASE UNCHANGED vars BY <1>0, <1>5, <1>7 DEF vars, epollerVars, TypeOK
<1> QED BY <1>1, <1>2, <1>3, <1>4, <1>6, <1>7 DEF Next

\* The invariant holds throughout.
LEMMA Invariance == Spec => []IInv
BY InitEstablishes, NextPreserves, PTL DEF Spec

-----------------------------------------------------------------------------
(* Results *)

\* The tables of both pollers keep their types.
THEOREM TypeCorrect == Spec => []TypeOK
<1>1. IInv => TypeOK BY DEF IInv
<1> QED BY <1>1, Invariance, PTL

\* The kernel's epoll set is what the registered channels ask for, and holds the address of
\* no other channel.
THEOREM EpollSetMatches == Spec => []EpollSetInSync
<1>1. ASSUME IInv PROVE EpollSetInSync
  <2>0. TypeOK /\ EpollInv BY <1>1 DEF IInv
  <2>1. ASSUME NEW c \in registered PROVE epoll[fd_[c]].events = events_[c]
    <3>1. CASE epoll[fd_[c]] = [ptr |-> c, events |-> events_[c]] BY <3>1
    <3>2. CASE epoll[fd_[c]] = NotWatched /\ events_[c] = {} BY <3>2 DEF NotWatched
    <3> QED BY <2>0, <3>1, <3>2 DEF EpollInv
  <2>2. ASSUME NEW f \in Fds, epoll[f] # NotWatched PROVE epoll[f].ptr \in registered /\ fd_[epoll[f].ptr] = f
    <3>1. PICK c \in registered : fd_[c] = f BY <2>0, <2>2 DEF EpollInv
    <3>2. epoll[f] = [ptr |-> c, events |-> events_[c]] BY <2>0, <2>2, <3>1 DEF EpollInv
    <3> QED BY <3>1, <3>2
  <2> QED BY <2>1, <2>2 DEF EpollSetInSync
<1> QED BY <1>1, Invariance, PTL

\* Every channel's index_ stays on its own pollfd while others are removed, and no pollfd
\* is left over.
THEOREM PollFdsMatch == Spec => []PollFdsInSync
<1>1. ASSUME IInv PROVE PollFdsInSync
  <2>0. TypeOK /\ PollInv BY <1>1 DEF IInv
  <2>1. ASSUME NEW c \in registered
        PROVE  /\ poll_index[c] \in DOMAIN poll_fds_
               /\ Decoded(poll_fds_[poll_index[c]].fd) = fd_[c]
               /\ poll_fds_[poll_index[c]].events = events_[c]
    <3>1. OwnPollFd(c) /\ fd_[c] \in Nat BY <2>0, FdIsNat DEF PollInv, TypeOK
    <3>2. DOMAIN poll_fds_ = 1..Len(poll_fds_) BY <2>0 DEF TypeOK
    <3> QED BY <3>1, <3>2, DecodeIgnore DEF OwnPollFd
  <2> QED BY <2>0, <2>1 DEF PollFdsInSync, PollInv
<1> QED BY <1>1, Invariance, PTL

\* No assertion of update_channel, remove_channel or fill_active_channels fails in either
\* poller, and epoll_ctl neither adds a descriptor twice nor changes one it does not have, as
\* long as the calls keep the contract of module Pollers: no removed channel is enabled.
THEOREM NoAssertionFails == Spec => []AssertionsHold
<1>1. ASSUME IInv PROVE AssertionsHold
  <2>0. TypeOK /\ RegisteredInv /\ EpollInv /\ PollInv BY <1>1 DEF IInv
  <2>1. fill_active_channels_asserts
    <3> SUFFICES ASSUME NEW f \in Fds, epoll[f] # NotWatched
                 PROVE  channels_[fd_[epoll[f].ptr]] = epoll[f].ptr
        BY DEF fill_active_channels_asserts
    <3>1. PICK c \in registered : fd_[c] = f BY <2>0 DEF EpollInv
    <3>2. epoll[f] = [ptr |-> c, events |-> events_[c]] BY <2>0, <3>1 DEF EpollInv
    <3> QED BY <2>0, <3>1, <3>2 DEF EpollInv
  <2>2. poller_fill_asserts
    <3> SUFFICES ASSUME NEW i \in DOMAIN poll_fds_, poll_fds_[i].fd >= 0
                 PROVE  \E c \in poll_channels : fd_[c] = poll_fds_[i].fd
        BY DEF poller_fill_asserts
    <3>1. i \in 1..Len(poll_fds_) BY <2>0 DEF TypeOK
    <3>2. PICK c \in registered : poll_index[c] = i BY <2>0, <3>1 DEF PollInv
    <3>3. poll_fds_[i].fd \in {fd_[c], Ignore(fd_[c])} /\ fd_[c] \in Nat
        BY <2>0, <3>2, FdIsNat DEF PollInv, OwnPollFd, TypeOK
    <3>4. poll_fds_[i].fd = fd_[c] BY <3>3 DEF Ignore
    <3> QED BY <2>0, <3>2, <3>4 DEF PollInv
  <2>3. ASSUME NEW c \in registered
        PROVE  /\ update_channel_asserts(c) /\ update_channel_ctl(c) /\ poller_update_asserts(c)
               /\ events_[c] = {} => remove_channel_asserts(c) /\ poller_remove_asserts(c)
    <3>1. c \in Channels /\ fd_[c] \in Fds BY <2>0, FdIsNat DEF TypeOK
    <3>2. /\ index_[c] \in {"added", "deleted"} /\ channels_[fd_[c]] = c
          /\ index_[c] = "added" => epoll[fd_[c]] # NotWatched
          /\ index_[c] = "deleted" => epoll[fd_[c]] = NotWatched
      <4>1. [ptr |-> c, events |-> events_[c]] # NotWatched BY <3>1, WatchedIsNot
      <4> QED BY <2>0, <4>1 DEF EpollInv
    <3>3. /\ OwnPollFd(c) /\ c \in poll_channels /\ poll_index[c] # 0
          /\ poll_index[c] \in DOMAIN poll_fds_ /\ poll_fds_[poll_index[c]] \in [fd : Int, events : SUBSET Events]
      <4>1. OwnPollFd(c) /\ c \in poll_channels BY <2>0 DEF PollInv
      <4>2. poll_fds_ \in Seq([fd : Int, events : SUBSET Events]) BY <2>0 DEF TypeOK
      <4>3. poll_index[c] \in 1..Len(poll_fds_) BY <4>1 DEF OwnPollFd
      <4>4. poll_index[c] \in DOMAIN poll_fds_ /\ poll_index[c] # 0 BY <4>2, <4>3
      <4>5. poll_fds_[poll_index[c]] \in [fd : Int, events : SUBSET Events] BY <4>2, <4>3, ElementOfSeq
      <4> QED BY <4>1, <4>4, <4>5
    <3>4. update_channel_asserts(c) BY <3>2 DEF update_channel_asserts
    <3>5. update_channel_ctl(c) BY <3>2 DEF update_channel_ctl
    <3>6. poller_update_asserts(c) BY <3>3 DEF poller_update_asserts, OwnPollFd
    <3>7. remove_channel_asserts(c) BY <3>2 DEF remove_channel_asserts
    <3>8. events_[c] = {} => poller_remove_asserts(c) BY <3>3 DEF poller_remove_asserts, OwnPollFd
    <3> QED BY <3>4, <3>5, <3>6, <3>7, <3>8
  <2>4. ASSUME NEW c \in Channels, c \notin registered, poll_index[c] = 0, MayRegister(c)
        PROVE  update_channel_asserts(c) /\ update_channel_ctl(c) /\ poller_update_asserts(c)
    <3>1. fd_[c] \in Fds /\ \A d \in registered : fd_[d] # fd_[c] BY <2>4, FdIsNat DEF MayRegister
    <3>2. index_[c] = "new" /\ channels_[fd_[c]] = NoChannel /\ epoll[fd_[c]] = NotWatched
        BY <2>0, <2>4, <3>1 DEF EpollInv
    <3>3. update_channel_asserts(c) BY <3>2 DEF update_channel_asserts
    <3>4. update_channel_ctl(c) BY <3>2 DEF update_channel_ctl
    <3>5. poller_update_asserts(c) BY <2>0, <2>4, <3>1 DEF poller_update_asserts, PollInv
    <3> QED BY <3>3, <3>4, <3>5
  <2> QED BY <2>1, <2>2, <2>3, <2>4 DEF AssertionsHold
<1> QED BY <1>1, Invariance, PTL

=============================================================================
