------------------------------- MODULE Pollers -------------------------------
(***************************************************************************)
(* The two implementations of poller/PollerInterface.hpp side by side,     *)
(* driven by the same calls on Channel objects, as EventLoop::update_      *)
(* channel and remove_channel pass them on.                                *)
(*                                                                         *)
(* The calls keep a contract: a channel's first call enables something, a  *)
(* descriptor has one registered channel at a time, and remove_channel     *)
(* comes when the channel has no events, with no call for it until it is   *)
(* destroyed.  The library keeps it but for one case: a late send enables  *)
(* a removed channel (CloseAssertion of module TcpConnection).             *)
(***************************************************************************)
EXTENDS Epoller, Poller

VARIABLE registered  \* channels used since their construction and not removed

vars == <<events_, registered, epollerVars, pollerVars>>

Init ==
    /\ events_ = [c \in Channels |-> {}]
    /\ registered = {}
    /\ EpollerInit
    /\ PollerInit

MayRegister(c) == \A d \in registered \ {c} : fd_[d] # fd_[c]

\* Channel::update() -> EventLoop::update_channel -> PollerInterface::update_channel
update(c, ev) ==
    /\ events_' = [events_ EXCEPT ![c] = ev]
    /\ registered' = registered \cup {c}
    /\ update_channel(c, ev)
    /\ poller_update_channel(c, ev)

Enable(c) ==
    /\ c \in registered \/ poll_index[c] = 0
    /\ MayRegister(c)
    /\ \/ update(c, enable_reading(c))
       \/ update(c, enable_writing(c))

Disable(c) ==
    /\ c \in registered
    /\ \/ update(c, disable_writing(c))
       \/ update(c, disable_all(c))

\* EventLoop::remove_channel, then the destructor of the channel.  Its identity is
\* free for a new Channel object, with index_ -1.
Remove(c) ==
    /\ c \in registered
    /\ events_[c] = {}
    /\ registered' = registered \ {c}
    /\ remove_channel(c)
    /\ poller_remove_channel(c)
    /\ UNCHANGED events_

\* The next Channel object: Channel::Channel sets index_ to -1.
Construct(c) ==
    /\ c \notin registered
    /\ poll_index[c] # 0
    /\ poll_index' = [poll_index EXCEPT ![c] = 0]
    /\ UNCHANGED <<events_, registered, epollerVars, poll_channels, poll_fds_>>

\* EventLoop::loop polls.
Poll ==
    /\ \E n \in 0..Cardinality(Fds) : epoll_wait(n)
    /\ UNCHANGED <<events_, registered, pollerVars>>

Next ==
    \/ \E c \in Channels :
         \/ Enable(c)
         \/ Disable(c)
         \/ Remove(c)
         \/ Construct(c)
    \/ Poll

Spec == Init /\ [][Next]_vars

-----------------------------------------------------------------------------
(* Properties *)

\* The pollers' tables keep their types.
TypeOK ==
    /\ events_ \in [Channels -> SUBSET Events]
    /\ registered \in SUBSET Channels
    /\ index_ \in [Channels -> {"new", "added", "deleted"}]
    /\ channels_ \in [Fds -> Channels \cup {NoChannel}]
    /\ epoll \in [Fds -> [ptr : Channels \cup {NoChannel}, events : SUBSET Events]]
    /\ event_list \in Nat
    /\ poll_index \in [Channels -> Nat]
    /\ poll_channels \in SUBSET Channels
    /\ poll_fds_ \in Seq([fd : Int, events : SUBSET Events])

\* Every assertion of update_channel, remove_channel and fill_active_channels holds
\* whenever the library may make the call, and epoll_ctl is never asked to add a descriptor twice or to
\* change one it does not have, also when disable_all is called twice in a row, as
\* TcpConnection does when a connection is closed.
AssertionsHold ==
    /\ fill_active_channels_asserts
    /\ poller_fill_asserts
    /\ \A c \in Channels :
         /\ (c \in registered \/ poll_index[c] = 0) /\ MayRegister(c) =>
              update_channel_asserts(c) /\ update_channel_ctl(c) /\ poller_update_asserts(c)
         /\ c \in registered /\ events_[c] = {} =>
              remove_channel_asserts(c) /\ poller_remove_asserts(c)

\* The kernel's epoll set is what the channels ask for: a registered channel is
\* watched for its events, under its own address; no other address is in the set,
\* so that fill_active_channels never casts the pointer of a destroyed channel.
EpollSetInSync ==
    /\ \A c \in registered : epoll[fd_[c]].events = events_[c]
    /\ \A f \in Fds : epoll[f] # NotWatched => epoll[f].ptr \in registered /\ fd_[epoll[f].ptr] = f

\* Moving the last pollfd into the place of a removed one keeps every channel's
\* index_ on its own pollfd, ignored or not, and no pollfd is left over.
PollFdsInSync ==
    /\ Len(poll_fds_) = Cardinality(registered)
    /\ \A c \in registered :
         /\ poll_index[c] \in DOMAIN poll_fds_
         /\ Decoded(poll_fds_[poll_index[c]].fd) = fd_[c]
         /\ poll_fds_[poll_index[c]].events = events_[c]

=============================================================================
