------------------------------- MODULE Poller -------------------------------
(***************************************************************************)
(* poller/Poller.{hpp,cpp}: the poller over poll(2), used when I_USE_POLL  *)
(* is in the environment.  A pollfd is its fd, negated (-1 - fd) when it   *)
(* is to be ignored, and its events.  Vector positions count from 1.       *)
(***************************************************************************)
EXTENDS Channel, Integers, Sequences

VARIABLES
    poll_index,     \* index_ of a channel that this poller serves; 0 for -1
    poll_channels,  \* channels_: the channels in the map
    poll_fds_       \* sequence of [fd, events]

pollerVars == <<poll_index, poll_channels, poll_fds_>>

PollerInit ==
    /\ poll_index = [c \in Channels |-> 0]
    /\ poll_channels = {}
    /\ poll_fds_ = <<>>

\* -1 - fd: what poll(2) ignores.
Ignore(fd) == -1 - fd

\* The descriptor a pollfd is for.
Decoded(fd) == IF fd < 0 THEN -fd - 1 ELSE fd

-----------------------------------------------------------------------------
(* The assertions *)

\* update_channel's assertions.
poller_update_asserts(c) ==
    IF poll_index[c] = 0
    THEN \A d \in poll_channels : fd_[d] # fd_[c]
    ELSE /\ c \in poll_channels
         /\ poll_index[c] \in DOMAIN poll_fds_
         /\ poll_fds_[poll_index[c]].fd \in {fd_[c], Ignore(fd_[c])}

\* remove_channel's assertions.
poller_remove_asserts(c) ==
    /\ c \in poll_channels
    /\ poll_index[c] \in DOMAIN poll_fds_
    /\ poll_fds_[poll_index[c]] = [fd |-> Ignore(fd_[c]), events |-> {}]

\* fill_active_channels' assertions: poll(2) reports no pollfd with a negative fd.
poller_fill_asserts ==
    \A i \in DOMAIN poll_fds_ :
        poll_fds_[i].fd >= 0 => \E c \in poll_channels : fd_[c] = poll_fds_[i].fd

-----------------------------------------------------------------------------
(* Operations *)

\* update_channel.  A pollfd that is ignored stays so when events are enabled again.
poller_update_channel(c, ev) ==
    IF poll_index[c] = 0
    THEN /\ poll_fds_' = Append(poll_fds_, [fd |-> fd_[c], events |-> ev])
         /\ poll_index' = [poll_index EXCEPT ![c] = Len(poll_fds_) + 1]
         /\ poll_channels' = poll_channels \cup {c}
    ELSE /\ poll_fds_' = [poll_fds_ EXCEPT ![poll_index[c]] =
                            [fd |-> IF ev = {} THEN Ignore(fd_[c]) ELSE @.fd, events |-> ev]]
         /\ UNCHANGED <<poll_index, poll_channels>>

\* Mutant: the descriptor of an ignored pollfd is not decoded.
Moved_NoDecode(d, last) == d \in poll_channels /\ fd_[d] = last.fd

\* channels_[channel_at_end]: the channel whose pollfd takes the free place.
Moved(d, last) == d \in poll_channels /\ fd_[d] = Decoded(last.fd)

\* remove_channel: the last pollfd takes the place of the removed one.  The removed
\* channel's own index_ is left as it is: the channel is not used again.
poller_remove_channel(c) ==
    LET idx == poll_index[c]
        n == Len(poll_fds_)
        last == poll_fds_[n]
    IN  /\ poll_channels' = poll_channels \ {c}
        /\ poll_fds_' = SubSeq([poll_fds_ EXCEPT ![idx] = last], 1, n - 1)
        /\ poll_index' = [d \in Channels |->
                            IF idx # n /\ d # c /\ Moved(d, last) THEN idx ELSE poll_index[d]]
=============================================================================
