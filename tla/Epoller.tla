------------------------------- MODULE Epoller -------------------------------
(***************************************************************************)
(* poller/Epoller.{hpp,cpp}: the poller that is used by default, with the  *)
(* kernel's epoll set.                                                     *)
(***************************************************************************)
EXTENDS Channel, FiniteSets

CONSTANTS
    NoChannel,
    k_init_event_list_size

ASSUME EpollerAssumption == NoChannel \notin Channels /\ k_init_event_list_size \in Nat \ {0}

VARIABLES
    index_,      \* per channel: "new", "added" or "deleted"
    channels_,   \* [Fds -> Channels \cup {NoChannel}]
    epoll,       \* external: the kernel's set; per fd the data.ptr and the events
    event_list   \* events_.size(): how many events one epoll_wait can return

epollerVars == <<index_, channels_, epoll, event_list>>

NotWatched == [ptr |-> NoChannel, events |-> {}]

EpollerInit ==
    /\ index_ = [c \in Channels |-> "new"]
    /\ channels_ = [f \in Fds |-> NoChannel]
    /\ epoll = [f \in Fds |-> NotWatched]
    /\ event_list = k_init_event_list_size

-----------------------------------------------------------------------------
(* The assertions, and what epoll_ctl demands *)

\* update_channel's assertions for a channel in the state index_ gives.
update_channel_asserts(c) ==
    channels_[fd_[c]] = (IF index_[c] = "new" THEN NoChannel ELSE c)

\* epoll_ctl fails with EEXIST or ENOENT otherwise.
update_channel_ctl(c) ==
    (index_[c] = "added") <=> (epoll[fd_[c]] # NotWatched)

\* remove_channel's assertions.
remove_channel_asserts(c) ==
    /\ channels_[fd_[c]] = c
    /\ index_[c] \in {"added", "deleted"}
    /\ index_[c] = "added" => epoll[fd_[c]] # NotWatched

\* fill_active_channels' assertions, for whatever epoll_wait may return.
fill_active_channels_asserts ==
    \A f \in Fds : epoll[f] # NotWatched => channels_[fd_[epoll[f].ptr]] = epoll[f].ptr

-----------------------------------------------------------------------------
(* Operations *)

\* update(): epoll_ctl with EPOLL_CTL_ADD or EPOLL_CTL_MOD.
watch(c, ev) == epoll' = [epoll EXCEPT ![fd_[c]] = [ptr |-> c, events |-> ev]]

\* update(): epoll_ctl with EPOLL_CTL_DEL.
unwatch(c) == epoll' = [epoll EXCEPT ![fd_[c]] = NotWatched]

\* Mutant: a deleted channel is taken for an added one.
update_channel_NoReadd(c, ev) ==
    /\ IF index_[c] = "new"
       THEN /\ channels_' = [channels_ EXCEPT ![fd_[c]] = c]
            /\ index_' = [index_ EXCEPT ![c] = "added"]
            /\ watch(c, ev)
       ELSE /\ UNCHANGED channels_
            /\ IF ev = {}
               THEN unwatch(c) /\ index_' = [index_ EXCEPT ![c] = "deleted"]
               ELSE UNCHANGED <<epoll, index_>>
    /\ UNCHANGED event_list

\* update_channel, with ev the channel's events by now.  A channel that is new or
\* deleted is added even if it has no events.
update_channel(c, ev) ==
    /\ IF index_[c] \in {"new", "deleted"}
       THEN /\ channels_' = [channels_ EXCEPT ![fd_[c]] = c]
            /\ index_' = [index_ EXCEPT ![c] = "added"]
            /\ watch(c, ev)
       ELSE /\ UNCHANGED channels_
            /\ IF ev = {}
               THEN unwatch(c) /\ index_' = [index_ EXCEPT ![c] = "deleted"]
               ELSE watch(c, ev) /\ UNCHANGED index_
    /\ UNCHANGED event_list

\* Mutant: remove_channel leaves the kernel's set alone.
remove_channel_KeepsPtr(c) ==
    /\ channels_' = [channels_ EXCEPT ![fd_[c]] = NoChannel]
    /\ UNCHANGED epoll
    /\ index_' = [index_ EXCEPT ![c] = "new"]
    /\ UNCHANGED event_list

\* remove_channel
remove_channel(c) ==
    /\ channels_' = [channels_ EXCEPT ![fd_[c]] = NoChannel]
    /\ IF index_[c] = "added" THEN unwatch(c) ELSE UNCHANGED epoll
    /\ index_' = [index_ EXCEPT ![c] = "new"]
    /\ UNCHANGED event_list

\* poll: events_.resize(events_.size() * 2) when the list was full.
Grown(n) == IF n = event_list THEN 2 * event_list ELSE event_list

\* poll with n events; fill_active_channels hands out the kernel's data.ptr.
epoll_wait(n) ==
    /\ n \in 0..Cardinality({f \in Fds : epoll[f] # NotWatched})
    /\ n <= event_list
    /\ event_list' = Grown(n)
    /\ UNCHANGED <<index_, channels_, epoll>>
=============================================================================
