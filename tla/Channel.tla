------------------------------- MODULE Channel -------------------------------
(***************************************************************************)
(* event_loop/Channel.{hpp,cpp}: the interest of Channel objects in events *)
(* of their file descriptors.  Several Channel objects may be made for the *)
(* same descriptor one after the other, as a socket is handed from the     *)
(* Connector to a TcpConnection and as closed descriptors are used again.  *)
(***************************************************************************)
EXTENDS Naturals

CONSTANTS
    Channels,  \* Channel objects
    Fds,       \* file descriptors, numbers as in the kernel
    fd_        \* [Channels -> Fds]

ASSUME FdAssumption ==
    /\ Fds \subseteq Nat
    /\ fd_ \in [Channels -> Fds]

Events == {"read", "write"}

VARIABLE events_

enable_reading(c) == events_[c] \cup {"read"}
enable_writing(c) == events_[c] \cup {"write"}
disable_writing(c) == events_[c] \ {"write"}
disable_all(c) == {}
=============================================================================
