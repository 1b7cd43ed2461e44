------------------------------ MODULE MCPollers ------------------------------
(* An instance of Pollers for TLC: three descriptors, one of them used by two  *)
(* Channel objects in turn.                                                    *)
EXTENDS Pollers

CONSTANTS Listener, Connecting, Connection, Peer

MCChannels == {Listener, Connecting, Connection, Peer}
MCFds == {0, 3, 4}

\* The Connector's channel and the TcpConnection that takes over its socket.
MCFd == [c \in MCChannels |-> CASE c = Listener -> 0
                                [] c \in {Connecting, Connection} -> 3
                                [] c = Peer -> 4]
=============================================================================
