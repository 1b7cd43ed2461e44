------------------------------ MODULE Acceptor ------------------------------
(***************************************************************************)
(* tcp/Acceptor.{hpp,cpp} and sockets::accept: one connection is accepted  *)
(* each time the listening socket is reported.  idle_fd_ is a descriptor   *)
(* held in reserve: when the table of descriptors is full it makes room to *)
(* accept a connection and drop it, for the backlog would be reported for  *)
(* ever otherwise.  Other threads of the process open and close            *)
(* descriptors between any two of the calls below.                         *)
(*                                                                         *)
(* handle_read_all is left out: nothing installs it.                       *)
(***************************************************************************)
EXTENDS Naturals

CONSTANTS
    Fds,       \* bound: the size of the table of descriptors
    None,      \* -1
    MaxPeers   \* bound: connection requests of peers

ASSUME AcceptorAssumption ==
    /\ None \notin Fds
    /\ Fds # {}
    /\ MaxPeers \in Nat

VARIABLES
    listenning_,
    idle_fd_,   \* keeps its value when the descriptor is closed
    conn_fd,    \* local variable of handle_read_once
    pc,         \* the loop thread's next step
    owner,      \* who has opened each descriptor
    backlog,    \* requests the kernel has queued
    peers,      \* number of requests so far
    doomed,     \* LOG_SYSFATAL has been written to: the LogWritter will abort
    stolen      \* history: another thread came between closing and reopening idle_fd_

acceptorVars == <<listenning_, idle_fd_, conn_fd, pc, owner, backlog, peers, doomed, stolen>>

Owners == {"free", "idle", "accepted", "connection", "other"}
AcceptSteps == {"accept", "test", "close_idle", "accept_idle", "drop_idle", "reopen_idle"}
FreeFds == {f \in Fds : owner[f] = "free"}

AcceptorInit ==
    /\ listenning_ = FALSE
    /\ idle_fd_ \in Fds
    /\ conn_fd = None
    /\ pc = "poll"
    /\ owner = [f \in Fds |-> IF f = idle_fd_ THEN "idle" ELSE "free"]
    /\ backlog = 0
    /\ peers = 0
    /\ doomed = FALSE
    /\ stolen = FALSE

Open(f, who) == owner' = [owner EXCEPT ![f] = who]

\* ::close, whoever has opened the descriptor; it does nothing for -1.
Close(f) == owner' = [g \in Fds |-> IF g = f THEN "free" ELSE owner[g]]

Goto(step) == pc' = step

-----------------------------------------------------------------------------
(* handle_read_once *)

\* The kernel has a descriptor and a request: a connection.
accept_one ==
    /\ backlog > 0
    /\ \E f \in FreeFds : Open(f, "accepted") /\ conn_fd' = f
    /\ backlog' = backlog - 1
    /\ Goto("test")
    /\ UNCHANGED doomed

\* EMFILE, found out before the kernel looks for a request.
accept_full ==
    /\ FreeFds = {}
    /\ Goto("close_idle")
    /\ UNCHANGED <<conn_fd, owner, backlog, doomed>>

\* Other expected errors: EAGAIN, or an error of the request, which is gone then.
accept_error ==
    /\ FreeFds # {}
    /\ backlog' = IF backlog = 0 THEN 0 ELSE backlog - 1
    /\ Goto("events")
    /\ UNCHANGED <<conn_fd, owner, doomed>>

\* The errors sockets::accept does not expect.
accept_fatal ==
    /\ doomed' = TRUE
    /\ Goto("events")
    /\ UNCHANGED <<conn_fd, owner, backlog>>

accept ==
    /\ pc = "accept"
    /\ accept_one \/ accept_full \/ accept_error \/ accept_fatal
    /\ UNCHANGED <<listenning_, idle_fd_, peers, stolen>>

\* Mutant: the descriptor is not closed.
test_failed_Leaks ==
    /\ pc = "test"
    /\ conn_fd' = None
    /\ Goto("events")
    /\ UNCHANGED <<listenning_, idle_fd_, owner, backlog, peers, doomed, stolen>>

\* ::poll fails; otherwise new_connection_callback_ takes over.
test_failed ==
    /\ pc = "test"
    /\ Close(conn_fd)
    /\ conn_fd' = None
    /\ Goto("events")
    /\ UNCHANGED <<listenning_, idle_fd_, backlog, peers, doomed, stolen>>

\* Mutant: EMFILE is logged and nothing is done about it.
close_idle_LogOnly ==
    /\ pc = "close_idle"
    /\ Goto("events")
    /\ UNCHANGED <<listenning_, idle_fd_, conn_fd, owner, backlog, peers, doomed, stolen>>

close_idle ==
    /\ pc = "close_idle"
    /\ Close(idle_fd_)
    /\ Goto("accept_idle")
    /\ UNCHANGED <<listenning_, idle_fd_, conn_fd, backlog, peers, doomed, stolen>>

\* Mutant: the result of ::accept is not stored.
accept_idle_Discarded ==
    /\ pc = "accept_idle"
    /\ IF FreeFds = {} \/ backlog = 0
       THEN UNCHANGED <<owner, backlog>>
       ELSE /\ \E f \in FreeFds : Open(f, "idle")
            /\ backlog' = backlog - 1
    /\ Goto("drop_idle")
    /\ UNCHANGED <<listenning_, idle_fd_, conn_fd, peers, doomed, stolen>>

accept_idle ==
    /\ pc = "accept_idle"
    /\ IF FreeFds = {} \/ backlog = 0
       THEN idle_fd_' = None /\ UNCHANGED <<owner, backlog>>
       ELSE /\ \E f \in FreeFds : Open(f, "idle") /\ idle_fd_' = f
            /\ backlog' = backlog - 1
    /\ Goto("drop_idle")
    /\ UNCHANGED <<listenning_, conn_fd, peers, doomed, stolen>>

drop_idle ==
    /\ pc = "drop_idle"
    /\ Close(idle_fd_)
    /\ Goto("reopen_idle")
    /\ UNCHANGED <<listenning_, idle_fd_, conn_fd, backlog, peers, doomed, stolen>>

\* Mutant: the reserve is used up.
reopen_idle_Forgets ==
    /\ pc = "reopen_idle"
    /\ idle_fd_' = None
    /\ Goto("events")
    /\ UNCHANGED <<listenning_, conn_fd, owner, backlog, peers, doomed, stolen>>

reopen_idle ==
    /\ pc = "reopen_idle"
    /\ IF FreeFds = {}
       THEN idle_fd_' = None /\ UNCHANGED owner
       ELSE \E f \in FreeFds : Open(f, "idle") /\ idle_fd_' = f
    /\ Goto("events")
    /\ UNCHANGED <<listenning_, conn_fd, backlog, peers, doomed, stolen>>

handle_read_once ==
    \/ accept
    \/ test_failed
    \/ close_idle
    \/ accept_idle
    \/ drop_idle
    \/ reopen_idle

-----------------------------------------------------------------------------
(* The kernel and the rest of the process *)

\* A peer asks for a connection, or gives up before it is accepted.
PeerAsks ==
    /\ listenning_
    /\ peers < MaxPeers
    /\ peers' = peers + 1
    /\ backlog' = backlog + 1
    /\ UNCHANGED <<listenning_, idle_fd_, conn_fd, pc, owner, doomed, stolen>>

PeerGivesUp ==
    /\ backlog > 0
    /\ backlog' = backlog - 1
    /\ UNCHANGED <<listenning_, idle_fd_, conn_fd, pc, owner, peers, doomed, stolen>>

OtherOpens(f) ==
    /\ f \in FreeFds
    /\ Open(f, "other")
    /\ stolen' = (stolen \/ pc \in {"accept_idle", "drop_idle", "reopen_idle"})
    /\ UNCHANGED <<listenning_, idle_fd_, conn_fd, pc, backlog, peers, doomed>>

OtherCloses(f) ==
    /\ owner[f] = "other"
    /\ Close(f)
    /\ UNCHANGED <<listenning_, idle_fd_, conn_fd, pc, backlog, peers, doomed, stolen>>

=============================================================================
