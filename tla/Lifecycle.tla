------------------------------ MODULE Lifecycle ------------------------------
(***************************************************************************)
(* What TcpServer and TcpClient promise about every descriptor: it is      *)
(* opened; it is closed again, or a connection takes it over and the user  *)
(* is told; the user is told once more when the connection is down, and    *)
(* only then is the descriptor closed and free to be used again.           *)
(***************************************************************************)
CONSTANT Fds

VARIABLE phase

Phases == {"free", "open", "up", "down"}

Transitions == {
    <<"free", "open">>,
    <<"open", "free">>,
    <<"open", "up">>,     \* connect_callback_: Connected
    <<"up", "down">>,     \* connect_callback_: Disconnected
    <<"down", "free">>}

Init == phase = [f \in Fds |-> "free"]

\* Any descriptors move on, each by one transition.
Next ==
    /\ phase' \in [Fds -> Phases]
    /\ \A f \in Fds : phase'[f] # phase[f] => <<phase[f], phase'[f]>> \in Transitions

Spec == Init /\ [][Next]_phase
=============================================================================
