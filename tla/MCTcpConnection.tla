--------------------------- MODULE MCTcpConnection ---------------------------
(* Two messages of two bytes each; the bytes are numbered as they are sent. *)
EXTENDS TcpConnection

CONSTANTS m1, m2

MCPayload == [m \in {m1, m2} |-> IF m = m1 THEN <<11, 12>> ELSE <<21, 22>>]
=============================================================================
