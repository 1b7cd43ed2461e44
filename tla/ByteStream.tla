----------------------------- MODULE ByteStream -----------------------------
(***************************************************************************)
(* What a Buffer promises its user: a stream of bytes.  What is taken out  *)
(* is what was put in, in the same order, without a gap or a repetition.   *)
(***************************************************************************)
EXTENDS Naturals, Sequences

CONSTANT Byte

VARIABLES
    in,   \* all bytes put in so far
    out   \* all bytes taken out so far

Init == in = <<>> /\ out = <<>>

\* Bytes arrive at the end of the stream.
Put ==
    /\ in' \in Seq(Byte)
    /\ Len(in) <= Len(in')
    /\ \A i \in 1..Len(in) : in'[i] = in[i]
    /\ UNCHANGED out

\* The next bytes of the stream are taken.
Take ==
    /\ out' \in Seq(Byte)
    /\ Len(out) <= Len(out')
    /\ Len(out') <= Len(in)
    /\ \A i \in 1..Len(out') : out'[i] = in[i]
    /\ UNCHANGED in

Next == Put \/ Take

Spec == Init /\ [][Next]_<<in, out>>
=============================================================================
