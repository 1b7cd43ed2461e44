------------------------------- MODULE Buffer -------------------------------
(***************************************************************************)
(* buffer/Buffer.{hpp,cpp}: a growing byte buffer with a reader and a      *)
(* writer index.  The state of an object is a record; the byte that C++    *)
(* indexes with i is data[i + 1].                                          *)
(*                                                                         *)
(* shrink and prepend, which nothing in the library calls, are left out.   *)
(***************************************************************************)
EXTENDS Naturals, Sequences

CONSTANTS
    Byte,
    Zero,             \* the byte vector::resize fills with
    k_cheap_prepend,
    k_initial_size,
    ExtraSize,        \* sizeof extra_buff in read_fd
    MaxChunk,         \* bound: bytes per call
    MaxBytes          \* bound: bytes put in altogether

ASSUME BufferAssumption ==
    /\ Zero \in Byte
    /\ k_cheap_prepend \in Nat
    /\ k_initial_size \in Nat
    /\ ExtraSize \in Nat
    /\ MaxChunk \in Nat
    /\ MaxBytes \in Nat

VARIABLES
    buf,  \* the object: data (buffer_), rd (reader_index_), wr (writer_index_)
    in,   \* history: the bytes put in
    out   \* history: the bytes taken out, as the caller read them

vars == <<buf, in, out>>

Strings == UNION {[1..n -> Byte] : n \in 0..MaxChunk}

-----------------------------------------------------------------------------
(* The object *)

readable_bytes(b) == b.wr - b.rd
writable_bytes(b) == Len(b.data) - b.wr
prependable_bytes(b) == b.rd

\* The bytes from peek() on.
Peek(b, n) == [i \in 1..n |-> b.data[b.rd + i]]

\* The constructor.
New == [data |-> [i \in 1..(k_cheap_prepend + k_initial_size) |-> Zero],
        rd |-> k_cheap_prepend,
        wr |-> k_cheap_prepend]

\* std::copy of str to offset at.
Overwrite(data, at, str) ==
    [i \in 1..Len(data) |-> IF at < i /\ i <= at + Len(str) THEN str[i - at] ELSE data[i]]

\* buffer_.resize(n)
Resize(data, n) == [i \in 1..n |-> IF i <= Len(data) THEN data[i] ELSE Zero]

\* Mutant: the bytes in front of the content are given away too.
Grows_NoReserve(b, len) == writable_bytes(b) + prependable_bytes(b) < len

\* make_space grows unless moving the content down frees enough.
Grows(b, len) == writable_bytes(b) + prependable_bytes(b) < len + k_cheap_prepend

\* Mutant: the content is moved to begin(), the indices say otherwise.
make_space_ToBegin(b, len) ==
    IF Grows(b, len)
    THEN [b EXCEPT !.data = Resize(@, len + b.wr)]
    ELSE [data |-> Overwrite(b.data, 0, Peek(b, readable_bytes(b))),
          rd |-> k_cheap_prepend,
          wr |-> k_cheap_prepend + readable_bytes(b)]

\* make_space
make_space(b, len) ==
    IF Grows(b, len)
    THEN [b EXCEPT !.data = Resize(@, len + b.wr)]
    ELSE [data |-> Overwrite(b.data, k_cheap_prepend, Peek(b, readable_bytes(b))),
          rd |-> k_cheap_prepend,
          wr |-> k_cheap_prepend + readable_bytes(b)]

\* Mutant: off by one, one byte too few is accepted.
NeedsSpace_OffByOne(b, len) == writable_bytes(b) + 1 < len

\* The test of ensure_writeable_bytes.
NeedsSpace(b, len) == writable_bytes(b) < len

ensure_writeable_bytes(b, len) == IF NeedsSpace(b, len) THEN make_space(b, len) ELSE b

\* Bytes are copied to begin_write(), and has_written.
Written(b, str) ==
    [data |-> Overwrite(b.data, b.wr, str), rd |-> b.rd, wr |-> b.wr + Len(str)]

\* append
Appended(b, str) == Written(ensure_writeable_bytes(b, Len(str)), str)

\* retrieve
Retrieved(b, n) == [b EXCEPT !.rd = @ + n]

\* retrieve_all
Cleared(b) == [data |-> b.data, rd |-> k_cheap_prepend, wr |-> k_cheap_prepend]

\* read_fd after readv has delivered str: into the writable bytes and, when they
\* are full, into extra_buff, which is then appended.
ReadIn(b, str) ==
    LET w == writable_bytes(b)
    IN  IF Len(str) <= w
        THEN Written(b, str)
        ELSE Appended([Written(b, SubSeq(str, 1, w)) EXCEPT !.wr = Len(b.data)],
                      SubSeq(str, w + 1, Len(str)))

-----------------------------------------------------------------------------
(* Operations *)

Init ==
    /\ buf = New
    /\ in = <<>>
    /\ out = <<>>

append(str) ==
    /\ Len(in) + Len(str) <= MaxBytes
    /\ buf' = Appended(buf, str)
    /\ in' = in \o str
    /\ UNCHANGED out

\* readv returns at most what both areas hold; on an error nothing changes.
read_fd(str) ==
    /\ Len(in) + Len(str) <= MaxBytes
    /\ Len(str) <= writable_bytes(buf) + ExtraSize
    /\ buf' = ReadIn(buf, str)
    /\ in' = in \o str
    /\ UNCHANGED out

\* The caller reads n bytes at peek() and retrieves them; assert(len <=
\* readable_bytes()).  retrieve_until(end) is retrieve(end - peek()).
retrieve(n) ==
    /\ n <= readable_bytes(buf)
    /\ buf' = Retrieved(buf, n)
    /\ out' = out \o Peek(buf, n)
    /\ UNCHANGED in

\* retrieve_as_string: all that is readable, then retrieve_all.
retrieve_as_string ==
    /\ buf' = Cleared(buf)
    /\ out' = out \o Peek(buf, readable_bytes(buf))
    /\ UNCHANGED in

\* swap with a new Buffer, whose user then holds the content.
swap ==
    /\ buf' = New
    /\ out' = out \o Peek(buf, readable_bytes(buf))
    /\ UNCHANGED in

Next ==
    \/ \E str \in Strings : append(str) \/ read_fd(str)
    \/ \E n \in 0..MaxBytes : retrieve(n)
    \/ retrieve_as_string
    \/ swap

Spec == Init /\ [][Next]_vars

-----------------------------------------------------------------------------
(* Properties *)

\* The object and the histories keep their types.
TypeOK ==
    /\ buf \in [data : Seq(Byte), rd : Nat, wr : Nat]
    /\ in \in Seq(Byte)
    /\ out \in Seq(Byte)

\* The class comment: 0 <= readerIndex <= writerIndex <= size, after any sequence
\* of calls; has_written never runs past what ensure_writeable_bytes made room for.
IndexOrder ==
    /\ buf.rd <= buf.wr
    /\ buf.wr <= Len(buf.data)

\* No byte is lost, repeated or reordered by moving the content, growing the
\* vector or splitting a read over extra_buff: what was taken is a prefix of what
\* was put in, and the readable bytes are the rest.
StreamPreserved ==
    /\ Len(in) = Len(out) + readable_bytes(buf)
    /\ \A i \in 1..Len(out) : out[i] = in[i]
    /\ \A i \in 1..readable_bytes(buf) : buf.data[buf.rd + i] = in[Len(out) + i]

\* The assertions of make_space and ensure_writeable_bytes, for every length a caller
\* may ask for: the content is moved down only when there is room in front of it, and
\* growing or moving always makes enough room.
SpaceAssertions ==
    \A len \in 0..(MaxChunk + MaxBytes) :
        /\ NeedsSpace(buf, len) /\ ~Grows(buf, len) => k_cheap_prepend < buf.rd
        /\ writable_bytes(ensure_writeable_bytes(buf, len)) >= len

Stream == INSTANCE ByteStream WITH in <- in, out <- out

\* A Buffer is a byte stream.
IsByteStream == Stream!Spec

=============================================================================
