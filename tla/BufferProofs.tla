---------------------------- MODULE BufferProofs ----------------------------
(***************************************************************************)
(* Proofs about Buffer: the indices stay in order and a Buffer implements  *)
(* a byte stream, for every choice of sizes and bytes.                     *)
(*                                                                         *)
(* The operations are described by what they do to Content, the readable   *)
(* bytes as a sequence: appending adds to its end, retrieving takes from   *)
(* its front, making space leaves it alone.                                *)
(***************************************************************************)
EXTENDS Buffer, SequenceTheorems, TLAPS

\* The readable bytes.
Content(b) == Peek(b, readable_bytes(b))

\* An object whose indices are in order and that keeps its reserve in front.
Valid(b) ==
    /\ b \in [data : Seq(Byte), rd : Nat, wr : Nat]
    /\ k_cheap_prepend <= b.rd
    /\ b.rd <= b.wr
    /\ b.wr <= Len(b.data)

\* The inductive invariant: what was taken and what is readable make up the input.
IInv ==
    /\ in \in Seq(Byte)
    /\ out \in Seq(Byte)
    /\ Valid(buf)
    /\ in = out \o Content(buf)

-----------------------------------------------------------------------------
(* The vector *)

\* A function on 1..n is a sequence of length n.
LEMMA FunIsSeq ==
    ASSUME NEW S, NEW n \in Nat, NEW f \in [1..n -> S]
    PROVE  f \in Seq(S) /\ Len(f) = n
<1>1. f \in Seq(S) BY SeqDef
<1>2. DOMAIN f = 1..n /\ DOMAIN f = 1..Len(f) /\ Len(f) \in Nat BY <1>1, LenProperties
<1> QED BY <1>1, <1>2

\* peek(): the bytes from reader_index_ on.
LEMMA PeekProps ==
    ASSUME NEW b, Valid(b), NEW n \in 0..readable_bytes(b)
    PROVE  /\ Peek(b, n) \in Seq(Byte)
           /\ Len(Peek(b, n)) = n
           /\ \A i \in 1..n : Peek(b, n)[i] = b.data[b.rd + i]
<1>1. b.rd \in Nat /\ b.wr \in Nat /\ b.data \in Seq(Byte) /\ Len(b.data) \in Nat /\ n \in Nat
    BY LenProperties DEF Valid, readable_bytes
<1>2. \A i \in 1..n : b.rd + i \in 1..Len(b.data)
    BY <1>1 DEF Valid, readable_bytes
<1>3. \A i \in 1..n : b.data[b.rd + i] \in Byte
    BY <1>1, <1>2, ElementOfSeq
<1>4. Peek(b, n) \in [1..n -> Byte] BY <1>3 DEF Peek
<1> QED BY <1>1, <1>4, FunIsSeq DEF Peek

\* std::copy changes the bytes from offset at on and nothing else.
LEMMA OverwriteProps ==
    ASSUME NEW data \in Seq(Byte), NEW at \in Nat, NEW str \in Seq(Byte),
           at + Len(str) <= Len(data)
    PROVE  /\ Overwrite(data, at, str) \in Seq(Byte)
           /\ Len(Overwrite(data, at, str)) = Len(data)
           /\ \A i \in 1..Len(data) :
                Overwrite(data, at, str)[i] =
                    IF at < i /\ i <= at + Len(str) THEN str[i - at] ELSE data[i]
<1>1. Len(data) \in Nat /\ Len(str) \in Nat BY LenProperties
<1>2. \A i \in 1..Len(data) : data[i] \in Byte BY ElementOfSeq
<1>3. \A i \in 1..Len(str) : str[i] \in Byte BY ElementOfSeq
<1>4. \A i \in 1..Len(data) : at < i /\ i <= at + Len(str) => i - at \in 1..Len(str) BY <1>1
<1>5. Overwrite(data, at, str) \in [1..Len(data) -> Byte]
    BY <1>2, <1>3, <1>4 DEF Overwrite
<1> QED BY <1>1, <1>5, FunIsSeq DEF Overwrite

\* resize keeps the bytes that fit.
LEMMA ResizeProps ==
    ASSUME NEW data \in Seq(Byte), NEW n \in Nat
    PROVE  /\ Resize(data, n) \in Seq(Byte)
           /\ Len(Resize(data, n)) = n
           /\ \A i \in 1..n : i <= Len(data) => Resize(data, n)[i] = data[i]
<1>1. Len(data) \in Nat BY LenProperties
<1>2. \A i \in 1..n : i <= Len(data) => data[i] \in Byte BY <1>1, ElementOfSeq
<1>3. Resize(data, n) \in [1..n -> Byte] BY <1>2, BufferAssumption DEF Resize
<1> QED BY <1>1, <1>3, FunIsSeq DEF Resize

-----------------------------------------------------------------------------
(* The operations *)

\* Two objects with as many readable bytes, and the same ones, have one content.
LEMMA ContentEqual ==
    ASSUME NEW b, NEW c, Valid(b), Valid(c), readable_bytes(b) = readable_bytes(c),
           \A i \in 1..readable_bytes(b) : b.data[b.rd + i] = c.data[c.rd + i]
    PROVE  Content(b) = Content(c)
BY DEF Content, Peek

\* make_space makes room, keeps the reserve and leaves the content alone.
LEMMA MakeSpaceProps ==
    ASSUME NEW b, Valid(b), NEW len \in Nat, NeedsSpace(b, len)
    PROVE  /\ Valid(make_space(b, len))
           /\ make_space(b, len).wr + len <= Len(make_space(b, len).data)
           /\ Content(make_space(b, len)) = Content(b)
<1> DEFINE m == make_space(b, len)
<1>1. b.rd \in Nat /\ b.wr \in Nat /\ b.data \in Seq(Byte) /\ Len(b.data) \in Nat
      /\ k_cheap_prepend \in Nat
    BY LenProperties, BufferAssumption DEF Valid
<1>2. k_cheap_prepend <= b.rd /\ b.rd <= b.wr /\ b.wr <= Len(b.data) BY DEF Valid
<1>3. CASE Grows(b, len)
  <2>1. m = [data |-> Resize(b.data, len + b.wr), rd |-> b.rd, wr |-> b.wr]
      BY <1>3 DEF make_space, Valid
  <2>2. /\ Resize(b.data, len + b.wr) \in Seq(Byte)
        /\ Len(Resize(b.data, len + b.wr)) = len + b.wr
        /\ \A i \in 1..(len + b.wr) : i <= Len(b.data) => Resize(b.data, len + b.wr)[i] = b.data[i]
    <3>1. len + b.wr \in Nat BY <1>1
    <3> QED BY <1>1, <3>1, ResizeProps
  <2>3. Valid(m) BY <1>1, <1>2, <2>1, <2>2 DEF Valid
  <2>4. m.wr + len <= Len(m.data) BY <1>1, <2>1, <2>2
  <2>5. \A i \in 1..readable_bytes(b) : m.data[m.rd + i] = b.data[b.rd + i]
    <3> SUFFICES ASSUME NEW i \in 1..readable_bytes(b)
                 PROVE  Resize(b.data, len + b.wr)[b.rd + i] = b.data[b.rd + i]
        BY <2>1
    <3>1. b.rd + i \in 1..(len + b.wr) /\ b.rd + i <= Len(b.data)
        BY <1>1, <1>2, SMTT(30) DEF readable_bytes
    <3> QED BY <2>2, <3>1
  <2>6. readable_bytes(m) = readable_bytes(b) BY <2>1 DEF readable_bytes
  <2>7. Content(m) = Content(b) BY <2>3, <2>5, <2>6, ContentEqual
  <2> QED BY <2>3, <2>4, <2>7
<1>4. CASE ~Grows(b, len)
  <2> DEFINE n == readable_bytes(b)
             p == Peek(b, n)
             d == Overwrite(b.data, k_cheap_prepend, p)
  <2>1. m = [data |-> d, rd |-> k_cheap_prepend, wr |-> k_cheap_prepend + n]
      BY <1>4 DEF make_space
  <2>2. n \in Nat /\ n \in 0..readable_bytes(b) /\ n = b.wr - b.rd BY <1>1, <1>2 DEF readable_bytes
  <2>3. p \in Seq(Byte) /\ Len(p) = n /\ \A i \in 1..n : p[i] = b.data[b.rd + i]
      BY <2>2, PeekProps
  <2>4. /\ d \in Seq(Byte)
        /\ Len(d) = Len(b.data)
        /\ \A i \in 1..Len(b.data) :
             d[i] = IF k_cheap_prepend < i /\ i <= k_cheap_prepend + Len(p)
                    THEN p[i - k_cheap_prepend] ELSE b.data[i]
    <3>1. k_cheap_prepend + Len(p) <= Len(b.data) BY <1>1, <1>2, <2>2, <2>3, SMTT(30)
    <3> HIDE DEF p
    <3> QED BY <1>1, <2>3, <3>1, OverwriteProps
  <2> HIDE DEF d, p, n
  <2>5. Valid(m) BY <1>1, <1>2, <2>1, <2>2, <2>4 DEF Valid
  <2>6. m.wr + len <= Len(m.data)
    <3>1. len + k_cheap_prepend <= (Len(b.data) - b.wr) + b.rd
        BY <1>1, <1>4 DEF Grows, writable_bytes, prependable_bytes
    <3>2. (k_cheap_prepend + n) + len <= Len(b.data) BY <1>1, <2>2, <3>1, SMTT(30)
    <3>3. m.wr = k_cheap_prepend + n /\ m.data = d BY <2>1
    <3> QED BY <2>4, <3>2, <3>3
  <2>7. readable_bytes(m) = readable_bytes(b)
      BY <1>1, <2>1, <2>2 DEF readable_bytes, n
  <2>8. \A i \in 1..readable_bytes(m) : m.data[m.rd + i] = b.data[b.rd + i]
    <3> SUFFICES ASSUME NEW i \in 1..n PROVE d[k_cheap_prepend + i] = b.data[b.rd + i]
        BY <2>1, <2>7 DEF n
    <3>1. k_cheap_prepend + i \in 1..Len(b.data) /\ k_cheap_prepend < k_cheap_prepend + i
          /\ k_cheap_prepend + i <= k_cheap_prepend + Len(p)
          /\ (k_cheap_prepend + i) - k_cheap_prepend = i
        BY <1>1, <1>2, <2>2, <2>3, SMTT(30)
    <3> QED BY <2>3, <2>4, <3>1
  <2>9. Content(m) = Content(b) BY <2>5, <2>7, <2>8, ContentEqual
  <2> QED BY <2>5, <2>6, <2>9
<1> QED BY <1>3, <1>4

\* ensure_writeable_bytes, whether or not it has to make space.
LEMMA EnsureProps ==
    ASSUME NEW b, Valid(b), NEW len \in Nat
    PROVE  /\ Valid(ensure_writeable_bytes(b, len))
           /\ ensure_writeable_bytes(b, len).wr + len <= Len(ensure_writeable_bytes(b, len).data)
           /\ Content(ensure_writeable_bytes(b, len)) = Content(b)
<1>1. CASE NeedsSpace(b, len) BY <1>1, MakeSpaceProps DEF ensure_writeable_bytes
<1>2. CASE ~NeedsSpace(b, len)
  <2>1. b.wr \in Nat /\ Len(b.data) \in Nat BY LenProperties DEF Valid
  <2> QED BY <1>2, <2>1 DEF ensure_writeable_bytes, NeedsSpace, writable_bytes
<1> QED BY <1>1, <1>2

\* Bytes written at begin_write() come at the end of the content.
LEMMA WrittenProps ==
    ASSUME NEW e, Valid(e), NEW str \in Seq(Byte), e.wr + Len(str) <= Len(e.data)
    PROVE  Valid(Written(e, str)) /\ Content(Written(e, str)) = Content(e) \o str
<1> DEFINE d == Overwrite(e.data, e.wr, str)
           w == Written(e, str)
           k == readable_bytes(e)
<1>1. e.rd \in Nat /\ e.wr \in Nat /\ e.data \in Seq(Byte) /\ Len(e.data) \in Nat /\ Len(str) \in Nat
    BY LenProperties DEF Valid
<1>2. k_cheap_prepend \in Nat /\ k_cheap_prepend <= e.rd /\ e.rd <= e.wr /\ e.wr <= Len(e.data)
    BY BufferAssumption DEF Valid
<1>3. w = [data |-> d, rd |-> e.rd, wr |-> e.wr + Len(str)]
    BY DEF Written
<1>4. /\ d \in Seq(Byte)
      /\ Len(d) = Len(e.data)
      /\ \A i \in 1..Len(e.data) :
           d[i] = IF e.wr < i /\ i <= e.wr + Len(str) THEN str[i - e.wr] ELSE e.data[i]
    BY <1>1, OverwriteProps
<1> HIDE DEF d
<1>5. Valid(w) BY <1>1, <1>2, <1>3, <1>4 DEF Valid
<1>6. k \in Nat /\ k = e.wr - e.rd /\ readable_bytes(w) = k + Len(str)
    BY <1>1, <1>2, <1>3 DEF readable_bytes
<1>7. /\ Content(w) \in Seq(Byte)
      /\ Len(Content(w)) = k + Len(str)
      /\ \A i \in 1..(k + Len(str)) : Content(w)[i] = d[e.rd + i]
  <2>1. readable_bytes(w) \in 0..readable_bytes(w) BY <1>1, <1>6
  <2> QED BY <1>3, <1>5, <1>6, <2>1, PeekProps DEF Content
<1>8. /\ Content(e) \in Seq(Byte)
      /\ Len(Content(e)) = k
      /\ \A i \in 1..k : Content(e)[i] = e.data[e.rd + i]
  <2>1. readable_bytes(e) \in 0..readable_bytes(e) BY <1>6
  <2> QED BY <2>1, PeekProps DEF Content
<1> HIDE DEF w, k
<1>9. /\ Content(e) \o str \in Seq(Byte)
      /\ Len(Content(e) \o str) = k + Len(str)
      /\ \A i \in 1..(k + Len(str)) :
           (Content(e) \o str)[i] = IF i <= k THEN Content(e)[i] ELSE str[i - k]
    BY <1>8, ConcatProperties
<1>10. ASSUME NEW i \in 1..(k + Len(str)) PROVE Content(w)[i] = (Content(e) \o str)[i]
  <2>1. e.rd + i \in 1..Len(e.data) BY <1>1, <1>2, <1>6, SMTT(30)
  <2>2. CASE i <= k
    <3>1. ~(e.wr < e.rd + i) /\ i \in 1..k BY <1>1, <1>2, <1>6, <2>2, SMTT(30)
    <3> QED BY <1>4, <1>7, <1>8, <1>9, <2>1, <2>2, <3>1
  <2>3. CASE ~(i <= k)
    <3>1. e.wr < e.rd + i /\ e.rd + i <= e.wr + Len(str) /\ (e.rd + i) - e.wr = i - k
        BY <1>1, <1>2, <1>6, <2>3, SMTT(30)
    <3> QED BY <1>4, <1>7, <1>9, <2>1, <2>3, <3>1
  <2> QED BY <2>2, <2>3
<1>11. Content(w) = Content(e) \o str BY <1>7, <1>9, <1>10, SeqEqual
<1> QED BY <1>5, <1>11 DEF w

\* append adds its bytes to the end of the content.
LEMMA AppendedProps ==
    ASSUME NEW b, Valid(b), NEW str \in Seq(Byte)
    PROVE  Valid(Appended(b, str)) /\ Content(Appended(b, str)) = Content(b) \o str
<1> DEFINE e == ensure_writeable_bytes(b, Len(str))
<1>1. Len(str) \in Nat BY LenProperties
<1>2. Valid(e) /\ e.wr + Len(str) <= Len(e.data) /\ Content(e) = Content(b) BY <1>1, EnsureProps
<1>3. Appended(b, str) = Written(e, str) BY DEF Appended
<1> HIDE DEF e
<1> QED BY <1>2, <1>3, WrittenProps

\* The content is a sequence of bytes, as long as readable_bytes() says.
LEMMA ContentType ==
    ASSUME NEW b, Valid(b)
    PROVE  /\ Content(b) \in Seq(Byte)
           /\ Len(Content(b)) = readable_bytes(b)
           /\ readable_bytes(b) \in Nat
           /\ \A i \in 1..readable_bytes(b) : Content(b)[i] = b.data[b.rd + i]
<1>1. readable_bytes(b) \in Nat BY DEF Valid, readable_bytes
<1>2. readable_bytes(b) \in 0..readable_bytes(b) BY <1>1
<1> QED BY <1>1, <1>2, PeekProps DEF Content

\* read_fd adds what it reads to the end of the content, also when the part that
\* went to extra_buff is appended by itself.
LEMMA ReadInProps ==
    ASSUME NEW b, Valid(b), NEW str \in Seq(Byte)
    PROVE  Valid(ReadIn(b, str)) /\ Content(ReadIn(b, str)) = Content(b) \o str
<1> DEFINE w == writable_bytes(b)
           s == SubSeq(str, 1, w)
           t == SubSeq(str, w + 1, Len(str))
<1>1. b.wr \in Nat /\ b.data \in Seq(Byte) /\ Len(b.data) \in Nat /\ Len(str) \in Nat
      /\ b.wr <= Len(b.data)
    BY LenProperties DEF Valid
<1>2. w \in Nat /\ w = Len(b.data) - b.wr BY <1>1 DEF writable_bytes
<1>3. CASE Len(str) <= w
  <2>1. ReadIn(b, str) = Written(b, str) BY <1>3 DEF ReadIn
  <2>2. b.wr + Len(str) <= Len(b.data) BY <1>1, <1>2, <1>3
  <2> QED BY <2>1, <2>2, WrittenProps
<1>4. CASE ~(Len(str) <= w)
  <2>1. s \in Seq(Byte) /\ Len(s) = w /\ t \in Seq(Byte) /\ s \o t = str
    <3>1. \A i \in 1..w : str[i] \in Byte BY <1>1, <1>2, <1>4, ElementOfSeq
    <3>2. \A i \in (w + 1)..Len(str) : str[i] \in Byte BY <1>1, <1>2, <1>4, ElementOfSeq
    <3>3. s \in Seq(Byte) /\ Len(s) = IF 1 <= w THEN w - 1 + 1 ELSE 0
        BY <1>2, <3>1, SubSeqProperties
    <3>4. Len(s) = w BY <1>2, <3>3
    <3>5. t \in Seq(Byte) BY <1>1, <1>2, <3>2, SubSeqProperties
    <3>6. 1 \in 1..(Len(str) + 1) /\ w \in (1 - 1)..Len(str) /\ Len(str) \in w..Len(str)
        BY <1>1, <1>2, <1>4
    <3>7. s \o t = SubSeq(str, 1, Len(str)) BY <3>6, ConcatAdjacentSubSeq
    <3>8. SubSeq(str, 1, Len(str)) = str BY SubSeqFull
    <3> QED BY <3>3, <3>4, <3>5, <3>7, <3>8
  <2> HIDE DEF s, t
  <2>2. ReadIn(b, str) = Appended(Written(b, s), t)
    <3>1. b.wr + Len(s) = Len(b.data) BY <1>1, <1>2, <2>1
    <3>2. Written(b, s) = [Written(b, s) EXCEPT !.wr = Len(b.data)]
        BY <3>1 DEF Written
    <3> QED BY <1>4, <3>2 DEF ReadIn, s, t
  <2>3. b.wr + Len(s) <= Len(b.data) BY <1>1, <1>2, <2>1
  <2>4. Valid(Written(b, s)) /\ Content(Written(b, s)) = Content(b) \o s
      BY <2>1, <2>3, WrittenProps
  <2>5. /\ Valid(ReadIn(b, str))
        /\ Content(ReadIn(b, str)) = (Content(b) \o s) \o t
      BY <2>1, <2>2, <2>4, AppendedProps
  <2>6. (Content(b) \o s) \o t = Content(b) \o (s \o t)
    <3>1. Content(b) \in Seq(Byte) BY ContentType
    <3>2. s \in Seq(Byte) /\ t \in Seq(Byte) BY <2>1
    <3> QED BY <3>1, <3>2, ConcatAssociative
  <2> QED BY <2>1, <2>5, <2>6
<1> QED BY <1>3, <1>4

\* retrieve takes from the front of the content what the caller saw at peek().
LEMMA RetrievedProps ==
    ASSUME NEW b, Valid(b), NEW n \in 0..readable_bytes(b)
    PROVE  /\ Valid(Retrieved(b, n))
           /\ Content(b) = Peek(b, n) \o Content(Retrieved(b, n))
<1> DEFINE r == Retrieved(b, n)
           k == readable_bytes(b)
<1>1. b.rd \in Nat /\ b.wr \in Nat /\ b.data \in Seq(Byte) /\ Len(b.data) \in Nat
    BY LenProperties DEF Valid
<1>2. k_cheap_prepend \in Nat /\ k_cheap_prepend <= b.rd /\ b.rd <= b.wr /\ b.wr <= Len(b.data)
    BY BufferAssumption DEF Valid
<1>3. k \in Nat /\ k = b.wr - b.rd /\ n \in Nat /\ n <= k BY <1>1, <1>2 DEF readable_bytes
<1>4. r = [data |-> b.data, rd |-> b.rd + n, wr |-> b.wr] BY DEF Retrieved, Valid
<1>5. Valid(r) BY <1>1, <1>2, <1>3, <1>4 DEF Valid
<1>6. readable_bytes(r) = k - n BY <1>1, <1>3, <1>4 DEF readable_bytes
<1>7. Peek(b, n) \in Seq(Byte) /\ Len(Peek(b, n)) = n
      /\ \A i \in 1..n : Peek(b, n)[i] = b.data[b.rd + i]
    BY PeekProps
<1>8. Content(r) \in Seq(Byte) /\ Len(Content(r)) = k - n
      /\ \A i \in 1..(k - n) : Content(r)[i] = b.data[(b.rd + n) + i]
    BY <1>4, <1>5, <1>6, ContentType
<1>9. Content(b) \in Seq(Byte) /\ Len(Content(b)) = k
      /\ \A i \in 1..k : Content(b)[i] = b.data[b.rd + i]
    BY ContentType
<1> HIDE DEF r, k
<1>10. /\ Peek(b, n) \o Content(r) \in Seq(Byte)
       /\ Len(Peek(b, n) \o Content(r)) = n + (k - n)
       /\ \A i \in 1..(n + (k - n)) :
            (Peek(b, n) \o Content(r))[i] = IF i <= n THEN Peek(b, n)[i] ELSE Content(r)[i - n]
  <2> DEFINE p == Peek(b, n)
             q == Content(r)
  <2>1. p \in Seq(Byte) /\ q \in Seq(Byte) /\ Len(p) = n /\ Len(q) = k - n BY <1>7, <1>8
  <2> HIDE DEF p, q
  <2>2. /\ p \o q \in Seq(Byte)
        /\ Len(p \o q) = Len(p) + Len(q)
        /\ \A i \in 1..(Len(p) + Len(q)) : (p \o q)[i] = IF i <= Len(p) THEN p[i] ELSE q[i - Len(p)]
      BY <2>1, ConcatProperties
  <2> QED BY <2>1, <2>2 DEF p, q
<1>11. n + (k - n) = k BY <1>3
<1>12. ASSUME NEW i \in 1..k PROVE Content(b)[i] = (Peek(b, n) \o Content(r))[i]
  <2>1. CASE i <= n
    <3>1. i \in 1..n BY <1>3, <2>1
    <3> QED BY <1>7, <1>9, <1>10, <1>11, <2>1, <3>1
  <2>2. CASE ~(i <= n)
    <3>1. i - n \in 1..(k - n) /\ (b.rd + n) + (i - n) = b.rd + i BY <1>1, <1>3, <2>2
    <3> QED BY <1>8, <1>9, <1>10, <1>11, <2>2, <3>1
  <2> QED BY <2>1, <2>2
<1>13. Content(b) = Peek(b, n) \o Content(r) BY <1>9, <1>10, <1>11, <1>12, SeqEqual
<1> QED BY <1>5, <1>13 DEF r

\* An object with both indices at k_cheap_prepend is empty.
LEMMA EmptyContent ==
    ASSUME NEW b, Valid(b), b.rd = b.wr
    PROVE  Content(b) = <<>>
<1>1. b.rd \in Nat BY DEF Valid
<1>2. readable_bytes(b) = 0 BY <1>1 DEF readable_bytes
<1> QED BY <1>2, ContentType, EmptySeq

\* retrieve_all leaves an empty object, as the constructor makes one.
LEMMA EmptyProps ==
    /\ Valid(New) /\ Content(New) = <<>>
    /\ \A b : Valid(b) => Valid(Cleared(b)) /\ Content(Cleared(b)) = <<>>
<1>1. k_cheap_prepend \in Nat /\ k_cheap_prepend + k_initial_size \in Nat
      /\ k_cheap_prepend <= k_cheap_prepend + k_initial_size /\ Zero \in Byte
    BY BufferAssumption
<1>2. Valid(New)
  <2>1. [i \in 1..(k_cheap_prepend + k_initial_size) |-> Zero]
          \in [1..(k_cheap_prepend + k_initial_size) -> Byte]
      BY <1>1
  <2>2. New.data \in Seq(Byte) /\ Len(New.data) = k_cheap_prepend + k_initial_size
      BY <1>1, <2>1, FunIsSeq DEF New
  <2> QED BY <1>1, <2>2 DEF Valid, New
<1>3. Content(New) = <<>> BY <1>2, EmptyContent DEF New
<1>4. ASSUME NEW b, Valid(b) PROVE Valid(Cleared(b)) /\ Content(Cleared(b)) = <<>>
  <2>1. b.rd \in Nat /\ b.wr \in Nat /\ Len(b.data) \in Nat BY <1>4, LenProperties DEF Valid
  <2>2. Cleared(b) = [data |-> b.data, rd |-> k_cheap_prepend, wr |-> k_cheap_prepend]
      BY DEF Cleared
  <2>3. Valid(Cleared(b)) BY <1>1, <1>4, <2>1, <2>2 DEF Valid
  <2> QED BY <2>2, <2>3, EmptyContent
<1> QED BY <1>2, <1>3, <1>4

-----------------------------------------------------------------------------
(* The invariant *)

\* A new Buffer satisfies the invariant.
LEMMA InitEstablishes == Init => IInv
<1> SUFFICES ASSUME Init PROVE IInv OBVIOUS
<1>1. in = <<>> /\ out = <<>> /\ Valid(buf) /\ Content(buf) = <<>> BY EmptyProps DEF Init
<1>2. <<>> \in Seq(Byte) BY EmptySeq
<1>3. <<>> \o <<>> = <<>> BY <1>2, ConcatEmptySeq
<1> QED BY <1>1, <1>2, <1>3 DEF IInv

\* A string an operation is called with.
LEMMA StringsAreSeqs == \A str \in Strings : str \in Seq(Byte)
<1> SUFFICES ASSUME NEW n \in 0..MaxChunk, NEW str \in [1..n -> Byte] PROVE str \in Seq(Byte)
    BY DEF Strings
<1>1. n \in Nat BY BufferAssumption
<1> QED BY <1>1, FunIsSeq

\* append and read_fd put bytes in.
LEMMA PutPreserves ==
    ASSUME IInv, NEW str \in Seq(Byte), append(str) \/ read_fd(str)
    PROVE  IInv'
<1>1. Valid(buf) /\ in \in Seq(Byte) /\ out \in Seq(Byte) /\ in = out \o Content(buf) BY DEF IInv
<1>2. Valid(buf') /\ Content(buf') = Content(buf) \o str
    BY <1>1, AppendedProps, ReadInProps DEF append, read_fd
<1>3. in' = in \o str /\ out' = out BY DEF append, read_fd
<1>4. Content(buf) \in Seq(Byte) BY <1>1, ContentType
<1>5. in \o str \in Seq(Byte) BY <1>1, ConcatProperties
<1>6. (out \o Content(buf)) \o str = out \o (Content(buf) \o str) BY <1>1, <1>4, ConcatAssociative
<1>7. Content(buf)' = Content(buf') BY DEF Content, Peek, readable_bytes
<1>8. Valid(buf)' BY <1>2 DEF Valid
<1> QED BY <1>1, <1>2, <1>3, <1>5, <1>6, <1>7, <1>8 DEF IInv

\* The front of the content is taken out and the rest stays.
LEMMA TakePreserves ==
    ASSUME IInv, NEW front \in Seq(Byte), Valid(buf'), Content(buf) = front \o Content(buf'),
           out' = out \o front, in' = in
    PROVE  IInv'
<1>1. in \in Seq(Byte) /\ out \in Seq(Byte) /\ in = out \o Content(buf) BY DEF IInv
<1>2. Content(buf') \in Seq(Byte) BY ContentType
<1>3. (out \o front) \o Content(buf') = out \o (front \o Content(buf'))
    BY <1>1, <1>2, ConcatAssociative
<1>4. out \o front \in Seq(Byte) BY <1>1, ConcatProperties
<1>5. Content(buf)' = Content(buf') BY DEF Content, Peek, readable_bytes
<1>6. Valid(buf)' BY DEF Valid
<1> QED BY <1>1, <1>3, <1>4, <1>5, <1>6 DEF IInv

\* retrieve.
LEMMA RetrievePreserves ==
    ASSUME IInv, NEW n \in 0..MaxBytes, retrieve(n)
    PROVE  IInv'
<1>1. Valid(buf) BY DEF IInv
<1>2. n \in 0..readable_bytes(buf)
  <2>1. readable_bytes(buf) \in Nat BY <1>1, ContentType
  <2> QED BY <2>1, BufferAssumption DEF retrieve
<1>3. Valid(Retrieved(buf, n)) /\ Content(buf) = Peek(buf, n) \o Content(Retrieved(buf, n))
    BY <1>1, <1>2, RetrievedProps
<1>4. Peek(buf, n) \in Seq(Byte) BY <1>1, <1>2, PeekProps
<1>5. buf' = Retrieved(buf, n) /\ out' = out \o Peek(buf, n) /\ in' = in BY DEF retrieve
<1> QED BY <1>3, <1>4, <1>5, TakePreserves

\* retrieve_as_string and swap take all there is.
LEMMA TakeAllPreserves ==
    ASSUME IInv, retrieve_as_string \/ swap
    PROVE  IInv'
<1>1. Valid(buf) BY DEF IInv
<1>2. Valid(buf') /\ Content(buf') = <<>>
    BY <1>1, EmptyProps DEF retrieve_as_string, swap
<1>3. out' = out \o Content(buf) /\ in' = in BY DEF retrieve_as_string, swap, Content
<1>4. Content(buf) \in Seq(Byte) BY <1>1, ContentType
<1>5. Content(buf) = Content(buf) \o Content(buf') BY <1>2, <1>4, ConcatEmptySeq
<1> QED BY <1>2, <1>3, <1>4, <1>5, TakePreserves

\* IInv is inductive.
LEMMA NextPreserves == IInv /\ [Next]_vars => IInv'
<1> SUFFICES ASSUME IInv, [Next]_vars PROVE IInv' OBVIOUS
<1>1. ASSUME NEW str \in Strings, append(str) \/ read_fd(str) PROVE IInv'
    BY <1>1, StringsAreSeqs, PutPreserves
<1>2. ASSUME NEW n \in 0..MaxBytes, retrieve(n) PROVE IInv' BY <1>2, RetrievePreserves
<1>3. CASE retrieve_as_string \/ swap BY <1>3, TakeAllPreserves
<1>4. CASE UNCHANGED vars
    BY <1>4 DEF vars, IInv, Valid, Content, Peek, readable_bytes
<1> QED BY <1>1, <1>2, <1>3, <1>4 DEF Next

\* IInv holds in every reachable state.
LEMMA Invariance == Spec => []IInv
<1> QED BY InitEstablishes, NextPreserves, PTL DEF Spec

-----------------------------------------------------------------------------
(* The theorems *)

\* A Buffer's members keep their types, for every size and every byte.
THEOREM BufferTypes == Spec => []TypeOK
<1>1. IInv => TypeOK BY DEF IInv, Valid, TypeOK
<1> QED BY <1>1, Invariance, PTL

\* 0 <= readerIndex <= writerIndex <= size, as the class comment says.
THEOREM IndicesInOrder == Spec => []IndexOrder
<1>1. IInv => IndexOrder BY DEF IInv, Valid, IndexOrder
<1> QED BY <1>1, Invariance, PTL

\* ensure_writeable_bytes always makes room, and the assertions on the way hold.
THEOREM SpaceIsMade == Spec => []SpaceAssertions
<1>1. IInv => SpaceAssertions
  <2> SUFFICES ASSUME IInv, NEW len \in 0..(MaxChunk + MaxBytes)
               PROVE  /\ NeedsSpace(buf, len) /\ ~Grows(buf, len) => k_cheap_prepend < buf.rd
                      /\ writable_bytes(ensure_writeable_bytes(buf, len)) >= len
      BY DEF SpaceAssertions
  <2> DEFINE e == ensure_writeable_bytes(buf, len)
  <2>1. len \in Nat /\ k_cheap_prepend \in Nat BY BufferAssumption
  <2>2. Valid(buf) /\ buf.rd \in Nat /\ buf.wr \in Nat /\ Len(buf.data) \in Nat
      BY LenProperties DEF IInv, Valid
  <2>3. Valid(e) /\ e.wr + len <= Len(e.data) BY <2>1, <2>2, EnsureProps
  <2> HIDE DEF e
  <2>4. e.wr \in Nat /\ Len(e.data) \in Nat BY <2>3, LenProperties DEF Valid
  <2>5. writable_bytes(e) >= len BY <2>1, <2>3, <2>4 DEF writable_bytes
  <2>6. NeedsSpace(buf, len) /\ ~Grows(buf, len) => k_cheap_prepend < buf.rd
      BY <2>1, <2>2, SMTT(30) DEF NeedsSpace, Grows, writable_bytes, prependable_bytes
  <2> QED BY <2>5, <2>6 DEF e
<1> QED BY <1>1, Invariance, PTL

\* What in = out \o Content means byte by byte.
LEMMA InvImpliesStream == IInv => StreamPreserved
<1> SUFFICES ASSUME IInv PROVE StreamPreserved OBVIOUS
<1> DEFINE c == Content(buf)
           k == readable_bytes(buf)
<1>1. out \in Seq(Byte) /\ in = out \o c /\ Len(out) \in Nat BY LenProperties DEF IInv
<1>2. c \in Seq(Byte) /\ Len(c) = k /\ k \in Nat
      /\ \A i \in 1..k : c[i] = buf.data[buf.rd + i]
    BY ContentType DEF IInv
<1> HIDE DEF c, k
<1>3. /\ Len(in) = Len(out) + k
      /\ \A i \in 1..(Len(out) + k) : in[i] = IF i <= Len(out) THEN out[i] ELSE c[i - Len(out)]
    BY <1>1, <1>2, ConcatProperties
<1>4. \A i \in 1..Len(out) : out[i] = in[i] BY <1>1, <1>2, <1>3
<1>5. ASSUME NEW i \in 1..k PROVE buf.data[buf.rd + i] = in[Len(out) + i]
  <2>1. Len(out) + i \in 1..(Len(out) + k) /\ ~(Len(out) + i <= Len(out))
        /\ (Len(out) + i) - Len(out) = i
      BY <1>1, <1>2
  <2> QED BY <1>2, <1>3, <2>1
<1> QED BY <1>3, <1>4, <1>5 DEF StreamPreserved, k

\* No byte is lost, repeated or reordered, for every size of the vector, of the
\* reserve and of the area read_fd overflows into.
THEOREM BytesPreserved == Spec => []StreamPreserved
<1> QED BY InvImpliesStream, Invariance, PTL

\* Every step of a Buffer is a step of the byte stream or leaves it alone.
LEMMA StepRefines == IInv /\ IInv' /\ [Next]_vars => [Stream!Next]_<<in, out>>
<1> SUFFICES ASSUME IInv, IInv', [Next]_vars PROVE [Stream!Next]_<<in, out>> OBVIOUS
<1>1. in \in Seq(Byte) /\ out \in Seq(Byte) /\ in' \in Seq(Byte) /\ out' \in Seq(Byte) BY DEF IInv
<1>2. ASSUME NEW str \in Strings, append(str) \/ read_fd(str) PROVE Stream!Put
  <2>1. str \in Seq(Byte) BY StringsAreSeqs
  <2>2. in' = in \o str /\ out' = out BY <1>2 DEF append, read_fd
  <2>3. Len(in) \in Nat /\ Len(str) \in Nat BY <1>1, <2>1, LenProperties
  <2>4. /\ Len(in') = Len(in) + Len(str)
        /\ \A i \in 1..(Len(in) + Len(str)) : in'[i] = IF i <= Len(in) THEN in[i] ELSE str[i - Len(in)]
      BY <1>1, <2>1, <2>2, ConcatProperties
  <2> QED BY <1>1, <2>2, <2>3, <2>4 DEF Stream!Put
<1>3. ASSUME NEW front \in Seq(Byte), out' = out \o front, in' = in PROVE Stream!Take
  <2>1. StreamPreserved' BY InvImpliesStream, PTL
  <2>2. Len(out) \in Nat /\ Len(front) \in Nat /\ Len(in) \in Nat /\ Len(out') \in Nat
      BY <1>1, LenProperties
  <2>3. Len(out') = Len(out) + Len(front) BY <1>1, <1>3, ConcatProperties
  <2>4. readable_bytes(buf') \in Nat BY ContentType DEF IInv
  <2>5. Len(in') = Len(out') + readable_bytes(buf') /\ \A i \in 1..Len(out') : out'[i] = in'[i]
      BY <2>1 DEF StreamPreserved, readable_bytes
  <2> QED BY <1>1, <1>3, <2>2, <2>3, <2>4, <2>5 DEF Stream!Take
<1>4. ASSUME NEW n \in 0..MaxBytes, retrieve(n) PROVE Stream!Take
  <2>1. Valid(buf) /\ readable_bytes(buf) \in Nat BY ContentType DEF IInv
  <2>2. n \in 0..readable_bytes(buf) BY <1>4, <2>1, BufferAssumption DEF retrieve
  <2>3. Peek(buf, n) \in Seq(Byte) BY <2>1, <2>2, PeekProps
  <2> QED BY <1>3, <1>4, <2>3 DEF retrieve
<1>5. CASE retrieve_as_string \/ swap
  <2>1. Content(buf) \in Seq(Byte) BY ContentType DEF IInv
  <2> QED BY <1>3, <1>5, <2>1 DEF retrieve_as_string, swap, Content, Stream!Next
<1>6. CASE UNCHANGED vars BY <1>6 DEF vars
<1> QED BY <1>2, <1>4, <1>5, <1>6 DEF Next, Stream!Next

\* A Buffer implements a byte stream.
THEOREM BufferIsByteStream == Spec => IsByteStream
<1>1. Init => Stream!Init BY DEF Init, Stream!Init
<1> QED BY <1>1, Invariance, StepRefines, PTL DEF Spec, IsByteStream, Stream!Spec
=============================================================================
