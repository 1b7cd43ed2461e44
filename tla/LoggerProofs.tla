---------------------------- MODULE LoggerProofs ----------------------------
(***************************************************************************)
(* Proofs about Logger for any number of Loggers and lines.                *)
(***************************************************************************)
EXTENDS Logger, SequenceTheorems, TLAPS

Writing == {"see", "take", "append", "written"}

\* Where the two threads are, and at which Logger.  The writer thread is past its lock_guard
\* only with collect_mutex_ held.
PcInv ==
    /\ pc["writer"] \in {"off", "test", "stopped", "lock", "unlock"} \cup Writing
    /\ pc["main"] \in {"main", "stop_run", "ended"} \cup Writing
    /\ pc["writer"] \in {"lock", "unlock"} \cup Writing => at["writer"] \in Loggers
    /\ pc["writer"] \in {"unlock"} \cup Writing => at["writer"] \in mutex
    /\ pc["main"] = "main" => at["main"] = N + 1
    /\ pc["main"] \in {"stop_run"} \cup Writing => at["main"] \in Loggers

\* A thread that is about to take the lines out has seen all of them, in spite of the race
\* at exit; a destructor that has been through leaves none.
TakeInv ==
    /\ \A t \in Threads : pc[t] = "take" => ToSet(container_[at[t]]) \subseteq ToSet(trash[t])
    /\ pc["main"] \in {"append", "written"} => container_[at["main"]] = <<>>

\* The lines of Logger i, in the order in which they came.
InOrder(i) == file[i] \o InHand("writer", i) \o container_[i] = [n \in 1..lines[i] |-> n]

\* Until main returns the writer thread is alone with the lines.
OrderInv ==
    ~Exiting =>
        /\ \A i \in Loggers : InOrder(i)
        /\ pc["writer"] = "take" => trash["writer"] = container_[at["writer"]]
        /\ pc["writer"] \in {"append", "written"} => container_[at["writer"]] = <<>>
        /\ aborted => at["writer"] \in Fatal /\ pc["writer"] = "written"

IInv == TypeOK /\ PcInv /\ TakeInv /\ OrderInv /\ NothingForgotten
-----------------------------------------------------------------------------
(* Sequences *)

\* The lines of two sequences put together.
LEMMA ToSetConcat ==
    ASSUME NEW S, NEW s \in Seq(S), NEW t \in Seq(S)
    PROVE  ToSet(s \o t) = ToSet(s) \cup ToSet(t)
<1>1. /\ s \o t \in Seq(S) /\ Len(s \o t) = Len(s) + Len(t)
      /\ \A i \in 1..Len(s) : (s \o t)[i] = s[i]
      /\ \A i \in 1..Len(t) : (s \o t)[Len(s) + i] = t[i]
      /\ Len(s) \in Nat /\ Len(t) \in Nat
      /\ DOMAIN s = 1..Len(s) /\ DOMAIN t = 1..Len(t) /\ DOMAIN (s \o t) = 1..Len(s) + Len(t)
    OBVIOUS
<1>2. ToSet(s) \cup ToSet(t) \subseteq ToSet(s \o t)
  <2>1. \A i \in 1..Len(s) : i \in 1..Len(s) + Len(t) BY <1>1
  <2>2. \A i \in 1..Len(t) : Len(s) + i \in 1..Len(s) + Len(t) BY <1>1
  <2> QED BY <1>1, <2>1, <2>2 DEF ToSet
<1>3. ASSUME NEW x \in ToSet(s \o t) PROVE x \in ToSet(s) \cup ToSet(t)
  <2>1. PICK i \in 1..Len(s) + Len(t) : x = (s \o t)[i] BY <1>1 DEF ToSet
  <2>2. CASE i <= Len(s)
    <3>1. i \in 1..Len(s) BY <1>1, <2>2
    <3> QED BY <1>1, <2>1, <3>1 DEF ToSet
  <2>3. CASE i > Len(s)
    <3>1. i - Len(s) \in 1..Len(t) /\ i = Len(s) + (i - Len(s)) BY <1>1, <2>3
    <3>2. x = t[i - Len(s)] BY <1>1, <2>1, <3>1
    <3> QED BY <1>1, <3>1, <3>2 DEF ToSet
  <2> QED BY <1>1, <2>2, <2>3
<1> QED BY <1>2, <1>3

\* The lines after push_back.
LEMMA ToSetAppend ==
    ASSUME NEW S, NEW s \in Seq(S), NEW e \in S
    PROVE  ToSet(Append(s, e)) = ToSet(s) \cup {e}
<1>1. /\ DOMAIN s = 1..Len(s) /\ Len(s) \in Nat
      /\ DOMAIN Append(s, e) = 1..(Len(s) + 1)
      /\ Append(s, e)[Len(s) + 1] = e
      /\ \A i \in 1..Len(s) : Append(s, e)[i] = s[i]
    OBVIOUS
<1>2. ToSet(s) \cup {e} \subseteq ToSet(Append(s, e)) BY <1>1 DEF ToSet
<1>3. ToSet(Append(s, e)) \subseteq ToSet(s) \cup {e} BY <1>1 DEF ToSet
<1> QED BY <1>2, <1>3

\* There are none in an empty sequence.
LEMMA ToSetEmpty == ToSet(<<>>) = {}
BY DEF ToSet

\* The first k lines.
Count(k) == [n \in 1..k |-> n]

\* push_back on the last of two sequences is push_back on their concatenation.
LEMMA AppendConcat ==
    ASSUME NEW S, NEW s \in Seq(S), NEW t \in Seq(S), NEW e \in S
    PROVE  s \o Append(t, e) = Append(s \o t, e)
<1>1. s \o Append(t, e) \in Seq(S) /\ Append(s \o t, e) \in Seq(S) OBVIOUS
<1>2. Len(s \o Append(t, e)) = Len(Append(s \o t, e)) OBVIOUS
<1>3. \A i \in 1..Len(s \o Append(t, e)) : (s \o Append(t, e))[i] = Append(s \o t, e)[i] OBVIOUS
<1> QED BY <1>1, <1>2, <1>3, SeqEqual

\* operator<< adds the next line.
LEMMA CountNext ==
    ASSUME NEW S, NEW s \in Seq(S), NEW t \in Seq(S), NEW k \in Nat, k + 1 \in S, s \o t = Count(k)
    PROVE  s \o Append(t, k + 1) = Count(k + 1)
<1>1. s \o t \in Seq(S) /\ DOMAIN (s \o t) = 1..Len(s) + Len(t) /\ Len(s) \in Nat /\ Len(t) \in Nat
  <2>1. \A a, b \in Seq(S) : /\ a \o b \in Seq(S) /\ DOMAIN (a \o b) = 1..Len(a) + Len(b)
                             /\ Len(a) \in Nat /\ Len(b) \in Nat
      OBVIOUS
  <2> QED BY <2>1
<1>2. DOMAIN Count(k) = 1..k BY DEF Count
<1>3. Len(s) + Len(t) = k
  <2>1. \A m, n \in Nat : 1..m = 1..n => m = n
    <3> SUFFICES ASSUME NEW m \in Nat, NEW n \in Nat, 1..m = 1..n PROVE m = n OBVIOUS
    <3>1. m > 0 => m \in 1..n OBVIOUS
    <3>2. n > 0 => n \in 1..m OBVIOUS
    <3> QED BY <3>1, <3>2
  <2>2. Len(s) + Len(t) \in Nat BY <1>1
  <2> QED BY <1>1, <1>2, <2>1, <2>2
<1>4. s \o Append(t, k + 1) = Append(s \o t, k + 1) BY AppendConcat
<1>5. Append(s \o t, k + 1) = Count(k + 1)
  <2> DEFINE a == Append(s \o t, k + 1)
  <2>1. /\ DOMAIN a = 1..(k + 1) /\ a = [i \in DOMAIN a |-> a[i]]
        /\ a[k + 1] = k + 1 /\ \A i \in 1..k : a[i] = (s \o t)[i]
      BY <1>1, <1>3
  <2>2. \A i \in 1..k : a[i] = i BY <2>1 DEF Count
  <2>3. \A i \in 1..(k + 1) : a[i] = i BY <2>1, <2>2
  <2> HIDE DEF a
  <2>4. a = [i \in 1..(k + 1) |-> i] BY <2>1, <2>3
  <2> QED BY <2>4 DEF Count, a
<1> QED BY <1>4, <1>5

\* The lines in hand are not in the file yet.
LEMMA CountApart ==
    ASSUME NEW S, NEW s \in Seq(S), NEW t \in Seq(S), NEW k \in Nat, s \o t = Count(k), t # <<>>
    PROVE  ~(ToSet(t) \subseteq ToSet(s))
<1>1. /\ DOMAIN (s \o t) = 1..Len(s) + Len(t) /\ Len(s) \in Nat /\ Len(t) \in Nat /\ Len(t) > 0
      /\ DOMAIN s = 1..Len(s) /\ DOMAIN t = 1..Len(t)
      /\ \A i \in 1..Len(s) : (s \o t)[i] = s[i]
      /\ (s \o t)[Len(s) + 1] = t[1]
    OBVIOUS
<1>2. \A i \in DOMAIN (s \o t) : (s \o t)[i] = i BY DEF Count
<1>3. \A i \in 1..Len(s) : s[i] = i
  <2>1. \A i \in 1..Len(s) : i \in 1..Len(s) + Len(t) BY <1>1
  <2> QED BY <1>1, <1>2, <2>1
<1>4. t[1] = Len(s) + 1
  <2>1. Len(s) + 1 \in 1..Len(s) + Len(t) BY <1>1
  <2> QED BY <1>1, <1>2, <2>1
<1>5. t[1] \in ToSet(t)
  <2>1. 1 \in DOMAIN t BY <1>1
  <2> QED BY <2>1 DEF ToSet
<1>6. \A x \in ToSet(s) : x \in 1..Len(s) BY <1>1, <1>3 DEF ToSet
<1>7. Len(s) + 1 \notin 1..Len(s) BY <1>1
<1> QED BY <1>4, <1>5, <1>6, <1>7

\* All lines are in the file.
LEMMA CountLen ==
    ASSUME NEW S, NEW s \in Seq(S), NEW k \in Nat, s = Count(k)
    PROVE  Len(s) = k
<1>1. DOMAIN s = 1..Len(s) /\ Len(s) \in Nat OBVIOUS
<1>2. DOMAIN Count(k) = 1..k BY DEF Count
<1>3. \A m, n \in Nat : 1..m = 1..n => m = n
  <2> SUFFICES ASSUME NEW m \in Nat, NEW n \in Nat, 1..m = 1..n PROVE m = n OBVIOUS
  <2>1. m > 0 => m \in 1..n OBVIOUS
  <2>2. n > 0 => n \in 1..m OBVIOUS
  <2> QED BY <2>1, <2>2
<1> QED BY <1>1, <1>2, <1>3

-----------------------------------------------------------------------------
(* The invariant *)

\* The Loggers as they register satisfy the invariant.
LEMMA InitEstablishes == Init => IInv
<1> SUFFICES ASSUME Init PROVE IInv OBVIOUS
<1> USE LoggerAssumption
<1>1. TypeOK
  <2>1. running_ \in BOOLEAN /\ aborted \in BOOLEAN BY Zenon DEF Init
  <2>2. <<>> \in Lines BY DEF Lines
  <2>3. pc \in [Threads -> Steps] BY DEF Init, Threads, Steps
  <2>4. at \in [Threads -> 0..N + 1] BY DEF Init, Threads
  <2> QED BY <2>1, <2>2, <2>3, <2>4 DEF Init, TypeOK
<1>2. PcInv BY DEF Init, PcInv, Writing
<1>3. TakeInv BY DEF Init, TakeInv, Threads
<1>4. OrderInv
  <2>1. <<>> \o <<>> = <<>> /\ \A i \in Loggers : Count(0) = <<>> BY DEF Count
  <2>2. \A i \in Loggers : InHand("writer", i) = <<>> BY DEF Init, InHand
  <2>3. \A i \in Loggers : InOrder(i) BY <2>1, <2>2 DEF Init, InOrder, Count
  <2> QED BY <2>3 DEF Init, OrderInv, Exiting
<1>5. NothingForgotten BY DEF Init, NothingForgotten
<1> QED BY <1>1, <1>2, <1>3, <1>4, <1>5 DEF IInv

\* The types, one by one.
LEMMA Types ==
    ASSUME IInv
    PROVE  /\ \A i \in Loggers : container_[i] \in Lines /\ file[i] \in Lines /\ lines[i] \in Nat
           /\ \A t \in Threads : trash[t] \in Lines /\ pc[t] \in Steps /\ at[t] \in Nat
           /\ pc \in [Threads -> Steps] /\ at \in [Threads -> 0..N + 1]
           /\ DOMAIN pc = Threads /\ DOMAIN at = Threads
           /\ N \in Nat /\ N > 0 /\ MaxLines \in Nat
BY LoggerAssumption DEF IInv, TypeOK

\* What keeps the lines, apart from where main is.
HoldsLine(i, n) == n \in ToSet(file[i]) \/ \E t \in Threads : n \in ToSet(InHand(t, i))

\* The destructor of Logger i has not been through.
ToCome(i) == i <= at["main"] /\ ~(i = at["main"] /\ pc["main"] = "written")

\* NothingForgotten in these words.
LEMMA ForgottenBy ==
    NothingForgotten <=> \A i \in Loggers, n \in 1..MaxLines :
        n <= lines[i] => HoldsLine(i, n) \/ (n \in ToSet(container_[i]) /\ ToCome(i))
BY DEF NothingForgotten, HoldsLine, ToCome

\* The writer thread's steps between two writes, and init_log.
QuietStep == init_log \/ run \/ run_lock \/ run_abort \/ run_unlock

\* These steps move no line.
LEMMA QuietPreserves ==
    ASSUME IInv, QuietStep
    PROVE  IInv'
<1>1. /\ UNCHANGED <<running_, container_, lines, file, trash>>
      /\ pc' \in {pc, [pc EXCEPT !["writer"] = pc'["writer"]]}
      /\ at' \in {at, [at EXCEPT !["writer"] = at'["writer"]]}
  <2>1. UNCHANGED <<running_, container_, lines, file, trash>>
    BY DEF QuietStep, init_log, run, run_lock, run_abort, run_unlock
  <2>2. pc' \in {pc, [pc EXCEPT !["writer"] = pc'["writer"]]}
    BY Types DEF QuietStep, init_log, run, run_lock, run_abort, run_unlock, Goto, Threads
  <2>3. at' \in {at, [at EXCEPT !["writer"] = at'["writer"]]}
    BY Types DEF QuietStep, init_log, run, run_lock, run_abort, run_unlock, Threads
  <2> QED BY <2>1, <2>2, <2>3
<1>2. pc'["main"] = pc["main"] /\ at'["main"] = at["main"] BY <1>1, Types DEF Threads
<1>3. /\ pc["writer"] \in {"off", "test", "lock", "written", "unlock"}
      /\ pc'["writer"] \in {"test", "lock", "stopped", "unlock", "see", "written"}
      /\ pc'["writer"] = "written" => pc["writer"] = "written" /\ at' = at
    BY Types DEF QuietStep, init_log, run, run_lock, run_abort, run_unlock, Goto, At, Threads
<1>4. /\ mutex' \subseteq Loggers
      /\ pc'["writer"] \in {"lock", "unlock", "see", "written"} => at'["writer"] \in Loggers
      /\ pc'["writer"] \in {"unlock", "see", "written"} => at'["writer"] \in mutex'
      /\ at'["writer"] \in 0..N + 1
  <2>1. CASE init_log
    <3>1. UNCHANGED <<mutex, at>> /\ pc'["writer"] = "test" BY <2>1, Types DEF init_log, Goto, Threads
    <3> QED BY <3>1, Types DEF IInv, TypeOK, Threads
  <2>2. CASE run
    <3>1. UNCHANGED mutex /\ pc'["writer"] \in {"lock", "stopped"} /\ at'["writer"] = 1
        BY <2>2, Types DEF run, Goto, Threads
    <3> QED BY <3>1, Types DEF IInv, TypeOK, Loggers
  <2>3. CASE run_lock
    <3>1. /\ at' = at /\ mutex' = mutex \cup {at["writer"]} /\ at["writer"] \in Loggers
          /\ at["writer"] \in 0..N + 1
        BY <2>3, Types DEF run_lock, At, IInv, PcInv, Threads
    <3> QED BY <3>1 DEF IInv, TypeOK
  <2>4. CASE run_abort
    <3>1. at' = at /\ mutex' = mutex /\ at["writer"] \in Loggers /\ at["writer"] \in mutex
        BY <2>4 DEF run_abort, At, IInv, PcInv, Writing
    <3>2. at["writer"] \in 0..N + 1 BY Types DEF Threads
    <3> QED BY <3>1, <3>2 DEF IInv, TypeOK
  <2>5. CASE run_unlock
    <3>1. at["writer"] \in Loggers /\ mutex' \subseteq mutex /\ at["writer"] \in 0..N + 1
        BY <2>5, Types DEF run_unlock, At, IInv, PcInv, Threads
    <3>2. CASE at["writer"] = N
      <4>1. pc'["writer"] = "test" /\ at' = at BY <2>5, <3>2, Types DEF run_unlock, Goto, Threads
      <4> QED BY <3>1, <4>1 DEF IInv, TypeOK
    <3>3. CASE at["writer"] # N
      <4>1. pc'["writer"] = "lock" /\ at'["writer"] = at["writer"] + 1
          BY <2>5, <3>3, Types DEF run_unlock, Goto, Threads
      <4>2. at["writer"] + 1 \in Loggers /\ at["writer"] + 1 \in 0..N + 1 BY <3>1, <3>3, Types DEF Loggers
      <4> QED BY <3>1, <4>1, <4>2 DEF IInv, TypeOK
    <3> QED BY <3>2, <3>3
  <2> QED BY <2>1, <2>2, <2>3, <2>4, <2>5 DEF QuietStep
<1>5. TypeOK'
  <2>1. aborted' \in BOOLEAN
    BY Zenon DEF QuietStep, init_log, run, run_lock, run_abort, run_unlock, IInv, TypeOK
  <2>2. pc' \in [Threads -> Steps] /\ at' \in [Threads -> 0..N + 1]
    <3>1. pc'["writer"] \in Steps BY <1>3 DEF Steps
    <3> QED BY <1>1, <1>4, <3>1, Types
  <2> QED BY <1>1, <1>4, <2>1, <2>2 DEF IInv, TypeOK
<1>6. PcInv' BY <1>2, <1>3, <1>4 DEF IInv, PcInv, Writing
<1>7. TakeInv' BY <1>1, <1>2, <1>3 DEF IInv, TakeInv, Threads
<1>8. \A t \in Threads, i \in Loggers : InHand(t, i)' = InHand(t, i)
    BY <1>1, <1>2, <1>3 DEF InHand, Threads
<1>9. OrderInv'
  <2> SUFFICES ASSUME ~Exiting' PROVE OrderInv' BY DEF OrderInv
  <2>1. ~Exiting BY <1>2 DEF Exiting
  <2>2. \A i \in Loggers : InOrder(i)' BY <1>1, <1>8, <2>1 DEF IInv, OrderInv, InOrder, Threads
  <2>3. aborted' => at'["writer"] \in Fatal /\ pc'["writer"] = "written"
    BY <2>1 DEF IInv, OrderInv, QuietStep, init_log, run, run_lock, run_abort, run_unlock, At, Ended
  <2>4. pc'["writer"] = "written" => container_'[at'["writer"]] = <<>>
    BY <1>1, <1>3, <2>1 DEF IInv, OrderInv
  <2> QED BY <1>3, <2>2, <2>3, <2>4 DEF OrderInv
<1>10. NothingForgotten' BY <1>1, <1>2, <1>8 DEF IInv, NothingForgotten
<1> QED BY <1>5, <1>6, <1>7, <1>9, <1>10 DEF IInv

\* operator<< adds a line behind the others.
LEMMA CollectPreserves ==
    ASSUME IInv, NEW i \in Loggers, collect(i)
    PROVE  IInv'
<1>1. /\ pc["main"] = "main" /\ ~aborted /\ i \notin mutex /\ lines[i] < MaxLines
      /\ lines' = [lines EXCEPT ![i] = @ + 1]
      /\ container_' = [container_ EXCEPT ![i] = Append(@, lines[i] + 1)]
      /\ UNCHANGED <<running_, file, mutex, pc, at, trash, aborted>>
    BY DEF collect, At, Ended, MayCollect
<1>2. lines[i] \in Nat /\ lines[i] + 1 \in 1..MaxLines /\ container_[i] \in Lines BY <1>1, Types
<1>3. Append(container_[i], lines[i] + 1) \in Lines BY <1>2 DEF Lines
<1>4. /\ lines'[i] = lines[i] + 1 /\ container_'[i] = Append(container_[i], lines[i] + 1)
      /\ \A j \in Loggers : j # i => lines'[j] = lines[j] /\ container_'[j] = container_[j]
    BY <1>1 DEF IInv, TypeOK
<1>5. TypeOK'
  <2>1. lines' \in [Loggers -> 0..MaxLines] BY <1>1, <1>2 DEF IInv, TypeOK
  <2>2. container_' \in [Loggers -> Lines] BY <1>1, <1>3 DEF IInv, TypeOK
  <2> QED BY <1>1, <2>1, <2>2 DEF IInv, TypeOK
<1>6. PcInv' BY <1>1 DEF IInv, PcInv
<1>7. pc["writer"] \in Writing => at["writer"] \in Loggers /\ at["writer"] # i BY <1>1 DEF IInv, PcInv
<1>8. TakeInv' BY <1>1, <1>4, <1>7 DEF IInv, TakeInv, Threads, Writing
<1>9. \A t \in Threads, j \in Loggers : InHand(t, j)' = InHand(t, j) BY <1>1 DEF InHand
<1>10. OrderInv'
  <2>1. ~Exiting BY <1>1 DEF Exiting
  <2>2. ASSUME NEW j \in Loggers PROVE InOrder(j)'
    <3>1. InOrder(j) BY <2>1 DEF IInv, OrderInv
    <3>2. InHand("writer", j)' = InHand("writer", j) BY <1>9 DEF Threads
    <3>3. CASE j # i BY <1>1, <1>4, <3>1, <3>2, <3>3 DEF InOrder
    <3>4. CASE j = i
      <4> DEFINE s == file[i] \o InHand("writer", i)
      <4>1. s \in Seq(1..MaxLines)
        <5>0. trash["writer"] \in Seq(1..MaxLines) /\ <<>> \in Seq(1..MaxLines) BY Types DEF Threads, Lines
        <5>1. InHand("writer", i) \in Seq(1..MaxLines) BY <5>0 DEF InHand
        <5>2. file[i] \in Seq(1..MaxLines) BY Types DEF Lines
        <5> QED BY <5>1, <5>2
      <4>2. s \o container_[i] = Count(lines[i]) BY <3>1, <3>4 DEF InOrder, Count
      <4> HIDE DEF s
      <4>3. s \o Append(container_[i], lines[i] + 1) = Count(lines[i] + 1)
        <5>1. container_[i] \in Seq(1..MaxLines) BY <1>2 DEF Lines
        <5> QED BY <1>2, <4>1, <4>2, <5>1, CountNext
      <4> QED BY <1>1, <1>4, <3>2, <3>4, <4>3 DEF InOrder, Count, s
    <3> QED BY <3>3, <3>4
  <2>3. /\ pc'["writer"] = "take" => trash'["writer"] = container_'[at'["writer"]]
        /\ pc'["writer"] \in {"append", "written"} => container_'[at'["writer"]] = <<>>
    BY <1>1, <1>4, <1>7, <2>1 DEF IInv, OrderInv, Writing
  <2> QED BY <1>1, <2>2, <2>3 DEF OrderInv
<1>11. NothingForgotten'
  <2>1. ToSet(container_'[i]) = ToSet(container_[i]) \cup {lines[i] + 1}
    <3>1. container_[i] \in Seq(1..MaxLines) BY <1>2 DEF Lines
    <3>2. \A e \in 1..MaxLines : ToSet(Append(container_[i], e)) = ToSet(container_[i]) \cup {e}
        BY <3>1, ToSetAppend
    <3> QED BY <1>2, <1>4, <3>2
  <2> SUFFICES ASSUME NEW j \in Loggers, NEW n \in 1..MaxLines, n <= lines'[j]
               PROVE  HoldsLine(j, n)' \/ (n \in ToSet(container_'[j]) /\ ToCome(j)')
    BY DEF NothingForgotten, HoldsLine, ToCome
  <2>2. HoldsLine(j, n)' <=> HoldsLine(j, n) BY <1>1, <1>9 DEF HoldsLine
  <2>3. ToCome(j)' <=> ToCome(j) BY <1>1 DEF ToCome
  <2>4. CASE n <= lines[j]
    <3>1. HoldsLine(j, n) \/ (n \in ToSet(container_[j]) /\ ToCome(j)) BY <2>4, ForgottenBy DEF IInv
    <3> QED BY <1>4, <2>1, <2>2, <2>3, <3>1
  <2>5. CASE ~(n <= lines[j])
    <3>1. j = i /\ n = lines[i] + 1 BY <1>2, <1>4, <2>5, Types
    <3>2. ToCome(j) BY <1>1, Types DEF ToCome, IInv, PcInv, Loggers
    <3> QED BY <2>1, <2>3, <3>1, <3>2
  <2> QED BY <2>4, <2>5
<1> QED BY <1>5, <1>6, <1>8, <1>10, <1>11 DEF IInv

\* output sees the lines.
LEMMA SeePreserves ==
    ASSUME IInv, NEW t \in Threads, output_see(t)
    PROVE  IInv'
<1>1. /\ pc[t] = "see" /\ ~aborted
      /\ trash' = [trash EXCEPT ![t] = container_[at[t]]] /\ pc' = [pc EXCEPT ![t] = "take"]
      /\ UNCHANGED <<running_, container_, lines, file, mutex, at, aborted>>
    BY DEF output_see, At, Ended, Goto
<1>2. at[t] \in Loggers BY <1>1 DEF IInv, PcInv, Writing, Threads
<1>3. /\ pc'[t] = "take" /\ trash'[t] = container_[at[t]]
      /\ \A u \in Threads : u # t => pc'[u] = pc[u] /\ trash'[u] = trash[u]
    BY <1>1, Types DEF IInv, TypeOK
<1>4. TypeOK'
  <2>1. container_[at[t]] \in Lines BY <1>2, Types
  <2>2. trash' \in [Threads -> Lines] BY <1>1, <2>1 DEF IInv, TypeOK
  <2>3. pc' \in [Threads -> Steps] BY <1>1, Types DEF Steps
  <2> QED BY <1>1, <2>2, <2>3 DEF IInv, TypeOK
<1>5. PcInv' BY <1>1, <1>3 DEF IInv, PcInv, Writing, Threads
<1>6. TakeInv' BY <1>1, <1>3 DEF IInv, TakeInv, Threads
<1>7. \A u \in Threads, i \in Loggers : InHand(u, i)' = InHand(u, i) BY <1>1, <1>3 DEF InHand
<1>8. OrderInv'
  <2> SUFFICES ASSUME ~Exiting' PROVE OrderInv' BY DEF OrderInv
  <2>1. t = "writer" /\ ~Exiting BY <1>1, <1>3 DEF Exiting, Threads
  <2>2. \A i \in Loggers : InOrder(i)' BY <1>1, <1>7, <2>1 DEF IInv, OrderInv, InOrder, Threads
  <2> QED BY <1>1, <1>3, <2>1, <2>2 DEF OrderInv
<1>9. NothingForgotten'
  <2>1. pc["main"] = "written" <=> pc'["main"] = "written" BY <1>1, <1>3 DEF Threads
  <2> QED BY <1>1, <1>7, <2>1 DEF IInv, NothingForgotten
<1> QED BY <1>4, <1>5, <1>6, <1>8, <1>9 DEF IInv

\* output takes the lines out, whichever thread has seen them too.
LEMMA TakePreserves ==
    ASSUME IInv, NEW t \in Threads, output_take(t)
    PROVE  IInv'
<1>1. /\ pc[t] = "take" /\ ~aborted
      /\ container_' = [container_ EXCEPT ![at[t]] = <<>>] /\ pc' = [pc EXCEPT ![t] = "append"]
      /\ UNCHANGED <<running_, lines, file, mutex, at, trash, aborted>>
    BY DEF output_take, At, Ended, Goto
<1>2. at[t] \in Loggers BY <1>1 DEF IInv, PcInv, Writing, Threads
<1>3. /\ pc'[t] = "append" /\ container_'[at[t]] = <<>>
      /\ \A u \in Threads : u # t => pc'[u] = pc[u]
      /\ \A i \in Loggers : i # at[t] => container_'[i] = container_[i]
    BY <1>1, <1>2, Types DEF IInv, TypeOK
<1>4. TypeOK'
  <2>1. <<>> \in Lines BY DEF Lines
  <2>2. container_' \in [Loggers -> Lines] BY <1>1, <2>1 DEF IInv, TypeOK
  <2>3. pc' \in [Threads -> Steps] BY <1>1, Types DEF Steps
  <2> QED BY <1>1, <2>2, <2>3 DEF IInv, TypeOK
<1>5. PcInv' BY <1>1, <1>3 DEF IInv, PcInv, Writing, Threads
<1>6. TakeInv'
  <2>1. ASSUME NEW u \in Threads, pc'[u] = "take" PROVE ToSet(container_'[at'[u]]) \subseteq ToSet(trash'[u])
    <3>1. u # t /\ pc[u] = "take" BY <1>3, <2>1
    <3>2. at[u] \in Loggers /\ ToSet(container_[at[u]]) \subseteq ToSet(trash[u])
        BY <3>1 DEF IInv, TakeInv, PcInv, Writing, Threads
    <3>3. CASE at[u] = at[t] BY <1>1, <1>3, <3>3, ToSetEmpty
    <3>4. CASE at[u] # at[t] BY <1>1, <1>3, <3>2, <3>4
    <3> QED BY <3>3, <3>4
  <2>2. pc'["main"] \in {"append", "written"} => container_'[at'["main"]] = <<>>
    BY <1>1, <1>3 DEF IInv, TakeInv, PcInv, Writing, Threads
  <2> QED BY <2>1, <2>2 DEF TakeInv
<1>7. /\ \A u \in Threads, i \in Loggers : u # t \/ i # at[t] => InHand(u, i)' = InHand(u, i)
      /\ InHand(t, at[t])' = trash[t] /\ InHand(t, at[t]) = <<>>
    BY <1>1, <1>3 DEF InHand
<1>8. OrderInv'
  <2> SUFFICES ASSUME ~Exiting' PROVE OrderInv' BY DEF OrderInv
  <2>1. t = "writer" /\ ~Exiting BY <1>1, <1>3 DEF Exiting, Threads
  <2>2. ASSUME NEW i \in Loggers PROVE InOrder(i)'
    <3>1. InOrder(i) BY <2>1 DEF IInv, OrderInv
    <3>2. CASE i # at[t] BY <1>1, <1>3, <1>7, <2>1, <3>1, <3>2 DEF InOrder
    <3>3. CASE i = at[t]
      <4>1. trash[t] = container_[i] BY <1>1, <2>1, <3>3 DEF IInv, OrderInv
      <4>2. file[i] \o <<>> \o container_[i] = Count(lines[i])
          BY <1>7, <2>1, <3>1, <3>3 DEF InOrder, Count
      <4>3. file[i] \in Seq(1..MaxLines) /\ container_[i] \in Seq(1..MaxLines) BY Types DEF Lines
      <4>4. \A a, b \in Seq(1..MaxLines) : a \o <<>> \o b = a \o b \o <<>> OBVIOUS
      <4>5. file[i] \o container_[i] \o <<>> = Count(lines[i]) BY <4>2, <4>3, <4>4
      <4> QED BY <1>1, <1>3, <1>7, <2>1, <3>3, <4>1, <4>5 DEF InOrder, Count
    <3> QED BY <3>2, <3>3
  <2> QED BY <1>1, <1>3, <2>1, <2>2 DEF OrderInv
<1>9. NothingForgotten'
  <2> SUFFICES ASSUME NEW i \in Loggers, NEW n \in 1..MaxLines, n <= lines'[i]
               PROVE  HoldsLine(i, n)' \/ (n \in ToSet(container_'[i]) /\ ToCome(i)')
    BY DEF NothingForgotten, HoldsLine, ToCome
  <2>1. HoldsLine(i, n) \/ (n \in ToSet(container_[i]) /\ ToCome(i)) BY <1>1, ForgottenBy DEF IInv
  <2>2. HoldsLine(i, n) => HoldsLine(i, n)' BY <1>1, <1>7, ToSetEmpty DEF HoldsLine
  <2>3. ToCome(i) => ToCome(i)' BY <1>1, <1>3 DEF ToCome, Threads
  <2>4. CASE i # at[t] BY <1>3, <2>1, <2>2, <2>3, <2>4
  <2>5. CASE i = at[t]
    <3>1. n \in ToSet(container_[i]) => n \in ToSet(trash[t]) BY <1>1, <2>5 DEF IInv, TakeInv
    <3>2. n \in ToSet(trash[t]) => HoldsLine(i, n)'
      <4>1. InHand(t, i)' = trash[t] BY <1>1, <1>3, <2>5 DEF InHand
      <4> QED BY <4>1 DEF HoldsLine
    <3> QED BY <2>1, <2>2, <3>1, <3>2
  <2> QED BY <2>4, <2>5
<1> QED BY <1>4, <1>5, <1>6, <1>8, <1>9 DEF IInv

\* write appends the lines to the file; only at exit can another thread have written them.
LEMMA WritePreserves ==
    ASSUME IInv, NEW t \in Threads, write(t)
    PROVE  IInv'
<1>1. /\ pc[t] = "append" /\ ~aborted
      /\ file' = [file EXCEPT ![at[t]] = @ \o trash[t]]
      /\ trash' = [trash EXCEPT ![t] = <<>>] /\ pc' = [pc EXCEPT ![t] = "written"]
      /\ aborted' \in {FALSE, Freed(t)}
      /\ UNCHANGED <<running_, container_, lines, mutex, at>>
    BY DEF write, At, Ended, Goto
<1>2. at[t] \in Loggers BY <1>1 DEF IInv, PcInv, Writing, Threads
<1>3. /\ pc'[t] = "written" /\ file'[at[t]] = file[at[t]] \o trash[t]
      /\ \A u \in Threads : u # t => pc'[u] = pc[u] /\ trash'[u] = trash[u]
      /\ \A i \in Loggers : i # at[t] => file'[i] = file[i]
    BY <1>1, <1>2, Types DEF IInv, TypeOK
<1>4. file[at[t]] \in Seq(1..MaxLines) /\ trash[t] \in Seq(1..MaxLines) BY <1>2, Types DEF Lines
<1>5. TypeOK'
  <2>1. <<>> \in Lines /\ file[at[t]] \o trash[t] \in Lines BY <1>4 DEF Lines
  <2>2. file' \in [Loggers -> Lines] /\ trash' \in [Threads -> Lines] BY <1>1, <2>1 DEF IInv, TypeOK
  <2>3. pc' \in [Threads -> Steps] BY <1>1, Types DEF Steps
  <2>4. aborted' \in BOOLEAN
    <3>1. Freed(t) \in BOOLEAN BY DEF Freed
    <3> QED BY <1>1, <3>1
  <2> QED BY <1>1, <2>2, <2>3, <2>4 DEF IInv, TypeOK
<1>6. PcInv' BY <1>1, <1>3 DEF IInv, PcInv, Writing, Threads
<1>7. TakeInv' BY <1>1, <1>3 DEF IInv, TakeInv, Threads
<1>8. /\ \A u \in Threads, i \in Loggers : u # t \/ i # at[t] => InHand(u, i)' = InHand(u, i)
      /\ InHand(t, at[t])' = <<>> /\ InHand(t, at[t]) = trash[t]
    BY <1>1, <1>3 DEF InHand
<1>9. OrderInv'
  <2> SUFFICES ASSUME ~Exiting' PROVE OrderInv' BY DEF OrderInv
  <2>1. t = "writer" /\ ~Exiting BY <1>1, <1>3 DEF Exiting, Threads
  <2>2. container_[at[t]] = <<>> BY <1>1, <2>1 DEF IInv, OrderInv
  <2>3. file[at[t]] \o trash[t] \o <<>> = Count(lines[at[t]])
    BY <1>2, <1>8, <2>1, <2>2 DEF IInv, OrderInv, InOrder, Count
  <2>4. \A a, b \in Seq(1..MaxLines) : a \o b \o <<>> = a \o b /\ (a \o b) \o <<>> \o <<>> = a \o b OBVIOUS
  <2>5. ASSUME NEW i \in Loggers PROVE InOrder(i)'
    <3>1. InOrder(i) BY <2>1 DEF IInv, OrderInv
    <3>2. CASE i # at[t] BY <1>1, <1>3, <1>8, <2>1, <3>1, <3>2 DEF InOrder
    <3>3. CASE i = at[t]
      <4>1. (file[i] \o trash[t]) \o <<>> \o <<>> = Count(lines[i]) BY <1>4, <2>3, <2>4, <3>3
      <4> QED BY <1>1, <1>3, <1>8, <2>1, <2>2, <3>3, <4>1 DEF InOrder, Count
    <3> QED BY <3>2, <3>3
  <2>6. ~Freed(t)
    <3>1. file[at[t]] \o trash[t] = Count(lines[at[t]]) BY <1>4, <2>3, <2>4
    <3>2. lines[at[t]] \in Nat BY <1>2, Types
    <3> QED BY <1>4, <3>1, <3>2, CountApart DEF Freed
  <2> QED BY <1>1, <1>3, <2>1, <2>2, <2>5, <2>6 DEF OrderInv
<1>10. NothingForgotten'
  <2> SUFFICES ASSUME NEW i \in Loggers, NEW n \in 1..MaxLines, n <= lines'[i]
               PROVE  HoldsLine(i, n)' \/ (n \in ToSet(container_'[i]) /\ ToCome(i)')
    BY DEF NothingForgotten, HoldsLine, ToCome
  <2>1. HoldsLine(i, n) \/ (n \in ToSet(container_[i]) /\ ToCome(i)) BY <1>1, ForgottenBy DEF IInv
  <2>2. ToSet(file'[at[t]]) = ToSet(file[at[t]]) \cup ToSet(trash[t]) BY <1>3, <1>4, ToSetConcat
  <2>3. HoldsLine(i, n) => HoldsLine(i, n)' BY <1>3, <1>8, <2>2 DEF HoldsLine
  <2>4. n \in ToSet(container_[i]) /\ ToCome(i) => ToCome(i)'
    <3>1. CASE t = "main" /\ i = at[t] BY <1>1, <3>1, ToSetEmpty DEF IInv, TakeInv
    <3>2. CASE t # "main" BY <1>1, <1>3, <3>2 DEF ToCome, Threads
    <3>3. CASE t = "main" /\ i # at[t] BY <1>1, <1>3, <3>3 DEF ToCome
    <3> QED BY <3>1, <3>2, <3>3
  <2> QED BY <1>1, <2>1, <2>3, <2>4
<1> QED BY <1>5, <1>6, <1>7, <1>9, <1>10 DEF IInv

\* main returns, or a destructor ends and the next one begins.
LEMMA ExitPreserves ==
    ASSUME IInv, exit \/ stop_run
    PROVE  IInv'
<1>1. /\ UNCHANGED <<container_, lines, file, mutex, trash, aborted>>
      /\ pc["main"] \in {"main", "written", "stop_run"}
      /\ pc' = [pc EXCEPT !["main"] = pc'["main"]] /\ pc'["main"] \in {"ended", "stop_run", "see"}
      /\ at' \in {at, [at EXCEPT !["main"] = @ - 1]}
    BY Types DEF exit, stop_run, NextLogger, At, Goto, Threads
<1>2. pc'["writer"] = pc["writer"] /\ at'["writer"] = at["writer"] BY <1>1, Types DEF Threads
<1>3. /\ pc'["main"] # "ended" => at'["main"] \in Loggers
      /\ at'["main"] \in 0..N + 1
      /\ \A i \in Loggers : ToCome(i) => ToCome(i)'
  <2>1. CASE exit
    <3>1. /\ pc["main"] \in {"main", "written"} /\ at["main"] > 0
          /\ at'["main"] = at["main"] - 1
          /\ pc'["main"] = IF at["main"] = 1 THEN "ended" ELSE "stop_run"
        BY <2>1, Types DEF exit, NextLogger, At, Goto, Threads
    <3>2. at["main"] \in 1..N + 1 BY <3>1, Types DEF Threads
    <3>3. at["main"] - 1 \in 0..N + 1 /\ (at["main"] # 1 => at["main"] - 1 \in Loggers)
        BY <3>2, Types DEF Loggers
    <3>4. pc["main"] = "main" => at["main"] = N + 1 BY DEF IInv, PcInv
    <3>5. ASSUME NEW i \in Loggers, ToCome(i) PROVE i <= at["main"] - 1
        BY <3>1, <3>2, <3>4, <3>5, Types DEF ToCome, Loggers
    <3> QED BY <3>1, <3>3, <3>5 DEF ToCome
  <2>2. CASE stop_run
    <3>1. pc["main"] = "stop_run" /\ pc'["main"] = "see" /\ at' = at
        BY <2>2, Types DEF stop_run, At, Goto, Threads
    <3>2. at["main"] \in Loggers /\ at["main"] \in 0..N + 1 BY <3>1, Types DEF IInv, PcInv, Threads
    <3> QED BY <3>1, <3>2 DEF ToCome
  <2> QED BY <2>1, <2>2
<1>4. TypeOK'
  <2>1. running_' \in BOOLEAN BY Zenon DEF exit, stop_run, IInv, TypeOK
  <2>2. pc' \in [Threads -> Steps]
    <3>1. pc'["main"] \in Steps BY <1>1 DEF Steps
    <3> QED BY <1>1, <3>1, Types
  <2>3. at' \in [Threads -> 0..N + 1]
    <3>1. \A u \in Threads : at'[u] \in 0..N + 1 BY <1>2, <1>3, Types DEF Threads
    <3>2. at' = [u \in Threads |-> at'[u]] BY <1>1, Types
    <3> QED BY <3>1, <3>2
  <2> QED BY <1>1, <2>1, <2>2, <2>3 DEF IInv, TypeOK
<1>5. PcInv' BY <1>1, <1>2, <1>3 DEF IInv, PcInv, Writing
<1>6. TakeInv' BY <1>1, <1>2 DEF IInv, TakeInv, Threads
<1>7. OrderInv' BY <1>1 DEF OrderInv, Exiting
<1>8. \A u \in Threads, i \in Loggers : InHand(u, i)' = InHand(u, i) BY <1>1, <1>2 DEF InHand, Threads
<1>9. NothingForgotten'
  <2> SUFFICES ASSUME NEW i \in Loggers, NEW n \in 1..MaxLines, n <= lines'[i]
               PROVE  HoldsLine(i, n)' \/ (n \in ToSet(container_'[i]) /\ ToCome(i)')
    BY DEF NothingForgotten, HoldsLine, ToCome
  <2>1. HoldsLine(i, n) \/ (n \in ToSet(container_[i]) /\ ToCome(i)) BY <1>1, ForgottenBy DEF IInv
  <2>2. HoldsLine(i, n) => HoldsLine(i, n)' BY <1>1, <1>8 DEF HoldsLine
  <2> QED BY <1>1, <1>3, <2>1, <2>2
<1> QED BY <1>4, <1>5, <1>6, <1>7, <1>9 DEF IInv

\* IInv is inductive.
LEMMA NextPreserves == IInv /\ [Next]_vars => IInv'
<1> SUFFICES ASSUME IInv, [Next]_vars PROVE IInv' OBVIOUS
<1>1. ASSUME NEW i \in Loggers, collect(i) PROVE IInv' BY <1>1, CollectPreserves
<1>2. CASE init_log \/ run \/ run_lock \/ run_abort \/ run_unlock BY <1>2, QuietPreserves DEF QuietStep
<1>3. CASE exit \/ stop_run BY <1>3, ExitPreserves
<1>4. ASSUME NEW t \in Threads, WriteStep(t) PROVE IInv'
    BY <1>4, SeePreserves, TakePreserves, WritePreserves DEF WriteStep
<1>5. CASE UNCHANGED vars
  <2>1. UNCHANGED <<running_, container_, lines, file, mutex, pc, at, trash, aborted>> BY <1>5 DEF vars
  <2>2. \A t \in Threads, i \in Loggers : InHand(t, i)' = InHand(t, i) BY <2>1 DEF InHand
  <2>3. \A i \in Loggers : InOrder(i)' <=> InOrder(i) BY <2>1, <2>2 DEF InOrder, Threads
  <2>4. OrderInv' BY <2>1, <2>3 DEF IInv, OrderInv, Exiting
  <2>5. NothingForgotten' BY <2>1, <2>2 DEF IInv, NothingForgotten
  <2> QED BY <2>1, <2>4, <2>5 DEF IInv, TypeOK, PcInv, TakeInv
<1> QED BY <1>1, <1>2, <1>3, <1>4, <1>5 DEF Next, Writer, Main, Threads

\* IInv holds in every reachable state.
LEMMA Invariance == Spec => []IInv
BY InitEstablishes, NextPreserves, PTL DEF Spec

-----------------------------------------------------------------------------
(* What it gives *)

\* The Loggers' variables keep their types: nothing but lines that were collected gets
\* into container_ and the files.
THEOREM TypeCorrect == Spec => []TypeOK
<1>1. IInv => TypeOK BY DEF IInv
<1> QED BY <1>1, Invariance, PTL

\* collect_mutex_ keeps operator<< and the writer thread apart: no line is lost, repeated or
\* overtaken before main returns, and the abort after a fatal line leaves its Logger's
\* lines in the file.
THEOREM LinesReachTheFile == Spec => []LinesInOrder
<1>1. IInv => LinesInOrder
  <2> SUFFICES ASSUME IInv, ~Exiting PROVE LinesInOrder BY DEF LinesInOrder
  <2>1. \A i \in Loggers : InOrder(i) BY DEF IInv, OrderInv
  <2>2. ASSUME aborted PROVE at["writer"] \in Fatal /\ Len(file[at["writer"]]) = lines[at["writer"]]
    <3> DEFINE i == at["writer"]
    <3>1. i \in Fatal /\ pc["writer"] = "written" /\ container_[i] = <<>> BY <2>2 DEF IInv, OrderInv
    <3>2. i \in Loggers BY <3>1, LoggerAssumption DEF Loggers
    <3>3. InHand("writer", i) = <<>> BY <3>1 DEF InHand
    <3> HIDE DEF i
    <3>4. file[i] \o <<>> \o <<>> = Count(lines[i]) BY <2>1, <3>1, <3>2, <3>3 DEF InOrder, Count
    <3>5. file[i] \in Seq(1..MaxLines) /\ lines[i] \in Nat BY <3>2, Types DEF Lines
    <3>6. \A s \in Seq(1..MaxLines) : s \o <<>> \o <<>> = s OBVIOUS
    <3>7. file[i] = Count(lines[i]) BY <3>4, <3>5, <3>6
    <3>8. Len(file[i]) = lines[i] BY <3>5, <3>7, CountLen
    <3> QED BY <3>1, <3>8 DEF i
  <2> QED BY <2>1, <2>2 DEF LinesInOrder, InOrder
<1> QED BY <1>1, Invariance, PTL

\* No line is forgotten, not even at exit, when the destructors and the writer thread take
\* lines from the same container_ without a lock.
THEOREM NoLineIsForgotten == Spec => []NothingForgotten
<1>1. IInv => NothingForgotten BY DEF IInv
<1> QED BY <1>1, Invariance, PTL


=============================================================================
