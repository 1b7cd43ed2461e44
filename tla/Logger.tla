------------------------------- MODULE Logger -------------------------------
(***************************************************************************)
(* logger/logger.{hpp,cpp} and init.hpp: threads put lines into the        *)
(* container_ of a Logger; the detached thread of init_log carries them to *)
(* the files and aborts the program after a fatal line; when main returns  *)
(* the static Loggers are destroyed in reverse order, and their            *)
(* destructors write what is left.                                         *)
(*                                                                         *)
(* The destructors do not lock collect_mutex_, so at exit LogWritter::write *)
(* can run in two threads at once: the swap in Logger::output is two steps *)
(* here, the lines are seen and then they are taken out.  The other        *)
(* threads have ended when main returns.  A destroyed Logger still looks   *)
(* empty to the writer thread, as the swap has left it.                    *)
(***************************************************************************)
EXTENDS Naturals, SequencesExt

CONSTANTS
    N,         \* the number of Loggers, numbered in the order they register
    Fatal,     \* the Loggers of level FATAL
    MaxLines   \* bound: lines for each Logger

ASSUME LoggerAssumption ==
    /\ N \in Nat \ {0}
    /\ Fatal \subseteq 1..N
    /\ MaxLines \in Nat

Loggers == 1..N
Threads == {"writer", "main"}

VARIABLES
    running_,
    container_,   \* the lines of each Logger, numbered as they come
    lines,        \* the number of lines each Logger was given
    file,         \* the lines in the file of each Logger
    mutex,        \* the Loggers whose collect_mutex_ the writer thread holds
    pc,           \* the next step of the writer thread and of main at exit
    at,           \* the Logger each of the two is at
    trash,        \* local variable of write in each of the two
    aborted       \* the program has aborted, or crashed after the race at exit

vars == <<running_, container_, lines, file, mutex, pc, at, trash, aborted>>

Init ==
    /\ running_ = TRUE
    /\ container_ = [i \in Loggers |-> <<>>]
    /\ lines = [i \in Loggers |-> 0]
    /\ file = [i \in Loggers |-> <<>>]
    /\ mutex = {}
    /\ pc = [writer |-> "off", main |-> "main"]
    /\ at = [writer |-> 0, main |-> N + 1]
    /\ trash = [t \in Threads |-> <<>>]
    /\ aborted = FALSE

Ended == aborted \/ pc["main"] = "ended"
At(t, step) == pc[t] = step /\ ~Ended
Goto(t, step) == pc' = [pc EXCEPT ![t] = step]

-----------------------------------------------------------------------------
(* Lines *)

\* Mutant: operator<< does not lock.
MayCollect_Unlocked(i) == TRUE

\* operator<< has to wait for collect_mutex_.
MayCollect(i) == i \notin mutex

\* operator<<, in a thread that uses the library.
collect(i) ==
    /\ At("main", "main")
    /\ MayCollect(i)
    /\ lines[i] < MaxLines
    /\ lines' = [lines EXCEPT ![i] = @ + 1]
    /\ container_' = [container_ EXCEPT ![i] = Append(@, lines[i] + 1)]
    /\ UNCHANGED <<running_, file, mutex, pc, at, trash, aborted>>

\* write begins: output's swap sees the lines ...
output_see(t) ==
    /\ At(t, "see")
    /\ trash' = [trash EXCEPT ![t] = container_[at[t]]]
    /\ Goto(t, "take")
    /\ UNCHANGED <<running_, container_, lines, file, mutex, at, aborted>>

\* ... and takes them out.
output_take(t) ==
    /\ At(t, "take")
    /\ container_' = [container_ EXCEPT ![at[t]] = <<>>]
    /\ Goto(t, "append")
    /\ UNCHANGED <<running_, lines, file, mutex, at, trash, aborted>>

\* The other thread has seen the same lines, has written them and has freed them.
Freed(t) == trash[t] # <<>> /\ ToSet(trash[t]) \subseteq ToSet(file[at[t]])

\* write appends them to the file, which the destructor of ofs flushes, and frees them.
write(t) ==
    /\ At(t, "append")
    /\ file' = [file EXCEPT ![at[t]] = @ \o trash[t]]
    /\ trash' = [trash EXCEPT ![t] = <<>>]
    /\ Goto(t, "written")
    /\ aborted' \in {FALSE, Freed(t)}
    /\ UNCHANGED <<running_, container_, lines, mutex, at>>

-----------------------------------------------------------------------------
(* The writer thread *)

\* init_log starts LogWritter::run in a detached thread.
init_log ==
    /\ At("main", "main")
    /\ pc["writer"] = "off"
    /\ Goto("writer", "test")
    /\ UNCHANGED <<running_, container_, lines, file, mutex, at, trash, aborted>>

\* run's loop: it sleeps, and then it goes round the Loggers.
run ==
    /\ At("writer", "test")
    /\ Goto("writer", IF running_ THEN "lock" ELSE "stopped")
    /\ at' = [at EXCEPT !["writer"] = 1]
    /\ UNCHANGED <<running_, container_, lines, file, mutex, trash, aborted>>

\* The lines are looked at, and written, with collect_mutex_ held.
run_lock ==
    /\ At("writer", "lock")
    /\ mutex' = mutex \cup {at["writer"]}
    /\ Goto("writer", IF container_[at["writer"]] = <<>> THEN "unlock" ELSE "see")
    /\ UNCHANGED <<running_, container_, lines, file, at, trash, aborted>>

run_abort ==
    /\ At("writer", "written")
    /\ IF at["writer"] \in Fatal
       THEN aborted' = TRUE /\ UNCHANGED pc
       ELSE Goto("writer", "unlock") /\ UNCHANGED aborted
    /\ UNCHANGED <<running_, container_, lines, file, mutex, at, trash>>

\* Mutant: the last Logger is left out.
run_unlock_LeavesLast ==
    /\ At("writer", "unlock")
    /\ mutex' = mutex \ {at["writer"]}
    /\ IF at["writer"] + 1 >= N
       THEN Goto("writer", "test") /\ UNCHANGED at
       ELSE Goto("writer", "lock") /\ at' = [at EXCEPT !["writer"] = @ + 1]
    /\ UNCHANGED <<running_, container_, lines, file, trash, aborted>>

run_unlock ==
    /\ At("writer", "unlock")
    /\ mutex' = mutex \ {at["writer"]}
    /\ IF at["writer"] = N
       THEN Goto("writer", "test") /\ UNCHANGED at
       ELSE Goto("writer", "lock") /\ at' = [at EXCEPT !["writer"] = @ + 1]
    /\ UNCHANGED <<running_, container_, lines, file, trash, aborted>>

-----------------------------------------------------------------------------
(* Exit *)

\* main returns or a Logger is destroyed: the next one's destructor, or the end of the process.
NextLogger ==
    /\ at["main"] > 0
    /\ at' = [at EXCEPT !["main"] = @ - 1]
    /\ Goto("main", IF at["main"] = 1 THEN "ended" ELSE "stop_run")

exit ==
    /\ At("main", "main") \/ At("main", "written")
    /\ NextLogger
    /\ UNCHANGED <<running_, container_, lines, file, mutex, trash, aborted>>

\* Mutant: ~Logger only stops the writer thread.
stop_run_Only ==
    /\ At("main", "stop_run")
    /\ running_' = FALSE
    /\ Goto("main", "written")
    /\ UNCHANGED <<container_, lines, file, mutex, at, trash, aborted>>

\* ~Logger stops the writer thread, does not wait for it, and goes on with write.
stop_run ==
    /\ At("main", "stop_run")
    /\ running_' = FALSE
    /\ Goto("main", "see")
    /\ UNCHANGED <<container_, lines, file, mutex, at, trash, aborted>>

WriteStep(t) == output_see(t) \/ output_take(t) \/ write(t)

Writer == run \/ run_lock \/ run_abort \/ run_unlock \/ WriteStep("writer")

Main == stop_run \/ WriteStep("main")

Next ==
    \/ \E i \in Loggers : collect(i)
    \/ init_log
    \/ exit
    \/ Writer
    \/ Main

\* The writer thread is scheduled; main need not return.
Spec == Init /\ [][Next]_vars
FairSpec == Spec /\ WF_vars(Writer)

-----------------------------------------------------------------------------
(* Properties *)

Steps == {"off", "test", "stopped", "lock", "unlock", "main", "ended", "stop_run", "see", "take", "append", "written"}
Lines == Seq(1..MaxLines)

\* Every variable keeps its type.
TypeOK ==
    /\ running_ \in BOOLEAN
    /\ container_ \in [Loggers -> Lines]
    /\ lines \in [Loggers -> 0..MaxLines]
    /\ file \in [Loggers -> Lines]
    /\ mutex \in SUBSET Loggers
    /\ pc \in [Threads -> Steps]
    /\ at \in [Threads -> 0..N + 1]
    /\ trash \in [Threads -> Lines]
    /\ aborted \in BOOLEAN

Exiting == pc["main"] # "main"

\* The lines thread t is about to write to the file of Logger i.
InHand(t, i) == IF pc[t] = "append" /\ at[t] = i THEN trash[t] ELSE <<>>

\* Until main returns every line of a Logger is in its file, in the writer's hands or in
\* container_, once and in the order of the calls; and when a fatal line makes the program
\* abort, all lines of its Logger are in the file.  (At exit a destructor may have taken them
\* from under the writer thread, which aborts all the same.)
LinesInOrder ==
    ~Exiting =>
        /\ \A i \in Loggers : file[i] \o InHand("writer", i) \o container_[i] = [n \in 1..lines[i] |-> n]
        /\ aborted => at["writer"] \in Fatal /\ Len(file[at["writer"]]) = lines[at["writer"]]

\* No line is forgotten, at exit either: what is not in the file is in hand, or in the
\* container_ of a Logger whose destructor has not been through.  All that a process which
\* ends can lose is what its writer thread is about to write.
NothingForgotten ==
    \A i \in Loggers, n \in 1..MaxLines :
        n <= lines[i] =>
            \/ n \in ToSet(file[i])
            \/ \E t \in Threads : n \in ToSet(InHand(t, i))
            \/ n \in ToSet(container_[i]) /\ i <= at["main"] /\ ~(i = at["main"] /\ pc["main"] = "written")

\* Once init_log was called the writer gets to every line, and a fatal one ends the program,
\* unless main returns or another fatal line ends the program first.
LinesSaved ==
    \A i \in Loggers :
        (pc["writer"] # "off" /\ lines[i] > 0) ~>
            (aborted \/ Exiting \/ (i \notin Fatal /\ Len(file[i]) = lines[i]))

=============================================================================
