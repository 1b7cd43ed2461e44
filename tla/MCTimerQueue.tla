---------------------------- MODULE MCTimerQueue ----------------------------
(* Instances of TimerQueue for TLC. *)
EXTENDS TimerQueue

CONSTANTS Once, Every

\* One one-shot timer, the others repeat every 2 ticks.
MCInterval == [t \in Timers |-> IF t = Every THEN 2 ELSE 0]
=============================================================================
