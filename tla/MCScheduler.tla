---------------------------- MODULE MCScheduler ----------------------------
(* TLC instances of Scheduler. *)
EXTENDS Scheduler

(* Half-day ticks: the subscription runs out three ticks after the start,  *)
(* or never.                                                               *)
OneSoon == [s \in Subs |-> 4]
Never == [s \in Subs |-> 0]
=============================================================================
