------------------------------ MODULE SubLink ------------------------------
(***************************************************************************)
(* subscriptionURL of internal/httpapi/server.go: the base of the          *)
(* subscription links, read from the panel's settings and kept for an      *)
(* hour.  One caller (the leader) reads the settings without the lock and  *)
(* detached from its own request; the others are served the previous base, *)
(* or wait on the leader's channel while there is none.                    *)
(*                                                                         *)
(* A base is a number, 0 standing for the empty string.  Channels are      *)
(* numbered; a number nobody refers to any more is used again, so the runs *)
(* are endless and the states are not.                                     *)
(***************************************************************************)
EXTENDS Naturals, FiniteSets

CONSTANTS
    Callers,     \* requests that may ask for a link at the same time
    Bases,       \* the bases the panel's settings may give
    None         \* no load under way

SubLinkAssumption ==
    /\ Bases \subseteq Nat \ {0} /\ IsFiniteSet(Callers) /\ None \notin Nat

VARIABLES
    subBase,     \* the cached base
    old,         \* it is older than an hour
    subLoad,     \* the load under way, or None
    closed,      \* the channels that are closed
    caller       \* caller -> [at, load, answer]

vars == <<subBase, old, subLoad, closed, caller>>

Channels == 1 .. Cardinality(Callers) + 1

Ready == [at |-> "ready", load |-> 0, answer |-> 0]
Answered(c, base) ==
    caller' = [caller EXCEPT ![c] = [at |-> "done", load |-> 0, answer |-> base]]

(* The critical section at the top, in the order of its branches.          *)

Hit(c) ==
    /\ caller[c].at = "ready"
    /\ subBase # 0 /\ ~old
    /\ Answered(c, subBase)
    /\ UNCHANGED <<subBase, old, subLoad, closed>>

ServeStale(c) ==
    /\ caller[c].at = "ready"
    /\ subBase # 0 /\ old
    /\ subLoad # None
    /\ Answered(c, subBase)
    /\ UNCHANGED <<subBase, old, subLoad, closed>>

Wait(c) ==
    /\ caller[c].at = "ready"
    /\ subBase = 0
    /\ subLoad # None
    /\ caller' = [caller EXCEPT ![c] = [at |-> "waiting", load |-> subLoad, answer |-> 0]]
    /\ UNCHANGED <<subBase, old, subLoad, closed>>

Lead(c) ==
    /\ caller[c].at = "ready"
    /\ subBase = 0 \/ old
    /\ subLoad = None
    /\ LET n == CHOOSE x \in Channels : \A d \in Callers : caller[d].load # x
       IN  /\ subLoad' = n
           /\ closed' = closed \ {n}
           /\ caller' = [caller EXCEPT ![c] = [at |-> "loading", load |-> n, answer |-> 0]]
    /\ UNCHANGED <<subBase, old>>

(* Mutant: a failed load is not cleared. *)
PublishOnSuccess(c) ==
    /\ caller[c].at = "loading"
    /\ \/ \E b \in Bases : subBase' = b /\ old' = FALSE /\ subLoad' = None
       \/ UNCHANGED <<subBase, old, subLoad>>
    /\ caller' = [caller EXCEPT ![c].at = "closing", ![c].answer = subBase']
    /\ UNCHANGED closed

(* Mutant: a failed load forgets the previous base. *)
PublishForgetting(c) ==
    /\ caller[c].at = "loading"
    /\ \E b \in Bases \cup {0} : subBase' = b /\ old' = FALSE
    /\ subLoad' = None
    /\ caller' = [caller EXCEPT ![c].at = "closing", ![c].answer = subBase']
    /\ UNCHANGED closed

(* The settings call returns: the base is stored if it succeeded, subLoad  *)
(* is cleared in any case, and the channel is closed after the unlock.     *)
Publish(c) ==
    /\ caller[c].at = "loading"
    /\ \/ \E b \in Bases : subBase' = b /\ old' = FALSE
       \/ UNCHANGED <<subBase, old>>
    /\ subLoad' = None
    /\ caller' = [caller EXCEPT ![c].at = "closing", ![c].answer = subBase']
    /\ UNCHANGED closed

Close(c) ==
    /\ caller[c].at = "closing"
    /\ closed' = closed \cup {caller[c].load}
    /\ Answered(c, caller[c].answer)
    /\ UNCHANGED <<subBase, old, subLoad>>

(* Mutant: the waiter sleeps until no load is under way. *)
WakeWhenIdle(c) ==
    /\ caller[c].at = "waiting" /\ subLoad = None /\ subBase # 0
    /\ Answered(c, subBase)
    /\ UNCHANGED <<subBase, old, subLoad, closed>>

(* A waiter reads the base anew once its channel is closed. *)
Wake(c) ==
    /\ caller[c].at = "waiting" /\ caller[c].load \in closed
    /\ Answered(c, subBase)
    /\ UNCHANGED <<subBase, old, subLoad, closed>>

(* A waiter's request is cancelled; a leader's load is not. *)
GiveUp(c) ==
    /\ caller[c].at = "waiting"
    /\ Answered(c, 0)
    /\ UNCHANGED <<subBase, old, subLoad, closed>>

(* The next request. *)
Again(c) ==
    /\ caller[c].at = "done"
    /\ caller' = [caller EXCEPT ![c] = Ready]
    /\ UNCHANGED <<subBase, old, subLoad, closed>>

Age ==
    /\ subBase # 0 /\ ~old
    /\ old' = TRUE
    /\ UNCHANGED <<subBase, subLoad, closed, caller>>

Init ==
    /\ subBase = 0 /\ old = FALSE
    /\ subLoad = None /\ closed = {}
    /\ caller = [c \in Callers |-> Ready]

Progress(c) == Hit(c) \/ ServeStale(c) \/ Wait(c) \/ Lead(c)
               \/ Publish(c) \/ Close(c) \/ Wake(c)

Next == (\E c \in Callers : Progress(c) \/ GiveUp(c) \/ Again(c)) \/ Age

Spec == Init /\ [][Next]_vars

(* Every handler goes on: requestTimeout bounds the settings call, and the *)
(* lock is held for a few assignments only.                                *)
FairSpec == Spec /\ \A c \in Callers : WF_vars(Progress(c))

-----------------------------------------------------------------------------
(* Properties.                                                             *)

(* At most one read of the settings is in flight, and subLoad names it;     *)
(* whoever waits does so for that one or for one whose channel is closed or *)
(* about to be.                                                             *)
OneLoad ==
    /\ \A c \in Callers : caller[c].at = "loading" => caller[c].load = subLoad
    /\ \A c, d \in Callers :
          caller[c].at = "loading" /\ caller[d].at = "loading" => c = d
    /\ subLoad # None => \E c \in Callers : caller[c].load = subLoad
                                            /\ caller[c].at = "loading"
    /\ \A c \in Callers : caller[c].at = "waiting" =>
          \/ caller[c].load \in closed
          \/ \E d \in Callers : /\ caller[d].load = caller[c].load
                                /\ caller[d].at \in {"loading", "closing"}

(* Once a base is known it is never lost again: a failing panel leaves the  *)
(* clients the link they had.                                               *)
BaseSurvives == [][subBase # 0 => subBase' # 0]_vars

(* Every caller that waits or leads is answered, though loads fail and the  *)
(* requests that started them are cancelled.                                *)
EveryCallerAnswered ==
    \A c \in Callers :
        caller[c].at \in {"waiting", "loading", "closing"} ~> caller[c].at = "done"
=============================================================================
