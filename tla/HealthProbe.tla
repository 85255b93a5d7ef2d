----------------------------- MODULE HealthProbe -----------------------------
(***************************************************************************)
(* panelHealthy of internal/httpapi/server.go, behind GET /healthz: the    *)
(* verdict on the panel is kept for thirty seconds; then one caller probes *)
(* the panel, without the lock and detached from its own request, while    *)
(* the others are given the last verdict whatever its age.                 *)
(*                                                                         *)
(* Times are ages that stop at the limit they are compared with, so runs   *)
(* are endless and the states are not.                                     *)
(***************************************************************************)
EXTENDS Naturals

CONSTANTS
    Callers,     \* requests that may ask at the same time
    Interval,    \* thirty seconds, in ticks
    Patience     \* the three seconds a probe, retry included, may take

ASSUME ProbeAssumption == Interval \in Nat \ {0} /\ Patience \in Nat

VARIABLES
    up,           \* the panel would answer now
    healthOK,     \* the last verdict
    healthAge,    \* ticks since healthAt; at Interval it is too old, or never set
    healthProbe,  \* a probe is under way
    probe,        \* caller -> where its probe is
    told,         \* the last answer anybody was given
    evidence      \* verdict -> ticks since the panel gave cause for it

vars == <<up, healthOK, healthAge, healthProbe, probe, told, evidence>>

Horizon == Interval + Patience
UpTo(n, limit) == IF n < limit THEN n ELSE limit

Idle == [at |-> "idle", try |-> 0, age |-> 0, ok |-> FALSE]

(* Mutant: only the age is looked at. *)
HitByAge == healthAge < Interval

Hit == healthAge < Interval \/ healthProbe

(* The critical section at the top: the verdict as it is ...               *)
LastVerdict(c) ==
    /\ probe[c] = Idle
    /\ Hit
    /\ told' = healthOK
    /\ UNCHANGED <<up, healthOK, healthAge, healthProbe, probe, evidence>>

(* ... or a probe.                                                         *)
StartProbe(c) ==
    /\ probe[c] = Idle
    /\ ~Hit
    /\ healthProbe' = TRUE
    /\ probe' = [probe EXCEPT ![c] = [at |-> "asking", try |-> 1, age |-> 0, ok |-> FALSE]]
    /\ UNCHANGED <<up, healthOK, healthAge, told, evidence>>

Answered(c, ok) ==
    /\ probe[c].at = "asking"
    /\ probe' = [probe EXCEPT ![c].at = "answered", ![c].ok = ok]
    /\ evidence' = [evidence EXCEPT ![ok] = 0]
    /\ UNCHANGED <<up, healthOK, healthAge, healthProbe, told>>

(* ServerStatus succeeds. *)
Alive(c) == up /\ Answered(c, TRUE)

(* withRetry: one more attempt after a transport error. *)
Retry(c) ==
    /\ ~up
    /\ probe[c].at = "asking" /\ probe[c].try = 1
    /\ probe' = [probe EXCEPT ![c].try = 2]
    /\ UNCHANGED <<up, healthOK, healthAge, healthProbe, told, evidence>>

(* Mutant: the probe ends with the request that started it. *)
DeadOrCancelled(c) ==
    /\ probe[c].at = "asking"
    /\ probe' = [probe EXCEPT ![c].at = "answered", ![c].ok = FALSE]
    /\ UNCHANGED <<up, healthOK, healthAge, healthProbe, told, evidence>>

(* A refusal, a second transport error, or the three seconds are over. *)
Dead(c) == ~up /\ Answered(c, FALSE)

(* Mutant: a failed probe leaves the flag behind. *)
FinishIfAlive(c) ==
    /\ probe[c].at = "answered"
    /\ healthOK' = probe[c].ok /\ healthAge' = 0
    /\ healthProbe' = ~probe[c].ok
    /\ told' = probe[c].ok
    /\ probe' = [probe EXCEPT ![c] = Idle]
    /\ UNCHANGED <<up, evidence>>

(* The critical section at the end, and the prober's own answer. *)
Finish(c) ==
    /\ probe[c].at = "answered"
    /\ healthOK' = probe[c].ok /\ healthAge' = 0
    /\ healthProbe' = FALSE
    /\ told' = probe[c].ok
    /\ probe' = [probe EXCEPT ![c] = Idle]
    /\ UNCHANGED <<up, evidence>>

(* The panel goes down or comes back. *)
Switch ==
    /\ up' = ~up
    /\ UNCHANGED <<healthOK, healthAge, healthProbe, probe, told, evidence>>

(* The probe's deadline; a panel that is up answers within the tick, and   *)
(* nothing is waited for once it has.                                      *)
Tick ==
    /\ \A c \in Callers :
          probe[c] # Idle => probe[c].at = "asking" /\ ~up /\ probe[c].age < Patience
    /\ healthAge' = UpTo(healthAge + 1, Interval)
    /\ probe' = [c \in Callers |-> IF probe[c] = Idle THEN Idle
                                   ELSE [probe[c] EXCEPT !.age = @ + 1]]
    /\ evidence' = [ok \in BOOLEAN |-> UpTo(evidence[ok] + 1, Horizon)]
    /\ UNCHANGED <<up, healthOK, healthProbe, told>>

(* A fresh Server: the zero healthAt is too old, the verdict "down". *)
Init ==
    /\ up \in BOOLEAN
    /\ healthOK = FALSE /\ healthAge = Interval /\ healthProbe = FALSE
    /\ probe = [c \in Callers |-> Idle]
    /\ told = FALSE
    /\ evidence = [ok \in BOOLEAN |-> Horizon]

Ask(c) == LastVerdict(c) \/ StartProbe(c)
Probing(c) == Alive(c) \/ Retry(c) \/ Dead(c) \/ Finish(c)

Next == (\E c \in Callers : Ask(c) \/ Probing(c)) \/ Switch \/ Tick

Spec == Init /\ [][Next]_vars

(* A probe goes on, its deadline sees to that; time passes; and somebody   *)
(* keeps asking, as the container's health check does.                     *)
FairSpec ==
    /\ Spec
    /\ \A c \in Callers : WF_vars(Probing(c)) /\ WF_vars(Ask(c))
    /\ SF_vars(Tick)

-----------------------------------------------------------------------------
(* Properties.                                                             *)

(* Every variable holds a value of its type. *)
TypeOK ==
    /\ up \in BOOLEAN /\ healthOK \in BOOLEAN /\ told \in BOOLEAN
    /\ healthAge \in 0 .. Interval /\ healthProbe \in BOOLEAN
    /\ probe \in [Callers -> [at : {"idle", "asking", "answered"}, try : 0 .. 2,
                              age : 0 .. Patience, ok : BOOLEAN]]
    /\ evidence \in [BOOLEAN -> 0 .. Horizon]

(* "Probes the panel at most every 30 seconds.  Only one probe runs at a    *)
(* time": a probe starts only when no other is under way and the panel has  *)
(* not been heard of, or given up on, for the whole interval.               *)
ProbesSpaced ==
    [][\A c \in Callers :
          probe[c].at = "idle" /\ probe'[c].at = "asking" =>
              /\ \A d \in Callers : probe[d].at = "idle"
              /\ \A ok \in BOOLEAN : evidence[ok] >= Interval]_vars

(* A verdict is never older than it passes for: while it is young enough to *)
(* be handed out unasked, the panel gave cause for it no longer ago than    *)
(* its age says; neither a request that walked away nor a probe that failed *)
(* otherwise can plant one.                                                 *)
VerdictFounded == healthAge < Interval => evidence[healthOK] <= healthAge

(* If the panel stays up, or stays down, everybody is told so from some     *)
(* moment on, whatever had been cached and however many callers are given   *)
(* the old verdict while it is looked at.                                   *)
VerdictCatchesUp ==
    /\ <>[]up => <>[]told
    /\ <>[]~up => <>[]~told
=============================================================================
