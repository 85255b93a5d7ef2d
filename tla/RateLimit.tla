----------------------------- MODULE RateLimit -----------------------------
(***************************************************************************)
(* The per-IP token buckets of internal/auth/ratelimit.go.  Allow runs     *)
(* under the mutex from its first to its last line, so it is one step; it  *)
(* also sweeps forgotten buckets on every SweepEvery-th call, of whichever *)
(* key.  Tokens are counted in units of which Cost make one request and    *)
(* Rate are earned per tick; the code's floating point has no rounding     *)
(* here.  A bucket's age is the time since its last use, counted up to the *)
(* point from which on nothing distinguishes it from an older one.         *)
(***************************************************************************)
EXTENDS Naturals

CONSTANTS
    Keys,         \* client IPs
    Rate,         \* units earned per tick
    Burst,        \* units a full bucket holds
    Cost,         \* units a request takes
    SweepEvery,   \* calls between two sweeps
    SweepAge,     \* ticks without use after which a bucket is swept
    MaxWindow,    \* bound on the length of the observed window
    NoBucket

(* A bucket may be forgotten once it is full again: 10 minutes refill every *)
(* limiter the server builds.                                               *)
RateAssumption ==
    /\ Rate \in Nat \ {0} /\ Burst \in Nat /\ Cost \in Nat \ {0}
    /\ SweepEvery \in Nat \ {0}
    /\ SweepAge \in Nat /\ Rate * SweepAge >= Burst
    /\ MaxWindow \in Nat
    /\ NoBucket \notin [tokens : Nat, age : Nat]

VARIABLES
    buckets,   \* key -> [tokens, age] or NoBucket
    calls,     \* l.calls, modulo SweepEvery
    exact,     \* history: the same buckets in a limiter that never sweeps
    window     \* history: key -> [age, taken] since some moment of its choice

vars == <<buckets, calls, exact, window>>

Capped(n) == IF n > Burst THEN Burst ELSE n

(* What the bucket holds when it is used now. *)
Refilled(b) == IF b = NoBucket THEN Burst ELSE Capped(b.tokens + b.age * Rate)

(* The bucket after a request. *)
Used(b) == [tokens |-> IF Refilled(b) < Cost THEN Refilled(b) ELSE Refilled(b) - Cost,
            age |-> 0]

(* Mutant: any unused bucket is swept. *)
ForgottenEarly(b) == b # NoBucket /\ b.age > 0

Forgotten(b) == b # NoBucket /\ b.age > SweepAge

Sweep(bs) == [k \in Keys |-> IF Forgotten(bs[k]) THEN NoBucket ELSE bs[k]]

Allow(k) ==
    /\ LET used == [buckets EXCEPT ![k] = Used(@)]
       IN  buckets' = IF calls + 1 = SweepEvery THEN Sweep(used) ELSE used
    /\ calls' = (calls + 1) % SweepEvery
    /\ exact' = [exact EXCEPT ![k] = Used(@)]
    /\ window' = IF Refilled(buckets[k]) < Cost THEN window
                 ELSE [window EXCEPT ![k].taken = @ + Cost]

(* Time passes for every bucket; ages stop where they stop mattering. *)
Older(b) == IF b = NoBucket \/ b.age > SweepAge THEN b ELSE [b EXCEPT !.age = @ + 1]

Tick ==
    /\ \A k \in Keys : window[k].age < MaxWindow
    /\ buckets' = [k \in Keys |-> Older(buckets[k])]
    /\ exact' = [k \in Keys |-> Older(exact[k])]
    /\ window' = [k \in Keys |-> [window[k] EXCEPT !.age = @ + 1]]
    /\ UNCHANGED calls

(* The observer starts counting anew. *)
Observe(k) ==
    /\ window[k] # [age |-> 0, taken |-> 0]
    /\ window' = [window EXCEPT ![k] = [age |-> 0, taken |-> 0]]
    /\ UNCHANGED <<buckets, calls, exact>>

Init ==
    /\ buckets = [k \in Keys |-> NoBucket]
    /\ calls = 0
    /\ exact = [k \in Keys |-> NoBucket]
    /\ window = [k \in Keys |-> [age |-> 0, taken |-> 0]]

Next == (\E k \in Keys : Allow(k) \/ Observe(k)) \/ Tick

Spec == Init /\ [][Next]_vars

-----------------------------------------------------------------------------
(* Properties.                                                             *)

(* Every variable holds a value of its type. *)
BucketType == [tokens : 0 .. Burst, age : 0 .. SweepAge + 1] \cup {NoBucket}

TypeOK ==
    /\ buckets \in [Keys -> BucketType]
    /\ calls \in 0 .. SweepEvery - 1
    /\ exact \in [Keys -> BucketType]
    /\ window \in [Keys -> [age : 0 .. MaxWindow, taken : Nat]]

(* Sweeping saves memory and nothing else: every key may do exactly what it *)
(* could do if no bucket were ever forgotten.                               *)
SweepInvisible ==
    \A k \in Keys : Refilled(buckets[k]) = Refilled(exact[k])

(* In any stretch of time a key is let in for at most a full bucket plus    *)
(* what that time earns, however its own calls and the others' sweeps fall. *)
WindowBound ==
    \A k \in Keys :
        window[k].taken + Refilled(buckets[k])
           <= Burst + Rate * window[k].age
=============================================================================
