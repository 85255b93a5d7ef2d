--------------------------- MODULE Subscription ---------------------------
(***************************************************************************)
(* One subscription over its life: the panel's records that share a subId, *)
(* read through internal/domain.  A subId may own several records, with    *)
(* different expiries and quotas, and the service shows, renews and warns  *)
(* about them as one.                                                      *)
(*                                                                         *)
(* Here a renewal is one step; what happens between its read of the expiry *)
(* and its write is the subject of Renewal.                                *)
(***************************************************************************)
EXTENDS Domain, FiniteSets

CONSTANTS
    Emails,        \* the panel records of the subscription
    InitExpiries,  \* expiryTime values a record may start with
    Enables,       \* enable flags a record may start with
    Quotas,        \* totalGB values
    UseStep,       \* traffic counted in one step
    Plans,         \* days of the plans on offer
    SoonDays,      \* the largest NOTIFY_DAYS threshold
    MaxNow,        \* bound on the clock
    MaxExpiry,     \* bound on the expiries renewals reach
    MaxUsed        \* a record's traffic counts up to here

ASSUME SubscriptionAssumption ==
    /\ IsFiniteSet(Emails)
    /\ InitExpiries \subseteq Int
    /\ Enables \subseteq BOOLEAN
    /\ Quotas \subseteq Nat
    /\ UseStep \in Nat \ {0}
    /\ Plans \subseteq Nat \ {0}
    /\ SoonDays \in Nat
    /\ MaxNow \in Nat /\ MaxExpiry \in Nat /\ MaxUsed \in Nat

VARIABLES
    record,        \* email -> ClientRecord on the panel
    now,
    paidUntil      \* history: the end of the time the client has a claim to

vars == <<record, now, paidUntil>>

ClientRecord == [email : Emails, enable : BOOLEAN, expiryTime : Int, totalGB : Nat, used : Nat]

(* What the code sees of the panel: every record of the subId as one.      *)
Sub == FromRecords(record)
EarliestSet(r) == FromRecords(r).expiresAt

(* expiringWindow: the largest threshold, in days.                         *)
ShownStatus == Status(Sub, now, SoonDays * Day)

(* The panel shifts what is set and skips the rest.                        *)
Extended(e, days) == IF e <= 0 THEN e ELSE e + days * Day

Later(a, b) == IF a >= b THEN a ELSE b

-----------------------------------------------------------------------------
(* "I have paid" for a plan: one bulkAdjust of all the emails, by the days *)
(* the earliest expiry needs.                                              *)
Renew(plan) ==
  /\ ~Unlimited(Sub.expiresAt)
  /\ LET days == DaysToAdd(plan, Sub.expiresAt, now) IN
     /\ Sub.expiresAt + days * Day <= MaxExpiry
     /\ record' = [m \in Emails |->
                     [record[m] EXCEPT !.expiryTime = Extended(@, days)]]
  /\ paidUntil' = Later(paidUntil, now) + plan * Day
  /\ UNCHANGED now

(* A delayed start ends: the panel sets the date.  The claim becomes what  *)
(* the earliest date grants.                                               *)
FirstUse(m) ==
  /\ record[m].expiryTime < 0
  /\ record' = [record EXCEPT ![m].expiryTime = now - @]
  /\ paidUntil' = IF EarliestSet(record') = Sub.expiresAt THEN paidUntil
                  ELSE EarliestSet(record')
  /\ UNCHANGED now

(* The panel counts traffic; more than MaxUsed makes no difference.        *)
Use(m) ==
  /\ record' = [record EXCEPT ![m].used = IF @ + UseStep > MaxUsed THEN MaxUsed
                                          ELSE @ + UseStep]
  /\ UNCHANGED <<now, paidUntil>>

Tick ==
  /\ now < MaxNow
  /\ now' = now + 1
  /\ UNCHANGED <<record, paidUntil>>

Init ==
  /\ record \in [Emails -> [email : Emails, enable : Enables, expiryTime : InitExpiries,
                            totalGB : Quotas, used : {0}]]
  /\ \A m \in Emails : record[m].email = m
  /\ now = 1
  /\ paidUntil = EarliestSet(record)

Next ==
  \/ \E plan \in Plans : Renew(plan)
  \/ \E m \in Emails : FirstUse(m) \/ Use(m)
  \/ Tick

Spec == Init /\ [][Next]_vars

-----------------------------------------------------------------------------
TypeOK ==
  /\ record \in [Emails -> ClientRecord]
  /\ now \in Nat \ {0}
  /\ paidUntil \in Nat

(* However many renewals, early or overdue, the earliest record runs at    *)
(* least to the end of what was paid for, and the round-up to whole days   *)
(* never adds up to a day or more.                                         *)
PaidForAndNoDayMore ==
  ~Unlimited(Sub.expiresAt) =>
     /\ paidUntil <= Sub.expiresAt
     /\ Sub.expiresAt < paidUntil + Day

(* The countdown, the badge and the schedule of warnings are three         *)
(* different computations: the badge says "expiring" exactly on the days   *)
(* the countdown shows a number within the largest warning threshold.      *)
CountdownAgrees ==
  ShownStatus \notin {"depleted", "disabled"} =>
     (ShownStatus = "expiring" <=> DaysLeft(Sub.expiresAt, now) \in 1 .. SoonDays)

(* From best to worst.                                                     *)
Rank == [active |-> 0, unlimited |-> 0, expiring |-> 1, disabled |-> 2,
         depleted |-> 3, expired |-> 4]

(* Without a renewal the badge only gets worse: time, traffic and a        *)
(* delayed start never bring an expired or depleted subscription back.     *)
OnlyARenewalImproves ==
  [][(\A plan \in Plans : ~Renew(plan)) => Rank[ShownStatus'] >= Rank[ShownStatus]]_vars
============================================================================
