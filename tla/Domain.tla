------------------------------ MODULE Domain ------------------------------
(***************************************************************************)
(* The pure subscription rules of internal/domain.  Time is counted in     *)
(* ticks, Day ticks to a day, and an expiry of 0 is the code's zero time:  *)
(* the subscription never expires.  Expiries and clocks stand for Unix     *)
(* milliseconds, so 0 never collides with a real date.                     *)
(***************************************************************************)
EXTENDS Integers

CONSTANT Day                    \* ticks in 24 hours

ASSUME DayAssumption == Day \in Nat \ {0}

Fold == INSTANCE Functions

(* Mutant: whole days only.                                                *)
WholeDays(a) == a \div Day

(* Quotient rounded up, for a >= 0: what math.Ceil of a duration over Day  *)
(* computes.                                                               *)
CeilDays(a) == (a + Day - 1) \div Day

(* MsToTime: the panel stores 0 for "never" and a negative value for       *)
(* "starts on first use"; both read as the zero time.                      *)
MsToTime(ms) == IF ms <= 0 THEN 0 ELSE ms

(* A panel record is [enable, expiryTime, totalGB, used].  FromRecords     *)
(* folds all the records of one subId, a function of their e-mails:        *)
(* earliest expiry that is set, summed quota and use, enabled if any is.   *)
SetExpiries(records) == {MsToTime(records[m].expiryTime) : m \in DOMAIN records} \ {0}

FromRecords(records) ==
  [ enabled   |-> \E m \in DOMAIN records : records[m].enable,
    expiresAt |-> IF SetExpiries(records) = {} THEN 0
                  ELSE CHOOSE e \in SetExpiries(records) :
                          \A f \in SetExpiries(records) : e <= f,
    quota     |-> Fold!SumFunction([m \in DOMAIN records |->
                     IF records[m].totalGB > 0 THEN records[m].totalGB ELSE 0]),
    used      |-> Fold!SumFunction([m \in DOMAIN records |-> records[m].used]) ]

Unlimited(expiresAt) == expiresAt = 0

Expired(expiresAt, now) == expiresAt # 0 /\ expiresAt <= now

Depleted(quota, used) == quota > 0 /\ used >= quota

(* -1 for unlimited, 0 once expired, otherwise days rounded up.            *)
DaysLeft(expiresAt, now) ==
  IF Unlimited(expiresAt) THEN -1
  ELSE IF expiresAt <= now THEN 0
  ELSE CeilDays(expiresAt - now)

(* Mutant: what runs out first in the source order is the quota.           *)
QuotaFirstStatus(sub, now, expiringWithin) ==
  CASE Depleted(sub.quota, sub.used) -> "depleted"
    [] ~Depleted(sub.quota, sub.used) /\ Expired(sub.expiresAt, now) -> "expired"
    [] OTHER -> "active"

Status(sub, now, expiringWithin) ==
  CASE Expired(sub.expiresAt, now) -> "expired"
    [] ~Expired(sub.expiresAt, now) /\ Depleted(sub.quota, sub.used) -> "depleted"
    [] ~Expired(sub.expiresAt, now) /\ ~Depleted(sub.quota, sub.used) /\ ~sub.enabled -> "disabled"
    [] OTHER ->
         IF Unlimited(sub.expiresAt) /\ sub.quota = 0 THEN "unlimited"
         ELSE IF ~Unlimited(sub.expiresAt) /\ sub.expiresAt - now <= expiringWithin
              THEN "expiring" ELSE "active"

(* Mutant: the overdue part is forgotten.                                  *)
DaysToAddNoDebt(planDays, expiresAt, now) == planDays

(* The addDays a plan of planDays needs: the panel shifts the stored       *)
(* expiry, so an overdue subscription also gets the overdue part.  Only    *)
(* asked of a subscription that has an expiry, for a positive plan.        *)
DaysToAdd(planDays, expiresAt, now) ==
  IF expiresAt > now THEN planDays ELSE planDays + CeilDays(now - expiresAt)

(* Used share of the quota in percent, rounded half up and capped at 100.  *)
TrafficPercent(quota, used) ==
  IF quota <= 0 THEN 0
  ELSE LET p == (200 * used + quota) \div (2 * quota)
       IN  IF p > 100 THEN 100 ELSE p
============================================================================
