------------------------- MODULE SubscriptionProofs -------------------------
(***************************************************************************)
(* The renewal arithmetic for every length of a day, every set of records, *)
(* every plan and every number of renewals.                                *)
(***************************************************************************)
EXTENDS Subscription, FiniteSetTheorems, WellFoundedInduction, TLAPS

(* Rounding up to whole days loses nothing and adds less than a day.       *)
LEMMA CeilDaysBounds ==
  ASSUME NEW a \in Nat
  PROVE  /\ CeilDays(a) \in Nat
         /\ a <= CeilDays(a) * Day
         /\ CeilDays(a) * Day < a + Day
<1>1. Day \in Nat /\ Day > 0
  BY DayAssumption
<1> DEFINE n == a + Day - 1
<1>2. n \in Nat
  BY <1>1
<1>3. n \div Day \in Nat /\ (n \div Day) * Day <= n /\ n < (n \div Day) * Day + Day
  <2> HIDE DEF n
  <2> QED  BY <1>1, <1>2, SMTT(30)
<1> QED
  BY <1>1, <1>2, <1>3 DEF CeilDays

(* The days asked of the panel take the expiry to the end of the plan,     *)
(* counted from now or from a later expiry, and less than a day further.   *)
LEMMA DaysToAddBounds ==
  ASSUME NEW p \in Nat, NEW e \in Nat, NEW t \in Nat
  PROVE  /\ DaysToAdd(p, e, t) \in Nat
         /\ DaysToAdd(p, e, t) * Day \in Nat
         /\ Later(e, t) + p * Day <= e + DaysToAdd(p, e, t) * Day
         /\ e > t => DaysToAdd(p, e, t) = p
         /\ e <= t => e + DaysToAdd(p, e, t) * Day < t + p * Day + Day
<1>1. Day \in Nat
  BY DayAssumption
<1>2. CASE e > t
  BY <1>1, <1>2 DEF DaysToAdd, Later
<1>3. CASE e <= t
  <2> DEFINE c == CeilDays(t - e)
  <2>1. c \in Nat /\ t - e <= c * Day /\ c * Day < t - e + Day
    BY <1>3, CeilDaysBounds
  <2>2. DaysToAdd(p, e, t) = p + c
    BY <1>3 DEF DaysToAdd
  <2> HIDE DEF c
  <2>3. (p + c) * Day = p * Day + c * Day /\ p * Day \in Nat /\ c * Day \in Nat
    BY <1>1, <2>1
  <2> QED  BY <1>1, <1>3, <2>1, <2>2, <2>3 DEF Later
<1> QED
  BY <1>2, <1>3

(* A non-empty set of natural numbers has a least element.                 *)
LEMMA LeastExists ==
  ASSUME NEW S \in SUBSET Nat, S # {}
  PROVE  \E e \in S : \A f \in S : e <= f
<1> DEFINE R == OpToRel(<, Nat)
<1>1. \A e, f \in S : f < e => <<f, e>> \in R
  BY DEF OpToRel
<1>2. IsWellFoundedOn(R, Nat)
  BY NatLessThanWellFounded
<1> HIDE DEF R
<1>3. PICK e \in S : \A f \in S : <<f, e>> \notin R
  BY <1>2, WFMin
<1>4. \A f \in S : ~(f < e)
  BY <1>1, <1>3
<1>5. \A f \in S : e <= f
  <2>1. S \subseteq Nat
    OBVIOUS
  <2> QED  BY <1>4, <2>1
<1> QED
  BY <1>5

(* What FromRecords makes of the expiries: 0 if none is set, otherwise the *)
(* least that is.                                                          *)
IsEarliest(r, e) ==
  /\ e \in Nat
  /\ e = 0 => \A m \in Emails : r[m].expiryTime <= 0
  /\ e # 0 => /\ \E m \in Emails : r[m].expiryTime = e
              /\ \A m \in Emails : r[m].expiryTime > 0 => e <= r[m].expiryTime

(* FromRecords returns the least expiry that is set, or zero.              *)
LEMMA EarliestSetIs ==
  ASSUME NEW r \in [Emails -> ClientRecord]
  PROVE  IsEarliest(r, EarliestSet(r))
<1> DEFINE S == SetExpiries(r)
<1>1. \A m \in Emails : r[m].expiryTime \in Int
  BY DEF ClientRecord
<1>2. \A x : x \in S <=> \E m \in Emails : x = MsToTime(r[m].expiryTime) /\ x # 0
  BY DEF SetExpiries
<1>3. S \subseteq Nat
  BY <1>1, <1>2 DEF MsToTime
<1>4. \A m \in Emails : r[m].expiryTime > 0 => r[m].expiryTime \in S
  BY <1>1, <1>2 DEF MsToTime
<1>5. \A x \in S : x > 0 /\ \E m \in Emails : r[m].expiryTime = x
  BY <1>1, <1>2, <1>3 DEF MsToTime
<1>6. EarliestSet(r) = IF S = {} THEN 0 ELSE CHOOSE e \in S : \A f \in S : e <= f
  BY DEF EarliestSet, FromRecords
<1> HIDE DEF S
<1>7. CASE S = {}
  BY <1>1, <1>4, <1>6, <1>7 DEF IsEarliest
<1>8. CASE S # {}
  <2>1. EarliestSet(r) \in S /\ \A f \in S : EarliestSet(r) <= f
    BY <1>3, <1>6, <1>8, LeastExists
  <2> DEFINE e == EarliestSet(r)
  <2> HIDE DEF e
  <2>2. e \in S /\ \A f \in S : e <= f
    BY <2>1 DEF e
  <2>3. e \in Nat /\ e > 0 /\ \E m \in Emails : r[m].expiryTime = e
    BY <1>3, <1>5, <2>2
  <2>4. \A m \in Emails : r[m].expiryTime > 0 => e <= r[m].expiryTime
    BY <1>4, <2>2
  <2>5. IsEarliest(r, e)
    BY <2>3, <2>4 DEF IsEarliest
  <2> QED  BY <2>5 DEF e
<1> QED
  BY <1>7, <1>8

(* There is only one such value.                                           *)
LEMMA EarliestUnique ==
  ASSUME NEW r \in [Emails -> ClientRecord], NEW e, NEW f,
         IsEarliest(r, e), IsEarliest(r, f)
  PROVE  e = f
<1>1. \A m \in Emails : r[m].expiryTime \in Int
  BY DEF ClientRecord
<1> QED
  BY <1>1 DEF IsEarliest

(* A renewal moves the earliest expiry by exactly the days it asked for.   *)
LEMMA EarliestShifts ==
  ASSUME NEW r \in [Emails -> ClientRecord], NEW days \in Nat, days * Day \in Nat,
         NEW q, q = [m \in Emails |-> [r[m] EXCEPT !.expiryTime = Extended(@, days)]],
         EarliestSet(r) # 0
  PROVE  /\ q \in [Emails -> ClientRecord]
         /\ EarliestSet(q) = EarliestSet(r) + days * Day
<1> DEFINE e == EarliestSet(r)
           s == days * Day
<1>1. IsEarliest(r, e) /\ e # 0
  BY EarliestSetIs
<1>2. \A m \in Emails : r[m].expiryTime \in Int
  BY DEF ClientRecord
<1>3. \A m \in Emails : /\ q[m] = [r[m] EXCEPT !.expiryTime = Extended(r[m].expiryTime, days)]
                        /\ Extended(r[m].expiryTime, days) \in Int
  BY <1>2 DEF Extended
<1>4. \A m \in Emails : q[m] \in ClientRecord
  BY <1>3 DEF ClientRecord
<1>5. q \in [Emails -> ClientRecord]
  BY <1>4
<1>6. \A m \in Emails : q[m].expiryTime = IF r[m].expiryTime <= 0 THEN r[m].expiryTime
                                         ELSE r[m].expiryTime + s
  BY <1>3 DEF Extended, ClientRecord
<1> HIDE DEF e, s
<1>7. s \in Nat
  BY DEF s
<1>8. IsEarliest(q, e + s)
  <2>1. e \in Nat /\ e > 0 /\ e + s \in Nat /\ e + s > 0
    BY <1>1, <1>7 DEF IsEarliest
  <2>2. PICK m \in Emails : r[m].expiryTime = e
    BY <1>1 DEF IsEarliest
  <2>3. q[m].expiryTime = e + s
    BY <1>6, <2>1, <2>2
  <2>4. \A k \in Emails : q[k].expiryTime > 0 => e + s <= q[k].expiryTime
    BY <1>1, <1>2, <1>6, <1>7, <2>1 DEF IsEarliest
  <2> DEFINE t == e + s
  <2> HIDE DEF t
  <2>5. /\ t \in Nat /\ t > 0
        /\ \E k \in Emails : q[k].expiryTime = t
        /\ \A k \in Emails : q[k].expiryTime > 0 => t <= q[k].expiryTime
    BY <2>1, <2>3, <2>4 DEF t
  <2>6. IsEarliest(q, t)
    BY <2>5 DEF IsEarliest
  <2> QED  BY <2>6 DEF t
<1>9. IsEarliest(q, EarliestSet(q))
  BY <1>5, EarliestSetIs
<1>10. EarliestSet(q) = e + s
  BY <1>5, <1>8, <1>9, EarliestUnique
<1> QED
  BY <1>5, <1>10 DEF e, s

-----------------------------------------------------------------------------
(* The claim the client has on an earliest expiry e, and with it the       *)
(* inductive invariant.                                                    *)
Claim(e) == ~Unlimited(e) => paidUntil <= e /\ e < paidUntil + Day

Inv == TypeOK /\ Claim(EarliestSet(record))

(* The first states satisfy it.                                            *)
LEMMA Initially == Init => Inv
<1> SUFFICES ASSUME Init PROVE Inv
  OBVIOUS
<1> DEFINE First == [email : Emails, enable : Enables, expiryTime : InitExpiries,
                     totalGB : Quotas, used : {0}]
<1>0. First \subseteq ClientRecord
  <2>1. Enables \subseteq BOOLEAN /\ InitExpiries \subseteq Int /\ Quotas \subseteq Nat /\ {0} \subseteq Nat
    BY SubscriptionAssumption
  <2> QED  BY <2>1, Zenon DEF ClientRecord
<1>1. record \in [Emails -> ClientRecord]
  <2>1. record \in [Emails -> First]
    BY DEF Init
  <2> HIDE DEF First
  <2> QED  BY <1>0, <2>1
<1>2. EarliestSet(record) \in Nat
  BY <1>1, EarliestSetIs DEF IsEarliest
<1> QED
  BY <1>1, <1>2, DayAssumption DEF Init, Inv, TypeOK, Claim

(* A renewal moves the claim and the expiry together.                      *)
LEMMA RenewKeeps ==
  ASSUME Inv, NEW plan \in Plans, Renew(plan)
  PROVE  Inv'
<1> DEFINE e == EarliestSet(record)
           days == DaysToAdd(plan, e, now)
<1>1. record \in [Emails -> ClientRecord] /\ now \in Nat /\ paidUntil \in Nat
  BY DEF Inv, TypeOK
<1>2. e \in Nat /\ e # 0
  BY <1>1, EarliestSetIs DEF IsEarliest, Renew, Unlimited, EarliestSet, Sub
<1>3. plan \in Nat /\ Day \in Nat /\ Day > 0
  BY SubscriptionAssumption, DayAssumption
<1>4. paidUntil <= e /\ e < paidUntil + Day
  BY <1>2 DEF Inv, Claim, Unlimited
<1>5. record' = [m \in Emails |-> [record[m] EXCEPT !.expiryTime = Extended(@, days)]]
  BY DEF Renew, EarliestSet, Sub
<1>6. paidUntil' = Later(paidUntil, now) + plan * Day /\ now' = now
  BY DEF Renew
<1> HIDE DEF e
<1>7. /\ days \in Nat /\ days * Day \in Nat
      /\ Later(e, now) + plan * Day <= e + days * Day
      /\ e > now => days = plan
      /\ e <= now => e + days * Day < now + plan * Day + Day
  BY <1>1, <1>2, <1>3, DaysToAddBounds
<1> HIDE DEF days
<1>8. /\ record' \in [Emails -> ClientRecord]
      /\ EarliestSet(record') = e + days * Day
  BY <1>1, <1>2, <1>5, <1>7, EarliestShifts DEF e
<1>9. plan * Day \in Nat
  BY <1>3
<1>10. paidUntil' \in Nat
  BY <1>1, <1>6, <1>9 DEF Later
<1>11. /\ paidUntil' <= e + days * Day
       /\ e + days * Day < paidUntil' + Day
  BY <1>1, <1>2, <1>3, <1>4, <1>6, <1>7, <1>9 DEF Later
<1>12. TypeOK'
  BY <1>6, <1>8, <1>10 DEF Inv, TypeOK
<1> QED
  BY <1>8, <1>11, <1>12 DEF Inv, Claim

(* A delayed start that ends grants what its date says.                    *)
LEMMA FirstUseKeeps ==
  ASSUME Inv, NEW m \in Emails, FirstUse(m)
  PROVE  Inv'
<1>1. record[m] \in ClientRecord /\ now \in Nat /\ record[m].expiryTime \in Int
  BY DEF Inv, TypeOK, ClientRecord
<1>2. [record[m] EXCEPT !.expiryTime = now - @] \in ClientRecord
  BY <1>1 DEF ClientRecord
<1>3. record' \in [Emails -> ClientRecord]
  BY <1>2 DEF FirstUse, Inv, TypeOK
<1>4. EarliestSet(record') \in Nat
  BY <1>3, EarliestSetIs DEF IsEarliest
<1>5. paidUntil' = IF EarliestSet(record') = EarliestSet(record) THEN paidUntil
                   ELSE EarliestSet(record')
  BY DEF FirstUse, Sub, EarliestSet
<1> QED
  BY <1>3, <1>4, <1>5, DayAssumption DEF Inv, TypeOK, Claim, FirstUse

(* Traffic changes no date.                                                *)
LEMMA UseKeeps ==
  ASSUME Inv, NEW m \in Emails, Use(m)
  PROVE  Inv'
<1>1. record \in [Emails -> ClientRecord] /\ record[m].used \in Nat
  BY DEF Inv, TypeOK, ClientRecord
<1> DEFINE u == IF record[m].used + UseStep > MaxUsed THEN MaxUsed ELSE record[m].used + UseStep
<1>2. u \in Nat
  BY <1>1, SubscriptionAssumption
<1>3. record' = [record EXCEPT ![m] = [record[m] EXCEPT !.used = u]]
  BY <1>1 DEF Use
<1> HIDE DEF u
<1>4. [record[m] EXCEPT !.used = u] \in ClientRecord
  BY <1>1, <1>2 DEF ClientRecord
<1>5. record' \in [Emails -> ClientRecord]
  BY <1>1, <1>3, <1>4
<1>6. \A k \in Emails : record'[k].expiryTime = record[k].expiryTime
  BY <1>1, <1>3 DEF ClientRecord
<1>7. IsEarliest(record', EarliestSet(record))
  BY <1>1, <1>6, EarliestSetIs DEF IsEarliest
<1>8. EarliestSet(record') = EarliestSet(record)
  BY <1>5, <1>7, EarliestSetIs, EarliestUnique
<1> QED
  BY <1>5, <1>8 DEF Inv, TypeOK, Claim, Use

(* No step breaks the invariant.                                           *)
LEMMA Inductive == Inv /\ [Next]_vars => Inv'
<1> SUFFICES ASSUME Inv, [Next]_vars PROVE Inv'
  OBVIOUS
<1>1. CASE \E plan \in Plans : Renew(plan)
  BY <1>1, RenewKeeps
<1>2. CASE \E m \in Emails : FirstUse(m) \/ Use(m)
  BY <1>2, FirstUseKeeps, UseKeeps
<1>3. CASE Tick
  BY <1>3 DEF Tick, Inv, TypeOK, Claim
<1>4. CASE UNCHANGED vars
  BY <1>4 DEF vars, Inv, TypeOK, Claim
<1> QED
  BY <1>1, <1>2, <1>3, <1>4 DEF Next

(* The invariant holds in every state of every run.                        *)
LEMMA InvAlways == Spec => []Inv
BY Initially, Inductive, PTL DEF Spec

(* The records keep their shape and the clock never goes back to zero.     *)
THEOREM Typing == Spec => []TypeOK
<1>1. Inv => TypeOK
  BY DEF Inv
<1> QED
  BY <1>1, InvAlways, PTL

(* "The client never receives less than paid" (DaysToAdd), and less than a *)
(* day more, after any number of renewals of any plans at any moments.     *)
THEOREM PaidForAlways == Spec => []PaidForAndNoDayMore
<1>1. Inv => PaidForAndNoDayMore
  BY DEF Inv, Claim, PaidForAndNoDayMore, Sub, EarliestSet
<1> QED
  BY <1>1, InvAlways, PTL

(* Longer by a day or more is later: what rounding up must not cross.      *)
LEMMA DaysMonotone ==
  ASSUME NEW c \in Nat, NEW n \in Nat
  PROVE  /\ c * Day \in Nat /\ n * Day \in Nat
         /\ c <= n => c * Day <= n * Day
         /\ c > n => n * Day + Day <= c * Day
<1>1. Day \in Nat /\ Day > 0
  BY DayAssumption
<1>2. ASSUME NEW k \in Nat PROVE k * Day \in Nat
  BY <1>1
<1>3. ASSUME c <= n PROVE c * Day <= n * Day
  <2>1. n - c \in Nat /\ n * Day = c * Day + (n - c) * Day
    BY <1>1, <1>3
  <2> QED  BY <1>2, <2>1
<1>4. ASSUME c > n PROVE n * Day + Day <= c * Day
  <2>1. c - n - 1 \in Nat /\ c * Day = n * Day + Day + (c - n - 1) * Day
    BY <1>1, <1>4
  <2> QED  BY <1>1, <1>2, <2>1
<1> QED  BY <1>2, <1>3, <1>4

(* The badge says "expiring" on exactly the days the countdown shows a     *)
(* number within the largest threshold, for every length of a day and      *)
(* every threshold: Status compares durations, DaysLeft rounds up.         *)
THEOREM CountdownAgreesAlways == Spec => []CountdownAgrees
<1>1. ASSUME TypeOK PROVE CountdownAgrees
  <2> DEFINE e == Sub.expiresAt
  <2>1. e \in Nat /\ now \in Nat /\ SoonDays \in Nat /\ Day \in Nat
    BY <1>1, EarliestSetIs, SubscriptionAssumption, DayAssumption
       DEF TypeOK, IsEarliest, EarliestSet, Sub
  <2> SUFFICES ASSUME ShownStatus \notin {"depleted", "disabled"}
               PROVE  ShownStatus = "expiring" <=> DaysLeft(e, now) \in 1 .. SoonDays
    BY DEF CountdownAgrees
  <2>2. CASE e = 0 \/ e <= now
    <3>1. DaysLeft(e, now) \notin 1 .. SoonDays
      BY <2>1, <2>2 DEF DaysLeft, Unlimited
    <3>2. ShownStatus # "expiring"
      <4>1. CASE e # 0 /\ e <= now
        BY <4>1 DEF ShownStatus, Status, Expired
      <4>2. CASE e = 0
        <5>1. ~Expired(e, now) /\ Unlimited(e)
          BY <4>2 DEF Expired, Unlimited
        <5> HIDE DEF e
        <5> QED  BY <5>1 DEF ShownStatus, Status, e
      <4> QED  BY <2>2, <4>1, <4>2
    <3> QED  BY <3>1, <3>2
  <2>3. CASE e # 0 /\ now < e
    <3> DEFINE a == e - now
               c == CeilDays(a)
    <3>1. a \in Nat /\ a > 0
      BY <2>1, <2>3
    <3>2. DaysLeft(e, now) = c
      BY <2>1, <2>3 DEF DaysLeft, Unlimited
    <3>3. c \in Nat /\ a <= c * Day /\ c * Day < a + Day
      BY <3>1, CeilDaysBounds
    <3>4. ShownStatus = "expiring" <=> a <= SoonDays * Day
      <4>1. ~Expired(e, now) /\ ~Unlimited(e)
        BY <2>1, <2>3 DEF Expired, Unlimited
      <4> HIDE DEF e
      <4> QED  BY <4>1 DEF ShownStatus, Status, e
    <3> HIDE DEF a, c
    <3>5. c >= 1
      <4>1. c # 0
        BY <2>1, <3>1, <3>3
      <4> QED  BY <3>3, <4>1
    <3>6. a <= SoonDays * Day <=> c <= SoonDays
      BY <2>1, <3>1, <3>3, DaysMonotone
    <3> QED  BY <2>1, <3>2, <3>3, <3>4, <3>5, <3>6
  <2> QED  BY <2>1, <2>2, <2>3
<1> QED  BY <1>1, Typing, PTL

-----------------------------------------------------------------------------
(* Sums over a finite set of records.                                      *)

(* The member a fold takes next, and what a fold from g is.                *)
Pick(s) == CHOOSE i \in s : TRUE
Adds(g, f, D) ==
  g = [s \in SUBSET D |-> IF s = {} THEN 0 ELSE f[Pick(s)] + g[s \ {Pick(s)}]]

(* Taking members out of a finite set one by one empties it.               *)
LEMMA OneFewer ==
  ASSUME NEW D, IsFiniteSet(D), NEW s \in SUBSET D
  PROVE  /\ Cardinality(s) \in Nat /\ Cardinality(s) <= Cardinality(D)
         /\ Cardinality(s) = 0 <=> s = {}
         /\ s # {} => /\ Pick(s) \in s /\ s \ {Pick(s)} \in SUBSET D
                      /\ Cardinality(s \ {Pick(s)}) = Cardinality(s) - 1
<1>1. IsFiniteSet(s) /\ Cardinality(s) <= Cardinality(D)
  BY FS_Subset
<1>2. Cardinality(s) \in Nat /\ (Cardinality(s) = 0 <=> s = {})
  BY <1>1, FS_CardinalityType, FS_EmptySet
<1>3. ASSUME s # {} PROVE Pick(s) \in s
  BY <1>3 DEF Pick
<1>4. ASSUME s # {} PROVE Cardinality(s \ {Pick(s)}) = Cardinality(s) - 1
  BY <1>1, <1>3, <1>4, FS_RemoveElement
<1> QED  BY <1>1, <1>2, <1>3, <1>4

(* So what holds of the empty set and of a set if it does of the one with  *)
(* a member less holds of every subset.                                    *)
LEMMA ByOne ==
  ASSUME NEW D, IsFiniteSet(D), NEW P, {} \in P,
         \A s \in SUBSET D : s # {} /\ s \ {Pick(s)} \in P => s \in P
  PROVE  SUBSET D \subseteq P
<1> DEFINE B == {n \in Nat : \E s \in SUBSET D : s \notin P /\ Cardinality(s) = n}
<1>1. CASE B = {}
  BY <1>1, OneFewer
<1>2. CASE B # {}
  <2>1. PICK n \in B : \A k \in B : n <= k
    <3>1. B \in SUBSET Nat
      OBVIOUS
    <3> HIDE DEF B
    <3> QED  BY <1>2, <3>1, LeastExists
  <2>2. PICK s \in SUBSET D : s \notin P /\ Cardinality(s) = n
    BY <2>1
  <2>3. s # {} /\ s \ {Pick(s)} \notin P
    BY <2>2
  <2>4. s \ {Pick(s)} \in SUBSET D /\ Cardinality(s \ {Pick(s)}) = n - 1 /\ n \in Nat
    BY <2>2, <2>3, OneFewer
  <2>5. n - 1 \in Nat
    BY <2>2, <2>3, <2>4, OneFewer
  <2>6. n - 1 \in B
    BY <2>3, <2>4, <2>5
  <2> HIDE DEF B
  <2> QED  BY <2>1, <2>4, <2>6
<1> QED  BY <1>1, <1>2

(* There is such a fold of a finite set.                                   *)
LEMMA AddsExists ==
  ASSUME NEW D, IsFiniteSet(D), NEW f \in [D -> Nat]
  PROVE  \E g : Adds(g, f, D)
<1> DEFINE Small(n) == {s \in SUBSET D : Cardinality(s) <= n}
           Part(g, n) ==
             \A s \in Small(n) : g[s] = IF s = {} THEN 0 ELSE f[Pick(s)] + g[s \ {Pick(s)}]
           Exists(n) == \E g : g = [s \in Small(n) |-> g[s]] /\ Part(g, n)
           B == {n \in Nat : ~Exists(n)}
<1>0. \A s \in SUBSET D :
        /\ Cardinality(s) \in Nat /\ (Cardinality(s) = 0 <=> s = {})
        /\ s # {} => /\ s \ {Pick(s)} \in SUBSET D
                     /\ Cardinality(s \ {Pick(s)}) = Cardinality(s) - 1
  BY OneFewer
<1>1. Exists(0)
  <2> DEFINE g == [s \in Small(0) |-> 0]
  <2>1. ASSUME NEW s \in Small(0) PROVE s = {}
    <3>1. s \in SUBSET D /\ Cardinality(s) <= 0
      OBVIOUS
    <3>2. Cardinality(s) \in Nat /\ (Cardinality(s) = 0 => s = {})
      BY <1>0, <3>1
    <3> QED  BY <3>1, <3>2
  <2>2. Part(g, 0) /\ g = [s \in Small(0) |-> g[s]]
    BY <2>1
  <2> QED  BY <2>2
<1>2. ASSUME NEW n \in Nat, Exists(n) PROVE Exists(n + 1)
  <2>1. PICK g : g = [s \in Small(n) |-> g[s]] /\ Part(g, n)
    BY <1>2
  <2> DEFINE h == [s \in Small(n + 1) |->
                     IF s \in Small(n) THEN g[s] ELSE f[Pick(s)] + g[s \ {Pick(s)}]]
  <2>2. ASSUME NEW s \in Small(n + 1), s # {}
        PROVE  s \ {Pick(s)} \in Small(n) /\ s \ {Pick(s)} \in Small(n + 1)
    BY <1>0, <2>2
  <2>3. ASSUME NEW s \in Small(n + 1)
        PROVE  h[s] = IF s = {} THEN 0 ELSE f[Pick(s)] + h[s \ {Pick(s)}]
    <3>1. {} \in Small(n)
      BY FS_EmptySet
    <3>2. CASE s = {}
      BY <2>1, <3>1, <3>2
    <3>3. CASE s # {}
      <4>1. h[s \ {Pick(s)}] = g[s \ {Pick(s)}]
        BY <2>2, <3>3
      <4>2. CASE s \in Small(n)
        <5>1. h[s] = g[s] /\ g[s] = f[Pick(s)] + g[s \ {Pick(s)}]
          BY <2>1, <3>3, <4>2
        <5> QED  BY <3>3, <4>1, <5>1
      <4>3. CASE s \notin Small(n)
        <5>1. h[s] = f[Pick(s)] + g[s \ {Pick(s)}]
          BY <4>3
        <5> QED  BY <3>3, <4>1, <5>1
      <4> QED  BY <4>2, <4>3
    <3> QED  BY <3>2, <3>3
  <2>4. h = [s \in Small(n + 1) |-> h[s]]
    OBVIOUS
  <2> QED  BY <2>3, <2>4
<1>3. CASE B = {}
  <2>1. Cardinality(D) \in Nat /\ Small(Cardinality(D)) = SUBSET D
    BY OneFewer
  <2>2. Exists(Cardinality(D))
    BY <1>3, <2>1
  <2>3. PICK g : g = [s \in SUBSET D |-> g[s]] /\ Part(g, Cardinality(D))
    BY <2>1, <2>2
  <2>4. Adds(g, f, D)
    BY <2>1, <2>3 DEF Adds
  <2> QED  BY <2>4
<1>4. CASE B # {}
  <2>1. PICK n \in B : \A k \in B : n <= k
    <3>1. B \in SUBSET Nat
      OBVIOUS
    <3> HIDE DEF B
    <3> QED  BY <1>4, <3>1, LeastExists
  <2>2. n # 0 /\ n \in Nat
    <3>1. n \in Nat /\ ~Exists(n)
      BY <2>1
    <3> HIDE DEF Exists
    <3> QED  BY <1>1, <3>1
  <2>3. n - 1 \in Nat /\ (n - 1) + 1 = n
    BY <2>2
  <2>4. n - 1 \notin B
    <3> HIDE DEF B
    <3> QED  BY <2>1, <2>2
  <2>5. Exists(n - 1)
    BY <2>3, <2>4
  <2>6. Exists(n)
    <3> HIDE DEF Exists
    <3> QED  BY <1>2, <2>3, <2>5
  <2> QED  BY <2>1, <2>6
<1> QED  BY <1>3, <1>4

(* It is the one SumFunction folds with.                                   *)
LEMMA SumAdds ==
  ASSUME NEW D, IsFiniteSet(D), NEW f \in [D -> Nat]
  PROVE  \E g : Adds(g, f, D) /\ Fold!SumFunction(f) = g[D]
<1> DEFINE g == CHOOSE h : Adds(h, f, D)
<1>1. Adds(g, f, D)
  BY AddsExists
<1>2. Fold!SumFunction(f) = g[D]
  BY DEF Fold!SumFunction, Fold!SumFunctionOnSet, Fold!FoldFunctionOnSet, Fold!MapThenFoldSet,
         Adds, Pick
<1> QED  BY <1>1, <1>2

(* Sums of numbers are numbers, and grow with what is summed.              *)
LEMMA SumsGrow ==
  ASSUME NEW D, IsFiniteSet(D), NEW f \in [D -> Nat], NEW h \in [D -> Nat],
         \A i \in D : f[i] <= h[i]
  PROVE  /\ Fold!SumFunction(f) \in Nat /\ Fold!SumFunction(h) \in Nat
         /\ Fold!SumFunction(f) <= Fold!SumFunction(h)
<1>1. PICK a : Adds(a, f, D) /\ Fold!SumFunction(f) = a[D]
  BY SumAdds
<1>2. PICK b : Adds(b, h, D) /\ Fold!SumFunction(h) = b[D]
  BY SumAdds
<1> DEFINE P == {s \in SUBSET D : a[s] \in Nat /\ b[s] \in Nat /\ a[s] <= b[s]}
<1>3. {} \in P
  BY <1>1, <1>2 DEF Adds
<1>4. ASSUME NEW s \in SUBSET D, s # {}, s \ {Pick(s)} \in P
      PROVE  s \in P
  <2>1. Pick(s) \in D /\ f[Pick(s)] \in Nat /\ h[Pick(s)] \in Nat /\ f[Pick(s)] <= h[Pick(s)]
    BY <1>4, OneFewer
  <2>2. a[s] = f[Pick(s)] + a[s \ {Pick(s)}] /\ b[s] = h[Pick(s)] + b[s \ {Pick(s)}]
    BY <1>1, <1>2, <1>4 DEF Adds
  <2> QED  BY <1>4, <2>1, <2>2
<1>5. SUBSET D \subseteq P
  <2> HIDE DEF P
  <2> QED  BY <1>3, <1>4, ByOne
<1> QED  BY <1>1, <1>2, <1>5

-----------------------------------------------------------------------------
(* What FromRecords sums, record by record.                                *)
QuotaOf(r) == [m \in DOMAIN r |-> IF r[m].totalGB > 0 THEN r[m].totalGB ELSE 0]
UsedOf(r) == [m \in DOMAIN r |-> r[m].used]

(* Status asks five things of the records: these.                          *)
LEMMA WhatStatusSees ==
  ASSUME NEW r, NEW t, NEW w
  PROVE  /\ FromRecords(r).expiresAt = EarliestSet(r)
         /\ FromRecords(r).enabled = \E m \in DOMAIN r : r[m].enable
         /\ FromRecords(r).quota = Fold!SumFunction(QuotaOf(r))
         /\ FromRecords(r).used = Fold!SumFunction(UsedOf(r))
BY DEF FromRecords, EarliestSet, QuotaOf, UsedOf

(* The badge as a rank.                                                    *)
LEMMA RankIs ==
  ASSUME NEW s, NEW n, NEW w
  PROVE  Rank[Status(s, n, w)] =
           IF Expired(s.expiresAt, n) THEN 4
           ELSE IF Depleted(s.quota, s.used) THEN 3
           ELSE IF ~s.enabled THEN 2
           ELSE IF ~Unlimited(s.expiresAt) /\ s.expiresAt - n <= w THEN 1 ELSE 0
<1>1. CASE Expired(s.expiresAt, n)
  <2>1. Status(s, n, w) = "expired"
    BY <1>1 DEF Status
  <2> QED  BY <1>1, <2>1 DEF Rank
<1>2. CASE ~Expired(s.expiresAt, n) /\ Depleted(s.quota, s.used)
  <2>1. Status(s, n, w) = "depleted"
    BY <1>2 DEF Status
  <2> QED  BY <1>2, <2>1 DEF Rank
<1>3. CASE ~Expired(s.expiresAt, n) /\ ~Depleted(s.quota, s.used) /\ ~s.enabled
  <2>1. Status(s, n, w) = "disabled"
    BY <1>3 DEF Status
  <2> QED  BY <1>3, <2>1 DEF Rank
<1>4. CASE ~Expired(s.expiresAt, n) /\ ~Depleted(s.quota, s.used) /\ s.enabled
  <2>1. Status(s, n, w) =
          IF Unlimited(s.expiresAt) /\ s.quota = 0 THEN "unlimited"
          ELSE IF ~Unlimited(s.expiresAt) /\ s.expiresAt - n <= w
               THEN "expiring" ELSE "active"
    BY <1>4 DEF Status
  <2>2. CASE Unlimited(s.expiresAt)
    BY <1>4, <2>1, <2>2 DEF Rank
  <2>3. CASE ~Unlimited(s.expiresAt)
    BY <1>4, <2>1, <2>3 DEF Rank
  <2> QED  BY <2>2, <2>3
<1> QED  BY <1>1, <1>2, <1>3, <1>4

(* What is enough for one badge to be no better than another: expiry and   *)
(* depletion stay, the flag is the same, and so is being near the end.     *)
LEMMA NoBetter ==
  ASSUME NEW s, NEW t, NEW n, NEW k, NEW w,
         s.enabled = t.enabled,
         Expired(s.expiresAt, n) => Expired(t.expiresAt, k),
         Depleted(s.quota, s.used) => Depleted(t.quota, t.used),
         ~Unlimited(s.expiresAt) /\ s.expiresAt - n <= w
           => ~Unlimited(t.expiresAt) /\ t.expiresAt - k <= w
  PROVE  Rank[Status(t, k, w)] >= Rank[Status(s, n, w)]
<1> DEFINE a == Rank[Status(s, n, w)]
           b == Rank[Status(t, k, w)]
<1> SUFFICES b >= a
  OBVIOUS
<1>1. a \in 0 .. 4 /\ b \in 0 .. 4
  BY RankIs
<1>2. CASE Expired(t.expiresAt, k)
  <2>1. b = 4
    BY <1>2, RankIs
  <2> HIDE DEF a, b
  <2> QED  BY <1>1, <2>1
<1>3. CASE ~Expired(t.expiresAt, k) /\ Depleted(t.quota, t.used)
  <2>1. b = 3 /\ a # 4
    BY <1>3, RankIs
  <2> HIDE DEF a, b
  <2> QED  BY <1>1, <2>1
<1>4. CASE ~Expired(t.expiresAt, k) /\ ~Depleted(t.quota, t.used)
  BY <1>4, RankIs
<1> QED  BY <1>2, <1>3, <1>4

(* A larger use never undoes a depletion, for the same quota.              *)
LEMMA DepletionStays ==
  ASSUME NEW r \in [Emails -> ClientRecord], NEW q \in [Emails -> ClientRecord],
         \A m \in Emails : q[m].totalGB = r[m].totalGB /\ r[m].used <= q[m].used,
         Depleted(FromRecords(r).quota, FromRecords(r).used)
  PROVE  Depleted(FromRecords(q).quota, FromRecords(q).used)
<1>1. \A m \in Emails : r[m].used \in Nat /\ q[m].used \in Nat
  BY DEF ClientRecord
<1>2. UsedOf(r) \in [Emails -> Nat] /\ UsedOf(q) \in [Emails -> Nat]
  BY <1>1 DEF UsedOf
<1>3. \A m \in Emails : UsedOf(r)[m] <= UsedOf(q)[m]
  BY <1>1 DEF UsedOf
<1>4. IsFiniteSet(Emails)
  BY SubscriptionAssumption
<1>5. QuotaOf(q) = QuotaOf(r)
  BY DEF QuotaOf
<1>6. /\ Fold!SumFunction(UsedOf(r)) \in Nat /\ Fold!SumFunction(UsedOf(q)) \in Nat
      /\ Fold!SumFunction(UsedOf(r)) <= Fold!SumFunction(UsedOf(q))
  BY <1>2, <1>3, <1>4, SumsGrow
<1>7. /\ \A m \in Emails : r[m].totalGB \in Nat
      /\ QuotaOf(r) \in [Emails -> Nat]
  <2>1. \A m \in Emails : r[m].totalGB \in Nat
    BY DEF ClientRecord
  <2> QED  BY <2>1 DEF QuotaOf
<1>8. Fold!SumFunction(QuotaOf(r)) \in Nat
  BY <1>4, <1>7, SumsGrow
<1>9. /\ FromRecords(r).quota = Fold!SumFunction(QuotaOf(r))
      /\ FromRecords(q).quota = Fold!SumFunction(QuotaOf(r))
      /\ FromRecords(r).used = Fold!SumFunction(UsedOf(r))
      /\ FromRecords(q).used = Fold!SumFunction(UsedOf(q))
  BY <1>5, WhatStatusSees
<1>10. Fold!SumFunction(QuotaOf(r)) > 0 /\ Fold!SumFunction(UsedOf(r)) >= Fold!SumFunction(QuotaOf(r))
  BY <1>9 DEF Depleted
<1>11. Fold!SumFunction(UsedOf(q)) >= Fold!SumFunction(QuotaOf(r))
  BY <1>6, <1>8, <1>10
<1> QED  BY <1>9, <1>10, <1>11 DEF Depleted

(* No record's traffic is above the bound it counts to, so counting more   *)
(* never lowers it.                                                        *)
Capped == \A m \in Emails : record[m].used <= MaxUsed

LEMMA CappedKept ==
  ASSUME TypeOK, Capped, [Next]_vars
  PROVE  Capped'
<1>1. \A m \in Emails : record[m] \in ClientRecord /\ record[m].used \in Nat
  BY DEF TypeOK, ClientRecord
<1>2. ASSUME NEW plan \in Plans, Renew(plan) PROVE Capped'
  <2>1. \A m \in Emails : record'[m].used = record[m].used
    BY <1>1, <1>2 DEF Renew, ClientRecord
  <2> QED  BY <2>1 DEF Capped
<1>3. ASSUME NEW m \in Emails, FirstUse(m) PROVE Capped'
  <2>1. \A k \in Emails : record'[k].used = record[k].used
    BY <1>1, <1>3 DEF FirstUse, ClientRecord, TypeOK
  <2> QED  BY <2>1 DEF Capped
<1>4. ASSUME NEW m \in Emails, Use(m) PROVE Capped'
  <2>1. record'[m].used <= MaxUsed
    BY <1>1, <1>4, SubscriptionAssumption DEF Use, ClientRecord, TypeOK
  <2>2. \A k \in Emails \ {m} : record'[k].used = record[k].used
    BY <1>1, <1>4 DEF Use, ClientRecord, TypeOK
  <2> QED  BY <2>1, <2>2 DEF Capped
<1>5. CASE Tick \/ UNCHANGED vars
  BY <1>5 DEF Tick, vars, Capped
<1> QED  BY <1>2, <1>3, <1>4, <1>5 DEF Next

(* Tick: the same subscription at a later time.                            *)
LEMMA TickNoBetter ==
  ASSUME TypeOK, Tick
  PROVE  Rank[ShownStatus'] >= Rank[ShownStatus]
<1> DEFINE w == SoonDays * Day
           k == now + 1
<1>1. record' = record /\ now' = k
  BY DEF Tick
<1>2. Sub.expiresAt \in Nat /\ now \in Nat
  BY EarliestSetIs DEF TypeOK, IsEarliest, EarliestSet, Sub
<1>3. ShownStatus = Status(Sub, now, w) /\ ShownStatus' = Status(Sub, k, w)
  BY <1>1 DEF ShownStatus, Sub
<1>4. w \in Nat
  BY SubscriptionAssumption, DayAssumption
<1> HIDE DEF w
<1>5. /\ Expired(Sub.expiresAt, now) => Expired(Sub.expiresAt, k)
      /\ Sub.expiresAt - now <= w => Sub.expiresAt - k <= w
  BY <1>2, <1>4 DEF Expired
<1> HIDE DEF k
<1>6. Rank[Status(Sub, k, w)] >= Rank[Status(Sub, now, w)]
  BY <1>5, NoBetter
<1> QED  BY <1>3, <1>6

(* Use: the same dates and a larger use.                                   *)
LEMMA UseNoBetter ==
  ASSUME TypeOK, Capped, NEW m \in Emails, Use(m)
  PROVE  Rank[ShownStatus'] >= Rank[ShownStatus]
<1> DEFINE w == SoonDays * Day
           s == FromRecords(record)
           q == record'
           t == FromRecords(q)
<1>1. record \in [Emails -> ClientRecord] /\ record[m].used \in Nat /\ now' = now
  BY DEF TypeOK, ClientRecord, Use
<1> DEFINE u == IF record[m].used + UseStep > MaxUsed THEN MaxUsed ELSE record[m].used + UseStep
<1>2. u \in Nat /\ record[m].used <= u
  BY <1>1, SubscriptionAssumption DEF Capped
<1>3. q = [record EXCEPT ![m] = [record[m] EXCEPT !.used = u]]
  BY <1>1 DEF Use
<1> HIDE DEF u, q
<1>4. [record[m] EXCEPT !.used = u] \in ClientRecord
  BY <1>1, <1>2 DEF ClientRecord
<1>5. q \in [Emails -> ClientRecord]
  BY <1>1, <1>3, <1>4
<1>6. \A k \in Emails : /\ q[k].expiryTime = record[k].expiryTime
                        /\ q[k].enable = record[k].enable
                        /\ q[k].totalGB = record[k].totalGB
  BY <1>1, <1>3 DEF ClientRecord
<1>7. \A k \in Emails : record[k].used <= q[k].used
  <2>1. \A k \in Emails : record[k].used \in Nat
    BY <1>1 DEF ClientRecord
  <2>2. q[m].used = u
    BY <1>1, <1>3 DEF ClientRecord
  <2>3. \A k \in Emails \ {m} : q[k] = record[k]
    BY <1>1, <1>3
  <2> QED  BY <1>2, <2>1, <2>2, <2>3
<1>8. IsEarliest(q, EarliestSet(record))
  BY <1>1, <1>6, EarliestSetIs DEF IsEarliest
<1>9. EarliestSet(q) = EarliestSet(record)
  BY <1>5, <1>8, EarliestSetIs, EarliestUnique
<1>10. t.expiresAt = s.expiresAt /\ t.enabled = s.enabled
  BY <1>1, <1>5, <1>6, <1>9, WhatStatusSees
<1>11. Depleted(s.quota, s.used) => Depleted(t.quota, t.used)
  BY <1>1, <1>5, <1>6, <1>7, DepletionStays
<1>12. ShownStatus = Status(s, now, w) /\ ShownStatus' = Status(t, now, w)
  BY <1>1 DEF ShownStatus, Sub, q
<1> HIDE DEF s, t, w
<1>13. Rank[Status(t, now, w)] >= Rank[Status(s, now, w)]
  BY <1>10, <1>11, NoBetter
<1> QED  BY <1>12, <1>13

(* FirstUse: an expiry that has passed stays the earliest, and any other   *)
(* only comes nearer.                                                      *)
LEMMA FirstUseNoBetter ==
  ASSUME TypeOK, NEW m \in Emails, FirstUse(m)
  PROVE  Rank[ShownStatus'] >= Rank[ShownStatus]
<1> DEFINE w == SoonDays * Day
           s == FromRecords(record)
           q == record'
           t == FromRecords(q)
           e == EarliestSet(record)
           f == EarliestSet(q)
           x == now - record[m].expiryTime
<1>1. record \in [Emails -> ClientRecord] /\ record[m].expiryTime \in Int /\ now' = now /\ now \in Nat
  BY DEF TypeOK, ClientRecord, FirstUse
<1>2. x \in Nat /\ x > now /\ record[m].expiryTime < 0
  BY <1>1 DEF FirstUse
<1>3. q = [record EXCEPT ![m] = [record[m] EXCEPT !.expiryTime = x]]
  BY <1>1 DEF FirstUse
<1> HIDE DEF x, q
<1>4. [record[m] EXCEPT !.expiryTime = x] \in ClientRecord
  BY <1>1, <1>2 DEF ClientRecord
<1>5. q \in [Emails -> ClientRecord]
  BY <1>1, <1>3, <1>4
<1>6. \A k \in Emails : /\ q[k].used = record[k].used
                        /\ q[k].enable = record[k].enable
                        /\ q[k].totalGB = record[k].totalGB
                        /\ k # m => q[k].expiryTime = record[k].expiryTime
  BY <1>1, <1>3 DEF ClientRecord
<1>7. q[m].expiryTime = x
  BY <1>1, <1>3 DEF ClientRecord
<1>8. IsEarliest(record, e) /\ IsEarliest(q, f)
  BY <1>1, <1>5, EarliestSetIs
<1> HIDE DEF e, f
<1>9. \A k \in Emails : record[k].expiryTime \in Int
  BY <1>1 DEF ClientRecord
<1>10. e \in Nat /\ f \in Nat /\ f # 0
  <2>1. e \in Nat /\ f \in Nat /\ (f = 0 => q[m].expiryTime <= 0)
    BY <1>8 DEF IsEarliest
  <2>2. x > 0
    BY <1>1, <1>2
  <2> HIDE DEF e, f
  <2> QED  BY <1>7, <2>1, <2>2, <1>2
<1>11. e # 0 => f <= e
  <2>1. SUFFICES ASSUME e # 0 PROVE f <= e
    OBVIOUS
  <2>2. PICK k \in Emails : record[k].expiryTime = e
    BY <1>8, <2>1 DEF IsEarliest
  <2>3. k # m /\ q[k].expiryTime = e /\ e > 0
    BY <1>2, <1>6, <1>10, <2>1, <2>2
  <2> QED  BY <1>8, <1>10, <2>3 DEF IsEarliest
<1>12. ShownStatus = Status(s, now, w) /\ ShownStatus' = Status(t, now, w)
  BY <1>1 DEF ShownStatus, Sub, q
<1>13. s.expiresAt = e /\ t.expiresAt = f /\ t.enabled = s.enabled
  BY <1>1, <1>5, <1>6, WhatStatusSees DEF e, f
<1>14. Depleted(s.quota, s.used) => Depleted(t.quota, t.used)
  <2>1. \A k \in Emails : record[k].used \in Nat
    BY <1>1 DEF ClientRecord
  <2>2. \A k \in Emails : q[k].totalGB = record[k].totalGB /\ record[k].used <= q[k].used
    BY <1>6, <2>1
  <2> QED  BY <1>1, <1>5, <2>2, DepletionStays
<1>15. w \in Int
  BY SubscriptionAssumption, DayAssumption
<1> HIDE DEF s, t, w
<1>16. /\ Expired(s.expiresAt, now) => Expired(t.expiresAt, now)
       /\ ~Unlimited(s.expiresAt) /\ s.expiresAt - now <= w
            => ~Unlimited(t.expiresAt) /\ t.expiresAt - now <= w
  BY <1>1, <1>10, <1>11, <1>13, <1>15 DEF Expired, Unlimited
<1>17. Rank[Status(t, now, w)] >= Rank[Status(s, now, w)]
  BY <1>13, <1>14, <1>16, NoBetter
<1> QED  BY <1>12, <1>17

(* The invariant of the badge holds in every state of every run.           *)
LEMMA CappedAlways == Spec => []Capped
<1>1. Init => Capped
  BY SubscriptionAssumption DEF Init, Capped
<1>2. TypeOK /\ Capped /\ [Next]_vars => Capped'
  BY CappedKept
<1> QED  BY <1>1, <1>2, Typing, PTL DEF Spec

(* Without a renewal the badge only gets worse, for every set of records,  *)
(* every threshold and every length of a day: time, traffic and a delayed  *)
(* start never bring an expired or depleted subscription back.             *)
THEOREM OnlyARenewalImprovesAlways == Spec => OnlyARenewalImproves
<1>1. ASSUME TypeOK, Capped, [Next]_vars
      PROVE  [(\A plan \in Plans : ~Renew(plan)) => Rank[ShownStatus'] >= Rank[ShownStatus]]_vars
  <2> SUFFICES ASSUME \A plan \in Plans : ~Renew(plan), ~ UNCHANGED vars
               PROVE  Rank[ShownStatus'] >= Rank[ShownStatus]
    OBVIOUS
  <2>1. CASE \E m \in Emails : FirstUse(m) \/ Use(m)
    BY <1>1, <2>1, FirstUseNoBetter, UseNoBetter
  <2>2. CASE Tick
    BY <1>1, <2>2, TickNoBetter
  <2> QED  BY <1>1, <2>1, <2>2 DEF Next
<1>2. TypeOK /\ Capped /\ [Next]_vars
        => [(\A plan \in Plans : ~Renew(plan)) => Rank[ShownStatus'] >= Rank[ShownStatus]]_vars
  BY <1>1
<1> QED  BY <1>2, Typing, CappedAlways, PTL DEF Spec, OnlyARenewalImproves
=============================================================================
