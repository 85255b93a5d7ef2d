--------------------------- MODULE SchedulerProofs ---------------------------
(***************************************************************************)
(* What the notification log is good for, for any number of subscriptions  *)
(* and requests, any thresholds, quotas and plans, wherever a pass is cut  *)
(* short.                                                                  *)
(***************************************************************************)
EXTENDS Scheduler, FiniteSetTheorems, TLAPS

-----------------------------------------------------------------------------
(* Thresholds.                                                             *)

(* Rounding up to whole days keeps the order of what is left.              *)
LEMMA CeilDaysMonotone ==
  ASSUME NEW a \in Nat, NEW b \in Nat, a <= b
  PROVE  CeilDays(a) \in Nat /\ CeilDays(a) <= CeilDays(b)
<1>1. Day \in Nat /\ Day > 0
  BY DayAssumption
<1>2. ASSUME NEW n \in Nat
      PROVE  n \div Day \in Nat /\ (n \div Day) * Day <= n /\ n < (n \div Day) * Day + Day
  BY <1>1, SMTT(30)
<1> DEFINE m == a + Day - 1
           n == b + Day - 1
           p == m \div Day
           q == n \div Day
<1>3. m \in Nat /\ n \in Nat /\ m <= n
  BY <1>1
<1>4. /\ p \in Nat /\ p * Day <= m /\ p * Day \in Nat
      /\ q \in Nat /\ n < q * Day + Day /\ q * Day \in Nat
  <2> HIDE DEF m, n
  <2> QED  BY <1>1, <1>2, <1>3
<1>5. p <= q
  <2> HIDE DEF p, q, m, n
  <2> SUFFICES ASSUME p >= q + 1 PROVE FALSE
    BY <1>4
  <2>1. p - q - 1 \in Nat /\ p * Day = q * Day + Day + (p - q - 1) * Day
    BY <1>1, <1>4
  <2>2. (p - q - 1) * Day \in Nat
    BY <1>1, <2>1
  <2> QED  BY <1>1, <1>3, <1>4, <2>1, <2>2
<1> QED  BY <1>4, <1>5 DEF CeilDays

(* A key of kind "expiry" names its level and its expiry.                  *)
LEMMA ExpiryKeyIs ==
  ASSUME NEW s, NEW e, NEW t, NEW k \in ExpiryMessage(s, e, t)
  PROVE  /\ ~Unlimited(e) /\ k = ExpiryKey(s, k.level, e)
         /\ k.owner = s /\ k.kind = "expiry" /\ k.ref[1] = e /\ k.ref = <<e, 0>>
         /\ Expired(e, t) => k.level = 0
         /\ ~Expired(e, t) => k.level \in Chosen(DaysLeft(e, t))
BY DEF ExpiryMessage, ExpiryKey, Key

(* The same expiry looked at later calls for a level that is as near or    *)
(* nearer.                                                                 *)
LEMMA LevelShrinks ==
  ASSUME NEW s, NEW r, NEW e \in Nat, NEW t \in Nat, NEW u \in Nat, t <= u,
         NEW m \in ExpiryMessage(s, e, t), NEW k \in ExpiryMessage(r, e, u)
  PROVE  m.level \in Nat /\ k.level \in Nat /\ k.level <= m.level
<1>1. NotifyDays \subseteq Nat \ {0}
  BY SchedulerAssumption
<1>2. e # 0
  BY ExpiryKeyIs DEF Unlimited
<1>3. CASE e <= t
  BY <1>2, <1>3, ExpiryKeyIs DEF Expired
<1>4. CASE t < e /\ e <= u
  <2>1. k.level = 0
    BY <1>2, <1>4, ExpiryKeyIs DEF Expired
  <2>2. m.level \in Chosen(DaysLeft(e, t))
    BY <1>4, ExpiryKeyIs DEF Expired
  <2>3. m.level \in NotifyDays
    BY <2>2 DEF Chosen
  <2>4. m.level \in Nat
    BY <1>1, <2>3
  <2> QED  BY <2>1, <2>4
<1>5. CASE u < e
  <2>1. /\ DaysLeft(e, t) = CeilDays(e - t) /\ DaysLeft(e, u) = CeilDays(e - u)
        /\ e - t \in Nat /\ e - u \in Nat /\ e - u <= e - t
    BY <1>2, <1>5 DEF DaysLeft, Unlimited
  <2>2. CeilDays(e - u) \in Nat /\ CeilDays(e - t) \in Nat /\ CeilDays(e - u) <= CeilDays(e - t)
    BY <2>1, CeilDaysMonotone
  <2>3. m.level \in Chosen(DaysLeft(e, t)) /\ k.level \in Chosen(DaysLeft(e, u))
    BY <1>5, ExpiryKeyIs DEF Expired
  <2>4. m.level \in NotifyDays /\ CeilDays(e - t) <= m.level
    BY <2>1, <2>3 DEF Chosen
  <2> DEFINE a == CeilDays(e - u)
             b == CeilDays(e - t)
  <2>5. a <= m.level
    <3>1. a \in Nat /\ b \in Nat /\ a <= b /\ b <= m.level /\ m.level \in Nat
      BY <1>1, <2>2, <2>4
    <3> HIDE DEF a, b
    <3> QED  BY <3>1
  <2>6. k.level \in NotifyDays /\ \A d \in NotifyDays : CeilDays(e - u) <= d => k.level <= d
    BY <2>1, <2>3 DEF Chosen
  <2> QED  BY <1>1, <2>4, <2>5, <2>6
<1> QED  BY <1>3, <1>4, <1>5

-----------------------------------------------------------------------------
(* The invariant.                                                          *)

Keys == [owner : Subs \cup {Admin},
         kind : {"expiry", "depleted", "traffic_high", "admin_pending_reminder"},
         level : Nat, ref : Nat \X Nat]
Listing == [expiresAt : Nat, used : Nat]

TypeInv ==
    /\ expiry \in [Subs -> Nat] /\ used \in [Subs -> Nat] /\ now \in Nat
    /\ pass = [at |-> pass.at, now |-> pass.now, list |-> pass.list, left |-> pass.left,
               queue |-> pass.queue, step |-> pass.step]
    /\ pass.at \in {"idle", "visit", "remind"} /\ pass.step \in {"check", "send", "record"}
    /\ pass.now \in Nat /\ pass.left \subseteq Subs /\ pass.queue \in Seq(Keys)
    /\ pass.at # "idle" => pass.list \in [Subs -> Listing] /\ pass.now <= now
    /\ pass.at = "idle" => pass.queue = <<>>
    /\ pass.queue = <<>> => pass.step = "check"
    /\ sent \subseteq Keys
    /\ \A c \in cache : c.list \in [Subs -> Listing]

(* What is accepted is on its way into the log, or was lost on that way,   *)
(* or never set out on it; and between the look-up and the sending the log *)
(* does not learn of it.                                                   *)
LogInv ==
    /\ again \subseteq lost \cup uncounted
    /\ sent \subseteq log \cup lost \cup uncounted \cup (IF At("record") THEN {Current} ELSE {})
    /\ At("send") => Current \notin log

(* A warning was called for at time t.                                     *)
WasDue(k, t) ==
    k.kind = "expiry" => \E s \in Subs, e \in Nat : k \in ExpiryMessage(s, e, t)

(* No pass looks at an expiry with an earlier clock than a pass before it. *)
DueInv ==
    /\ \A i \in DOMAIN pass.queue : WasDue(pass.queue[i], pass.now)
    /\ \A m \in sent : \E t \in Nat : /\ t <= now /\ (pass.at # "idle" => t <= pass.now)
                                      /\ WasDue(m, t)

SInv == TypeInv /\ LogInv /\ DueInv

(* What a subscription or a request calls for are keys of the log, and only *)
(* expiryMessage's are of kind "expiry".                                   *)
LEMMA KeysAre ==
  /\ \A s \in Subs, e \in Nat, t \in Nat : ExpiryMessage(s, e, t) \subseteq Keys
  /\ \A s \in Subs, u \in Nat, t \in Nat :
        TrafficMessage(s, u, t) \subseteq {k \in Keys : k.kind # "expiry"}
  /\ \A id \in Requests, t \in Nat :
        ReminderKey(id, DayOf(t)) \in Keys /\ ReminderKey(id, DayOf(t)).kind # "expiry"
<1>0. Day \in Nat \ {0} /\ Month \in Nat \ {0} /\ Quota \in Nat /\ Requests \subseteq Nat
      /\ NotifyDays \subseteq Nat
  BY DayAssumption, SchedulerAssumption
<1>1. ASSUME NEW t \in Nat PROVE DayOf(t) \in Nat
  BY <1>0 DEF DayOf
<1>2. ASSUME NEW t \in Nat PROVE MonthOf(t) \in Nat
  <2>1. DayOf(t) \in Nat
    BY <1>1
  <2> QED  BY <1>0, <2>1 DEF MonthOf
<1>3. ASSUME NEW s \in Subs, NEW e \in Nat, NEW level \in Nat
      PROVE  ExpiryKey(s, level, e) \in Keys
  BY <1>3 DEF ExpiryKey, Key, Keys
<1>4. \A s \in Subs, e \in Nat, t \in Nat : ExpiryMessage(s, e, t) \subseteq Keys
  BY <1>0, <1>3 DEF ExpiryMessage, Chosen
<1>5. ASSUME NEW s \in Subs, NEW t \in Nat, NEW kind \in {"depleted", "traffic_high"}
      PROVE  TrafficKey(s, kind, MonthOf(t)) \in {k \in Keys : k.kind # "expiry"}
  BY <1>0, <1>2 DEF TrafficKey, Key, Keys
<1>6. \A s \in Subs, u \in Nat, t \in Nat :
        TrafficMessage(s, u, t) \subseteq {k \in Keys : k.kind # "expiry"}
  BY <1>5 DEF TrafficMessage
<1>7. \A id \in Requests, t \in Nat :
        ReminderKey(id, DayOf(t)) \in Keys /\ ReminderKey(id, DayOf(t)).kind # "expiry"
  BY <1>0, <1>1 DEF ReminderKey, Key, Keys
<1> QED  BY <1>4, <1>6, <1>7

(* A list of at most one holds nothing else.                               *)
LEMMA AsListIs ==
  ASSUME NEW S, NEW K \in SUBSET S
  PROVE  AsList(K) \in Seq(S) /\ \A i \in DOMAIN AsList(K) : AsList(K)[i] \in K
BY DEF AsList

(* The first state: nothing sent, nothing recorded, no pass.               *)
LEMMA SInit == Init => SInv
BY SchedulerAssumption DEF Init, SInv, TypeInv, LogInv, DueInv, Resting, At

(* The pass moves on to the next message, as it does with the log row      *)
(* written, lost or not called for.                                        *)
LEMMA SkipOK ==
  ASSUME SInv, Skip, pass.queue # <<>>, UNCHANGED <<expiry, used, now, cache>>,
         sent' \subseteq sent \cup ({Current} \cap uncounted'),
         again' \subseteq lost' \cup uncounted',
         log \subseteq log', lost \subseteq lost', uncounted \subseteq uncounted',
         At("record") => Current \in log' \cup lost'
  PROVE  SInv'
<1>0. Current \in Keys /\ WasDue(Current, pass.now) /\ pass.now \in Nat /\ pass.now <= now
  BY DEF Current, SInv, TypeInv, DueInv
<1>1. /\ pass'.queue = Tail(pass.queue) /\ pass'.step = "check"
      /\ pass'.at = pass.at /\ pass'.now = pass.now /\ pass'.list = pass.list /\ pass'.left = pass.left
      /\ pass' = [at |-> pass'.at, now |-> pass'.now, list |-> pass'.list, left |-> pass'.left,
                  queue |-> pass'.queue, step |-> pass'.step]
  BY DEF Skip, SInv, TypeInv
<1>2. /\ Tail(pass.queue) \in Seq(Keys) /\ pass.at # "idle"
      /\ \A i \in DOMAIN Tail(pass.queue) :
            i + 1 \in DOMAIN pass.queue /\ Tail(pass.queue)[i] = pass.queue[i + 1]
  BY DEF SInv, TypeInv
<1>3. TypeInv'
  BY <1>0, <1>1, <1>2 DEF SInv, TypeInv
<1>4. LogInv'
  BY <1>1 DEF SInv, LogInv, At
<1>5. DueInv'
  <2>1. \A k, v : WasDue(k, v)' = WasDue(k, v)
    BY DEF WasDue
  <2>2. ASSUME NEW m \in sent'
        PROVE  \E v \in Nat : v <= now /\ (pass.at # "idle" => v <= pass.now) /\ WasDue(m, v)
    BY <1>0, <2>2 DEF SInv, DueInv
  <2>3. \A i \in DOMAIN pass'.queue : WasDue(pass'.queue[i], pass'.now)
    BY <1>1, <1>2 DEF SInv, DueInv
  <2> QED  BY <1>1, <2>1, <2>2, <2>3 DEF DueInv
<1> QED  BY <1>3, <1>4, <1>5 DEF SInv

(* A pass that begins, goes on to other messages, or ends.                 *)
LEMMA QueueOK ==
  ASSUME SInv, Between \/ pass.at = "idle",
         UNCHANGED <<panel, now, log, history>>, cache' \subseteq cache,
         NEW a \in {"visit", "remind"}, NEW t \in Nat, NEW l \in [Subs -> Listing],
         NEW f \in SUBSET Subs, NEW q \in Seq(Keys),
         \A i \in DOMAIN q : WasDue(q[i], t),
         t <= now, pass.at # "idle" => t = pass.now, pass.at = "idle" => t = now,
         pass' = [at |-> a, now |-> t, list |-> l, left |-> f, queue |-> q, step |-> "check"]
  PROVE  SInv'
<1>1. /\ pass'.queue = q /\ pass'.step = "check" /\ pass'.at = a /\ pass'.now = t
      /\ pass'.list = l /\ pass'.left = f
  OBVIOUS
<1>2. ~At("record") /\ ~At("record")' /\ ~At("send")'
  BY <1>1 DEF SInv, TypeInv, At, Between
<1>3. TypeInv'
  BY <1>1 DEF SInv, TypeInv, panel, history
<1>4. LogInv'
  BY <1>2 DEF SInv, LogInv, history
<1>5. DueInv'
  <2>1. \A i \in DOMAIN pass'.queue : WasDue(pass'.queue[i], pass'.now)
    BY <1>1
  <2>2. ASSUME NEW m \in sent'
        PROVE  \E v \in Nat : v <= now' /\ (pass'.at # "idle" => v <= pass'.now) /\ WasDue(m, v)
    <3>1. PICK v \in Nat : v <= now /\ (pass.at # "idle" => v <= pass.now) /\ WasDue(m, v)
      BY <2>2 DEF SInv, DueInv, history
    <3> QED  BY <1>1, <3>1
  <2>3. \A k, v : WasDue(k, v)' = WasDue(k, v)
    BY DEF WasDue
  <2> QED  BY <2>1, <2>2, <2>3 DEF DueInv
<1> QED  BY <1>3, <1>4, <1>5 DEF SInv

(* A pass takes the clock as it is, never an earlier one than a pass before. *)
LEMMA StartPassOK == ASSUME SInv, StartPass PROVE SInv'
<1>1. PICK c \in {Snapshot} \cup cache :
        pass' = [Resting EXCEPT !.at = "visit", !.now = now, !.left = Subs, !.list = c.list]
  BY DEF StartPass
<1>2. c.list \in [Subs -> Listing] /\ now \in Nat
  BY DEF SInv, TypeInv, Listing, Snapshot
<1>3. pass' = [at |-> "visit", now |-> now, list |-> c.list, left |-> Subs,
               queue |-> <<>>, step |-> "check"]
  BY <1>1 DEF Resting
<1>4. <<>> \in Seq(Keys) /\ \A i \in DOMAIN <<>> : WasDue(<<>>[i], now)
  OBVIOUS
<1>5. /\ pass.at = "idle" /\ UNCHANGED <<panel, now, log, history>> /\ now <= now
      /\ cache' \subseteq cache
      /\ "visit" \in {"visit", "remind"} /\ Subs \in SUBSET Subs
  BY <1>2 DEF StartPass
<1> QED  BY <1>2, <1>3, <1>4, <1>5, QueueOK

(* A subscription is looked at with the copies and the clock of the pass.  *)
LEMMA VisitOK == ASSUME SInv, NEW s \in Subs, Visit(s) PROVE SInv'
<1> DEFINE x == AsList(ExpiryMessage(s, pass.list[s].expiresAt, pass.now))
           y == AsList(TrafficMessage(s, pass.list[s].used, pass.now))
<1>1. /\ pass.at = "visit" /\ Between
      /\ UNCHANGED <<panel, now, log, history>> /\ cache' \subseteq cache
      /\ pass.now \in Nat /\ pass.now <= now /\ pass.list \in [Subs -> Listing]
      /\ pass.list[s].expiresAt \in Nat /\ pass.list[s].used \in Nat
      /\ pass.step = "check"
  BY DEF Visit, SInv, TypeInv, Listing, Between, world, panel
<1>2. /\ x \in Seq(Keys)
      /\ \A i \in DOMAIN x : x[i] \in ExpiryMessage(s, pass.list[s].expiresAt, pass.now)
  BY <1>1, KeysAre, AsListIs
<1>3. y \in Seq(Keys) /\ \A i \in DOMAIN y : y[i].kind # "expiry"
  BY <1>1, KeysAre, AsListIs
<1>4. PICK q \in {x \o y, <<>>} :
          pass' = [at |-> "visit", now |-> pass.now, list |-> pass.list, left |-> pass.left \ {s},
                   queue |-> q, step |-> "check"]
  <2>1. PICK has : pass' = [pass EXCEPT !.left = @ \ {s}, !.queue = IF has THEN x \o y ELSE <<>>]
    BY DEF Visit
  <2> HIDE DEF x, y
  <2> QED  BY <1>1, <2>1 DEF SInv, TypeInv
<1>5. q \in Seq(Keys) /\ \A i \in DOMAIN q : WasDue(q[i], pass.now)
  <2>1. /\ \A i \in DOMAIN x : WasDue(x[i], pass.now)
        /\ \A i \in DOMAIN y : WasDue(y[i], pass.now)
    BY <1>1, <1>2, <1>3 DEF WasDue
  <2> HIDE DEF x, y
  <2>2. CASE q = x \o y
    <3>1. x \o y \in Seq(Keys)
      BY <1>2, <1>3
    <3>2. ASSUME NEW i \in DOMAIN (x \o y)
          PROVE  \/ i \in DOMAIN x /\ (x \o y)[i] = x[i]
                 \/ i - Len(x) \in DOMAIN y /\ (x \o y)[i] = y[i - Len(x)]
      BY <1>2, <1>3
    <3> QED  BY <2>1, <2>2, <3>1, <3>2
  <2>3. CASE q = <<>>
    BY <2>3
  <2> QED  BY <1>4, <2>2, <2>3
<1>6. pass.left \ {s} \subseteq Subs
  BY DEF SInv, TypeInv
<1> QED  BY <1>1, <1>4, <1>5, <1>6, QueueOK

(* Reminders are of no kind "expiry".                                      *)
LEMMA ListOverdueOK == ASSUME SInv, ListOverdue PROVE SInv'
<1>1. /\ pass.at = "visit" /\ Between /\ pass.left = {}
      /\ UNCHANGED <<panel, now, log, history>> /\ cache' \subseteq cache
      /\ pass.now \in Nat /\ pass.now <= now /\ pass.list \in [Subs -> Listing]
      /\ pass.step = "check"
  BY DEF ListOverdue, SInv, TypeInv, Between, world, panel
<1>0. PICK ids \in SUBSET Requests : \E rows \in OldestFirst(ids) :
        pass' = [pass EXCEPT !.at = "remind",
                   !.queue = [i \in DOMAIN rows |-> ReminderKey(rows[i], DayOf(pass.now))]]
  BY DEF ListOverdue, Overdue
<1>2. PICK rows \in OldestFirst(ids) :
        pass' = [pass EXCEPT !.at = "remind",
                   !.queue = [i \in DOMAIN rows |-> ReminderKey(rows[i], DayOf(pass.now))]]
  BY <1>0
<1> DEFINE q == [i \in DOMAIN rows |-> ReminderKey(rows[i], DayOf(pass.now))]
           n == Cardinality(ids)
<1>3. n \in Nat
  BY SchedulerAssumption, FS_Subset, FS_CardinalityType
<1>4. rows \in [1 .. n -> ids]
  BY DEF OldestFirst
<1>5. \A i \in 1 .. n : q[i] \in Keys /\ q[i].kind # "expiry"
  BY <1>1, <1>4, KeysAre
<1>6. q \in [1 .. n -> Keys]
  BY <1>4, <1>5
<1>7. pass' = [at |-> "remind", now |-> pass.now, list |-> pass.list, left |-> {},
               queue |-> q, step |-> "check"]
  <2> HIDE DEF q
  <2>1. pass' = [pass EXCEPT !.at = "remind", !.queue = q]
    BY <1>2 DEF q
  <2> QED  BY <1>1, <2>1 DEF SInv, TypeInv
<1> HIDE DEF q, n
<1>8. q \in Seq(Keys) /\ \A i \in DOMAIN q : WasDue(q[i], pass.now)
  BY <1>3, <1>5, <1>6 DEF WasDue
<1> QED  BY <1>1, <1>7, <1>8, QueueOK

(* The pass ends, or is cut short; what was accepted and is not in the log *)
(* is lost.                                                                *)
LEMMA RestOK == ASSUME SInv, EndPass \/ Crash PROVE SInv'
<1>1. /\ pass' = Resting /\ UNCHANGED <<panel, now, log, sent, again, uncounted>>
      /\ lost \subseteq lost' /\ cache' \subseteq cache
      /\ At("record") => Current \in lost'
  BY DEF EndPass, Crash, history, world, panel, Between, At
<1>2. /\ pass'.at = "idle" /\ pass'.queue = <<>> /\ pass'.step = "check" /\ pass'.now = 0
      /\ pass'.left = {}
      /\ pass' = [at |-> pass'.at, now |-> pass'.now, list |-> pass'.list, left |-> pass'.left,
                  queue |-> pass'.queue, step |-> pass'.step]
  BY <1>1 DEF Resting
<1>3. TypeInv'
  BY <1>1, <1>2 DEF SInv, TypeInv, panel
<1>4. LogInv'
  BY <1>1, <1>2 DEF SInv, LogInv, At
<1>5. DueInv'
  BY <1>1, <1>2 DEF SInv, DueInv, WasDue
<1> QED  BY <1>3, <1>4, <1>5 DEF SInv

(* The next message: looked up, sent, recorded.                            *)
LEMMA DeliverOK == ASSUME SInv, Deliver PROVE SInv'
<1>0. /\ pass.queue # <<>> /\ Current \in Keys /\ WasDue(Current, pass.now)
      /\ pass.at # "idle" /\ pass.now \in Nat /\ pass.now <= now
  BY DEF Deliver, Current, SInv, TypeInv, DueInv
<1>1. CASE AlreadySent(Current) \/ SendRefused(Current)
  BY <1>0, <1>1, SkipOK DEF AlreadySent, SendRefused, At, SInv, LogInv, history, world, panel
<1>2. CASE RecordNotification(Current) \/ RecordFailed(Current)
  BY <1>0, <1>2, SkipOK DEF RecordNotification, RecordFailed, SInv, LogInv, history, world, panel
<1>4. CASE SendUncounted(Current)
  <2>1. /\ Skip /\ UNCHANGED <<expiry, used, now, cache, log, lost>> /\ ~At("record")
        /\ sent' = sent \cup {Current} /\ again' = again \cup ({Current} \cap sent)
        /\ uncounted' = uncounted \cup {Current}
    BY <1>4 DEF SendUncounted, panel, At
  <2>2. again' \subseteq lost' \cup uncounted'
    BY <2>1 DEF SInv, LogInv
  <2> QED  BY <1>0, <2>1, <2>2, SkipOK
<1>3. CASE NotYetSent(Current) \/ SendAccepted(Current)
  <2> DEFINE step == IF NotYetSent(Current) THEN "send" ELSE "record"
  <2>1. pass' = [pass EXCEPT !.step = step] /\ step \in {"send", "record"}
        /\ UNCHANGED <<world, log, lost, uncounted>>
    BY <1>3 DEF NotYetSent, SendAccepted, At, history
  <2> HIDE DEF step
  <2>2. /\ pass'.queue = pass.queue /\ pass'.step = step
        /\ pass'.at = pass.at /\ pass'.now = pass.now /\ pass'.list = pass.list /\ pass'.left = pass.left
        /\ pass' = [at |-> pass'.at, now |-> pass'.now, list |-> pass'.list, left |-> pass'.left,
                    queue |-> pass'.queue, step |-> pass'.step]
    BY <2>1 DEF SInv, TypeInv
  <2>3. Current' = Current
    BY <2>2 DEF Current
  <2>4. sent' \subseteq sent \cup {Current} /\ sent \subseteq sent'
    BY <1>3 DEF NotYetSent, SendAccepted, history
  <2>5. TypeInv'
    BY <1>0, <2>1, <2>2, <2>4 DEF SInv, TypeInv, world
  <2>6. LogInv'
    <3>1. CASE NotYetSent(Current)
      <4>1. Current \notin log /\ UNCHANGED <<sent, again, lost, log, uncounted>> /\ ~At("record")
        BY <3>1 DEF NotYetSent, history, At
      <4> QED  BY <2>3, <4>1 DEF SInv, LogInv
    <3>2. CASE SendAccepted(Current)
      <4>1. /\ At("send") /\ sent' = sent \cup {Current}
            /\ again' = again \cup ({Current} \cap sent) /\ pass'.step = "record"
        BY <3>2, <2>2 DEF SendAccepted, SInv, TypeInv
      <4>2. At("record")' /\ ~At("send")' /\ ~At("record")
        BY <1>0, <2>2, <4>1 DEF At
      <4>3. Current \in sent => Current \in lost \cup uncounted
        BY <4>1, <4>2 DEF SInv, LogInv
      <4> QED  BY <2>1, <2>3, <4>1, <4>2, <4>3 DEF SInv, LogInv
    <3> QED  BY <1>3, <3>1, <3>2
  <2>7. DueInv'
    <3>1. \A k, v : WasDue(k, v)' = WasDue(k, v)
      BY DEF WasDue
    <3>2. ASSUME NEW m \in sent'
          PROVE  \E v \in Nat : v <= now /\ (pass.at # "idle" => v <= pass.now) /\ WasDue(m, v)
      BY <1>0, <2>4, <3>2 DEF SInv, DueInv
    <3> QED  BY <2>1, <2>2, <3>1, <3>2 DEF SInv, DueInv, world
  <2> QED  BY <2>5, <2>6, <2>7 DEF SInv
<1> QED  BY <1>1, <1>2, <1>3, <1>4 DEF Deliver

(* Renewals, traffic, devices, requests and time.                          *)
LEMMA WorldOK == ASSUME SInv, World PROVE SInv'
<1>1. UNCHANGED <<log, pass, history>> /\ now' \in Nat /\ now <= now'
  BY DEF World, Extend, Download, Toggle, Apply, Settle, Refill, Tick, SInv, TypeInv, history
<1>2. expiry' \in [Subs -> Nat]
  <2>1. CASE UNCHANGED expiry
    BY <2>1 DEF SInv, TypeInv
  <2>2. ASSUME NEW s \in Subs, NEW d \in Plans,
               expiry' = [expiry EXCEPT ![s] = expiry[s] + Day * DaysToAdd(d, expiry[s], now)]
        PROVE  expiry' \in [Subs -> Nat]
    <3>1. DaysToAdd(d, expiry[s], now) \in Nat
      <4>1. d \in Nat /\ expiry[s] \in Nat /\ now \in Nat
        BY SchedulerAssumption DEF SInv, TypeInv
      <4>2. ASSUME ~(expiry[s] > now) PROVE now - expiry[s] \in Nat /\ CeilDays(now - expiry[s]) \in Nat
        <5>1. now - expiry[s] \in Nat
          BY <4>1, <4>2
        <5> QED  BY <5>1, CeilDaysMonotone
      <4> QED  BY <4>1, <4>2 DEF DaysToAdd
    <3>2. Day * DaysToAdd(d, expiry[s], now) \in Nat /\ expiry[s] \in Nat
      BY <3>1, DayAssumption DEF SInv, TypeInv
    <3> QED  BY <2>2, <3>2 DEF SInv, TypeInv
  <2> QED  BY <2>1, <2>2 DEF World, Extend, Download, Toggle, Apply, Settle, Refill, Tick, panel
<1>3. used' \in [Subs -> Nat]
  <2>0. used \in [Subs -> Nat] /\ UsedLevels \subseteq Nat
    BY SchedulerAssumption DEF SInv, TypeInv
  <2>1. CASE UNCHANGED used
    BY <2>0, <2>1
  <2>2. CASE \E s \in Subs : Download(s)
    BY <2>0, <2>2 DEF Download
  <2>3. CASE Tick
    BY <2>0, <2>3 DEF Tick
  <2> QED  BY <2>1, <2>2, <2>3 DEF World, Extend, Toggle, Apply, Settle, Refill, panel
<1>7. \A c \in cache' : c.list \in [Subs -> Listing]
  <2>1. Snapshot.list \in [Subs -> Listing]
    BY DEF SInv, TypeInv, Listing, Snapshot
  <2>2. cache' \subseteq cache \cup {Snapshot}
    BY DEF World, Extend, Download, Toggle, Apply, Settle, Refill, Tick
  <2> QED  BY <2>1, <2>2 DEF SInv, TypeInv
<1>4. TypeInv'
  BY <1>1, <1>2, <1>3, <1>7 DEF SInv, TypeInv, history
<1>5. LogInv'
  BY <1>1 DEF SInv, LogInv, At, Current, history
<1>6. DueInv'
  <2>1. \A k, v : WasDue(k, v)' = WasDue(k, v)
    BY DEF WasDue
  <2>2. now \in Nat
    BY DEF SInv, TypeInv
  <2>3. ASSUME NEW m \in sent
        PROVE  \E v \in Nat : v <= now' /\ (pass.at # "idle" => v <= pass.now) /\ WasDue(m, v)
    <3>1. PICK v \in Nat : v <= now /\ (pass.at # "idle" => v <= pass.now) /\ WasDue(m, v)
      BY DEF SInv, DueInv
    <3> QED  BY <1>1, <2>2, <3>1
  <2> QED  BY <1>1, <2>1, <2>3 DEF SInv, DueInv, history
<1> QED  BY <1>4, <1>5, <1>6 DEF SInv

(* No step of a pass or of the world breaks the invariant.                 *)
LEMMA SStep == SInv /\ [Next]_vars => SInv'
<1> SUFFICES ASSUME SInv, [Next]_vars PROVE SInv'
  OBVIOUS
<1>1. CASE UNCHANGED vars
  <2>1. UNCHANGED <<expiry, used, now, cache, pass, log, sent, again, lost, uncounted>>
    BY <1>1 DEF vars
  <2> QED  BY <2>1 DEF SInv, TypeInv, LogInv, DueInv, WasDue, At, Current
<1> QED
  BY <1>1, StartPassOK, VisitOK, ListOverdueOK, RestOK, DeliverOK, WorldOK DEF Next, PassStep

(* The invariant holds of every behaviour.                                 *)
LEMMA SInvAlways == Spec => []SInv
BY SInit, SStep, PTL DEF Spec

(* Every state has its types; a pass in hand never runs ahead of the clock *)
(* and a queue is only worked on during a pass.                            *)
THEOREM Typing == Spec => []TypeInv
BY SInvAlways, PTL DEF SInv

(* However passes, crashes, lost rows, renewals and devices interleave, a  *)
(* message sent a second time is one whose log row was lost, or that no    *)
(* endpoint counted (RepeatsExplained of the runs).                        *)
THEOREM RepeatsExplainedAlways == Spec => []RepeatsExplained
<1>1. SInv => RepeatsExplained
  BY DEF SInv, LogInv, RepeatsExplained
<1> QED  BY <1>1, SInvAlways, PTL

(* For any thresholds and any length of a day, the warnings of one expiry  *)
(* only get more urgent (UrgencyGrows of the runs).                        *)
THEOREM UrgencyGrowsAlways == Spec => UrgencyGrows
<1>1. ASSUME SInv, [Next]_vars, NEW k \in sent' \ sent, k.kind = "expiry",
             NEW m \in sent, m.kind = "expiry", m.owner = k.owner, m.ref = k.ref
      PROVE  m.level > k.level
  <2>1. k = Current /\ pass.queue # <<>> /\ pass.at # "idle" /\ pass.now \in Nat
    BY <1>1 DEF Next, PassStep, StartPass, Visit, ListOverdue, EndPass, Deliver, AlreadySent,
         NotYetSent, SendAccepted, SendUncounted, SendRefused, RecordNotification,
         RecordFailed, Crash, World, Extend, Download, Toggle, Apply, Settle, Refill, Tick, history, vars, SInv, TypeInv
  <2>2. PICK s \in Subs, e \in Nat : k \in ExpiryMessage(s, e, pass.now)
    BY <1>1, <2>1 DEF SInv, TypeInv, DueInv, WasDue, Current
  <2>3. PICK t \in Nat, r \in Subs, f \in Nat : t <= pass.now /\ m \in ExpiryMessage(r, f, t)
    BY <1>1, <2>1 DEF SInv, DueInv, WasDue
  <2>4. r = s /\ f = e
    BY <1>1, <2>2, <2>3, ExpiryKeyIs
  <2>5. m.level \in Nat /\ k.level \in Nat /\ k.level <= m.level
    BY <2>1, <2>2, <2>3, <2>4, LevelShrinks
  <2>6. m.level # k.level
    BY <1>1, <2>2, <2>3, <2>4, ExpiryKeyIs
  <2> QED  BY <2>5, <2>6
<1>2. SInv /\ [Next]_vars =>
        [\A k \in sent' \ sent :
            k.kind = "expiry" =>
               \A m \in sent :
                  (m.kind = "expiry" /\ m.owner = k.owner /\ m.ref = k.ref)
                     => m.level > k.level]_vars
  BY <1>1
<1> QED  BY <1>2, SInvAlways, PTL DEF Spec, UrgencyGrows
=============================================================================
