------------------------------ MODULE Scheduler ------------------------------
(***************************************************************************)
(* The periodic checker, internal/notify/scheduler.go.  One goroutine runs *)
(* passes; a pass works on one copy of the panel's list, which may come    *)
(* from the cache of the panel client, and on one later reading of the     *)
(* clock.  Between its database and network calls subscriptions are        *)
(* renewed, devices come and go, requests are resolved and the process may *)
(* stop.  The log is the notifications table, whose unique key is the      *)
(* whole record modelled here.                                             *)
(*                                                                         *)
(* The panel (expiry, used) and the requests are the environment, reduced  *)
(* to what a pass reads of them; the cache is PanelCache, reduced to the   *)
(* age of what it answers.  sent, again, lost and uncounted are history.   *)
(***************************************************************************)
EXTENDS Domain, FiniteSets, Sequences

CONSTANTS
    Subs,          \* subscription ids
    Requests,      \* renewal request ids
    NotifyDays,    \* NOTIFY_DAYS
    TrafficPct,    \* NOTIFY_TRAFFIC_PCT
    Quota,         \* every subscription's quota; 0 is no quota
    UsedLevels,    \* the amounts of traffic a subscription may have used
    InitExpiry,    \* sub -> its first expiry on the panel, 0 for never
    Plans,         \* the days a renewal may buy
    Month,         \* days in a month
    ListAge,       \* how old the list may be when the pass reads the clock:
                   \* the cache's TTL and a call, in ticks
    MaxNow,        \* bound on the clock
    MaxExpiry,     \* bound on the expiries renewals reach
    Faults,        \* a subset of FaultKinds
    Admin          \* the owner of an admin reminder, the empty sub_id

(* push: no endpoint takes the message.  answer: one does, and its answer  *)
(* does not arrive in time.  silent: one does, and is dropped because its  *)
(* device has confirmed nothing for too long (Push).                       *)
FaultKinds == {"db", "push", "answer", "silent", "crash"}

ASSUME SchedulerAssumption ==
    /\ Requests \subseteq Nat /\ IsFiniteSet(Requests)
    /\ NotifyDays \subseteq Nat \ {0} /\ IsFiniteSet(NotifyDays)
    /\ TrafficPct \in 1 .. 100
    /\ Quota \in Nat /\ UsedLevels \subseteq Nat
    /\ InitExpiry \in [Subs -> Nat]
    /\ Plans \subseteq Nat \ {0}
    /\ Month \in Nat \ {0} /\ ListAge \in Nat
    /\ MaxNow \in Nat /\ MaxExpiry \in Nat
    /\ Faults \subseteq FaultKinds
    /\ Admin \notin Subs

VARIABLES
    expiry, used,   \* the panel: sub -> expiryTime, traffic used
    endpoint,       \* sub -> the table has a push subscription for it
    request,        \* renewal_requests: id -> [status, createdAt]
    now,
    cache,          \* the panel's list as somebody read it, [list, at], while
                    \* it is answered to others: a set of at most one
    log,            \* notifications: the keys recorded
    pass,           \* RunOnce's progress
    sent,           \* keys some push service accepted a message for
    again,          \* keys a second message was accepted for
    lost,           \* keys accepted and counted whose log row was not written
    uncounted       \* keys accepted by no endpoint that counts

panel == <<expiry, used>>
world == <<expiry, used, endpoint, request, now, cache>>
history == <<sent, again, lost, uncounted>>
vars == <<expiry, used, endpoint, request, now, cache, log, pass,
          sent, again, lost, uncounted>>

(* (sub_id, kind, ref).  level tells the thresholds of one kind apart. *)
Key(owner, kind, level, ref) ==
    [owner |-> owner, kind |-> kind, level |-> level, ref |-> ref]

(* level 0 is kind "expired", level d is "expiry_<d>d"; ref is the expiry. *)
ExpiryKey(s, level, expiresAt) == Key(s, "expiry", level, <<expiresAt, 0>>)
TrafficKey(s, kind, month) == Key(s, kind, 0, <<Quota, month>>)
ReminderKey(id, day) == Key(Admin, "admin_pending_reminder", 0, <<id, day>>)

DayOf(t) == t \div Day
MonthOf(t) == DayOf(t) \div Month

-----------------------------------------------------------------------------
(* What a subscription calls for, as sets of at most one key.              *)

(* Thresholds are tried in descending order and the last match wins. *)
Chosen(daysLeft) ==
    LET passed == {d \in NotifyDays : daysLeft <= d}
    IN  {d \in passed : \A x \in passed : d <= x}

(* Mutant: expiryMessage's comment taken by its words, "picks the most     *)
(* urgent unsent threshold": the code does not look at what was sent.      *)
MostUrgentUnsent(s, expiresAt, t) ==
    LET open == {d \in NotifyDays : /\ DaysLeft(expiresAt, t) <= d
                                    /\ ExpiryKey(s, d, expiresAt) \notin log}
    IN  IF Unlimited(expiresAt) THEN {}
        ELSE IF Expired(expiresAt, t) THEN {ExpiryKey(s, 0, expiresAt)}
        ELSE {ExpiryKey(s, d, expiresAt) : d \in {x \in open : \A y \in open : x <= y}}

(* expiryMessage. *)
ExpiryMessage(s, expiresAt, t) ==
    IF Unlimited(expiresAt) THEN {}
    ELSE IF Expired(expiresAt, t) THEN {ExpiryKey(s, 0, expiresAt)}
    ELSE {ExpiryKey(s, d, expiresAt) : d \in Chosen(DaysLeft(expiresAt, t))}

(* trafficMessage. *)
TrafficMessage(s, u, t) ==
    IF Quota = 0 THEN {}
    ELSE IF Depleted(Quota, u) THEN {TrafficKey(s, "depleted", MonthOf(t))}
    ELSE IF TrafficPercent(Quota, u) >= TrafficPct
         THEN {TrafficKey(s, "traffic_high", MonthOf(t))}
    ELSE {}

(* remindAdmins: requests pending for more than adminRemindAge. *)
Overdue == {id \in Requests : /\ request[id].status = "pending"
                              /\ request[id].createdAt < pass.now - Day}

(* The orders the database may list them in. *)
OldestFirst(ids) ==
    {rows \in [1 .. Cardinality(ids) -> ids] :
        \A i, j \in DOMAIN rows : i < j =>
            /\ rows[i] # rows[j]
            /\ request[rows[i]].createdAt <= request[rows[j]].createdAt}

(* The list of a set of at most one. *)
AsList(keys) == IF keys = {} THEN <<>> ELSE <<CHOOSE k \in keys : TRUE>>

-----------------------------------------------------------------------------
(* The pass.  "visit": going through the listed subscriptions; "remind":   *)
(* through the overdue requests.  queue holds the messages to deliver,     *)
(* step says where deliver is with the first of them.                      *)

Resting == [at |-> "idle", now |-> 0, list |-> <<>>, left |-> {},
            queue |-> <<>>, step |-> "check"]

Between == pass.queue = <<>>
Current == Head(pass.queue)
At(step) == pass.queue # <<>> /\ pass.step = step
Skip == pass' = [pass EXCEPT !.queue = Tail(@), !.step = "check"]

(* What the panel would answer now. *)
Snapshot == [list |-> [s \in Subs |-> [expiresAt |-> expiry[s], used |-> used[s]]],
             at |-> now]

(* ListClients, from the panel or from the cache, and now() after it; a    *)
(* failed list ends the pass before it begins.  No later pass is answered  *)
(* with the same list: POLL_INTERVAL is not shorter than the TTL.          *)
StartPass ==
    /\ pass.at = "idle"
    /\ \E c \in {Snapshot} \cup cache :
         pass' = [Resting EXCEPT !.at = "visit", !.now = now, !.left = Subs,
                    !.list = c.list]
    /\ cache' = {}
    /\ UNCHANGED <<panel, endpoint, request, now, log, history>>

(* The next subscription: HasPushSubscription, then its messages. *)
Visit(s) ==
    /\ pass.at = "visit" /\ Between /\ s \in pass.left
    /\ LET due == AsList(ExpiryMessage(s, pass.list[s].expiresAt, pass.now))
                  \o AsList(TrafficMessage(s, pass.list[s].used, pass.now))
       IN  \E has \in {endpoint[s]} \cup IF "db" \in Faults THEN {FALSE} ELSE {} :
             pass' = [pass EXCEPT !.left = @ \ {s},
                                  !.queue = IF has THEN due ELSE <<>>]
    /\ UNCHANGED <<world, log, history>>

(* ListPendingRenewalsBefore; its failure leaves nothing to remind of. *)
ListOverdue ==
    /\ pass.at = "visit" /\ Between /\ pass.left = {}
    /\ \E ids \in {Overdue} \cup IF "db" \in Faults THEN {{}} ELSE {} :
         \E rows \in OldestFirst(ids) :
             pass' = [pass EXCEPT !.at = "remind",
                        !.queue = [i \in DOMAIN rows |-> ReminderKey(rows[i], DayOf(pass.now))]]
    /\ UNCHANGED <<world, log, history>>

EndPass ==
    /\ pass.at = "remind" /\ Between
    /\ pass' = Resting
    /\ UNCHANGED <<world, log, history>>

(* alreadySent; a failed lookup counts as sent. *)
AlreadySent(k) ==
    /\ At("check") /\ k = Current
    /\ k \in log \/ "db" \in Faults
    /\ Skip
    /\ UNCHANGED <<world, log, history>>

(* Mutant: the log is not consulted. *)
SendAnyway(k) ==
    /\ At("check") /\ k = Current
    /\ pass' = [pass EXCEPT !.step = "send"]
    /\ UNCHANGED <<world, log, history>>

NotYetSent(k) ==
    /\ At("check") /\ k = Current
    /\ k \notin log
    /\ pass' = [pass EXCEPT !.step = "send"]
    /\ UNCHANGED <<world, log, history>>

(* SendToSubID or SendToAdmins.  At least one endpoint took it ... *)
SendAccepted(k) ==
    /\ At("send") /\ k = Current
    /\ k.owner # Admin => endpoint[k.owner]
    /\ pass' = [pass EXCEPT !.step = "record"]
    /\ sent' = sent \cup {k}
    /\ again' = again \cup ({k} \cap sent)
    /\ UNCHANGED <<world, log, lost, uncounted>>

(* The devices once the owner's last endpoint has been dropped. *)
Without(owner) == [s \in Subs |-> endpoint[s] /\ s # owner]

(* ... or it took it and does not count, because the answer came too late  *)
(* or the endpoint was dropped as silent: Sent is 0 and no row is written. *)
SendUncounted(k) ==
    /\ At("send") /\ k = Current
    /\ k.owner # Admin => endpoint[k.owner]
    /\ \/ "answer" \in Faults /\ UNCHANGED endpoint
       \/ "silent" \in Faults /\ endpoint' \in {endpoint, Without(k.owner)}
    /\ sent' = sent \cup {k}
    /\ again' = again \cup ({k} \cap sent)
    /\ uncounted' = uncounted \cup {k}
    /\ Skip
    /\ UNCHANGED <<panel, request, now, cache, log, lost>>

(* Mutant: the log row is written whether or not anybody took the message. *)
RefusedButRecorded(k) ==
    /\ At("send") /\ k = Current
    /\ "push" \in Faults \/ (k.owner # Admin /\ ~endpoint[k.owner])
    /\ pass' = [pass EXCEPT !.step = "record"]
    /\ UNCHANGED <<world, log, history>>

(* ... or none did, or none is left: the next pass tries again.  An        *)
(* endpoint that is gone, or fails once too often, is dropped. *)
SendRefused(k) ==
    /\ At("send") /\ k = Current
    /\ "push" \in Faults \/ (k.owner # Admin /\ ~endpoint[k.owner])
    /\ endpoint' \in {endpoint, Without(k.owner)}
    /\ Skip
    /\ UNCHANGED <<panel, request, now, cache, log, history>>

(* RecordNotification: INSERT OR IGNORE. *)
RecordNotification(k) ==
    /\ At("record") /\ k = Current
    /\ log' = log \cup {k}
    /\ Skip
    /\ UNCHANGED <<world, history>>

RecordFailed(k) ==
    /\ "db" \in Faults
    /\ At("record") /\ k = Current
    /\ lost' = lost \cup {k}
    /\ Skip
    /\ UNCHANGED <<world, log, sent, again, uncounted>>

(* The process stops, or ctx is done; the log survives, the cache does not. *)
Crash ==
    /\ "crash" \in Faults
    /\ pass.at # "idle"
    /\ pass' = Resting
    /\ lost' = IF At("record") THEN lost \cup {Current} ELSE lost
    /\ cache' = {}
    /\ UNCHANGED <<panel, endpoint, request, now, log, sent, again, uncounted>>

Deliver == pass.queue # <<>> /\
    LET k == Current
    IN  \/ AlreadySent(k) \/ NotYetSent(k)
        \/ SendAccepted(k) \/ SendUncounted(k) \/ SendRefused(k)
        \/ RecordNotification(k) \/ RecordFailed(k)

PassStep == (\E s \in Subs : Visit(s)) \/ ListOverdue \/ EndPass \/ Deliver

-----------------------------------------------------------------------------
(* The environment.                                                        *)

(* A renewal shifts the panel's expiry by what DaysToAdd says. *)
Extend(s) ==
    /\ expiry[s] # 0
    /\ \E d \in Plans :
         LET e == expiry[s] + Day * DaysToAdd(d, expiry[s], now)
         IN  e <= MaxExpiry /\ expiry' = [expiry EXCEPT ![s] = e]
    /\ UNCHANGED <<used, endpoint, request, now, cache, log, pass, history>>

Download(s) ==
    /\ \E u \in UsedLevels : u > used[s] /\ used' = [used EXCEPT ![s] = u]
    /\ UNCHANGED <<expiry, endpoint, request, now, cache, log, pass, history>>

(* The first device subscribes, or the last one is gone. *)
Toggle(s) ==
    /\ endpoint' = [endpoint EXCEPT ![s] = ~@]
    /\ UNCHANGED <<panel, request, now, cache, log, pass, history>>

Apply(id) ==
    /\ request[id].status = "none"
    /\ request' = [request EXCEPT ![id] = [status |-> "pending", createdAt |-> now]]
    /\ UNCHANGED <<panel, endpoint, now, cache, log, pass, history>>

Settle(id) ==
    /\ request[id].status = "pending"
    /\ request' = [request EXCEPT ![id].status = "settled"]
    /\ UNCHANGED <<panel, endpoint, now, cache, log, pass, history>>

(* A new month resets the traffic counted against the quota; the cached    *)
(* list grows old. *)
Tick ==
    /\ now < MaxNow
    /\ now' = now + 1
    /\ used' = [s \in Subs |-> IF MonthOf(now + 1) # MonthOf(now) THEN 0 ELSE used[s]]
    /\ cache' = {c \in cache : now + 1 - c.at <= ListAge}
    /\ UNCHANGED <<expiry, endpoint, request, log, pass, history>>

(* Another caller of ListClients finds the cache empty or too old. *)
Refill ==
    /\ cache' = {Snapshot}
    /\ UNCHANGED <<panel, endpoint, request, now, log, pass, history>>

World ==
    \/ \E s \in Subs : Extend(s) \/ Download(s) \/ Toggle(s)
    \/ \E id \in Requests : Apply(id) \/ Settle(id)
    \/ Refill \/ Tick

Init ==
    /\ expiry = InitExpiry
    /\ used = [s \in Subs |-> 0]
    /\ endpoint \in [Subs -> BOOLEAN]
    /\ request = [id \in Requests |-> [status |-> "none", createdAt |-> 0]]
    /\ now = 1
    /\ cache = {}
    /\ log = {} /\ pass = Resting
    /\ sent = {} /\ again = {} /\ lost = {} /\ uncounted = {}

Next == StartPass \/ PassStep \/ Crash \/ World

Spec == Init /\ [][Next]_vars

(* Steps for the owner's message about a subscription that has run out. *)
About(s) == pass.queue # <<>> /\ Current.owner = s /\ Current.kind = "expiry"

SeesDevice(s) == Visit(s) /\ pass'.queue # <<>>
LooksUp(s) == About(s) /\ NotYetSent(Current)
Tells(s) == About(s) /\ SendAccepted(Current)

(* Run's loop always begins another pass and a pass always goes on.  No    *)
(* failure is permanent: a lookup asked again and again is answered, a     *)
(* push service takes a message in the end, and the process does not stop  *)
(* at the same step of every pass.  The cached list has a TTL, so not      *)
(* every pass works on one the panel has moved on from.                    *)
FairSpec ==
    /\ Spec
    /\ WF_vars(StartPass) /\ WF_vars(PassStep)
    /\ SF_vars(StartPass /\ pass'.list = Snapshot.list)
    /\ \A s \in Subs : /\ SF_vars(SeesDevice(s)) /\ SF_vars(LooksUp(s))
                      /\ SF_vars(Tells(s))

-----------------------------------------------------------------------------
(* Properties.                                                             *)

(* A notification goes out a second time only if recording the first one    *)
(* was cut short by a crash or a database failure, or if there was nothing  *)
(* to record, no endpoint that took it having counted: neither repeated     *)
(* passes, nor renewals and their rollbacks, nor stale lists, nor devices   *)
(* that come and go cause it.                                               *)
RepeatsExplained == again \subseteq lost \cup uncounted

(* notification.insert: "a repeated pass never notifies twice".             *)
NeverTwice == again = {}

(* For one expiry the warnings only get more urgent: once a nearer          *)
(* threshold, or "expired", was notified, no farther one ever is.  A code   *)
(* that did what expiryMessage's comment says (scheduler.go) would not keep *)
(* to that: see README.                                                     *)
UrgencyGrows ==
    [][\A k \in sent' \ sent :
          k.kind = "expiry" =>
             \A m \in sent :
                (m.kind = "expiry" /\ m.owner = k.owner /\ m.ref = k.ref)
                   => m.level > k.level]_vars

(* A client with a working device whose subscription has run out is told   *)
(* of it, whatever the push service refuses on the way, unless the device   *)
(* goes or the subscription is extended first.                              *)
ExpiredClientTold ==
    \A s \in Subs :
        endpoint[s] /\ Expired(expiry[s], now)
            ~> \/ ExpiryKey(s, 0, expiry[s]) \in sent
               \/ ~endpoint[s] \/ ~Expired(expiry[s], now)
=============================================================================
