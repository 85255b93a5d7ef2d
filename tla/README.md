# 3x-ui-cm: specification, model checking and proofs

This directory keeps a TLA+ model of the client-management service in this repository
(`cmd/server`, `internal/*`, and the notification switch of `web/src`), TLC configurations that check it on small instances, and
TLAPS proofs of what holds for every instance. Paths below are relative to `src/`.

1. [The system](#1-the-system): components, state, interactions, what is hard
2. [Modules](#2-modules): which module models which code, and how
3. [Runs](#3-runs): what is checked, with which bounds and fairness
4. [Proofs](#4-proofs): what is proved, from what and how
5. [Where code and documentation disagree](#5-where-code-and-documentation-disagree)
6. [Not modelled](#6-not-modelled) and [plan](#7-plan)

Running it, inside this directory:

    tlc -workers 2 -config RenewalFaults.cfg RenewalHistory
    tlapm RenewalProofs.tla

## 1. The system

The service stands between the clients of a VPN, its admins and a 3x-ui panel. The panel
owns the client records; the service owns an SQLite file with four tables. It is one Go
process: every HTTP request is a goroutine, and there are two background loops (reminders,
session cleanup). The panel may be slow, refuse, or lose an answer; the process may be
stopped at any point and started again over the same database.

    browser / service worker ──HTTP──► httpapi ──► auth (sessions, rate limit)
                                         │  │
                  push service ◄── push ◄┤  ├──► renewal ──► store (SQLite)
                        ▲                │  │        │
                        └── notify ──────┘  └──► xui ──HTTP──► 3x-ui panel
                            (loop)               (cache)

### Inventory

| component | state | operations | correct when |
|---|---|---|---|
| subscription rules, `internal/domain` | none (pure) | fold the records of a subId, badge, countdown, days to add, traffic percentage | a client gets at least the days paid for and less than a day more; badge and countdown agree; only a renewal brings a subscription back |
| renewal service, `internal/renewal` + `store/renewals.go` | `renewal_requests`, the panel's expiries | `Request`, `Confirm`, `Reject` | one open request per subscription, one grant and at most one rollback per request, one verdict, the client is told that verdict; panel and table agree, or differ for a reason that can be named; nobody is locked out |
| push, `internal/push` + `store/push.go`, `web/src/sw.ts` | `push_subscriptions` (fail_count, unconfirmed, unconfirmed_since) | send, record the answer, drop; subscribe, receipt, unsubscribe | live devices keep their subscription, dead endpoints are forgotten, counters mean what their names say |
| reminders, `internal/notify` | `notifications` (the log) | one pass: list, choose, look up, send, record | nobody is told twice without reason, nothing is recorded that nobody got, warnings get more urgent, whoever ran out is told |
| panel client and its cache, `internal/xui` | the cached list and online list | `ListClients`, `FindBySubID`, `BulkAdjust`, `InvalidateCache`, `withRetry` | a list is never older than TTL + one call; a write is followed by fresh data except for a call under way |
| client login, `httpapi/client_handlers.go` | the session, the cached list | magic link, `/api/me`, logout | removed clients see nothing, established ones are not thrown out |
| subscription link cache, `httpapi/server.go` | `subBase`, `subLoad`, a channel | `subscriptionURL` | one read of the settings at a time, nobody left waiting, a known base is not lost |
| sessions, `auth/session.go` + `store/sessions.go` | `sessions.last_seen_at` | create, find, touch, destroy, cleanup | ended sessions stay ended, used ones are kept |
| rate limiter, `auth/ratelimit.go` | buckets, a call counter | `Allow` (which also sweeps) | sweeping is invisible; no window lets through too much |
| health probe, `httpapi/server.go` | last verdict, its time, a flag | `panelHealthy` | one probe at a time and not more often than the interval; no verdict without cause; a lasting change is noticed |
| broadcasts, `httpapi/broadcast_handlers.go` | none; reads the list and `push_subscriptions` | `handleAdminPush` | the message reaches the clients asked for and nobody else |
| migrations, `store/store.go`, `cmd/server` | `schema_migrations`, the schema | `Migrate`, start-up | each file takes effect once, in order, with its record; nobody serves on an older schema |
| notification switch, `web/src/push.ts`, `PushCard.tsx` | the browser's subscription, what each page shows | enable, disable, mount | "on" with nothing registered only after something visibly failed; the switch repairs it |
| admin handlers, configuration, plumbing, pushctl, nginx generator, subscription page, other screens, deployment | see `PROJECT.json` | | |

### Interactions

`renewal` and `notify` read the panel through `xui` and send through `push`; both write the
log so that a new request does not trigger a second message. `renewal`'s `BulkAdjust` drops
the cache `httpapi` reads. `httpapi` ends a session when the cached list lacks the client.
`push` subscriptions are written by handlers and by the senders' bookkeeping at once; the other half
of each lives in a browser. Two processes may migrate one database file. None of
these share a lock: the only mutual exclusion is one SQL statement, the cache's mutex (never
held across a call), the probe's mutex, the link cache's mutex and channel, the limiter's mutex, and SQLite's write lock
for the length of a migration's transaction.

### What is hard here

* A renewal is four or five independent effects (row, panel, row, log, push) with a
  non-idempotent one in the middle, the row is in the admins' list from its insert, and two admins may act on it.
* Decisions are taken on values read earlier: the expiry `DaysToAdd` starts from, the
  `fail_count` a sender listed, the row `FromRequest` found, the list a reader got before a write.
* Receipts, sends and subscriptions of one device arrive in any order.
* The process, its clients' contexts, the panel, the push service and the database all fail
  between any two steps.
* A page gives up after fifteen seconds while its request goes on, or its request arrives after it gave up; the browser's
  half of a push subscription and the server's row then differ.
* Rounding: days are rounded up, an overdue part is added, months reset the traffic.

`PROJECT.json` lists each hazard at its line with the properties that watch it.

## 2. Modules

Granularity, everywhere: one step is one SQL statement, one call's answer, or one critical
section. What Go does between two of these touches only local variables, so it belongs to the
step before or after it. Time is counted in ticks; `Tick` is an action of its own, held back only where
a deadline in the code bounds the wait. Failures are actions guarded by a set `Faults`, so
that each run says which it admits. Definitions named "Mutant" are deliberately wrong variants kept beside the right
one; replacing the right one by them must break a property (the table in `PROJECT.json`).

**Domain** — `internal/domain/subscription.go`, operators only: `MsToTime`, `FromRecords`,
`Expired`, `Depleted`, `DaysLeft`, `Status`, `DaysToAdd`, `TrafficPercent`. Expiries are
integers in ticks with 0 for the zero time, as on the panel; `Day` is the number of ticks in a
day, so `Day = 2` is the least that tells "rounded up" from "exact".

**Subscription** (extends Domain) — one subId with several records over its life: `Renew` (read, `DaysToAdd`,
`bulkAdjust` of all e-mails), `FirstUse` (the panel dates a delayed start), `Use`, `Tick`. The
history variable `paidUntil` is the end of the time the client has a claim to. A delayed start or a record without expiry
is skipped by the adjustment, as the panel does.

**Renewal** (extends Domain) — `renewal/service.go` with the statements of `renewals.sql`. `pc`
says where each goroutine stands, `job` holds its local variables:

| action | code |
|---|---|
| `StartRequest`, `LookupForRequest`, `CreateRenewal` | `Request` up to the insert; the partial unique index is `HasPending` |
| `AdjustOk`, `AdjustRefused`, `AdjustLost`, `LateApply` | `BulkAdjust` by `Request` or `Reject`: answered; refused, with nothing, a part or all of it done (`AGENT.md`: `success:false` may be a partial application); given up by its caller, and applied later, in part, or never |
| `ReadExpiry`, `RecordOutcome`, `MarkFailed`, `Tell` | `readExpiry` with its fallback, `SetRenewalOutcome`, the push and its log row |
| `StartAdmin`, `CheckPending`, `ResolveRenewal` | `Confirm` and `Reject` |
| `ReadError`, `StoreError`, `Interrupt`, `Crash` | a failed read or write, an ended context, a dead process |

`ledger` (what the panel has applied, in whole or in part) and `wire` (calls it may still apply) are history. An admin may act on a row from its
insert on, while its `Request` still waits for the panel: nothing in the code prevents it.

**RequestBook** — the abstract specification of the same table: a sequence of requests, each with its status and whether its own handler is
still running. `Submit` needs that no request is open, `Settle` that this one is; `Conclude` is the handler's last word, which may
change a settled request, and `Abandon` a handler that ends without one. `Renewal!BookSpec` is the refinement: `book` is the
table's rows projected to subscription and status, and `handler` is "running" while some client's goroutine may still write the row (`Running`).

**RenewalHistory** (extends Renewal) — one history variable, `marks`: what happened to a request that its row does not show. Its
grant or its rollback got no yes from the panel; a `Reject` had the yes and did not write its verdict; a `Reject` met another handler
on the row; its `Request` wrote over a verdict. `BooksBalance` and `ToldTheOutcome` say that panel, table and client agree except for
one of these, each named where it excuses.

**RenewalExpiry** (extends Renewal) — the history of the dates: `muddled` holds the subscriptions to which, since their newest row, something
happened that the row's `expiry_after` cannot know of.

**Push** — `push.go`, `push.sql`, the subscribe/receipt handlers and `sw.ts`. `Broadcast` is the
SELECT that copies the rows with their `fail_count`; `Accept`/`Refuse`/`Gone` the push service's
answer, where a refused message may still have been taken (`Taken`: the answer came too late); `RecordAccepted` is `UPDATE … RETURNING` with `isSilent`'s verdict on its result; the
three `Drop…` are deletes, statements of their own; `Receipt`, `ReceiptLost`, `Subscribe`, `Unsubscribe`,
`SwitchOff/On`, `Remove` the device and its owner. Clocks and counters stop at the limit the code compares them
with, so the state space is finite without a bound on the run. **PushHistory** adds the bit `calm`: no statement failed, no receipt
was lost, no crash, and every broadcast began with none under way and nothing waiting on a device. So `CalmFailuresInARow` says what one sender's counter does;
what overlapping ones do to it is in section 5.

**Scheduler** (extends Domain) — `RunOnce`: `StartPass` copies a list, the panel's or one that another caller left in the cache (`Refill`; at most `ListAge` old), and the later reading of the clock; `Visit` is one
subscription (`HasPushSubscription`, `expiryMessage`, `trafficMessage`), `ListOverdue` the admin reminders, and
`AlreadySent`/`NotYetSent`/`SendAccepted`/`SendRefused`/`RecordNotification`/`RecordFailed` are `deliver`
step by step. `SendUncounted` is a message that was taken and leaves `Sent` at 0: the answer came too late, or the endpoint took it and was
dropped as silent (`recordAccepted` returns `outcomeRemoved`); no log row is written. The world (renewals, traffic, devices, months) moves between any two. `ListOverdue` admits every order the SELECT may list
requests of one moment in (`OldestFirst`). A log key is
`[owner, kind, level, ref]`: the code's kind `expiry_3d` is kind "expiry", level 3; `expired` is level 0.

**PanelCache** — the two cached lists of `xui/client.go`, clients and who is online: `Miss`/`Answer`/`Retry`/`Fail`/`Store` are
`ListClients` and `Onlines` with `withRetry`, `Post`/`Applied`/`Returned` are `BulkAdjust` with the `InvalidateCache` that every
return, error or not, ends in. A list's content is reduced to what became of it since the panel read it, a
*copy*: is it still `current`, how long not (`lag`), which adjustments under way did it miss (`missed`), did one of them return
(`behind`). A hit changes nothing, so what a hit returns is what the invariants say of the cache.

**ClientLogin** — `handleMagicLink` (asks the panel), `handleMe` (asks the cache, evicts), other
users of the cache, an admin who adds and removes the client. The list is reduced to "has the client". With the list in hand the page goes on to
ask who is online, read the database and load the link; it is answered within the server's `WriteTimeout` or not at all (`Deadline`). Ending the session of a client not found is
one statement, done within SQLite's busy time-out.

**Broadcast** — `handleAdminPush`: the body, exactly one target (`NotOneTarget`), ids or addresses looked up in the list
(`ById`, `ByEmail`), the rows listed by role and id (`Chosen`), the bounded fan-out of `SendTo` (`Start`, `Sent`), the
log row; `GiveUp` ends the request's context, and from then on only `CutOff` and a failed insert are left. Devices change hands and
the panel's list changes between any two of these.

**PanelReaders** (extends PanelCache, instantiates ClientLogin and Broadcast) — the cached list and the two handlers that act on it, in
one run. **Handlers** (extends HealthProbe, instantiates SubLink, PushSwitch and RateLimit) — the handlers with a state of their own,
in one run. Both are sums, not products: a variable `part` says which component moves in a behaviour, and
the others stay where they began. That loses nothing, because no two of the components share a variable and each property speaks of one of them:
a behaviour of all together, seen through the variables of one, is a behaviour of that one.

**SubLink** — `subscriptionURL`: the critical section's four branches, `Publish`, `Close`, `Wake`, `GiveUp`.

**HealthProbe** — `panelHealthy`: the critical section at the top (`LastVerdict`, `StartProbe`), the probe of
`ServerStatus` with its retry and its own deadline (`Alive`, `Retry`, `Dead`), the critical section at the end (`Finish`). `evidence` is history: how long ago the panel
last gave cause for either verdict.

**PushSwitch** — `enablePush`, `disablePush` and `pushState` in several tabs of one browser, one await a step, against the rows
that `handlePushSubscribe` and `handlePushUnsubscribe` write. `permission` is the browser's: not asked yet, granted, or denied, when asked (`Refused`) or in its
settings (`BrowserDrops`, `Allow`); a card that finds it denied shows no button until its page is loaded anew (`Reopen`). `Error` and `Reload` leave a request behind that `LateRequest` may
still deliver; the server may drop the row (`Silent`, `Gone`), the browser its subscription (`BrowserDrops`). `trouble` is history: endpoints
that a visible failure has left without a row.

**Migrate** — `Store.Migrate` by several processes over one file: create the table, list what is applied (`ListCut`: the loop
ends early, since `rows.Err` is not looked at), and for each file a transaction (`Exec`, `Record`, `Commit`), under SQLite's one write lock;
`ExecFailed` is a lock held for too long or a file that no longer applies, `Crash` a dead process or any other failure. A
`server migrate` is a `serve` that ends after it. **SchemaVersions** is its abstract specification: files take effect one by one, in order, with their record, and a
process opens only on the last; `Migrate!VersionSpec` is the refinement, with `serving` mapped to the processes that serve.

**Sessions** — `Create`, `FromRequest` (read; decide by its own later clock; touch or delete), `Destroy`,
`CleanupLoop`. `used` and `lapsed` are history.

**RateLimit** — `Allow` under the mutex, including the sweep on every n-th call, against `exact`, a limiter that never sweeps.
Exact integer arithmetic stands for the code's `float64`.

`MC*` modules only hold symmetry sets and function-valued constants. The `*Proofs` modules extend the module they are about.

## 3. Runs

| run | asks | distinct states |
|---|---|---|
| `renewal_faults` | with every fault and two admins, as early as they like: `GrantedOnce`, `ToldTheOutcome`, `BooksBalance`; liveness `NobodyLockedOut` | 113 000 |
| `renewal_expiry` | with two clients at once, an early admin, partial refusals and failing reads: `OnePending`, `RecordedExpiry`, `PaidUnlessRolledBack`, refinement `BookSpec` | 962 000 |
| `subscription` | `PaidForAndNoDayMore`, `CountdownAgrees`, `OnlyARenewalImproves` | 77 000 |
| `push_history` | `SilenceClock`, `CondemnedOnlyUnheard`, `CalmReachableKept`, `CalmFailuresInARow`; liveness `DeadEndpointForgotten` | 283 000 |
| `scheduler_expiry` | `UrgencyGrows`; liveness `ExpiredClientTold` | 112 000 |
| `scheduler_traffic` | `RepeatsExplained` with quotas, a month's end and admin reminders | 670 000 |
| `sessions` | `EndedStaysEnded`, `KeptAlmostTTL` | 37 000 |
| `migrate` | refinement `VersionSpec`; liveness `EventuallyServing` | 1 100 |
| `handlers` | the probe: `VerdictFounded`, `ProbesSpaced`, liveness `VerdictCatchesUp`; the link: `OneLoad`, `BaseSurvives`, liveness `EveryCallerAnswered`; the switch: `UnregisteredExplained`, liveness `SwitchRepairs`; the limiter: `SweepInvisible`, `WindowBound` | 110 000 |
| `panel_readers` | the cache: `BoundedStaleness`, `StaleOnlyByOverlap`; the client's page: `RemovedSeesNothing`, `EstablishedKept`; a broadcast: `ExactlyTheAsked` | 696 000 |
| `renewal_reject_twice` | expected violation: `RejectedExactly` (section 5) | |
| `renewal_reopened` | expected violation: `ResolvedOnce` (section 5) | |

`renewal_faults` and `push_history` also check `TypeOK`; in the other modules that state one (Subscription, RateLimit, HealthProbe, Migrate, Sessions,
PanelCache) it is proved (section 4), as are types for Scheduler, SubLink, PushSwitch, ClientLogin and Broadcast.
`BookSpec`, `VersionSpec`, the `Calm…` and `Condemned…` properties, `OnlyARenewalImproves`, `UrgencyGrows`, `ProbesSpaced`, `BaseSurvives`, `EndedStaysEnded`,
`KeptAlmostTTL` and `EstablishedKept` speak of steps (`[][A]_vars` or a refinement); the rest are invariants
unless marked as liveness.

### Bounds and why they are enough

* *Renewal.* Two runs, because two admins and two clients together are too many states, and every race in the code is between two handlers of one row or one
  subscription. `renewal_faults` has one client, two admins, every fault, a row and a subscription overdue beside an unlimited one (requests of different subscriptions share
  only the id sequence); `renewal_expiry` two clients, one admin, two rows, so that there is a newest and an old one and a double tap, and the faults after which handlers go on.
  What `renewal_faults` leaves out of the second (cut-off handlers and late calls beside an older row), the proofs have. One rollback attempt per row (two
  in the violation runs). Both start a day overdue, so that `DaysToAdd` has a debt to add, and `renewal_faults` has a clock that moves, so that a read is older than the write.
  Fractions of a day are in `subscription`. Dates start at 103, because 0 on the panel means "never" and no number of rollbacks may lead there.
* *Subscription.* Two records with expiries "never", "delayed", two dates; quotas 0 and 1; half-day ticks over four and a half days.
* *Push.* One endpoint (endpoints share nothing but the sender that copied their rows), two senders, failure limit 2, unconfirmed
  limit 3 and grace 3 days. The code's limits are 10, 3 and 14 days; the smaller ones keep what matters: more than one
  failure is needed, more than one message, and the days are enough for a silence to be shorter than the grace period and still restart.
* *Scheduler.* One subscription (a pass handles them one after another and shares nothing between
  them but the list and the clock it read), thresholds {1, 3}, half-day ticks, two months in the traffic run; the list is at most a tick old. A pass of the expiry run
  has no quota and one of the traffic run a subscription that is either unused or used up, since a key is repeated or not for the same reasons whatever it is about.
* *PanelCache.* The clients' list lives 4 ticks and the online list 2, as 60 and 30 seconds; the longest call takes 1. So an entry can be fresh,
  expired, and stored by a call longer than the change it missed, and one list outlives the other.
  Two readers and two writers, since an entry is stored by one call while another is under way, and may have missed one adjustment and not the other.
* *ClientLogin.* TTL 2, longest call 1, 2 to make a page; a call of two attempts may take longer than half a TTL in the service, and the proof has every ratio of the three; two devices of the client and another user of the cache.
* *Broadcast.* One client, one address, two devices (one sent to while the other waits, with `SendConcurrency` 1), of which any may be an admin's. Requests
  follow one another without a bound.
* *SubLink.* Three callers: a leader, a waiter, and one that comes later. Channel numbers are reused, so runs are unbounded.
* *HealthProbe.* Three callers (one probes, one is given the old verdict, one comes after); interval 3 and patience 2, so that a probe takes part of the interval and its retry
  falls in a later tick. Ages stop at the limit they are compared with.
* *PushSwitch.* Two tabs and two endpoints, the browser's and a leftover; `MaxLate` = 1 request on its way that nobody waits for.
* *Migrate.* Two processes and three files: one before, one in the middle, one after; the proof covers every number.
* *Sessions.* Two requests with one cookie; `TTL - TouchEvery - 2·Patience` must be positive, hence TTL 5, and the clock goes to 9 so that
  a session can expire after a touch. The run states `CHECK_DEADLOCK FALSE`, because at the bound of the clock, with every id issued and ended, nothing is left to do.
* *RateLimit* (in `handlers`). Two keys, the second one's calls triggering the first one's sweep; windows of up to three ticks, in which a bucket refills exactly.

### Fairness

* *Renewal* (`Fairness`): weak fairness of an admin's handler's own steps (the panel client has a time limit and SQLite a busy time-out, so
  a handler is not stuck); strong fairness, per subscription, of an admin pressing "confirm" on what
  is pending and of that handler's two steps. The scheduler's daily reminder keeps asking for that; a
  confirmation that is interrupted every single time would be an admin who never waits a second for the answer. Nothing is asked of the clients' handlers,
  and the run admits every fault, crashes among them.
* *Push*: `sendOne` goes on (`sendTimeout`), a device in reach shows its messages, and a push service's answer, an update or a
  delete that is tried over and over is not lost every time. Days go by (`[]<><<Tick>>`). Nobody is obliged to send or to subscribe.
* *Scheduler* (`FairSpec`): the loop starts passes and passes go on; the look-up, the device query and the push for one subscription,
  repeated every pass, do not fail every time; and not every pass is handed a list the panel has moved on from, since an entry of the cache has a lifetime.
* *HealthProbe* (`FairSpec`): a probe goes on, because its context has a deadline; somebody keeps asking, as the health check of the compose file does every thirty seconds;
  and time passes (strong, since the model holds it back while an answer is due).
* *Migrate*: a process goes on, and one that ended is started again (`restart: unless-stopped`). Faults are not asked to happen, and liveness is claimed for behaviours in which they end.
* *PushSwitch*: an operation goes on (requests have a deadline), a request on its way arrives or is lost, an endpoint of the past is
  found out by its 410, and somebody who gets no notifications keeps pressing the switch, or loads a page anew that shows none. `SwitchRepairs` is claimed for owners
  who have not denied permission for good; nobody is obliged to allow it again.
* *SubLink*: weak fairness of each caller's steps: the settings call has a time limit and runs on a context detached from the request.

Symmetry is used in `renewal_expiry`, `subscription` and `panel_readers`, none of which checks liveness.

## 4. Proofs

All for arbitrary sets of goroutines, subscriptions, devices, keys or processes, arbitrary bounds, deadlines and faults, under the named ASSUMEs of each module (types of the
constants, disjointness of process sets, `Nobody` not a process; `Rate * SweepAge >= Burst` for the limiter, which the limiters built in `server.go` satisfy).

| theorem | states | rests on |
|---|---|---|
| `RenewalProofs!Typing` | `TypeOK` | `TypeInv`: a goroutine's label, operation and row agree; without it `rows[job[p].id]` could be undefined |
| `RenewalProofs!OnePendingAlways` | `OnePending` | `TypeInv` and, step by step, the unique index, in `CreateRenewal` and in `RecordOutcome` |
| `RenewalProofs!ToldTheOutcomeAlways` | `ToldTheOutcome` of `SpecHistory` | `ToldTruth`: an admin about to tell the client has settled the row that way, and what was told is what the row says, unless it is marked "overwritten" (`TellsTruth`) |
| `RenewalProofs!ImplementsRequestBook` | `BookSpec` | `ClientsOwn`: no two clients' goroutines work on one row, so its `Request` concludes at most once; initial states map to initial states, each step to `Submit`, `Settle`, `Conclude`, `Abandon` or a stutter |
| `RenewalProofs!FinalOnceOverAlways` | `FinalOnceOver`: a row whose `Request` is over leaves pending once | `RowSteps`: a row changes by an insert, by its own `Request`'s last word or by a guarded verdict |
| `RenewalProofs!GrantedOnceAlways` | `GrantedOnce` | `GrantInv`: who stands before the call for a request is the only one to and its grant is still unspent; a cut-off call is counted once |
| `RenewalProofs!PaidUnlessRolledBackAlways` | `PaidUnlessRolledBack` | `PaidInv`: the days a `Request` asks for cover the plan from its own read on, its row is for just those days, and without a rollback an expiry only rises (`Rising`) |
| `RenewalProofs!BooksBalanceAlways` | `BooksBalance` of `SpecHistory` | `BooksInv`: each of a row's two entries on the panel as a function of its status and of where its handlers stand, unless a mark excuses it (`GrantSide`, `RollbackSide`) |
| `SubscriptionProofs!Typing`, `PaidForAlways` | `TypeOK`, `PaidForAndNoDayMore` | `Inv`: the claim on the earliest set expiry; lemmas that shifting all records shifts the earliest one and that `CeilDays` over-pays by less than a day |
| `SubscriptionProofs!CountdownAgreesAlways` | `CountdownAgrees` | `TypeOK` and two lemmas on rounding: `CeilDaysBounds`, and `DaysMonotone`, that whole days order as their lengths do |
| `SubscriptionProofs!OnlyARenewalImprovesAlways` | `OnlyARenewalImproves` | `TypeOK` and `Capped`: counting more traffic never lowers a record's count. `NoBetter` says what keeps a badge from improving, `SumsGrow` that a sum grows with its summands |
| `RenewalProofs!RecordedExpiryAlways` | `RecordedExpiry` of `SpecExp` | `DatesInv`: of a subscription that is not muddled (`Clear`) one handler at most adjusts the panel, it works on the newest row, what it has read is what the panel shows, and what it has left behind is that too |
| `PushProofs!Typing`, `SilenceClockAlways`, `CondemnedOnlyUnheardAlways` | the properties of those names | `Inv`: an unconfirmed row's age is at most the device's silence, whatever `job` says |
| `PushProofs!CalmReachableKeptAlways`, `CalmFailuresInARowAlways` | `CalmReachableKept`, if `MaxUnconfirmed > 2`; `CalmFailuresInARow` | `CalmInv`: while it is calm one sendOne at most works on an endpoint, and what it is about to do bounds the row's counters (`Sound`) |
| `SchedulerProofs!Typing`, `RepeatsExplainedAlways`, `UrgencyGrowsAlways` | `TypeInv`, `RepeatsExplained`, `UrgencyGrows` | `LogInv`: what was sent is in the log, or in the hands of `deliver`, or its row was lost, or it was never to be counted; `DueInv`: what is queued was due at the pass's own reading of the clock, and due levels only shrink (`LevelShrinks`) |
| `SessionsProofs!Typing`, `EndedStaysEndedAlways`, `KeptAlmostTTLAlways` | the properties of those names | `IInv`: a row is of an issued id and its time is behind the last use by at most `TouchEvery + Patience` (`Recorded`), and what a request read of it is stale by no more than its own length (`Informed`) |
| `PanelReadersProofs!EachByItself` | `ReadersSpec` implies the specification of each component | every step is a step of one and leaves the others (`Parts`) |
| `PanelReadersProofs!CacheTyping`, `BoundedStalenessAlways`, `StaleOnlyByOverlapAlways` | the properties of those names | `CacheInv`: a copy lags no more than it has travelled (`Travelled`), and once stored no more than its age and the longest call (`Kept`) |
| `PanelReadersProofs!RemovedSeesNothingAlways`, `EstablishedKeptAlways` | the properties of those names | `LoginInv`: a list that disagrees with the panel about the client is younger than the change by no more than its call, once stored by its age and a call, and in the hands of a page by what that has taken besides (`Lags`) |
| `PanelReadersProofs!ExactlyTheAskedAlways` | `ExactlyTheAsked` | `CustomInv`: whoever was told or is queued was meant (`RecipientsMeant`), whoever was meant is told, queued or had no row (`NobodyPassedOver`), and the ids looked up are those named (`IDsMeant`) |
| `HandlersProofs!EachByItself` | `HandlersSpec` implies the specification of each handler | as above |
| `HandlersProofs!ProbeTyping`, `VerdictFoundedAlways`, `ProbesSpacedAlways` | `TypeOK`, `VerdictFounded`, `ProbesSpaced` | `ProbeInv`: the flag is up exactly while one caller probes, nothing is heard of the panel between probes, an answer is stored before time passes |
| `HandlersProofs!OneLoadAlways`, `BaseSurvivesAlways` | the properties of those names | `LinkInv`: a channel is named by those who load, close or wait for it and by nobody else (`InUse`) |
| `HandlersProofs!UnregisteredExplainedAlways` | `UnregisteredExplained` | `SwitchInv`: the browser's subscription has its row, or is in trouble, or some tab is about to register it or to take it back |
| `HandlersProofs!LimiterTyping`, `SweepInvisibleAlways`, `WindowBoundAlways` | the properties of those names | `LimiterInv`, the conjunction of the three: the window bound needs the bucket's tokens in it to be inductive |
| `MigrateProofs!Typing`, `ImplementsSchemaVersions` | `TypeOK`, `VersionSpec` | `IInv`: effects and records agree, in order; what a process has passed over stays recorded; whoever has written holds the lock, on a file not recorded yet |

No theorem about Renewal makes an assumption on faults, on the number of handlers or on when admins act. `GrantInv` (with `TypeInv`) needs ids to be
used once, which `AUTOINCREMENT` gives: an id no row has yet was never granted. `PaidInv` needs less: an expiry that is old when the days are computed from it
only errs to the client's advantage, since other grants can but raise it.

All of them stand on `TypeInv`, in which a goroutine's label and row agree. What follows `PaidInv` argues from two descriptions of a step. `ActorSteps`: one handler
stands still, ends, comes nearer to its row, takes it up or advances on it (`Actor`). `RowSteps`: a row stays as it is, or its own
`Request` has the last word (`Concluded`), or an admin settles it while it is pending (`Settled`). So an action is looked into once and each proof has a few cases.

`BooksBalance` and `RecordedExpiry` hold because the exceptions they name are the only ones, which is what the proofs are for: that a mark excuses is easy, that
no unmarked row is wrong takes an invariant about the handlers still at work. `GrantSide` says that an unmarked request's grant is with the panel exactly if its `Request`
is past the call, and that no handler is about to write "failed"; it carries through early verdicts, failed updates and crashes after the call. `RollbackSide` says that days were taken
back if the row is rejected or a `Reject` is past its call, and that a row in a `Reject`'s hands is still pending; this is where "crossed" is needed, since a second
`Reject`, a `Confirm`, or the row's own `Request` may move it first, and `RenewalRejectTwice.cfg` shows that they do. A `Confirm` and a `Request` that cross are not excused.

`CalmReachableKeptAlways` covers the code with one message to spare: `maxUnconfirmed` is 3. With 2 it is false (TLC finds the
run): a receipt that is quicker than `recordAccepted` leaves one confirmed message counted for good, and the next message counts as the second
until its own receipt comes. That is what `Unconfirmed` in `Sound` says, 1 at rest and 2 with a message on the device. `calm` is the weakest condition we found that
makes `CalmInv` inductive: two sendOnes at work on one row, or one that begins before the device has shown the last message, may each add one.

In Sessions, PanelReaders, Handlers and Migrate the property alone would not carry through a step because the danger is in what somebody holds from before: a request its row, a
call its copy, a page its list, a prober its answer, a caller its channel, a process what it saw applied. The invariant says of each how old that may be, which is also why
`Patience`, the deadline of a call, appears in the bounds: without it there would be none.

The proofs of the composed modules go through `Parts`: a step of the composition is, for each component, a step of its own or a stutter. Each invariant is then about the
variables of one component and its own next-state relation, and holds of the component alone as well.

`SchedulerAssumption` asks that the requests be finitely many: `OldestFirst` lists a set, and an infinite one has no list. A finite set's lists are as long as the set and
hold each member once, which is all the proof uses.

`OnlyARenewalImproves` compares sums over all the records before and after a step. That a sum grows with its summands is an induction over the set,
and the library's induction theorems are out of the prover's reach. `ByOne` takes their place: a set of subsets that holds the empty one,
and with a subset less one member the subset itself, holds them all, since one of least size that it lacks would contradict that (`LeastExists`).
`AddsExists` shows by the same argument that the recursive function inside `SumFunction` exists; without it `CHOOSE` could have picked anything. This is why
`SubscriptionAssumption` asks for finitely many e-mails; the panel's list is one.

Only model-checked: every liveness property and every fairness argument, for the prover has neither liveness rules nor
`ENABLED`. No module here needs a recursive operator.

## 5. Where code and documentation disagree

Listed as runs because they cost money or trust. **`RenewalRejectTwice.cfg`**: `Reject` reads the status (`renewal/service.go`,
`pending`), calls the panel, and only then runs the guarded UPDATE. Two admins who reject at the same time both
send `-applied_days`; the guard stops the second one only after the days are gone twice. `AGENT.md` says a rejection
takes back exactly `applied_days`.

**`RenewalReopened.cfg`**, `ResolvedOnce`: the row is in the admins' list from its insert, before the panel is called. An admin who acts before `Request` has returned
is overwritten: `SetRenewalOutcome(pending)` names the row by id alone. The client was told a verdict and the row is pending again, to be resolved a second time.
`renewals.sql` says "Only a pending row is moved, so a double confirm cannot resolve it twice", and `AGENT.md` that only a pending request is decided; the guard is in `renewal.resolve` only.
What holds instead is proved: final once the `Request` is over (`FinalOnceOver`), and the table is RequestBook's otherwise (`BookSpec`).

The following configurations also end in a counterexample. Each is the literal reading of a comment or a document that is
stricter than the code; the property that does hold is in the runs above.

| configuration, property | sentence | what happens | what holds instead |
|---|---|---|---|
| `RenewalFailedGrant`, `FailedNotGranted` | a POST is not repeated "чтобы не продлить дважды", so a failed row may be asked for again (`AGENT.md`) | the panel applies an adjustment whose answer is lost, and the row says "failed" | `BooksBalance`: not once the panel has said yes |
| `RenewalUnderpaid`, `PaidInFull` | "the client never receives less than paid" (`domain/subscription.go`) | a rejection lands between the read of the expiry and the adjustment | `PaidUnlessRolledBack`; `PaidForAndNoDayMore` for renewals one at a time |
| `PushReprieve`, `SilentWhenDropped` | "subscribing again is itself proof that the device is alive" (`push.sql`) | it subscribes between `isSilent`'s verdict and the delete | `CondemnedOnlyUnheard` |
| `PushStaleCount`, `FailuresInARow` | `maxFailures` are consecutive failures (`push.go`) | a delivery of another sender resets the row, the copy of `fail_count` does not know | `CalmFailuresInARow` |
| `PushShortAbsence`, `ShortAbsenceKept` | "a phone that is simply offline for a few days must not lose its subscription" (`push.go`) | messages missed in a short absence stay unconfirmed; the next message on day 14 condemns the endpoint before it is shown | `CondemnedOnlyUnheard` |
| `PushBurst`, `ReachableKept` | an endpoint is dropped whose device "never confirms receipt" (`push.go`) | a receipt that beats `recordAccepted`'s update leaves a message counted; a later burst, before its receipts, reaches the limit | `CalmReachableKept` |
| `SchedulerRepeat`, `NeverTwice` | "a repeated pass never notifies twice" (`notifications.sql`) | a crash between the push and the log row; or the only endpoint took the message and was then dropped as silent, or answered too late, so that no row is written | `RepeatsExplained` |
| `ClientLoginEvicted`, `EvictedOnlyIfRemoved` | "the client was removed from the panel" (`client_handlers.go`) | the login asks the panel, the page a cached list from before the client was added | `EstablishedKept` |
| `PanelCacheStale`, `FreshAfterWrite` | "drops cached lists (call after writes)" (`xui/client.go`) | a list read before the write is stored after it | `StaleOnlyByOverlap` |
| `SessionsExpire`, `UsedNeverExpires` | a session used this often never expires (`session.go`) | uses within an hour of a touch leave no trace, so a session may end an hour early; a slow touch may overwrite a newer one and a slow eviction delete a row touched since | `KeptAlmostTTL`, whose `AlmostTTL` is the TTL less `touchEvery` and twice the length of a request |
| `PushSwitchOn`, `OnMeansRegistered` | "Уведомления включены на этом устройстве." (`web/src/i18n/ru.ts`) | the browser subscribed, the POST failed; after a reload the card asks the browser alone and says "on" | `UnregisteredExplained`, `SwitchRepairs` |
| `BroadcastUnlogged`, `WhatWasSentIsLogged` | a custom push is sent and written to `notifications` (`AGENT.md`, "Кастомные push") | the page gives up after fifteen seconds, the row is inserted on its ended context | `ExactlyTheAsked`, of the messages themselves |

The `Renewal…`, `Push…` and `Scheduler…` configurations run on `MCRenewal`, `MCPush` and `MCScheduler`, `PanelCacheStale` on `MCPanelReaders`; `ClientLoginEvicted`,
`SessionsExpire`, `PushSwitchOn` and `BroadcastUnlogged` on the module they are named after.

Two disagreements need no configuration of their own:

* `expiryMessage`'s comment (`notify/scheduler.go`, line 120) says that it "picks the most urgent unsent threshold". It picks the most urgent threshold that has been passed and does not
  look at what was sent; if that one was sent, `deliver` sends nothing. `UrgencyGrows` holds of the code because of that. What the comment says is the mutant `MostUrgentUnsent`, and under it
  `UrgencyGrows` fails: after "1 day left" the next pass would fall back to the unsent "3 days left". So the comment is what should change.
* `AGENT.md` says of the admin login that it takes five attempts a minute from one address (lines 165 and 224). The limiter is a token bucket with a burst of five and a rate of five a minute, which lets up to
  ten calls into the first minute; `WindowBound` is that bound, a full bucket plus what the time earns, and is not contradicted.

`AGENT.md` (on `bulkAdjust`) says that the panel skips clients without a date; `Shifted` and `Extended` rely on it.

## 6. Not modelled

* *Admin handlers*: the password login is one comparison behind the limiter (`RateLimit`) and a `Create` (`Sessions`); the statistics and the lists are
  sequential reads without a state of their own. What an admin decides is in Renewal.
* *Configuration*: parsed once at start; the modules' constants stand for its values.
* *`queries.go`*: splits embedded SQL files into statements once at start, a pure function without later state; the statements are in the modules that run them.
* *HTTP plumbing, static files, DTOs*: stateless wrapping and encoding.
* *VAPID, encryption, cookie signing, password check, TLS*: the library's, or a comparison.
* *pushctl, nginx generator, subscription page, other web screens, deploy scripts*: outside the service, or text generation. pushctl's calls are the admin handlers'.
* *Floating point* in the limiter and in `math.Ceil` of hours: modelled exactly.
* *Clock adjustments*: the models' clock never goes back.
* Inside modelled components: payload wording, `LastOnline`, SQL pagination, the constant answer of `SUB_BASE_URL`, and in Push the roles and the fan-out limit, which
  Broadcast has.

External to `src/` and modelled from how it is used: the panel (`ShiftFor`, `ShiftPart`, `LateApply`, `Edit`), the push service
(`Accept`, `Taken`), browsers (`permission`, `BrowserDrops`, `Allow`) and people.

## 7. Plan

Order of work: renewal first, since it moves money; then push and reminders, the two protocols with the most
actors; then the caches and sessions, the probe, the migrations, the browser's half of push and the broadcasts; proofs beside each once TLC
agrees. All modules of that list exist. What is left:

1. *Model.* ClientLogin over PanelCache's own list instead of a list of its own, so that login, eviction and invalidation share one cache in one behaviour.
2. *Prove.* ClientLogin's and Broadcast's invariants again once they share PanelCache's list.
