------------------------------ MODULE Renewal ------------------------------
(***************************************************************************)
(* internal/renewal/service.go over the renewal_requests table and the     *)
(* panel.  A client says "I have paid": the server inserts a pending row,  *)
(* shifts the expiry on the panel at once and lets an admin confirm the    *)
(* payment or reject it, which shifts the expiry back.                     *)
(*                                                                         *)
(* Every HTTP request is a goroutine.  One step here is one SQL statement  *)
(* or one panel call; between two steps of a handler any other handler may *)
(* run, the client may go away (its context is cancelled) or the process   *)
(* may die.  The panel and the table outlive the process.                  *)
(***************************************************************************)
EXTENDS Domain, Sequences, FiniteSets

CONSTANTS
  Subs,          \* subscription ids, each with one panel client
  Clients,       \* goroutines that may serve POST /api/renew
  Admins,        \* goroutines that may serve POST /api/admin/renewals/{id}/...
  Plans,         \* plan lengths in days (config.yaml)
  InitExpiry,    \* [Subs -> Nat]: expiry on the panel, 0 = never expires
  InitNow,       \* the clock at start
  Faults,        \* what may go wrong, see FaultKinds
  MaxRows,       \* bound: rows ever inserted
  MaxRejects,    \* bound: rollbacks attempted for one row
  MaxNow,        \* bound: last value of the clock
  None           \* no subscription

(* refused: the panel answers an error.  It works on the inbounds side by  *)
(*   side, so it has done nothing, a part, or all of what it was asked.    *)
(* lost: the caller sees an error, the write may still be applied, now or  *)
(*   later (time-out, 502, a connection cut while reading the answer).     *)
(* interrupt: the caller's context ends.  crash: the process dies.         *)
(* db: a SQL statement that writes fails (busy time-out, disk).            *)
(* read: a read of the panel or of the table fails, or the panel no longer *)
(*   knows the subscription.                                               *)
FaultKinds == {"refused", "lost", "interrupt", "crash", "db", "read"}

ASSUME ConstantsAssumption ==
  /\ Plans \subseteq Nat \ {0}
  /\ InitExpiry \in [Subs -> Nat]
  /\ InitNow \in Nat /\ MaxNow \in Nat
  /\ MaxRows \in Nat /\ MaxRejects \in Nat
  /\ Faults \subseteq FaultKinds
  /\ None \notin Subs
  /\ Clients \cap Admins = {}
  /\ IsFiniteSet(Clients) /\ IsFiniteSet(Admins)

VARIABLES
  rows,     \* renewal_requests, in order of AUTOINCREMENT id
  expiry,   \* expiryTime of each subscription on the panel
  now,      \* the wall clock
  pc,       \* where each goroutine stands in its handler
  job,      \* the local variables of that handler
  wire,     \* bulkAdjust calls given up by their caller and not yet applied
  ledger,   \* bulkAdjust calls the panel has applied, in whole or in part
  told      \* rows of the notifications table this service writes

vars == <<rows, expiry, now, pc, job, wire, ledger, told>>

Procs == Clients \cup Admins
Ids   == 1 .. MaxRows
Kinds == {"grant", "rollback"}            \* bulkAdjust with +days or -days
Statuses == {"pending", "confirmed", "rejected", "failed"}

NoJob == [op |-> "none", sub |-> None, days |-> 0, add |-> 0, at |-> 0,
          id |-> 0, after |-> 0]

(* What the service reads back of a row; plan_days, expiry_before and      *)
(* created_at are written here and only shown, or read by internal/notify. *)
Row(j) == [sub |-> j.sub, applied |-> j.add, status |-> "pending", after |-> 0]

WithOutcome(r, status, after) == [r EXCEPT !.status = status, !.after = after]

(* Mutant: the index is missing.                                           *)
NoUniqueIndex(s, except) == FALSE

(* The partial unique index renewal_requests_pending.                      *)
HasPending(s, except) ==
  \E i \in DOMAIN rows : i # except /\ rows[i].sub = s /\ rows[i].status = "pending"

Goto(p, l) == pc' = [pc EXCEPT ![p] = l]
Finish(p)  == /\ pc'  = [pc EXCEPT ![p] = "idle"]
              /\ job' = [job EXCEPT ![p] = NoJob]

(* The panel shifts a set expiry by whole days and skips an unset one.     *)
Shifted(e, days) == IF e = 0 THEN 0 ELSE e + days * Day
ShiftFor(id, kind) ==
  expiry' = [expiry EXCEPT ![rows[id].sub] =
               Shifted(@, IF kind = "grant" THEN rows[id].applied
                                            ELSE -rows[id].applied)]

(* Some of the records are shifted: the earliest of them moves by any part *)
(* of the way.                                                             *)
ShiftPart(id, kind) ==
  \E t \in 0 .. rows[id].applied * Day :
    expiry' = [expiry EXCEPT ![rows[id].sub] =
                 IF @ = 0 THEN 0 ELSE IF kind = "grant" THEN @ + t ELSE @ - t]

-----------------------------------------------------------------------------
(* Request: "I have paid".                                                 *)

StartRequest(c, s, d) ==
  /\ pc[c] = "idle"
  /\ Len(rows) < MaxRows
  /\ Goto(c, "lookup")
  /\ job' = [job EXCEPT ![c] = [NoJob EXCEPT !.op = "request", !.sub = s, !.days = d]]
  /\ UNCHANGED <<rows, expiry, now, wire, ledger, told>>

(* lookup and DaysToAdd: read the panel and fix what will be written.  An  *)
(* unlimited subscription is refused.                                      *)
LookupForRequest(c) ==
  /\ pc[c] = "lookup"
  /\ LET e == MsToTime(expiry[job[c].sub]) IN
     \/ Unlimited(e) /\ Finish(c)
     \/ /\ ~Unlimited(e)
        /\ job' = [job EXCEPT ![c].add   = DaysToAdd(job[c].days, e, now),
                              ![c].at    = now,
                              ![c].after = e]
        /\ Goto(c, "create")
  /\ UNCHANGED <<rows, expiry, now, wire, ledger, told>>

(* CreateRenewal: the insert either meets the unique index or takes the    *)
(* next id.                                                                *)
CreateRenewal(c) ==
  /\ pc[c] = "create"
  /\ UNCHANGED <<expiry, now, wire, ledger, told>>
  /\ \/ /\ HasPending(job[c].sub, 0)
        /\ Finish(c)
        /\ UNCHANGED rows
     \/ /\ ~HasPending(job[c].sub, 0)
        /\ Len(rows) < MaxRows
        /\ rows' = Append(rows, Row(job[c]))
        /\ job'  = [job EXCEPT ![c].id = Len(rows) + 1]
        /\ Goto(c, "adjust")
     \/ /\ ~HasPending(job[c].sub, 0)
        /\ Len(rows) = MaxRows            \* bound: treat the table as full
        /\ Finish(c)
        /\ UNCHANGED rows

-----------------------------------------------------------------------------
(* BulkAdjust, called by Request with the days to add and by Reject with   *)
(* their opposite.  It is never retried.                                   *)

KindOf(p)  == IF job[p].op = "request" THEN "grant" ELSE "rollback"
Key(p)     == <<job[p].id, KindOf(p)>>

(* Mutants: a failed POST is sent again; a failed rollback is ignored.     *)
RetryOnError(p) == IF job[p].op = "request"
                   THEN Goto(p, "adjust") /\ UNCHANGED job
                   ELSE Finish(p)
IgnoreOnError(p) == IF job[p].op = "request"
                    THEN Goto(p, "fail") /\ UNCHANGED job
                    ELSE Goto(p, "reread") /\ UNCHANGED job

OnError(p) == IF job[p].op = "request"
              THEN Goto(p, "fail") /\ UNCHANGED job
              ELSE Finish(p)

(* Mutant: the expiry is not read back.                                    *)
AdjustBlind(p) ==
  /\ pc[p] = "adjust"
  /\ ShiftFor(job[p].id, KindOf(p))
  /\ ledger' = [ledger EXCEPT ![Key(p)] = @ + 1]
  /\ Goto(p, IF job[p].op = "request" THEN "record" ELSE "resolve")
  /\ UNCHANGED <<rows, now, job, wire, told>>

AdjustOk(p) ==
  /\ pc[p] = "adjust"
  /\ ShiftFor(job[p].id, KindOf(p))
  /\ ledger' = [ledger EXCEPT ![Key(p)] = @ + 1]
  /\ Goto(p, "reread")
  /\ UNCHANGED <<rows, now, job, wire, told>>

AdjustRefused(p) ==
  /\ "refused" \in Faults
  /\ pc[p] = "adjust"
  /\ \/ UNCHANGED <<expiry, ledger>>
     \/ /\ ShiftPart(job[p].id, KindOf(p))
        /\ ledger' = [ledger EXCEPT ![Key(p)] = @ + 1]
  /\ OnError(p)
  /\ UNCHANGED <<rows, now, wire, told>>

AdjustLost(p) ==
  /\ "lost" \in Faults
  /\ pc[p] = "adjust"
  /\ wire' = [wire EXCEPT ![Key(p)] = @ + 1]
  /\ OnError(p)
  /\ UNCHANGED <<rows, expiry, now, ledger, told>>

(* The panel gets to a call whose caller has stopped waiting, and may fail *)
(* half-way.                                                               *)
LateApply(id, kind) ==
  /\ wire[<<id, kind>>] > 0
  /\ wire'   = [wire EXCEPT ![<<id, kind>>] = @ - 1]
  /\ ledger' = [ledger EXCEPT ![<<id, kind>>] = @ + 1]
  /\ ShiftPart(id, kind)
  /\ UNCHANGED <<rows, now, pc, job, told>>

(* readExpiry: the value read, or on failure the fallback held in after:   *)
(* ExpiryBefore for a request, the row's old ExpiryAfter for a rejection.  *)
ReadExpiry(p) ==
  /\ pc[p] = "reread"
  /\ \/ "read" \in Faults /\ UNCHANGED job
     \/ job' = [job EXCEPT ![p].after = MsToTime(expiry[job[p].sub])]
  /\ Goto(p, IF job[p].op = "request" THEN "record" ELSE "resolve")
  /\ UNCHANGED <<rows, expiry, now, wire, ledger, told>>

-----------------------------------------------------------------------------
(* Request, after the panel has answered.                                  *)

(* SetRenewalOutcome(pending, expiryAfter): the statement names the row by *)
(* id alone, whatever its status is by now; only the unique index can stop *)
(* it, and then the error is logged and the handler goes on.               *)
RecordOutcome(c) ==
  /\ pc[c] = "record"
  /\ rows' = IF HasPending(job[c].sub, job[c].id) THEN rows
             ELSE [rows EXCEPT ![job[c].id] = WithOutcome(@, "pending", job[c].after)]
  /\ Goto(c, "tell")
  /\ UNCHANGED <<expiry, now, job, wire, ledger, told>>

(* SetRenewalOutcome(failed, 0).                                           *)
MarkFailed(c) ==
  /\ pc[c] = "fail"
  /\ rows' = [rows EXCEPT ![job[c].id] = WithOutcome(@, "failed", 0)]
  /\ Finish(c)
  /\ UNCHANGED <<expiry, now, wire, ledger, told>>

-----------------------------------------------------------------------------
(* Confirm and Reject.                                                     *)

(* Rollbacks of a row that were sent or may still be: the bound's measure. *)
Rejecting(id) == {a \in Admins : job[a].op = "reject" /\ job[a].id = id}
Rollbacks(id) ==
  ledger[<<id, "rollback">>] + wire[<<id, "rollback">>] + Cardinality(Rejecting(id))

(* The row is in the admin's list from its insert on, so an admin may act  *)
(* while its Request is still waiting for the panel.                       *)
StartAdmin(a, id, op) ==
  /\ pc[a] = "idle"
  /\ op = "reject" => Rollbacks(id) < MaxRejects
  /\ Goto(a, "check")
  /\ job' = [job EXCEPT ![a] = [NoJob EXCEPT !.op = op, !.id = id]]
  /\ UNCHANGED <<rows, expiry, now, wire, ledger, told>>

(* pending: read the row and stop unless it is pending.  Reject then looks *)
(* the subscription up and skips the panel when the row applied no days.   *)
CheckPending(a) ==
  /\ pc[a] = "check"
  /\ LET r == rows[job[a].id] IN
     \/ r.status # "pending" /\ Finish(a)
     \/ /\ r.status = "pending"
        /\ job' = [job EXCEPT ![a].sub = r.sub, ![a].after = r.after]
        /\ Goto(a, IF job[a].op = "confirm" THEN "resolve"
                   ELSE IF r.applied > 0 THEN "adjust" ELSE "reread")
  /\ UNCHANGED <<rows, expiry, now, wire, ledger, told>>

(* Mutant: the name of the button is stored.                               *)
ButtonName(op) == op

Verdict(op) == IF op = "confirm" THEN "confirmed" ELSE "rejected"

Resolved(j) ==
  WithOutcome(rows[j.id], Verdict(j.op),
              IF j.op = "reject" /\ j.after > 0 THEN j.after ELSE rows[j.id].after)

(* Mutants: the statement forgets "AND status = pending"; it wants a       *)
(* recorded outcome.                                                       *)
ResolveAny(a) ==
  /\ pc[a] = "resolve"
  /\ rows' = [rows EXCEPT ![job[a].id] = Resolved(job[a])]
  /\ Goto(a, "tell")
  /\ UNCHANGED <<expiry, now, job, wire, ledger, told>>
ResolveRecorded(a) ==
  /\ pc[a] = "resolve"
  /\ rows[job[a].id].after > 0
  /\ rows' = [rows EXCEPT ![job[a].id] = Resolved(job[a])]
  /\ Goto(a, "tell")
  /\ UNCHANGED <<expiry, now, job, wire, ledger, told>>

(* ResolveRenewal: only a pending row moves.  Confirm passes expiryAfter 0,*)
(* which leaves the column alone.                                          *)
ResolveRenewal(a) ==
  /\ pc[a] = "resolve"
  /\ \/ /\ rows[job[a].id].status = "pending"
        /\ rows' = [rows EXCEPT ![job[a].id] = Resolved(job[a])]
        /\ Goto(a, "tell")
        /\ UNCHANGED job
     \/ /\ rows[job[a].id].status # "pending"
        /\ Finish(a)
        /\ UNCHANGED rows
  /\ UNCHANGED <<expiry, now, wire, ledger, told>>

(* notifyAdmins or notifyClient: push, then RecordNotification, which      *)
(* ignores a duplicate key.  Neither can fail the handler.                 *)
Tell(p) ==
  /\ pc[p] = "tell"
  /\ told' = told \cup
       {<<IF job[p].op = "request" THEN "new" ELSE Verdict(job[p].op), job[p].id>>}
  /\ Finish(p)
  /\ UNCHANGED <<rows, expiry, now, wire, ledger>>

-----------------------------------------------------------------------------
(* What may go wrong around a handler.                                     *)

ReadError(p) ==
  /\ "read" \in Faults
  /\ pc[p] \in {"lookup", "check"}
  /\ Finish(p)
  /\ UNCHANGED <<rows, expiry, now, wire, ledger, told>>

(* A statement fails: an insert or a resolve ends the handler, a failed    *)
(* SetRenewalOutcome is only logged.                                       *)
StoreError(p) ==
  /\ "db" \in Faults
  /\ \/ pc[p] \in {"create", "resolve", "fail"} /\ Finish(p)
     \/ pc[p] = "record" /\ Goto(p, "tell") /\ UNCHANGED job
  /\ UNCHANGED <<rows, expiry, now, wire, ledger, told>>

(* A context that ends makes every later statement and call of its handler *)
(* fail, so the handler does nothing more.  A call that was under way may  *)
(* still reach the panel.                                                  *)
Orphaned(S) ==
  [k \in Ids \X Kinds |->
     wire[k] + Cardinality({p \in S : pc[p] = "adjust" /\ Key(p) = k})]

Interrupt(p) ==
  /\ "interrupt" \in Faults
  /\ pc[p] # "idle"
  /\ Finish(p)
  /\ \/ UNCHANGED wire
     \/ pc[p] = "adjust" /\ wire' = Orphaned({p})
  /\ UNCHANGED <<rows, expiry, now, ledger, told>>

(* The process dies and is started again: the goroutines are gone.         *)
Crash ==
  /\ "crash" \in Faults
  /\ \E p \in Procs : pc[p] # "idle"
  /\ pc'  = [p \in Procs |-> "idle"]
  /\ job' = [p \in Procs |-> NoJob]
  /\ \E S \in SUBSET Procs : wire' = Orphaned(S)
  /\ UNCHANGED <<rows, expiry, now, ledger, told>>

Tick ==
  /\ now < MaxNow
  /\ now' = now + 1
  /\ UNCHANGED <<rows, expiry, pc, job, wire, ledger, told>>

-----------------------------------------------------------------------------
Init ==
  /\ rows = <<>>
  /\ expiry = InitExpiry
  /\ now = InitNow
  /\ pc  = [p \in Procs |-> "idle"]
  /\ job = [p \in Procs |-> NoJob]
  /\ wire   = [k \in Ids \X Kinds |-> 0]
  /\ ledger = [k \in Ids \X Kinds |-> 0]
  /\ told = {}

ClientStep(c) ==
  \/ LookupForRequest(c) \/ CreateRenewal(c) \/ RecordOutcome(c) \/ MarkFailed(c)

AdminStep(a) == CheckPending(a) \/ ResolveRenewal(a)

SharedStep(p) ==
  AdjustOk(p) \/ AdjustRefused(p) \/ AdjustLost(p) \/ ReadExpiry(p) \/ Tell(p)

Next ==
  \/ \E c \in Clients, s \in Subs, d \in Plans : StartRequest(c, s, d)
  \/ \E c \in Clients : ClientStep(c)
  \/ \E a \in Admins, id \in DOMAIN rows, op \in {"confirm", "reject"} :
        StartAdmin(a, id, op)
  \/ \E a \in Admins : AdminStep(a)
  \/ \E p \in Procs : SharedStep(p) \/ ReadError(p) \/ StoreError(p) \/ Interrupt(p)
  \/ \E id \in DOMAIN rows, kind \in Kinds : LateApply(id, kind)
  \/ Crash
  \/ Tick

Spec == Init /\ [][Next]_vars

(* Every call has a deadline (20 s on the panel, busy_timeout on SQLite),  *)
(* so a handler that nothing disturbs runs to its end, and no step of a    *)
(* confirmation is disturbed every time it is tried.  The reminder of      *)
(* internal/notify keeps asking: while a request stays pending some admin  *)
(* presses "confirm" again and again.                                      *)
Awaits(s, id) == id \in DOMAIN rows /\ rows[id].sub = s /\ rows[id].status = "pending"
Confirms(a, s) == job[a].op = "confirm" /\ Awaits(s, job[a].id)

Fairness ==
  /\ \A a \in Admins : WF_vars(AdminStep(a) \/ SharedStep(a))
  /\ \A s \in Subs :
       /\ SF_vars(\E a \in Admins, id \in Ids :
                    Awaits(s, id) /\ StartAdmin(a, id, "confirm"))
       /\ SF_vars(\E a \in Admins : Confirms(a, s) /\ CheckPending(a))
       /\ SF_vars(\E a \in Admins : Confirms(a, s) /\ ResolveRenewal(a))

FairSpec == Spec /\ Fairness

-----------------------------------------------------------------------------
(* Properties.                                                             *)

Job == [op : {"none", "request", "confirm", "reject"}, sub : Subs \cup {None},
        days : Nat, add : Nat, at : Nat, id : 0 .. MaxRows, after : Nat]

RowType == [sub : Subs, applied : Nat, status : Statuses, after : Nat]

Labels == {"idle", "lookup", "create", "adjust", "reread", "record", "fail",
           "check", "resolve", "tell"}

(* Every variable has its type.                                            *)
TypeOK ==
  /\ rows \in Seq(RowType) /\ Len(rows) <= MaxRows
  /\ expiry \in [Subs -> Int]
  /\ now \in Nat
  /\ pc \in [Procs -> Labels]
  /\ job \in [Procs -> Job]
  /\ wire \in [Ids \X Kinds -> Nat]
  /\ ledger \in [Ids \X Kinds -> Nat]
  /\ told \subseteq {"new", "confirmed", "rejected"} \X Ids

(* A subscription never has two unconfirmed requests, whatever fails and   *)
(* whoever acts first: the unique index also stops an outcome that would   *)
(* bring an old row back to pending beside a new one.                      *)
OnePending ==
  \A i, j \in DOMAIN rows :
    /\ rows[i].sub = rows[j].sub
    /\ rows[i].status = "pending" /\ rows[j].status = "pending"
    => i = j

(* The days of one request reach the panel at most once, counting a call   *)
(* that is still on its way: the POST is never repeated.                   *)
GrantedOnce ==
  \A id \in Ids : ledger[<<id, "grant">>] + wire[<<id, "grant">>] <= 1

(* Past its check and before its last statement on a row.                  *)
Working == {"adjust", "reread", "record", "fail", "resolve"}
AtWork(p, i) == job[p].id = i /\ pc[p] \in Working

(* The Request of a row may still write it.                                *)
Running(i) == \E c \in Clients : AtWork(c, i)
HandlerOf(i) == IF Running(i) THEN "running" ELSE "over"

AtRest(i) == \A p \in Procs : ~AtWork(p, i)

(* "Only a pending row is moved, so a double confirm cannot resolve it     *)
(* twice" (renewals.sql): a row of which the client has had the verdict is *)
(* not resolved again.  Fails: Request's own last update makes a resolved  *)
(* row pending once more.                                                  *)
ResolvedOnce ==
  [][\A i \in DOMAIN rows :
       rows[i].status = "pending" /\ rows'[i].status \in {"confirmed", "rejected"}
         => \A v \in {"confirmed", "rejected"} : <<v, i>> \notin told]_vars

(* What does hold: a row whose Request is over leaves pending once.        *)
FinalOnceOver ==
  [][\A i \in DOMAIN rows :
       rows[i].status # "pending" /\ ~Running(i)
         => rows'[i].status = rows[i].status]_vars

(* Seen from outside the table is a book of requests: each open one is     *)
(* settled once, and a settled one changes only by the last word of its    *)
(* own Request.  Whatever fails and whenever admins act.                   *)
Book == INSTANCE RequestBook WITH
          book <- [i \in DOMAIN rows |->
                     [sub |-> rows[i].sub, status |-> rows[i].status,
                      handler |-> HandlerOf(i)]]
BookSpec == Book!Spec

(* Right after its days are granted a subscription runs at least for the   *)
(* days paid, counted from the request.                                    *)
PaidInFull ==
  \A c \in Clients :
    pc[c] = "reread" => expiry[job[c].sub] >= job[c].at + job[c].days * Day

(* The same, of a subscription none of whose requests was ever rolled back.*)
NeverRolledBack(s) ==
  \A i \in DOMAIN rows : rows[i].sub = s => ledger[<<i, "rollback">>] = 0
PaidUnlessRolledBack ==
  \A c \in Clients :
    pc[c] = "reread" /\ NeverRolledBack(job[c].sub)
      => expiry[job[c].sub] >= job[c].at + job[c].days * Day

(* A failed row did not change the panel.                                  *)
FailedNotGranted ==
  \A i \in DOMAIN rows : rows[i].status = "failed" => ledger[<<i, "grant">>] = 0

(* The days of a rejected row are taken back exactly once.                 *)
RejectedExactly ==
  \A i \in DOMAIN rows :
    rows[i].status = "rejected" => ledger[<<i, "rollback">>] <= 1

(* Whatever interrupts its handlers, a request keeps nobody from renewing   *)
(* for ever: while the admin keeps answering, every subscription gets back  *)
(* to having none that is pending.                                          *)
NobodyLockedOut == \A s \in Subs : HasPending(s, 0) ~> ~HasPending(s, 0)
============================================================================
