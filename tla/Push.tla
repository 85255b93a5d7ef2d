-------------------------------- MODULE Push --------------------------------
(***************************************************************************)
(* Web Push delivery: internal/push/push.go over the push_subscriptions    *)
(* table.  Every SQL statement is one atomic step; what Go does between    *)
(* two statements (waiting for the push service, deciding from a value     *)
(* read earlier) is where the other senders, the devices and their owners  *)
(* interleave.                                                             *)
(*                                                                         *)
(* A Sender is one call of SendTo: a renewal notice, a scheduler reminder  *)
(* or an admin broadcast.  Time is counted in days.  The two clocks the    *)
(* code compares with a limit are kept as ages that stop at the limit, and *)
(* so are the counters, so no bound on the length of a run is needed.      *)
(***************************************************************************)
EXTENDS Integers, FiniteSets

CONSTANTS
    Senders,          \* broadcasts that may be under way at the same time
    Endpoints,        \* push endpoints, one per device
    MaxFailures,      \* maxFailures
    MaxUnconfirmed,   \* maxUnconfirmed
    Grace,            \* unconfirmedGrace, in days
    Faults,           \* what may go wrong, a subset of FaultKinds
    NoRow             \* the value of subs[e] when the table has no row for e

FaultKinds == {"db", "crash", "lost", "offline", "removed"}

ASSUME PushAssumption ==
    /\ MaxFailures \in Nat \ {0}
    /\ MaxUnconfirmed \in Nat \ {0}
    /\ Grace \in Nat \ {0}
    /\ Faults \subseteq FaultKinds
    /\ NoRow \notin [fail : Nat, unconfirmed : Nat, age : Nat]

VARIABLES
    subs,      \* the table: endpoint -> row or NoRow
    job,       \* sender -> endpoint -> what sendOne is about to do
    phone,     \* endpoint -> "online", "offline" or "removed"
    waiting,   \* endpoint -> the push service holds a message for the device
    heard,     \* days since the server last heard from the device
    away,      \* of those, the days the device was out of reach
    streak     \* sends that failed since the push service last accepted one

table == <<subs, job>>
device == <<phone, waiting>>
history == <<heard, away, streak>>
vars == <<subs, job, phone, waiting, heard, away, streak>>

UpTo(n, limit) == IF n < limit THEN n ELSE limit

(* A row as push.upsert writes it. *)
FreshRow == [fail |-> 0, unconfirmed |-> 0, age |-> 0]

(* sendOne's steps.  "post": the request is with the push service;        *)
(* "accepted", "refused", "gone": its answer is in hand and nothing is    *)
(* recorded yet; "silent": isSilent said yes and the delete is next.      *)
Steps == {"idle", "post", "accepted", "refused", "gone", "silent"}

(* fail is the sender's copy of fail_count, taken when it listed the rows. *)
Idle == [at |-> "idle", fail |-> 0]

Move(s, e, step) == job' = [job EXCEPT ![s][e].at = step]
End(s, e) == job' = [job EXCEPT ![s][e] = Idle]
Resting(s) == \A e \in Endpoints : job[s][e] = Idle

(* The statements of push.sql on the row of e; each is a no-op without one. *)
Delete(e) == subs' = [subs EXCEPT ![e] = NoRow]
MarkFailed(e) ==
    subs' = IF subs[e] = NoRow THEN subs
            ELSE [subs EXCEPT ![e].fail = UpTo(@ + 1, MaxFailures)]

(* Mutants of the next two: no CASE, so every message restarts the        *)
(* silence; fail_count stays; a receipt is only noted; it confirms one      *)
(* message.                                                                 *)
RestampedRow(row) ==
    [fail |-> 0, unconfirmed |-> UpTo(row.unconfirmed + 1, MaxUnconfirmed), age |-> 0]
StillFailingRow(row) ==
    [fail |-> row.fail,
     unconfirmed |-> UpTo(row.unconfirmed + 1, MaxUnconfirmed),
     age |-> IF row.unconfirmed = 0 THEN 0 ELSE row.age]
UnclearedRow(row) == row
OneConfirmedRow(row) == [row EXCEPT !.unconfirmed = @ - 1]

AcceptedRow(row) ==
    [fail |-> 0,
     unconfirmed |-> UpTo(row.unconfirmed + 1, MaxUnconfirmed),
     age |-> IF row.unconfirmed = 0 THEN 0 ELSE row.age]
ReceiptRow(row) == [row EXCEPT !.unconfirmed = 0, !.age = 0]

IsSilent(row) == row.unconfirmed >= MaxUnconfirmed /\ row.age >= Grace

-----------------------------------------------------------------------------
(* Sending.                                                                *)

(* SendToSubID, SendToAdmins, SendToAllClients: one SELECT copies the rows, *)
(* then SendTo starts a sendOne for each of them.                           *)
Broadcast(s) ==
    /\ Resting(s)
    /\ \E e \in Endpoints : subs[e] # NoRow
    /\ job' = [job EXCEPT ![s] =
                 [e \in Endpoints |->
                    IF subs[e] = NoRow THEN Idle
                    ELSE [at |-> "post", fail |-> subs[e].fail]]]
    /\ UNCHANGED <<subs, device, history>>

(* The push service has the message, for a removed web app too. *)
Taken(e) == [waiting EXCEPT ![e] = phone[e] # "removed"]

Accept(s, e) ==
    /\ job[s][e].at = "post"
    /\ Move(s, e, "accepted")
    /\ waiting' = Taken(e)
    /\ streak' = [streak EXCEPT ![e] = 0]
    /\ UNCHANGED <<subs, phone, heard, away>>

(* Any other answer than 2xx, 404 and 410, or none in time, whether or not  *)
(* the push service has taken the message. *)
Refuse(s, e) ==
    /\ job[s][e].at = "post"
    /\ Move(s, e, "refused")
    /\ waiting' \in {waiting, Taken(e)}
    /\ streak' = [streak EXCEPT ![e] = UpTo(@ + 1, MaxFailures)]
    /\ UNCHANGED <<subs, phone, heard, away>>

(* 404 or 410: only for a device that gave its subscription up. *)
Gone(s, e) ==
    /\ job[s][e].at = "post"
    /\ phone[e] = "removed"
    /\ Move(s, e, "gone")
    /\ UNCHANGED <<subs, device, history>>

(* recordAccepted: the UPDATE .. RETURNING and the verdict on its result. *)
RecordAccepted(s, e) ==
    /\ job[s][e].at = "accepted"
    /\ IF subs[e] = NoRow
         THEN End(s, e) /\ UNCHANGED subs
         ELSE LET row == AcceptedRow(subs[e])
              IN  /\ subs' = [subs EXCEPT ![e] = row]
                  /\ IF IsSilent(row) THEN Move(s, e, "silent") ELSE End(s, e)
    /\ UNCHANGED <<device, history>>

(* recordAccepted's delete, a statement of its own. *)
DropSilent(s, e) ==
    /\ job[s][e].at = "silent"
    /\ Delete(e)
    /\ End(s, e)
    /\ UNCHANGED <<device, history>>

DropGone(s, e) ==
    /\ job[s][e].at = "gone"
    /\ Delete(e)
    /\ End(s, e)
    /\ UNCHANGED <<device, history>>

(* recordFailure decides on the copy of fail_count the sender listed. *)
LastStraw(s, e) == job[s][e].fail + 1 >= MaxFailures

DropFailing(s, e) ==
    /\ job[s][e].at = "refused"
    /\ LastStraw(s, e)
    /\ Delete(e)
    /\ End(s, e)
    /\ UNCHANGED <<device, history>>

(* Below the limit, or the delete above failed. *)
RecordFailure(s, e) ==
    /\ job[s][e].at = "refused"
    /\ LastStraw(s, e) => "db" \in Faults
    /\ MarkFailed(e)
    /\ End(s, e)
    /\ UNCHANGED <<device, history>>

(* A statement fails or the caller's context is cancelled: it is logged. *)
StoreError(s, e) ==
    /\ "db" \in Faults
    /\ job[s][e].at \in {"accepted", "refused", "gone", "silent"}
    /\ End(s, e)
    /\ UNCHANGED <<subs, device, history>>

(* The process stops; the table survives. *)
Crash ==
    /\ "crash" \in Faults
    /\ \E s \in Senders : ~Resting(s)
    /\ job' = [s \in Senders |-> [e \in Endpoints |-> Idle]]
    /\ UNCHANGED <<subs, device, history>>

-----------------------------------------------------------------------------
(* The device and its owner.                                               *)

HeardFrom(e) ==
    /\ heard' = [heard EXCEPT ![e] = 0]
    /\ away' = [away EXCEPT ![e] = 0]
    /\ UNCHANGED streak

(* The service worker shows what was waiting; its receipt arrives.  An     *)
(* endpoint the table does not know gets the same 204.                     *)
Receipt(e) ==
    /\ phone[e] = "online" /\ waiting[e]
    /\ waiting' = [waiting EXCEPT ![e] = FALSE]
    /\ subs' = IF subs[e] = NoRow THEN subs
               ELSE [subs EXCEPT ![e] = ReceiptRow(@)]
    /\ HeardFrom(e)
    /\ UNCHANGED <<job, phone>>

(* sendReceipt is best effort: rate limited, refused or never sent. *)
ReceiptLost(e) ==
    /\ "lost" \in Faults
    /\ phone[e] = "online" /\ waiting[e]
    /\ waiting' = [waiting EXCEPT ![e] = FALSE]
    /\ UNCHANGED <<table, phone, history>>

(* push.upsert, from handlePushSubscribe. *)
Subscribe(e) ==
    /\ phone[e] = "online"
    /\ subs' = [subs EXCEPT ![e] = FreshRow]
    /\ HeardFrom(e)
    /\ UNCHANGED <<job, device>>

(* handlePushUnsubscribe; the browser gives the endpoint up afterwards. *)
Unsubscribe(e) ==
    /\ phone[e] = "online"
    /\ subs[e] # NoRow
    /\ Delete(e)
    /\ UNCHANGED <<job, device, history>>

SwitchOff(e) ==
    /\ "offline" \in Faults
    /\ phone[e] = "online"
    /\ phone' = [phone EXCEPT ![e] = "offline"]
    /\ UNCHANGED <<table, waiting, history>>

SwitchOn(e) ==
    /\ phone[e] = "offline"
    /\ phone' = [phone EXCEPT ![e] = "online"]
    /\ UNCHANGED <<table, waiting, history>>

(* The web app is deleted from the home screen, for good. *)
Remove(e) ==
    /\ "removed" \in Faults
    /\ phone[e] # "removed"
    /\ phone' = [phone EXCEPT ![e] = "removed"]
    /\ waiting' = [waiting EXCEPT ![e] = FALSE]
    /\ UNCHANGED <<table, history>>

(* A day passes.  sendTimeout keeps a delivery far shorter than a day; a   *)
(* device in reach has shown what was waiting; a message nobody fetched    *)
(* for defaultTTL is dropped by the push service.                          *)
Tick ==
    /\ \A s \in Senders : Resting(s)
    /\ \A e \in Endpoints : phone[e] = "online" => ~waiting[e]
    /\ subs' = [e \in Endpoints |->
                  IF subs[e] = NoRow \/ subs[e].unconfirmed = 0 THEN subs[e]
                  ELSE [subs[e] EXCEPT !.age = UpTo(@ + 1, Grace)]]
    /\ waiting' = [e \in Endpoints |-> FALSE]
    /\ heard' = [e \in Endpoints |-> UpTo(heard[e] + 1, Grace)]
    /\ away' = [e \in Endpoints |-> IF phone[e] = "online" THEN away[e]
                                    ELSE UpTo(away[e] + 1, Grace)]
    /\ UNCHANGED <<job, phone, streak>>

-----------------------------------------------------------------------------
Init ==
    /\ subs = [e \in Endpoints |-> NoRow]
    /\ job = [s \in Senders |-> [e \in Endpoints |-> Idle]]
    /\ phone = [e \in Endpoints |-> "online"]
    /\ waiting = [e \in Endpoints |-> FALSE]
    /\ heard = [e \in Endpoints |-> 0]
    /\ away = [e \in Endpoints |-> 0]
    /\ streak = [e \in Endpoints |-> 0]

(* What sendOne still has to do for e. *)
Answer(s, e) == Accept(s, e) \/ Refuse(s, e) \/ Gone(s, e)
Record(s, e) == RecordAccepted(s, e) \/ RecordFailure(s, e)
Drop(s, e) == DropSilent(s, e) \/ DropGone(s, e) \/ DropFailing(s, e)
SendOne(s, e) == Answer(s, e) \/ Record(s, e) \/ Drop(s, e)

Device(e) ==
    \/ Receipt(e) \/ ReceiptLost(e) \/ Subscribe(e) \/ Unsubscribe(e)
    \/ SwitchOff(e) \/ SwitchOn(e) \/ Remove(e)

Next ==
    \/ \E s \in Senders : Broadcast(s)
    \/ \E s \in Senders, e \in Endpoints : SendOne(s, e) \/ StoreError(s, e)
    \/ \E e \in Endpoints : Device(e)
    \/ Crash
    \/ Tick

Spec == Init /\ [][Next]_vars

(* A running sendOne comes to its end (sendTimeout bounds the only wait)    *)
(* and a device in reach shows its messages.  No failure is permanent: an   *)
(* answer, an update or a delete that is tried for ever comes off again and *)
(* again.  Days go by: no broadcasts follow each other so closely that time *)
(* stands still.  Nothing obliges anybody to send, subscribe or switch a    *)
(* phone on.                                                                *)
Fairness ==
    /\ \A s \in Senders, e \in Endpoints : WF_vars(SendOne(s, e))
    /\ \A e \in Endpoints :
         /\ SF_vars(\E s \in Senders : Answer(s, e))
         /\ SF_vars(\E s \in Senders : Record(s, e))
         /\ SF_vars(\E s \in Senders : Drop(s, e))
         /\ WF_vars(Receipt(e) \/ ReceiptLost(e))
    /\ []<><<Tick>>_vars

-----------------------------------------------------------------------------
(* Properties.                                                             *)

(* Every variable holds a value of its type. *)
TypeOK ==
    /\ subs \in [Endpoints ->
                   [fail : 0 .. MaxFailures, unconfirmed : 0 .. MaxUnconfirmed,
                    age : 0 .. Grace] \cup {NoRow}]
    /\ job \in [Senders -> [Endpoints -> [at : Steps, fail : 0 .. MaxFailures]]]
    /\ phone \in [Endpoints -> {"online", "offline", "removed"}]
    /\ waiting \in [Endpoints -> BOOLEAN]
    /\ heard \in [Endpoints -> 0 .. Grace]
    /\ away \in [Endpoints -> 0 .. Grace]
    /\ streak \in [Endpoints -> 0 .. MaxFailures]

(* unconfirmed_since never claims a longer silence than there was: while    *)
(* messages are unconfirmed, their age is at most the time since the device *)
(* last subscribed or sent a receipt, however receipts, subscriptions and   *)
(* several senders' updates interleave.                                     *)
SilenceClock ==
    \A e \in Endpoints :
        subs[e] # NoRow /\ subs[e].unconfirmed > 0 => subs[e].age <= heard[e]

(* isSilent never condemns an endpoint whose device gave a sign of life     *)
(* within the grace period.                                                 *)
Condemned(s, e) == job[s][e].at # "silent" /\ job'[s][e].at = "silent"
CondemnedOnlyUnheard ==
    [][\A s \in Senders, e \in Endpoints : Condemned(s, e) => heard[e] >= Grace]_vars

(* A device in reach, every day since it was last heard from, is not        *)
(* condemned for silence.                                                   *)
InReach(e) == phone[e] # "removed" /\ away[e] = 0
ReachableKept ==
    [][\A s \in Senders, e \in Endpoints : Condemned(s, e) => ~InReach(e)]_vars

(* maxFailures counts consecutive failures: an endpoint dropped for failing *)
(* failed that many times with no accepted message in between.              *)
FailuresInARow ==
    [][\A s \in Senders, e \in Endpoints :
          DropFailing(s, e) /\ subs[e] # NoRow
             => streak[e] >= MaxFailures]_vars

(* What is deleted for silence is silent: neither a receipt nor a new       *)
(* subscription has ended the silence by then.                              *)
SilentWhenDropped ==
    [][\A s \in Senders, e \in Endpoints :
          DropSilent(s, e) /\ subs[e] # NoRow => IsSilent(subs[e])]_vars

(* A device that was out of reach for less than the grace period keeps its  *)
(* subscription.                                                            *)
ShortAbsenceKept ==
    [][\A s \in Senders, e \in Endpoints :
          DropSilent(s, e) /\ subs[e] # NoRow => away[e] >= Grace]_vars

(* An endpoint whose web app was removed is pushed to only finitely often,  *)
(* whatever mixture of 2xx, 404 and errors the push service answers: one of *)
(* recordAccepted, recordFailure and the 404 branch ends up dropping it.    *)
DeadEndpointForgotten ==
    \A e \in Endpoints :
        <>[](phone[e] = "removed") => <>[](\A s \in Senders : job[s][e] = Idle)

=============================================================================
