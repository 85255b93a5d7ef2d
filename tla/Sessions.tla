------------------------------ MODULE Sessions ------------------------------
(***************************************************************************)
(* Cookie sessions: internal/auth/session.go over the sessions table.      *)
(* FromRequest reads the row and decides; what it decides is carried out   *)
(* by a second statement, and other requests, a logout and the cleanup     *)
(* loop run in between.  Time is in ticks of TouchEvery or finer.  at is   *)
(* the FromRequest's own reading of the clock, taken after the read.       *)
(***************************************************************************)
EXTENDS Naturals, FiniteSets

CONSTANTS
    Ids,          \* session ids, each random and issued at most once
    Requests,     \* requests under way at the same time
    TTL,          \* SessionTTL
    TouchEvery,   \* touchEvery
    Patience,     \* the ticks a request may take
    MaxNow,       \* bound on the clock
    Faults,       \* a subset of {"db"}
    None          \* no row

ASSUME SessionsAssumption ==
    /\ TouchEvery \in Nat /\ TTL \in Nat /\ TouchEvery + 2 * Patience < TTL
    /\ Patience \in Nat /\ MaxNow \in Nat
    /\ Faults \subseteq {"db"}
    /\ None \notin Nat

VARIABLES
    now,
    lastSeen,   \* the table: id -> last_seen_at, or None without a row
    issued,     \* ids handed out
    cookie,     \* id -> a browser holds its cookie (its clock, not ours, drops it)
    request,    \* request -> where FromRequest is
    used,       \* history: id -> when it last let a request in, but for
                \* one whose touch the database failed
    lapsed      \* history: id -> it was not used for AlmostTTL at some time

vars == <<now, lastSeen, issued, cookie, request, used, lapsed>>

(* What SessionTTL promises less the use that last_seen_at may not show    *)
(* and twice the time of a request: one may overwrite a newer last_seen_at  *)
(* with its own, another may evict by a row that has been touched since.   *)
AlmostTTL == TTL - TouchEvery - 2 * Patience

Free == [step |-> "free", id |-> None, seen |-> 0, at |-> 0, age |-> 0]
Go(q, step) == request' = [request EXCEPT ![q].step = step]
Decide(q, step) == request' = [request EXCEPT ![q].step = step, ![q].at = now]
Finish(q) == request' = [request EXCEPT ![q] = Free]

Idle(seen) == now - seen

(* Create, after a magic link or the admin password; it sets the cookie. *)
Create(id) ==
    /\ id \notin issued
    /\ issued' = issued \cup {id}
    /\ lastSeen' = [lastSeen EXCEPT ![id] = now]
    /\ cookie' = [cookie EXCEPT ![id] = TRUE]
    /\ used' = [used EXCEPT ![id] = now]
    /\ lapsed' = [lapsed EXCEPT ![id] = FALSE]
    /\ UNCHANGED <<now, request>>

(* FromRequest reads the row; without one there is no session. *)
GetSession(q, id) ==
    /\ request[q] = Free
    /\ cookie[id] /\ lastSeen[id] # None
    /\ request' = [request EXCEPT ![q] =
                      [Free EXCEPT !.step = "read", !.id = id, !.seen = lastSeen[id]]]
    /\ UNCHANGED <<now, lastSeen, issued, cookie, used, lapsed>>

(* The idle time is computed after the read.  Too long: the row goes. *)
Evict(q) ==
    /\ request[q].step = "read"
    /\ Idle(request[q].seen) > TTL
    /\ Go(q, "evict")
    /\ UNCHANGED <<now, lastSeen, issued, cookie, used, lapsed>>

(* Let in, and a touch is due. *)
Admit(q) ==
    /\ request[q].step = "read"
    /\ Idle(request[q].seen) \in TouchEvery + 1 .. TTL
    /\ Decide(q, "touch")
    /\ UNCHANGED <<now, lastSeen, issued, cookie, used, lapsed>>

(* Let in, touched less than touchEvery ago. *)
AdmitAgain(q) ==
    /\ request[q].step = "read"
    /\ Idle(request[q].seen) <= TouchEvery
    /\ Decide(q, "in")
    /\ used' = [used EXCEPT ![request[q].id] = now]
    /\ UNCHANGED <<now, lastSeen, issued, cookie, lapsed>>

DeleteSession(q) ==
    /\ request[q].step = "evict"
    /\ \/ lastSeen' = [lastSeen EXCEPT ![request[q].id] = None]
       \/ "db" \in Faults /\ UNCHANGED lastSeen
    /\ Finish(q)
    /\ UNCHANGED <<now, issued, cookie, used, lapsed>>

(* Mutants: the statement's arguments swapped, so that it finds no row; an *)
(* upsert.                                                                 *)
SwappedArguments(id, at) == lastSeen[id]
UpsertedRow(id, at) == at

(* UPDATE .. WHERE id: a no-op without a row, and no error either, so the  *)
(* cookie is renewed all the same.                                         *)
TouchedRow(id, at) == IF lastSeen[id] = None THEN None ELSE at

(* Either way the request is let in; a failed touch is only logged.        *)
TouchSession(q) ==
    /\ request[q].step = "touch"
    /\ LET id == request[q].id
           at == request[q].at
       IN  \/ /\ lastSeen' = [lastSeen EXCEPT ![id] = TouchedRow(id, at)]
              /\ cookie' = [cookie EXCEPT ![id] = TRUE]
              /\ used' = [used EXCEPT ![id] = IF @ < at THEN at ELSE @]
           \/ "db" \in Faults /\ UNCHANGED <<lastSeen, cookie, used>>
    /\ Go(q, "in")
    /\ UNCHANGED <<now, issued, lapsed>>

(* The handler behind requireRole runs and answers. *)
Serve(q) ==
    /\ request[q].step = "in"
    /\ Finish(q)
    /\ UNCHANGED <<now, lastSeen, issued, cookie, used, lapsed>>

(* The handler is handleLogout, or handleMe of a client the panel's list   *)
(* no longer has: Destroy clears the cookie whatever the delete does, and  *)
(* its error is only logged.                                               *)
Destroy(q) ==
    /\ request[q].step = "in"
    /\ LET id == request[q].id
       IN  /\ cookie' = [cookie EXCEPT ![id] = FALSE]
           /\ \/ lastSeen' = [lastSeen EXCEPT ![id] = None]
              \/ "db" \in Faults /\ UNCHANGED lastSeen
    /\ Finish(q)
    /\ UNCHANGED <<now, issued, used, lapsed>>

(* What DeleteSessionsIdleBefore selects. *)
Stale == {id \in Ids : lastSeen[id] # None /\ lastSeen[id] + TTL < now}

(* One round of CleanupLoop. *)
Cleanup ==
    /\ Stale # {}
    /\ lastSeen' = [id \in Ids |-> IF id \in Stale THEN None ELSE lastSeen[id]]
    /\ UNCHANGED <<now, issued, cookie, request, used, lapsed>>

(* Handlers have deadlines of seconds; the cookie lasts for months. *)
Tick ==
    /\ now < MaxNow
    /\ \A q \in Requests : request[q] = Free \/ request[q].age < Patience
    /\ now' = now + 1
    /\ request' = [q \in Requests |->
                     IF request[q] = Free THEN Free
                     ELSE [request[q] EXCEPT !.age = @ + 1]]
    /\ lapsed' = [id \in Ids |-> lapsed[id] \/ now + 1 - used[id] > AlmostTTL]
    /\ UNCHANGED <<lastSeen, issued, cookie, used>>

Init ==
    /\ now = 0
    /\ lastSeen = [id \in Ids |-> None] /\ issued = {}
    /\ cookie = [id \in Ids |-> FALSE]
    /\ request = [q \in Requests |-> Free]
    /\ used = [id \in Ids |-> 0] /\ lapsed = [id \in Ids |-> FALSE]

Next ==
    \/ \E id \in Ids : Create(id)
    \/ \E q \in Requests, id \in Ids : GetSession(q, id)
    \/ \E q \in Requests : \/ Evict(q) \/ Admit(q) \/ AdmitAgain(q)
                           \/ DeleteSession(q) \/ TouchSession(q)
                           \/ Serve(q) \/ Destroy(q)
    \/ Cleanup
    \/ Tick

Spec == Init /\ [][Next]_vars

-----------------------------------------------------------------------------
(* Properties.                                                             *)

(* Every variable holds a value of its type. *)
TypeOK ==
    /\ now \in 0 .. MaxNow /\ issued \subseteq Ids
    /\ lastSeen \in [Ids -> 0 .. now \cup {None}]
    /\ cookie \in [Ids -> BOOLEAN]
    /\ request \in [Requests ->
          [step : {"free", "read", "evict", "touch", "in"}, id : Ids \cup {None},
           seen : 0 .. now, at : 0 .. now, age : 0 .. Patience]]
    /\ used \in [Ids -> 0 .. now] /\ lapsed \in [Ids -> BOOLEAN]

(* A session that logged out, expired or was cleaned up never comes back,   *)
(* though requests that had found it before may touch it afterwards.        *)
EndedStaysEnded ==
    [][\A id \in issued : lastSeen[id] = None => lastSeen'[id] = None]_vars

Ended(id) == lastSeen[id] # None /\ lastSeen'[id] = None

(* A session that is used again before AlmostTTL is over never ends by      *)
(* itself: neither the cleanup nor a slow request that read the row before  *)
(* another one touched it takes it away.                                    *)
KeptAlmostTTL ==
    [][\A id \in Ids : Ended(id) /\ cookie'[id] => lapsed[id]]_vars

(* SessionTTL: "a session used at least this often never expires".  Not so: *)
(* see the README.                                                          *)
UsedNeverExpires ==
    [][\A id \in Ids :
          Ended(id) /\ cookie'[id] => now - used[id] > TTL]_vars
=============================================================================
