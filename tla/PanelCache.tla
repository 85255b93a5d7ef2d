----------------------------- MODULE PanelCache -----------------------------
(***************************************************************************)
(* The two cached lists of internal/xui/client.go, the clients and who is  *)
(* online.  ListClients and Onlines look at the cache under the lock, ask  *)
(* the panel without it and store what came back under the lock again,     *)
(* each with a time to live of its own; BulkAdjust changes the panel and   *)
(* InvalidateCache drops both lists when its call returns.                 *)
(*                                                                         *)
(* A list's content is reduced to what became of it since the panel read   *)
(* it (a "copy"); times are ages that stop where nothing tells them apart. *)
(***************************************************************************)
EXTENDS Naturals

CONSTANTS
    Readers,     \* concurrent ListClients and Onlines calls
    Writers,     \* concurrent BulkAdjust calls
    TTL,         \* list -> cacheTTL or onlinesTTL, in ticks
    Patience,    \* how long a call, its one retry included, may take
    None

Lists == DOMAIN TTL
Clients == "clients"

ASSUME CacheAssumption ==
    /\ Clients \in Lists
    /\ \A l \in Lists : TTL[l] \in Nat \ {0}
    /\ Patience \in Nat

VARIABLES
    cache,     \* list -> what is stored, or None
    reader,    \* reader -> where its call is
    writer     \* writer -> where its BulkAdjust is

vars == <<cache, reader, writer>>

(* What the panel has just read. *)
Current == [current |-> TRUE,  \* still the panel's list
            lag |-> 0,         \* ticks since it is not
            missed |-> {},     \* applied later by these writers, not returned yet
            behind |-> FALSE]  \* an adjustment it misses has returned

Idle == [at |-> "idle"]

Copies(l) == {r \in Readers : reader[r].at = "answered" /\ reader[r].list = l}

-----------------------------------------------------------------------------
(* ListClients and Onlines.  A stored list that is still fresh is returned *)
(* as it is and nothing changes, so only a miss is a step; what a hit      *)
(* would return is a matter for the invariants.  A list past its time to   *)
(* live counts as absent from the tick on that ends it.                    *)

Miss(r, l) ==
    /\ reader[r] = Idle
    /\ cache[l] = None
    /\ reader' = [reader EXCEPT ![r] = [at |-> "asking", list |-> l, try |-> 1,
                                        age |-> 0, overlap |-> FALSE]]
    /\ UNCHANGED <<cache, writer>>

(* The panel reads its list; the answer is on its way. *)
Answer(r) ==
    /\ reader[r].at = "asking"
    /\ reader' = [reader EXCEPT ![r] =
          [at |-> "answered", list |-> @.list, try |-> @.try, age |-> @.age,
           overlap |-> @.overlap, copy |-> Current]]
    /\ UNCHANGED <<cache, writer>>

(* withRetry: one more attempt after a transport error, lost answers too. *)
Retry(r) ==
    /\ reader[r] # Idle /\ reader[r].try = 1
    /\ reader' = [reader EXCEPT ![r] =
          [at |-> "asking", list |-> @.list, try |-> 2, age |-> @.age,
           overlap |-> @.overlap]]
    /\ UNCHANGED <<cache, writer>>

(* An API error, a second transport error or a cancelled context. *)
Fail(r) ==
    /\ reader[r] # Idle
    /\ reader' = [reader EXCEPT ![r] = Idle]
    /\ UNCHANGED <<cache, writer>>

Entry(r) == [age |-> 0, overlap |-> reader[r].overlap, copy |-> reader[r].copy]

Store(r) ==
    /\ reader[r].at = "answered"
    /\ cache' = [cache EXCEPT ![reader[r].list] = Entry(r)]
    /\ reader' = [reader EXCEPT ![r] = Idle]
    /\ UNCHANGED writer

-----------------------------------------------------------------------------
(* What happens to the copies of a list while they travel and are kept.    *)

(* The panel's list changes, by these writers or by somebody else. *)
Superseded(c, writers) == [c EXCEPT !.current = FALSE, !.missed = @ \cup writers]

Changed(l, writers) ==
    /\ cache' = [cache EXCEPT ![l] =
          IF @ = None THEN None ELSE [cache[l] EXCEPT !.copy = Superseded(@, writers)]]
    /\ reader' = [r \in Readers |-> IF r \in Copies(l)
          THEN [reader[r] EXCEPT !.copy = Superseded(@, writers)] ELSE reader[r]]

(* Somebody edits a client in the panel itself, traffic is counted, a      *)
(* client connects, or an adjustment that timed out is applied after all.  *)
Edit(l) ==
    /\ Changed(l, {})
    /\ UNCHANGED writer

-----------------------------------------------------------------------------
(* BulkAdjust, never retried.                                              *)

Post(w) ==
    /\ writer[w] = "idle"
    /\ writer' = [writer EXCEPT ![w] = "posted"]
    /\ UNCHANGED <<cache, reader>>

Applied(w) ==
    /\ writer[w] = "posted"
    /\ writer' = [writer EXCEPT ![w] = "applied"]
    /\ Changed(Clients, {w})

(* A copy when w returns. *)
Overtaken(c, w) == [c EXCEPT !.behind = @ \/ w \in c.missed, !.missed = @ \ {w}]

(* What the readers under way, and their copies, are from w's return on. *)
Outrun(w, r) ==
    CASE reader[r].at = "idle" -> Idle
      [] reader[r].at = "asking" -> [reader[r] EXCEPT !.overlap = TRUE]
      [] OTHER -> [reader[r] EXCEPT !.overlap = TRUE, !.copy = Overtaken(@, w)]

(* Mutant: the lists are dropped only when the panel confirmed the change. *)
ReturnedSuccessOnly(w) ==
    /\ writer[w] \in {"posted", "applied"}
    /\ \/ cache' = [l \in Lists |-> None]
       \/ cache' = [l \in Lists |-> IF cache[l] = None THEN None
                    ELSE [cache[l] EXCEPT !.copy = Overtaken(@, w)]]
    /\ reader' = [r \in Readers |-> Outrun(w, r)]
    /\ writer' = [writer EXCEPT ![w] = "idle"]

(* The call returns, with an error or not, and InvalidateCache drops both  *)
(* lists: one step under the lock, after which the caller goes on.         *)
Returned(w) ==
    /\ writer[w] \in {"posted", "applied"}
    /\ cache' = [l \in Lists |-> None]
    /\ reader' = [r \in Readers |-> Outrun(w, r)]
    /\ writer' = [writer EXCEPT ![w] = "idle"]

-----------------------------------------------------------------------------
(* Time.                                                                   *)

Later(c) == IF c.current THEN c ELSE [c EXCEPT !.lag = @ + 1]

(* Mutant: both lists live as long as the clients do. *)
AgedAlike(l) ==
    IF cache[l] = None \/ cache[l].age + 1 >= TTL[Clients] THEN None
    ELSE [cache[l] EXCEPT !.age = @ + 1, !.copy = Later(@)]

Aged(l) ==
    IF cache[l] = None \/ cache[l].age + 1 >= TTL[l] THEN None
    ELSE [cache[l] EXCEPT !.age = @ + 1, !.copy = Later(@)]

(* requestTimeout: no call outlives Patience. *)
Tick ==
    /\ \A r \in Readers : reader[r] # Idle => reader[r].age < Patience
    /\ cache' = [l \in Lists |-> Aged(l)]
    /\ reader' = [r \in Readers |->
          CASE reader[r].at = "idle" -> Idle
            [] reader[r].at = "asking" -> [reader[r] EXCEPT !.age = @ + 1]
            [] OTHER -> [reader[r] EXCEPT !.age = @ + 1, !.copy = Later(@)]]
    /\ UNCHANGED writer

Init ==
    /\ cache = [l \in Lists |-> None]
    /\ reader = [r \in Readers |-> Idle]
    /\ writer = [w \in Writers |-> "idle"]

Next ==
    \/ \E r \in Readers : (\E l \in Lists : Miss(r, l)) \/ Answer(r) \/ Retry(r)
                          \/ Fail(r) \/ Store(r)
    \/ \E w \in Writers : Post(w) \/ Applied(w) \/ Returned(w)
    \/ \E l \in Lists : Edit(l)
    \/ Tick

Spec == Init /\ [][Next]_vars

-----------------------------------------------------------------------------
(* Properties.                                                             *)

CopyType == [current : BOOLEAN, lag : Nat, missed : SUBSET Writers, behind : BOOLEAN]
AskingType == [at : {"asking"}, list : Lists, try : {1, 2}, age : 0 .. Patience,
               overlap : BOOLEAN]
AnsweredType == [at : {"answered"}, list : Lists, try : {1, 2}, age : 0 .. Patience,
                 overlap : BOOLEAN, copy : CopyType]
EntryType == [age : Nat, overlap : BOOLEAN, copy : CopyType]

(* Every variable holds a value of its type. *)
TypeOK ==
    /\ cache \in [Lists -> EntryType \cup {None}]
    /\ reader \in [Readers -> {Idle} \cup AskingType \cup AnsweredType]
    /\ writer \in [Writers -> {"idle", "posted", "applied"}]

(* A list the cache hands out, or a call is about to return, was the        *)
(* panel's list no longer ago than its own time to live plus the longest    *)
(* call: the age is counted from the store, not from the panel's read.      *)
BoundedStaleness ==
    /\ \A l \in Lists : cache[l] # None => cache[l].copy.lag < TTL[l] + Patience
    /\ \A r \in Readers : reader[r].at = "answered" => reader[r].copy.lag <= Patience

(* What was cached before an adjustment returned does not outlive it,       *)
(* whether the panel confirmed the adjustment or not: a list that misses a  *)
(* returned adjustment can only come from a call that was under way then.   *)
StaleOnlyByOverlap ==
    \A l \in Lists : cache[l] # None /\ cache[l].copy.behind => cache[l].overlap

(* InvalidateCache: "drops cached lists (call after writes)": once an       *)
(* adjustment has returned, no list from before it is handed out.           *)
FreshAfterWrite == \A l \in Lists : cache[l] # None => ~cache[l].copy.behind
=============================================================================
