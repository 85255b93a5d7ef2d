---------------------------- MODULE ClientLogin ----------------------------
(***************************************************************************)
(* One client's way in: the magic link asks the panel itself whether the   *)
(* client exists (FindBySubID), and the page behind it asks the cached     *)
(* list (ClientsBySubID) and ends the session of a client it does not      *)
(* find.  Several devices of the client, the other users of the list and   *)
(* an admin who adds and removes the client in the panel interleave.       *)
(*                                                                         *)
(* The list is reduced to whether it holds this client.  Clocks are kept   *)
(* as ages that stop where the code no longer tells them apart, so no      *)
(* bound on the length of a run is needed.                                 *)
(***************************************************************************)
EXTENDS Naturals

CONSTANTS
    Devices,     \* browsers of the client
    Others,      \* other callers of ListClients: the scheduler, admins, clients
    TTL,         \* cacheTTL, in ticks
    Patience,    \* how long a call of the panel may take, its retry included
    PageTime,    \* how long after its request a page is answered, if at all:
                 \* the server's WriteTimeout
    None         \* no cached list

LoginAssumption ==
    /\ TTL \in Nat \ {0} /\ Patience \in Nat /\ PageTime \in Nat
    /\ Devices \cap Others = {}
    /\ None \notin [has : BOOLEAN, age : Nat]

Callers == Devices \cup Others

(* From here on a page whose list differs from the panel's is out of date  *)
(* for sure: a call filled the cache, the list was kept, a page was made   *)
(* of it.                                                                  *)
Horizon == Patience + TTL + PageTime

VARIABLES
    listed,    \* the panel has the client
    changed,   \* ticks since that last changed
    cache,     \* [has, age] or None
    call,      \* caller -> where its handler is
    session,   \* device -> it holds a live session
    missing    \* history: device -> the client was off the panel since its login

vars == <<listed, changed, cache, call, session, missing>>

Idle == [at |-> "idle", age |-> 0, has |-> FALSE]

Go(c, step) == call' = [call EXCEPT ![c].at = step]
Finish(c) == call' = [call EXCEPT ![c] = Idle]
UpTo(n, limit) == IF n < limit THEN n ELSE limit

-----------------------------------------------------------------------------
(* GET /s/{subId}.                                                         *)

OpenLink(d) ==
    /\ call[d] = Idle
    /\ Go(d, "finding")
    /\ UNCHANGED <<listed, changed, cache, session, missing>>

Found(d) ==
    /\ call[d].at = "finding"
    /\ listed
    /\ Go(d, "found")
    /\ UNCHANGED <<listed, changed, cache, session, missing>>

(* Not on the panel, or the panel did not answer: a page that says so. *)
NotFound(d) ==
    /\ call[d].at = "finding"
    /\ Finish(d)
    /\ UNCHANGED <<listed, changed, cache, session, missing>>

CreateSession(d) ==
    /\ call[d].at = "found"
    /\ \/ /\ session' = [session EXCEPT ![d] = TRUE]
          /\ missing' = [missing EXCEPT ![d] = ~listed]
       \/ UNCHANGED <<session, missing>>
    /\ Finish(d)
    /\ UNCHANGED <<listed, changed, cache>>

-----------------------------------------------------------------------------
(* ListClients, on behalf of GET /api/me or of anybody else.               *)

(* Mutant: an entry is used for one tick too long. *)
FreshTooLong == cache # None /\ cache.age <= TTL

Fresh == cache # None /\ cache.age < TTL

MayList(c) == call[c] = Idle /\ (c \in Devices => session[c])

Hit(c) ==
    /\ MayList(c) /\ Fresh
    /\ call' = [call EXCEPT ![c] = [at |-> "listed", age |-> 0, has |-> cache.has]]
    /\ UNCHANGED <<listed, changed, cache, session, missing>>

Miss(c) ==
    /\ MayList(c) /\ ~Fresh
    /\ Go(c, "asking")
    /\ UNCHANGED <<listed, changed, cache, session, missing>>

Answer(c) ==
    /\ call[c].at = "asking"
    /\ call' = [call EXCEPT ![c].at = "answered", ![c].has = listed]
    /\ UNCHANGED <<listed, changed, cache, session, missing>>

Store(c) ==
    /\ call[c].at = "answered"
    /\ cache' = [has |-> call[c].has, age |-> 0]
    /\ Go(c, "listed")
    /\ UNCHANGED <<listed, changed, session, missing>>

(* 502 for the page, an empty pass for the scheduler. *)
Fail(c) ==
    /\ call[c].at \in {"asking", "answered"}
    /\ Finish(c)
    /\ UNCHANGED <<listed, changed, cache, session, missing>>

-----------------------------------------------------------------------------
(* What handleMe makes of the list.                                        *)

(* Mutant: any trouble with the list ends the session. *)
EvictOnError(d) ==
    /\ call[d].at \in {"asking", "answered"} \/ (call[d].at = "listed" /\ ~call[d].has)
    /\ session' = [session EXCEPT ![d] = FALSE]
    /\ Finish(d)
    /\ UNCHANGED <<listed, changed, cache, missing>>

(* ErrNotFound: Destroy clears the cookie whatever becomes of the row. *)
Evict(d) ==
    /\ call[d].at = "listed" /\ ~call[d].has
    /\ session' = [session EXCEPT ![d] = FALSE]
    /\ Finish(d)
    /\ UNCHANGED <<listed, changed, cache, missing>>

(* The page, or an error or nothing instead of it; whatever else is done    *)
(* with a list. *)
Show(c) ==
    /\ call[c].at = "listed"
    /\ c \in Devices => call[c].has
    /\ Finish(c)
    /\ UNCHANGED <<listed, changed, cache, session, missing>>

Logout(d) ==
    /\ call[d] = Idle /\ session[d]
    /\ session' = [session EXCEPT ![d] = FALSE]
    /\ UNCHANGED <<listed, changed, cache, call, missing>>

-----------------------------------------------------------------------------
(* The rest of the world.                                                  *)

Add ==
    /\ ~listed
    /\ listed' = TRUE /\ changed' = 0
    /\ UNCHANGED <<cache, call, session, missing>>

Remove ==
    /\ listed
    /\ listed' = FALSE /\ changed' = 0
    /\ missing' = [d \in Devices |-> TRUE]
    /\ UNCHANGED <<cache, call, session>>

(* Somebody's BulkAdjust. *)
InvalidateCache ==
    /\ cache # None
    /\ cache' = None
    /\ UNCHANGED <<listed, changed, call, session, missing>>

(* requestTimeout bounds a call.  With the list in hand the page still asks *)
(* who is online, reads the database and loads the link; what comes of it  *)
(* later than PageTime is not written to anybody. *)
Deadline(c) == IF call[c].at \in {"found", "listed"} THEN PageTime ELSE Patience
Tick ==
    /\ \A c \in Callers : call[c] # Idle => call[c].age < Deadline(c)
    /\ changed' = UpTo(changed + 1, Horizon)
    /\ cache' = IF cache = None THEN None ELSE [cache EXCEPT !.age = UpTo(@ + 1, TTL + 1)]
    /\ call' = [c \in Callers |-> IF call[c] = Idle THEN Idle
                                  ELSE [call[c] EXCEPT !.age = @ + 1]]
    /\ UNCHANGED <<listed, session, missing>>

Init ==
    /\ listed = FALSE /\ changed = Horizon
    /\ cache = None
    /\ call = [c \in Callers |-> Idle]
    /\ session = [d \in Devices |-> FALSE]
    /\ missing = [d \in Devices |-> TRUE]

Next ==
    \/ \E d \in Devices : \/ OpenLink(d) \/ Found(d) \/ NotFound(d) \/ CreateSession(d)
                          \/ Evict(d) \/ Logout(d)
    \/ \E c \in Callers : Hit(c) \/ Miss(c) \/ Answer(c) \/ Store(c) \/ Fail(c) \/ Show(c)
    \/ Add \/ Remove \/ InvalidateCache
    \/ Tick

Spec == Init /\ [][Next]_vars

-----------------------------------------------------------------------------
(* Properties.                                                             *)

(* A client removed from the panel is shown nothing once the longest call,  *)
(* the lifetime of a cached list and the making of a page have passed,      *)
(* whoever filled the cache.                                                *)
RemovedSeesNothing ==
    \A d \in Devices :
        call[d].at = "listed" /\ call[d].has => listed \/ changed < Horizon

(* A client who has been on the panel for that long is never thrown out by  *)
(* its own page.                                                            *)
EstablishedKept ==
    [][\A d \in Devices :
          Evict(d) => ~listed \/ changed < Horizon]_vars

(* A session ends against the client's will only if the panel did not have  *)
(* the client at some moment since the login, as handleMe's comment says:   *)
(* "The client was removed from the panel".                                 *)
EvictedOnlyIfRemoved ==
    [][\A d \in Devices : Evict(d) => missing[d]]_vars
=============================================================================
