----------------------------- MODULE Broadcast -----------------------------
(***************************************************************************)
(* handleAdminPush of internal/httpapi/broadcast_handlers.go: who a custom *)
(* notification goes to and what is left of it when the admin's page stops *)
(* waiting.  The statements and calls of the handler are steps; between    *)
(* them clients subscribe, leave and change in the panel.  What a delivery *)
(* does to the endpoint's counters is the module Push.                     *)
(***************************************************************************)
EXTENDS FiniteSets, Naturals

CONSTANTS
    SubIDs,            \* subscription ids of clients
    Emails,            \* e-mail addresses an admin may name
    Endpoints,         \* push endpoints
    SendConcurrency,   \* sendConcurrency
    Faults,            \* what may go wrong, of "db" and "giveup"
    Empty,             \* the empty string, as a subscription id or an address
    Absent             \* no such client, no such row

BroadcastAssumption ==
    /\ SendConcurrency \in Nat \ {0} /\ Faults \subseteq {"db", "giveup"}
    /\ Empty \notin SubIDs \cup Emails /\ Absent \notin SubIDs \cup {Empty}

VARIABLES
    book,      \* address -> the subscription id ListClients gives it
    rows,      \* endpoint -> the push_subscriptions row
    req,       \* where the handler is
    had,       \* address -> what book gave it since the request came in
    held,      \* endpoint -> the rows it had since then
    told       \* endpoints the request's message has been sent to

vars == <<book, rows, req, had, held, told>>
world == <<book, rows, had, held, told>>

Row(role, id) == [role |-> role, sub |-> id]
RowType == {Row("client", id) : id \in SubIDs} \cup {Row("admin", Empty), Absent}

Everyone == [every |-> TRUE, ids |-> {}]          \* the nil slice
These(ids) == [every |-> FALSE, ids |-> ids]

Target == [all : BOOLEAN, ids : SUBSET (SubIDs \cup {Empty}), emails : SUBSET (Emails \cup {Empty})]
NoTarget == [all |-> FALSE, ids |-> {}, emails |-> {}]

Idle == [at |-> "idle", target |-> NoTarget, subIDs |-> These({}), unknown |-> {},
         queued |-> {}, sending |-> {}, cancelled |-> FALSE, logged |-> FALSE]

Refused == req' = [Idle EXCEPT !.at = "refused"]

-----------------------------------------------------------------------------
(* The handler.                                                            *)

(* The body is read; its title, text and link are in order. *)
Ask ==
    /\ req.at \in {"idle", "refused", "done"}
    /\ \E target \in Target : req' = [Idle EXCEPT !.at = "asked", !.target = target]
    /\ had' = [m \in Emails |-> {book[m]}]
    /\ held' = [e \in Endpoints |-> {rows[e]}]
    /\ told' = {}
    /\ UNCHANGED <<book, rows>>

OneTarget(target) ==
    \/ target.all /\ target.ids = {} /\ target.emails = {}
    \/ ~target.all /\ target.ids # {} /\ target.emails = {}
    \/ ~target.all /\ target.ids = {} /\ target.emails # {}

NotOneTarget ==
    /\ req.at = "asked" /\ ~OneTarget(req.target)
    /\ Refused
    /\ UNCHANGED world

ById ==
    /\ req.at = "asked" /\ OneTarget(req.target) /\ req.target.emails = {}
    /\ req' = [req EXCEPT !.at = "resolved",
                          !.subIDs = IF req.target.all THEN Everyone ELSE These(req.target.ids)]
    /\ UNCHANGED world

(* Blank addresses are passed over; a client without a subscription id     *)
(* cannot be notified.                                                     *)
Known(emails) == {m \in emails \ {Empty} : book[m] \in SubIDs}

ByEmail ==
    /\ req.at = "asked" /\ OneTarget(req.target) /\ req.target.emails # {}
    /\ LET known == Known(req.target.emails)
       IN  \/ known = {} /\ Refused
           \/ known # {} /\ req' = [req EXCEPT !.at = "resolved",
                  !.subIDs = These({book[m] : m \in known}),
                  !.unknown = req.target.emails \ (known \cup {Empty})]
    /\ UNCHANGED world

PanelUnavailable ==
    /\ req.at = "asked" /\ OneTarget(req.target) /\ req.target.emails # {}
    /\ Refused
    /\ UNCHANGED world

(* Mutant: ids pick rows of any role. *)
AnyRoleChosen(r, role, subIDs) ==
    /\ r # Absent
    /\ IF subIDs.every THEN r.role = role ELSE r.sub \in subIDs.ids

(* The statement pushListQuery picks. *)
Chosen(r, role, subIDs) ==
    /\ r # Absent /\ r.role = role
    /\ subIDs.every \/ r.sub \in subIDs.ids

Listed(role, subIDs) == {e \in Endpoints : Chosen(rows[e], role, subIDs)}

ListPushSubscriptions ==
    /\ req.at = "resolved" /\ ~req.cancelled
    /\ req' = [req EXCEPT !.at = "sending", !.queued = Listed("client", req.subIDs)]
    /\ UNCHANGED world

ListFailed ==
    /\ req.at = "resolved" /\ (req.cancelled \/ "db" \in Faults)
    /\ Refused
    /\ UNCHANGED world

(* SendTo: a slot is free and the next recipient's sendOne starts. *)
Start(e) ==
    /\ req.at = "sending" /\ ~req.cancelled /\ e \in req.queued
    /\ Cardinality(req.sending) < SendConcurrency
    /\ req' = [req EXCEPT !.queued = @ \ {e}, !.sending = @ \cup {e}]
    /\ UNCHANGED world

(* The push service answers; 404 and 410 delete the row. *)
Sent(e) ==
    /\ e \in req.sending
    /\ req' = [req EXCEPT !.sending = @ \ {e}]
    /\ told' = told \cup {e}
    /\ \/ UNCHANGED <<rows, held>>
       \/ /\ ~req.cancelled
          /\ rows' = [rows EXCEPT ![e] = Absent]
          /\ held' = [held EXCEPT ![e] = @ \cup {Absent}]
    /\ UNCHANGED <<book, had>>

(* The request's context is over: no answer is waited for, and what has    *)
(* not started fails without the push service.                             *)
CutOff(e) ==
    /\ req.cancelled /\ e \in req.queued \cup req.sending
    /\ req' = [req EXCEPT !.queued = @ \ {e}, !.sending = @ \ {e}]
    /\ UNCHANGED world

(* wg.Wait returns; the row of the notifications table; the answer. *)
RecordNotification ==
    /\ req.at = "sending" /\ req.queued = {} /\ req.sending = {}
    /\ \E ok \in BOOLEAN : /\ req.cancelled => ~ok
                           /\ ok \/ req.cancelled \/ "db" \in Faults
                           /\ req' = [req EXCEPT !.at = "done", !.logged = ok]
    /\ UNCHANGED world

-----------------------------------------------------------------------------
(* The others.                                                             *)

(* The page has waited fifteen seconds, or was closed: r.Context() ends. *)
GiveUp ==
    /\ "giveup" \in Faults
    /\ req.at \in {"asked", "resolved", "sending"} /\ ~req.cancelled
    /\ req' = [req EXCEPT !.cancelled = TRUE]
    /\ UNCHANGED world

(* handlePushSubscribe under some session, and handlePushUnsubscribe. *)
Subscription(e) ==
    /\ \E r \in RowType \ {rows[e]} : /\ rows' = [rows EXCEPT ![e] = r]
                                      /\ held' = [held EXCEPT ![e] = @ \cup {r}]
    /\ UNCHANGED <<book, req, had, told>>

PanelEdit(m) ==
    /\ \E id \in (SubIDs \cup {Empty, Absent}) \ {book[m]} :
          book' = [book EXCEPT ![m] = id] /\ had' = [had EXCEPT ![m] = @ \cup {id}]
    /\ UNCHANGED <<rows, req, held, told>>

Init ==
    /\ book = [m \in Emails |-> Absent]
    /\ rows = [e \in Endpoints |-> Absent]
    /\ req = Idle
    /\ had = [m \in Emails |-> {Absent}]
    /\ held = [e \in Endpoints |-> {Absent}]
    /\ told = {}

Next ==
    \/ Ask \/ NotOneTarget \/ ById \/ ByEmail \/ PanelUnavailable
    \/ ListPushSubscriptions \/ ListFailed \/ RecordNotification \/ GiveUp
    \/ \E e \in Endpoints : Start(e) \/ Sent(e) \/ CutOff(e) \/ Subscription(e)
    \/ \E m \in Emails : PanelEdit(m)

Spec == Init /\ [][Next]_vars

-----------------------------------------------------------------------------
(* Properties.                                                             *)

(* The request may mean id: it did at some moment since it came in.         *)
MayMean(id) ==
    \/ req.target.all
    \/ id \in req.target.ids
    \/ \E m \in req.target.emails \ {Empty} : id \in had[m]

(* The request means the steady row r whatever moment one looks at.         *)
Means(r) ==
    /\ r # Absent /\ r.role = "client"
    /\ \/ req.target.all
       \/ r.sub \in req.target.ids
       \/ \E m \in req.target.emails \ {Empty} : had[m] = {r.sub}

(* A message never reaches a device that at no moment of the request was a  *)
(* client's the admin asked for, an admin's own device or a stranger's; and *)
(* if the page waits, a device that was one all along is not passed over,   *)
(* nor an address that had no client all along kept from the admin.         *)
ExactlyTheAsked ==
    /\ \A e \in told : \E r \in held[e] : /\ r # Absent /\ r.role = "client"
                                          /\ MayMean(r.sub)
    /\ req.at = "done" /\ ~req.cancelled =>
          /\ \A e \in Endpoints, r \in RowType : held[e] = {r} /\ Means(r) => e \in told
          /\ \A m \in req.target.emails \ {Empty} :
                had[m] = {Absent} => m \in req.unknown

(* AGENT.md: a custom notification is sent and written to notifications.    *)
WhatWasSentIsLogged == req.at = "done" /\ told # {} => req.logged
=============================================================================
