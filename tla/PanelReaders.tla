---------------------------- MODULE PanelReaders ----------------------------
(***************************************************************************)
(* The cached list of clients (PanelCache), and two handlers that act on   *)
(* what it says: the page of a client, which ends the session of one who   *)
(* is not on it (ClientLogin), and an admin's notification to addresses    *)
(* looked up in it (Broadcast).  PanelCache says how old and how wrong a   *)
(* list may be; the other two follow one client, and a few addresses,      *)
(* through lists of that kind.                                             *)
(*                                                                         *)
(* Each has its own view of the list and no two share a variable, so one   *)
(* of them moves in each behaviour and the states add up.                  *)
(***************************************************************************)
EXTENDS PanelCache, FiniteSets

CONSTANTS
    Devices, Others, ListTTL, PageTime,              \* of ClientLogin
    SubIDs, Emails, Endpoints, SendConcurrency,      \* of Broadcast
    Faults, Empty, Absent

VARIABLES
    part,                                            \* whose behaviour it is
    listed, changed, kept, call, session, missing,
    book, rows, req, had, held, told

Login == INSTANCE ClientLogin WITH TTL <- ListTTL, cache <- kept
Custom == INSTANCE Broadcast

ASSUME ReadersAssumption == Login!LoginAssumption /\ Custom!BroadcastAssumption

loginVars == <<listed, changed, kept, call, session, missing>>
customVars == <<book, rows, req, had, held, told>>
allVars == <<part, vars, loginVars, customVars>>

ReadersInit ==
    /\ part \in {"cache", "me", "push"}
    /\ Init /\ Login!Init /\ Custom!Init

ReadersNext ==
    \/ part = "cache" /\ Next /\ UNCHANGED <<part, loginVars, customVars>>
    \/ part = "me" /\ Login!Next /\ UNCHANGED <<part, vars, customVars>>
    \/ part = "push" /\ Custom!Next /\ UNCHANGED <<part, vars, loginVars>>

ReadersSpec == ReadersInit /\ [][ReadersNext]_allVars

-----------------------------------------------------------------------------
(* The properties, each stated and explained in its module; those of        *)
(* PanelCache keep their names.                                             *)

(* ClientLogin: a removed client is shown nothing once lists have expired.  *)
RemovedSeesNothing == Login!RemovedSeesNothing

(* ClientLogin: an established client is not thrown out by its own page.    *)
EstablishedKept == Login!EstablishedKept

(* Broadcast: the message reaches whom the admin asked for, and only them.  *)
ExactlyTheAsked == Custom!ExactlyTheAsked
=============================================================================
