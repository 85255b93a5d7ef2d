----------------------------- MODULE PushSwitch -----------------------------
(***************************************************************************)
(* The notification switch of one browser: web/src/push.ts behind          *)
(* PushCard.tsx, open in several tabs, against the row the server keeps    *)
(* for the browser's push subscription.  Every await is a step; a request  *)
(* given up by its page (fifteen seconds, a reload) may still reach the    *)
(* server.  Only the browser's side is asked what to show.                 *)
(*                                                                         *)
(* The browser asks its owner once whether notifications may be shown; the *)
(* answer is kept until it is changed in the browser's settings, and       *)
(* taking it back ends the subscription.                                   *)
(*                                                                         *)
(* A browser's subscription is its endpoint; each new one has an endpoint  *)
(* never used before, so a number is used again only when nothing is left  *)
(* of it.                                                                  *)
(***************************************************************************)
EXTENDS Naturals, FiniteSets

CONSTANTS
    Tabs,        \* pages of the browser that show the switch
    Endpoints,   \* enough for one in use and those of leftovers
    Faults,      \* which of "request", "late", "silent", "browser" may happen
    MaxLate,     \* how many requests nobody waits for may be on their way
    None         \* the browser has no subscription

SwitchAssumption ==
    /\ None \notin Endpoints
    /\ Faults \subseteq {"request", "late", "silent", "browser"}

VARIABLES
    permission,\* Notification.permission: "default" is not asked yet
    sub,       \* the browser's subscription
    rows,      \* the endpoints in push_subscriptions
    tab,       \* tab -> what it shows and where its operation is
    late,      \* requests given up by their page and still on their way
    trouble    \* history: endpoints a visible failure has left without a row

vars == <<permission, sub, rows, tab, late, trouble>>

Resting(shown) == [at |-> "resting", shown |-> shown, ep |-> None]
Goto(t, step, e) == tab' = [tab EXCEPT ![t].at = step, ![t].ep = e]
Shows(t, shown) == tab' = [tab EXCEPT ![t] = Resting(shown)]
Request(kind, e) == [kind |-> kind, ep |-> e]
OnIts(t) == tab[t].ep

-----------------------------------------------------------------------------
(* pushState, when the card is mounted.  A card that shows "denied" has no *)
(* button.                                                                 *)

PushState(t) ==
    /\ tab[t].at = "loading"
    /\ Shows(t, IF permission = "denied" THEN "denied"
                ELSE IF sub = None THEN "off" ELSE "on")
    /\ UNCHANGED <<permission, sub, rows, late, trouble>>

-----------------------------------------------------------------------------
(* enablePush.                                                             *)

Enable(t) ==
    /\ tab[t].at = "resting" /\ tab[t].shown = "off"
    /\ Goto(t, "enabling", None)
    /\ UNCHANGED <<permission, sub, rows, late, trouble>>

Unused == {e \in Endpoints : /\ e # sub /\ e \notin rows
                             /\ \A q \in late : q.ep # e
                             /\ \A t \in Tabs : tab[t].ep # e}

(* Permission given, now or before: the subscription there is, or a new    *)
(* one, is posted. *)
Subscribe(t) ==
    /\ tab[t].at = "enabling"
    /\ permission # "denied" /\ permission' = "granted"
    /\ \/ sub # None /\ UNCHANGED <<sub, trouble>> /\ Goto(t, "posting", sub)
       \/ sub = None /\ \E e \in Unused : /\ sub' = e /\ Goto(t, "posting", e)
                                          /\ trouble' = trouble \ {e}
    /\ UNCHANGED <<rows, late>>

(* It has been refused before, or in another tab meanwhile: nobody is asked. *)
Denied(t) ==
    /\ tab[t].at = "enabling" /\ permission = "denied"
    /\ Shows(t, "denied")
    /\ UNCHANGED <<permission, sub, rows, late, trouble>>

(* The owner says no. *)
Refused(t) ==
    /\ tab[t].at = "enabling" /\ permission = "default"
    /\ permission' = "denied"
    /\ Shows(t, "denied")
    /\ UNCHANGED <<sub, rows, late, trouble>>

(* The question is left unanswered, or the browser would not subscribe. *)
NotSubscribed(t) ==
    /\ tab[t].at = "enabling"
    /\ permission' \in {permission} \cup IF permission = "default" THEN {"granted"} ELSE {}
    /\ Shows(t, "off")
    /\ UNCHANGED <<sub, rows, late, trouble>>

(* handlePushSubscribe: the upsert. *)
Upsert(t) ==
    /\ tab[t].at = "posting"
    /\ rows' = rows \cup {OnIts(t)}
    /\ trouble' = trouble \ {OnIts(t)}
    /\ Goto(t, "posted", OnIts(t))
    /\ UNCHANGED <<permission, sub, late>>

Enabled(t) ==
    /\ tab[t].at = "posted"
    /\ Shows(t, "on")
    /\ UNCHANGED <<permission, sub, rows, late, trouble>>

-----------------------------------------------------------------------------
(* disablePush.                                                            *)

(* Mutant: that there is a subscription is taken for granted. *)
DisableTheOne(t) ==
    /\ tab[t].at = "resting" /\ tab[t].shown = "on"
    /\ sub # None
    /\ Goto(t, "deleting", sub)
    /\ UNCHANGED <<permission, sub, rows, late, trouble>>

Disable(t) ==
    /\ tab[t].at = "resting" /\ tab[t].shown = "on"
    /\ IF sub = None THEN Shows(t, "off") ELSE Goto(t, "deleting", sub)
    /\ UNCHANGED <<permission, sub, rows, late, trouble>>

(* handlePushUnsubscribe: whether there was a row does not matter. *)
Delete(t) ==
    /\ tab[t].at = "deleting"
    /\ rows' = rows \ {OnIts(t)}
    /\ Goto(t, "ending", OnIts(t))
    /\ UNCHANGED <<permission, sub, late, trouble>>

(* Mutant: only the server is told. *)
ServerOnly(t) ==
    /\ tab[t].at = "ending"
    /\ Shows(t, "off")
    /\ UNCHANGED <<permission, sub, rows, late, trouble>>

(* sub.unsubscribe(), which does nothing to a subscription made since. *)
Disabled(t) ==
    /\ tab[t].at = "ending"
    /\ sub' = IF sub = OnIts(t) THEN None ELSE sub
    /\ Shows(t, "off")
    /\ UNCHANGED <<permission, rows, late, trouble>>

-----------------------------------------------------------------------------
(* What may go wrong.                                                      *)

(* What becomes of t's request when t no longer waits for it. *)
Abandoned(t) ==
    /\ trouble' = trouble \cup ({OnIts(t)} \ (rows \cup {None}))
    /\ \/ UNCHANGED late
       \/ /\ "late" \in Faults /\ Cardinality(late) < MaxLate
          /\ tab[t].at \in {"posting", "deleting"}
          /\ late' = late \cup
                {Request(IF tab[t].at = "posting" THEN "post" ELSE "delete", OnIts(t))}

(* An answer that is an error, or none in time, or unsubscribe rejects:    *)
(* the card says so and shows what it showed.                              *)
Error(t) ==
    /\ "request" \in Faults
    /\ tab[t].at \in {"posting", "posted", "deleting", "ending"}
    /\ Shows(t, tab[t].shown)
    /\ Abandoned(t)
    /\ UNCHANGED <<permission, sub, rows>>

(* The page is loaded anew, whatever it was doing. *)
Reload(t) ==
    /\ tab[t].at # "loading"
    /\ tab' = [tab EXCEPT ![t] = [at |-> "loading", shown |-> "loading", ep |-> None]]
    /\ Abandoned(t)
    /\ UNCHANGED <<permission, sub, rows>>

LateRequest ==
    /\ \E q \in late :
          /\ late' = late \ {q}
          /\ \/ UNCHANGED <<rows, trouble>>
             \/ /\ q.kind = "post"
                /\ rows' = rows \cup {q.ep} /\ trouble' = trouble \ {q.ep}
             \/ /\ q.kind = "delete"
                /\ rows' = rows \ {q.ep} /\ trouble' = trouble \cup {q.ep}
    /\ UNCHANGED <<permission, sub, tab>>

(* The push service answers 410 to a message for an endpoint of the past. *)
Gone ==
    /\ \E e \in rows \ {sub} : rows' = rows \ {e}
    /\ UNCHANGED <<permission, sub, tab, late, trouble>>

(* The server drops a live endpoint, as silent or after failures. *)
Silent ==
    /\ "silent" \in Faults
    /\ sub \in rows
    /\ rows' = rows \ {sub}
    /\ trouble' = trouble \cup {sub}
    /\ UNCHANGED <<permission, sub, tab, late>>

(* Permission withdrawn or forgotten, site data cleared. *)
BrowserDrops ==
    /\ "browser" \in Faults
    /\ sub' = None
    /\ permission' \in {permission, "default", "denied"}
    /\ <<sub', permission'>> # <<sub, permission>>
    /\ UNCHANGED <<rows, tab, late, trouble>>

(* In the settings of the browser the owner thinks better of it. *)
Allow ==
    /\ permission = "denied"
    /\ permission' \in {"default", "granted"}
    /\ UNCHANGED <<sub, rows, tab, late, trouble>>

Init ==
    /\ permission = "default" /\ sub = None /\ rows = {} /\ late = {} /\ trouble = {}
    /\ tab = [t \in Tabs |-> [at |-> "loading", shown |-> "loading", ep |-> None]]

Press(t) == Enable(t) \/ Disable(t)
Proceed(t) == PushState(t) \/ Subscribe(t) \/ Denied(t) \/ Upsert(t) \/ Enabled(t)
              \/ Delete(t) \/ Disabled(t)

(* What the owner does about a card without a button: permission may have  *)
(* been given since. *)
Reopen(t) == tab[t].shown = "denied" /\ Reload(t)

Fault == Silent \/ BrowserDrops
         \/ \E t \in Tabs : \/ Error(t) \/ Refused(t) \/ NotSubscribed(t)
                            \/ tab[t].shown # "denied" /\ Reload(t)

Next == (\E t \in Tabs : Press(t) \/ Proceed(t) \/ Reopen(t))
        \/ LateRequest \/ Gone \/ Allow \/ Fault

Spec == Init /\ [][Next]_vars

(* An operation goes on (the requests have a deadline), a request on its   *)
(* way arrives or is lost, an endpoint of the past is found out, and       *)
(* somebody who gets no notifications keeps working the switch, or loads a *)
(* page anew that shows none.                                              *)
FairSpec ==
    /\ Spec
    /\ \A t \in Tabs : WF_vars(Proceed(t)) /\ WF_vars(Press(t)) /\ WF_vars(Reopen(t))
    /\ WF_vars(LateRequest) /\ WF_vars(Gone)

-----------------------------------------------------------------------------
(* Properties.                                                             *)

(* A browser that is subscribed without the server knowing, which shows as  *)
(* "on" and receives nothing, is in the middle of an operation or is what   *)
(* an attempt that visibly failed, a request that came late or the server's *)
(* own cleaning left behind; an enabling that succeeded does not leave it.  *)
UnregisteredExplained ==
    sub # None /\ sub \notin rows =>
        \/ sub \in trouble
        \/ \E t \in Tabs : tab[t].ep = sub

(* From now on nothing fails and only t's switch is worked. *)
OnlyWorks(t) == ~Fault /\ \A u \in Tabs \ {t} : ~Press(u)

(* Whatever state the faults have left, and whatever the other tabs still   *)
(* show, working the switch in one of them ends in a subscription the       *)
(* server knows; unless permission is denied in the end, which leaves a     *)
(* card without a switch.                                                   *)
SwitchRepairs ==
    <>[](permission # "denied") =>
        \A t \in Tabs :
            <>[][OnlyWorks(t)]_vars => []<>(sub # None /\ sub \in rows)

(* The card: "Notifications are on on this device" (web/src/i18n/ru.ts).    *)
OnMeansRegistered ==
    \A t \in Tabs : tab[t].at = "resting" /\ tab[t].shown = "on" => sub \in rows
=============================================================================
