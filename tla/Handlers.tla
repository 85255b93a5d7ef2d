------------------------------ MODULE Handlers ------------------------------
(***************************************************************************)
(* What the request handlers of internal/httpapi keep or guard of their    *)
(* own, side by side: GET /healthz (HealthProbe), the link in GET /api/me  *)
(* (SubLink), POST and DELETE /api/push/subscribe as the page's switch     *)
(* calls them (PushSwitch), and the limiter in front of GET /s/{subId} and *)
(* the admin's login (RateLimit).                                          *)
(*                                                                         *)
(* No two of them share a variable, and every property is about one of     *)
(* them; so the steps of different handlers commute, and it is enough to   *)
(* let one handler move in each behaviour.  The states add up instead of   *)
(* multiplying.                                                            *)
(***************************************************************************)
EXTENDS HealthProbe, FiniteSets

CONSTANTS
    None,
    Bases,                           \* of SubLink
    Tabs, Endpoints, Faults, MaxLate,\* of PushSwitch
    Keys, Rate, Burst, Cost, SweepEvery, SweepAge, MaxWindow, NoBucket  \* of RateLimit

VARIABLES
    part,                            \* whose behaviour it is
    subBase, old, subLoad, closed, caller,
    permission, sub, rows, tab, late, trouble,
    buckets, calls, exact, window

Link == INSTANCE SubLink
Switching == INSTANCE PushSwitch
Limiter == INSTANCE RateLimit

ASSUME HandlersAssumption ==
    Link!SubLinkAssumption /\ Switching!SwitchAssumption /\ Limiter!RateAssumption

linkVars == <<subBase, old, subLoad, closed, caller>>
switchVars == <<permission, sub, rows, tab, late, trouble>>
limiterVars == <<buckets, calls, exact, window>>
allVars == <<part, vars, linkVars, switchVars, limiterVars>>

Healthz == part = "healthz" /\ UNCHANGED <<part, linkVars, switchVars, limiterVars>>
SubscriptionURL == part = "link" /\ UNCHANGED <<part, vars, switchVars, limiterVars>>
PushSubscribe == part = "subscribe" /\ UNCHANGED <<part, vars, linkVars, limiterVars>>
AllowRequest == part = "limiter" /\ UNCHANGED <<part, vars, linkVars, switchVars>>

HandlersInit ==
    /\ part \in {"healthz", "link", "subscribe", "limiter"}
    /\ Init /\ (up => part = "healthz")
    /\ Link!Init /\ Switching!Init /\ Limiter!Init

HandlersNext ==
    \/ Healthz /\ Next
    \/ SubscriptionURL /\ Link!Next
    \/ PushSubscribe /\ Switching!Next
    \/ AllowRequest /\ Limiter!Next

HandlersSpec == HandlersInit /\ [][HandlersNext]_allVars

(* The fairness each module states and gives its reasons for. *)
HandlersFairSpec ==
    /\ HandlersSpec
    /\ \A c \in Callers : /\ WF_allVars(Healthz /\ Probing(c))
                          /\ WF_allVars(Healthz /\ Ask(c))
                          /\ WF_allVars(SubscriptionURL /\ Link!Progress(c))
    /\ SF_allVars(Healthz /\ Tick)
    /\ \A t \in Tabs : /\ WF_allVars(PushSubscribe /\ Switching!Proceed(t))
                       /\ WF_allVars(PushSubscribe /\ Switching!Press(t))
                       /\ WF_allVars(PushSubscribe /\ Switching!Reopen(t))
    /\ WF_allVars(PushSubscribe /\ Switching!LateRequest)
    /\ WF_allVars(PushSubscribe /\ Switching!Gone)

-----------------------------------------------------------------------------
(* The properties, each stated and explained in its module; those of        *)
(* HealthProbe keep their names.                                            *)

(* SubLink: one read of the settings at a time, waited for by its waiters.  *)
OneLoad == Link!OneLoad

(* SubLink: a failing panel does not cost the base that was known.          *)
BaseSurvives == Link!BaseSurvives

(* SubLink: whoever waits for the link or reads it is answered.             *)
EveryCallerAnswered == Link!EveryCallerAnswered

(* PushSwitch: where a subscription the server does not know comes from.    *)
UnregisteredExplained == Switching!UnregisteredExplained

(* RateLimit: sweeping takes no request away and gives none.                *)
SweepInvisible == Limiter!SweepInvisible

(* RateLimit: no stretch of time lets more in than it earns, and a bucket.  *)
WindowBound == Limiter!WindowBound

(* PushSwitch: working the switch repairs what faults have left.            *)
SwitchRepairs == part = "subscribe" => Switching!SwitchRepairs
=============================================================================
