---------------------------- MODULE PushHistory ----------------------------
(***************************************************************************)
(* Push with a history bit: calm says that so far no statement failed, no  *)
(* receipt was lost, the process did not stop, and every broadcast began   *)
(* when no other was under way and no device had a message yet to show.    *)
(***************************************************************************)
EXTENDS Push

VARIABLE calm

Quiet ==
    /\ \A s \in Senders : Resting(s)
    /\ \A e \in Endpoints : ~waiting[e]

Storm ==
    \/ ~Quiet /\ \E s \in Senders : Broadcast(s)
    \/ \E s \in Senders, e \in Endpoints : StoreError(s, e)
    \/ \E e \in Endpoints : ReceiptLost(e)
    \/ Crash

InitCalm == Init /\ calm = TRUE
NextCalm == Next /\ calm' = (calm /\ ~Storm)
SpecCalm == InitCalm /\ [][NextCalm]_<<vars, calm>> /\ Fairness

(* In calm: a device in reach, every day since it was last heard from, is  *)
(* not condemned for silence, even when its receipt beats recordAccepted's *)
(* update and leaves one confirmed message counted for good.               *)
CalmReachableKept ==
    [][\A s \in Senders, e \in Endpoints :
          calm /\ Condemned(s, e) => ~InReach(e)]_<<vars, calm>>

(* In calm: maxFailures counts consecutive failures.  Calm leaves out the   *)
(* broadcasts that overlap, whose copies of fail_count may be old: what     *)
(* those do is FailuresInARow's run.                                        *)
CalmFailuresInARow ==
    [][\A s \in Senders, e \in Endpoints :
          calm /\ DropFailing(s, e) /\ subs[e] # NoRow
             => streak[e] >= MaxFailures]_<<vars, calm>>
=============================================================================
