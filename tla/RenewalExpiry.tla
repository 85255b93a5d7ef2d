--------------------------- MODULE RenewalExpiry ---------------------------
(***************************************************************************)
(* Renewal with a history of the dates: a subscription is muddled once     *)
(* something happened, since its newest row was inserted, that the row's   *)
(* expiry_after cannot know of.                                            *)
(***************************************************************************)
EXTENDS MCRenewal

VARIABLE muddled    \* subscriptions

evars == <<vars, muddled>>

RowsOf(s) == {i \in DOMAIN rows : rows[i].sub = s}
Newest(i) == \A j \in DOMAIN rows : rows[j].sub = rows[i].sub => j <= i

(* At work on the panel's record of the subscription, not on the row only. *)
Adjusting(p, s) == job[p].op # "confirm" /\ \E i \in RowsOf(s) : AtWork(p, i)

(* Two handlers are, so that one may move what the other has read.         *)
Overlapping(s) == \E p, q \in Procs : p # q /\ Adjusting(p, s) /\ Adjusting(q, s)

(* A handler leaves the panel without a yes, or a call comes in late.      *)
WithoutYes(s) ==
  \/ \E p \in Procs : /\ Adjusting(p, s) /\ pc[p] = "adjust"
                      /\ pc'[p] \in {"fail", "idle"}
  \/ \E i \in RowsOf(s), kind \in Kinds : LateApply(i, kind)

(* The expiry could not be read back or written.                           *)
Unread(s) ==
  \E p \in Procs :
    /\ Adjusting(p, s)
    /\ \/ pc[p] = "reread" /\ pc'[p] # "reread"
          /\ (pc'[p] = "idle" \/ job'[p].after # expiry[s])
       \/ pc[p] \in {"record", "resolve"} /\ pc'[p] # pc[p]
          /\ rows'[job[p].id].after # job[p].after

(* A new row begins with a clean record.                                   *)
Renewed(s) == RowsOf(s)' # RowsOf(s)

InitExp == Init /\ muddled = {}
NextExp ==
  /\ Next
  /\ muddled' = {s \in Subs : \/ s \in muddled /\ ~Renewed(s)
                              \/ Overlapping(s)' \/ WithoutYes(s) \/ Unread(s)}
SpecExp == InitExp /\ [][NextExp]_evars

-----------------------------------------------------------------------------
(* expiry_after of the newest row of a subscription is the expiry on the   *)
(* panel, once nobody is at work on the subscription: unless, since that   *)
(* row, a call of the panel got no yes or came in late, two handlers were  *)
(* at work at once, or the expiry could not be read back or written.       *)
RecordedExpiry ==
  \A i \in DOMAIN rows :
    Newest(i) /\ rows[i].sub \notin muddled /\ (\A j \in RowsOf(rows[i].sub) : AtRest(j))
      => rows[i].after = expiry[rows[i].sub]
============================================================================
