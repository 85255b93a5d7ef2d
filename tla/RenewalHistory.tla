-------------------------- MODULE RenewalHistory ---------------------------
(***************************************************************************)
(* Renewal with a history: what has happened to a request that its row     *)
(* does not show.  The service cannot make the panel and the table one     *)
(* transaction; what it does owe is that a row that is wrong is wrong for  *)
(* one of these reasons and no other.                                      *)
(***************************************************************************)
EXTENDS MCRenewal

VARIABLE marks    \* pairs of a request and what happened to it

Marks == {"grant", "rollback", "unwritten", "crossed", "overwritten"}

hvars == <<vars, marks>>

(* Its call of the panel ended without a yes: refused, lost or cut off.    *)
Unanswered(i, kind) ==
  \E p \in Procs : /\ AtWork(p, i) /\ KindOf(p) = kind
                   /\ pc[p] = "adjust" /\ pc'[p] \in {"fail", "idle"}

(* A Reject had the panel's yes and ended without its verdict.             *)
Unwritten(i) ==
  \E a \in Admins : /\ AtWork(a, i) /\ job[a].op = "reject"
                    /\ pc[a] # "adjust" /\ pc'[a] = "idle"

(* A Reject and another handler were at work on it at once.                *)
Crossing(i) ==
  \E a \in Admins, p \in Procs :
    p # a /\ job[a].op = "reject" /\ AtWork(a, i) /\ AtWork(p, i)

(* Its Request wrote over a verdict.                                       *)
Overwritten(i) ==
  /\ rows[i].status \in {"confirmed", "rejected"}
  /\ \E c \in Clients : job[c].id = i /\ (RecordOutcome(c) \/ MarkFailed(c))
  /\ rows'[i].status # rows[i].status

Happened(i, what) ==
  CASE what \in Kinds        -> Unanswered(i, what)
    [] what = "unwritten"    -> Unwritten(i)
    [] what = "crossed"      -> Crossing(i)'
    [] what = "overwritten"  -> Overwritten(i)

Is(i, what) == <<i, what>> \in marks

InitHistory == Init /\ marks = {}
NextHistory ==
  /\ Next
  /\ marks' = marks \cup {m \in (DOMAIN rows) \X Marks : Happened(m[1], m[2])}
SpecHistory == InitHistory /\ [][NextHistory]_hvars
FairHistory == SpecHistory /\ Fairness

-----------------------------------------------------------------------------
(* The client is never told "confirmed" or "rejected" of a row whose       *)
(* status says otherwise, so never both: unless the row's own Request,     *)
(* late with its outcome, wrote over the verdict.                          *)
ToldTheOutcome ==
  \A i \in DOMAIN rows, v \in {"confirmed", "rejected"} :
    <<v, i>> \in told => rows[i].status = v \/ Is(i, "overwritten")

(* Nobody at work on a row, the panel and the table agree about it.  Once  *)
(* the panel has said yes to a grant, the days are there and the row never *)
(* says "failed", whatever the table, the client or the process did next.  *)
(* The days are taken back once if it was rejected and not at all if it    *)
(* was not, unless a Reject got no yes, could not write its verdict, or    *)
(* met another handler.                                                    *)
BooksBalance ==
  \A i \in DOMAIN rows : AtRest(i) =>
    /\ ~Is(i, "grant") => ledger[<<i, "grant">>] = 1 /\ rows[i].status # "failed"
    /\ ~(Is(i, "rollback") \/ Is(i, "unwritten") \/ Is(i, "crossed"))
         => ledger[<<i, "rollback">>] = (IF rows[i].status = "rejected" THEN 1 ELSE 0)

============================================================================
