---------------------------- MODULE RequestBook ----------------------------
(***************************************************************************)
(* What the renewal service promises about its requests, seen from outside *)
(* (AGENT.md, section 7): a client has at most one open request, an open   *)
(* request is settled once, and a settled one never changes again, but for *)
(* the last word of the request's own handler, which an admin need not     *)
(* have waited for.                                                        *)
(***************************************************************************)
EXTENDS Naturals, Sequences

CONSTANT Subs

VARIABLE book      \* the requests ever made, oldest first: [sub, status, handler]

Verdicts == {"confirmed", "rejected"}

(* Nobody but i waits for an answer of the subscription of i.              *)
OnlyOpen(s, i) ==
  \A j \in DOMAIN book : j # i /\ book[j].sub = s => book[j].status # "pending"

Init == book = <<>>

Submit(s) ==
  /\ OnlyOpen(s, 0)
  /\ book' = Append(book, [sub |-> s, status |-> "pending", handler |-> "running"])

(* An admin's verdict.                                                     *)
Settle(i, v) ==
  /\ book[i].status = "pending"
  /\ book' = [book EXCEPT ![i].status = v]

(* The handler's last word: the days are there, or they are not.           *)
Conclude(i, v) ==
  /\ book[i].handler = "running"
  /\ v = "pending" => OnlyOpen(book[i].sub, i)
  /\ book' = [book EXCEPT ![i].status = v, ![i].handler = "over"]

(* Handlers that end without a last word.                                  *)
Abandon(S) ==
  /\ \A i \in S : book[i].handler = "running"
  /\ book' = [i \in DOMAIN book |->
                IF i \in S THEN [book[i] EXCEPT !.handler = "over"] ELSE book[i]]

Next ==
  \/ \E s \in Subs : Submit(s)
  \/ \E i \in DOMAIN book, v \in Verdicts : Settle(i, v)
  \/ \E i \in DOMAIN book, v \in {"pending", "failed"} : Conclude(i, v)
  \/ \E S \in SUBSET DOMAIN book : Abandon(S)

Spec == Init /\ [][Next]_book
============================================================================
