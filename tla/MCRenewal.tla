----------------------------- MODULE MCRenewal -----------------------------
(***************************************************************************)
(* Small instances of Renewal.                                             *)
(***************************************************************************)
EXTENDS Renewal, TLC

CONSTANTS s1, s2, a1, a2, c1, c2

(* Goroutines are interchangeable.  Not used where liveness is checked.    *)
ClientSymmetry == Permutations({c1, c2})

(* Overdue at the start, so the first plan needs a surcharge; and so far   *)
(* from 0 that no number of rollbacks makes it an expiry that is not set.  *)
OneOverdue  == (s1 :> 103)
(* One overdue subscription and one that never expires.                    *)
TwoMixed == (s1 :> 103) @@ (s2 :> 0)
============================================================================
