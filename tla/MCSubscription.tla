-------------------------- MODULE MCSubscription --------------------------
EXTENDS Subscription, TLC

CONSTANTS m1, m2

Records == Permutations({m1, m2})

(* Never; a delayed start of three ticks; two dates in the clock's reach.  *)
SomeExpiries == {0, -3, 2, 5}
============================================================================
