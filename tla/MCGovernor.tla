----------------------------- MODULE MCGovernor -----------------------------
(* A small instance of Governor: two subscription lanes of four tokens per *)
(* window, half of which calls may use - the headers report the rest gone; *)
(* a band from 25% to 50%, a dwell of two seconds, one unit of budget.  The*)
(* cap of the second lane may be unknown.                                  *)
EXTENDS Governor, TLC

CONSTANTS l1, l2

MCLane == {l1, l2}
MCOrder == (l1 :> 1) @@ (l2 :> 2)
MCCaps == (l1 :> {4}) @@ (l2 :> {0, 4})

NoHeaders == [limit |-> Unset, remaining |-> Unset, reset |-> Unset, retryAfter |-> Unset]

MCHeaders ==
  (l1 :> {[NoHeaders EXCEPT !.remaining = 1]}) @@
  (l2 :> {[NoHeaders EXCEPT !.limit = 4, !.remaining = 0, !.reset = 2]})
=============================================================================
