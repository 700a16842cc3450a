----------------------------- MODULE MCDispatch -----------------------------
(* Small instances of Dispatch: two tasks, two lanes, three attempts with  *)
(* a rotation after two; the cache's danger window lies between the first  *)
(* delays and the longest.                                                 *)
EXTENDS Dispatch, TLC

CONSTANTS t1, t2

MCTask == {t1, t2}
MCLanes == <<"plan-a", "plan-b">>

Exception == [status |-> 500, reason |-> "none", says |-> FALSE,
              retryAfter |-> {}, resets |-> {}]

MCErrors ==
  {Exception,
   [Exception EXCEPT !.status = 429, !.retryAfter = {5}],
   [Exception EXCEPT !.status = 529, !.resets = {4, 9}],
   [Exception EXCEPT !.reason = "overloaded_error"],
   [Exception EXCEPT !.says = TRUE, !.retryAfter = {7}, !.resets = {1}]}

TaskSymmetry == Permutations(MCTask)
=============================================================================
