---------------------------- MODULE MCSupervisor ----------------------------
(* A small instance of Supervisor: three tasks of one head, of every       *)
(* acyclic DAG, and a task without a head that an operator may add before  *)
(* them; alone, or with a pool of two.                                     *)
EXTENDS Supervisor, TLC

CONSTANTS t0, t1, t2, t3, s1, s2

MCTask == {t0, t1, t2, t3}
MCOnBoard == {t1, t2, t3}
MCCliTask == {t0}
MCSlot == {s1, s2}
MCPools == {{s1}, {s1, s2}}
MCHead == {"tester", "merger"}
MCRequiredHead == [t \in MCTask |-> IF t = t0 THEN "merger" ELSE "tester"]
MCRank == (t0 :> 0) @@ (t1 :> 1) @@ (t2 :> 2) @@ (t3 :> 3)

(* A relation on at most three tasks is acyclic when no task reaches itself. *)
Acyclic(f) ==
  \A a \in DOMAIN f : \A b \in f[a] : \A c \in f[b] : a \notin {b, c} \cup f[c]

MCDAGs == {f @@ (t0 :> {}) : f \in {g \in [MCOnBoard -> SUBSET MCOnBoard] : Acyclic(g)}}

=============================================================================
