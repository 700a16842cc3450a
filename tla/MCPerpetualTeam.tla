--------------------------- MODULE MCPerpetualTeam --------------------------
(* Small instances of PerpetualTeam: two loops, two tasks in priority      *)
(* order t1, t2, each asking for a head of its own of which the roster has *)
(* one, every acyclic blocked_by relation on them.                         *)
EXTENDS PerpetualTeam, TLC

CONSTANTS t1, t2, w1, w2

MCTask == {t1, t2}
MCFirst == {t1}
MCHead == {"tester", "scanner"}
MCRequiredHead == (t1 :> "tester") @@ (t2 :> "scanner")
MCRank == (t1 :> 1) @@ (t2 :> 2)
MCDAGs == {(t1 :> {}) @@ (t2 :> {}), (t1 :> {}) @@ (t2 :> {t1}), (t1 :> {t2}) @@ (t2 :> {})}

MCWorker == {w1, w2}

WorkerSymmetry == Permutations(MCWorker)
=============================================================================
