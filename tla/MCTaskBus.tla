------------------------------ MODULE MCTaskBus ------------------------------
(* A supervisor and an agent that exchange messages about one task, which  *)
(* may be on the board or not.                                             *)
EXTENDS TaskBus, TLC

CONSTANTS sup, a1, t1

MCProcess == {sup, a1}
MCAgent == {a1}
MCOrder == (a1 :> 1) @@ (sup :> 2)
MCTasks == {t1, NoTask}
=============================================================================
