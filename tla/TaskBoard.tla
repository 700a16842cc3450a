------------------------------ MODULE TaskBoard -----------------------------
(***************************************************************************)
(* What the swarm promises its operator about the board, with no SQL, no   *)
(* peeking and no retry in sight: a task is started by one worker at a     *)
(* time and only after everything it waits for is done, a worker does one  *)
(* task at a time, a task in progress is in somebody's hands, and what is  *)
(* over stays over.  The process may die with tasks in hand; those stay    *)
(* in progress with nobody behind them.                                    *)
(***************************************************************************)
CONSTANTS Task, Worker, NoTask, Unserved

(* Unserved are the tasks that no worker can do and that may be refused.   *)

VARIABLES
  waitsFor,   \* the blockers of each task
  phase,      \* "absent", "pending", "in_progress" or a final status
  doing,      \* the task in each worker's hands, or NoTask
  lost        \* tasks whose worker died

vars == <<waitsFor, phase, doing, lost>>

Over == {"done", "failed", "cancelled", "needs_review", "awaiting_children"}

Init ==
  /\ waitsFor \in [Task -> SUBSET Task]
  /\ phase \in [Task -> {"absent", "pending"}]
  /\ doing = [w \in Worker |-> NoTask]
  /\ lost = {}

File(t) ==
  /\ phase[t] = "absent"
  /\ phase' = [phase EXCEPT ![t] = "pending"]
  /\ UNCHANGED <<waitsFor, doing, lost>>

Start(w, t) ==
  /\ phase[t] = "pending"
  /\ doing[w] = NoTask
  /\ \A b \in waitsFor[t] : phase[b] = "done"
  /\ doing' = [doing EXCEPT ![w] = t]
  /\ phase' = [phase EXCEPT ![t] = "in_progress"]
  /\ UNCHANGED <<waitsFor, lost>>

(* A task that nobody can do fails in its turn, in nobody's hands.         *)
Refuse(t) ==
  /\ t \in Unserved
  /\ phase[t] = "pending"
  /\ \A b \in waitsFor[t] : phase[b] = "done"
  /\ phase' = [phase EXCEPT ![t] = "failed"]
  /\ UNCHANGED <<waitsFor, doing, lost>>

(* The task in hand is over, or goes back to be picked up again. *)
PutDown(w, t, p) ==
  /\ phase[t] = "in_progress"
  /\ doing[w] = t
  /\ p \in Over \cup {"pending"}
  /\ doing' = [doing EXCEPT ![w] = NoTask]
  /\ phase' = [phase EXCEPT ![t] = p]
  /\ UNCHANGED <<waitsFor, lost>>

Die ==
  /\ lost' = {t \in Task : phase[t] = "in_progress"}
  /\ doing' = [w \in Worker |-> NoTask]
  /\ UNCHANGED <<waitsFor, phase>>

Next ==
  \/ \E t \in Task : File(t)
  \/ \E w \in Worker, t \in Task : Start(w, t)
  \/ \E t \in Task : Refuse(t)
  \/ \E w \in Worker, t \in Task, p \in Over \cup {"pending"} : PutDown(w, t, p)
  \/ Die

Spec == Init /\ [][Next]_vars

=============================================================================
