------------------------------- MODULE Kanban -------------------------------
(***************************************************************************)
(* The SQLite kanban (claude_swarm/kanban.py): a table of tasks, the DAG   *)
(* of their blockers and the status timeline.                              *)
(*                                                                         *)
(* A connection runs in autocommit (isolation_level=None), so each SQL     *)
(* statement is atomic on its own and Kanban.update is three of them: the  *)
(* SELECT of the old status, the UPDATE, the INSERT of the timeline row.   *)
(* Only claim_one is one transaction (BEGIN IMMEDIATE).  The operators     *)
(* below are those statements; the modules that run threads over the       *)
(* board decide who executes which one next.                               *)
(*                                                                         *)
(* Abstractions: (priority, created_at) is one number, Rank; of the        *)
(* timeline only the last row of each task is kept; the columns that no    *)
(* decision reads (prompt, cost, result, ...) are left out.                *)
(***************************************************************************)
EXTENDS Naturals

CONSTANTS
  Task,            \* task ids that may ever be submitted
  HeadName,        \* values of the required_head column
  RequiredHead,    \* the required_head of each task
  Rank,            \* the ORDER BY priority, created_at of each task
  DAGs             \* blocked_by relations to consider, each in [Task -> SUBSET Task]

ASSUME KanbanAssumption ==
  /\ RequiredHead \in [Task -> HeadName]
  /\ Rank \in [Task -> Nat]
  /\ DAGs \subseteq [Task -> SUBSET Task]

VARIABLES
  blockedBy,       \* the blocked_by column
  status,          \* the status column; "absent" while there is no row
  lastRow          \* the latest status_timeline row of each task

board == <<blockedBy, status, lastRow>>

TaskStatus == {"pending", "in_progress", "done", "failed", "cancelled",
               "needs_review", "awaiting_children"}

NoRow == [from |-> "none", to |-> "none"]

TimelineRow == [from : TaskStatus \cup {"none"}, to : TaskStatus \cup {"none"}]

BoardTypeOK ==
  /\ blockedBy \in [Task -> SUBSET Task]
  /\ status \in [Task -> TaskStatus \cup {"absent"}]
  /\ lastRow \in [Task -> TimelineRow]

(* Tasks already on the board at the start were submitted as pending. *)
BoardInit(onBoard) ==
  /\ blockedBy \in DAGs
  /\ status = [t \in Task |-> IF t \in onBoard THEN "pending" ELSE "absent"]
  /\ lastRow = [t \in Task |-> IF t \in onBoard
                               THEN [from |-> "none", to |-> "pending"]
                               ELSE NoRow]

-----------------------------------------------------------------------------
(* Reads. *)

WithStatus(s) == {t \in Task : status[t] = s}

(* mutant: a failed or missing blocker opens the task *)
BlockersOver(t) == \A b \in blockedBy[t] : status[b] \notin {"pending", "in_progress"}

(* A blocker that has no row, or is anything but done, keeps the task shut. *)
BlockersDone(t) == \A b \in blockedBy[t] : status[b] = "done"

(* mutant: the claim also takes a task that is being driven *)
ReadyOrTaken(t) == status[t] \in {"pending", "in_progress"} /\ BlockersDone(t)

Ready(t) == status[t] = "pending" /\ BlockersDone(t)

(* The heads of a set of tasks in (priority, created_at) order. *)
FirstOf(S) == {t \in S : \A u \in S : Rank[t] <= Rank[u]}

ReadyFor(h) == {t \in Task : Ready(t) /\ RequiredHead[t] = h}

-----------------------------------------------------------------------------
(* Writes. *)

(* mutant: INSERT OR REPLACE *)
InsertOrReplace(t) ==
  /\ status' = [status EXCEPT ![t] = "pending"]
  /\ UNCHANGED <<blockedBy, lastRow>>

(* submit: the INSERT into tasks; its timeline row is AddRow(t, "none", ..). *)
InsertTask(t) ==
  /\ status[t] = "absent"
  /\ status' = [status EXCEPT ![t] = "pending"]
  /\ UNCHANGED <<blockedBy, lastRow>>

(* claim_one: pick, UPDATE and timeline row in one transaction. *)
ClaimOne(t) ==
  /\ t \in FirstOf(ReadyFor(RequiredHead[t]))
  /\ status' = [status EXCEPT ![t] = "in_progress"]
  /\ lastRow' = [lastRow EXCEPT ![t] = [from |-> "pending", to |-> "in_progress"]]
  /\ UNCHANGED blockedBy

(* update: the UPDATE statement. *)
SetStatus(t, s) ==
  /\ status' = [status EXCEPT ![t] = s]
  /\ UNCHANGED <<blockedBy, lastRow>>

(* update: the INSERT into status_timeline, skipped when nothing changed. *)
AddRow(t, from, to) ==
  /\ lastRow' = IF from = to THEN lastRow
                ELSE [lastRow EXCEPT ![t] = [from |-> from, to |-> to]]
  /\ UNCHANGED <<blockedBy, status>>

=============================================================================
