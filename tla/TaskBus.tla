------------------------------- MODULE TaskBus -------------------------------
(***************************************************************************)
(* The delegation bus over the JSON inboxes (claude_swarm/bus.py): a       *)
(* supervisor hands tasks to agents, agents report how far they are, and   *)
(* each report is mirrored onto the task's kanban row after it was sent.   *)
(* A report is validated, sent (Messaging) and then written by the three   *)
(* statements of Kanban.update; every step may interleave with those of    *)
(* other processes, and a process may die between two of them.             *)
(***************************************************************************)
EXTENDS Messaging

CONSTANTS
  Dispatcher,      \* processes that hand tasks out
  Agent,           \* processes that report on tasks
  NoTask           \* the task of a message that is not about one

ASSUME TaskBusAssumption ==
  /\ Dispatcher \cup Agent \subseteq Process
  /\ NoTask \in Tasks

VARIABLES
  blockedBy, status, lastRow,     \* the kanban (see Kanban)
  reports,    \* history: who reported on each task, and to which inbox
  torn        \* history: tasks with a report that was never mirrored

Ref == Tasks \ {NoTask}

KB == INSTANCE Kanban WITH
  Task <- Ref, HeadName <- {"builder"},
  RequiredHead <- [t \in Ref |-> "builder"],
  Rank <- [t \in Ref |-> 0],
  DAGs <- {[t \in Ref |-> {}]}

board == <<blockedBy, status, lastRow>>

busVars == <<mailVars, board, reports, torn>>

(* DelegationStatus, and the kanban status each is mirrored as. *)
TaskKinds == {"task_delegated", "task_claimed", "task_progress", "task_done",
              "task_blocked", "task_failed"}

KanbanStatus ==
  [task_claimed |-> "in_progress", task_progress |-> "in_progress",
   task_done |-> "done", task_failed |-> "failed", task_blocked |-> "needs_review"]

Reported == DOMAIN KanbanStatus

Init ==
  /\ MailInit
  /\ \E onBoard \in SUBSET Ref : KB!BoardInit(onBoard)
  /\ reports = [t \in Ref |-> {}]
  /\ torn = {}

-----------------------------------------------------------------------------
(* validate_send: a concrete participant to a participant, a lane or "*". *)
Valid(p, r, k) == p \in Process /\ r \in Recipients \cup {"*"} /\ k \in Kinds

(* The mirroring that follows a report of kind k on t. *)
ThenMirror(k, t) == [do |-> "select", task |-> t, to |-> KanbanStatus[k], old |-> "none"]

(* TaskBus.send: chatter, which no reader of delegations sees. *)
Send(p, r, k) ==
  /\ Valid(p, r, k) /\ k \notin TaskKinds
  /\ StartSend(p, r, k, NoTask, Idle)
  /\ UNCHANGED <<board, reports, torn>>

Delegate(p, r, t) ==
  /\ Valid(p, r, "task_delegated")
  /\ StartSend(p, r, "task_delegated", t, Idle)
  /\ UNCHANGED <<board, reports, torn>>

(* mutant: a report that says nothing final is not mirrored *)
UpdateStatusTerminal(p, r, t, k) ==
  /\ Valid(p, r, k) /\ k \in Reported
  /\ IF k \in {"task_done", "task_failed"} THEN StartSend(p, r, k, t, ThenMirror(k, t))
     ELSE StartSend(p, r, k, t, Idle)
  /\ reports' = [reports EXCEPT ![t] = @ \cup {<<p, r>>}]
  /\ UNCHANGED <<board, torn>>

UpdateStatus(p, r, t, k) ==
  /\ Valid(p, r, k) /\ k \in Reported
  /\ StartSend(p, r, k, t, ThenMirror(k, t))
  /\ reports' = [reports EXCEPT ![t] = @ \cup {<<p, r>>}]
  /\ UNCHANGED <<board, torn>>

-----------------------------------------------------------------------------
(* _mirror_kanban: Kanban.update, and nothing when the row is not there. *)

MirrorSelect(p) ==
  /\ op[p].do = "select"
  /\ LET found == status[op[p].task]
     IN op' = [op EXCEPT ![p] = IF found = "absent" THEN Idle
                                ELSE [@ EXCEPT !.do = "update", !.old = found]]
  /\ UNCHANGED board

MirrorUpdate(p) ==
  /\ op[p].do = "update"
  /\ KB!SetStatus(op[p].task, op[p].to)
  /\ op' = [op EXCEPT ![p].do = "row"]

MirrorRow(p) ==
  /\ op[p].do = "row"
  /\ KB!AddRow(op[p].task, op[p].old, op[p].to)
  /\ op' = [op EXCEPT ![p] = Idle]

Mirror(p) ==
  /\ \/ MirrorSelect(p)
     \/ MirrorUpdate(p)
     \/ MirrorRow(p)
  /\ UNCHANGED <<inbox, sent, gone, log, raced, reports, torn>>

-----------------------------------------------------------------------------
(* The task of a report that has been minted and not yet mirrored. *)
InReport(p, t) ==
  \/ op[p].do \in {"select", "update", "row"} /\ op[p].task = t
  \/ op[p].do = "append" /\ op[p].msg.kind \in Reported /\ op[p].msg.task = t

Die(p) ==
  /\ Crash(p)
  /\ torn' = torn \cup {t \in Ref : InReport(p, t)}
  /\ UNCHANGED <<board, reports>>

Mail(p) ==
  /\ \/ ReadForAppend(p)
     \/ WriteAppend(p)
     \/ StartDrain(p)
     \/ Clear(p)
  /\ UNCHANGED <<board, reports, torn>>

Next ==
  \E p \in Process :
    \/ \E r \in Recipients \cup {"*"}, k \in Kinds : Send(p, r, k)
    \/ p \in Dispatcher /\ \E r \in Agent \cap Recipients, t \in Ref : Delegate(p, r, t)
    \/ p \in Agent /\ \E r \in Dispatcher, t \in Ref, k \in Kinds : UpdateStatus(p, r, t, k)
    \/ Mail(p)
    \/ Mirror(p)
    \/ Die(p)

Spec == Init /\ [][Next]_busVars

-----------------------------------------------------------------------------
(* Reads. *)

(* delegations: the task messages of an inbox; others are skipped. *)
Delegations(n) == {m \in ToSet(Content(inbox[n])) : m.kind \in TaskKinds}

(* status_of: the latest by time stamp, none when the task was never seen. *)
StatusOf(n, t) ==
  {m \in Delegations(n) : m.task = t /\ \A o \in Delegations(n) : o.task = t => m.ts >= o.ts}

-----------------------------------------------------------------------------
TypeOK ==
  /\ \A n \in Name :
       \/ inbox[n] = NoFile
       \/ /\ Len(inbox[n]) <= MaxMessages
          /\ \A i \in DOMAIN inbox[n] : inbox[n][i] \in Message
  /\ sent \in 0 .. MaxSent
  /\ raced \subseteq Name
  /\ KB!BoardTypeOK
  /\ \A p \in Process : op[p].do \in {"idle", "append", "drain", "select", "update", "row"}

(* bus.py:302-304: the tile reflects reality.  When a task has one         *)
(* reporter, and none of its reports is under way or was cut short by a    *)
(* death, the row shows what status_of finds in the inbox it reported to,  *)
(* if anything: whatever was drained, dropped or sent by others there.     *)
TileAgrees ==
  \A t \in Ref, p \in Process, n \in Name :
    /\ reports[t] = {<<p, n>>}
    /\ n \notin raced
    /\ t \notin torn
    /\ status[t] # "absent"
    /\ ~\E q \in Process : InReport(q, t)
    => \A m \in StatusOf(n, t) : m.kind \in Reported => status[t] = KanbanStatus[m.kind]

=============================================================================
