------------------------- MODULE PerpetualTeamProofs ------------------------
(***************************************************************************)
(* The safety of a perpetual team, for any number of loops and tasks, any  *)
(* blocked_by relation, any number of throttles and restarts.              *)
(***************************************************************************)
EXTENDS PerpetualTeam, TLAPS

(* What the registers of a loop hold at each of its locations. *)
Registers ==
  \A w \in Worker :
    /\ pc[w] \in {"dispatch", "select", "update", "row", "file_row"} => cur[w] \in Task
    /\ pc[w] \in {"select", "update", "row"} => out[w] \in Outcome
    /\ pc[w] \in {"update", "row"} => seen[w] = "in_progress"
    /\ pc[w] = "attempt" => attempt[w] < MaxAttempts
    /\ Driving(w) => cur[w] \notin abandoned
    /\ mode = "down" => pc[w] = "down"

Safe == NoDoubleDrive /\ ClaimsAreHeld /\ StartedAfterBlockers

IInv == TypeOK /\ Registers /\ Safe

-----------------------------------------------------------------------------
(* The team starts in the invariant. *)
LEMMA InitInv == Init => IInv
<1> SUFFICES ASSUME Init PROVE IInv
  OBVIOUS
<1>1. TypeOK
  BY KanbanAssumption, TeamAssumption
  DEF Init, BoardInit, TypeOK, BoardTypeOK, TimelineRow, NoRow, TaskStatus, Loc
<1>2. Registers
  BY TeamAssumption DEF Init, Registers, Driving
<1>3. Safe
  BY DEF Init, BoardInit, Safe, NoDoubleDrive, ClaimsAreHeld,
         StartedAfterBlockers, Driving
<1> QED
  BY <1>1, <1>2, <1>3 DEF IInv

(* A step that moves one loop between locations where it drives no task,   *)
(* and leaves the board alone, is invisible to the safety properties.      *)
LEMMA QuietStep ==
  ASSUME Safe, NEW w \in Worker, pc \in [Worker -> Loc],
         NEW l \in Loc \ {"dispatch", "select", "update"}, Goto(w, l),
         ~Driving(w), status' = status, blockedBy' = blockedBy,
         abandoned' = abandoned,
         \A v \in Worker \ {w} : cur'[v] = cur[v]
  PROVE  Safe'
<1>1. ~Driving(w)' /\ \A v \in Worker \ {w} : pc'[v] = pc[v]
  BY DEF Goto, Driving
<1>2. \A v \in Worker : Driving(v)' <=> Driving(v)
  BY <1>1 DEF Driving
<1>3. \A v \in Worker : Driving(v) => cur'[v] = cur[v]
  OBVIOUS
<1> QED
  BY <1>2, <1>3 DEF Safe, NoDoubleDrive, ClaimsAreHeld, StartedAfterBlockers,
                    BlockersDone

(* The steps of a loop that neither claim, drive nor write a task.         *)
LEMMA QuietSteps ==
  ASSUME IInv, NEW w \in Worker,
         \/ Tick(w) \/ Attempt(w) \/ ListPending(w) \/ Examine(w) \/ LogStatus(w)
         \/ Caught(w) \/ IdlePending(w) \/ IdleInProgress(w)
         \/ GenerateRow(w) \/ GenerateEnd(w)
  PROVE  IInv'
<1> USE TeamAssumption, KanbanAssumption DEF IInv, board, local, env
<1>1. CASE Tick(w)
  <2>1. TypeOK'
    BY <1>1 DEF Tick, Goto, TypeOK, BoardTypeOK, Loc
  <2>2. Registers'
    BY <1>1 DEF Tick, Goto, TypeOK, Registers, Driving
  <2>3. Safe'
    BY <1>1, QuietStep DEF Tick, Goto, TypeOK, Loc, Driving
  <2> QED
    BY <2>1, <2>2, <2>3
<1>2. CASE Attempt(w)
  <2>1. TypeOK'
    BY <1>2 DEF Attempt, Goto, TypeOK, BoardTypeOK, Loc, Registers
  <2>2. Registers'
    BY <1>2 DEF Attempt, Goto, TypeOK, Registers, Driving
  <2>3. Safe'
    BY <1>2, QuietStep DEF Attempt, Goto, TypeOK, Loc, Driving
  <2> QED
    BY <2>1, <2>2, <2>3
<1>3. CASE ListPending(w)
  <2>1. TypeOK'
    BY <1>3 DEF ListPending, WithStatus, Goto, TypeOK, BoardTypeOK, Loc
  <2>2. Registers'
    BY <1>3 DEF ListPending, Goto, TypeOK, Registers, Driving
  <2>3. Safe'
    BY <1>3, QuietStep DEF ListPending, Goto, TypeOK, Loc, Driving
  <2> QED
    BY <2>1, <2>2, <2>3
<1>4. CASE Examine(w)
  <2>1. TypeOK'
    BY <1>4 DEF Examine, FirstOf, Goto, TypeOK, BoardTypeOK, Loc
  <2>2. Registers'
    BY <1>4 DEF Examine, Goto, TypeOK, Registers, Driving
  <2>3. Safe'
    <3>1. CASE UNCHANGED pc
      BY <1>4, <3>1 DEF Examine, Safe, NoDoubleDrive, ClaimsAreHeld,
                        StartedAfterBlockers, BlockersDone, Driving
    <3>2. CASE Goto(w, "idle_pending") \/ Goto(w, "claim")
      BY <1>4, <3>2, QuietStep DEF Examine, Goto, TypeOK, Loc, Driving
    <3> QED
      BY <1>4, <3>1, <3>2 DEF Examine
  <2> QED
    BY <2>1, <2>2, <2>3
<1>5. CASE LogStatus(w)
  <2>1. TypeOK'
    BY <1>5 DEF LogStatus, AddRow, Goto, TypeOK, BoardTypeOK, Loc, Registers,
                TimelineRow, Target, Outcome, TaskStatus
  <2>2. Registers'
    BY <1>5 DEF LogStatus, AddRow, Goto, TypeOK, Registers, Driving
  <2>3. Safe'
    BY <1>5, QuietStep DEF LogStatus, AddRow, Goto, TypeOK, Loc, Driving
  <2> QED
    BY <2>1, <2>2, <2>3
<1>6. CASE Caught(w)
  <2>1. TypeOK'
    BY <1>6 DEF Caught, Goto, TypeOK, BoardTypeOK, Loc
  <2>2. Registers'
    BY <1>6 DEF Caught, Goto, TypeOK, Registers, Driving
  <2>3. Safe'
    BY <1>6, QuietStep DEF Caught, Goto, TypeOK, Loc, Driving
  <2> QED
    BY <2>1, <2>2, <2>3
<1>7. CASE IdlePending(w) \/ IdleInProgress(w) \/ GenerateEnd(w)
  <2> USE DEF IdlePending, IdleInProgress, GenerateEnd
  <2>1. TypeOK'
    BY <1>7 DEF Goto, TypeOK, BoardTypeOK, Loc
  <2>2. Registers'
    BY <1>7 DEF Goto, TypeOK, Registers, Driving
  <2>3. Safe'
    BY <1>7, QuietStep DEF Goto, TypeOK, Loc, Driving
  <2> QED
    BY <2>1, <2>2, <2>3
<1>8. CASE GenerateRow(w)
  <2>1. TypeOK'
    BY <1>8 DEF GenerateRow, AddRow, Goto, TypeOK, BoardTypeOK, Loc, Registers,
                TimelineRow, TaskStatus
  <2>2. Registers'
    BY <1>8 DEF GenerateRow, AddRow, Goto, TypeOK, Registers, Driving
  <2>3. Safe'
    BY <1>8, QuietStep DEF GenerateRow, AddRow, Goto, TypeOK, Loc, Driving
  <2> QED
    BY <2>1, <2>2, <2>3
<1> QED
  BY <1>1, <1>2, <1>3, <1>4, <1>5, <1>6, <1>7, <1>8

-----------------------------------------------------------------------------
(* A claim takes a ready task into one loop's hands.                       *)
LEMMA ClaimStep ==
  ASSUME IInv, NEW w \in Worker, Claim(w)
  PROVE  IInv'
<1> USE TeamAssumption, KanbanAssumption DEF IInv, board, local, env
<1>1. CASE ReadyFor(hint[w]) = {} /\ Goto(w, "idle_pending") /\ UNCHANGED <<board, cur, out>>
  <2>1. TypeOK'
    BY <1>1 DEF Claim, Goto, TypeOK, BoardTypeOK, Loc
  <2>2. Registers'
    BY <1>1 DEF Claim, Goto, TypeOK, Registers, Driving
  <2>3. Safe'
    BY <1>1, QuietStep DEF Claim, Goto, TypeOK, Loc, Driving
  <2> QED
    BY <2>1, <2>2, <2>3
<1>2. ASSUME NEW t \in ReadyFor(hint[w]), ClaimOne(t),
             cur' = [cur EXCEPT ![w] = t],
             \/ Goto(w, "dispatch") /\ UNCHANGED out
             \/ Goto(w, "select") /\ out' = [out EXCEPT ![w] = "failed"]
      PROVE  IInv'
  <2>1. /\ t \in Task /\ status[t] = "pending" /\ BlockersDone(t)
        /\ status' = [status EXCEPT ![t] = "in_progress"]
        /\ lastRow' = [lastRow EXCEPT ![t] = [from |-> "pending", to |-> "in_progress"]]
        /\ blockedBy' = blockedBy
    BY <1>2 DEF ClaimOne, ReadyFor, Ready
  <2>2. TypeOK'
    <3>1. BoardTypeOK'
      BY <2>1 DEF TypeOK, BoardTypeOK, TaskStatus, TimelineRow
    <3>2. pc' \in [Worker -> Loc] /\ cur' \in [Worker -> Task \cup {NoTask}]
      BY <1>2, <2>1 DEF Goto, TypeOK, Loc
    <3>3. out' \in [Worker -> Outcome \cup {"none"}]
      BY <1>2 DEF TypeOK, Outcome
    <3> QED
      BY <1>2, <3>1, <3>2, <3>3 DEF Claim, TypeOK
  <2>3. t \notin abandoned
    BY <2>1 DEF Safe, ClaimsAreHeld
  <2>4. Registers'
    BY <1>2, <2>1, <2>3 DEF Claim, Goto, TypeOK, Registers, Driving, Outcome
  <2>5. \A v \in Worker : Driving(v) => cur[v] # t
    BY <2>1 DEF Safe, ClaimsAreHeld
  <2>6. /\ Driving(w)' /\ cur'[w] = t /\ ~Driving(w)
        /\ \A v \in Worker \ {w} : (Driving(v)' <=> Driving(v)) /\ cur'[v] = cur[v]
    BY <1>2 DEF Claim, Goto, TypeOK, Driving
  <2>7. NoDoubleDrive'
    BY <2>5, <2>6 DEF Safe, NoDoubleDrive
  <2>8. ClaimsAreHeld'
    BY <2>1, <2>5, <2>6 DEF Safe, ClaimsAreHeld, TypeOK, BoardTypeOK, Claim
  <2>9. StartedAfterBlockers'
    BY <2>1 DEF Safe, StartedAfterBlockers, BlockersDone, TypeOK, BoardTypeOK
  <2> QED
    BY <2>2, <2>4, <2>7, <2>8, <2>9 DEF Safe
<1> QED
  BY <1>1, <1>2 DEF Claim

(* A dispatch ends: the task stays in hand until its status is written.    *)
LEMMA DispatchStep ==
  ASSUME IInv, NEW w \in Worker, Dispatch(w) \/ SelectStatus(w)
  PROVE  IInv'
<1> USE TeamAssumption, KanbanAssumption DEF IInv, board, local, env
<1>1. /\ status' = status /\ blockedBy' = blockedBy /\ cur' = cur
      /\ abandoned' = abandoned
      /\ \A v \in Worker : Driving(v)' <=> Driving(v)
  BY DEF Dispatch, SelectStatus, Goto, TypeOK, Driving
<1>2. Safe'
  BY <1>1 DEF Safe, NoDoubleDrive, ClaimsAreHeld, StartedAfterBlockers, BlockersDone
<1>3. CASE Dispatch(w)
  <2>1. TypeOK'
    BY <1>3 DEF Dispatch, Goto, TypeOK, BoardTypeOK, Loc
  <2>2. Registers'
    BY <1>3, <1>1 DEF Dispatch, Goto, TypeOK, Registers
  <2> QED
    BY <1>2, <2>1, <2>2
<1>4. CASE SelectStatus(w)
  <2>1. cur[w] \in Task /\ status[cur[w]] = "in_progress"
    BY <1>4 DEF SelectStatus, Registers, Safe, ClaimsAreHeld, Driving
  <2>2. TypeOK'
    BY <1>4, <2>1 DEF SelectStatus, Goto, TypeOK, BoardTypeOK, Loc, TaskStatus
  <2>3. Registers'
    BY <1>4, <1>1, <2>1 DEF SelectStatus, Goto, TypeOK, Registers
  <2> QED
    BY <1>2, <2>2, <2>3
<1> QED
  BY <1>3, <1>4

(* Writing the outcome lets go of the task. *)
LEMMA UpdateStep ==
  ASSUME IInv, NEW w \in Worker, UpdateStatus(w)
  PROVE  IInv'
<1> USE TeamAssumption, KanbanAssumption DEF IInv, board, local, env
<1> DEFINE t == cur[w]
           s == Target(out[w])
<1>1. /\ t \in Task /\ Driving(w) /\ t \notin abandoned
      /\ status[t] = "in_progress"
      /\ s \in TaskStatus /\ s # "in_progress"
  BY DEF UpdateStatus, Registers, Driving, Safe, ClaimsAreHeld, Target, Outcome,
         TaskStatus
<1>2. /\ status' = [status EXCEPT ![t] = s]
      /\ blockedBy' = blockedBy /\ lastRow' = lastRow
      /\ cur' = cur /\ abandoned' = abandoned
      /\ pc' = [pc EXCEPT ![w] = "row"]
  BY DEF UpdateStatus, SetStatus, Goto
<1>3. TypeOK'
  BY <1>1, <1>2 DEF UpdateStatus, TypeOK, BoardTypeOK, Loc
<1>4. Registers'
  BY <1>2 DEF UpdateStatus, TypeOK, Registers, Driving
<1>5. ~Driving(w)' /\ \A v \in Worker \ {w} : Driving(v)' <=> Driving(v)
  BY <1>2 DEF Driving, TypeOK
<1>6. NoDoubleDrive'
  BY <1>2, <1>5 DEF Safe, NoDoubleDrive
<1>7. \A v \in Worker \ {w} : Driving(v) => cur[v] # t
  BY <1>1 DEF Safe, NoDoubleDrive
<1>8. ClaimsAreHeld'
  BY <1>1, <1>2, <1>5, <1>7 DEF Safe, ClaimsAreHeld, TypeOK, BoardTypeOK
<1>9. StartedAfterBlockers'
  BY <1>1, <1>2 DEF Safe, StartedAfterBlockers, BlockersDone, TypeOK, BoardTypeOK
<1> QED
  BY <1>3, <1>4, <1>6, <1>8, <1>9 DEF Safe

(* A new row is pending; nobody holds it and nothing started relied on it. *)
LEMMA InsertKeepsSafe ==
  ASSUME IInv, NEW t \in Task, InsertTask(t), abandoned' = abandoned,
         \A w \in Worker : (Driving(w)' <=> Driving(w)) /\ (Driving(w) => cur'[w] = cur[w])
  PROVE  Safe'
<1>1. /\ status[t] = "absent" /\ status' = [status EXCEPT ![t] = "pending"]
      /\ blockedBy' = blockedBy
  BY DEF InsertTask
<1>2. NoDoubleDrive'
  BY DEF IInv, Safe, NoDoubleDrive
<1>3. ClaimsAreHeld'
  BY <1>1 DEF IInv, Safe, ClaimsAreHeld, TypeOK, BoardTypeOK
<1>4. StartedAfterBlockers'
  BY <1>1 DEF IInv, Safe, StartedAfterBlockers, BlockersDone, TypeOK, BoardTypeOK
<1> QED
  BY <1>2, <1>3, <1>4 DEF Safe

(* A board that fills itself adds rows, and is otherwise invisible to the  *)
(* safety properties.                                                      *)
LEMMA GenerateStep ==
  ASSUME IInv, NEW w \in Worker, GenerateTask(w)
  PROVE  IInv'
<1> USE TeamAssumption, KanbanAssumption DEF IInv, board, local, env
<1>1. PICK t \in Task : InsertTask(t) /\ cur' = [cur EXCEPT ![w] = t]
  BY DEF GenerateTask
<1>2. TypeOK'
  BY <1>1 DEF GenerateTask, InsertTask, Goto, TypeOK, BoardTypeOK, Loc, TaskStatus
<1>3. Registers'
  BY <1>1 DEF GenerateTask, Goto, TypeOK, Registers, Driving
<1>4. Safe'
  BY <1>1, InsertKeepsSafe DEF GenerateTask, Goto, TypeOK, Driving
<1> QED
  BY <1>2, <1>3, <1>4

-----------------------------------------------------------------------------
(* The steps of the world around the loops.                                *)
LEMMA EnvironmentStep ==
  ASSUME IInv,
         \/ \E w \in Worker : Stop(w)
         \/ \E t \in CliTask : CliAdd(t)
         \/ CliRow \/ Interrupt \/ ProcessExit \/ Restart \/ UNCHANGED vars
  PROVE  IInv'
<1> USE TeamAssumption, KanbanAssumption DEF IInv, board, local, env
<1>1. CASE (\E w \in Worker : Stop(w)) \/ Interrupt \/ UNCHANGED vars
  <2>1. UNCHANGED <<board, pc, local, abandoned>> /\ (mode' = "down" => mode = "down")
    BY <1>1 DEF Stop, Interrupt, vars
  <2>2. TypeOK'
    BY <1>1, <2>1 DEF Stop, Interrupt, vars, TypeOK, BoardTypeOK
  <2>3. Registers' /\ Safe'
    BY <2>1 DEF Registers, Safe, NoDoubleDrive, ClaimsAreHeld,
                StartedAfterBlockers, BlockersDone, Driving
  <2> QED
    BY <2>2, <2>3
<1>2. ASSUME NEW t \in CliTask, CliAdd(t) PROVE IInv'
  <2>1. TypeOK'
    BY <1>2 DEF CliAdd, InsertTask, TypeOK, BoardTypeOK, TaskStatus
  <2>2. Registers'
    BY <1>2 DEF CliAdd, Registers, Driving
  <2>3. Safe'
    BY <1>2, InsertKeepsSafe DEF CliAdd, Driving
  <2> QED
    BY <2>1, <2>2, <2>3
<1>3. CASE CliRow
  <2>1. TypeOK'
    BY <1>3 DEF CliRow, AddRow, TypeOK, BoardTypeOK, TimelineRow, TaskStatus
  <2>2. Registers' /\ Safe'
    BY <1>3 DEF CliRow, AddRow, Registers, Safe, NoDoubleDrive, ClaimsAreHeld,
                StartedAfterBlockers, BlockersDone, Driving
  <2> QED
    BY <2>1, <2>2
<1>4. CASE ProcessExit
  <2>1. TypeOK'
    BY <1>4 DEF ProcessExit, WithStatus, TypeOK, BoardTypeOK, Loc
  <2>2. \A w \in Worker : ~Driving(w)'
    BY <1>4 DEF ProcessExit, Driving
  <2>3. Registers'
    BY <1>4, <2>2 DEF ProcessExit, Registers
  <2>4. Safe'
    BY <1>4, <2>2 DEF ProcessExit, WithStatus, Safe, NoDoubleDrive, ClaimsAreHeld,
                      StartedAfterBlockers, BlockersDone
  <2> QED
    BY <2>1, <2>3, <2>4
<1>5. CASE Restart
  <2>1. TypeOK'
    BY <1>5 DEF Restart, TypeOK, BoardTypeOK, Loc
  <2>2. \A w \in Worker : ~Driving(w) /\ ~Driving(w)'
    BY <1>5 DEF Restart, Registers, Driving
  <2>3. Registers'
    BY <1>5, <2>2 DEF Restart, Registers
  <2>4. Safe'
    BY <1>5, <2>2 DEF Restart, Safe, NoDoubleDrive, ClaimsAreHeld,
                      StartedAfterBlockers, BlockersDone
  <2> QED
    BY <2>1, <2>3, <2>4
<1> QED
  BY <1>1, <1>2, <1>3, <1>4, <1>5

-----------------------------------------------------------------------------
(* Every step of the team preserves the invariant. *)
LEMMA NextInv == IInv /\ [Next]_vars => IInv'
<1> SUFFICES ASSUME IInv, [Next]_vars PROVE IInv'
  OBVIOUS
<1>1. ASSUME NEW w \in Worker, Loop(w) PROVE IInv'
  BY <1>1, QuietSteps, ClaimStep, DispatchStep, UpdateStep, GenerateStep DEF Loop
<1>2. CASE \/ \E w \in Worker : Stop(w)
           \/ \E t \in CliTask : CliAdd(t)
           \/ CliRow \/ Interrupt \/ ProcessExit \/ Restart \/ UNCHANGED vars
  BY <1>2, EnvironmentStep
<1> QED
  BY <1>1, <1>2 DEF Next

(* The invariant the theorems below are read off: in every reachable state *)
(* of every team, tasks in progress and the loops that drive them match.   *)
THEOREM Invariance == Spec => []IInv
<1>1. Init => IInv
  BY InitInv
<1>2. IInv /\ [Next]_vars => IInv'
  BY NextInv
<1> QED
  BY <1>1, <1>2, PTL DEF Spec

(* The types of the board and of the loops' registers, perpetual.py's      *)
(* locals and kanban.py's columns.                                         *)
THEOREM TypeCorrect == Spec => []TypeOK
<1>1. IInv => TypeOK
  BY DEF IInv
<1> QED
  BY <1>1, Invariance, PTL

(* No two loops of a team ever drive the same task (the atomic claim_one   *)
(* and the rule that only its holder writes a claimed row).                *)
THEOREM MutualExclusion == Spec => []NoDoubleDrive
<1>1. IInv => NoDoubleDrive
  BY DEF IInv, Safe
<1> QED
  BY <1>1, Invariance, PTL

(* The claim-first driver of perpetual.py never leaks a claim: what is     *)
(* in progress is in a loop's hands or was left by a process that died.    *)
THEOREM NoLeakedClaim == Spec => []ClaimsAreHeld
<1>1. IInv => ClaimsAreHeld
  BY DEF IInv, Safe
<1> QED
  BY <1>1, Invariance, PTL

(* Kanban's DAG is respected: whatever was started had all blockers done,  *)
(* and they still are.                                                     *)
THEOREM DagRespected == Spec => []StartedAfterBlockers
<1>1. IInv => StartedAfterBlockers
  BY DEF IInv, Safe
<1> QED
  BY <1>1, Invariance, PTL

(* A settled task is never written again by Kanban.update or claim_one. *)
THEOREM SettledStays == Spec => SettledIsFinal
<1>1. IInv /\ [Next]_vars =>
        [\A t \in Task : status[t] \in Settled => status'[t] = status[t]]_vars
  <2> SUFFICES ASSUME IInv, Next, NEW t \in Task, status[t] \in Settled
               PROVE  status'[t] = status[t]
    OBVIOUS
  <2> USE DEF IInv, board, local, env, Settled, TaskStatus
  <2>1. ASSUME NEW w \in Worker, Claim(w) PROVE status'[t] = status[t]
    BY <2>1 DEF Claim, ClaimOne, FirstOf, ReadyFor, Ready, TypeOK, BoardTypeOK
  <2>2. ASSUME NEW w \in Worker, UpdateStatus(w) PROVE status'[t] = status[t]
    BY <2>2 DEF UpdateStatus, SetStatus, Registers, Driving, Safe, ClaimsAreHeld,
                TypeOK, BoardTypeOK
  <2>3. ASSUME NEW u \in Task, InsertTask(u) PROVE status'[t] = status[t]
    BY <2>3 DEF InsertTask, TypeOK, BoardTypeOK
  <2>4. ASSUME NEW w \in Worker, Loop(w), ~Claim(w), ~UpdateStatus(w), ~GenerateTask(w)
        PROVE  status'[t] = status[t]
    BY <2>4 DEF Loop, Tick, Attempt, ListPending, Examine, Dispatch, SelectStatus,
                LogStatus, AddRow, Caught, IdlePending, IdleInProgress,
                GenerateRow, GenerateEnd
  <2>5. CASE \/ \E w \in Worker : Stop(w)
             \/ CliRow \/ Interrupt \/ ProcessExit \/ Restart
    BY <2>5 DEF Stop, CliRow, AddRow, Interrupt, ProcessExit, Restart
  <2>6. ASSUME NEW w \in Worker, GenerateTask(w) PROVE status'[t] = status[t]
    BY <2>6, <2>3 DEF GenerateTask
  <2>7. ASSUME NEW u \in CliTask, CliAdd(u) PROVE status'[t] = status[t]
    BY <2>7, <2>3, TeamAssumption DEF CliAdd
  <2> QED
    BY <2>1, <2>2, <2>4, <2>5, <2>6, <2>7 DEF Next
<1> QED
  BY <1>1, Invariance, PTL DEF Spec, SettledIsFinal

-----------------------------------------------------------------------------
(* The team implements the abstract board.                                 *)

(* The abstract board's view of whose hands a task is in. *)
Doing == [w \in Worker |-> IF Driving(w) THEN cur[w] ELSE NoTask]

(* A board of freshly filed tasks that no loop has touched is one the      *)
(* abstract board may start with.                                          *)
LEMMA RefinementInit == Init => AbstractBoard!Init
  BY KanbanAssumption, TeamAssumption
  DEF Init, BoardInit, AbstractBoard!Init, Driving

(* A step that changes neither the board nor who drives what stutters.     *)
LEMMA Stutter ==
  ASSUME status' = status, blockedBy' = blockedBy, abandoned' = abandoned,
         \A w \in Worker : (Driving(w)' <=> Driving(w)) /\ (Driving(w) => cur'[w] = cur[w])
  PROVE  UNCHANGED AbstractBoard!vars
<1>1. Doing' = Doing
  BY DEF Doing
<1> QED
  BY <1>1 DEF Doing, AbstractBoard!vars

(* Inserting a row, by the CLI or by a work source, files a task. *)
LEMMA InsertFiles ==
  ASSUME TypeOK, NEW t \in Task, InsertTask(t), abandoned' = abandoned,
         \A w \in Worker : (Driving(w)' <=> Driving(w)) /\ (Driving(w) => cur'[w] = cur[w])
  PROVE  AbstractBoard!Next
<1>1. Doing' = Doing
  BY DEF Doing
<1>2. AbstractBoard!File(t)
  BY <1>1 DEF InsertTask, AbstractBoard!File, Doing
<1> QED
  BY <1>2 DEF AbstractBoard!Next

(* Every step of the team is a step of the abstract board or invisible to  *)
(* it.                                                                     *)
LEMMA RefinementStep == IInv /\ [Next]_vars => [AbstractBoard!Next]_AbstractBoard!vars
<1> SUFFICES ASSUME IInv, [Next]_vars
             PROVE  AbstractBoard!Next \/ UNCHANGED AbstractBoard!vars
  OBVIOUS
<1> USE TeamAssumption DEF board, local, env
<1>1. ASSUME NEW w \in Worker, Loop(w), ~Claim(w), ~UpdateStatus(w), ~GenerateTask(w)
      PROVE  UNCHANGED AbstractBoard!vars
  <2>1. status' = status /\ blockedBy' = blockedBy /\ abandoned' = abandoned
    BY <1>1 DEF Loop, Tick, Attempt, ListPending, Examine, Dispatch, SelectStatus,
                LogStatus, AddRow, Caught, IdlePending, IdleInProgress,
                GenerateRow, GenerateEnd
  <2>2. \A v \in Worker : Driving(v)' <=> Driving(v)
    BY <1>1 DEF Loop, Tick, Attempt, ListPending, Examine, Dispatch, SelectStatus,
                LogStatus, Caught, IdlePending, IdleInProgress,
                GenerateRow, GenerateEnd, Goto, Driving, IInv, TypeOK
  <2>3. \A v \in Worker : Driving(v) => cur'[v] = cur[v]
    BY <1>1 DEF Loop, Tick, Attempt, ListPending, Examine, Dispatch, SelectStatus,
                LogStatus, Caught, IdlePending, IdleInProgress,
                GenerateRow, GenerateEnd, Driving, IInv, TypeOK
  <2> QED
    BY <2>1, <2>2, <2>3, Stutter
<1>2. ASSUME NEW w \in Worker, Claim(w)
      PROVE  AbstractBoard!Next \/ UNCHANGED AbstractBoard!vars
  <2>1. CASE ReadyFor(hint[w]) = {} /\ Goto(w, "idle_pending") /\ UNCHANGED <<board, cur, out>>
    BY <1>2, <2>1, Stutter DEF Claim, Goto, Driving, IInv, TypeOK
  <2>2. ASSUME NEW t \in ReadyFor(hint[w]), ClaimOne(t),
               cur' = [cur EXCEPT ![w] = t],
               Goto(w, "dispatch") \/ Goto(w, "select")
        PROVE  AbstractBoard!Next
    <3>1. /\ t \in Task /\ status[t] = "pending" /\ BlockersDone(t)
          /\ status' = [status EXCEPT ![t] = "in_progress"]
          /\ blockedBy' = blockedBy
      BY <2>2 DEF ClaimOne, ReadyFor, Ready
    <3>2. /\ Doing[w] = NoTask
          /\ Doing' = [Doing EXCEPT ![w] = t]
      BY <1>2, <2>2 DEF Doing, Claim, Goto, Driving, IInv, TypeOK
    <3>3. AbstractBoard!Start(w, t)
      BY <1>2, <3>1, <3>2 DEF AbstractBoard!Start, Doing, BlockersDone, Claim
    <3> QED
      BY <3>1, <3>3 DEF AbstractBoard!Next
  <2> QED
    BY <1>2, <2>1, <2>2 DEF Claim
<1>3. ASSUME NEW w \in Worker, UpdateStatus(w)
      PROVE  AbstractBoard!Next
  <2>0. /\ cur[w] \in Task /\ Driving(w) /\ status[cur[w]] = "in_progress"
        /\ Target(out[w]) \in AbstractBoard!Over \cup {"pending"}
    BY <1>3 DEF UpdateStatus, IInv, Registers, Driving, Safe, ClaimsAreHeld, Target,
                Outcome, TaskStatus, AbstractBoard!Over
  <2>1. PICK t \in Task, s \in AbstractBoard!Over \cup {"pending"} :
          /\ t = cur[w] /\ s = Target(out[w])
          /\ Driving(w) /\ status[t] = "in_progress"
    BY <2>0
  <2>2. /\ status' = [status EXCEPT ![t] = s]
        /\ blockedBy' = blockedBy /\ abandoned' = abandoned
        /\ cur' = cur /\ pc' = [pc EXCEPT ![w] = "row"]
    BY <1>3, <2>1 DEF UpdateStatus, SetStatus, Goto
  <2>3. Doing[w] = t /\ Doing' = [Doing EXCEPT ![w] = NoTask]
    BY <2>1, <2>2 DEF Doing, Driving, IInv, TypeOK
  <2>4. AbstractBoard!PutDown(w, t, s)
    BY <2>1, <2>2, <2>3 DEF AbstractBoard!PutDown, Doing
  <2> QED
    BY <2>1, <2>4 DEF AbstractBoard!Next
<1>4. ASSUME NEW w \in Worker, GenerateTask(w)
      PROVE  AbstractBoard!Next
  <2>1. PICK t \in Task : InsertTask(t) /\ cur' = [cur EXCEPT ![w] = t]
    BY <1>4 DEF GenerateTask
  <2> QED
    BY <1>4, <2>1, InsertFiles DEF GenerateTask, Goto, Driving, IInv, TypeOK
<1>5. ASSUME NEW t \in CliTask, CliAdd(t)
      PROVE  AbstractBoard!Next
  BY <1>5, InsertFiles DEF CliAdd, Driving, IInv
<1>6. CASE (\E w \in Worker : Stop(w)) \/ CliRow \/ Interrupt \/ UNCHANGED vars
  BY <1>6, Stutter DEF Stop, CliRow, AddRow, Interrupt, vars, Driving
<1>7. CASE Restart
  BY <1>7, Stutter DEF Restart, Driving, IInv, Registers
<1>8. CASE ProcessExit
  <2>1. Doing' = [w \in Worker |-> NoTask]
    BY <1>8 DEF ProcessExit, Doing, Driving
  <2>2. AbstractBoard!Die
    BY <1>8, <2>1 DEF ProcessExit, WithStatus, AbstractBoard!Die, Doing
  <2> QED
    BY <2>2 DEF AbstractBoard!Next
<1> QED
  BY <1>1, <1>2, <1>3, <1>4, <1>5, <1>6, <1>7, <1>8 DEF Next

(* A perpetual team, with its stale peeks, retries, stops and restarts,    *)
(* behaves as the abstract board: start after the blockers, one at a time, *)
(* put down once, dead processes leave their tasks behind.                 *)
THEOREM TeamImplementsBoard == Spec => ImplementsBoard
  BY RefinementInit, RefinementStep, Invariance, PTL
  DEF Spec, ImplementsBoard, AbstractBoard!Spec

=============================================================================
