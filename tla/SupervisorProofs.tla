-------------------------- MODULE SupervisorProofs --------------------------
(***************************************************************************)
(* The safety of one supervisor, for any number of tasks and slots, every  *)
(* blocked_by relation, every roster, with and without a pool.             *)
(***************************************************************************)
EXTENDS Supervisor, FiniteSetTheorems, TLAPS

(* What the registers of the run loop and of the slots hold at each of     *)
(* their locations.                                                        *)
Registers ==
  /\ main \in {"claim", "fail_update", "fail_row"} => peeked \in Task
  /\ main = "claim" => HasHead(RequiredHead[peeked])
  /\ main = "fail_update" => Ready(peeked) /\ ~HasHead(RequiredHead[peeked])
  /\ main = "examine" => \A t \in snap : status[t] = "pending"
  /\ \A s \in Slot :
       /\ slot[s] # "free" =>
            s \in pool /\ cur[s] \in Task /\ HasHead(RequiredHead[cur[s]])
       /\ slot[s] \in {"update", "row", "finished"} => out[s] \in Outcome
       /\ out[s] = "aborted" => abort
       /\ Driving(s) => status[cur[s]] = "in_progress"

(* Every task in progress has somebody to drive it, or was dropped. *)
Held ==
  \A t \in Task :
    status[t] = "in_progress" => t \in dropped \/ \E s \in Slot : Driving(s) /\ cur[s] = t

Safe == NoDoubleDrive /\ StartedAfterBlockers /\ Held

IInv == TypeOK /\ Registers /\ Safe

(* The tasks that nobody adds from outside. *)
Own == Task \ CliTask

(* A supervisor without a pool peeks and claims while no dispatch runs. *)
Still == ~Parallel /\ main \in {"examine", "claim"} => InFlight = {}

(* Of its own tasks none that is ready was left out by such a peek, and    *)
(* the one it peeked at is the first of its head.                          *)
Alone ==
  ~Parallel =>
    /\ main = "examine" => \A t \in Own : Ready(t) => t \in snap
    /\ main = "claim" =>
         /\ Ready(peeked)
         /\ \A t \in Own : Ready(t) /\ RequiredHead[t] = RequiredHead[peeked]
                             => Rank[peeked] <= Rank[t]
    /\ dropped \subseteq CliTask

(* On the way out of a run that nobody aborted, no dispatch is left and of *)
(* its own tasks ever fewer statuses.                                      *)
Leaving ==
  /\ main \in {"idle_pending", "idle_in_progress"} => InFlight = {}
  /\ main = "idle_in_progress" => \A t \in Own : status[t] # "pending"
  /\ main \in {"shutdown", "returned"} /\ ~abort =>
       InFlight = {} /\ \A t \in Own : status[t] \notin {"pending", "in_progress"}

-----------------------------------------------------------------------------
(* A fresh supervisor satisfies the invariant.                             *)
LEMMA InitInv == Init => IInv
<1> SUFFICES ASSUME Init PROVE IInv
  OBVIOUS
<1>1. TypeOK
  BY KanbanAssumption, SupervisorAssumption
  DEF Init, BoardInit, TypeOK, BoardTypeOK, TaskStatus, TimelineRow, NoRow, MainLoc, SlotLoc
<1>2. Registers /\ NoDoubleDrive
  BY DEF Init, Registers, Driving, NoDoubleDrive
<1>3. StartedAfterBlockers /\ Held
  BY DEF Init, BoardInit, StartedAfterBlockers, Held
<1> QED
  BY <1>1, <1>2, <1>3 DEF IInv, Safe

(* A step that changes neither board nor slots is invisible to the safety  *)
(* of the board.                                                           *)
LEMMA QuietStep ==
  ASSUME Safe, UNCHANGED <<blockedBy, status, slot, cur, dropped>>
  PROVE  Safe'
BY DEF Safe, NoDoubleDrive, StartedAfterBlockers, Held, Driving

(* The run loop looks at the abort marker, lists, examines and checks      *)
(* whether it has drained the board (supervisor.py:150-275).               *)
LEMMA LookSteps ==
  ASSUME IInv,
         Iterate \/ ListPending \/ Examine \/ IdlePending \/ IdleInProgress \/ Return
  PROVE  IInv'
<1> USE DEF IInv, slotVars, env, board
<1>1. UNCHANGED <<board, slotVars, env, dropped>>
  BY DEF Iterate, ListPending, Examine, IdlePending, IdleInProgress, Return
<1>2. Safe'
  BY <1>1, QuietStep
<1>3. main' \in MainLoc /\ peeked' \in Task \cup {NoTask} /\ snap' \subseteq Task
  BY DEF Iterate, ListPending, Examine, IdlePending, IdleInProgress, Return, NothingToDo,
         PeekLost, FirstOf, WithStatus, TypeOK, MainLoc
<1>4. TypeOK'
  BY <1>1, <1>3 DEF TypeOK, BoardTypeOK
<1>5. CASE Iterate \/ ListPending \/ IdlePending \/ IdleInProgress \/ Return
  BY <1>1, <1>2, <1>4, <1>5
  DEF Iterate, ListPending, IdlePending, IdleInProgress, Return, WithStatus, Registers, Driving
<1>6. CASE Examine
  <2>1. \/ main' \in {"wait", "idle_pending", "list"}
        \/ main' = "examine" /\ snap' \subseteq snap
        \/ /\ peeked' \in snap /\ BlockersDone(peeked')
           /\ \/ main' = "claim" /\ HasHead(RequiredHead[peeked'])
              \/ main' = "fail_update" /\ ~HasHead(RequiredHead[peeked'])
    BY <1>6 DEF Examine, NothingToDo, PeekLost, FirstOf
  <2>2. \A t \in snap : status[t] = "pending"
    BY <1>6 DEF Examine, Registers
  <2>3. Registers'
    BY <1>1, <2>1, <2>2 DEF Registers, Driving, Ready, BlockersDone, TypeOK
  <2> QED
    BY <1>2, <1>4, <2>3
<1> QED
  BY <1>5, <1>6

(* A claim takes a ready task: into a free slot, or to be dropped.         *)
LEMMA ClaimStep ==
  ASSUME IInv, Claim
  PROVE  IInv'
<1> USE DEF IInv, slotVars, env, board
<1>1. CASE ReadyFor(RequiredHead[peeked]) = {} /\ main' = PeekLost
           /\ UNCHANGED <<board, slotVars, dropped>>
  <2>1. UNCHANGED <<snap, env>> /\ peeked' = NoTask /\ main' \in {"list", "idle_pending"}
    BY <1>1 DEF Claim, PeekLost
  <2>2. TypeOK' /\ Registers'
    BY <1>1, <2>1 DEF TypeOK, BoardTypeOK, MainLoc, Registers, Driving
  <2> QED
    BY <1>1, <2>2, QuietStep
<1>2. ASSUME NEW t \in ReadyFor(RequiredHead[peeked]), ClaimOne(t),
             \/ UNCHANGED slotVars /\ dropped' = dropped \cup {t}
             \/ \E s \in pool \ InFlight :
                  /\ slot' = [slot EXCEPT ![s] = "dispatch"]
                  /\ cur' = [cur EXCEPT ![s] = t]
                  /\ UNCHANGED <<out, dropped>>,
             main' \in {"list", "wait", "idle_pending"}
      PROVE  IInv'
  <2>1. /\ t \in Task /\ status[t] = "pending" /\ BlockersDone(t)
        /\ HasHead(RequiredHead[t])
        /\ status' = [status EXCEPT ![t] = "in_progress"]
        /\ lastRow' = [lastRow EXCEPT ![t] = [from |-> "pending", to |-> "in_progress"]]
        /\ UNCHANGED <<blockedBy, snap, env>> /\ peeked' = NoTask
    BY <1>2 DEF Claim, ClaimOne, ReadyFor, Ready, Registers
  <2>2. /\ main' \in MainLoc
        /\ blockedBy' \in [Task -> SUBSET Task]
        /\ status' \in [Task -> TaskStatus \cup {"absent"}]
        /\ lastRow' \in [Task -> TimelineRow]
    BY <1>2, <2>1 DEF TypeOK, BoardTypeOK, TaskStatus, TimelineRow, MainLoc
  <2>3. \A s \in Slot : Driving(s) => cur[s] # t
    BY <2>1 DEF Registers
  <2>4. StartedAfterBlockers'
    BY <2>1 DEF Safe, StartedAfterBlockers, BlockersDone, TypeOK, BoardTypeOK
  <2>5. CASE UNCHANGED slotVars /\ dropped' = dropped \cup {t}
    <3>1. TypeOK'
      BY <2>1, <2>2, <2>5 DEF TypeOK, BoardTypeOK
    <3>2. Registers'
      BY <1>2, <2>1, <2>3, <2>5 DEF Registers, Driving, TypeOK, BoardTypeOK
    <3>3. NoDoubleDrive' /\ Held'
      BY <2>1, <2>5 DEF Safe, NoDoubleDrive, Held, Driving, TypeOK, BoardTypeOK
    <3> QED
      BY <2>4, <3>1, <3>2, <3>3 DEF Safe
  <2>6. ASSUME NEW s \in pool \ InFlight,
               slot' = [slot EXCEPT ![s] = "dispatch"],
               cur' = [cur EXCEPT ![s] = t], UNCHANGED <<out, dropped>>
        PROVE  IInv'
    <3>1. s \in Slot /\ slot[s] = "free"
      BY <2>6, SupervisorAssumption DEF InFlight, TypeOK
    <3>2. TypeOK'
      BY <2>1, <2>2, <2>6, <3>1 DEF TypeOK, BoardTypeOK, SlotLoc
    <3>3. /\ slot'[s] = "dispatch" /\ cur'[s] = t
          /\ \A r \in Slot \ {s} : slot'[r] = slot[r] /\ cur'[r] = cur[r]
      BY <2>6, <3>1 DEF TypeOK
    <3>4. Registers'
      BY <1>2, <2>1, <2>3, <2>6, <3>1, <3>3 DEF Registers, Driving, TypeOK, BoardTypeOK
    <3>5. NoDoubleDrive'
      BY <2>3, <3>1, <3>3 DEF Safe, NoDoubleDrive, Driving
    <3>6. Held'
      BY <2>1, <2>6, <3>1, <3>3 DEF Safe, Held, Driving, TypeOK, BoardTypeOK
    <3> QED
      BY <2>4, <3>2, <3>4, <3>5, <3>6 DEF Safe
  <2> QED
    BY <1>2, <2>5, <2>6
<1> QED
  BY <1>1, <1>2 DEF Claim, PeekLost

(* The pool fails a ready task that no head serves; nobody drives it.      *)
LEMMA HeadlessSteps ==
  ASSUME IInv, FailHeadless \/ LogHeadless
  PROVE  IInv'
<1> USE DEF IInv, slotVars, env, board
<1>1. UNCHANGED <<snap, slotVars, env, dropped, blockedBy>>
  BY DEF FailHeadless, LogHeadless, SetStatus, AddRow
<1>2. CASE FailHeadless
  <2>1. /\ peeked \in Task /\ status[peeked] = "pending" /\ BlockersDone(peeked)
        /\ status' = [status EXCEPT ![peeked] = "failed"]
        /\ lastRow' = lastRow /\ peeked' = peeked /\ main' = "fail_row"
    BY <1>2 DEF FailHeadless, SetStatus, Registers, Ready
  <2>2. TypeOK'
    BY <1>1, <2>1 DEF TypeOK, BoardTypeOK, TaskStatus, MainLoc
  <2>3. Registers'
    BY <1>1, <2>1 DEF Registers, Driving, TypeOK, BoardTypeOK
  <2>4. Safe'
    BY <1>1, <2>1
    DEF Safe, NoDoubleDrive, StartedAfterBlockers, Held, Driving, BlockersDone, TypeOK,
        BoardTypeOK
  <2> QED
    BY <2>2, <2>3, <2>4
<1>3. CASE LogHeadless
  <2>1. /\ peeked \in Task /\ peeked' = NoTask /\ main' = "list" /\ status' = status
        /\ lastRow' \in [Task -> TimelineRow]
    BY <1>3 DEF LogHeadless, AddRow, Registers, TypeOK, BoardTypeOK, TimelineRow, TaskStatus
  <2>2. TypeOK' /\ Registers'
    BY <1>1, <2>1 DEF TypeOK, BoardTypeOK, MainLoc, Registers, Driving
  <2> QED
    BY <1>1, <2>1, <2>2, QuietStep
<1> QED
  BY <1>2, <1>3

(* Finished futures are collected; nobody drove them any more.             *)
LEMMA WaitStep ==
  ASSUME IInv, Wait
  PROVE  IInv'
<1> USE DEF IInv, env, board
<1> DEFINE finished == {s \in Slot : slot[s] = "finished"}
<1>1. /\ UNCHANGED <<board, peeked, snap, env, dropped>>
      /\ main' \in {"shutdown", "loop"}
      /\ slot' = [s \in Slot |-> IF s \in finished THEN "free" ELSE slot[s]]
      /\ cur' = [s \in Slot |-> IF s \in finished THEN NoTask ELSE cur[s]]
      /\ out' = [s \in Slot |-> IF s \in finished THEN "none" ELSE out[s]]
  BY DEF Wait
<1>2. TypeOK'
  BY <1>1 DEF TypeOK, BoardTypeOK, MainLoc, SlotLoc
<1>3. Registers'
  BY <1>1 DEF Registers, Driving
<1>4. \A s \in Slot : (Driving(s)' <=> Driving(s)) /\ (Driving(s) => cur'[s] = cur[s])
  BY <1>1 DEF Driving
<1>5. Safe'
  BY <1>1, <1>4 DEF Safe, NoDoubleDrive, StartedAfterBlockers, Held
<1> QED
  BY <1>2, <1>3, <1>5

(* A dispatch returns, and its outcome is written (_dispatch_one, the      *)
(* second half of step).                                                   *)
LEMMA ThreadStep ==
  ASSUME IInv, NEW s \in Slot, Thread(s)
  PROVE  IInv'
<1> USE SupervisorAssumption DEF IInv, mainVars, env, board
<1>1. /\ UNCHANGED <<mainVars, cur, env, dropped, blockedBy>>
      /\ \E l \in {"update", "row", "finished"} : slot' = [slot EXCEPT ![s] = l]
      /\ slot[s] # "free"
  BY DEF Thread, Dispatch, UpdateStatus, LogStatus, SetStatus, AddRow
<1>2. s \in pool /\ cur[s] \in Task /\ HasHead(RequiredHead[cur[s]])
  BY <1>1 DEF Registers
<1>3. \A r \in Slot \ {s} : slot'[r] = slot[r] /\ cur'[r] = cur[r]
  BY <1>1 DEF TypeOK
<1>4. CASE Dispatch(s)
  <2>1. /\ status' = status /\ lastRow' = lastRow
        /\ slot' = [slot EXCEPT ![s] = "update"] /\ Driving(s)
    BY <1>4 DEF Dispatch, Driving
  <2>2. PICK o \in Outcome : out' = [out EXCEPT ![s] = o] /\ (o = "aborted" => abort)
    BY <1>4 DEF Dispatch
  <2>3. TypeOK'
    BY <1>1, <2>1, <2>2 DEF TypeOK, BoardTypeOK, SlotLoc
  <2>4. \A r \in Slot : Driving(r)' <=> Driving(r)
    BY <2>1 DEF Driving, TypeOK
  <2>5. Registers'
    BY <1>1, <1>2, <1>3, <2>1, <2>2, <2>4 DEF Registers, TypeOK, Ready, BlockersDone
  <2>6. Safe'
    BY <1>1, <2>1, <2>4 DEF Safe, NoDoubleDrive, StartedAfterBlockers, Held
  <2> QED
    BY <2>3, <2>5, <2>6
<1>5. CASE UpdateStatus(s)
  <2>1. Target(out[s]) \in TaskStatus \ {"in_progress"}
    BY <1>5 DEF UpdateStatus, Registers, Target, Outcome, TaskStatus
  <2>2. /\ status' = [status EXCEPT ![cur[s]] = Target(out[s])]
        /\ lastRow' = lastRow /\ out' = out
        /\ slot' = [slot EXCEPT ![s] = "row"] /\ Driving(s) /\ slot[s] = "update"
    BY <1>5 DEF UpdateStatus, SetStatus, Driving
  <2>3. TypeOK'
    BY <1>1, <1>2, <2>1, <2>2 DEF TypeOK, BoardTypeOK, SlotLoc
  <2>4. ~Driving(s)' /\ \A r \in Slot \ {s} : Driving(r)' <=> Driving(r)
    BY <1>3, <2>2 DEF Driving, TypeOK
  <2>5. \A r \in Slot \ {s} : Driving(r) => cur[r] # cur[s]
    BY <2>2 DEF Safe, NoDoubleDrive
  <2>6. status[cur[s]] = "in_progress"
    BY <2>2 DEF Registers
  <2>7. \A t \in Task : status[t] \in {"pending", "done"} => status'[t] = status[t]
    BY <1>2, <2>2, <2>6 DEF TypeOK, BoardTypeOK
  <2>8. Registers'
    <3>1. main' = "fail_update" => Ready(peeked)' /\ ~HasHead(RequiredHead[peeked])
      BY <1>1, <2>7 DEF Registers, Ready, BlockersDone, TypeOK, BoardTypeOK
    <3>2. main' = "examine" => \A t \in snap' : status'[t] = "pending"
      BY <1>1, <2>7 DEF Registers, TypeOK
    <3>3. \A r \in Slot : Driving(r)' => status'[cur'[r]] = "in_progress"
      BY <1>1, <1>2, <2>2, <2>4, <2>5 DEF Registers, Driving, TypeOK, BoardTypeOK
    <3>4. out[s] \in Outcome
      BY <2>2 DEF Registers
    <3> QED
      BY <1>1, <1>2, <1>3, <2>2, <3>1, <3>2, <3>3, <3>4 DEF Registers
  <2>9. NoDoubleDrive'
    BY <1>1, <2>4 DEF Safe, NoDoubleDrive
  <2>10. StartedAfterBlockers'
    BY <1>1, <1>2, <2>2, <2>6, <2>7
    DEF Safe, StartedAfterBlockers, TypeOK, BoardTypeOK
  <2>11. Held'
    BY <1>1, <1>2, <2>1, <2>2, <2>4 DEF Safe, Held, TypeOK, BoardTypeOK
  <2> QED
    BY <2>3, <2>8, <2>9, <2>10, <2>11 DEF Safe
<1>6. CASE LogStatus(s)
  <2>1. Target(out[s]) \in TaskStatus
    BY <1>6 DEF LogStatus, Registers, Target, Outcome, TaskStatus
  <2>2. /\ status' = status /\ out' = out /\ lastRow' \in [Task -> TimelineRow]
        /\ slot' = [slot EXCEPT ![s] = "finished"] /\ slot[s] = "row"
    BY <1>2, <1>6, <2>1
    DEF LogStatus, AddRow, TypeOK, BoardTypeOK, TimelineRow, TaskStatus
  <2>3. TypeOK'
    BY <1>1, <2>2 DEF TypeOK, BoardTypeOK, SlotLoc
  <2>4. \A r \in Slot : Driving(r)' <=> Driving(r)
    BY <2>2 DEF Driving, TypeOK
  <2>5. Registers'
    BY <1>1, <1>2, <1>3, <2>2, <2>4 DEF Registers, TypeOK, Ready, BlockersDone
  <2>6. Safe'
    BY <1>1, <2>2, <2>4 DEF Safe, NoDoubleDrive, StartedAfterBlockers, Held
  <2> QED
    BY <2>3, <2>5, <2>6
<1> QED
  BY <1>4, <1>5, <1>6 DEF Thread

(* The operator aborts and submits.                                        *)
LEMMA OperatorStep ==
  ASSUME IInv, SetAbort \/ CliRow \/ \E t \in CliTask : CliAdd(t)
  PROVE  IInv'
<1> USE SupervisorAssumption DEF IInv, mainVars, slotVars, board
<1>1. CASE SetAbort \/ CliRow
  <2>1. /\ UNCHANGED <<blockedBy, status, mainVars, slotVars, pool, dropped>>
        /\ abort => abort'
    BY <1>1 DEF SetAbort, CliRow, AddRow
  <2>2. abort' \in BOOLEAN /\ cli' \in Task \cup {NoTask} /\ lastRow' \in [Task -> TimelineRow]
    <3>1. CASE SetAbort
      BY <3>1 DEF SetAbort, TypeOK, BoardTypeOK
    <3>2. CASE CliRow
      BY <3>2 DEF CliRow, AddRow, TypeOK, BoardTypeOK, TimelineRow, TaskStatus
    <3> QED
      BY <1>1, <3>1, <3>2
  <2>3. TypeOK' /\ Registers'
    BY <2>1, <2>2 DEF TypeOK, BoardTypeOK, Registers, Driving, Ready, BlockersDone
  <2> QED
    BY <2>1, <2>3, QuietStep
<1>2. ASSUME NEW t \in CliTask, CliAdd(t) PROVE IInv'
  <2>1. /\ t \in Task /\ status[t] = "absent" /\ status' = [status EXCEPT ![t] = "pending"]
        /\ UNCHANGED <<blockedBy, lastRow, mainVars, slotVars, pool, abort, dropped>>
        /\ cli' = t
    BY <1>2 DEF CliAdd, InsertTask
  <2>2. TypeOK'
    BY <2>1 DEF TypeOK, BoardTypeOK, TaskStatus
  <2>3. \A u \in Task : status[u] # "absent" => status'[u] = status[u]
    BY <2>1 DEF TypeOK, BoardTypeOK
  <2>4. Registers'
    BY <2>1, <2>3 DEF Registers, Driving, Ready, BlockersDone, TypeOK, BoardTypeOK
  <2>5. Safe'
    BY <2>1, <2>3
    DEF Safe, NoDoubleDrive, StartedAfterBlockers, Held, Driving, TypeOK, BoardTypeOK
  <2> QED
    BY <2>2, <2>4, <2>5
<1> QED
  BY <1>1, <1>2

(* The invariant is inductive. *)
LEMMA NextInv == IInv /\ [Next]_vars => IInv'
<1>1. IInv /\ UNCHANGED vars => IInv'
  BY DEF vars, board, mainVars, slotVars, env, IInv, TypeOK, BoardTypeOK, Registers, Safe,
         NoDoubleDrive, StartedAfterBlockers, Held, Driving, Ready, BlockersDone
<1> QED
  BY <1>1, LookSteps, ClaimStep, HeadlessSteps, WaitStep, ThreadStep, OperatorStep
  DEF Next, Main

(* The invariant holds in every reachable state. *)
THEOREM Invariance == Spec => []IInv
BY InitInv, NextInv, PTL DEF Spec

(* The types of the board and of the supervisor's registers. *)
THEOREM Typing == Spec => []TypeOK
BY Invariance, PTL DEF IInv

(* supervisor.py:214-215: no two threads drive the same task, whatever the *)
(* size of the pool and however often tasks are given back.                *)
THEOREM Exclusion == Spec => []NoDoubleDrive
BY Invariance, PTL DEF IInv, Safe

(* A task leaves pending only after its blockers are done, for every       *)
(* blocked_by relation and however stale the peek.                         *)
THEOREM BlockersFirst == Spec => []StartedAfterBlockers
BY Invariance, PTL DEF IInv, Safe

-----------------------------------------------------------------------------
(* A run without a pool has one slot.                                      *)
LEMMA OneSlot ==
  ASSUME IInv, ~Parallel
  PROVE  \E s \in Slot : pool = {s}
<1>1. pool \in SUBSET Slot /\ pool # {}
  BY SupervisorAssumption DEF IInv, TypeOK
<1>2. IsFiniteSet(pool) /\ Cardinality(pool) \in Nat
  BY <1>1, SupervisorAssumption, FS_Subset, FS_CardinalityType
<1>3. Cardinality(pool) # 0
  BY <1>1, <1>2, FS_EmptySet
<1>4. Cardinality(pool) = 1
  BY <1>2, <1>3 DEF Parallel
<1> QED
  BY <1>1, <1>2, <1>4, FS_Singleton

(* Without a pool, a slot that is taken takes them all.                    *)
LEMMA NoneOrAll ==
  ASSUME IInv, ~Parallel, InFlight # pool
  PROVE  InFlight = {}
BY OneSlot DEF IInv, Registers, InFlight

(* Still is kept by every step. *)
LEMMA StillStep ==
  ASSUME IInv, Still, [Next]_vars
  PROVE  Still'
<1> SUFFICES ASSUME ~Parallel, main' \in {"examine", "claim"} PROVE InFlight' = {}
  BY DEF Still, Parallel, Next, Main, Thread, vars, env, slotVars, Iterate, ListPending,
         Examine, Claim, FailHeadless, LogHeadless, Wait, IdlePending, IdleInProgress,
         Return, Dispatch, UpdateStatus, LogStatus, SetAbort, CliAdd, CliRow
<1>1. CASE ListPending
  <2>1. InFlight # pool
    BY <1>1 DEF ListPending
  <2> QED
    BY <1>1, <2>1, NoneOrAll DEF ListPending, slotVars, InFlight
<1>2. CASE Examine
  BY <1>2 DEF Examine, Still, slotVars, InFlight
<1>3. CASE Claim \/ Iterate \/ FailHeadless \/ LogHeadless \/ Wait \/ IdlePending
           \/ IdleInProgress \/ Return
  BY <1>3
  DEF Claim, PeekLost, Iterate, FailHeadless, LogHeadless, Wait, IdlePending,
      IdleInProgress, Return
<1>4. ASSUME NEW s \in Slot, Thread(s) PROVE FALSE
  BY <1>4 DEF Thread, Dispatch, UpdateStatus, LogStatus, InFlight, mainVars, Still
<1>5. CASE SetAbort \/ CliRow \/ (\E t \in CliTask : CliAdd(t)) \/ UNCHANGED vars
  BY <1>5 DEF SetAbort, CliRow, CliAdd, vars, mainVars, slotVars, Still, InFlight
<1> QED
  BY <1>1, <1>2, <1>3, <1>4, <1>5 DEF Next, Main

(* The ORDER BY of peek and claim leaves no two tasks in the same place. *)
DistinctRanks == \A t, u \in Task : Rank[t] = Rank[u] => t = u

(* Alone is kept by every step: nobody but an operator changes the board   *)
(* between the peek of a supervisor without a pool and its claim.          *)
LEMMA AloneStep ==
  ASSUME IInv, Still, Alone, [Next]_vars, DistinctRanks
  PROVE  Alone'
<1> SUFFICES ASSUME ~Parallel PROVE Alone'
  BY DEF Alone, Parallel, Next, Main, Thread, vars, env, slotVars, Iterate, ListPending,
         Examine, Claim, FailHeadless, LogHeadless, Wait, IdlePending, IdleInProgress,
         Return, Dispatch, UpdateStatus, LogStatus, SetAbort, CliAdd, CliRow
<1> USE DEF IInv
<1>1. CASE ListPending
  <2>1. main' = "examine" => \A t \in Own : Ready(t)' => t \in snap'
    BY <1>1 DEF ListPending, WithStatus, Ready, board, Own
  <2> QED
    BY <1>1, <2>1 DEF ListPending, Alone
<1>2. CASE Examine
  <2>1. UNCHANGED <<board, dropped>> /\ main = "examine"
    BY <1>2 DEF Examine
  <2>2. main' = "examine" => \A t \in Own : Ready(t) => t \in snap'
    BY <1>2 DEF Examine, Alone, FirstOf, Ready, NothingToDo, PeekLost
  <2>3. main' = "claim" =>
          peeked' \in FirstOf(snap) /\ BlockersDone(peeked') /\ status[peeked'] = "pending"
    BY <1>2 DEF Examine, NothingToDo, PeekLost, Registers, FirstOf
  <2>4. main' = "claim" => \A t \in Own : Ready(t) => Rank[peeked'] <= Rank[t]
    BY <2>1, <2>3 DEF Alone, FirstOf
  <2> QED
    BY <2>1, <2>2, <2>3, <2>4 DEF Alone, Ready, BlockersDone, board
<1>3. CASE Claim
  <2>1. main' \notin {"examine", "claim"}
    BY <1>3 DEF Claim, PeekLost
  <2>2. ASSUME NEW t \in Own, t \in dropped' PROVE FALSE
    <3>1. t \notin dropped
      BY <2>2 DEF Alone, Own
    <3>2. t \in ReadyFor(RequiredHead[peeked]) /\ ClaimOne(t) /\ t # peeked
      BY <1>3, <2>2, <3>1 DEF Claim
    <3>3. Rank[peeked] <= Rank[t] /\ peeked \in ReadyFor(RequiredHead[t])
      BY <1>3, <2>2, <3>2 DEF Claim, Alone, ReadyFor, Registers
    <3>4. Rank[t] <= Rank[peeked]
      BY <3>2, <3>3 DEF ClaimOne, FirstOf
    <3>5. Rank[t] \in Nat /\ Rank[peeked] \in Nat /\ t \in Task /\ peeked \in Task
      BY <3>2, <3>3, KanbanAssumption DEF ReadyFor
    <3> QED
      BY <3>2, <3>3, <3>4, <3>5 DEF DistinctRanks
  <2>3. dropped' \subseteq Task
    BY <1>3, SupervisorAssumption DEF Claim, ReadyFor, Alone
  <2> QED
    BY <2>1, <2>2, <2>3 DEF Alone, Own
<1>4. CASE Iterate \/ FailHeadless \/ LogHeadless \/ Wait \/ IdlePending \/ IdleInProgress \/ Return
  BY <1>4
  DEF Iterate, FailHeadless, LogHeadless, Wait, IdlePending, IdleInProgress, Return, Alone
<1>5. ASSUME NEW s \in Slot, Thread(s) PROVE Alone'
  <2>1. s \in InFlight
    BY <1>5 DEF Thread, Dispatch, UpdateStatus, LogStatus, InFlight
  <2>2. main' = main /\ dropped' = dropped
    BY <1>5 DEF Thread, Dispatch, UpdateStatus, LogStatus, mainVars
  <2> QED
    BY <2>1, <2>2 DEF Alone, Still
<1>6. CASE SetAbort \/ CliRow \/ UNCHANGED vars
  <2>1. UNCHANGED <<blockedBy, status, mainVars, slot, dropped>>
    BY <1>6 DEF SetAbort, CliRow, AddRow, vars, board, slotVars
  <2> QED
    BY <2>1 DEF Alone, mainVars, Ready, BlockersDone
<1>7. ASSUME NEW u \in CliTask, CliAdd(u) PROVE Alone'
  <2>1. /\ status[u] = "absent" /\ status' = [status EXCEPT ![u] = "pending"]
        /\ UNCHANGED <<blockedBy, mainVars, slot, dropped>>
    BY <1>7 DEF CliAdd, InsertTask, slotVars
  <2>2. \A t \in Task : BlockersDone(t)' <=> BlockersDone(t)
    BY <2>1 DEF BlockersDone, TypeOK, BoardTypeOK
  <2>3. \A t \in Own : Ready(t)' <=> Ready(t)
    BY <2>1, <2>2 DEF Ready, Own, TypeOK, BoardTypeOK
  <2>4. \A t \in Task : Ready(t) => Ready(t)'
    BY <2>1, <2>2 DEF Ready, TypeOK, BoardTypeOK
  <2> QED
    BY <2>1, <2>3, <2>4 DEF Alone, mainVars, Registers
<1> QED
  BY <1>1, <1>2, <1>3, <1>4, <1>5, <1>6, <1>7 DEF Next, Main

(* supervisor.py:251-253: no claim is leaked, but for those a dropped peek *)
(* leaves behind; and a supervisor without a pool drops only tasks that    *)
(* were submitted from outside between its peek and its claim, if no two   *)
(* tasks share a place in the order.                                       *)
THEOREM ClaimsHeld ==
  ASSUME DistinctRanks
  PROVE  Spec => []ClaimsAreHeld
<1>1. Init => Still /\ Alone
  BY DEF Init, Still, Alone
<1>2. IInv /\ Still /\ Alone /\ [Next]_vars => Still' /\ Alone'
  BY StillStep, AloneStep
<1>3. IInv /\ Alone => ClaimsAreHeld
  BY DEF IInv, Safe, Held, Alone, ClaimsAreHeld
<1> QED
  BY <1>1, <1>2, <1>3, Invariance, PTL DEF Spec

-----------------------------------------------------------------------------
(* Leaving is kept by every step: once the drain check has begun only an   *)
(* operator touches the board.                                             *)
LEMMA LeavingStep ==
  ASSUME IInv, Still, Leaving, [Next]_vars
  PROVE  Leaving'
<1> USE DEF IInv
<1>1. CASE Examine \/ Claim
  <2>1. main' = "idle_pending" => InFlight = {} /\ slot' = slot
    BY <1>1 DEF Examine, Claim, NothingToDo, PeekLost, slotVars, Still
  <2>2. main' \notin {"idle_in_progress", "shutdown", "returned"}
    BY <1>1 DEF Examine, Claim, NothingToDo, PeekLost
  <2> QED
    BY <2>1, <2>2 DEF Leaving, InFlight
<1>2. CASE IdlePending \/ IdleInProgress
  <2>1. UNCHANGED <<board, slotVars, env>> /\ InFlight = {}
    BY <1>2 DEF IdlePending, IdleInProgress, Leaving
  <2>2. main' = "idle_in_progress" => \A t \in Own : status[t] # "pending"
    BY <1>2 DEF IdlePending, IdleInProgress, WithStatus, Own
  <2>3. main' = "shutdown" => \A t \in Own : status[t] \notin {"pending", "in_progress"}
    BY <1>2 DEF IdlePending, IdleInProgress, WithStatus, Own, Leaving
  <2>4. main' \notin {"idle_pending", "returned"}
    BY <1>2 DEF IdlePending, IdleInProgress
  <2> QED
    BY <2>1, <2>2, <2>3, <2>4 DEF Leaving, InFlight, board, slotVars
<1>3. CASE Return
  BY <1>3 DEF Return, Leaving, InFlight, slotVars, board, env
<1>4. CASE Iterate \/ Wait
  <2>1. main' = "shutdown" => abort
    BY <1>4 DEF Iterate, Wait, Registers
  <2>2. main' \in {"shutdown", "list", "loop"} /\ abort' = abort
    BY <1>4 DEF Iterate, Wait, env
  <2> QED
    BY <2>1, <2>2 DEF Leaving
<1>5. CASE ListPending \/ FailHeadless \/ LogHeadless
  BY <1>5 DEF ListPending, FailHeadless, LogHeadless, Leaving
<1>6. ASSUME NEW s \in Slot, Thread(s) PROVE Leaving'
  <2>1. s \in InFlight /\ main' = main /\ abort' = abort
    BY <1>6 DEF Thread, Dispatch, UpdateStatus, LogStatus, InFlight, mainVars, env
  <2> QED
    BY <2>1 DEF Leaving
<1>7. CASE SetAbort \/ CliRow \/ UNCHANGED vars
  <2>1. UNCHANGED <<status, main, slot>> /\ (abort => abort')
    BY <1>7 DEF SetAbort, CliRow, AddRow, vars, board, mainVars, slotVars, env
  <2> QED
    BY <2>1 DEF Leaving, InFlight
<1>8. ASSUME NEW u \in CliTask, CliAdd(u) PROVE Leaving'
  <2>1. /\ status' = [status EXCEPT ![u] = "pending"]
        /\ UNCHANGED <<main, slot, abort>>
    BY <1>8 DEF CliAdd, InsertTask, mainVars, slotVars
  <2>2. \A t \in Own : status'[t] = status[t]
    BY <2>1 DEF Own, TypeOK, BoardTypeOK
  <2> QED
    BY <2>1, <2>2 DEF Leaving, InFlight
<1> QED
  BY <1>1, <1>2, <1>3, <1>4, <1>5, <1>6, <1>7, <1>8 DEF Next, Main

(* Without an abort run returns only when nothing is left to do of what    *)
(* was on the board when it started: the two SELECTs of the drain check    *)
(* are not one transaction, but nothing of the run is in flight between    *)
(* them.                                                                   *)
THEOREM Drained == Spec => []ReturnsDrained
<1>1. Init => Still /\ Leaving
  BY DEF Init, Still, Leaving
<1>2. IInv /\ Still /\ Leaving /\ [Next]_vars => Still' /\ Leaving'
  BY StillStep, LeavingStep
<1>3. Leaving => ReturnsDrained
  BY DEF Leaving, ReturnsDrained, Own
<1> QED
  BY <1>1, <1>2, <1>3, Invariance, PTL DEF Spec

-----------------------------------------------------------------------------
(* The supervisor implements the abstract board.                           *)

(* A dropped claim stays in progress and nobody drives it. *)
Leaked ==
  /\ dropped \subseteq Task
  /\ \A t \in dropped :
       status[t] = "in_progress" /\ \A s \in Slot : Driving(s) => cur[s] # t

(* A step that leaves the board, the dropped claims and the slots' hands.  *)
Idles ==
  /\ UNCHANGED <<blockedBy, status, dropped>>
  /\ \A s \in Slot : (Driving(s)' <=> Driving(s)) /\ (Driving(s) => cur'[s] = cur[s])

(* What a step does to the board, if it does not idle: it claims into a    *)
(* slot or drops the claim, fails a task without a head, writes the        *)
(* outcome of a dispatch, or inserts a row.                                *)
Takes(s, t) ==
  /\ status[t] = "pending" /\ BlockersDone(t)
  /\ ~Driving(s) /\ Driving(s)' /\ cur'[s] = t
  /\ \A r \in Slot \ {s} : (Driving(r)' <=> Driving(r)) /\ cur'[r] = cur[r]
  /\ status' = [status EXCEPT ![t] = "in_progress"]
  /\ UNCHANGED <<blockedBy, dropped>>

Drops(t) ==
  /\ status[t] = "pending" /\ BlockersDone(t)
  /\ UNCHANGED <<blockedBy, slot, cur>>
  /\ status' = [status EXCEPT ![t] = "in_progress"]
  /\ dropped' = dropped \cup {t}

Fails(t) ==
  /\ status[t] = "pending" /\ BlockersDone(t) /\ ~HasHead(RequiredHead[t])
  /\ UNCHANGED <<blockedBy, slot, cur, dropped>>
  /\ status' = [status EXCEPT ![t] = "failed"]

Ends(s, p) ==
  /\ Driving(s) /\ status[cur[s]] = "in_progress" /\ ~Driving(s)'
  /\ \A r \in Slot \ {s} : (Driving(r)' <=> Driving(r)) /\ cur'[r] = cur[r]
  /\ \A r \in Slot \ {s} : Driving(r) => cur[r] # cur[s]
  /\ status' = [status EXCEPT ![cur[s]] = p]
  /\ UNCHANGED <<blockedBy, dropped>>

Files(t) ==
  /\ status[t] = "absent"
  /\ status' = [status EXCEPT ![t] = "pending"]
  /\ UNCHANGED <<blockedBy, slot, cur, dropped>>

FinalOrPending == AbstractBoard!Over \cup {"pending"}

BoardStep ==
  \/ Idles
  \/ \E s \in Slot, t \in Task : Takes(s, t)
  \/ \E t \in Task : Drops(t) \/ Fails(t) \/ Files(t)
  \/ \E s \in Slot : cur[s] \in Task /\ \E p \in FinalOrPending : Ends(s, p)

(* The steps of the run loop, of the threads and of the operator, as the   *)
(* board sees them.                                                        *)
LEMMA BoardView == IInv /\ [Next]_vars => BoardStep
<1> SUFFICES ASSUME IInv, [Next]_vars PROVE BoardStep
  OBVIOUS
<1> USE SupervisorAssumption DEF IInv, board, mainVars, slotVars, env
<1>1. CASE Iterate \/ ListPending \/ Examine \/ IdlePending \/ IdleInProgress \/ Return
           \/ LogHeadless \/ SetAbort \/ CliRow \/ UNCHANGED vars
  <2>1. UNCHANGED <<blockedBy, status, slot, cur, dropped>>
    BY <1>1 DEF Iterate, ListPending, Examine, IdlePending, IdleInProgress, Return,
                LogHeadless, AddRow, SetAbort, CliRow, vars
  <2> QED
    BY <2>1 DEF BoardStep, Idles, Driving
<1>2. CASE Wait
  BY <1>2 DEF Wait, BoardStep, Idles, Driving
<1>3. CASE Claim
  <2>1. CASE UNCHANGED <<board, slotVars, dropped>>
    BY <2>1 DEF BoardStep, Idles, Driving
  <2>2. ASSUME NEW t \in ReadyFor(RequiredHead[peeked]), ClaimOne(t),
               UNCHANGED slotVars, dropped' = dropped \cup {t}
        PROVE  BoardStep
    BY <2>2 DEF ClaimOne, ReadyFor, Ready, BoardStep, Drops
  <2>3. ASSUME NEW t \in ReadyFor(RequiredHead[peeked]), ClaimOne(t),
               NEW s \in pool \ InFlight,
               slot' = [slot EXCEPT ![s] = "dispatch"],
               cur' = [cur EXCEPT ![s] = t], dropped' = dropped
        PROVE  BoardStep
    <3>1. s \in Slot /\ slot[s] = "free"
      BY <2>3 DEF InFlight, TypeOK
    <3>2. t \in Task /\ Takes(s, t)
      BY <2>3, <3>1 DEF ClaimOne, ReadyFor, Ready, Takes, Driving, TypeOK
    <3> QED
      BY <3>1, <3>2 DEF BoardStep
  <2> QED
    BY <1>3, <2>1, <2>2, <2>3 DEF Claim
<1>4. CASE FailHeadless
  <2>1. peeked \in Task /\ Fails(peeked)
    BY <1>4 DEF FailHeadless, SetStatus, Registers, Ready, Fails
  <2> QED
    BY <2>1 DEF BoardStep
<1>5. ASSUME NEW s \in Slot, Thread(s) PROVE BoardStep
  <2>1. CASE Dispatch(s) \/ LogStatus(s)
    <3>1. UNCHANGED <<blockedBy, status, cur, dropped>>
      BY <2>1 DEF Dispatch, LogStatus, AddRow
    <3>2. \A r \in Slot : Driving(r)' <=> Driving(r)
      BY <2>1 DEF Dispatch, LogStatus, Driving, TypeOK
    <3> QED
      BY <3>1, <3>2 DEF BoardStep, Idles
  <2>2. CASE UpdateStatus(s)
    <3>1. cur[s] \in Task /\ Driving(s) /\ status[cur[s]] = "in_progress"
      BY <2>2 DEF UpdateStatus, Registers, Driving
    <3>2. Target(out[s]) \in FinalOrPending
      BY <2>2 DEF UpdateStatus, Registers, Target, Outcome, TaskStatus, FinalOrPending,
                  AbstractBoard!Over
    <3>3. slot' = [slot EXCEPT ![s] = "row"]
      BY <2>2 DEF UpdateStatus
    <3>4. ~Driving(s)' /\ \A r \in Slot \ {s} : Driving(r)' <=> Driving(r)
      BY <3>3 DEF Driving, TypeOK
    <3>5. Ends(s, Target(out[s]))
      BY <2>2, <3>1, <3>4 DEF UpdateStatus, SetStatus, Ends, Safe, NoDoubleDrive
    <3> QED
      BY <3>1, <3>2, <3>5 DEF BoardStep
  <2> QED
    BY <1>5, <2>1, <2>2 DEF Thread
<1>6. ASSUME NEW t \in CliTask, CliAdd(t) PROVE BoardStep
  BY <1>6 DEF CliAdd, InsertTask, BoardStep, Files
<1> QED
  BY <1>1, <1>2, <1>3, <1>4, <1>5, <1>6 DEF Next, Main

(* Nobody writes the row of a dropped claim. *)
LEMMA LeakedStep == IInv /\ Leaked /\ BoardStep => Leaked'
<1> SUFFICES ASSUME IInv, Leaked, BoardStep PROVE Leaked'
  OBVIOUS
<1> status \in [Task -> TaskStatus \cup {"absent"}]
  BY DEF IInv, TypeOK, BoardTypeOK
<1>1. CASE Idles
  BY <1>1 DEF Idles, Leaked
<1>2. ASSUME NEW s \in Slot, NEW t \in Task, Takes(s, t) PROVE Leaked'
  BY <1>2 DEF Takes, Leaked
<1>3. ASSUME NEW t \in Task, Drops(t) PROVE Leaked'
  <2>1. \A s \in Slot : Driving(s) => cur[s] # t
    BY <1>3 DEF Drops, IInv, Registers
  <2> QED
    BY <1>3, <2>1 DEF Drops, Leaked, Driving
<1>4. ASSUME NEW t \in Task, Fails(t) \/ Files(t) PROVE Leaked'
  BY <1>4 DEF Fails, Files, Leaked, Driving
<1>5. ASSUME NEW s \in Slot, cur[s] \in Task, NEW p \in FinalOrPending, Ends(s, p)
      PROVE  Leaked'
  BY <1>5 DEF Ends, Leaked
<1> QED
  BY <1>1, <1>2, <1>3, <1>4, <1>5 DEF BoardStep

(* The hands of the slots and those that keep what was dropped.            *)
LEMMA HandsAre ==
  /\ \A s \in Slot : <<"slot", s>> \in Hands
  /\ \A t \in Task : <<"dropped", t>> \in Hands
  /\ \A h \in Hands :
       \/ h[1] = "slot" /\ h[2] \in Slot /\ h = <<"slot", h[2]>>
       \/ h[1] = "dropped" /\ h[2] \in Task /\ h = <<"dropped", h[2]>>
BY DEF Hands

LEMMA BoardInitial == Init => AbstractBoard!Init
<1> SUFFICES ASSUME Init PROVE AbstractBoard!Init
  OBVIOUS
<1>1. \A h \in Hands : Doing(h) = NoTask
  BY HandsAre DEF Init, Doing, Driving
<1> QED
  BY <1>1, KanbanAssumption, SupervisorAssumption DEF Init, BoardInit, AbstractBoard!Init

(* What the board sees of a step is one of the abstract board.             *)
LEMMA BoardStepImplements ==
  IInv /\ Leaked /\ BoardStep => [AbstractBoard!Next]_AbstractBoard!vars
<1> SUFFICES ASSUME IInv, Leaked, BoardStep
             PROVE  AbstractBoard!Next \/ UNCHANGED AbstractBoard!vars
  OBVIOUS
<1> DEFINE doing == [h \in Hands |-> Doing(h)]
           Keeps(h) == Doing(h)' = Doing(h)
<1>0. NoTask \notin Task /\ doing \in [Hands -> Task \cup {NoTask}]
  BY HandsAre, SupervisorAssumption DEF Doing, IInv, TypeOK, Leaked
<1>1. (\A h \in Hands : Keeps(h)) => doing' = doing
  OBVIOUS
<1>2. ASSUME NEW g \in Hands, NEW d, Doing(g)' = d, \A h \in Hands \ {g} : Keeps(h)
      PROVE  doing' = [doing EXCEPT ![g] = d]
  BY <1>2
<1>3. ASSUME slot' = slot, cur' = cur, dropped' = dropped
      PROVE  doing' = doing
  BY <1>3 DEF Doing, Driving
<1>4. CASE Idles
  <2>1. \A h \in Hands : Keeps(h)
    BY <1>4, HandsAre DEF Idles, Doing
  <2> QED
    BY <1>1, <1>4, <2>1 DEF Idles, AbstractBoard!vars
<1>5. ASSUME NEW s \in Slot, NEW t \in Task, Takes(s, t) PROVE AbstractBoard!Next
  <2>1. Doing(<<"slot", s>>) = NoTask /\ Doing(<<"slot", s>>)' = t
    BY <1>5 DEF Takes, Doing
  <2>2. \A h \in Hands \ {<<"slot", s>>} : Keeps(h)
    BY <1>5, HandsAre DEF Takes, Doing
  <2>3. doing' = [doing EXCEPT ![<<"slot", s>>] = t]
    BY <1>2, <2>1, <2>2, HandsAre
  <2>4. AbstractBoard!Start(<<"slot", s>>, t)
    BY <1>5, <2>1, <2>3, HandsAre DEF Takes, BlockersDone, AbstractBoard!Start
  <2> QED
    BY <2>4, HandsAre DEF AbstractBoard!Next
<1>6. ASSUME NEW t \in Task, Drops(t) PROVE AbstractBoard!Next
  <2>1. Doing(<<"dropped", t>>) = NoTask /\ Doing(<<"dropped", t>>)' = t
    BY <1>6 DEF Drops, Doing, Leaked
  <2>2. \A h \in Hands \ {<<"dropped", t>>} : Keeps(h)
    BY <1>6, HandsAre DEF Drops, Doing, Driving
  <2>3. doing' = [doing EXCEPT ![<<"dropped", t>>] = t]
    BY <1>2, <2>1, <2>2, HandsAre
  <2>4. AbstractBoard!Start(<<"dropped", t>>, t)
    BY <1>6, <2>1, <2>3, HandsAre DEF Drops, BlockersDone, AbstractBoard!Start
  <2> QED
    BY <2>4, HandsAre DEF AbstractBoard!Next
<1>7. ASSUME NEW t \in Task, Fails(t) PROVE AbstractBoard!Next
  <2>1. AbstractBoard!Refuse(t)
    BY <1>3, <1>7 DEF Fails, BlockersDone, AbstractBoard!Refuse
  <2> QED
    BY <2>1 DEF AbstractBoard!Next
<1>8. ASSUME NEW t \in Task, Files(t) PROVE AbstractBoard!Next
  <2>1. AbstractBoard!File(t)
    BY <1>3, <1>8 DEF Files, AbstractBoard!File
  <2> QED
    BY <2>1 DEF AbstractBoard!Next
<1>9. ASSUME NEW s \in Slot, cur[s] \in Task, NEW p \in FinalOrPending, Ends(s, p)
      PROVE  AbstractBoard!Next
  <2>1. Doing(<<"slot", s>>) = cur[s] /\ Doing(<<"slot", s>>)' = NoTask
    BY <1>9 DEF Ends, Doing
  <2>2. \A h \in Hands \ {<<"slot", s>>} : Keeps(h)
    BY <1>9, HandsAre DEF Ends, Doing
  <2>3. doing' = [doing EXCEPT ![<<"slot", s>>] = NoTask]
    BY <1>2, <2>1, <2>2, HandsAre
  <2>4. AbstractBoard!PutDown(<<"slot", s>>, cur[s], p)
    BY <1>9, <2>1, <2>3, HandsAre DEF Ends, FinalOrPending, AbstractBoard!PutDown
  <2> QED
    BY <1>9, <2>4, HandsAre DEF AbstractBoard!Next, FinalOrPending
<1> QED
  BY <1>4, <1>5, <1>6, <1>7, <1>8, <1>9 DEF BoardStep

(* supervisor.py:210-275: a supervisor, with its stale peeks and dropped   *)
(* claims and with any number of threads, behaves as the abstract board.   *)
THEOREM SupervisorImplementsBoard == Spec => ImplementsBoard
<1>1. Init => Leaked
  BY DEF Init, Leaked
<1>2. IInv /\ Leaked /\ [Next]_vars => Leaked' /\ [AbstractBoard!Next]_AbstractBoard!vars
  BY BoardView, LeakedStep, BoardStepImplements
<1> QED
  BY <1>1, <1>2, BoardInitial, Invariance, PTL
  DEF Spec, ImplementsBoard, AbstractBoard!Spec

=============================================================================
