----------------------------- MODULE Supervisor -----------------------------
(***************************************************************************)
(* Supervisor.run (claude_swarm/supervisor.py): one supervisor draining a  *)
(* kanban.  With max_parallel = 1 it runs step in its own thread; with     *)
(* more it fills a thread pool and waits for the first future.  Both peek  *)
(* at the first unblocked task, claim for that task's required_head, and   *)
(* drop the claim when it is not the task they peeked at.                  *)
(*                                                                         *)
(* A slot is a pool thread, or the dispatch inside step when there is only *)
(* one.  Every read or write of the board is a step of its own.            *)
(***************************************************************************)
EXTENDS Kanban, FiniteSets

CONSTANTS
  Slot,            \* places for a dispatch
  Pools,           \* the sets of slots to consider, max_parallel slots each
  NoTask,          \* "no task"
  Roster,          \* the names of the roster's heads
  DispatchStatus,  \* statuses a conductor may report
  OnBoard,         \* tasks on the board at the start
  CliTask,         \* tasks an operator may add from another process
  CanAbort,        \* may the abort marker be set
  WaitForWork      \* SupervisorConfig.wait_for_work

ASSUME SupervisorAssumption ==
  /\ IsFiniteSet(Slot)
  /\ Pools \subseteq (SUBSET Slot) \ {{}}
  /\ NoTask \notin Task
  /\ Roster \subseteq HeadName
  /\ DispatchStatus \subseteq TaskStatus \ {"pending", "in_progress"}
  /\ OnBoard \subseteq Task
  /\ CliTask \subseteq Task
  /\ CanAbort \in BOOLEAN
  /\ WaitForWork \in BOOLEAN

VARIABLES
  pool,       \* the slots of this run
  main,       \* where the run loop is
  peeked,     \* the task unblocked(limit=1) returned
  snap,       \* the rest of unblocked()'s list of pending tasks
  slot,       \* where each slot is
  cur,        \* the task each slot drives
  out,        \* how its dispatch ended
  abort,      \* the abort marker
  cli,        \* the task being added from outside, inserted but not logged
  dropped     \* history: tasks claimed in place of the one peeked at

mainVars == <<main, peeked, snap>>
slotVars == <<slot, cur, out>>
env == <<pool, abort, cli>>
vars == <<board, mainVars, slotVars, env, dropped>>

-----------------------------------------------------------------------------
Parallel == Cardinality(pool) > 1

(* _pick_head: the head of that name, else the builder if there is one. *)
HasHead(h) == h \in Roster \/ "builder" \in Roster

Settled == TaskStatus \ {"pending", "in_progress"}

Outcome == DispatchStatus \cup {"failed", "aborted"}

(* mutant: an aborted task's status is the outcome's name *)
TargetVerbatim(o) == o

Target(o) == IF o = "aborted" THEN "pending" ELSE o

MainLoc == {"loop", "list", "examine", "claim", "fail_update", "fail_row",
            "wait", "idle_pending", "idle_in_progress", "shutdown", "returned"}

SlotLoc == {"free", "dispatch", "update", "row", "finished"}

InFlight == {s \in Slot : slot[s] # "free"}

Driving(s) == slot[s] \in {"dispatch", "update"}

Init ==
  /\ BoardInit(OnBoard)
  /\ pool \in Pools
  /\ main = "loop"
  /\ peeked = NoTask
  /\ snap = {}
  /\ slot = [s \in Slot |-> "free"]
  /\ cur = [s \in Slot |-> NoTask]
  /\ out = [s \in Slot |-> "none"]
  /\ abort = FALSE
  /\ cli = NoTask
  /\ dropped = {}

-----------------------------------------------------------------------------
(* The run loop. *)

(* The top of an iteration: the abort marker.  A pool finishes its threads *)
(* before it returns.                                                      *)
Iterate ==
  /\ main = "loop"
  /\ main' = IF abort THEN "shutdown" ELSE "list"
  /\ UNCHANGED <<board, peeked, snap, slotVars, env, dropped>>

(* What follows when a round of peeking found nothing to dispatch: a pool  *)
(* with futures in flight waits for them, otherwise the drain check.       *)
NothingToDo == IF InFlight # {} THEN "wait" ELSE "idle_pending"

(* What follows a peek that came to nothing: the pool peeks again, step    *)
(* returns None.                                                           *)
PeekLost == IF Parallel THEN "list" ELSE "idle_pending"

(* unblocked(limit=1), only while there is a free slot. *)
ListPending ==
  /\ main = "list"
  /\ IF InFlight = pool
     THEN main' = "wait" /\ UNCHANGED snap
     ELSE main' = "examine" /\ snap' = WithStatus("pending")
  /\ UNCHANGED <<board, peeked, slotVars, env, dropped>>

(* mutant: the LIMIT 1 comes before the check of the blockers *)
ExamineFirstOnly ==
  /\ main = "examine"
  /\ snap' = {}
  /\ LET ready == {t \in FirstOf(snap) : BlockersDone(t) /\ HasHead(RequiredHead[t])} IN
       \/ ready = {} /\ main' = NothingToDo /\ UNCHANGED peeked
       \/ main' = "claim" /\ peeked' \in ready
  /\ UNCHANGED <<board, slotVars, env, dropped>>

(* A ready task without a head is failed by the pool; step leaves it where *)
(* it is.                                                                  *)
Examine ==
  /\ main = "examine"
  /\ \/ /\ snap = {}
        /\ main' = NothingToDo
        /\ UNCHANGED <<peeked, snap>>
     \/ \E t \in FirstOf(snap) :
          IF ~BlockersDone(t)
          THEN snap' = snap \ {t} /\ UNCHANGED <<main, peeked>>
          ELSE /\ snap' = {}
               /\ IF HasHead(RequiredHead[t])
                  THEN main' = "claim" /\ peeked' = t
                  ELSE IF Parallel
                  THEN main' = "fail_update" /\ peeked' = t
                  ELSE main' = PeekLost /\ UNCHANGED peeked
  /\ UNCHANGED <<board, slotVars, env, dropped>>

(* mutant: the task peeked at is dispatched, whichever was claimed *)
ClaimDispatchesPeeked ==
  /\ main = "claim"
  /\ peeked' = NoTask
  /\ \/ /\ ReadyFor(RequiredHead[peeked]) = {}
        /\ main' = PeekLost
        /\ UNCHANGED <<board, slotVars, dropped>>
     \/ \E t \in ReadyFor(RequiredHead[peeked]), s \in pool \ InFlight :
          /\ ClaimOne(t)
          /\ slot' = [slot EXCEPT ![s] = "dispatch"]
          /\ cur' = [cur EXCEPT ![s] = peeked]
          /\ main' = IF Parallel THEN "list" ELSE "wait"
          /\ UNCHANGED <<out, dropped>>
  /\ UNCHANGED <<snap, env>>

(* claim_one(required_head): the first ready task of that head, which need *)
(* not be the one peeked at; then the claim is dropped.                    *)
Claim ==
  /\ main = "claim"
  /\ peeked' = NoTask
  /\ \/ /\ ReadyFor(RequiredHead[peeked]) = {}
        /\ main' = PeekLost
        /\ UNCHANGED <<board, slotVars, dropped>>
     \/ \E t \in ReadyFor(RequiredHead[peeked]) :
          /\ ClaimOne(t)
          /\ IF t # peeked
             THEN /\ main' = PeekLost
                  /\ dropped' = dropped \cup {t}
                  /\ UNCHANGED slotVars
             ELSE \E s \in pool \ InFlight :
                    /\ slot' = [slot EXCEPT ![s] = "dispatch"]
                    /\ cur' = [cur EXCEPT ![s] = t]
                    /\ main' = IF Parallel THEN "list" ELSE "wait"
                    /\ UNCHANGED <<out, dropped>>
  /\ UNCHANGED <<snap, env>>

(* The pool's update of a task no head serves.  Its SELECT is folded into  *)
(* the UPDATE: nothing else writes a task without a head.                  *)
FailHeadless ==
  /\ main = "fail_update"
  /\ SetStatus(peeked, "failed")
  /\ main' = "fail_row"
  /\ UNCHANGED <<peeked, snap, slotVars, env, dropped>>

LogHeadless ==
  /\ main = "fail_row"
  /\ AddRow(peeked, "pending", "failed")
  /\ peeked' = NoTask
  /\ main' = "list"
  /\ UNCHANGED <<snap, slotVars, env, dropped>>

(* mutant: a wait that times out forgets the futures in flight *)
WaitForgets ==
  /\ main = "wait"
  /\ main' = "loop"
  /\ slot' = [s \in Slot |-> "free"]
  /\ cur' = [s \in Slot |-> NoTask]
  /\ out' = [s \in Slot |-> "none"]
  /\ UNCHANGED <<board, peeked, snap, env, dropped>>

(* futures.wait, FIRST_COMPLETED with a timeout: the finished futures are  *)
(* collected, and an AbortRequested among them ends the run.  step just    *)
(* waits for its own dispatch.                                             *)
Wait ==
  /\ main = "wait"
  /\ LET finished == {s \in Slot : slot[s] = "finished"} IN
       /\ Parallel \/ finished # {}
       /\ main' = IF \E s \in finished : out[s] = "aborted" THEN "shutdown" ELSE "loop"
       /\ slot' = [s \in Slot |-> IF s \in finished THEN "free" ELSE slot[s]]
       /\ cur' = [s \in Slot |-> IF s \in finished THEN NoTask ELSE cur[s]]
       /\ out' = [s \in Slot |-> IF s \in finished THEN "none" ELSE out[s]]
  /\ UNCHANGED <<board, peeked, snap, env, dropped>>

(* mutant: a board where nothing is ready counts as drained *)
IdleReady ==
  /\ main = "idle_pending"
  /\ main' = IF \A t \in Task : ~Ready(t) THEN "idle_in_progress" ELSE "loop"
  /\ UNCHANGED <<board, peeked, snap, slotVars, env, dropped>>

(* The drain check: two SELECTs. *)
IdlePending ==
  /\ main = "idle_pending"
  /\ main' = IF WithStatus("pending") = {} THEN "idle_in_progress" ELSE "loop"
  /\ UNCHANGED <<board, peeked, snap, slotVars, env, dropped>>

IdleInProgress ==
  /\ main = "idle_in_progress"
  /\ main' = IF WithStatus("in_progress") = {} /\ ~WaitForWork
             THEN "shutdown" ELSE "loop"
  /\ UNCHANGED <<board, peeked, snap, slotVars, env, dropped>>

(* Leaving the pool's `with` block waits for every thread. *)
Return ==
  /\ main = "shutdown"
  /\ \A s \in Slot : slot[s] \in {"free", "finished"}
  /\ main' = "returned"
  /\ UNCHANGED <<board, peeked, snap, slotVars, env, dropped>>

Main ==
  \/ Iterate \/ ListPending \/ Examine \/ Claim \/ FailHeadless \/ LogHeadless
  \/ Wait \/ IdlePending \/ IdleInProgress \/ Return

-----------------------------------------------------------------------------
(* One dispatch: _dispatch_one, or the second half of step. *)

Dispatch(s) ==
  /\ slot[s] = "dispatch"
  /\ \E o \in Outcome :
       /\ o = "aborted" => abort
       /\ out' = [out EXCEPT ![s] = o]
  /\ slot' = [slot EXCEPT ![s] = "update"]
  /\ UNCHANGED <<board, mainVars, cur, env, dropped>>

(* Kanban.update; its SELECT sees in_progress, nobody else writes a        *)
(* claimed row here.                                                       *)
UpdateStatus(s) ==
  /\ slot[s] = "update"
  /\ SetStatus(cur[s], Target(out[s]))
  /\ slot' = [slot EXCEPT ![s] = "row"]
  /\ UNCHANGED <<mainVars, cur, out, env, dropped>>

LogStatus(s) ==
  /\ slot[s] = "row"
  /\ AddRow(cur[s], "in_progress", Target(out[s]))
  /\ slot' = [slot EXCEPT ![s] = "finished"]
  /\ UNCHANGED <<mainVars, cur, out, env, dropped>>

Thread(s) == Dispatch(s) \/ UpdateStatus(s) \/ LogStatus(s)

-----------------------------------------------------------------------------
(* The operator. *)

SetAbort ==
  /\ CanAbort
  /\ ~abort
  /\ abort' = TRUE
  /\ UNCHANGED <<board, mainVars, slotVars, pool, cli, dropped>>

CliAdd(t) ==
  /\ cli = NoTask
  /\ InsertTask(t)
  /\ cli' = t
  /\ UNCHANGED <<mainVars, slotVars, pool, abort, dropped>>

CliRow ==
  /\ cli # NoTask
  /\ AddRow(cli, "none", "pending")
  /\ cli' = NoTask
  /\ UNCHANGED <<mainVars, slotVars, pool, abort, dropped>>

Next ==
  \/ Main
  \/ \E s \in Slot : Thread(s)
  \/ SetAbort
  \/ \E t \in CliTask : CliAdd(t)
  \/ CliRow

Spec == Init /\ [][Next]_vars

(* The interpreter runs every thread and a dispatch returns. *)
FairSpec ==
  /\ Spec
  /\ WF_vars(Main)
  /\ \A s \in Slot : WF_vars(Thread(s))
  /\ WF_vars(CliRow)

-----------------------------------------------------------------------------
(* The types of the board and of the supervisor's registers. *)
TypeOK ==
  /\ BoardTypeOK
  /\ pool \in Pools
  /\ main \in MainLoc
  /\ peeked \in Task \cup {NoTask}
  /\ snap \subseteq Task
  /\ slot \in [Slot -> SlotLoc]
  /\ cur \in [Slot -> Task \cup {NoTask}]
  /\ out \in [Slot -> Outcome \cup {"none"}]
  /\ abort \in BOOLEAN
  /\ cli \in Task \cup {NoTask}

(* supervisor.py:214-215: "The kanban's atomic claim_one() ensures no two  *)
(* threads grab the same task", also when the first gives it back.         *)
NoDoubleDrive ==
  \A r, s \in Slot : Driving(r) /\ Driving(s) /\ cur[r] = cur[s] => r = s

(* A task leaves pending for good only after every blocker is done, also   *)
(* when the peek was stale or the task is failed for want of a head.       *)
StartedAfterBlockers ==
  \A t \in Task :
    status[t] \notin {"absent", "pending"} =>
      \A b \in blockedBy[t] : status[b] = "done"

(* Without an abort, run returns only when nothing is left to do of what   *)
(* was on the board when it started.                                       *)
ReturnsDrained ==
  main = "returned" /\ ~abort =>
    \A t \in Task \ CliTask : status[t] \notin {"pending", "in_progress"}

(* supervisor.py:251-253 drops a claim that is not the task peeked at:     *)
(* "shouldn't happen since we're single supervisor".  It leaks the claim:  *)
(* what is in progress is driven or was dropped.  A supervisor without a   *)
(* pool drops only what was submitted from outside in between; with a pool *)
(* a dispatch of its own may settle a blocker in between.                  *)
ClaimsAreHeld ==
  /\ \A t \in Task :
       status[t] = "in_progress" =>
         t \in dropped \/ \E s \in Slot : Driving(s) /\ cur[s] = t
  /\ ~Parallel => dropped \subseteq CliTask

(* The supervisor implements the abstract board; a claim that is dropped   *)
(* counts as in the hands of a worker of its own who never puts it down,   *)
(* and the tasks without a head may be refused.                            *)
Hands == ({"slot"} \X Slot) \cup ({"dropped"} \X Task)

Doing(h) ==
  IF h[1] = "slot"
  THEN IF Driving(h[2]) THEN cur[h[2]] ELSE NoTask
  ELSE IF h[2] \in dropped THEN h[2] ELSE NoTask

AbstractBoard ==
  INSTANCE TaskBoard WITH
    Worker <- Hands,
    Unserved <- {t \in Task : ~HasHead(RequiredHead[t])},
    waitsFor <- blockedBy,
    phase <- status,
    doing <- [h \in Hands |-> Doing(h)],
    lost <- {}

(* supervisor.py:210-275: with threads that peek, claim, update and log in *)
(* any order, a task is still started once after its blockers, put down    *)
(* once, and settled for good.                                             *)
ImplementsBoard == AbstractBoard!Spec

(* step leaves a ready task that no head serves where it is, first in line *)
(* for ever (supervisor.py:138).                                           *)
Starved == ~Parallel /\ \E t \in Task : Ready(t) /\ ~HasHead(RequiredHead[t])

(* Nobody drives a task that is ready, or whoever does has not ended.      *)
Unsettled(t) == Ready(t) \/ (status[t] = "in_progress" /\ t \notin dropped)

(* A ready task is driven to an end while the supervisor runs, unless its  *)
(* claim was dropped or a task without a head stands before it.  (Ready    *)
(* and then driven is all it can be until then.)                           *)
ReadyIsSettled ==
  \A t \in Task : []<>(~Unsettled(t) \/ main = "returned" \/ Starved)

=============================================================================
