---------------------------- MODULE PerpetualTeam ---------------------------
(***************************************************************************)
(* run_perpetual_team (claude_swarm/perpetual.py): the threads of one      *)
(* process, each a PerpetualSupervisor loop, over one kanban.  A tick      *)
(* calls resilient_call(_drive_claimed_task): peek at the board to learn a *)
(* head, claim for that head, dispatch whatever was claimed, write the     *)
(* outcome back; a throttled dispatch returns its task to pending and is   *)
(* retried up to MaxAttempts times.  A tick without work asks the work     *)
(* source for tasks once the board looks idle.  The process may be         *)
(* interrupted, killed and started again; the board survives.              *)
(*                                                                         *)
(* Every read or write of the board is a step of its own, as each opens    *)
(* its own SQLite connection.  Sleeps, checkpoints and statistics carry no *)
(* decision and are left out.                                              *)
(***************************************************************************)
EXTENDS Kanban

CONSTANTS
  Worker,          \* the loops of the team
  NoTask,          \* "no task in hand"
  NoHead,          \* "no head chosen yet"
  Roster,          \* the names of the roster's heads
  DispatchStatus,  \* statuses a conductor may report
  OnBoard,         \* tasks on the board at the start
  CliTask,         \* tasks an operator may add from another process
  MaxAttempts,     \* resilient_call's max_attempts
  MaxTransients,   \* bound: throttled dispatches in a behaviour
  MaxRestarts,     \* bound: times the team is started again
  CanStop,         \* may the operator stop a loop or interrupt the team
  CanCrash         \* may the process be killed

ASSUME TeamAssumption ==
  /\ NoTask \notin Task
  /\ NoHead \notin HeadName
  /\ Roster \subseteq HeadName
  /\ DispatchStatus \subseteq TaskStatus \ {"pending", "in_progress"}
  /\ OnBoard \subseteq Task
  /\ CliTask \subseteq Task
  /\ MaxAttempts \in Nat \ {0}
  /\ MaxTransients \in Nat
  /\ MaxRestarts \in Nat
  /\ CanStop \in BOOLEAN
  /\ CanCrash \in BOOLEAN

VARIABLES
  pc,          \* where each loop is
  cur,         \* the task the loop claimed, or is filing
  snap,        \* the rest of unblocked()'s list of pending tasks
  hint,        \* required_head learnt from the peek
  out,         \* how the dispatch ended
  seen,        \* status update() read before its UPDATE
  attempt,     \* attempts made by this resilient_call
  stop,        \* the stop event or abort marker of each loop
  mode,        \* the process: "up", "interrupted" or "down"
  cli,         \* the task `claude-swarm submit` has inserted but not yet logged
  abandoned,   \* history: tasks in progress when the process died
  transients,  \* bound counter
  restarts     \* bound counter

local == <<cur, snap, hint, out, seen, attempt>>
env == <<stop, mode, cli, abandoned, transients, restarts>>
vars == <<board, pc, local, env>>

-----------------------------------------------------------------------------
(* _pick_head: the head of that name, else the builder if there is one. *)
HasHead(h) == h \in Roster \/ "builder" \in Roster

Settled == TaskStatus \ {"pending", "in_progress"}

Outcome == DispatchStatus \cup {"failed", "transient", "aborted"}

(* mutant: a throttled task is not released *)
TargetKeepsClaim(o) == IF o = "transient" THEN "in_progress"
                       ELSE IF o = "aborted" THEN "pending" ELSE o

(* The status a loop writes for an outcome: a throttled or aborted task is *)
(* released to the next claim.                                             *)
Target(o) == IF o \in {"transient", "aborted"} THEN "pending" ELSE o

Loc == {"top", "attempt", "list", "examine", "claim", "dispatch", "select",
        "update", "row", "caught", "idle_pending", "idle_in_progress",
        "generate", "file_row", "exited", "dead", "down"}

(* A loop answers for its task from the claim to the UPDATE. *)
Driving(w) == pc[w] \in {"dispatch", "select", "update"}

Over(w) == pc[w] \in {"exited", "dead", "down"}

Init ==
  /\ BoardInit(OnBoard)
  /\ pc = [w \in Worker |-> "top"]
  /\ cur = [w \in Worker |-> NoTask]
  /\ snap = [w \in Worker |-> {}]
  /\ hint = [w \in Worker |-> NoHead]
  /\ out = [w \in Worker |-> "none"]
  /\ seen = [w \in Worker |-> "none"]
  /\ attempt = [w \in Worker |-> 0]
  /\ stop = [w \in Worker |-> FALSE]
  /\ mode = "up"
  /\ cli = NoTask
  /\ abandoned = {}
  /\ transients = 0
  /\ restarts = 0

Goto(w, l) == pc' = [pc EXCEPT ![w] = l]

-----------------------------------------------------------------------------
(* One tick of a loop. *)

(* mutant: the attempts of one tick are counted on in the next *)
TickKeepsAttempts(w) ==
  /\ pc[w] = "top"
  /\ Goto(w, IF stop[w] THEN "exited" ELSE "attempt")
  /\ UNCHANGED <<board, local, env>>

(* run: the abort check between ticks, then a new resilient_call. *)
Tick(w) ==
  /\ pc[w] = "top"
  /\ Goto(w, IF stop[w] THEN "exited" ELSE "attempt")
  /\ attempt' = [attempt EXCEPT ![w] = 0]
  /\ UNCHANGED <<board, cur, snap, hint, out, seen, env>>

(* resilient_call: a stop seen here raises a TransientError, which run     *)
(* does not catch.                                                         *)
Attempt(w) ==
  /\ pc[w] = "attempt"
  /\ IF stop[w]
     THEN Goto(w, "dead") /\ UNCHANGED attempt
     ELSE Goto(w, "list") /\ attempt' = [attempt EXCEPT ![w] = @ + 1]
  /\ UNCHANGED <<board, cur, snap, hint, out, seen, env>>

(* unblocked(limit=1): one SELECT lists the pending tasks ...              *)
ListPending(w) ==
  /\ pc[w] = "list"
  /\ snap' = [snap EXCEPT ![w] = WithStatus("pending")]
  /\ Goto(w, "examine")
  /\ UNCHANGED <<board, cur, hint, out, seen, attempt, env>>

(* mutant: the LIMIT 1 comes before the check of the blockers *)
ExamineFirstOnly(w) ==
  /\ pc[w] = "examine"
  /\ snap' = [snap EXCEPT ![w] = {}]
  /\ LET ready == {t \in FirstOf(snap[w]) : BlockersDone(t)} IN
       \/ /\ ready = {}
          /\ Goto(w, "idle_pending")
          /\ UNCHANGED hint
       \/ \E t \in ready :
            /\ hint' = [hint EXCEPT ![w] = RequiredHead[t]]
            /\ Goto(w, "claim")
  /\ UNCHANGED <<board, cur, out, seen, attempt, env>>

(* ... then each is checked against its blockers as they are by then.      *)
Examine(w) ==
  /\ pc[w] = "examine"
  /\ \/ /\ snap[w] = {}
        /\ Goto(w, "idle_pending")
        /\ UNCHANGED <<snap, hint>>
     \/ \E t \in FirstOf(snap[w]) :
          IF BlockersDone(t)
          THEN /\ hint' = [hint EXCEPT ![w] = RequiredHead[t]]
               /\ snap' = [snap EXCEPT ![w] = {}]
               /\ Goto(w, "claim")
          ELSE /\ snap' = [snap EXCEPT ![w] = @ \ {t}]
               /\ UNCHANGED <<hint, pc>>
  /\ UNCHANGED <<board, cur, out, seen, attempt, env>>

(* mutant: a task without a head is claimed and left there *)
ClaimForgetsHeadless(w) ==
  /\ pc[w] = "claim"
  /\ hint' = [hint EXCEPT ![w] = NoHead]
  /\ \/ /\ ReadyFor(hint[w]) = {}
        /\ Goto(w, "idle_pending")
        /\ UNCHANGED <<board, cur>>
     \/ \E t \in ReadyFor(hint[w]) :
          /\ ClaimOne(t)
          /\ cur' = [cur EXCEPT ![w] = t]
          /\ Goto(w, IF HasHead(RequiredHead[t]) THEN "dispatch" ELSE "top")
  /\ UNCHANGED <<snap, out, seen, attempt, env>>

(* claim_one(required_head), then _pick_head: a task no head serves goes   *)
(* straight to a failed update.                                            *)
Claim(w) ==
  /\ pc[w] = "claim"
  /\ hint' = [hint EXCEPT ![w] = NoHead]
  /\ \/ /\ ReadyFor(hint[w]) = {}
        /\ Goto(w, "idle_pending")
        /\ UNCHANGED <<board, cur, out>>
     \/ \E t \in ReadyFor(hint[w]) :
          /\ ClaimOne(t)
          /\ cur' = [cur EXCEPT ![w] = t]
          /\ IF HasHead(RequiredHead[t])
             THEN Goto(w, "dispatch") /\ UNCHANGED out
             ELSE Goto(w, "select") /\ out' = [out EXCEPT ![w] = "failed"]
  /\ UNCHANGED <<snap, seen, attempt, env>>

(* conductor.dispatch returns or raises; an exception that is neither an   *)
(* abort nor a throttle is a failed task.                                  *)
Dispatch(w) ==
  /\ pc[w] = "dispatch"
  /\ \E o \in Outcome :
       /\ o = "aborted" => stop[w]
       /\ o = "transient" => transients < MaxTransients
       /\ out' = [out EXCEPT ![w] = o]
       /\ transients' = IF o = "transient" THEN transients + 1 ELSE transients
  /\ Goto(w, "select")
  /\ UNCHANGED <<board, cur, snap, hint, seen, attempt,
                 stop, mode, cli, abandoned, restarts>>

(* The three statements of Kanban.update. *)
SelectStatus(w) ==
  /\ pc[w] = "select"
  /\ seen' = [seen EXCEPT ![w] = status[cur[w]]]
  /\ Goto(w, "update")
  /\ UNCHANGED <<board, cur, snap, hint, out, attempt, env>>

UpdateStatus(w) ==
  /\ pc[w] = "update"
  /\ SetStatus(cur[w], Target(out[w]))
  /\ Goto(w, "row")
  /\ UNCHANGED <<local, env>>

LogStatus(w) ==
  /\ pc[w] = "row"
  /\ AddRow(cur[w], seen[w], Target(out[w]))
  /\ Goto(w, CASE out[w] = "transient" -> "caught"
               [] out[w] = "aborted"   -> "exited"
               [] OTHER                -> "top")
  /\ cur' = [cur EXCEPT ![w] = NoTask]
  /\ out' = [out EXCEPT ![w] = "none"]
  /\ seen' = [seen EXCEPT ![w] = "none"]
  /\ UNCHANGED <<snap, hint, attempt, env>>

(* resilient_call's handler: out of attempts, the TransientError leaves    *)
(* run; stopped, likewise; otherwise back off and try again.               *)
Caught(w) ==
  /\ pc[w] = "caught"
  /\ Goto(w, IF attempt[w] >= MaxAttempts \/ stop[w] THEN "dead" ELSE "attempt")
  /\ UNCHANGED <<board, local, env>>

(* mutant: a tick polls a board with pending tasks until one is ready *)
IdlePendingPolls(w) ==
  /\ pc[w] = "idle_pending"
  /\ Goto(w, IF WithStatus("pending") = {} THEN "idle_in_progress" ELSE "list")
  /\ UNCHANGED <<board, local, env>>

(* _board_idle: two SELECTs, one after the other. *)
IdlePending(w) ==
  /\ pc[w] = "idle_pending"
  /\ Goto(w, IF WithStatus("pending") = {} THEN "idle_in_progress" ELSE "top")
  /\ UNCHANGED <<board, local, env>>

IdleInProgress(w) ==
  /\ pc[w] = "idle_in_progress"
  /\ Goto(w, IF WithStatus("in_progress") = {} THEN "generate" ELSE "top")
  /\ UNCHANGED <<board, local, env>>

(* WorkSource.generate submits any number of tasks, or raises half-way. *)
GenerateTask(w) ==
  /\ pc[w] = "generate"
  /\ \E t \in Task :
       /\ InsertTask(t)
       /\ cur' = [cur EXCEPT ![w] = t]
  /\ Goto(w, "file_row")
  /\ UNCHANGED <<snap, hint, out, seen, attempt, env>>

GenerateRow(w) ==
  /\ pc[w] = "file_row"
  /\ AddRow(cur[w], "none", "pending")
  /\ cur' = [cur EXCEPT ![w] = NoTask]
  /\ Goto(w, "generate")
  /\ UNCHANGED <<snap, hint, out, seen, attempt, env>>

GenerateEnd(w) ==
  /\ pc[w] = "generate"
  /\ Goto(w, "top")
  /\ UNCHANGED <<board, local, env>>

Loop(w) ==
  \/ Tick(w) \/ Attempt(w) \/ ListPending(w) \/ Examine(w) \/ Claim(w)
  \/ Dispatch(w) \/ SelectStatus(w) \/ UpdateStatus(w) \/ LogStatus(w)
  \/ Caught(w) \/ IdlePending(w) \/ IdleInProgress(w)
  \/ GenerateTask(w) \/ GenerateRow(w) \/ GenerateEnd(w)

-----------------------------------------------------------------------------
(* The world around the loops. *)

(* `claude-swarm submit` in another process: insert, then log. *)
CliAdd(t) ==
  /\ cli = NoTask
  /\ InsertTask(t)
  /\ cli' = t
  /\ UNCHANGED <<pc, local, stop, mode, abandoned, transients, restarts>>

CliRow ==
  /\ cli # NoTask
  /\ AddRow(cli, "none", "pending")
  /\ cli' = NoTask
  /\ UNCHANGED <<pc, local, stop, mode, abandoned, transients, restarts>>

(* stop() or the abort marker of one loop. *)
Stop(w) ==
  /\ CanStop
  /\ mode = "up"
  /\ ~stop[w]
  /\ stop' = [stop EXCEPT ![w] = TRUE]
  /\ UNCHANGED <<board, pc, local, mode, cli, abandoned, transients, restarts>>

(* KeyboardInterrupt in run_perpetual_team stops every loop. *)
Interrupt ==
  /\ CanStop
  /\ mode = "up"
  /\ mode' = "interrupted"
  /\ stop' = [w \in Worker |-> TRUE]
  /\ UNCHANGED <<board, pc, local, cli, abandoned, transients, restarts>>

(* The process ends and takes its daemon threads with it: once every loop  *)
(* is over, after an interrupt (each join gives up after 10 s), or killed. *)
ProcessExit ==
  /\ mode # "down"
  /\ mode = "interrupted" \/ CanCrash \/ \A w \in Worker : Over(w)
  /\ mode' = "down"
  /\ pc' = [w \in Worker |-> "down"]
  /\ cur' = [w \in Worker |-> NoTask]
  /\ snap' = [w \in Worker |-> {}]
  /\ hint' = [w \in Worker |-> NoHead]
  /\ out' = [w \in Worker |-> "none"]
  /\ seen' = [w \in Worker |-> "none"]
  /\ attempt' = [w \in Worker |-> 0]
  /\ abandoned' = WithStatus("in_progress")
  /\ UNCHANGED <<board, stop, cli, transients, restarts>>

(* The operator starts the team again over the same board. *)
Restart ==
  /\ mode = "down"
  /\ restarts < MaxRestarts
  /\ restarts' = restarts + 1
  /\ mode' = "up"
  /\ pc' = [w \in Worker |-> "top"]
  /\ stop' = [w \in Worker |-> FALSE]
  /\ UNCHANGED <<board, local, cli, abandoned, transients>>

Next ==
  \/ \E w \in Worker : Loop(w) \/ Stop(w)
  \/ \E t \in CliTask : CliAdd(t)
  \/ CliRow
  \/ Interrupt
  \/ ProcessExit
  \/ Restart

Spec == Init /\ [][Next]_vars

(* Threads are scheduled, a dispatch returns (conductors have timeouts),   *)
(* an operator who lost the team starts it again; nobody has to submit,    *)
(* stop or kill anything.                                                  *)
FairSpec ==
  /\ Spec
  /\ \A w \in Worker : WF_vars(Loop(w))
  /\ WF_vars(CliRow)
  /\ WF_vars(Restart)

-----------------------------------------------------------------------------
(* The types of the board and of the loops' registers. *)
TypeOK ==
  /\ BoardTypeOK
  /\ pc \in [Worker -> Loc]
  /\ cur \in [Worker -> Task \cup {NoTask}]
  /\ snap \in [Worker -> SUBSET Task]
  /\ hint \in [Worker -> HeadName \cup {NoHead}]
  /\ out \in [Worker -> Outcome \cup {"none"}]
  /\ seen \in [Worker -> TaskStatus \cup {"absent", "none"}]
  /\ attempt \in [Worker -> 0 .. MaxAttempts]
  /\ stop \in [Worker -> BOOLEAN]
  /\ mode \in {"up", "interrupted", "down"}
  /\ cli \in Task \cup {NoTask}
  /\ abandoned \subseteq Task
  /\ transients \in 0 .. MaxTransients
  /\ restarts \in 0 .. MaxRestarts

(* No task is in the hands of two loops: the BEGIN IMMEDIATE claim and     *)
(* the rule that only its holder writes a task's status, together.         *)
NoDoubleDrive ==
  \A v, w \in Worker :
    Driving(v) /\ Driving(w) /\ cur[v] = cur[w] => v = w

(* The claim-first driver never leaks a claim (perpetual.py:341-353): a    *)
(* row is in_progress exactly while a loop drives it, but for the rows a   *)
(* dying process left behind.                                              *)
ClaimsAreHeld ==
  \A t \in Task :
    status[t] = "in_progress" <=>
      t \in abandoned \/ \E w \in Worker : Driving(w) /\ cur[w] = t

(* A task was never started before every blocker was done, and nothing a   *)
(* late writer does re-opens a blocker under it.                           *)
StartedAfterBlockers ==
  \A t \in Task :
    status[t] \notin {"absent", "pending"} =>
      \A b \in blockedBy[t] : status[b] = "done"

(* A settled row keeps its status: no late update, retry or second claim   *)
(* brings it back.                                                         *)
SettledIsFinal ==
  [][\A t \in Task : status[t] \in Settled => status'[t] = status[t]]_vars

(* The team implements the abstract board. *)
AbstractBoard ==
  INSTANCE TaskBoard WITH
    waitsFor <- blockedBy,
    phase <- status,
    doing <- [w \in Worker |-> IF Driving(w) THEN cur[w] ELSE NoTask],
    lost <- abandoned,
    Unserved <- {}

(* Every step of the team is a step of the abstract board or invisible to  *)
(* it.                                                                     *)
ImplementsBoard == AbstractBoard!Spec

(* A task that is ready is driven to an end unless every loop of the team  *)
(* is gone: the peek, which may be stale, and lost races for a claim only  *)
(* delay it.                                                               *)
ReadyIsSettled ==
  \A t \in Task :
    Ready(t) ~> (status[t] \in Settled \/ \A w \in Worker : Over(w))

(* A stopped loop ends, also in the middle of retries or of generation.    *)
StopEndsLoop == \A w \in Worker : stop[w] ~> Over(w)

=============================================================================
