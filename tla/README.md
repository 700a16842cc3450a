# claude-swarm in TLA+

TLA+ models of claude-swarm (`src/claude_swarm/`), the TLC runs that check them on small
instances, and proofs, checked by TLAPS, of the properties that matter most. Every
definition is translated from the code; `PROJECT.json` maps it to the lines it stands for.

    tlc -workers 2 -config MCPerpetualTeam.cfg MCPerpetualTeam
    tlapm PerpetualTeamProofs.tla

## 1. The system

claude-swarm drains a board of tasks with coding agents. Tasks live in a SQLite **kanban**
with a DAG of blockers. A **supervisor** takes ready tasks and hands each to a **conductor**
(a subprocess or an API call) under the prompt of a **head**. A **perpetual team** runs
several never-ending supervisor loops over one kanban, retries throttled dispatches and asks
a **work source** for tasks when the board is idle. A **usage tracker** and a **governor**
decide which provider lane to prefer. Heads talk through file **inboxes** and a **task bus**;
swarms share areas through a **coordination database**; heads edit in git **worktrees** that a
**merge pipeline** lands on the base branch.

| Component | State | Operations | Interacts by | What is hard | What makes it correct |
|---|---|---|---|---|---|
| Kanban (`kanban.py`) | task rows, blockers, timeline | submit, update, claim_one, list_tasks, unblocked | SQLite, one connection per call, autocommit | `update` is three statements; reads are stale at once | one claim per task; the DAG; settled rows stay |
| Supervisor (`supervisor.py`) | run loop, thread pool, futures in flight | step, run, _run_parallel, _dispatch_one | kanban, conductor, abort marker | peek then claim; aborts with futures in flight; the drain check | no double dispatch, returns only when drained |
| Perpetual team (`perpetual.py`) | N loops, their claims | tick, run, stop, run_perpetual_team | kanban, conductor, work source, pidfile | races between loops, throttles, interrupts, kills, restarts | no leaked claim, ready tasks settle, a stopped loop ends |
| Resilient calls (`resilience.py`), conductors (`conductors/`, `conductor.py`) | attempts, failures in a row, lane; turns, cost | resilient_call, delay, rotate; dispatch | wraps the driver of a tick; the provider | abort between attempt and sleep; the last attempt; cap and turns against retries | done means answered; bounded spend; every lane tried |
| Abort markers (`abort.py`) | a file per teammate | set, clear, raise_if_set | polled between phases | set at any moment | work goes back to the board |
| Usage tracker (`usage.py`) | per lane: cap, events, reset time, reported count | record_*, apply_anthropic_headers, set_cap, clear_throttle, snapshot | JSON file, one writer | expiry of windows, cooldowns and reports | headroom as the provider last said |
| Governor (`governor.py`) | mode, dwell clock, API spend of the day | decide, record_api_spend | the tracker, JSON file | flapping, budget, midnight, restart | dwell, hysteresis, cheap when possible |
| Messaging (`messaging.py`) | an inbox file per name | send, broadcast, append, drain | files, no lock | unlocked read-change-replace | a bounded queue where nobody raced; order always |
| Task bus (`bus.py`) | inboxes and kanban rows | send, delegate, update_status, delegations, status_of | messaging, kanban mirror | the mirror comes after the send, in three statements | the row shows the last report |
| Postgres bus (`postgres_bus.py`) | rows of coordination_messages | send, poll, mark_read | one transaction per call | ids are drawn before they commit; death with rows in hand | a row reaches its reader and is marked; a cursor skips only late rows and those already read |
| Coordination (`coord_bus_adapter.py`) | one connection, leases, announcements | try_claim_area, release_area, announce_*, recent_messages | an external database | clocks, lost connections, failed statements | a lease won is kept, an area is freed |
| Worktrees, merge pipeline (`worktree.py`, `merge_pipeline.py`) | branches, envelopes, base branch | create, submit_pr, merge_pr, run_pipeline, gc | git, JSON files | conflicts, failed tests, crashes half-way | what is merged did land; a branch goes only after its work landed; a revert restores base |
| Workflow (`workflow.py`) | results of passes, context, verdicts | fan_out, pipeline, converge | agents | crashing and silent agents | a merge is earned; every workflow ends |
| Command line's processes (`perpetual.py`, `cli/main.py`) | two pid files | acquire, release, `run --daemon`, `daemon-stop` | signals, pid files | checks and writes that interleave; pids given again | one holder of the guard; a daemon stays named |
| Work sources (`github_tasks.py`) | the seen-set file | generate, reset_seen | the kanban, `gh` | several loops over one file; crash before the save | no issue lost, none filed twice without a cause |
| Meta supervisor (`meta_supervisor.py`) | - | check_supervisor_health | status files of the loops | keys and truncated files | silent means silent |
| Registry, routing, roles, heads, cost, paths, CLI parsing | tables | pure functions | - | - | - |

Hazards, each at its line and with the properties that cover it, are in `PROJECT.json`.

## 2. The models

### Kanban, TaskBoard

`Kanban.tla` holds the board's state and one operator per SQL statement. Autocommit makes a
statement atomic and `update` three of them (`SelectStatus`, `SetStatus`, `AddRow`); only
`claim_one` is a transaction (`ClaimOne`). `(priority, created_at)` is one number. Of the
timeline the last row of each task is kept.

`unblocked` reads a blocker at a time. One step that reads all of a task's blockers is
equivalent here: no model ever takes a blocker out of `done` (`SettledIsFinal`), and only
`done` counts. `unblocked(limit=1)` may read on past its first hit (the limit test is
skipped for tasks without blockers by the `continue`); only its first result is used.

`TaskBoard.tla` is the abstract promise: a task is filed, started by one worker after all its
blockers are done, put down once with a final status or back to pending; a worker does one
task at a time; death leaves its tasks behind; a task that nobody can do may be refused.

### PerpetualTeam

One process, several loops, one location per loop (`pc`): `top` (between ticks), `attempt`
(in `resilient_call`, before a try), `list`/`examine` (`unblocked`), `claim`, `dispatch`,
`select`/`update`/`row` (`Kanban.update`), `caught` (after a throttle), `idle_*`
(`_board_idle`), `generate`/`file_row` (the work source), and the ends: `exited` (returned),
`dead` (an exception left `run`), `down` (the process is gone). Each step touches the board
at most once, so every interleaving of the loops' statements is explored.

The environment submits tasks from another process, stops single loops, interrupts the team
(after which the process exits whenever its joins give up), kills it, and starts it again
over the same board. `abandoned` is a history variable, the tasks in progress at the last
death; `transients` and `restarts` only bound the instances.

Not modelled here: `max_ticks`, statistics, the verify hook, SQLite lock errors. Dispatch,
back-off and lanes are one outcome of a step; `Dispatch` has them. One team runs at a time;
`Singleton` has the guard that is to ensure it. `Health` has the checkpoints.

### Dispatch

One loop's `resilient_call` around `_drive_claimed_task` around a conductor, in detail: the
attempts, the failures in a row, the ring of lanes (which lives as long as the loop), hints,
jitter and the cache-safe sleep; `ApiConductor` response by response, with its cap and turns;
one run of the SDK conductor or of a subprocess, which turn most errors into failed results.
The board is a status per task and any pending task may be claimed. Money and time are
numbers; what classifies an exception is kept (status, reason, words, headers), the parsing
of dates and bodies is not. A turn is completed when the response's `stop_reason` is anything
but `tool_use`, as in `conductors/api.py:203`: that the answer says something is not part of
`DoneIsAnswered`.

### Supervisor

The run loop (`main`) and its slots. With one slot the model is `run`/`step`; with more it is
`_run_parallel`: fill the pool, wait for the first future (or the time-out), collect, check
for the drain. The set of slots is chosen at the start from `Pools`, so that one run covers
both. A claim that is not the peeked task is dropped, as in the code; `dropped` is
history. `ImplementsBoard` maps a dropped claim to a task in the hands of a worker of its own
who never puts it down.

### Usage, Governor

`Usage.tla` is the tracker with relative time: events by age, `reset_at` by the seconds left.
`Governor.tla` adds mode, dwell clock, spend and day. `Decide` is one step with every save it
makes; `DecideDies` is a crash after the saves of the day or the clock. Two history variables
serve properties only: `quiet`, the time since the mode really changed, and `left`, the best
headroom when the plans were left. The headroom of a lane without a known cap, which the
code gives as `None` and lets pass every threshold, is 101.
Tracker and governor have one writer, by the contract in
`usage.py`'s docstring; a clock that goes back is not modelled.

### Worktree, MergePipeline

`Worktree.tla` is the repository as the manager sees it. A change is a model value, base the
set of changes it contains, a commit the set of changes a worker planned less what its branch
started from. The meaning of `git` is external: a pick adds what is missing, fails when
nothing is, and conflicts when a change clashes with one that base and the fork point do not
share; a revert takes every change of the commit out. `Worktree` also has the worker's side
(`CreateWorktree`, `Commit`, `SubmitPR`) and the stale markers.

`MergePipeline.tla` is `run_pipeline` with `merge_pr` inlined: one step per git command or
envelope written, so that workers, sweeps and a kill fall between any two. `landed` (commits
ever picked), `before` and `inBatch` are history variables. A killed pipeline forgets its
locals; a conflicting pick it left behind stays in the repository (`conflict`).

Not modelled: two pipelines at once, a kill inside `cleanup_after_merge`, unreadable
envelopes, a failing `rev-list`. A worker goes on only after a rejection; nothing in the code
makes it wait (listed as a hazard).

### Messaging, TaskBus

`Messaging.tla` has an inbox file per name and, per process, the operation in hand with what
it has read: `ReadForAppend`/`WriteAppend` and `StartDrain`/`Clear` are the two halves of
append and drain, and anything may happen in between. A broadcast lists the files once and
then appends to one after the other. `raced` holds the inboxes that somebody wrote between
another's read and write; `log` and `gone` record what went in and came out of the others.

`TaskBus.tla` adds the delegation messages and the mirror: a report is validated, sent, and
only then written onto the board with `Kanban`'s three statements. A process may die
anywhere; `torn` holds the tasks with a report that was sent and never mirrored.

### PostgresBus, CoordBusAdapter

The database is external. In `PostgresBus.tla` a row gets its id when it is inserted and is
seen when it is committed; a reader polls for unread rows and marks them, or polls with
`since_id`, with or without `unread_only`. The flag is one column: a row of the lane `all` that
one reader marked is read for everyone, and the default poll of a cursor passes it over. `got`
is history: the ids a reader marked or, with `since_id`, was given; a reader that dies between
poll and `mark_read` has got nothing. Recipients that `validate_send` lets pass and the CHECK
constraint refuses (`agent:<class>` lanes) never become rows.

`CoordBusAdapter.tla` puts two swarms on the same table. Each has one connection: none, ready,
failed (its transaction was aborted, and the adapter rolls back nowhere) or lost (closed by
the server, which the next use notices). Leases are counted in seconds of the server while
`expires_at` is computed with the swarm's clock (`Skew`). Swarms are told apart by their
`swarm_sender`, which the model takes to differ; with the default, `swarm` for all, they
renew and release each other's areas as one. The columns the adapter names and
those of the table are sets, as the two files have them. `won` is history: the leases that
the swarm's own statement wrote.

### Workflow

One `WorkflowRunner` call: `converge`, `pipeline` or `fan_out`, chosen at the start. A pass
is its verdict, or a text without one, an empty text, or an exception; the context handed on
is the number of the pass it came from.

### Processes, Singleton, Daemon, Intake, Host

`Processes.tla` is the external part: process ids, reused once free, and whether one is
alive. `Singleton.tla` is `run_perpetual_team` around its `PidfileGuard`, one step per file
or probe operation, guarded, detached (`join=False`) or unguarded (`--no-singleton`).
`Daemon.tla` is `run --daemon` (fork, then the parent writes the file) and `daemon-stop`.
`Intake.tla` is `GitHubWorkSource.generate`, issue by issue, with its one save at the end. A
file that cannot be read or parsed counts as empty (`Readings`), and a `submit` may raise
after its INSERT, before the timeline row (`SubmitHalf`): the task is then on the board and
the issue not among the seen.
`Host.tla` composes the three over one process table with foreign processes: a call of
`generate` runs inside a live loop and ends with its process, and a kill by `daemon-stop`
hits whatever has the pid by then. The guard is counted, not the loops: those a detached team
leaves behind after a release, and a second acquire by the process that holds the file, are
outside of this model.

### Health

A loop that ticks and checkpoints, and the monitor that reads the file. The file is absent,
torn (`write_text` truncates first) or whole; time runs up to the timeout. The keys that
one side writes and the other looks for are sets.

## 3. The runs

| Run | Instance | States | Shows |
|---|---|---|---|
| `team_safety` | 2 loops, 2 tasks (one without a head), all 3 acyclic DAGs, 2 attempts, 2 throttles, 1 restart, kills and stops | 1.44 M | types, no double drive, no leaked claim, DAG, settled rows final, refinement of `TaskBoard` |
| `team_live` | the same without kills | 443 k | every ready task is settled unless all loops are gone; stopped loops end |
| `supervisor` | 3 tasks of one head, all 25 DAGs, a fourth task without a head added from outside; 1 or 2 slots; an abort | 800 k | no double dispatch, DAG, a normal return leaves nothing, claims leak only where the pool drops them, ready tasks settle unless starved |
| `governor` | 2 lanes of 4 tokens, at most 2 used at once, band 25-50 %, dwell 2, budget 1, fair | 38 k | dwell and hysteresis; settles on cheap lanes, leaves exhausted ones |
| `merge` | 2 workers with 2 commits each, one change in common, one pair that conflicts; 2 submissions, 1 kill; all options | 477 k | branches go only after their work landed, merged requests did land, reverts restore base, no overlapping batch, every request is decided |
| `bus` | a supervisor and an agent, 3 messages, inboxes of 2 | 1.59 M | unraced inboxes are bounded queues, order survives races, the board shows the last report |
| `coord` | 2 swarms, 1 area, a clock a second behind, a lease of a second; a sender, a marking reader that may die, a cursor reader, 2 rows | 120 k | a lease won is kept, a dead owner replaced; rows reach readers and are marked, a cursor skips only rows that commit late or were read |
| `dispatch` | every conductor; 2 tasks, 2 lanes, 3 attempts, rotation after 2, 3 turns, cap 4, prices 1 and 3; five kinds of errors | 5.29 M | done means answered, spend bounded by throttles, every lane tried, no sleep in the cache's window |
| `workflow` | 2 cycles, one pipeline of all stages, 3 prompts on 2 threads; seven replies | 2.5 k | a merge is earned; every workflow ends |
| `host` | 2 pids, 2 issues filed at most twice; beside the teams either the intake or the daemon | 468 k | one holder of the guard unless acquires raced, a daemon stays named, no issue lost or filed again without a cause |

Two loops and two tasks are enough for every race the board has: a claim involves two loops and
one task, a stale peek a second task, the DAG one edge. Three tasks let the pool finish a
blocker while it peeks. Two throttles and two attempts reach every outcome of `Caught` in the
team: another try, an end by a stop, and an end by the last attempt (`resilience.py:397`) while
the other loop goes on; `Dispatch` has three attempts so that a rotation comes before the last.
A dwell of two seconds is the least at which a clock restarted by every decision never expires.
Two requests of two commits give each outcome of a batch: both merged, one rejected at its
first or second pick, refused for overlap; the second submission is a further request or
another attempt of a rejected one. Three messages into an inbox of two reach the cap with one
more in a race. Two rows reach every order of two ids and two commits. Two pids reach a second
team beside the first, and a pid given again; with three, and without the intake, the same
invariants hold (2.8 M states). Two cycles are a converging one after one that was not.
Deadlock is not checked: a stopped team, a returned supervisor, a finished workflow and an idle
governor have ended.

`TypeOK` is listed by the runs of the team and of the supervisor. The other modules state
theirs, and section 4 has the proof of each but that of `Health`, which has none; the runs
spend their properties otherwise.

**Fairness.** Every loop and pool thread is weakly fair: the interpreter schedules threads and
a dispatch returns since conductors have time-outs. A `submit` that has inserted its row logs
it. A started pipeline goes on, since its git commands return and its tests have a time-out,
and the operator keeps retrying serially, as `run_pipeline`'s docstring asks of its caller. For
the governor, time passes and `decide` is called again. In `coord`, time passes, the marking
reader polls and marks, and a live swarm asks for its area again and again, whatever state its
connection is in (`WF` of `TryClaimArea`); where its statement may run time and again, it does
not fail each time (`SF` of `ClaimRuns`), which excludes only a server that fails it every
time. In `workflow`, an agent's call returns or raises. Operators, throttles, headers, servers
and deaths may act or not at any point, as often as the bounds allow: two throttles in the team
(`MaxTransients`), one restart, one death of a reader.

Runs that find a violation:

| Run | What the code does |
|---|---|
| `coord_claim` | a failed statement leaves the adapter's connection in an aborted transaction: its swarm asks again and again and never gets a free area while the connection lives, though "the claim expires and another agent may take it". With a rollback, or a new connection, after an error the property holds; `DeadOwnerIsReplaced` is the part that holds as it is. Each announcement fails in that way on the table of `postgres_bus.py`, whose columns have other names |
| `host_health` | the monitor looks for keys the perpetual loop's status file does not have at the top: a loop that has just written it is called silent |

Other places where the code does less than its text says have no run of their own; the
properties that pass say what does hold there:

- `resilience.py:3` says a perpetual supervisor must never be killed by a provider rate
  limit; a throttle that outlasts the attempts ends the loop (`resilience.py:397`,
  `perpetual.py:404`). `ReadyIsSettled` excuses a team whose loops are all gone, and
  `LanesAreTried` says how much was tried first. With the SDK and subprocess conductors most
  throttles become failed results before `resilient_call` sees them.
- `perpetual.py:299` promises a clean stop; a stop seen inside `resilient_call` ends the
  thread with a `TransientError` (`resilience.py:378`). `StopEndsLoop` holds with either end.
- `perpetual.py:25` promises no lost work; what an interrupted team still had in hand stays
  in progress after a restart (`perpetual.py:572`). `ClaimsAreHeld` says only a death leaves
  such rows.
- `supervisor.py:252` says a claim by another "shouldn't happen"; the pool drops one and
  leaves its row in progress. `ClaimsAreHeld` of `Supervisor` says when.
- `usage.py:159` says a reported count is taken verbatim; after any past cooldown it is not
  (`usage.py:173`). The model has it; the governor's properties take the headroom as the
  tracker states it.
- `coord_bus_adapter.py:435` answers True whenever the statement ran, whoever owns the row;
  and True without a connection. `WonIsKept` is about leases that were really written.
- `workflow.py:472-473` says a failed simplify or review cannot "mask non-convergence"; with
  `changed=False` (483) it counts like one that found nothing, so a cycle of crashes converges
  and a merge may rest on the adversary's word alone; `MergeIsEarned` says what it rests on at least.
- `github_tasks.py:12` says an issue is filed once. `RefiledHasCause` lists what the model
  has found to break that: calls that overlap, a call whose set is not saved, a `submit` that
  raises after its INSERT (`kanban.py:221-226`), a file that held the issue and could not be
  read (`github_tasks.py:149-154`), and a reset.
- `poll` returns the messages for a recipient or for `all` (`postgres_bus.py:330`); with
  `since_id` and the default `unread_only` (336-339) a reader never sees a row for `all` that
  another one marked first. `CursorSkipsOnlyLateOrRead` says that only those, and rows that
  commit late, are missed.
- `messaging.py:124` calls drain atomic; it is a read and a write (`QueueUnlessRaced`).
- The rotated lane's credential never reaches a client (`perpetual.py:105`,
  `conductors/api.py:123`): rotation changes the lane's name only.
- `run --daemon` does not look at `supervisor.pid` before it writes it, and `daemon-stop`
  kills whatever process has the pid after its wait; `DaemonIsNamed` excludes the first.

## 4. The proofs

Every safety invariant and every safety action property that a passing run checks is also a
theorem, for every value of the constants, and so are the types of every state machine
but `Health`. The theorems assume the `ASSUME`s of the modules, which say what the constants
are, and nothing else, with one exception (`ClaimsHeld`). TLC evaluates them in the runs.

| Proofs | About | Theorems |
|---|---|---|
| `PerpetualTeamProofs` | any loops, tasks, heads, DAGs, attempts, restarts | `TypeCorrect`, `MutualExclusion`, `NoLeakedClaim`, `DagRespected`, `SettledStays`, `TeamImplementsBoard` |
| `SupervisorProofs` | any pool of slots, tasks, DAGs, rosters | `Typing`, `Exclusion`, `BlockersFirst`, `ClaimsHeld`, `Drained`, `SupervisorImplementsBoard` |
| `DispatchProofs` | every conductor; any errors, lanes, prices and limits | `LimitsHold`, `DoneMeansAnswered`, `SpendingBounded`, `EveryLaneIsTried`, `CacheIsSpared` |
| `GovernorProofs` | any lanes, caps, headers, thresholds, budgets, dwells | `Typing`, `Dwell`, `Hysteresis` |
| `MergeProofs` | any work, options, submissions, kills; any workflow | `Typing`, `NoWorkIsLost`, `MergedTellsTheTruth`, `RevertsRestore`, `BatchesAreDisjoint`, `LandingIsEarned` |
| `BusProofs` | any processes, names, messages and cap | `InboxIsBounded`, `InboxIsAQueue`, `InboxIsInOrder`, `TilesAgree` |
| `CoordProofs` | any swarms, areas, clocks, readers, rows, page sizes | `Typing`, `LeasesHold`, `CursorMissesOnlyLateOrRead` |
| `HostProofs` | any process ids, issues and filings | `Typing`, `NoIssueLost`, `RefilingHasCause`, `OneTeam`, `DaemonFound` |

None of the properties is inductive alone. What each needs beside itself:

- **Team.** That an UPDATE writes only the writer's own row needs the claim, and that a claim
  meets no other holder needs every holder's row to be in progress. `IInv` joins the
  properties with the types and with what a loop's registers hold at each location. Steps are
  grouped by what they do to the board: quiet ones, claims, dispatches, updates, inserts, the
  environment. The refinement of `TaskBoard` follows from `IInv` step by step; a kill maps to
  `Die`, the rest to one abstract step or a stutter.
- **Supervisor.** The same with slots for loops (`IInv`). `ClaimsHeld` adds that without a
  pool nothing is in flight between peek and claim (`Still`) and that the peeked task comes
  first of its head among those not added from outside (`Alone`). That last needs the tasks'
  places in the order to differ, which is the theorem's hypothesis `DistinctRanks`: in the
  code the place is `(priority, created_at)`, and two rows written within the resolution of
  the clock may share it. The run's instance satisfies it. `Drained` adds that on the way
  out of a run nothing is in flight and no task of the start is open again (`Leaving`). For
  the refinement nobody writes the row of a dropped claim (`Leaked`); `BoardView` first says
  what each step does to the board, and the mapping is proved from that. No run lists the
  supervisor's `ImplementsBoard`, which TLC passes too, as it doubles the time of the run.
- **Dispatch.** `DoneMeansAnswered` needs that the task in hand is claimed and unanswered
  (`InHand`). `SpendingBounded` separates what a task spent on throttled dispatches, less than
  the cap each, from the cost of the dispatch under way, which may pass the cap once, at its
  last response (`Spending`). `EveryLaneIsTried` writes the failures of a call as rotations
  times failures per lane plus those of the current lane, with the last lanes of the ring
  tried (`RingInv`); `fails` outlives the call, so the bound on it is part of the invariant.
- **Governor.** `ClockLags`: the saved clock never runs ahead of the true time since the last
  change of mode; the first decision starts it late, a crash may only start it, a transition
  resets both. `Hysteresis` needs the types and that the best headroom was no more than
  `Exit` when the plans were left (`LeftLow`). The attempt to prove it showed that it fails at
  `Enter` = 100 if a lane without a cap counts as 100 %, as the model had it; hence the 101.
- **Merge pipeline.** What was listed stays as listed, since workers write no open envelope
  (`ListInv`); whatever counts as picked was picked (`LandInv`); base is what it was plus
  some of the picked changes (`BaseInv`); the requests to come, in hand and merged are
  pairwise disjoint, not only those merged (`BatchInv`).
- **Workflow.** The context is that of the newest output and convergence is that of the last
  two passes (`Newest`, `Converging`).
- **Messaging and bus.** `InboxIsAQueue`: who is inside a file nobody raced for has read what
  is in it. `InboxIsInOrder` speaks of every content a file may have next, so also of what
  was read and not yet written (`Copy`), and of the messages under way (`OrderInv`).
  `TilesAgree` follows a sole reporter through send, append and the three statements of the
  mirror; the row may lag only while its reporter is on the way to it (`Follows`).
- **Coordination.** A lease that was won has time left (`LeaseInv`), whatever `Skew` is. Ids
  are drawn once, and a row not yet committed below a committed one counts as overtaken
  (`BusInv`). Only rows for a marking reader or for `all` are ever marked, so a marked row for
  a cursor reader is one for `all` (`MarkInv`).
- **Host.** Three invariants for three parts of the process table (`IntakeInv`, `TeamInv`,
  `DaemonInv`), each proved against a view of the step that says what the other parts may do
  to it (`Views`). The intake's says how the file and the memories of the calls under way
  differ, and that what a failed reading hides is excused; the guard's and the
  daemon's hold only as long as nothing `raced` or `strayed`.

Minima and maxima (`CHOOSE` over a set), the inbox that comes first, and sums over a map have
no induction to rest on here: a theorem of the library that takes an operator cannot be
instantiated. The proofs use the least counterexample instead (`WFMin` over `<` on `Nat`).

Only model-checked: liveness (`ReadyIsSettled`, `StopEndsLoop`, `CheapWhenPossible`,
`LeavesExhausted`, `MessageIsRead`, `DeadOwnerIsReplaced`, `EveryRequestIsDecided`,
`EveryWorkflowEnds`), since it rests on fairness and `ENABLED`, which these provers do not
reason about; and the two runs that find a violation.

`RevertRestores` speaks of requests none of whose changes was on base. Where one was, the
revert takes out the other request's change as well; and a request whose later pick fails
leaves its earlier commits on base. Both are behaviours of the code the model has, and the
code promises nothing else for them.

## 5. Not modelled, and what is left

- The agent registry, reviewer checkpoints, `parallelism_score`, `cost_preflight` and the
  failure counts of the meta supervisor: arithmetic or tables that no loop consults.
- `autoresearch_ingest.py`: merges tables in memory and writes one file.
- Two pipelines at once, and a worker that goes on while its request is merged: the code has
  no protocol for either.
- The migration of the Postgres table while messages are sent.
- Routing, roles, heads, cost tables, the CLI's parsing, dashboards and demo data are I/O,
  tables or arithmetic, and stay out.

Worth stating and proving next: an abstract mailbox and an abstract merge queue for messaging
and the pipeline to implement, and what a guarded team and its successor do to one board.
