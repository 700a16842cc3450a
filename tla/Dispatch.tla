------------------------------ MODULE Dispatch ------------------------------
(***************************************************************************)
(* What one perpetual loop does between two ticks, in detail: resilient_   *)
(* call with its back-off and its ring of provider lanes                   *)
(* (claude_swarm/resilience.py) around _drive_claimed_task (perpetual.py)  *)
(* around a conductor: the turn loop of ApiConductor (conductors/api.py),  *)
(* or one run of SDKConductor (conductors/sdk.py) or of a subprocess       *)
(* (conductor.py).  The board is reduced to a row per task, and its order  *)
(* to a choice: PerpetualTeam has both.                                    *)
(*                                                                         *)
(* Money is counted in units, time in seconds.                             *)
(***************************************************************************)
EXTENDS Naturals, Sequences, FiniteSetsExt

CONSTANTS
  Task,          \* tasks of the board
  Conductor,     \* the conductors to consider: "api", "sdk", "cli"
  Lanes,         \* KeyRotator.lanes
  MaxAttempts,   \* resilient_call's max_attempts
  RotateAfter,   \* resilient_call's rotate_after
  MaxTurns,      \* Task.max_turns
  CostCap,       \* ApiConductor.cost_cap_usd
  Cost,          \* prices of one response
  Errors,        \* exceptions a provider call may raise
  BaseDelay, MaxDelay,          \* BackoffPolicy.base_s, max_delay_s
  CacheTtl, CacheGuard          \* CACHE_TTL_S, CACHE_GUARD_S

ASSUME DispatchAssumption ==
  /\ Lanes \in Seq(STRING) /\ Lanes # << >>
  /\ MaxAttempts \in Nat \ {0}
  /\ RotateAfter \in Nat
  /\ MaxTurns \in Nat
  /\ CostCap \in Nat \ {0}
  /\ Cost \subseteq Nat /\ \E dearest \in Cost : \A c \in Cost : c <= dearest
  /\ \A e \in Errors : e.retryAfter \subseteq Nat /\ e.resets \subseteq Nat
  /\ BaseDelay \in Nat /\ MaxDelay \in Nat
  /\ CacheTtl \in Nat /\ CacheGuard \in 0 .. CacheTtl

VARIABLES
  conductor,  \* what the supervisor was built with
  pc,         \* where the loop is
  row,        \* the status and cost_usd of each task
  task,       \* the task in hand
  turn,       \* ApiConductor: turns taken
  cost,       \* running_cost of this dispatch
  result,     \* how the dispatch ended
  hint,       \* retry_after_s of the error, 0 if none
  attempt,    \* resilient_call: attempts made
  fails,      \* consecutive_transient
  idx,        \* KeyRotator._idx, for the life of the loop
  nap,        \* seconds of the last sleep
  stop,       \* the stop event
  spent,      \* history: what each task has cost
  throttled,  \* history: dispatches of it that ended in a throttle
  answered,   \* history: tasks whose last provider call completed the turn
  tried       \* history: lanes that were current in this resilient_call

call == <<attempt, fails, idx, nap, tried>>
dispatch == <<task, turn, cost, result, hint>>
history == <<spent, throttled, answered>>
vars == <<conductor, pc, row, dispatch, call, stop, history>>

-----------------------------------------------------------------------------
(* resilience.py: errors, hints, delays. *)

RetryableStatus == {429, 529}

RetryableReason == {"overloaded_error", "rate_limit_error", "pause_turn", "api_error"}

(* classify_error: by status, by reason, or by the words of its text. *)
Transient(e) ==
  e.status \in RetryableStatus \/ e.reason \in RetryableReason \/ e.says

(* retry_after_from_headers: a Retry-After that parses, else the soonest   *)
(* of the buckets' resets, else nothing, which delays like 0.              *)
RetryAfter(e) ==
  LET offers == IF e.retryAfter # {} THEN e.retryAfter ELSE e.resets IN
    IF offers = {} THEN 0 ELSE Min(offers)

Low == CacheTtl - CacheGuard

High == CacheTtl + CacheGuard

CacheSafeSleep(s) == IF s \in Low .. High THEN Low ELSE s

(* mutant: the server's hint is slept as it is *)
DelaysHintVerbatim(a, h) ==
  IF h > 0 THEN {h}
  ELSE {CacheSafeSleep(s) : s \in {s \in 0 .. MaxDelay : s <= BaseDelay * 2 ^ a}}

(* BackoffPolicy.delay: the hint, or full jitter over the capped schedule. *)
Delays(a, h) ==
  IF h > 0 THEN {CacheSafeSleep(h)}
  ELSE {CacheSafeSleep(s) : s \in {s \in 0 .. MaxDelay : s <= BaseDelay * 2 ^ a}}

(* KeyRotator.current *)
Lane == Lanes[idx]

(* KeyRotator.advance *)
NextLane == IF idx = Len(Lanes) THEN 1 ELSE idx + 1

Init ==
  /\ conductor \in Conductor
  /\ pc = "top"
  /\ row = [t \in Task |-> [status |-> "pending", cost |-> 0]]
  /\ task \in Task
  /\ turn = 0 /\ cost = 0 /\ result = "none" /\ hint = 0
  /\ attempt = 0 /\ fails = 0 /\ idx = 1 /\ nap = 0
  /\ stop = FALSE
  /\ spent = [t \in Task |-> 0]
  /\ throttled = [t \in Task |-> 0]
  /\ answered = {}
  /\ tried = {}

-----------------------------------------------------------------------------
(* resilient_call *)

(* run's abort check between ticks, then the head of resilient_call. *)
Tick ==
  /\ pc = "top"
  /\ IF stop
     THEN pc' = "exited" /\ UNCHANGED call
     ELSE /\ pc' = "attempt"
          /\ attempt' = 0 /\ fails' = 0 /\ tried' = {}
          /\ UNCHANGED <<idx, nap>>
  /\ UNCHANGED <<conductor, row, dispatch, stop, history>>

(* A stop seen here is raised as a TransientError, which ends the loop. *)
Attempt ==
  /\ pc = "attempt"
  /\ IF stop
     THEN pc' = "dead" /\ UNCHANGED call
     ELSE /\ pc' = "claim"
          /\ attempt' = attempt + 1
          /\ tried' = tried \cup {idx}
          /\ UNCHANGED <<fails, idx, nap>>
  /\ UNCHANGED <<conductor, row, dispatch, stop, history>>

(* mutant: one failure more before the lane is rotated *)
CaughtRotatesLate ==
  /\ pc = "caught"
  /\ IF attempt >= MaxAttempts
     THEN pc' = "dead" /\ UNCHANGED call
     ELSE LET rotate == fails + 1 > RotateAfter IN
            /\ idx' = IF rotate THEN NextLane ELSE idx
            /\ fails' = IF rotate THEN 0 ELSE fails + 1
            /\ nap' \in Delays(attempt - 1, hint)
            /\ pc' = IF stop THEN "dead" ELSE "nap"
            /\ UNCHANGED <<attempt, tried>>
  /\ hint' = 0
  /\ UNCHANGED <<conductor, row, task, turn, cost, result, stop, history>>

(* The handler: the last attempt raises; otherwise the lane is rotated if  *)
(* it failed RotateAfter times running, and the loop naps unless it was    *)
(* stopped.  The lane's credential becomes the api_key argument, which the *)
(* driver drops: whatever the lane, the conductors' clients take the key   *)
(* from the environment.                                                   *)
Caught ==
  /\ pc = "caught"
  /\ IF attempt >= MaxAttempts
     THEN pc' = "dead" /\ UNCHANGED call
     ELSE LET rotate == fails + 1 >= RotateAfter IN
            /\ idx' = IF rotate THEN NextLane ELSE idx
            /\ fails' = IF rotate THEN 0 ELSE fails + 1
            /\ nap' \in Delays(attempt - 1, hint)
            /\ pc' = IF stop THEN "dead" ELSE "nap"
            /\ UNCHANGED <<attempt, tried>>
  /\ hint' = 0
  /\ UNCHANGED <<conductor, row, task, turn, cost, result, stop, history>>

(* time.sleep, which a stop does not cut short. *)
Wake ==
  /\ pc = "nap"
  /\ pc' = "attempt"
  /\ UNCHANGED <<conductor, row, dispatch, call, stop, history>>

-----------------------------------------------------------------------------
(* _drive_claimed_task *)

Claim ==
  /\ pc = "claim"
  /\ LET ready == {t \in Task : row[t].status = "pending"} IN
       \/ /\ ready = {}
          /\ pc' = "top"
          /\ UNCHANGED <<row, dispatch, answered>>
       \/ \E t \in ready :
            /\ row' = [row EXCEPT ![t].status = "in_progress"]
            /\ task' = t
            /\ turn' = 0 /\ cost' = 0 /\ result' = "none"
            /\ answered' = answered \ {t}
            /\ pc' = IF conductor = "api" THEN "turn" ELSE "run"
            /\ UNCHANGED hint
  /\ UNCHANGED <<conductor, call, stop, spent, throttled>>

(* What is written back: a throttled task is released, a crashed one fails *)
(* without its cost.                                                       *)
Settle ==
  /\ pc = "settle"
  /\ row' = [row EXCEPT ![task] =
       CASE result \in {"done", "failed"} -> [status |-> result, cost |-> cost]
         [] result = "crashed"            -> [@ EXCEPT !.status = "failed"]
         [] result = "transient"          -> [@ EXCEPT !.status = "pending"]]
  /\ result' = "none"
  /\ pc' = IF result = "transient" THEN "caught" ELSE "top"
  /\ throttled' = [throttled EXCEPT ![task] = IF result = "transient" THEN @ + 1 ELSE @]
  /\ UNCHANGED <<conductor, task, turn, cost, hint, call, stop, spent, answered>>

-----------------------------------------------------------------------------
(* The conductors. *)

Raises(e) ==
  /\ result' = IF Transient(e) THEN "transient" ELSE "crashed"
  /\ hint' = IF Transient(e) THEN RetryAfter(e) ELSE 0
  /\ pc' = "settle"
  /\ UNCHANGED <<turn, cost, spent, answered>>

Pays(c) ==
  /\ cost' = cost + c
  /\ spent' = [spent EXCEPT ![task] = @ + c]

Ends(r) == result' = r /\ pc' = "settle" /\ UNCHANGED hint

(* A finished answer is kept whatever it cost. *)
EndTurn ==
  /\ \E c \in Cost : Pays(c)
  /\ turn' = turn + 1
  /\ answered' = answered \cup {task}
  /\ Ends("done")

(* mutant: the cap is checked against what was paid before this turn *)
ToolUseLateCap ==
  /\ \E c \in Cost : Pays(c)
  /\ turn' = turn + 1
  /\ IF cost >= CostCap \/ turn + 1 >= MaxTurns
     THEN Ends("failed")
     ELSE UNCHANGED <<pc, result, hint>>
  /\ UNCHANGED answered

(* Before the next call, the cap, then the turns. *)
ToolUse ==
  /\ \E c \in Cost : Pays(c)
  /\ turn' = turn + 1
  /\ IF cost' >= CostCap \/ turn + 1 >= MaxTurns
     THEN Ends("failed")
     ELSE UNCHANGED <<pc, result, hint>>
  /\ UNCHANGED answered

(* mutant: a task out of turns is done, with no result *)
OutOfTurnsIsDone ==
  /\ pc = "turn"
  /\ \/ /\ turn >= MaxTurns
        /\ Ends("done")
        /\ UNCHANGED <<turn, cost, spent, answered>>
     \/ /\ turn < MaxTurns
        /\ \/ EndTurn
           \/ /\ \E c \in Cost : Pays(c)
              /\ turn' = turn + 1
              /\ IF cost' >= CostCap THEN Ends("failed")
                 ELSE IF turn + 1 >= MaxTurns THEN Ends("done")
                 ELSE UNCHANGED <<pc, result, hint>>
              /\ UNCHANGED answered
           \/ \E e \in Errors : Raises(e)
  /\ UNCHANGED <<conductor, row, task, call, stop, throttled>>

(* ApiConductor.dispatch, one messages.create at a time. *)
ApiTurn ==
  /\ pc = "turn"
  /\ \/ /\ turn >= MaxTurns
        /\ Ends("failed")
        /\ UNCHANGED <<turn, cost, spent, answered>>
     \/ /\ turn < MaxTurns
        /\ EndTurn \/ ToolUse \/ \E e \in Errors : Raises(e)
  /\ UNCHANGED <<conductor, row, task, call, stop, throttled>>

(* SDKConductor and the subprocess conductors: one run with the SDK's own  *)
(* budget and turns.  A missing binary or key, a time-out, a process error *)
(* and the SDK's own errors are failed results; only the SDK reports a     *)
(* price; anything else is raised.                                         *)
Run ==
  /\ pc = "run"
  /\ \/ /\ \E c \in (IF conductor = "sdk" THEN Cost ELSE {0}) : Pays(c)
        /\ \/ Ends("done") /\ answered' = answered \cup {task}
           \/ Ends("failed") /\ UNCHANGED answered
        /\ UNCHANGED turn
     \/ /\ Ends("failed")
        /\ UNCHANGED <<turn, cost, spent, answered>>
     \/ \E e \in Errors : (conductor = "sdk" \/ ~Transient(e)) /\ Raises(e)
  /\ UNCHANGED <<conductor, row, task, call, stop, throttled>>

Stop ==
  /\ ~stop
  /\ stop' = TRUE
  /\ UNCHANGED <<conductor, pc, row, dispatch, call, history>>

Next ==
  \/ Tick \/ Attempt \/ Caught \/ Wake
  \/ Claim \/ Settle \/ ApiTurn \/ Run
  \/ Stop

Spec == Init /\ [][Next]_vars

-----------------------------------------------------------------------------
(* The types of the rows and of the loop's registers. *)
TypeOK ==
  /\ conductor \in Conductor
  /\ pc \in {"top", "attempt", "claim", "turn", "run", "settle", "caught",
             "nap", "exited", "dead"}
  /\ \A t \in Task : row[t].status \in {"pending", "in_progress", "done", "failed"}
  /\ task \in Task
  /\ turn \in 0 .. MaxTurns
  /\ result \in {"none", "done", "failed", "crashed", "transient"}
  /\ attempt \in 0 .. MaxAttempts
  /\ fails \in 0 .. RotateAfter
  /\ idx \in 1 .. Len(Lanes)
  /\ answered \subseteq Task

(* conductors/api.py:264-268: dependants are not unblocked by "a spurious  *)
(* DONE", and a completed answer is never discarded: over retries, caps,   *)
(* crashes and stops a task is done exactly when the last provider call    *)
(* made for it completed the turn.                                         *)
DoneIsAnswered ==
  \A t \in Task :
    ~(t = task /\ pc \in {"turn", "run", "settle"}) =>
      (row[t].status = "done" <=> t \in answered)

(* What the "hard per-task cost cap" of conductors/api.py:91 comes to:     *)
(* every throttled dispatch may have spent all but the cap and starts from *)
(* nothing, and the last response may pass the cap; nothing bounds the     *)
(* throttles of one task while others succeed in between.                  *)
SpendIsBounded ==
  conductor = "api" =>
    \A t \in Task : spent[t] <= (throttled[t] + 1) * (CostCap - 1) + Max(Cost)

(* The failures that a lane is given; a RotateAfter of 0 is as good as 1.  *)
FailuresPerLane == IF RotateAfter = 0 THEN 1 ELSE RotateAfter

(* Before a throttle ends the loop every lane had its turn, if there are   *)
(* attempts enough for all of them; the ring goes on from where the last   *)
(* call left it.                                                           *)
LanesAreTried ==
  pc = "dead" /\ attempt = MaxAttempts
    /\ MaxAttempts > (Len(Lanes) - 1) * FailuresPerLane
  => tried = 1 .. Len(Lanes)

(* No sleep ends inside the danger window of the prompt cache, whether it  *)
(* comes from a header or from the schedule; resilience.py:12 has the      *)
(* bounds outside, the code sleeps the lower one.                          *)
NapSparesCache == nap <= Low \/ nap > High

=============================================================================
