------------------------------ MODULE Governor ------------------------------
(***************************************************************************)
(* Governor (claude_swarm/governor.py): which lane class the dispatcher    *)
(* prefers, decided from the usage of the subscription lanes, the API      *)
(* spend of the day and how long the mode has held.  Everything it decides *)
(* on is in governor.json, saved at every change, so a restart is          *)
(* invisible except in the middle of decide.                               *)
(*                                                                         *)
(* The time since mode_since is counted up to MinDwell; money is counted   *)
(* in units, up to Budget.                                                 *)
(***************************************************************************)
EXTENDS Usage

CONSTANTS
  API,        \* the metered lane
  Enter,      \* enter_cheap_fraction, in percent
  Exit,       \* exit_cheap_fraction, in percent
  Budget,     \* api_daily_budget_usd
  MinDwell    \* min_dwell_s

ASSUME GovernorAssumption ==
  /\ API \notin Lane
  /\ Enter \in 0 .. 100 /\ Exit \in 0 .. 100 /\ Exit < Enter
  /\ Budget \in Nat
  /\ MinDwell \in Nat

VARIABLES
  mode,      \* the mode
  held,      \* seconds since mode_since, Unset before the first decision
  spend,     \* api_spend_usd
  newDay,    \* today is not api_spend_day
  lane,      \* the lane of the last decision
  quiet,     \* history: seconds since the mode last changed, up to MinDwell
  left       \* history: the best Room when CHEAP_PLANS was left for the API

flags == <<mode, held, spend, newDay, lane, quiet, left>>
vars == <<lanes, flags>>

Mode == {"cheap_plans", "api_swarm", "throttled"}

AtMost(n, m) == IF n < m THEN n ELSE m

Init ==
  /\ UsageInit
  /\ mode = "cheap_plans"
  /\ held = Unset
  /\ spend = 0
  /\ newDay = TRUE
  /\ lane = Unset
  /\ quiet = MinDwell
  /\ left = Unset

-----------------------------------------------------------------------------
(* The spend of today, as _roll_day leaves it. *)
SpendToday == IF newDay THEN 0 ELSE spend

RecordAPISpend ==
  /\ spend' = AtMost(SpendToday + 1, Budget)
  /\ newDay' = FALSE
  /\ UNCHANGED <<lanes, mode, held, lane, quiet, left>>

(* The dwell clock starts at the first decision. *)
HeldSince == IF held = Unset THEN 0 ELSE held

OverBudget == SpendToday >= Budget

(* mutant: only the mode a decision chose has to dwell *)
TargetLeavesThrottled ==
  IF OverBudget THEN "throttled"
  ELSE IF HeldSince < MinDwell /\ mode # "throttled" THEN mode
  ELSE IF mode = "cheap_plans" /\ AnyHeadroom(Exit) THEN mode
  ELSE IF mode # "cheap_plans" /\ AnyHeadroom(Enter) THEN "cheap_plans"
  ELSE "api_swarm"

(* mutant: one threshold for leaving and for coming back *)
TargetOneThreshold ==
  IF OverBudget THEN "throttled"
  ELSE IF HeldSince < MinDwell THEN mode
  ELSE IF AnyHeadroom(Exit) THEN "cheap_plans" ELSE "api_swarm"

(* mutant: only a throttled lane is an exhausted one *)
TargetTrustsLanes ==
  IF OverBudget THEN "throttled"
  ELSE IF HeldSince < MinDwell THEN mode
  ELSE IF BestLanes # {} THEN "cheap_plans" ELSE "api_swarm"

(* The mode decide moves to. *)
Target ==
  IF OverBudget THEN "throttled"
  ELSE IF HeldSince < MinDwell THEN mode
  ELSE CASE mode = "cheap_plans" -> IF AnyHeadroom(Exit) THEN mode ELSE "api_swarm"
         [] mode = "api_swarm"   -> IF AnyHeadroom(Enter) THEN "cheap_plans" ELSE mode
         [] mode = "throttled"   -> IF AnyHeadroom(Enter) THEN "cheap_plans" ELSE "api_swarm"

(* mutant: every decision restarts the dwell *)
ClockRestarts(target) == 0

(* _transition stamps mode_since only when the mode changes. *)
Clock(target) == IF target # mode THEN 0 ELSE HeldSince

LanesFor(m) == IF m = "api_swarm" \/ BestLanes = {} THEN {API} ELSE BestLanes

(* The headroom of a lane in percent, rounded up; that of a lane with no   *)
(* known cap passes every threshold.                                       *)
Room(l) ==
  IF IsThrottled(l) THEN 0
  ELSE IF cap[l] = 0 THEN 101
  ELSE (100 * Remaining(l) + cap[l] - 1) \div cap[l]

BestRoom == CHOOSE r \in {Room(l) : l \in Lane} : \A l \in Lane : Room(l) <= r

Decide ==
  /\ UNCHANGED lanes
  /\ newDay' = FALSE
  /\ spend' = SpendToday
  /\ mode' = Target
  /\ held' = Clock(Target)
  /\ lane' \in LanesFor(Target)
  /\ quiet' = IF Target # mode THEN 0 ELSE quiet
  /\ left' = IF Target = mode THEN left
             ELSE IF mode = "cheap_plans" /\ Target = "api_swarm" THEN BestRoom
             ELSE Unset

(* The process dies in decide, after it saved the new day or the start of  *)
(* the dwell clock.                                                        *)
DecideDies ==
  /\ newDay' = FALSE
  /\ spend' = SpendToday
  /\ held' \in {held, HeldSince}
  /\ UNCHANGED <<lanes, mode, lane, quiet, left>>

-----------------------------------------------------------------------------
(* Time. *)

Tick ==
  /\ held' = IF held = Unset THEN Unset ELSE AtMost(held + 1, MinDwell)
  /\ quiet' = AtMost(quiet + 1, MinDwell)
  /\ UNCHANGED <<mode, spend, newDay, lane, left>>
  /\ Second

Midnight ==
  /\ newDay' = TRUE
  /\ UNCHANGED <<lanes, mode, held, spend, lane, quiet, left>>

Next ==
  \/ Record /\ UNCHANGED flags
  \/ RecordAPISpend
  \/ Decide
  \/ DecideDies
  \/ Tick
  \/ Midnight

Spec == Init /\ [][Next]_vars

(* Time passes and the governor is asked again and again (every supervisor *)
(* tick, or bus event).                                                    *)
FairSpec == Spec /\ WF_vars(Tick) /\ WF_vars(Decide)

-----------------------------------------------------------------------------
(* The types of the lanes and of the governor's flags. *)
TypeOK ==
  /\ UsageTypeOK
  /\ mode \in Mode
  /\ held \in 0 .. MinDwell \cup {Unset}
  /\ spend \in 0 .. Budget
  /\ newDay \in BOOLEAN
  /\ lane \in Lane \cup {API, Unset}
  /\ quiet \in 0 .. MinDwell
  /\ left \in 0 .. 100 \cup {Unset}

(* governor.py:31-32: once a transition fires the mode does not change     *)
(* again for min_dwell_s, the budget stop excepted; also across restarts   *)
(* and after a stop that bypassed the dwell.                               *)
DwellHeld ==
  [][mode' # mode => mode' = "throttled" \/ quiet = MinDwell]_vars

(* governor.py:28-30: a lane hovering at one number cannot oscillate: the  *)
(* governor comes back from the API to the plans it left only if some lane *)
(* gained more than the width of the band in between.                      *)
HysteresisGap ==
  [][mode = "api_swarm" /\ mode' = "cheap_plans" /\ left # Unset =>
       \E l \in Lane : Room(l) > left + (Enter - Exit)]_vars

(* governor.py:4-8: with headroom on a cheap plan and money left, the      *)
(* governor ends up on a cheap lane and stays there, whatever its mode was.*)
CheapWhenPossible ==
  <>[](AnyHeadroom(Enter) /\ SpendToday < Budget)
    => <>[](mode = "cheap_plans" /\ lane \in Lane)

(* The swarm stays autonomous: with every cheap plan exhausted for good    *)
(* the governor leaves them.                                               *)
LeavesExhausted == <>[]~AnyHeadroom(Exit) => <>[](mode # "cheap_plans")

=============================================================================
