--------------------------- MODULE GovernorProofs ---------------------------
(***************************************************************************)
(* The dwell of the governor and its hysteresis, for every set of lanes,   *)
(* every pair of thresholds, every budget and every min_dwell_s.           *)
(***************************************************************************)
EXTENDS Governor, WellFoundedInduction, TLAPS

(* What the saved clock knows: the mode has not changed for at least as    *)
(* long as mode_since says.  The first decision starts the clock without a *)
(* change of mode, so the clock may lag behind.                            *)
ClockLags ==
  /\ mode \in Mode
  /\ held \in 0 .. MinDwell \cup {Unset}
  /\ quiet \in 0 .. MinDwell
  /\ held # Unset => held <= quiet

(* Before the first decision the saved clock is not running.               *)
LEMMA InitClock == Init => ClockLags
BY GovernorAssumption, UsageAssumption DEF Init, ClockLags, Mode

(* The mode the governor moves to is a mode.                               *)
LEMMA TargetMode == ClockLags => Target \in Mode
BY DEF ClockLags, Target, Mode

(* The clock decide reads is a number of seconds, and no ahead of the time *)
(* since the mode last changed.                                            *)
LEMMA HeldSinceLags ==
  ClockLags => HeldSince \in 0 .. MinDwell /\ HeldSince <= quiet
BY GovernorAssumption, UsageAssumption DEF ClockLags, HeldSince

(* A decision that changes the mode resets both clocks; one that does not  *)
(* moves neither, except to start the saved one (decide,                   *)
(* governor.py:266-341).                                                   *)
LEMMA DecideClock == ClockLags /\ Decide => ClockLags'
<1> SUFFICES ASSUME ClockLags, Decide PROVE ClockLags'
  OBVIOUS
<1>1. mode' = Target /\ mode' \in Mode
  BY TargetMode DEF Decide
<1>2. CASE Target # mode
  <2>1. held' = 0 /\ quiet' = 0
    BY <1>2 DEF Decide, Clock
  <2> QED
    BY <1>1, <2>1, GovernorAssumption DEF ClockLags
<1>3. CASE Target = mode
  <2>1. held' = HeldSince /\ quiet' = quiet
    BY <1>3 DEF Decide, Clock
  <2> QED
    BY <1>1, <2>1, HeldSinceLags DEF ClockLags
<1> QED
  BY <1>2, <1>3

(* A second that passes moves both clocks alike.                           *)
LEMMA TickClock == ClockLags /\ Tick => ClockLags'
BY GovernorAssumption, UsageAssumption DEF ClockLags, Tick, AtMost

(* No step of the governor or of the tracker breaks the order of the       *)
(* clocks; a crash inside decide may only have started the saved one.      *)
LEMMA NextClock == ClockLags /\ [Next]_vars => ClockLags'
<1> SUFFICES ASSUME ClockLags, [Next]_vars PROVE ClockLags'
  OBVIOUS
<1>1. CASE UNCHANGED <<mode, held, quiet>>
  BY <1>1 DEF ClockLags
<1>2. CASE DecideDies
  BY <1>2, HeldSinceLags DEF DecideDies, ClockLags
<1> QED
  BY <1>1, <1>2, DecideClock, TickClock
  DEF Next, vars, flags, RecordAPISpend, Midnight

(* The saved clock never runs ahead of the time since the mode changed, in *)
(* every reachable state.                                                  *)
THEOREM ClockInvariance == Spec => []ClockLags
BY InitClock, NextClock, PTL DEF Spec

(* governor.py:31-32: the mode holds for min_dwell_s after every change,   *)
(* the budget stop excepted, whatever the lanes report and however often   *)
(* the process restarts.                                                   *)
THEOREM Dwell == Spec => DwellHeld
<1>1. ClockLags /\ [Next]_vars =>
        [mode' # mode => mode' = "throttled" \/ quiet = MinDwell]_vars
  <2> SUFFICES ASSUME ClockLags, Next, mode' # mode, mode' # "throttled"
               PROVE  quiet = MinDwell
    OBVIOUS
  <2>1. Decide
    BY DEF Next, flags, RecordAPISpend, DecideDies, Tick, Midnight
  <2>2. ~(HeldSince < MinDwell)
    BY <2>1 DEF Decide, Target
  <2> QED
    BY <2>2, HeldSinceLags, GovernorAssumption DEF ClockLags
<1> QED
  BY <1>1, ClockInvariance, PTL DEF Spec, DwellHeld

-----------------------------------------------------------------------------
(* The band between the two thresholds.                                    *)

(* The least number of a set. *)
LEMMA Least ==
  ASSUME NEW T, T \subseteq Nat, T # {}
  PROVE  \E m \in T : \A k \in T : m <= k
<1> DEFINE Below == {p \in Nat \X Nat : p[1] < p[2]}
<1>1. IsWellFoundedOn(Below, Nat)
  BY NatLessThanWellFounded, Zenon DEF OpToRel
<1>2. PICK m \in T : \A k \in T : <<k, m>> \notin Below
  <2> HIDE DEF Below
  <2> QED
    BY <1>1, WFMin
<1>3. ASSUME NEW k \in T PROVE m <= k
  <2>1. m \in Nat /\ k \in Nat
    OBVIOUS
  <2>2. ~(k < m)
    BY <1>2, <2>1
  <2> QED
    BY <2>1, <2>2
<1> QED
  BY <1>3

(* There are sums over the window for the recursion of TokensUsed to name. *)
LEMMA SumsExist ==
  ASSUME NEW f \in [0 .. Window - 1 -> Nat]
  PROVE  \E g : g = [a \in 0 .. Window |-> IF a = 0 THEN 0 ELSE g[a - 1] + f[a - 1]]
<1> DEFINE Sums(n, g) ==
      /\ g \in [0 .. n -> Nat]
      /\ \A a \in 0 .. n : g[a] = IF a = 0 THEN 0 ELSE g[a - 1] + f[a - 1]
    T == {n \in 0 .. Window : ~\E g : Sums(n, g)}
<1>1. Window \in Nat /\ Window # 0
  BY UsageAssumption
<1>2. T = {}
  <2> SUFFICES ASSUME T # {} PROVE FALSE
    OBVIOUS
  <2>1. PICK m \in T : \A k \in T : m <= k
    <3>1. T \subseteq Nat
      BY <1>1
    <3> HIDE DEF T
    <3> QED
      BY <3>1, Least
  <2>2. m \in 0 .. Window
    OBVIOUS
  <2>3. m # 0
    <3>1. Sums(0, [a \in 0 .. 0 |-> 0])
      OBVIOUS
    <3> QED
      BY <3>1
  <2>4. PICK g : Sums(m - 1, g)
    <3>1. m - 1 \in 0 .. Window /\ ~(m <= m - 1)
      BY <2>2, <2>3, <1>1
    <3>2. m - 1 \notin T
      BY <2>1, <3>1
    <3> HIDE DEF Sums
    <3> QED
      BY <3>1, <3>2
  <2> DEFINE h == [a \in 0 .. m |-> IF a = m THEN g[m - 1] + f[m - 1] ELSE g[a]]
  <2>5. g[m - 1] + f[m - 1] \in Nat
    BY <2>2, <2>3, <2>4, <1>1
  <2>6. \A a \in 0 .. m : a # m => g[a] \in Nat
    BY <2>2, <2>3, <2>4, <1>1
  <2>7. h \in [0 .. m -> Nat]
    BY <2>5, <2>6
  <2>8. ASSUME NEW a \in 0 .. m
        PROVE  h[a] = IF a = 0 THEN 0 ELSE h[a - 1] + f[a - 1]
    <3>1. CASE a = m
      <4>1. h[m] = g[m - 1] + f[m - 1] /\ h[m - 1] = g[m - 1]
        BY <2>2, <2>3
      <4> QED
        BY <3>1, <4>1, <2>3
    <3>2. CASE a # m
      <4>1. a \in 0 .. m - 1 /\ h[a] = g[a] /\ (a # 0 => h[a - 1] = g[a - 1])
        BY <3>2, <2>2
      <4>2. g[a] = IF a = 0 THEN 0 ELSE g[a - 1] + f[a - 1]
        BY <2>4, <4>1
      <4> QED
        BY <4>1, <4>2
    <3> QED
      BY <3>1, <3>2
  <2>9. Sums(m, h)
    BY <2>7, <2>8
  <2> QED
    BY <2>9
<1>3. PICK g : Sums(Window, g)
  <2> HIDE DEF Sums
  <2>1. Window \in 0 .. Window
    BY <1>1
  <2>2. Window \notin T
    BY <1>2, Zenon
  <2> QED
    BY <2>1, <2>2
<1>4. g = [a \in 0 .. Window |-> g[a]]
  BY <1>3
<1>5. g = [a \in 0 .. Window |-> IF a = 0 THEN 0 ELSE g[a - 1] + f[a - 1]]
  BY <1>3, <1>4
<1> QED
  BY <1>5

(* The tokens used in a window are a number (tokens_used, usage.py).       *)
LEMMA TokensUsedType == ASSUME UsageTypeOK, NEW l \in Lane PROVE TokensUsed(l) \in Nat
<1> DEFINE f == used[l]
    upTo == CHOOSE g : g = [a \in 0 .. Window |-> IF a = 0 THEN 0 ELSE g[a - 1] + f[a - 1]]
    T == {a \in 0 .. Window : upTo[a] \notin Nat}
<1>1. f \in [0 .. Window - 1 -> Nat]
  BY DEF UsageTypeOK
<1>2. TokensUsed(l) = upTo[Window]
  BY DEF TokensUsed
<1> HIDE DEF f
<1>3. upTo = [a \in 0 .. Window |-> IF a = 0 THEN 0 ELSE upTo[a - 1] + f[a - 1]]
  BY <1>1, SumsExist
<1> HIDE DEF upTo
<1>4. Window \in Nat /\ Window # 0
  BY UsageAssumption
<1>5. T = {}
  <2> SUFFICES ASSUME T # {} PROVE FALSE
    OBVIOUS
  <2>1. PICK m \in T : \A k \in T : m <= k
    <3>1. T \subseteq Nat
      BY <1>4
    <3> HIDE DEF T
    <3> QED
      BY <3>1, Least
  <2>2. upTo[m] = IF m = 0 THEN 0 ELSE upTo[m - 1] + f[m - 1]
    BY <1>3, <2>1
  <2>3. CASE m = 0
    BY <2>1, <2>2, <2>3
  <2>4. CASE m # 0
    BY <2>1, <2>2, <2>4, <1>1, <1>4
  <2> QED
    BY <2>3, <2>4
<1> QED
  BY <1>2, <1>4, <1>5

(* The share of a cap c that r tokens are, in percent and rounded up, lies *)
(* on the side of a threshold on which the exact share lies.               *)
LEMMA RoundedShare ==
  ASSUME NEW r \in Nat, NEW c \in Nat, c # 0, NEW percent \in Nat
  PROVE  LET share == (100 * r + c - 1) \div c
         IN  /\ share \in Nat
             /\ 100 * r <= percent * c => share <= percent
             /\ 100 * r > percent * c => share > percent
<1> DEFINE n == 100 * r + c - 1
           share == n \div c
<1>1. n \in Nat
  OBVIOUS
<1>2. share \in Nat /\ share * c <= n /\ n < (share + 1) * c
  BY <1>1
<1>3. percent * c \in Nat /\ (percent + 1) * c = percent * c + c
  OBVIOUS
<1> QED
  BY <1>1, <1>2, <1>3

(* The tracker's types. *)
LEMMA UsageInitType == UsageInit => UsageTypeOK
<1> SUFFICES ASSUME UsageInit PROVE UsageTypeOK
  OBVIOUS
<1>1. cap \in [Lane -> Nat]
  <2>1. /\ \A l \in Lane : cap[l] \in Caps[l] /\ Caps[l] \subseteq Nat
        /\ cap = [l \in Lane |-> cap[l]]
    BY UsageAssumption DEF UsageInit
  <2> QED
    BY <2>1
<1> QED
  BY <1>1, UsageAssumption DEF UsageInit, UsageTypeOK

LEMMA RecordType == UsageTypeOK /\ Record => UsageTypeOK'
<1> SUFFICES ASSUME UsageTypeOK, NEW l \in Lane,
                    \/ \E n \in Amounts : RecordUsage(l, n)
                    \/ \E d \in Delays : RecordRateLimit(l, d)
                    \/ \E h \in Headers[l] : ApplyHeaders(l, h)
                    \/ ClearThrottle(l)
                    \/ \E c \in Caps[l] : SetCap(l, c)
             PROVE  UsageTypeOK'
  BY DEF Record
<1>1. ASSUME NEW n \in Amounts, RecordUsage(l, n) PROVE UsageTypeOK'
  <2>1. 0 \in 0 .. Window - 1 /\ n \in Nat
    BY UsageAssumption
  <2>2. used' \in [Lane -> [0 .. Window - 1 -> Nat]]
    <3> DEFINE u == [used[l] EXCEPT ![0] = @ + n]
    <3>1. used[l] \in [0 .. Window - 1 -> Nat]
      BY DEF UsageTypeOK
    <3>2. used[l][0] + n \in Nat
      <4>1. used[l][0] \in Nat
        BY <2>1, <3>1
      <4> QED
        BY <2>1, <4>1
    <3>3. u \in [0 .. Window - 1 -> Nat]
      BY <3>1, <3>2
    <3>4. used' = [used EXCEPT ![l] = u]
      BY <1>1 DEF RecordUsage
    <3> HIDE DEF u
    <3> QED
      BY <3>3, <3>4 DEF UsageTypeOK
  <2> QED
    BY <1>1, <2>2 DEF RecordUsage, UsageTypeOK
<1>2. ASSUME NEW d \in Delays, RecordRateLimit(l, d) PROVE UsageTypeOK'
  BY <1>2, UsageAssumption DEF RecordRateLimit, UsageTypeOK
<1>3. ASSUME NEW h \in Headers[l], ApplyHeaders(l, h) PROVE UsageTypeOK'
  <2>1. h \in HeaderType
    BY UsageAssumption
  <2> QED
    BY <1>3, <2>1 DEF ApplyHeaders, UsageTypeOK, HeaderType
<1>4. CASE ClearThrottle(l)
  BY <1>4 DEF ClearThrottle, UsageTypeOK
<1>5. ASSUME NEW c \in Caps[l], SetCap(l, c) PROVE UsageTypeOK'
  BY <1>5, UsageAssumption DEF SetCap, UsageTypeOK
<1> QED
  BY <1>1, <1>2, <1>3, <1>4, <1>5

LEMMA SecondType == UsageTypeOK /\ Second => UsageTypeOK'
<1> SUFFICES ASSUME UsageTypeOK, Second PROVE UsageTypeOK'
  OBVIOUS
<1>1. used' \in [Lane -> [0 .. Window - 1 -> Nat]]
  <2>1. ASSUME NEW l \in Lane, NEW a \in 0 .. Window - 1
        PROVE  (IF a = 0 THEN 0 ELSE used[l][a - 1]) \in Nat
    <3>1. used[l] \in [0 .. Window - 1 -> Nat]
      BY DEF UsageTypeOK
    <3>2. CASE a # 0
      BY <3>1, <3>2, UsageAssumption
    <3> QED
      BY <3>2
  <2> QED
    BY <2>1 DEF Second
<1>2. resetIn' \in [Lane -> Nat \cup {Unset}]
  BY UsageAssumption DEF Second, UsageTypeOK, IsThrottled
<1> QED
  BY <1>1, <1>2 DEF Second, UsageTypeOK

(* What is left of a lane's cap is a number.                               *)
LEMMA RemainingType ==
  ASSUME UsageTypeOK, NEW l \in Lane, cap[l] # 0
  PROVE  Remaining(l) \in Nat
<1>1. /\ cap[l] \in Nat /\ cap[l] > 0
      /\ reported[l] \in Nat \cup {Unset}
      /\ TokensUsed(l) \in Nat
  BY TokensUsedType DEF UsageTypeOK
<1>2. AtLeastZero(cap[l] - TokensUsed(l)) \in Nat
  BY <1>1 DEF AtLeastZero
<1>3. HeadroomTokens(l) \in Nat
  BY <1>1, <1>2 DEF HeadroomTokens
<1> QED
  BY <1>1, <1>3 DEF Remaining

(* A lane has room for a threshold exactly if its rounded share is above   *)
(* it.                                                                     *)
LEMMA HeadroomIsRoom ==
  ASSUME UsageTypeOK, NEW percent \in 0 .. 100
  PROVE  /\ \A l \in Lane : Room(l) \in Nat
         /\ AnyHeadroom(percent) <=> \E l \in Lane : Room(l) > percent
<1>1. ASSUME NEW l \in Lane
      PROVE  /\ Room(l) \in Nat
             /\ ~IsThrottled(l) /\ (cap[l] = 0 \/ 100 * Remaining(l) > percent * cap[l])
                  <=> Room(l) > percent
  <2>1. CASE IsThrottled(l)
    BY <2>1 DEF Room
  <2>2. CASE ~IsThrottled(l) /\ cap[l] = 0
    BY <2>2 DEF Room
  <2>3. CASE ~IsThrottled(l) /\ cap[l] # 0
    <3>1. Remaining(l) \in Nat /\ cap[l] \in Nat /\ percent \in Nat
      BY <2>3, RemainingType DEF UsageTypeOK
    <3>2. Room(l) = (100 * Remaining(l) + cap[l] - 1) \div cap[l]
      BY <2>3 DEF Room
    <3>3. /\ Room(l) \in Nat
          /\ 100 * Remaining(l) <= percent * cap[l] => Room(l) <= percent
          /\ 100 * Remaining(l) > percent * cap[l] => Room(l) > percent
      <4> DEFINE r == Remaining(l)
                 c == cap[l]
      <4>1. r \in Nat /\ c \in Nat /\ c # 0 /\ Room(l) = (100 * r + c - 1) \div c
        BY <2>3, <3>1, <3>2
      <4> HIDE DEF r, c
      <4>2. /\ Room(l) \in Nat
            /\ 100 * r <= percent * c => Room(l) <= percent
            /\ 100 * r > percent * c => Room(l) > percent
        BY <3>1, <4>1, RoundedShare
      <4> QED
        BY <4>2 DEF r, c
    <3>4. 100 * Remaining(l) \in Int /\ percent * cap[l] \in Int
      BY <3>1
    <3> QED
      BY <2>3, <3>1, <3>3, <3>4
  <2> QED
    BY <2>1, <2>2, <2>3
<1> QED
  BY <1>1 DEF AnyHeadroom

(* With no lane above a threshold the best of them is not.                 *)
LEMMA BestIsLow ==
  ASSUME UsageTypeOK, NEW percent \in 0 .. 100, ~AnyHeadroom(percent)
  PROVE  BestRoom \in 0 .. percent
<1> DEFINE rooms == {Room(l) : l \in Lane}
           T == {percent - r : r \in rooms}
<1>1. \A l \in Lane : Room(l) \in 0 .. percent
  BY HeadroomIsRoom
<1>2. T \subseteq Nat /\ T # {}
  BY <1>1, UsageAssumption
<1>3. PICK m \in T : \A k \in T : m <= k
  <2> HIDE DEF T
  <2> QED
    BY <1>2, Least
<1>4. PICK r \in rooms : m = percent - r
  OBVIOUS
<1>5. ASSUME NEW l \in Lane PROVE Room(l) <= r
  <2>1. m <= percent - Room(l)
    BY <1>3
  <2> QED
    BY <2>1, <1>1, <1>4
<1>6. BestRoom \in rooms
  BY <1>4, <1>5 DEF BestRoom
<1> QED
  BY <1>1, <1>6

(* The plans were left for the API with no lane above the lower threshold. *)
LeftLow == left # Unset => left \in 0 .. Exit

BandInv == UsageTypeOK /\ LeftLow

LEMMA BandInvKept == BandInv /\ [Next]_vars => BandInv'
<1> SUFFICES ASSUME BandInv, [Next]_vars PROVE BandInv'
  OBVIOUS
<1>1. UsageTypeOK'
  <2>1. CASE UNCHANGED lanes
    BY <2>1 DEF BandInv, UsageTypeOK, lanes
  <2> QED
    BY <2>1, RecordType, SecondType
    DEF BandInv, Next, vars, RecordAPISpend, Decide, DecideDies, Tick, Midnight
<1>2. LeftLow'
  <2>1. CASE Decide
    <3>1. CASE Target = mode \/ ~(mode = "cheap_plans" /\ Target = "api_swarm")
      BY <2>1, <3>1 DEF Decide, BandInv, LeftLow
    <3>2. CASE mode = "cheap_plans" /\ Target = "api_swarm"
      <4>1. ~AnyHeadroom(Exit)
        BY <3>2 DEF Target
      <4>2. left' = BestRoom
        BY <2>1, <3>2 DEF Decide
      <4> QED
        BY <4>1, <4>2, BestIsLow, GovernorAssumption DEF BandInv, LeftLow
    <3> QED
      BY <3>1, <3>2
  <2>2. CASE UNCHANGED left
    BY <2>2 DEF BandInv, LeftLow
  <2> QED
    BY <2>1, <2>2 DEF Next, vars, flags, RecordAPISpend, DecideDies, Tick, Midnight
<1> QED
  BY <1>1, <1>2 DEF BandInv

(* A decision goes to a lane: the API or one the tracker ranks best.       *)
LEMMA LaneChosen == Decide => lane' \in Lane \cup {API}
BY DEF Decide, LanesFor, BestLanes

(* The types of the tracker and of the governor, for any usage.            *)
THEOREM Typing == Spec => []TypeOK
<1> DEFINE Flags == spend \in 0 .. Budget /\ newDay \in BOOLEAN
                    /\ lane \in Lane \cup {API, Unset}
<1>1. Init => BandInv /\ Flags
  BY UsageInitType, GovernorAssumption DEF Init, BandInv, LeftLow
<1>2. Flags /\ [Next]_vars => Flags'
  <2> SUFFICES ASSUME Flags, [Next]_vars PROVE Flags'
    OBVIOUS
  <2>1. SpendToday \in 0 .. Budget
    BY GovernorAssumption DEF SpendToday
  <2>2. AtMost(SpendToday + 1, Budget) \in 0 .. Budget
    BY <2>1, GovernorAssumption DEF AtMost
  <2>3. CASE Decide
    BY <2>1, <2>3, LaneChosen DEF Decide
  <2> QED
    BY <2>1, <2>2, <2>3 DEF Next, vars, flags, RecordAPISpend, DecideDies, Tick, Midnight
<1>3. BandInv /\ Flags /\ ClockLags => TypeOK
  BY GovernorAssumption DEF BandInv, LeftLow, ClockLags, TypeOK
<1> QED
  BY <1>1, <1>2, <1>3, BandInvKept, ClockInvariance, PTL DEF Spec

(* governor.py:28-30: the governor comes back from the API to the plans it *)
(* left only if some lane gained more than the width of the band, whatever *)
(* the lanes report in between.                                            *)
THEOREM Hysteresis == Spec => HysteresisGap
<1>1. Init => BandInv
  BY UsageInitType DEF Init, BandInv, LeftLow
<1>2. BandInv /\ [Next]_vars =>
        [mode = "api_swarm" /\ mode' = "cheap_plans" /\ left # Unset =>
           \E l \in Lane : Room(l) > left + (Enter - Exit)]_vars
  <2> SUFFICES ASSUME BandInv, Next, mode = "api_swarm", mode' = "cheap_plans", left # Unset
               PROVE  \E l \in Lane : Room(l) > left + (Enter - Exit)
    OBVIOUS
  <2>1. mode' = Target
    BY DEF Next, flags, RecordAPISpend, Decide, DecideDies, Tick, Midnight
  <2>2. AnyHeadroom(Enter)
    BY <2>1 DEF Target
  <2>3. PICK l \in Lane : Room(l) \in Nat /\ Room(l) > Enter
    BY <2>2, HeadroomIsRoom, GovernorAssumption DEF BandInv
  <2>4. left \in 0 .. Exit
    BY <2>3 DEF BandInv, LeftLow
  <2> QED
    BY <2>3, <2>4, GovernorAssumption
<1> QED
  BY <1>1, <1>2, BandInvKept, PTL DEF Spec, HysteresisGap

=============================================================================
