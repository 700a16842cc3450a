--------------------------- MODULE DispatchProofs ---------------------------
(***************************************************************************)
(* One perpetual loop between two ticks: its sleeps, its ring of lanes,    *)
(* what it takes for an answer and what it spends, for any number of tasks *)
(* and lanes, any limits, prices and errors.                               *)
(***************************************************************************)
EXTENDS Dispatch, WellFoundedInduction, TLAPS

-----------------------------------------------------------------------------
(* The places of the ring. *)
Place == 1 .. Len(Lanes)

(* The types of the loop's registers and of its history. *)
Typed ==
  /\ pc \in {"top", "attempt", "claim", "turn", "run", "settle", "caught",
             "nap", "exited", "dead"}
  /\ row \in [Task -> [status : {"pending", "in_progress", "done", "failed"},
                       cost : Nat]]
  /\ task \in Task
  /\ turn \in Nat /\ cost \in Nat /\ hint \in Nat
  /\ result \in {"none", "done", "failed", "crashed", "transient"}
  /\ attempt \in Nat /\ fails \in Nat
  /\ idx \in Place
  /\ spent \in [Task -> Nat] /\ throttled \in [Task -> Nat]
  /\ answered \subseteq Task
  /\ tried \subseteq Place
  /\ pc = "settle" => result # "none"

(* The last sleep. *)
Slept == nap \in Nat /\ NapSparesCache

(* The task in hand is claimed and has no answer, unless the run of it     *)
(* that is to be settled was done.                                         *)
InHand ==
  /\ pc \in {"turn", "run"} => row[task].status = "in_progress" /\ task \notin answered
  /\ pc = "settle" =>
       row[task].status = "in_progress" /\ (result = "done" <=> task \in answered)

BoardInv == InHand /\ DoneIsAnswered

(* The most that does not reach the cap, and the dearest response. *)
BelowCap == CostCap - 1
Dearest == Max(Cost)

(* What n throttled dispatches may have spent. *)
Allowance(n) == n * BelowCap

(* A task to be claimed has spent on throttles only, one in hand also what *)
(* the dispatch counts, which is below the cap until a response passes it. *)
Spending ==
  /\ pc # "run"
  /\ \A t \in Task : spent[t] <= Allowance(throttled[t]) + BelowCap + Dearest
  /\ \A t \in Task :
       row[t].status = "pending" => spent[t] <= Allowance(throttled[t])
  /\ pc \in {"turn", "settle"} =>
       /\ row[task].status = "in_progress"
       /\ spent[task] <= Allowance(throttled[task]) + cost
       /\ cost <= BelowCap + Dearest
  /\ pc = "turn" \/ (pc = "settle" /\ result \in {"crashed", "transient"}) =>
       cost <= BelowCap

SpendInv == conductor = "api" => Spending

(* The lane that was current k rotations ago. *)
Back(k) == IF k < idx THEN idx - k ELSE idx - k + Len(Lanes)

(* After r rotations of this call, and the failures of the current lane,   *)
(* the last r lanes of the ring were tried.                                *)
Rotated(n) ==
  \E r \in Nat :
    /\ n = r * FailuresPerLane + fails
    /\ \A k \in 1 .. Len(Lanes) - 1 : k <= r => Back(k) \in tried

RingInv ==
  /\ fails < FailuresPerLane
  /\ pc \in {"attempt", "nap"} => attempt < MaxAttempts /\ Rotated(attempt)
  /\ pc \in {"claim", "turn", "run", "settle", "caught"} =>
       /\ idx \in tried
       /\ attempt \in 1 .. MaxAttempts
       /\ Rotated(attempt - 1)
  /\ LanesAreTried

-----------------------------------------------------------------------------
(* Every hint of a server is some number of seconds.                       *)
LEMMA Hints ==
  ASSUME NEW e \in Errors
  PROVE  RetryAfter(e) \in Nat
<1> DEFINE offers == IF e.retryAfter # {} THEN e.retryAfter ELSE e.resets
           Below == {p \in Nat \X Nat : p[1] < p[2]}
<1>1. offers \subseteq Nat
  BY DispatchAssumption
<1>2. IsWellFoundedOn(Below, Nat)
  BY NatLessThanWellFounded, Zenon DEF OpToRel
<1> HIDE DEF offers
<1>3. ASSUME offers # {}
      PROVE  Min(offers) \in Nat
  <2>1. PICK x \in offers : \A y \in offers : <<y, x>> \notin Below
    <3> HIDE DEF Below
    <3> QED
      BY <1>1, <1>2, <1>3, WFMin
  <2>2. \A y \in offers : x <= y
    <3> TAKE y \in offers
    <3>1. x \in Nat /\ y \in Nat
      BY <1>1
    <3>2. ~ (y < x)
      BY <2>1, <3>1
    <3> QED
      BY <3>1, <3>2
  <2>3. Min(offers) \in offers
    BY <2>2 DEF Min
  <2> QED
    BY <1>1, <2>3
<1>4. RetryAfter(e) = IF offers = {} THEN 0 ELSE Min(offers)
  BY DEF RetryAfter, offers
<1> QED
  BY <1>3, <1>4

(* resilience.py:221-238: whatever is to be slept, what is slept lies      *)
(* below the danger window of the cache or above it.                       *)
LEMMA SafeSleep ==
  ASSUME NEW s \in Nat
  PROVE  /\ CacheSafeSleep(s) \in Nat
         /\ CacheSafeSleep(s) <= Low \/ CacheSafeSleep(s) > High
<1>1. Low \in Nat /\ High \in Nat
  BY DispatchAssumption DEF Low, High
<1> QED
  BY <1>1 DEF CacheSafeSleep

(* So do the hints and the jittered delays of the schedule.                *)
LEMMA DelaysAreSafe ==
  ASSUME NEW a, NEW h \in Nat, NEW s \in Delays(a, h)
  PROVE  s \in Nat /\ (s <= Low \/ s > High)
<1>1. PICK w \in Nat : s = CacheSafeSleep(w)
  BY DispatchAssumption DEF Delays
<1> QED
  BY <1>1, SafeSleep

(* The ring has a first lane and goes round it.                            *)
LEMMA Ring ==
  ASSUME idx \in Place
  PROVE  Len(Lanes) \in Nat \ {0} /\ NextLane \in Place
<1>1. Len(Lanes) \in Nat \ {0}
  BY DispatchAssumption
<1> QED
  BY <1>1 DEF NextLane, Place

(* The dearest response has a price.                                       *)
LEMMA Prices == Dearest \in Nat /\ \A c \in Cost : c \in Nat /\ c <= Dearest
<1>1. PICK d \in Cost : \A c \in Cost : d >= c
  BY DispatchAssumption
<1>2. Max(Cost) \in Cost /\ \A c \in Cost : Max(Cost) >= c
  BY <1>1 DEF Max
<1> QED
  BY <1>2, DispatchAssumption DEF Dearest

-----------------------------------------------------------------------------
(* Between two ticks the loop only moves among its own registers.          *)
LEMMA TypedStep == Typed /\ [Next]_vars => Typed'
<1> SUFFICES ASSUME Typed, [Next]_vars PROVE Typed'
  OBVIOUS
<1> USE DEF Typed
<1>1. CASE Tick
  BY <1>1 DEF Tick, dispatch, history, call
<1>2. CASE Attempt
  BY <1>2 DEF Attempt, dispatch, history, call
<1>3. CASE Caught
  <2>1. NextLane \in Place
    BY Ring
  <2> QED
    BY <1>3, <2>1 DEF Caught, history, call
<1>4. CASE Wake
  BY <1>4 DEF Wake, dispatch, history, call
<1>5. CASE Claim
  BY <1>5 DEF Claim, dispatch, call
<1>6. CASE Settle
  BY <1>6 DEF Settle, call
<1>7. ASSUME NEW e \in Errors, Raises(e)
      PROVE  hint' \in Nat /\ result' \in {"crashed", "transient"} /\ pc' = "settle"
             /\ UNCHANGED <<turn, cost, spent, answered>>
  BY <1>7, Hints DEF Raises
<1>8. ASSUME NEW c \in Cost \cup {0}, Pays(c)
      PROVE  cost' \in Nat /\ spent' \in [Task -> Nat]
  BY <1>8, DispatchAssumption DEF Pays
<1>9. CASE ApiTurn
  BY <1>7, <1>8, <1>9 DEF ApiTurn, EndTurn, ToolUse, Ends, call
<1>10. CASE Run
  BY <1>7, <1>8, <1>10 DEF Run, Ends, call
<1>11. CASE Stop
  BY <1>11 DEF Stop, dispatch, history, call
<1>12. CASE UNCHANGED vars
  BY <1>12 DEF vars, dispatch, history, call
<1> QED
  BY <1>1, <1>2, <1>3, <1>4, <1>5, <1>6, <1>9, <1>10, <1>11, <1>12 DEF Next

(* The loop's registers keep their types.                                  *)
LEMMA Registers == Spec => []Typed
<1>1. Init => Typed
  BY DispatchAssumption DEF Init, Typed, Place
<1> QED
  BY <1>1, TypedStep, PTL DEF Spec

(* The limits: an attempt is made only while one is left, a lane is left   *)
(* after so many failures, and a turn is taken only while one is left.     *)
Limits ==
  /\ conductor \in Conductor
  /\ turn <= MaxTurns
  /\ attempt <= MaxAttempts
  /\ pc \in {"attempt", "nap"} => attempt < MaxAttempts
  /\ fails <= RotateAfter

LEMMA LimitsStep == Typed /\ Limits /\ [Next]_vars => Limits'
<1> SUFFICES ASSUME Typed, Limits, [Next]_vars PROVE Limits'
  OBVIOUS
<1> USE DEF Limits
<1>1. CASE Tick
  BY <1>1, DispatchAssumption DEF Tick, dispatch, call
<1>2. CASE Attempt
  BY <1>2, DispatchAssumption DEF Attempt, Typed, dispatch, call
<1>3. CASE Caught
  BY <1>3, DispatchAssumption DEF Caught, Typed, call
<1>4. CASE Wake
  BY <1>4 DEF Wake, dispatch, call
<1>5. CASE Claim
  BY <1>5, DispatchAssumption DEF Claim, dispatch, call
<1>6. CASE Settle
  BY <1>6 DEF Settle, call
<1>7. CASE ApiTurn
  BY <1>7, DispatchAssumption DEF ApiTurn, EndTurn, ToolUse, Raises, Ends, Typed, call
<1>8. CASE Run
  BY <1>8 DEF Run, Raises, Ends, call
<1>9. CASE Stop \/ UNCHANGED vars
  BY <1>9 DEF Stop, vars, dispatch, call
<1> QED
  BY <1>1, <1>2, <1>3, <1>4, <1>5, <1>6, <1>7, <1>8, <1>9 DEF Next

(* Types, and that no call is attempted more than max_attempts times, no   *)
(* dispatch takes more than max_turns and no lane keeps failing, for any   *)
(* errors and any limits.                                                  *)
THEOREM LimitsHold == Spec => []TypeOK
<1>1. Init => Limits
  BY DispatchAssumption DEF Init, Limits
<1>2. Typed /\ Limits => TypeOK
  BY DispatchAssumption DEF Typed, Limits, TypeOK, Place
<1> QED
  BY <1>1, <1>2, LimitsStep, Registers, PTL DEF Spec

(* resilience.py:224-238: no sleep ends inside the danger window of the    *)
(* prompt cache, whatever the schedule and the server's headers are.       *)
THEOREM CacheIsSpared == Spec => []NapSparesCache
<1>1. Init => Slept
  BY DispatchAssumption DEF Init, Slept, NapSparesCache, Low, High
<1>2. Typed /\ Slept /\ [Next]_vars => Slept'
  <2> SUFFICES ASSUME Typed, Slept, [Next]_vars PROVE Slept'
    OBVIOUS
  <2>1. nap' = nap \/ nap' \in Delays(attempt - 1, hint)
    BY DEF Next, Tick, Attempt, Caught, Wake, Claim, Settle, ApiTurn, Run, Stop, vars, call
  <2>2. nap' \in Nat /\ (nap' <= Low \/ nap' > High)
    BY <2>1, DelaysAreSafe DEF Typed, Slept, NapSparesCache
  <2> QED
    BY <2>2 DEF Slept, NapSparesCache, Low, High
<1>3. Slept => NapSparesCache
  BY DEF Slept
<1> QED
  BY <1>1, <1>2, <1>3, Registers, PTL DEF Spec

-----------------------------------------------------------------------------
(* A dispatch that ends in a failed result, or in an exception, has left   *)
(* no answer; one that is done has.                                        *)
LEMMA BoardStep == Typed /\ BoardInv /\ [Next]_vars => BoardInv'
<1> SUFFICES ASSUME Typed, BoardInv, [Next]_vars PROVE BoardInv'
  OBVIOUS
<1> USE DEF Typed, BoardInv, InHand, DoneIsAnswered
<1>1. CASE Tick
  BY <1>1 DEF Tick, dispatch, history
<1>2. CASE Attempt
  BY <1>2 DEF Attempt, dispatch, history
<1>3. CASE Caught
  BY <1>3 DEF Caught, history
<1>4. CASE Wake
  BY <1>4 DEF Wake, dispatch, history
<1>5. CASE Claim
  BY <1>5 DEF Claim, dispatch
<1>6. CASE Settle
  BY <1>6 DEF Settle
<1>7. CASE ApiTurn
  BY <1>7 DEF ApiTurn, EndTurn, ToolUse, Raises, Ends
<1>8. CASE Run
  BY <1>8 DEF Run, Raises, Ends
<1>9. CASE Stop
  BY <1>9 DEF Stop, dispatch, history
<1>10. CASE UNCHANGED vars
  BY <1>10 DEF vars, dispatch, history
<1> QED
  BY <1>1, <1>2, <1>3, <1>4, <1>5, <1>6, <1>7, <1>8, <1>9, <1>10 DEF Next

(* conductors/api.py:264-268: a task that is not in hand is done exactly   *)
(* when the last provider call for it completed the turn, whichever        *)
(* conductor runs it and whatever is raised, retried or stopped.           *)
THEOREM DoneMeansAnswered == Spec => []DoneIsAnswered
<1>1. Init => BoardInv
  BY DEF Init, BoardInv, InHand, DoneIsAnswered
<1>2. BoardInv => DoneIsAnswered
  BY DEF BoardInv
<1> QED
  BY <1>1, <1>2, BoardStep, Registers, PTL DEF Spec

-----------------------------------------------------------------------------
(* A rotation brings each lane one step further back, and the one that was *)
(* current behind the next.                                                *)
LEMMA Rotation ==
  ASSUME idx \in Place, idx' = NextLane, NEW k \in 1 .. Len(Lanes) - 1
  PROVE  Back(k)' = IF k = 1 THEN idx ELSE Back(k - 1)
<1>1. Len(Lanes) \in Nat \ {0} /\ idx \in Nat /\ idx >= 1 /\ idx <= Len(Lanes)
  BY Ring DEF Place
<1>2. Back(k)' = IF k < idx' THEN idx' - k ELSE idx' - k + Len(Lanes)
  BY DEF Back
<1> QED
  BY <1>1, <1>2 DEF NextLane, Back

(* Each lane of the ring is current or some steps back.                    *)
LEMMA BackReachesAll ==
  ASSUME idx \in Place, NEW l \in Place, l # idx
  PROVE  \E k \in 1 .. Len(Lanes) - 1 : Back(k) = l
<1>1. Len(Lanes) \in Nat \ {0} /\ idx \in 1 .. Len(Lanes) /\ l \in 1 .. Len(Lanes)
  BY Ring DEF Place
<1>2. CASE l < idx
  <2>1. idx - l \in 1 .. Len(Lanes) - 1 /\ Back(idx - l) = l
    BY <1>1, <1>2 DEF Back
  <2> QED
    BY <2>1
<1>3. CASE l > idx
  <2>1. /\ idx - l + Len(Lanes) \in 1 .. Len(Lanes) - 1
        /\ Back(idx - l + Len(Lanes)) = l
    BY <1>1, <1>3 DEF Back
  <2> QED
    BY <2>1
<1> QED
  BY <1>1, <1>2, <1>3

(* What r rotations cost, one rotation more, and too few of them.          *)
LEMMA Rotations ==
  ASSUME NEW p \in Nat \ {0}
  PROVE  /\ 0 * p = 0
         /\ \A r \in Nat : r * p \in Nat /\ (r + 1) * p = r * p + p
         /\ \A r, m \in Nat : r < m => r * p + p <= m * p
<1>1. \A r \in Nat : r * p \in Nat /\ (r + 1) * p = r * p + p
  OBVIOUS
<1>2. ASSUME NEW r \in Nat, NEW m \in Nat, r < m
      PROVE  r * p + p <= m * p
  <2>1. PICK d \in Nat : m = (r + 1) + d
    <3>1. m - r - 1 \in Nat /\ m = (r + 1) + (m - r - 1)
      BY <1>2
    <3> QED
      BY <3>1
  <2>2. m * p = (r + 1) * p + d * p /\ d * p \in Nat
    BY <2>1
  <2> QED
    BY <1>1, <2>2
<1> QED
  BY <1>1, <1>2

(* A lane keeps its turn while it has failures left, then the ring turns;  *)
(* after the last attempt the ring has turned often enough.                *)
LEMMA CaughtStep ==
  ASSUME Typed, RingInv, Caught
  PROVE  RingInv'
<1> DEFINE P == FailuresPerLane
           L == Len(Lanes)
<1>1. P \in Nat \ {0} /\ L \in Nat \ {0} /\ MaxAttempts \in Nat \ {0}
  BY DispatchAssumption, Ring DEF FailuresPerLane, Typed
<1>2. /\ pc = "caught" /\ idx \in tried /\ attempt \in Nat /\ attempt <= MaxAttempts
      /\ fails \in Nat /\ fails < P /\ idx \in Place /\ tried \subseteq Place
  BY DispatchAssumption DEF Caught, RingInv, Typed
<1>3. PICK r \in Nat : /\ attempt - 1 = r * P + fails
                      /\ \A k \in 1 .. L - 1 : k <= r => Back(k) \in tried
  BY <1>2 DEF RingInv, Rotated
<1> HIDE DEF P
<1>4. CASE attempt >= MaxAttempts
  <2>1. pc' = "dead" /\ UNCHANGED call
    BY <1>4 DEF Caught
  <2>2. ASSUME MaxAttempts > (L - 1) * P PROVE tried = Place
    <3>1. r * P + P >= MaxAttempts
      BY <1>1, <1>2, <1>3, <1>4, Rotations
    <3>2. ~ (r < L - 1)
      <4>1. L - 1 \in Nat /\ r * P \in Nat /\ (L - 1) * P \in Nat
        BY <1>1, Rotations
      <4>2. r < L - 1 => r * P + P <= (L - 1) * P
        BY <1>1, <4>1, Rotations
      <4> QED
        BY <1>1, <2>2, <3>1, <4>1, <4>2
    <3>3. \A k \in 1 .. L - 1 : Back(k) \in tried
      BY <1>1, <1>3, <3>2
    <3> QED
      BY <1>2, <3>3, BackReachesAll
  <2> QED
    BY <1>2, <2>1, <2>2 DEF RingInv, LanesAreTried, Place, call, P
<1>5. CASE ~ (attempt >= MaxAttempts)
  <2>1. /\ attempt' = attempt /\ tried' = tried /\ pc' \in {"dead", "nap"}
        /\ attempt < MaxAttempts
    BY <1>2, <1>5, DispatchAssumption DEF Caught
  <2>2. (fails + 1 >= RotateAfter) <=> fails + 1 = P
    BY <1>2, DispatchAssumption DEF P, FailuresPerLane
  <2>3. CASE fails + 1 = P
    <3>1. idx' = NextLane /\ fails' = 0
      BY <1>5, <2>2, <2>3 DEF Caught
    <3>2. attempt = (r + 1) * P + 0
      BY <1>1, <1>2, <1>3, <2>3, Rotations
    <3>3. ASSUME NEW k \in 1 .. L - 1, k <= r + 1 PROVE Back(k)' \in tried
      <4>1. CASE k = 1
        BY <1>2, <3>1, <4>1, Rotation
      <4>2. CASE k # 1
        <5>1. k - 1 \in 1 .. L - 1 /\ k - 1 <= r
          BY <1>1, <3>3, <4>2
        <5> QED
          BY <1>2, <1>3, <3>1, <4>2, <5>1, Rotation
      <4> QED
        BY <4>1, <4>2
    <3>4. Rotated(attempt)'
      <4>1. \A k \in 1 .. L - 1 : k <= r + 1 => Back(k)' \in tried'
        BY <2>1, <3>3
      <4> QED
        BY <2>1, <3>1, <3>2, <4>1 DEF Rotated, P
    <3> QED
      BY <1>1, <2>1, <3>1, <3>4 DEF RingInv, LanesAreTried, P
  <2>4. CASE fails + 1 # P
    <3>1. idx' = idx /\ fails' = fails + 1 /\ fails' < P
      BY <1>1, <1>2, <1>5, <2>2, <2>4 DEF Caught
    <3>2. attempt = r * P + (fails + 1)
      BY <1>1, <1>2, <1>3, Rotations
    <3>3. Rotated(attempt)'
      <4>1. \A k \in 1 .. L - 1 : Back(k)' = Back(k)
        BY <3>1 DEF Back
      <4>2. \A k \in 1 .. L - 1 : k <= r => Back(k)' \in tried'
        BY <1>3, <2>1, <4>1
      <4>3. attempt' = r * FailuresPerLane + fails'
        BY <2>1, <3>1, <3>2 DEF P
      <4> QED
        BY <4>2, <4>3 DEF Rotated
    <3> QED
      BY <1>1, <1>2, <2>1, <3>1, <3>3 DEF RingInv, LanesAreTried, P
  <2> QED
    BY <2>3, <2>4
<1> QED
  BY <1>4, <1>5

(* Outside the handler the ring stands still.                              *)
LEMMA RingStep == Typed /\ RingInv /\ [Next]_vars => RingInv'
<1> SUFFICES ASSUME Typed, RingInv, [Next]_vars PROVE RingInv'
  OBVIOUS
<1>2. CASE Caught
  BY <1>2, CaughtStep
<1>3. CASE Tick
  <2>1. CASE stop
    BY <1>3, <2>1 DEF Tick, RingInv, LanesAreTried, call
  <2>2. CASE ~stop
    <3>1. /\ attempt' = 0 /\ fails' = 0 /\ tried' = {} /\ pc' = "attempt"
          /\ UNCHANGED idx
      BY <1>3, <2>2 DEF Tick
    <3>2. FailuresPerLane \in Nat \ {0}
      BY DispatchAssumption DEF FailuresPerLane
    <3>3. 0 = 0 * FailuresPerLane + 0 /\ \A k \in 1 .. Len(Lanes) - 1 : ~ (k <= 0)
      BY <3>2, Rotations
    <3>4. Rotated(attempt)'
      BY <3>1, <3>3 DEF Rotated
    <3> QED
      BY <3>1, <3>2, <3>4, DispatchAssumption DEF RingInv, LanesAreTried
  <2> QED
    BY <2>1, <2>2
<1>4. CASE Attempt
  <2>1. CASE stop
    BY <1>4, <2>1 DEF Attempt, RingInv, LanesAreTried, Typed, call
  <2>2. CASE ~stop
    <3>1. /\ pc = "attempt" /\ pc' = "claim" /\ attempt' = attempt + 1
          /\ tried' = tried \cup {idx} /\ UNCHANGED <<fails, idx>>
      BY <1>4, <2>2 DEF Attempt
    <3>2. PICK r \in Nat : /\ attempt = r * FailuresPerLane + fails
                          /\ \A k \in 1 .. Len(Lanes) - 1 : k <= r => Back(k) \in tried
      BY <3>1 DEF RingInv, Rotated
    <3>3. \A k \in 1 .. Len(Lanes) - 1 : Back(k)' = Back(k)
      BY <3>1 DEF Back
    <3>4. attempt' - 1 = attempt /\ attempt' \in 1 .. MaxAttempts
      BY <3>1, DispatchAssumption DEF RingInv, Typed
    <3>5. Rotated(attempt - 1)'
      BY <3>1, <3>2, <3>3, <3>4 DEF Rotated
    <3> QED
      BY <3>1, <3>4, <3>5 DEF RingInv, LanesAreTried
  <2> QED
    BY <2>1, <2>2
<1>5. CASE ~Caught /\ ~Tick /\ ~Attempt
  <2>1. UNCHANGED call
    BY <1>5 DEF Next, Wake, Claim, Settle, ApiTurn, Run, Stop, vars
  <2>2. \/ pc' = pc
        \/ pc = "nap" /\ pc' = "attempt"
        \/ pc \in {"claim", "turn", "run", "settle"}
             /\ pc' \in {"turn", "run", "settle", "caught", "top"}
    BY <1>5
    DEF Next, Wake, Claim, Settle, ApiTurn, EndTurn, ToolUse, Raises, Ends, Run, Stop, vars
  <2>3. \A n : Rotated(n)' <=> Rotated(n)
    BY <2>1 DEF Rotated, Back, call
  <2>4. (Rotated(attempt))' <=> Rotated(attempt)
    BY <2>1, <2>3 DEF call
  <2>5. (Rotated(attempt - 1))' <=> Rotated(attempt - 1)
    BY <2>1, <2>3 DEF call
  <2> QED
    BY <2>1, <2>2, <2>4, <2>5 DEF RingInv, LanesAreTried, call
<1> QED
  BY <1>2, <1>3, <1>4, <1>5

(* A throttle that ends the loop has had every lane, for any ring, if the  *)
(* attempts are enough for all of them and wherever the last call left it. *)
THEOREM EveryLaneIsTried == Spec => []LanesAreTried
<1>1. Init => RingInv
  BY DispatchAssumption DEF Init, RingInv, LanesAreTried, FailuresPerLane
<1>2. RingInv => LanesAreTried
  BY DEF RingInv
<1> QED
  BY <1>1, <1>2, RingStep, Registers, PTL DEF Spec

-----------------------------------------------------------------------------
(* One throttle more allows for one dispatch more below the cap.           *)
LEMMA Allowances ==
  /\ BelowCap \in Nat /\ \A c \in Nat : c >= CostCap \/ c <= BelowCap
  /\ \A n \in Nat : Allowance(n) \in Nat /\ Allowance(n + 1) = Allowance(n) + BelowCap
<1>1. BelowCap \in Nat /\ \A c \in Nat : c >= CostCap \/ c <= BelowCap
  BY DispatchAssumption DEF BelowCap
<1>2. \A n \in Nat : n * BelowCap \in Nat /\ (n + 1) * BelowCap = n * BelowCap + BelowCap
  BY <1>1
<1> QED
  BY <1>1, <1>2 DEF Allowance

(* Only what a response costs is added, to the task in hand; only a        *)
(* throttle lets the same task spend again.                                *)
LEMMA SpendStep == Typed /\ SpendInv /\ [Next]_vars => SpendInv'
<1> SUFFICES ASSUME Typed, Spending, [Next]_vars, conductor = "api"
             PROVE  Spending'
  BY DEF Next, Tick, Attempt, Caught, Wake, Claim, Settle, ApiTurn, Run, Stop, vars, SpendInv
<1>1. UNCHANGED <<row, task, cost, result, spent, throttled>>
        /\ pc' \notin {"turn", "run", "settle"} => Spending'
  BY DEF Spending
<1>2. CASE Tick \/ Attempt \/ Caught \/ Wake
  BY <1>1, <1>2 DEF Tick, Attempt, Caught, Wake, dispatch, history, Spending
<1>3. CASE Claim
  <2>1. CASE pc' = "top" /\ UNCHANGED <<row, task, cost, result>>
    BY <1>1, <1>3, <2>1 DEF Claim
  <2>2. ASSUME NEW t \in Task, row[t].status = "pending",
               row' = [row EXCEPT ![t].status = "in_progress"],
               task' = t, cost' = 0, result' = "none", pc' = "turn"
        PROVE  Spending'
    <3>1. /\ row'[t].status = "in_progress"
          /\ \A u \in Task : row'[u].status = "pending" => row[u].status = "pending"
      BY <2>2 DEF Typed
    <3>2. UNCHANGED <<spent, throttled>>
      BY <1>3 DEF Claim
    <3>3. Allowance(throttled[t]) \in Nat /\ spent[t] \in Nat /\ BelowCap + Dearest \in Nat
      BY <2>2, Allowances, Prices DEF Typed
    <3> QED
      BY <2>2, <3>1, <3>2, <3>3, Allowances, Prices DEF Spending
  <2> QED
    BY <1>3, <2>1, <2>2 DEF Claim, dispatch
<1>4. CASE Settle
  <2>1. CASE result = "transient"
    BY <1>4, <2>1, Allowances, Prices DEF Settle, Spending, Typed
  <2>2. CASE result # "transient"
    BY <1>4, <2>2, Allowances, Prices DEF Settle, Spending, Typed
  <2> QED
    BY <2>1, <2>2
<1>5. CASE ApiTurn
  <2>1. ASSUME pc = "turn", NEW c \in Cost, Pays(c), UNCHANGED <<row, task, throttled>>,
               \/ pc' = "settle" /\ result' \in {"done", "failed"}
               \/ pc' = "turn" /\ cost' <= BelowCap
        PROVE  Spending'
    BY <2>1, Allowances, Prices DEF Pays, Spending, Typed
  <2>2. ASSUME pc = "turn", UNCHANGED <<row, task, throttled, cost, spent>>, pc' = "settle"
        PROVE  Spending'
    BY <2>2, Allowances, Prices DEF Spending, Typed
  <2>3. pc = "turn" /\ UNCHANGED <<row, task, throttled>>
    BY <1>5 DEF ApiTurn
  <2>4. CASE \/ Ends("failed") /\ UNCHANGED <<turn, cost, spent, answered>>
             \/ \E e \in Errors : Raises(e)
    BY <2>2, <2>3, <2>4 DEF Raises, Ends
  <2>5. CASE EndTurn
    BY <2>1, <2>3, <2>5 DEF EndTurn, Ends
  <2>6. CASE ToolUse
    <3>1. PICK c \in Cost : Pays(c)
      BY <2>6 DEF ToolUse
    <3>2. cost' \in Nat
      BY <3>1, Prices DEF Pays, Typed
    <3>3. \/ pc' = "settle" /\ result' = "failed"
          \/ pc' = pc /\ ~ (cost' >= CostCap)
      BY <2>6 DEF ToolUse, Ends
    <3> QED
      BY <2>1, <2>3, <3>1, <3>2, <3>3, Allowances
  <2> QED
    BY <1>5, <2>4, <2>5, <2>6 DEF ApiTurn
<1>6. CASE Run
  BY <1>6 DEF Run, Spending
<1>7. CASE Stop \/ UNCHANGED vars
  BY <1>7 DEF Stop, vars, dispatch, history, Spending
<1> QED
  BY <1>2, <1>3, <1>4, <1>5, <1>6, <1>7 DEF Next

(* What the "hard per-task cost cap" of conductors/api.py:91 comes to, for *)
(* any prices with a highest, any cap and any number of throttles: each    *)
(* throttled dispatch may have spent all but the cap and the next starts   *)
(* from nothing, and the last response may pass the cap.                   *)
THEOREM SpendingBounded == Spec => []SpendIsBounded
<1>1. Init => SpendInv
  BY Allowances, Prices DEF Init, SpendInv, Spending
<1>2. Typed /\ SpendInv => SpendIsBounded
  <2> SUFFICES ASSUME Typed, Spending, NEW t \in Task
               PROVE  spent[t] <= (throttled[t] + 1) * (CostCap - 1) + Max(Cost)
    BY DEF SpendInv, SpendIsBounded
  <2>1. Allowance(throttled[t] + 1) = Allowance(throttled[t]) + BelowCap
    BY Allowances DEF Typed
  <2>2. spent[t] <= Allowance(throttled[t] + 1) + Dearest
    BY <2>1 DEF Spending
  <2> QED
    BY <2>2 DEF Allowance, BelowCap, Dearest
<1> QED
  BY <1>1, <1>2, SpendStep, Registers, PTL DEF Spec

=============================================================================
