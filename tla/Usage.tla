-------------------------------- MODULE Usage -------------------------------
(***************************************************************************)
(* UsageTracker (claude_swarm/usage.py): what is known of the headroom of  *)
(* each lane.  The file is saved at the end of every call and the tracker  *)
(* has one writer, so a call is one step.                                  *)
(*                                                                         *)
(* Time is relative: an event is kept by its age in seconds, reset_at by   *)
(* the seconds left to it, 0 once it is past.  An event is forgotten when  *)
(* it leaves the window; the code forgets it at the next call, and reads   *)
(* it never.                                                               *)
(***************************************************************************)
EXTENDS Integers, Functions

CONSTANTS
  Lane,       \* the subscription lanes
  Order,      \* their places in the enum
  Unset,      \* None
  Window,     \* window_s
  Caps,       \* caps an operator may declare for each lane; 0 is "unknown"
  Amounts,    \* tokens a call may use
  Delays,     \* retry-after of a 429, the default reassessment included
  Headers,    \* the rate limit headers each lane's responses may carry
  MaxUsed     \* bound: tokens used in a window

(* Parsed headers; a header that is missing or malformed is Unset. *)
HeaderType == [limit : Nat \cup {Unset}, remaining : Nat \cup {Unset},
               reset : Nat \cup {Unset}, retryAfter : Nat \cup {Unset}]

ASSUME UsageAssumption ==
  /\ Lane # {}
  /\ Unset \notin Int
  /\ Window \in Nat \ {0}
  /\ Order \in Injection(Lane, Nat)
  /\ Caps \in [Lane -> SUBSET Nat]
  /\ Amounts \subseteq Nat \ {0}
  /\ Delays \subseteq Nat \ {0}
  /\ Headers \in [Lane -> SUBSET HeaderType]
  /\ MaxUsed \in Nat

VARIABLES
  cap,       \* token_cap
  used,      \* events: the tokens used, by age
  resetIn,   \* reset_at
  reported   \* reported_tokens_remaining

lanes == <<cap, used, resetIn, reported>>

UsageTypeOK ==
  /\ cap \in [Lane -> Nat]
  /\ used \in [Lane -> [0 .. Window - 1 -> Nat]]
  /\ resetIn \in [Lane -> Nat \cup {Unset}]
  /\ reported \in [Lane -> Nat \cup {Unset}]

UsageInit ==
  /\ cap \in {c \in [Lane -> UNION Range(Caps)] : \A l \in Lane : c[l] \in Caps[l]}
  /\ used = [l \in Lane |-> [a \in 0 .. Window - 1 |-> 0]]
  /\ resetIn = [l \in Lane |-> Unset]
  /\ reported = [l \in Lane |-> Unset]

-----------------------------------------------------------------------------
(* Reads. *)

TokensUsed(l) ==
  LET upTo[a \in 0 .. Window] == IF a = 0 THEN 0 ELSE upTo[a - 1] + used[l][a - 1]
  IN  upTo[Window]

IsThrottled(l) == resetIn[l] \notin {Unset, 0}

(* Once reset_at is past, a reported count is taken for expired. *)
Expired(l) == resetIn[l] = 0

AtLeastZero(n) == IF n < 0 THEN 0 ELSE n

HeadroomTokens(l) ==
  IF IsThrottled(l) THEN 0
  ELSE IF reported[l] # Unset /\ ~Expired(l) THEN reported[l]
  ELSE IF cap[l] > 0 THEN AtLeastZero(cap[l] - TokensUsed(l))
  ELSE Unset

(* The numerator of headroom_fraction for a lane with a cap; without a cap *)
(* there is no fraction.                                                   *)
Remaining(l) == IF HeadroomTokens(l) > cap[l] THEN cap[l] ELSE HeadroomTokens(l)

AnyHeadroom(percent) ==
  \E l \in Lane :
    ~IsThrottled(l) /\ (cap[l] = 0 \/ 100 * Remaining(l) > percent * cap[l])

(* best_subscription_lane: known headroom first, most of it; then lanes of *)
(* unknown headroom; then empty ones; among equals the enum's first.       *)
Tier(l) == IF cap[l] = 0 THEN 1 ELSE IF Remaining(l) = 0 THEN 0 ELSE 2

Better(k, l) ==
  \/ Tier(k) > Tier(l)
  \/ Tier(k) = 2 /\ Tier(l) = 2 /\ Remaining(k) * cap[l] > Remaining(l) * cap[k]

BestLanes ==
  LET open == {l \in Lane : ~IsThrottled(l)}
      best == {l \in open : \A k \in open : ~Better(k, l)}
  IN  {l \in best : \A k \in best : Order[l] <= Order[k]}

-----------------------------------------------------------------------------
(* Writes. *)

RecordUsage(l, tokens) ==
  /\ TokensUsed(l) + tokens <= MaxUsed
  /\ used' = [used EXCEPT ![l][0] = @ + tokens]
  /\ UNCHANGED <<cap, resetIn, reported>>

RecordRateLimit(l, delay) ==
  /\ resetIn' = [resetIn EXCEPT ![l] = delay]
  /\ UNCHANGED <<cap, used, reported>>

(* A reset header counts only next to a remaining count of zero. *)
ApplyHeaders(l, h) ==
  /\ cap' = IF h.limit \in {Unset, 0} THEN cap ELSE [cap EXCEPT ![l] = h.limit]
  /\ reported' = IF h.remaining = Unset THEN reported
                 ELSE [reported EXCEPT ![l] = h.remaining]
  /\ resetIn' = IF h.retryAfter \notin {Unset, 0}
                THEN [resetIn EXCEPT ![l] = h.retryAfter]
                ELSE IF h.reset # Unset /\ h.remaining = 0
                THEN [resetIn EXCEPT ![l] = h.reset]
                ELSE resetIn
  /\ UNCHANGED used

ClearThrottle(l) ==
  /\ resetIn' = [resetIn EXCEPT ![l] = Unset]
  /\ reported' = [reported EXCEPT ![l] = Unset]
  /\ UNCHANGED <<cap, used>>

SetCap(l, tokens) ==
  /\ cap' = [cap EXCEPT ![l] = tokens]
  /\ UNCHANGED <<used, resetIn, reported>>

(* One second passes. *)
Second ==
  /\ used' = [l \in Lane |-> [a \in 0 .. Window - 1 |->
                IF a = 0 THEN 0 ELSE used[l][a - 1]]]
  /\ resetIn' = [l \in Lane |-> IF IsThrottled(l) THEN resetIn[l] - 1 ELSE resetIn[l]]
  /\ UNCHANGED <<cap, reported>>

Record ==
  \E l \in Lane :
    \/ \E n \in Amounts : RecordUsage(l, n)
    \/ \E d \in Delays : RecordRateLimit(l, d)
    \/ \E h \in Headers[l] : ApplyHeaders(l, h)
    \/ ClearThrottle(l)
    \/ \E c \in Caps[l] : SetCap(l, c)

=============================================================================
