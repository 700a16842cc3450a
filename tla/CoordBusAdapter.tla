--------------------------- MODULE CoordBusAdapter ---------------------------
(***************************************************************************)
(* The swarms' bridge to the coordination database                         *)
(* (claude_swarm/coord_bus_adapter.py): leases on areas and announcements, *)
(* over one lazy connection per swarm that is kept between calls.  The     *)
(* announcements go to the table that PostgresBus keeps.                   *)
(*                                                                         *)
(* A statement that fails leaves the connection in an aborted transaction: *)
(* the adapter never rolls back, so it stays "failed" until the server     *)
(* closes it.  The time left of a lease is counted in seconds of the       *)
(* server; expires_at is computed with the clock of the swarm.             *)
(***************************************************************************)
EXTENDS PostgresBus, Integers

CONSTANTS
  Swarm,          \* swarms with an adapter, named by their swarm_sender
  Area,           \* areas that may be claimed
  Lease,          \* timeout_s
  Skew,           \* how far the clock of each swarm is ahead of the server
  NoOwner         \* the area has no row

ASSUME AdapterAssumption ==
  /\ Swarm \cap Sender = {}
  /\ Lease \in Nat
  /\ Skew \in [Swarm -> Int]
  /\ NoOwner \notin Swarm

VARIABLES
  conn,       \* the adapter's connection
  claims,     \* coordination_claims
  won,        \* history: areas whose row the swarm wrote, not yet expired
  alive       \* the swarm's process runs

claimVars == <<conn, claims, won, alive>>
vars == <<busVars, claimVars>>

NoClaim == [owner |-> NoOwner, left |-> -1]

Init ==
  /\ BusInit
  /\ conn = [s \in Swarm |-> "none"]
  /\ claims = [a \in Area |-> NoClaim]
  /\ won = [s \in Swarm |-> {}]
  /\ alive = [s \in Swarm |-> TRUE]

-----------------------------------------------------------------------------
(* _get_conn: the connection there is, or a new one; or the bus cannot be  *)
(* reached.                                                                *)
GetConn(s) == IF conn[s] = "none" THEN {"none", "ready"} ELSE {conn[s]}

SetConn(s, new) == conn' = [conn EXCEPT ![s] = new]

(* What an exception leaves behind: a lost connection is noticed and       *)
(* counts as closed, any other is in an aborted transaction.               *)
AfterError(c) == IF c = "lost" THEN "none" ELSE "failed"

(* expires_at < NOW() *)
Expired(a) == claims[a].left < 0

(* mutant: the upsert has no WHERE clause *)
UpsertAlways(s, a) == [owner |-> s, left |-> Lease + Skew[s]]

(* mutant: ON CONFLICT DO NOTHING *)
UpsertNothing(s, a) ==
  IF claims[a].owner = NoOwner THEN [owner |-> s, left |-> Lease + Skew[s]] ELSE claims[a]

(* INSERT ... ON CONFLICT DO UPDATE ... WHERE the old lease has expired. *)
Upsert(s, a) ==
  IF claims[a].owner = NoOwner \/ Expired(a)
  THEN [owner |-> s, left |-> Lease + Skew[s]] ELSE claims[a]

(* No connection: nothing is asked and the answer is True. *)
ClaimUnasked(s, a) ==
  /\ "none" \in GetConn(s)
  /\ UNCHANGED <<conn, claims, won>>

(* The statement ran and was committed: True, whoever owns the row now. *)
ClaimAsked(s, a) ==
  /\ "ready" \in GetConn(s)
  /\ SetConn(s, "ready")
  /\ claims' = [claims EXCEPT ![a] = Upsert(s, a)]
  /\ won' = IF claims'[a] # claims[a] /\ ~(claims'[a].left < 0)
            THEN [won EXCEPT ![s] = @ \cup {a}] ELSE won

(* The statement raised: False. *)
ClaimError(s, a) ==
  /\ \E c \in GetConn(s) \ {"none"} : SetConn(s, AfterError(c))
  /\ UNCHANGED <<claims, won>>

TryClaimArea(s, a) ==
  /\ alive[s]
  /\ \/ ClaimUnasked(s, a)
     \/ ClaimAsked(s, a)
     \/ ClaimError(s, a)
  /\ UNCHANGED <<busVars, alive>>

(* DELETE ... WHERE area and owner are these. *)
Freed(s, a) == IF claims[a].owner = s THEN [claims EXCEPT ![a] = NoClaim] ELSE claims

ReleaseArea(s, a) ==
  /\ alive[s]
  /\ won' = [won EXCEPT ![s] = @ \ {a}]
  /\ \/ "none" \in GetConn(s) /\ UNCHANGED <<conn, claims>>
     \/ "ready" \in GetConn(s) /\ SetConn(s, "ready") /\ claims' = Freed(s, a)
     \/ /\ \E c \in GetConn(s) \ {"none"} : SetConn(s, AfterError(c))
        /\ UNCHANGED claims
  /\ UNCHANGED <<busVars, alive>>

-----------------------------------------------------------------------------
(* announce_task_done and its siblings.                                    *)

(* The columns of coordination_messages. *)
TableColumns ==
  {"id", "created_at", "sender", "recipient", "msg_type", "task_ref", "branch",
   "pr_number", "summary", "payload", "status", "ack_of", "read_at", "acked_at"}

(* The columns that the adapter's INSERT and SELECT name. *)
SendColumns ==
  {"sender", "recipient", "type", "summary", "task_ref", "pr_number", "payload",
   "created_at", "read"}

RecentColumns == SendColumns \cup {"id"}

AddRow(r) ==
  /\ nextId <= MaxRows
  /\ rows' = rows \cup {NewRow(r)}
  /\ overtaken' = overtaken \cup Older(NewRow(r))
  /\ nextId' = nextId + 1
  /\ UNCHANGED <<txn, inHand, cursor, got, deaths>>

(* The INSERT and its commit, or an exception: a column that is not there, *)
(* a connection that is not sound, any other error.                        *)
PgSend(s, r) ==
  \E c \in GetConn(s) \ {"none"}, stored \in BOOLEAN :
    /\ stored => c = "ready" /\ SendColumns \subseteq TableColumns
    /\ IF stored THEN SetConn(s, "ready") /\ AddRow(r)
       ELSE SetConn(s, AfterError(c)) /\ UNCHANGED busVars

(* Without a connection: the other project's command line, which knows its *)
(* table.                                                                  *)
SubprocessSend(s, r) ==
  /\ "none" \in GetConn(s)
  /\ AddRow(r)
  /\ UNCHANGED conn

Announce(s, r) ==
  /\ alive[s]
  /\ PgSend(s, r) \/ SubprocessSend(s, r)
  /\ UNCHANGED <<claims, won, alive>>

RecentMessages(s) ==
  /\ alive[s]
  /\ \E c \in GetConn(s) \ {"none"}, fetched \in BOOLEAN :
       /\ fetched => c = "ready" /\ RecentColumns \subseteq TableColumns
       /\ SetConn(s, IF fetched THEN "ready" ELSE AfterError(c))
  /\ UNCHANGED <<busVars, claims, won, alive>>

(* is_active: the connection, and no statement on it. *)
IsActive(s) ==
  /\ alive[s]
  /\ conn' \in {[conn EXCEPT ![s] = c] : c \in GetConn(s)}
  /\ UNCHANGED <<busVars, claims, won, alive>>

-----------------------------------------------------------------------------
(* The environment. *)

(* The server closes the connection; the swarm notices on its next use. *)
Lose(s) ==
  /\ conn[s] \in {"ready", "failed"}
  /\ SetConn(s, "lost")
  /\ UNCHANGED <<busVars, claims, won, alive>>

Die(s) ==
  /\ alive[s]
  /\ alive' = [alive EXCEPT ![s] = FALSE]
  /\ SetConn(s, "none")
  /\ UNCHANGED <<busVars, claims, won>>

(* A second passes; a lease that runs out may now be taken over. *)
Tick ==
  /\ claims' = [a \in Area |-> IF Expired(a) THEN claims[a]
                               ELSE [claims[a] EXCEPT !.left = @ - 1]]
  /\ won' = [s \in Swarm |-> {a \in won[s] : claims'[a].left >= 0}]
  /\ UNCHANGED <<busVars, conn, alive>>

Bus == BusNext /\ UNCHANGED claimVars

Next ==
  \/ \E s \in Swarm, a \in Area : TryClaimArea(s, a) \/ ReleaseArea(s, a)
  \/ \E s \in Swarm, r \in Reader \cup {"all"} : Announce(s, r)
  \/ \E s \in Swarm : RecentMessages(s) \/ IsActive(s) \/ Lose(s) \/ Die(s)
  \/ Tick
  \/ Bus

Spec == Init /\ [][Next]_vars

(* A claim whose statement runs. *)
ClaimRuns(s, a) == alive[s] /\ ClaimAsked(s, a) /\ UNCHANGED <<busVars, alive>>

(* Time passes and readers read.  A swarm that works in an area asks for   *)
(* it before each piece of work, whatever state its connection is in; and  *)
(* where the statement may run time and again, it does not fail each time. *)
FairSpec ==
  /\ Spec
  /\ ReadersFair
  /\ WF_vars(Tick)
  /\ \A s \in Swarm, a \in Area :
       WF_vars(TryClaimArea(s, a)) /\ SF_vars(ClaimRuns(s, a))

-----------------------------------------------------------------------------
TypeOK ==
  /\ BusTypeOK
  /\ conn \in [Swarm -> {"none", "ready", "failed", "lost"}]
  /\ claims \in [Area -> [owner : Swarm \cup {NoOwner}, left : Int]]
  /\ alive \in [Swarm -> BOOLEAN]

(* coord_bus_adapter.py:408-410: a swarm that really got an area keeps it  *)
(* until its lease has run out or it lets go: no other swarm takes it over *)
(* or releases it, whatever clocks and connections do.                     *)
WonIsKept == \A s \in Swarm : \A a \in won[s] : claims[a].owner = s

LeftAlone(s) == alive[s] /\ \A o \in Swarm \ {s} : ~alive[o]

(* coord_bus_adapter.py:408-410: a swarm that died does not keep an area   *)
(* for ever: one that is left alone gets it, however often its connection  *)
(* is lost and made again, unless a failed statement spoils that.          *)
DeadOwnerIsReplaced ==
  \A s \in Swarm, a \in Area :
    <>[](LeftAlone(s) /\ conn[s] # "failed") => []<>(claims[a].owner = s)

(* coord_bus_adapter.py:409-410: after the lease "the claim expires and    *)
(* another agent may take it": a swarm that is left alone gets an area     *)
(* again, whatever became of its earlier statements.                       *)
AreaIsFreedForOthers ==
  \A s \in Swarm, a \in Area :
    <>[]LeftAlone(s) => []<>(claims[a].owner = s)

=============================================================================
