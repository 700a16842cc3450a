----------------------------- MODULE PostgresBus -----------------------------
(***************************************************************************)
(* The delegation bus over a Postgres table (claude_swarm/postgres_bus.py).*)
(* Each call is one transaction on a connection of its own.  An id is      *)
(* drawn when the INSERT runs and the row becomes visible when it commits, *)
(* so rows may appear in another order than their ids.                     *)
(*                                                                         *)
(* A reader either polls for unread rows and marks them read, or polls     *)
(* with since_id, the highest id it has been given so far; the latter also *)
(* leaves out rows already read, unless it asks for them.                  *)
(***************************************************************************)
EXTENDS Naturals, FiniteSets, FiniteSetsExt

CONSTANTS
  Sender,         \* participants that send with this bus
  Writer,         \* other participants, known to the CHECK constraints
  Reader,         \* participants that poll for unread rows
  CursorReader,   \* participants that poll with since_id
  Lane,           \* recipients without a reader, such as "agent:codex"
  Limit,          \* the limit of a poll
  NoMessage,      \* no row in hand
  MaxRows,        \* bound: ids ever drawn
  MaxDeaths       \* bound: deaths of readers

ASSUME PostgresBusAssumption ==
  /\ Reader \cap CursorReader = {}
  /\ Limit \in Nat \ {0}
  /\ MaxRows \in Nat /\ MaxDeaths \in Nat

VARIABLES
  rows,       \* committed rows
  txn,        \* the row each sender has inserted and not committed
  nextId,     \* the sequence behind BIGSERIAL
  inHand,     \* ids a reader was given and has not marked
  cursor,     \* since_id of each cursor reader
  got,        \* history: ids each reader marked or, with since_id, was given
  overtaken,  \* history: ids still uncommitted when a higher one committed
  deaths      \* deaths of readers so far

busVars == <<rows, txn, nextId, inHand, cursor, got, overtaken, deaths>>

AnyReader == Reader \cup CursorReader

Participant == Sender \cup Writer \cup AnyReader \cup {"all"}

(* The columns that no query here filters on are left out. *)
Row == [id : 1 .. MaxRows, recipient : Participant, unread : BOOLEAN]

BusInit ==
  /\ rows = {}
  /\ txn = [p \in Sender |-> NoMessage]
  /\ nextId = 1
  /\ inHand = [q \in AnyReader |-> {}]
  /\ cursor = [q \in AnyReader |-> 0]
  /\ got = [q \in AnyReader |-> {}]
  /\ overtaken = {}
  /\ deaths = 0

-----------------------------------------------------------------------------
(* send: the INSERT, then the commit when the with block ends. *)

(* validate_send lets "*" and class lanes pass; "*" is stored as "all". *)
Valid(r) == r \in Participant \cup Lane \cup {"*"}

Stored(r) == IF r = "*" THEN "all" ELSE r

(* The CHECK constraints know the participants' names only. *)
CheckAccepts(r) == r \in Participant

NewRow(r) == [id |-> nextId, recipient |-> r, unread |-> TRUE]

(* A row that the CHECK refuses has drawn an id all the same. *)
Insert(p, r) ==
  /\ txn[p] = NoMessage
  /\ nextId <= MaxRows
  /\ Valid(r)
  /\ nextId' = nextId + 1
  /\ txn' = IF CheckAccepts(Stored(r))
            THEN [txn EXCEPT ![p] = NewRow(Stored(r))]
            ELSE txn
  /\ UNCHANGED <<rows, inHand, cursor, got, overtaken, deaths>>

Older(m) == {txn[o].id : o \in {o \in Sender : txn[o] # NoMessage}} \cap 1 .. m.id - 1

Commit(p) ==
  /\ txn[p] # NoMessage
  /\ rows' = rows \cup {txn[p]}
  /\ overtaken' = overtaken \cup Older(txn[p])
  /\ txn' = [txn EXCEPT ![p] = NoMessage]
  /\ UNCHANGED <<nextId, inHand, cursor, got, deaths>>

(* The connection breaks before the commit: the row is gone. *)
Rollback(p) ==
  /\ txn[p] # NoMessage
  /\ txn' = [txn EXCEPT ![p] = NoMessage]
  /\ UNCHANGED <<rows, nextId, inHand, cursor, got, overtaken, deaths>>

-----------------------------------------------------------------------------
(* poll: the rows for a recipient and those of the lane "all", by id. *)

AddressedTo(q) == {m \in rows : m.recipient \in {q, "all"}}

(* mutant: ORDER BY id DESC *)
NewestFirst(S) == {m \in S : Cardinality({o \in S : o.id > m.id}) < Limit}

(* ORDER BY id ASC LIMIT: those with fewer than Limit rows before them. *)
Page(S) == {m \in S : Cardinality({o \in S : o.id < m.id}) < Limit}

Ids(S) == {m.id : m \in S}

(* mutant: what is handed out counts as read at once *)
PollMarks(q) ==
  /\ inHand[q] = {}
  /\ LET page == Page({m \in AddressedTo(q) : m.unread})
     IN /\ page # {}
        /\ inHand' = [inHand EXCEPT ![q] = Ids(page)]
        /\ rows' = (rows \ page) \cup {[m EXCEPT !.unread = FALSE] : m \in page}
  /\ UNCHANGED <<txn, nextId, cursor, got, overtaken, deaths>>

PollUnread(q) ==
  /\ inHand[q] = {}
  /\ LET page == Page({m \in AddressedTo(q) : m.unread})
     IN /\ page # {}
        /\ inHand' = [inHand EXCEPT ![q] = Ids(page)]
  /\ UNCHANGED <<rows, txn, nextId, cursor, got, overtaken, deaths>>

(* unread_only is on unless the caller turns it off, with since_id too: a  *)
(* row of the lane "all" that another reader marked is then passed over.   *)
PollSince(q) ==
  /\ \E unreadOnly \in BOOLEAN :
       LET page == Page({m \in AddressedTo(q) :
                           (unreadOnly => m.unread) /\ m.id > cursor[q]})
       IN /\ page # {}
          /\ cursor' = [cursor EXCEPT ![q] = Max(Ids(page))]
          /\ got' = [got EXCEPT ![q] = @ \cup Ids(page)]
  /\ UNCHANGED <<rows, txn, nextId, inHand, overtaken, deaths>>

(* mark_read: a row of the lane "all" is read for everyone. *)
MarkRead(q) ==
  /\ inHand[q] # {}
  /\ rows' = {IF m.id \in inHand[q] THEN [m EXCEPT !.unread = FALSE] ELSE m : m \in rows}
  /\ got' = [got EXCEPT ![q] = @ \cup inHand[q]]
  /\ inHand' = [inHand EXCEPT ![q] = {}]
  /\ UNCHANGED <<txn, nextId, cursor, overtaken, deaths>>

(* A reader dies between poll and mark_read and polls again. *)
ReaderDies(q) ==
  /\ inHand[q] # {}
  /\ deaths < MaxDeaths
  /\ deaths' = deaths + 1
  /\ inHand' = [inHand EXCEPT ![q] = {}]
  /\ UNCHANGED <<rows, txn, nextId, cursor, got, overtaken>>

Send(p) ==
  \/ \E r \in Reader \cup CursorReader \cup Lane \cup {"*"} : Insert(p, r)
  \/ Commit(p)
  \/ Rollback(p)

Read ==
  \/ \E q \in Reader : PollUnread(q) \/ MarkRead(q) \/ ReaderDies(q)
  \/ \E q \in CursorReader : PollSince(q)

BusNext == Read \/ \E p \in Sender : Send(p)

(* A reader polls again and again and marks what it was given. *)
ReadersFair ==
  \A q \in Reader : WF_busVars(PollUnread(q)) /\ WF_busVars(MarkRead(q))

Posted(id, r) == \E m \in rows : m.id = id /\ m.recipient = r

-----------------------------------------------------------------------------
BusTypeOK ==
  /\ rows \subseteq Row
  /\ txn \in [Sender -> Row \cup {NoMessage}]
  /\ nextId \in 1 .. MaxRows + 1
  /\ inHand \in [AnyReader -> SUBSET (1 .. MaxRows)]
  /\ cursor \in [AnyReader -> 0 .. MaxRows]
  /\ got \in [AnyReader -> SUBSET (1 .. MaxRows)]

(* postgres_bus.py:336-339: a reader that moves since_id to the highest id *)
(* it was given has been given every row below, except those that          *)
(* committed after a row with a higher id and those of the lane "all" that *)
(* another reader had marked: a row sent to it alone is never marked for   *)
(* it.                                                                     *)
CursorSkipsOnlyLateOrRead ==
  \A q \in CursorReader : \A m \in AddressedTo(q) :
    m.id <= cursor[q] =>
      \/ m.id \in got[q] \cup overtaken
      \/ m.recipient = "all" /\ ~m.unread

(* postgres_bus.py:329-340, 418-431: a committed row is dealt with by the  *)
(* reader it is addressed to, which polled it and lived to mark it; a      *)
(* death with rows in hand only delays that.  One in the lane "all" is     *)
(* dealt with by some reader.                                              *)
MessageIsRead ==
  \A m \in 1 .. MaxRows :
    /\ \A q \in Reader : Posted(m, q) ~> (m \in got[q])
    /\ Posted(m, "all") ~> (\E q \in Reader : m \in got[q])

=============================================================================
