----------------------------- MODULE CoordProofs ----------------------------
(***************************************************************************)
(* The leases of the coordination database and the cursor of its message   *)
(* table, for any number of swarms, areas, senders and readers, any skew   *)
(* of the swarms' clocks and any lease.                                    *)
(***************************************************************************)
EXTENDS CoordBusAdapter, FiniteSetTheorems, WellFoundedInduction, TLAPS

(* A step, as the message table sees it: the adapter only adds rows. *)
BusView ==
  \/ UNCHANGED busVars
  \/ Read
  \/ \E p \in Sender : Send(p)
  \/ \E r \in Participant : AddRow(r)

(* A step, as the leases see it. *)
LeaseView ==
  \/ UNCHANGED <<claims, won>>
  \/ Tick
  \/ \E s \in Swarm, a \in Area : TryClaimArea(s, a) \/ ReleaseArea(s, a)

(* Every step is one of the steps the table and the leases know.           *)
LEMMA Views == [Next]_vars => BusView /\ LeaseView
<1> SUFFICES ASSUME [Next]_vars PROVE BusView /\ LeaseView
  OBVIOUS
<1>1. ASSUME NEW s \in Swarm, NEW a \in Area, TryClaimArea(s, a) \/ ReleaseArea(s, a)
      PROVE  BusView /\ LeaseView
  BY <1>1 DEF TryClaimArea, ReleaseArea, BusView, LeaseView
<1>2. ASSUME NEW s \in Swarm, NEW r \in Reader \cup {"all"}, Announce(s, r)
      PROVE  BusView /\ LeaseView
  BY <1>2
  DEF Announce, PgSend, SubprocessSend, Participant, AnyReader, BusView, LeaseView
<1>3. ASSUME NEW s \in Swarm, RecentMessages(s) \/ IsActive(s) \/ Lose(s) \/ Die(s)
      PROVE  BusView /\ LeaseView
  BY <1>3 DEF RecentMessages, IsActive, Lose, Die, BusView, LeaseView
<1>4. CASE Tick
  BY <1>4 DEF Tick, BusView, LeaseView
<1>5. CASE Bus
  BY <1>5 DEF Bus, BusNext, claimVars, BusView, LeaseView
<1>6. CASE UNCHANGED vars
  BY <1>6 DEF vars, claimVars, BusView, LeaseView
<1> QED
  BY <1>1, <1>2, <1>3, <1>4, <1>5, <1>6 DEF Next

-----------------------------------------------------------------------------
(* The lease behind an area that was won has not run out. *)
LeaseInv ==
  /\ claims \in [Area -> [owner : Swarm \cup {NoOwner}, left : Int]]
  /\ won \in [Swarm -> SUBSET Area]
  /\ \A s \in Swarm : \A a \in won[s] : claims[a].owner = s /\ claims[a].left >= 0

(* The WHERE clause of the upsert lets nobody into a lease that runs.      *)
LEMMA ClaimStep ==
  ASSUME LeaseInv, NEW s \in Swarm, NEW a \in Area, TryClaimArea(s, a)
  PROVE  LeaseInv'
<1>1. CASE UNCHANGED <<claims, won>>
  BY <1>1 DEF LeaseInv
<1>2. CASE ClaimAsked(s, a)
  <2>1. /\ claims' = [claims EXCEPT ![a] = Upsert(s, a)]
        /\ Upsert(s, a) \in [owner : Swarm \cup {NoOwner}, left : Int]
    BY <1>2, AdapterAssumption DEF ClaimAsked, Upsert, LeaseInv
  <2>2. CASE claims[a].owner = NoOwner \/ Expired(a)
    <3>1. claims'[a] = [owner |-> s, left |-> Lease + Skew[s]]
      BY <2>1, <2>2 DEF Upsert, LeaseInv
    <3>2. \A r \in Swarm : a \notin won[r]
      BY <2>2, AdapterAssumption DEF Expired, LeaseInv
    <3>3. \/ won' = won
          \/ won' = [won EXCEPT ![s] = @ \cup {a}] /\ ~(claims'[a].left < 0)
      BY <1>2 DEF ClaimAsked
    <3>4. Lease + Skew[s] \in Int
      BY AdapterAssumption
    <3>5. \A b \in Area \ {a} : claims'[b] = claims[b]
      BY <2>1 DEF LeaseInv
    <3> QED
      BY <2>1, <3>1, <3>2, <3>3, <3>4, <3>5 DEF LeaseInv
  <2>3. CASE ~(claims[a].owner = NoOwner \/ Expired(a))
    <3>1. claims' = claims
      BY <2>1, <2>3 DEF Upsert, LeaseInv
    <3>2. won' = won
      BY <1>2, <3>1 DEF ClaimAsked
    <3> QED
      BY <3>1, <3>2 DEF LeaseInv
  <2> QED
    BY <2>2, <2>3
<1> QED
  BY <1>1, <1>2 DEF TryClaimArea, ClaimUnasked, ClaimError

(* A release deletes the swarm's own row, or nothing.                      *)
LEMMA ReleaseStep ==
  ASSUME LeaseInv, NEW s \in Swarm, NEW a \in Area, ReleaseArea(s, a)
  PROVE  LeaseInv'
<1>1. won' = [won EXCEPT ![s] = @ \ {a}]
  BY DEF ReleaseArea
<1>2. CASE claims' = claims
  BY <1>1, <1>2 DEF LeaseInv
<1>3. CASE claims[a].owner = s /\ claims' = [claims EXCEPT ![a] = NoClaim]
  <2>1. \A r \in Swarm : a \notin won'[r]
    BY <1>1, <1>3 DEF LeaseInv
  <2>2. \A b \in Area \ {a} : claims'[b] = claims[b]
    BY <1>3 DEF LeaseInv
  <2> QED
    BY <1>1, <1>3, <2>1, <2>2 DEF LeaseInv, NoClaim
<1> QED
  BY <1>2, <1>3 DEF ReleaseArea, Freed

(* coord_bus_adapter.py:408-410: a swarm that really got an area keeps it  *)
(* until its lease has run out or it lets go, whatever the clocks of the   *)
(* swarms and whatever becomes of their connections.                       *)
THEOREM LeasesHold == Spec => []WonIsKept
<1>1. Init => LeaseInv
  BY DEF Init, LeaseInv, NoClaim
<1>2. LeaseInv /\ [Next]_vars => LeaseInv'
  <2> SUFFICES ASSUME LeaseInv, [Next]_vars PROVE LeaseInv'
    OBVIOUS
  <2>1. CASE UNCHANGED <<claims, won>>
    BY <2>1 DEF LeaseInv
  <2>2. CASE Tick
    BY <2>2 DEF Tick, Expired, LeaseInv
  <2> QED
    BY <2>1, <2>2, Views, ClaimStep, ReleaseStep DEF LeaseView
<1>3. LeaseInv => WonIsKept
  BY DEF LeaseInv, WonIsKept
<1> QED
  BY <1>1, <1>2, <1>3, PTL DEF Spec

-----------------------------------------------------------------------------
(* The ids of rows are drawn once each; a cursor stands on a row; a row    *)
(* behind a higher one that is not committed yet counts as overtaken.      *)
BusInv ==
  /\ BusTypeOK
  /\ IsFiniteSet(rows)
  /\ \A m \in rows : m.id < nextId
  /\ \A p \in Sender : txn[p] # NoMessage =>
       /\ txn[p].id < nextId
       /\ txn[p].id \notin Ids(rows)
       /\ \A o \in Sender \ {p} : txn[o] # NoMessage => txn[o].id # txn[p].id
       /\ \A m \in rows : m.id > txn[p].id => txn[p].id \in overtaken
  /\ \A q \in CursorReader : cursor[q] = 0 \/ cursor[q] \in Ids(rows)
  /\ CursorSkipsOnlyLateOrRead

(* Ids name rows.  A row in hand is one its reader was sent, alone or with *)
(* all; only such rows are marked.                                         *)
MarkInv ==
  /\ \A m, n \in rows : m.id = n.id => m = n
  /\ \A q \in Reader : inHand[q] \subseteq Ids(rows)
  /\ \A m \in rows : \A q \in Reader : m.id \in inHand[q] => m.recipient \in {q, "all"}
  /\ \A m \in rows : ~ m.unread => m.recipient \in Reader \cup {"all"}
  /\ \A p \in Sender : txn[p] # NoMessage => txn[p].unread

(* A set of ids that is not empty has a highest one, and Max is that.      *)
LEMMA MaxIsHighest ==
  ASSUME NEW S \in SUBSET (1 .. MaxRows), S # {}
  PROVE  Max(S) \in S /\ \A x \in S : x <= Max(S)
<1> DEFINE Above == {MaxRows - x : x \in S}
           Below == {p \in Nat \X Nat : p[1] < p[2]}
<1>0. MaxRows \in Nat /\ \A y \in S : y \in Nat /\ y <= MaxRows
  BY PostgresBusAssumption
<1>1. Above \subseteq Nat /\ Above # {}
  <2>1. ASSUME NEW y \in S PROVE MaxRows - y \in Nat
    BY <1>0
  <2> QED
    BY <2>1
<1>2. IsWellFoundedOn(Below, Nat)
  BY NatLessThanWellFounded, Zenon DEF OpToRel
<1>3. PICK d \in Above : \A e \in Above : <<e, d>> \notin Below
  <2> HIDE DEF Above, Below
  <2> QED
    BY <1>1, <1>2, WFMin
<1>4. \A e \in Above : ~ (e < d)
  BY <1>1, <1>3
<1>5. PICK x \in S : d = MaxRows - x
  OBVIOUS
<1>6. \A y \in S : x >= y
  <2> TAKE y \in S
  <2>1. ~ (MaxRows - y < MaxRows - x)
    BY <1>4, <1>5
  <2> QED
    BY <1>0, <2>1
<1>7. Max(S) \in S /\ \A y \in S : Max(S) >= y
  BY <1>6 DEF Max
<1> QED
  BY <1>7

(* A page holds every row of the query that comes before one of its own.   *)
LEMMA PageSkipsNothing ==
  ASSUME IsFiniteSet(rows), rows \subseteq Row, NEW S \in SUBSET rows,
         NEW o \in Page(S), NEW m \in S, m.id <= o.id
  PROVE  m \in Page(S)
<1> DEFINE Before(x) == {y \in S : y.id < x.id}
<1>1. \A y \in rows : y.id \in Nat
  BY DEF Row
<1>2. o \in S /\ Cardinality(Before(o)) < Limit
  BY DEF Page
<1>3. Before(m) \in SUBSET Before(o)
  BY <1>1, <1>2
<1>4. IsFiniteSet(Before(o)) /\ IsFiniteSet(Before(m))
  BY FS_Subset
<1>5. Cardinality(Before(m)) <= Cardinality(Before(o))
  BY <1>3, <1>4, FS_Subset
<1>6. Cardinality(Before(m)) \in Nat /\ Cardinality(Before(o)) \in Nat
  BY <1>4, FS_CardinalityType
<1>7. Cardinality(Before(m)) < Limit
  BY <1>2, <1>5, <1>6, PostgresBusAssumption
<1> QED
  BY <1>7 DEF Page

(* A row that commits fills its place in the order of ids: the cursors     *)
(* that are past it went past a row that counts as overtaken.              *)
LEMMA CommitStep ==
  ASSUME BusInv, NEW p \in Sender, Commit(p)
  PROVE  BusInv'
<1> DEFINE row == txn[p]
<1>1. /\ row \in Row /\ row.id \in Nat /\ row.id < nextId
      /\ rows' = rows \cup {row} /\ IsFiniteSet(rows')
      /\ txn' = [txn EXCEPT ![p] = NoMessage]
      /\ overtaken \subseteq overtaken'
      /\ UNCHANGED <<nextId, inHand, cursor, got, deaths>>
  BY FS_AddElement DEF Commit, BusInv, BusTypeOK, Row
<1>2. BusTypeOK' /\ \A m \in rows' : m.id < nextId'
  BY <1>1 DEF BusInv, BusTypeOK
<1>3. Ids(rows') = Ids(rows) \cup {row.id}
  BY <1>1 DEF Ids
<1>4. ASSUME NEW o \in Sender, txn'[o] # NoMessage
      PROVE  /\ txn'[o].id < nextId'
             /\ txn'[o].id \notin Ids(rows')
             /\ \A q \in Sender \ {o} : txn'[q] # NoMessage => txn'[q].id # txn'[o].id
             /\ \A m \in rows' : m.id > txn'[o].id => txn'[o].id \in overtaken'
  <2>1. /\ o # p /\ txn'[o] = txn[o] /\ txn[o] # NoMessage
        /\ txn[o] \in Row /\ txn[o].id \in 1 .. MaxRows
    BY <1>1, <1>4 DEF BusInv, BusTypeOK, Row
  <2>2. txn[o].id # row.id /\ \A q \in Sender : txn'[q] = NoMessage \/ txn'[q] = txn[q]
    BY <1>1, <2>1 DEF BusInv, BusTypeOK, Commit
  <2>3. row.id > txn[o].id => txn[o].id \in overtaken'
    <3>1. row.id > txn[o].id => txn[o].id \in 1 .. row.id - 1
      BY <1>1, <2>1, PostgresBusAssumption
    <3>2. txn[o].id \in {txn[q].id : q \in {q \in Sender : txn[q] # NoMessage}}
      BY <2>1
    <3> QED
      BY <3>1, <3>2 DEF Commit, Older
  <2>4. /\ txn[o].id < nextId
        /\ txn[o].id \notin Ids(rows)
        /\ \A m \in rows : m.id > txn[o].id => txn[o].id \in overtaken
        /\ \A q \in Sender \ {o} : txn[q] # NoMessage => txn[q].id # txn[o].id
    BY <2>1 DEF BusInv
  <2>5. txn'[o].id \notin Ids(rows')
    BY <1>3, <2>1, <2>2, <2>4
  <2>6. \A q \in Sender \ {o} : txn'[q] # NoMessage => txn'[q].id # txn'[o].id
    BY <2>1, <2>2, <2>4
  <2>7. \A m \in rows' : m.id > txn'[o].id => txn'[o].id \in overtaken'
    BY <1>1, <2>1, <2>3, <2>4
  <2> QED
    BY <1>1, <2>1, <2>4, <2>5, <2>6, <2>7
<1>5. \A q \in CursorReader : cursor'[q] = 0 \/ cursor'[q] \in Ids(rows')
  BY <1>1, <1>3 DEF BusInv
<1>6. ASSUME NEW q \in CursorReader, row.id <= cursor[q]
      PROVE  row.id \in overtaken
  <2>1. row.id # 0 /\ row.id \notin Ids(rows) /\ cursor[q] \in Nat
    BY <1>1, PostgresBusAssumption DEF Commit, BusInv, BusTypeOK, Row, AnyReader
  <2>2. PICK m \in rows : m.id = cursor[q]
    BY <1>1, <1>6, <2>1 DEF BusInv, Ids
  <2>3. m.id > row.id
    BY <1>1, <1>6, <2>1, <2>2 DEF Ids
  <2> QED
    BY <2>3 DEF Commit, BusInv
<1>7. CursorSkipsOnlyLateOrRead'
  BY <1>1, <1>6 DEF BusInv, CursorSkipsOnlyLateOrRead, AddressedTo
<1> QED
  BY <1>1, <1>2, <1>4, <1>5, <1>7 DEF BusInv

(* A row of the adapter is inserted and committed at once: its id is above *)
(* all others, and overtakes the rows that are not committed yet.          *)
LEMMA AddRowStep ==
  ASSUME BusInv, NEW r \in Participant, AddRow(r)
  PROVE  BusInv'
<1> DEFINE row == NewRow(r)
<1>1. /\ row \in Row /\ row.id = nextId /\ nextId \in Nat \ {0}
      /\ rows' = rows \cup {row} /\ IsFiniteSet(rows')
      /\ nextId' = nextId + 1 /\ nextId' \in 1 .. MaxRows + 1
      /\ overtaken \subseteq overtaken'
      /\ UNCHANGED <<txn, inHand, cursor, got, deaths>>
  <2>1. nextId \in 1 .. MaxRows
    BY PostgresBusAssumption DEF AddRow, BusInv, BusTypeOK
  <2>2. row \in Row /\ row.id = nextId
    BY <2>1 DEF NewRow, Row
  <2>3. IsFiniteSet(rows \cup {row})
    BY FS_AddElement DEF BusInv
  <2> QED
    BY <2>1, <2>2, <2>3, PostgresBusAssumption DEF AddRow
<1>2. \A m \in rows : m.id \in Nat /\ m.id < nextId
  BY DEF BusInv, BusTypeOK, Row
<1>3. BusTypeOK' /\ \A m \in rows' : m.id < nextId'
  BY <1>1, <1>2 DEF BusInv, BusTypeOK
<1>4. Ids(rows') = Ids(rows) \cup {nextId}
  BY <1>1 DEF Ids
<1>5. ASSUME NEW o \in Sender, txn[o] # NoMessage
      PROVE  /\ txn[o].id < nextId'
             /\ txn[o].id \notin Ids(rows')
             /\ txn[o].id \in overtaken'
  <2>1. txn[o].id \in 1 .. MaxRows /\ txn[o].id < nextId
    BY <1>5 DEF BusInv, BusTypeOK, Row
  <2>2. txn[o].id \in overtaken'
    <3>1. txn[o].id \in 1 .. row.id - 1
      BY <1>1, <2>1, PostgresBusAssumption
    <3>2. txn[o].id \in {txn[q].id : q \in {q \in Sender : txn[q] # NoMessage}}
      BY <1>5
    <3> QED
      BY <3>1, <3>2 DEF AddRow, Older
  <2> QED
    <3>1. txn[o].id < nextId' /\ txn[o].id # nextId
      BY <1>1, <2>1, PostgresBusAssumption
    <3>2. txn[o].id \notin Ids(rows)
      BY <1>5 DEF BusInv
    <3> QED
      BY <1>4, <2>2, <3>1, <3>2
<1>6. ASSUME NEW q \in CursorReader
      PROVE  cursor[q] \in Nat /\ cursor[q] < nextId
  BY <1>1, <1>2, PostgresBusAssumption DEF BusInv, BusTypeOK, AnyReader, Ids
<1>7. CursorSkipsOnlyLateOrRead'
  BY <1>1, <1>6 DEF BusInv, CursorSkipsOnlyLateOrRead, AddressedTo
<1> QED
  BY <1>1, <1>3, <1>4, <1>5, <1>7 DEF BusInv

(* An INSERT draws the next id, which no row and no transaction has.       *)
LEMMA InsertStep ==
  ASSUME BusInv, NEW p \in Sender, NEW r, Insert(p, r)
  PROVE  BusInv'
<1> USE PostgresBusAssumption
<1>1. /\ nextId \in 1 .. MaxRows /\ nextId' = nextId + 1
      /\ \A m \in rows : m.id \in Nat /\ m.id < nextId
      /\ \A o \in Sender : txn[o] # NoMessage => txn[o].id \in Nat /\ txn[o].id < nextId
      /\ UNCHANGED <<rows, inHand, cursor, got, overtaken, deaths>>
  BY DEF Insert, BusInv, BusTypeOK, Row
<1>2. CASE txn' = txn
  BY <1>1, <1>2 DEF BusInv, BusTypeOK, CursorSkipsOnlyLateOrRead, AddressedTo
<1>3. CASE CheckAccepts(Stored(r)) /\ txn' = [txn EXCEPT ![p] = NewRow(Stored(r))]
  <2>1. NewRow(Stored(r)) \in Row /\ NewRow(Stored(r)).id = nextId
    BY <1>1, <1>3 DEF CheckAccepts, NewRow, Row
  <2>2. BusTypeOK'
    BY <1>1, <1>3, <2>1 DEF BusInv, BusTypeOK
  <2>3. nextId \notin Ids(rows)
    BY <1>1 DEF Ids
  <2>4. txn'[p].id = nextId /\ \A o \in Sender \ {p} : txn'[o] = txn[o]
    BY <1>3, <2>1 DEF BusInv, BusTypeOK
  <2>5. ASSUME NEW o \in Sender, txn'[o] # NoMessage
        PROVE  /\ txn'[o].id < nextId'
               /\ txn'[o].id \notin Ids(rows)
               /\ \A q \in Sender \ {o} : txn'[q] # NoMessage => txn'[q].id # txn'[o].id
               /\ \A m \in rows : m.id > txn'[o].id => txn'[o].id \in overtaken
    BY <1>1, <2>3, <2>4, <2>5 DEF BusInv
  <2> QED
    BY <1>1, <2>2, <2>5 DEF BusInv, CursorSkipsOnlyLateOrRead, AddressedTo, Ids
<1> QED
  BY <1>2, <1>3 DEF Insert

(* The connection breaks: what was in hand is gone, what was overtaken     *)
(* stays so.                                                               *)
LEMMA RollbackStep ==
  ASSUME BusInv, NEW p \in Sender, Rollback(p)
  PROVE  BusInv'
<1>1. /\ txn' = [txn EXCEPT ![p] = NoMessage]
      /\ UNCHANGED <<rows, nextId, inHand, cursor, got, overtaken, deaths>>
  BY DEF Rollback
<1>2. \A o \in Sender : txn'[o] = NoMessage \/ txn'[o] = txn[o]
  BY <1>1 DEF BusInv, BusTypeOK
<1>3. BusTypeOK'
  BY <1>1 DEF BusInv, BusTypeOK
<1>4. CursorSkipsOnlyLateOrRead'
  BY <1>1 DEF BusInv, CursorSkipsOnlyLateOrRead, AddressedTo
<1> QED
  BY <1>1, <1>2, <1>3, <1>4 DEF BusInv, Ids

(* Marking rows, the only change to a row, leaves ids and recipients alone.*)
LEMMA MarkReadStep ==
  ASSUME BusInv, NEW q \in Reader, MarkRead(q)
  PROVE  BusInv'
<1> DEFINE Marked == [m \in rows |-> IF m.id \in inHand[q]
                                     THEN [m EXCEPT !.unread = FALSE] ELSE m]
<1>1. /\ rows' = {Marked[m] : m \in rows}
      /\ inHand' = [inHand EXCEPT ![q] = {}]
      /\ got' = [got EXCEPT ![q] = @ \cup inHand[q]]
      /\ UNCHANGED <<txn, nextId, cursor, overtaken, deaths>>
  BY DEF MarkRead
<1>2. \A m \in rows : /\ Marked[m] \in Row /\ Marked[m].id = m.id
                      /\ Marked[m].recipient = m.recipient
                      /\ ~ m.unread => ~ Marked[m].unread
  BY DEF BusInv, BusTypeOK, Row
<1>3. IsFiniteSet(rows')
  <2> HIDE DEF Marked
  <2>1. Marked \in Surjection(rows, rows')
    <3>1. Marked = [m \in rows |-> Marked[m]]
      BY DEF Marked
    <3> QED
      BY <1>1, <3>1 DEF Surjection
  <2> QED
    BY <2>1, FS_Surjection DEF BusInv
<1> HIDE DEF Marked
<1>4. BusTypeOK'
  <2>1. rows' \subseteq Row
    BY <1>1, <1>2
  <2>2. /\ inHand' \in [AnyReader -> SUBSET (1 .. MaxRows)]
        /\ got' \in [AnyReader -> SUBSET (1 .. MaxRows)]
    BY <1>1 DEF BusInv, BusTypeOK, AnyReader
  <2> QED
    BY <1>1, <2>1, <2>2 DEF BusInv, BusTypeOK
<1>5. /\ Ids(rows') = Ids(rows)
      /\ \A c \in CursorReader : got'[c] = got[c] /\ cursor'[c] = cursor[c]
  BY <1>1, <1>2, PostgresBusAssumption DEF Ids, BusInv, BusTypeOK, AnyReader
<1>6. CursorSkipsOnlyLateOrRead'
  <2> SUFFICES ASSUME NEW c \in CursorReader, NEW m \in rows,
                      Marked[m] \in AddressedTo(c)', Marked[m].id <= cursor[c]
               PROVE  \/ m.id \in got[c] \cup overtaken
                      \/ Marked[m].recipient = "all" /\ ~ Marked[m].unread
    BY <1>1, <1>2, <1>5 DEF CursorSkipsOnlyLateOrRead, AddressedTo
  <2>1. m \in AddressedTo(c) /\ m.id <= cursor[c]
    BY <1>2 DEF AddressedTo
  <2>2. \/ m.id \in got[c] \cup overtaken
        \/ m.recipient = "all" /\ ~ m.unread
    BY <2>1 DEF BusInv, CursorSkipsOnlyLateOrRead
  <2> QED
    BY <1>2, <2>2
<1>7. \A n \in rows' : \E m \in rows : n.id = m.id
  BY <1>1, <1>2
<1>8. \A n \in rows' : n.id < nextId
  BY <1>7 DEF BusInv
<1>9. \A p \in Sender : txn[p] # NoMessage =>
        \A n \in rows' : n.id > txn[p].id => txn[p].id \in overtaken
  BY <1>7 DEF BusInv
<1> QED
  BY <1>1, <1>3, <1>4, <1>5, <1>6, <1>8, <1>9 DEF BusInv

(* postgres_bus.py:336-339: the cursor moves to the end of a page, and the *)
(* page holds every row up to there, or every unread one.                  *)
LEMMA PollSinceStep ==
  ASSUME BusInv, MarkInv, NEW q \in CursorReader, PollSince(q)
  PROVE  BusInv'
<1>0. PICK unreadOnly \in BOOLEAN :
        LET page == Page({m \in AddressedTo(q) :
                            (unreadOnly => m.unread) /\ m.id > cursor[q]})
        IN /\ page # {}
           /\ cursor' = [cursor EXCEPT ![q] = Max(Ids(page))]
           /\ got' = [got EXCEPT ![q] = @ \cup Ids(page)]
  BY DEF PollSince
<1> DEFINE S == {m \in AddressedTo(q) : (unreadOnly => m.unread) /\ m.id > cursor[q]}
           page == Page(S)
           high == Max(Ids(page))
<1> HIDE DEF S
<1>1. /\ page # {}
      /\ cursor' = [cursor EXCEPT ![q] = high]
      /\ got' = [got EXCEPT ![q] = @ \cup Ids(page)]
      /\ UNCHANGED <<rows, txn, nextId, inHand, overtaken, deaths>>
  BY <1>0 DEF PollSince, S
<1>2. S \in SUBSET rows /\ page \subseteq S /\ rows \subseteq Row /\ IsFiniteSet(rows)
  BY DEF BusInv, BusTypeOK, AddressedTo, Page, S
<1>3. Ids(page) \in SUBSET (1 .. MaxRows) /\ Ids(page) # {} /\ Ids(page) \subseteq Ids(rows)
  <2> HIDE DEF page
  <2> QED
    BY <1>1, <1>2 DEF Ids, Row
<1>4. high \in Ids(page) /\ high \in 1 .. MaxRows
  BY <1>3, MaxIsHighest
<1>5. PICK o \in page : o.id = high
  BY <1>4 DEF Ids
<1> HIDE DEF page, high
<1>6. BusTypeOK'
  BY <1>1, <1>3, <1>4 DEF BusInv, BusTypeOK, AnyReader
<1>7. ASSUME NEW m \in AddressedTo(q), m.id <= high, ~ (m.id <= cursor[q]), m.unread
      PROVE  m.id \in Ids(page)
  <2>1. m \in rows /\ m.id \in Nat /\ cursor[q] \in Nat
    BY <1>2, PostgresBusAssumption DEF AddressedTo, Row, BusInv, BusTypeOK, AnyReader
  <2>2. m \in S
    BY <1>7, <2>1 DEF S
  <2>3. m \in page
    BY <1>2, <1>5, <1>7, <2>2, PageSkipsNothing DEF page
  <2> QED
    BY <2>3 DEF Ids
<1>8. \A c \in CursorReader : /\ cursor'[c] = IF c = q THEN high ELSE cursor[c]
                              /\ got'[c] = IF c = q THEN got[c] \cup Ids(page) ELSE got[c]
  BY <1>1 DEF BusInv, BusTypeOK, AnyReader
<1>9. CursorSkipsOnlyLateOrRead'
  <2> SUFFICES ASSUME NEW c \in CursorReader, NEW m \in AddressedTo(c), m.id <= cursor'[c]
               PROVE  \/ m.id \in got'[c] \cup overtaken
                      \/ m.recipient = "all" /\ ~ m.unread
    BY <1>1 DEF CursorSkipsOnlyLateOrRead, AddressedTo
  <2>1. CASE m.id <= cursor[c]
    BY <1>8, <2>1 DEF BusInv, CursorSkipsOnlyLateOrRead
  <2>2. CASE ~ (m.id <= cursor[c]) /\ m.unread
    BY <1>7, <1>8, <2>2
  <2>3. CASE ~ m.unread
    BY <2>3, PostgresBusAssumption DEF MarkInv, AddressedTo
  <2> QED
    BY <2>1, <2>2, <2>3
<1>10. \A c \in CursorReader : cursor'[c] = 0 \/ cursor'[c] \in Ids(rows)
  BY <1>3, <1>4, <1>8 DEF BusInv
<1> QED
  BY <1>1, <1>6, <1>9, <1>10 DEF BusInv, Ids

(* Until it marks, a reader without a cursor changes what it has in hand.  *)
LEMMA ReaderStep ==
  ASSUME BusInv, NEW q \in Reader, PollUnread(q) \/ ReaderDies(q)
  PROVE  BusInv'
<1>1. \A S \in SUBSET rows : Ids(Page(S)) \in SUBSET (1 .. MaxRows)
  <2> TAKE S \in SUBSET rows
  <2>1. Page(S) \subseteq rows
    BY DEF Page
  <2>2. \A m \in rows : m.id \in 1 .. MaxRows
    BY DEF BusInv, BusTypeOK, Row
  <2> HIDE DEF Page
  <2> QED
    BY <2>1, <2>2 DEF Ids
<1>2. /\ UNCHANGED <<rows, txn, nextId, cursor, got, overtaken>>
      /\ inHand' \in [AnyReader -> SUBSET (1 .. MaxRows)]
  <2>1. CASE ReaderDies(q)
    BY <2>1 DEF ReaderDies, BusInv, BusTypeOK
  <2>2. CASE PollUnread(q)
    <3> DEFINE page == Page({m \in AddressedTo(q) : m.unread})
    <3>1. Ids(page) \in SUBSET (1 .. MaxRows)
      BY <1>1 DEF AddressedTo
    <3>2. /\ inHand' = [inHand EXCEPT ![q] = Ids(page)]
          /\ UNCHANGED <<rows, txn, nextId, cursor, got, overtaken, deaths>>
      BY <2>2 DEF PollUnread
    <3> HIDE DEF page
    <3> QED
      BY <3>1, <3>2 DEF BusInv, BusTypeOK
  <2> QED
    BY <2>1, <2>2
<1>3. CursorSkipsOnlyLateOrRead'
  BY <1>2 DEF BusInv, CursorSkipsOnlyLateOrRead, AddressedTo
<1>4. BusTypeOK'
  BY <1>2 DEF BusInv, BusTypeOK
<1> QED
  BY <1>2, <1>3, <1>4 DEF BusInv, Ids

(* A row that appears is unread, and nobody has it in hand.                *)
LEMMA AppearStep ==
  ASSUME MarkInv, NEW row, rows' = rows \cup {row}, row.unread, row.id \notin Ids(rows),
         UNCHANGED inHand, \A p \in Sender : txn'[p] \in {txn[p], NoMessage}
  PROVE  MarkInv'
<1>1. \A m \in rows : m.id # row.id
  BY DEF Ids
<1>2. \A q \in Reader : row.id \notin inHand[q] /\ inHand[q] \subseteq Ids(rows)'
  BY DEF MarkInv, Ids
<1> QED
  BY <1>1, <1>2 DEF MarkInv

(* Marking changes no id and no recipient, and marks rows in hand only.    *)
LEMMA MarkingStep ==
  ASSUME BusInv, MarkInv, NEW q \in Reader, MarkRead(q)
  PROVE  MarkInv'
<1> DEFINE Marked(m) == IF m.id \in inHand[q] THEN [m EXCEPT !.unread = FALSE] ELSE m
<1>1. /\ rows' = {Marked(m) : m \in rows}
      /\ txn' = txn
      /\ \A r \in Reader : inHand'[r] = IF r = q THEN {} ELSE inHand[r]
  BY DEF MarkRead, BusInv, BusTypeOK, AnyReader
<1>2. \A m \in rows : /\ Marked(m).id = m.id /\ Marked(m).recipient = m.recipient
                      /\ ~ Marked(m).unread => ~ m.unread \/ m.id \in inHand[q]
  BY DEF BusInv, BusTypeOK, Row
<1> HIDE DEF Marked
<1>3. Ids(rows)' = Ids(rows)
  BY <1>1, <1>2 DEF Ids
<1>4. ASSUME NEW m \in rows
      PROVE  ~ Marked(m).unread => Marked(m).recipient \in Reader \cup {"all"}
  BY <1>2 DEF MarkInv
<1>5. \A m, n \in rows : Marked(m).id = Marked(n).id => Marked(m) = Marked(n)
  BY <1>2 DEF MarkInv
<1>6. \A m \in rows : \A r \in Reader :
        Marked(m).id \in inHand'[r] => Marked(m).recipient \in {r, "all"}
  BY <1>1, <1>2 DEF MarkInv
<1>7. \A r \in Reader : inHand'[r] \subseteq Ids(rows)'
  BY <1>1, <1>3 DEF MarkInv
<1> QED
  BY <1>1, <1>4, <1>5, <1>6, <1>7 DEF MarkInv

(* What is in hand, and what is marked, stays within what was sent.        *)
LEMMA MarksKept == BusInv /\ MarkInv /\ BusView => MarkInv'
<1> SUFFICES ASSUME BusInv, MarkInv, BusView PROVE MarkInv'
  OBVIOUS
<1>1. CASE UNCHANGED <<rows, txn, inHand>>
  BY <1>1 DEF MarkInv, Ids
<1>2. ASSUME NEW q \in Reader, PollUnread(q) PROVE MarkInv'
  <2> DEFINE page == Page({m \in AddressedTo(q) : m.unread})
  <2>1. page \subseteq AddressedTo(q)
    BY DEF Page
  <2>2. /\ rows' = rows /\ txn' = txn
        /\ \A r \in Reader : inHand'[r] = IF r = q THEN Ids(page) ELSE inHand[r]
    BY <1>2 DEF PollUnread, BusInv, BusTypeOK, AnyReader
  <2> HIDE DEF page
  <2>3. Ids(page) \subseteq Ids(rows)
    BY <2>1 DEF Ids, AddressedTo
  <2>4. ASSUME NEW m \in rows, m.id \in Ids(page) PROVE m.recipient \in {q, "all"}
    <3>1. PICK n \in page : n.id = m.id
      BY <2>4 DEF Ids
    <3> QED
      BY <2>1, <3>1 DEF AddressedTo, MarkInv
  <2> QED
    BY <2>2, <2>3, <2>4 DEF MarkInv, Ids
<1>3. ASSUME NEW q \in Reader, ReaderDies(q) PROVE MarkInv'
  <2>1. /\ rows' = rows /\ txn' = txn
        /\ \A r \in Reader : inHand'[r] = IF r = q THEN {} ELSE inHand[r]
    BY <1>3 DEF ReaderDies, BusInv, BusTypeOK, AnyReader
  <2> QED
    BY <2>1 DEF MarkInv, Ids
<1>4. ASSUME NEW p \in Sender, NEW r, Insert(p, r) PROVE MarkInv'
  <2>1. /\ rows' = rows /\ inHand' = inHand
        /\ \A o \in Sender : txn'[o] = txn[o] \/ txn'[o] = NewRow(Stored(r))
    BY <1>4 DEF Insert, BusInv, BusTypeOK
  <2> QED
    BY <2>1 DEF MarkInv, Ids, NewRow
<1>5. ASSUME NEW p \in Sender, Commit(p) PROVE MarkInv'
  <2>1. txn[p].unread /\ txn[p].id \notin Ids(rows)
    BY <1>5 DEF Commit, BusInv, MarkInv
  <2>2. \A o \in Sender : txn'[o] \in {txn[o], NoMessage}
    BY <1>5 DEF Commit, BusInv, BusTypeOK
  <2> QED
    BY <1>5, <2>1, <2>2, AppearStep DEF Commit
<1>6. ASSUME NEW p \in Sender, Rollback(p) PROVE MarkInv'
  <2>1. /\ rows' = rows /\ inHand' = inHand
        /\ \A o \in Sender : txn'[o] \in {txn[o], NoMessage}
    BY <1>6 DEF Rollback, BusInv, BusTypeOK
  <2> QED
    BY <2>1 DEF MarkInv, Ids
<1>7. ASSUME NEW r \in Participant, AddRow(r) PROVE MarkInv'
  <2>1. NewRow(r).unread /\ NewRow(r).id \notin Ids(rows)
    <3>1. \A m \in rows : m.id \in Nat /\ m.id < nextId
      BY DEF BusInv, BusTypeOK, Row
    <3> QED
      BY <3>1 DEF NewRow, Ids
  <2> QED
    BY <1>7, <2>1, AppearStep DEF AddRow
<1>8. ASSUME NEW q \in CursorReader, PollSince(q) PROVE MarkInv'
  BY <1>1, <1>8 DEF PollSince
<1>9. CASE UNCHANGED busVars
  BY <1>1, <1>9 DEF busVars
<1> QED
  BY <1>2, <1>3, <1>4, <1>5, <1>6, <1>7, <1>8, <1>9, MarkingStep DEF BusView, Read, Send

(* The table, the drawn ids, the marks and the cursors stay in order.      *)
LEMMA TableKept == Spec => [](BusInv /\ MarkInv)
<1>1. Init => BusInv /\ MarkInv
  BY FS_EmptySet, PostgresBusAssumption
  DEF Init, BusInit, BusInv, MarkInv, BusTypeOK, CursorSkipsOnlyLateOrRead, AddressedTo,
      AnyReader
<1>2. BusInv /\ MarkInv /\ [Next]_vars => (BusInv /\ MarkInv)'
  <2> SUFFICES ASSUME BusInv, MarkInv, BusView PROVE BusInv'
    BY Views, MarksKept
  <2>1. CASE UNCHANGED busVars
    BY <2>1 DEF busVars, BusInv, BusTypeOK, CursorSkipsOnlyLateOrRead, AddressedTo, Ids
  <2>2. CASE Read
    BY <2>2, ReaderStep, MarkReadStep, PollSinceStep DEF Read
  <2>3. CASE \E p \in Sender : Send(p)
    BY <2>3, InsertStep, CommitStep, RollbackStep DEF Send
  <2> QED
    BY <2>1, <2>2, <2>3, AddRowStep DEF BusView
<1> QED
  BY <1>1, <1>2, PTL DEF Spec

(* postgres_bus.py:336-339: a reader that polls with since_id misses only  *)
(* rows that committed after a row with a higher id, and rows of the lane  *)
(* "all" that another reader had marked, however many senders, readers and *)
(* rows there are and however long a page is.                              *)
THEOREM CursorMissesOnlyLateOrRead == Spec => []CursorSkipsOnlyLateOrRead
<1>1. BusInv => CursorSkipsOnlyLateOrRead
  BY DEF BusInv
<1> QED
  BY <1>1, TableKept, PTL

-----------------------------------------------------------------------------
(* The types of the adapter.                                               *)

Connection == {"none", "ready", "failed", "lost"}

AdapterTypeOK ==
  /\ conn \in [Swarm -> Connection]
  /\ claims \in [Area -> [owner : Swarm \cup {NoOwner}, left : Int]]
  /\ alive \in [Swarm -> BOOLEAN]

(* A call finds or leaves a connection in one of its four states.          *)
LEMMA ConnectionKept ==
  ASSUME AdapterTypeOK, NEW s \in Swarm
  PROVE  /\ GetConn(s) \subseteq Connection
         /\ \A c \in Connection : AfterError(c) \in Connection
         /\ \A c \in Connection : SetConn(s, c) => conn' \in [Swarm -> Connection]
BY DEF AdapterTypeOK, GetConn, AfterError, SetConn, Connection

LEMMA AdapterStep == AdapterTypeOK /\ [Next]_vars => AdapterTypeOK'
<1> SUFFICES ASSUME AdapterTypeOK, [Next]_vars PROVE AdapterTypeOK'
  OBVIOUS
<1>1. "none" \in Connection /\ "ready" \in Connection /\ "lost" \in Connection
  BY DEF Connection
<1>2. ASSUME NEW s \in Swarm, NEW a \in Area, TryClaimArea(s, a) PROVE AdapterTypeOK'
  <2>1. conn' \in [Swarm -> Connection] /\ alive' = alive
    BY <1>1, <1>2, ConnectionKept
    DEF TryClaimArea, ClaimUnasked, ClaimAsked, ClaimError, AdapterTypeOK
  <2>2. Upsert(s, a) \in [owner : Swarm \cup {NoOwner}, left : Int]
    BY AdapterAssumption DEF Upsert, AdapterTypeOK
  <2>3. claims' \in [Area -> [owner : Swarm \cup {NoOwner}, left : Int]]
    BY <1>2, <2>2 DEF TryClaimArea, ClaimUnasked, ClaimAsked, ClaimError, AdapterTypeOK
  <2> QED
    BY <2>1, <2>3 DEF AdapterTypeOK
<1>3. ASSUME NEW s \in Swarm, NEW a \in Area, ReleaseArea(s, a) PROVE AdapterTypeOK'
  <2>1. conn' \in [Swarm -> Connection] /\ alive' = alive
    BY <1>1, <1>3, ConnectionKept DEF ReleaseArea, AdapterTypeOK
  <2>2. claims' \in [Area -> [owner : Swarm \cup {NoOwner}, left : Int]]
    BY <1>3 DEF ReleaseArea, Freed, NoClaim, AdapterTypeOK
  <2> QED
    BY <2>1, <2>2 DEF AdapterTypeOK
<1>4. ASSUME NEW s \in Swarm,
             \/ \E r \in Reader \cup {"all"} : Announce(s, r)
             \/ RecentMessages(s) \/ IsActive(s) \/ Lose(s) \/ Die(s)
      PROVE  AdapterTypeOK'
  <2>1. conn' \in [Swarm -> Connection]
    <3>1. CASE \E r \in Reader \cup {"all"} : Announce(s, r)
      BY <3>1, <1>1, ConnectionKept DEF Announce, PgSend, SubprocessSend, AdapterTypeOK
    <3>2. CASE RecentMessages(s)
      BY <3>2, <1>1, ConnectionKept DEF RecentMessages
    <3>3. CASE IsActive(s)
      BY <3>3, ConnectionKept DEF IsActive, SetConn
    <3>4. CASE Lose(s) \/ Die(s)
      BY <3>4, <1>1, ConnectionKept DEF Lose, Die
    <3> QED
      BY <1>4, <3>1, <3>2, <3>3, <3>4
  <2>2. claims' = claims /\ alive' \in [Swarm -> BOOLEAN]
    BY <1>4 DEF Announce, RecentMessages, IsActive, Lose, Die, AdapterTypeOK
  <2> QED
    BY <2>1, <2>2 DEF AdapterTypeOK
<1>5. CASE Tick
  BY <1>5 DEF Tick, AdapterTypeOK
<1>6. CASE UNCHANGED claimVars
  BY <1>6 DEF claimVars, AdapterTypeOK
<1> QED
  BY <1>2, <1>3, <1>4, <1>5, <1>6 DEF Next, Bus, vars

(* Rows, cursors, connections and claims keep their types.                 *)
THEOREM Typing == Spec => []TypeOK
<1>1. Init => AdapterTypeOK
  BY DEF Init, NoClaim, AdapterTypeOK, Connection
<1>2. BusInv /\ AdapterTypeOK => TypeOK
  BY DEF BusInv, AdapterTypeOK, TypeOK, Connection
<1> QED
  BY <1>1, <1>2, TableKept, AdapterStep, PTL DEF Spec

=============================================================================
