------------------------------ MODULE BusProofs -----------------------------
(***************************************************************************)
(* The inbox files and the task bus over them, for any number of processes *)
(* and tasks, any capacity, and processes that die between any two steps.  *)
(***************************************************************************)
EXTENDS TaskBus, SequenceTheorems, WellFoundedInduction, TLAPS

Messages == Seq(Message)

(* The operations a process may be in. *)
Mirroring == [do : {"select", "update", "row"}, task : Ref, to : KB!TaskStatus,
              old : KB!TaskStatus \cup {"none"}]
Appending == [do : {"append"}, at : Name, rest : SUBSET Name, msg : Message,
              raw : Messages \cup {NoRaw}, next : Mirroring \cup {Idle}]
Draining(p) == [do : {"drain"}, at : {p}, raw : Messages]

Op(p) == {Idle} \cup Appending \cup Draining(p) \cup Mirroring

Typed ==
  /\ inbox \in [Name -> Messages \cup {NoFile}]
  /\ DOMAIN op = Process /\ \A p \in Process : op[p] \in Op(p)
  /\ sent \in Nat
  /\ gone \in [Name -> Messages] /\ log \in [Name -> Messages]
  /\ raced \subseteq Name
  /\ status \in [Ref -> KB!TaskStatus \cup {"absent"}]
  /\ reports \in [Ref -> SUBSET (Process \X Name)]
  /\ torn \subseteq Ref

(* Whoever is in a file nobody raced for has read what is in it. *)
QueueInv ==
  /\ \A p \in Process : \A n \in Name \ raced : Pending(p, n) => op[p].raw = Content(inbox[n])
  /\ QueueUnlessRaced

-----------------------------------------------------------------------------
(* What may be in the file of n next: what is in it and what was read.     *)
Copy(n, f) == f = Content(inbox[n]) \/ \E p \in Process : Pending(p, n) /\ f = op[p].raw

InOrder(f) ==
  \A i, j \in 1 .. Len(f) :
    i < j => f[i].ts # f[j].ts /\ (f[i].sender = f[j].sender => f[i].ts < f[j].ts)

(* The messages under way are new to the files they are still to go to,    *)
(* and the newest of their senders.                                        *)
NewTo(p, n, x) ==
  LET m == op[p].msg IN
    /\ x.ts = m.ts => x.sender = p /\ n \notin {op[p].at} \cup op[p].rest
    /\ x.sender = p => x.ts <= m.ts

Adding(p) == op[p].do = "append"

Settled(n, x) == x.ts <= sent /\ \A p \in Process : Adding(p) => NewTo(p, n, x)

OwnMessages ==
  \A p \in Process : Adding(p) =>
    /\ op[p].msg.sender = p /\ op[p].msg.ts <= sent /\ op[p].at \notin op[p].rest
    /\ \A q \in Process : Adding(q) /\ op[q].msg.ts = op[p].msg.ts => p = q

OrderInv ==
  /\ \A n \in Name, f \in Messages :
       Copy(n, f) => InOrder(f) /\ \A i \in 1 .. Len(f) : Settled(n, f[i])
  /\ OwnMessages

-----------------------------------------------------------------------------
About(n, t) == {x \in ToSet(Content(inbox[n])) : x.task = t /\ x.kind \in Reported}

(* The newest report on t in the inbox of n, if there is any, says s. *)
Says(n, t, s) ==
  \A x \in About(n, t) : (\A y \in About(n, t) : y.ts <= x.ts) => s = KanbanStatus[x.kind]

Sole(p, n, t) ==
  reports[t] = {<<p, n>>} /\ n \notin raced /\ t \notin torn /\ status[t] # "absent"

ToMirror(p, t) == op[p].do \in {"select", "update"} /\ op[p].task = t
ToSend(p, t) == Adding(p) /\ op[p].msg.kind \in Reported /\ op[p].msg.task = t

(* A report in a file is one of those accounted for. *)
Known(n, x) ==
  x.kind \in Reported => x.task \in Ref /\ <<x.sender, n>> \in reports[x.task]

Accounted ==
  \A n \in Name, f \in Messages : Copy(n, f) => \A i \in 1 .. Len(f) : Known(n, f[i])

(* A report goes to one file, and is mirrored next. *)
UnderWay ==
  \A p \in Process : Adding(p) =>
    IF op[p].msg.kind \in Reported
    THEN /\ op[p].msg.task \in Ref /\ op[p].rest = {}
         /\ <<p, op[p].at>> \in reports[op[p].msg.task]
         /\ op[p].next = ThenMirror(op[p].msg.kind, op[p].msg.task)
    ELSE op[p].next = Idle

Mirrors ==
  \A p \in Process : op[p].do \in {"select", "update", "row"} =>
    /\ \E n \in Name : <<p, n>> \in reports[op[p].task]
    /\ op[p].do # "select" => status[op[p].task] # "absent"

(* The row lags behind the inbox of a sole reporter only while that one is *)
(* about to bring it up to date.                                           *)
Follows(p, n, t) ==
  IF ToMirror(p, t) THEN Says(n, t, op[p].to) ELSE ToSend(p, t) \/ Says(n, t, status[t])

TileInv ==
  /\ Accounted /\ UnderWay /\ Mirrors
  /\ \A t \in Ref, p \in Process, n \in Name : Sole(p, n, t) => Follows(p, n, t)

-----------------------------------------------------------------------------
(* What a message is made of.                                              *)
LEMMA Parts ==
  \A m \in Message : m.ts \in Nat /\ m.sender \in Process /\ m.kind \in Kinds /\ m.task \in Tasks
BY MessagingAssumption DEF Message

LEMMA NotLists == NoFile \notin Messages /\ NoRaw \notin Messages /\ "*" \notin Name
BY MessagingAssumption DEF Messages

(* Some file comes first in the sorted list.                               *)
LEMMA FirstIn == ASSUME NEW S, S \subseteq Name, S # {} PROVE First(S) \in S
<1> DEFINE Places == {NameOrder[n] : n \in S}
           Below == {p \in Nat \X Nat : p[1] < p[2]}
<1>1. Places \subseteq Nat /\ Places # {}
  BY MessagingAssumption
<1>2. IsWellFoundedOn(Below, Nat)
  BY NatLessThanWellFounded, Zenon DEF OpToRel
<1>3. PICK d \in Places : \A e \in Places : <<e, d>> \notin Below
  <2> HIDE DEF Places, Below
  <2> QED
    BY <1>1, <1>2, WFMin
<1>4. PICK n \in S : d = NameOrder[n]
  OBVIOUS
<1>5. ASSUME NEW o \in S PROVE NameOrder[n] <= NameOrder[o]
  <2>1. NameOrder[o] \in Nat /\ NameOrder[n] \in Nat
    BY <1>1
  <2>2. <<NameOrder[o], d>> \notin Below
    BY <1>3
  <2> QED
    BY <1>4, <2>1, <2>2
<1> QED
  BY <1>4, <1>5 DEF First

(* The operation v appends m to the files in todo, or is what comes next.  *)
Goes(v, todo, m, next) ==
  \/ todo = {} /\ v = next
  \/ /\ v \in Appending
     /\ v.at \in todo /\ v.rest = todo \ {v.at}
     /\ v.msg = m /\ v.raw = NoRaw /\ v.next = next

(* AppendTo goes through the files one by one.                             *)
LEMMA AppendToIs ==
  \A todo \in SUBSET Name, m \in Message, next \in Mirroring \cup {Idle} :
    Goes(AppendTo(todo, m, next), todo, m, next)
<1> TAKE todo \in SUBSET Name, m \in Message, next \in Mirroring \cup {Idle}
<1>1. CASE todo = {}
  BY <1>1 DEF AppendTo, Goes
<1>2. CASE todo # {}
  <2>1. First(todo) \in todo
    BY <1>2, FirstIn
  <2> QED
    BY <1>2, <2>1 DEF AppendTo, Appending, Goes
<1> QED
  BY <1>1, <1>2

LEMMA AppendToIn ==
  \A todo \in SUBSET Name, m \in Message, next \in Mirroring \cup {Idle} :
    AppendTo(todo, m, next) \in Appending \cup Mirroring \cup {Idle}
BY AppendToIs DEF Goes

(* What the cap leaves is the end of the list, and the rest was cut off    *)
(* its front.                                                              *)
CutOff(s) == SubSeq(s, 1, Len(s) - Len(Capped(s)))

LEMMA CapKeepsTheEnd ==
  ASSUME NEW s \in Messages
  PROVE  /\ Capped(s) \in Messages /\ CutOff(s) \in Messages
         /\ CutOff(s) \o Capped(s) = s
         /\ \E k \in Nat : /\ Len(s) = Len(Capped(s)) + k
                          /\ \A i \in 1 .. Len(Capped(s)) : Capped(s)[i] = s[i + k]
         /\ Len(s) > 0 => Len(Capped(s)) > 0
         /\ Len(Capped(s)) <= MaxMessages
<1> USE DEF Messages
<1>0. Len(s) \in Nat /\ MaxMessages \in Nat /\ MaxMessages > 0
  BY MessagingAssumption, LenProperties
<1>1. CASE Len(s) > MaxMessages
  <2> DEFINE j == Len(s) - MaxMessages
             new == SubSeq(s, j + 1, Len(s))
  <2>1. Capped(s) = new
    BY <1>1 DEF Capped
  <2>2. /\ j \in Nat /\ j <= Len(s) /\ j + 1 \in Int /\ Len(s) \in Int
        /\ \A i \in (j + 1) .. Len(s) : s[i] \in Message
    BY <1>0, <1>1, LenProperties
  <2>3. /\ new \in Seq(Message)
        /\ Len(new) = IF j + 1 <= Len(s) THEN Len(s) - (j + 1) + 1 ELSE 0
        /\ \A i \in 1 .. Len(s) - (j + 1) + 1 : new[i] = s[(j + 1) + i - 1]
    <3> HIDE DEF j
    <3> QED
      BY <2>2, SubSeqProperties
  <2>4. Len(new) = MaxMessages
    BY <1>0, <1>1, <2>2, <2>3
  <2>5. \A i \in 1 .. Len(new) : new[i] = s[i + j]
    <3> TAKE i \in 1 .. Len(new)
    <3>1. i \in 1 .. Len(s) - (j + 1) + 1 /\ (j + 1) + i - 1 = i + j
      BY <1>0, <2>2, <2>4
    <3> QED
      BY <2>3, <3>1
  <2>6. SubSeq(s, 1, j) \in Seq(Message)
    <3>1. \A i \in 1 .. j : s[i] \in Message
      BY <1>0, <2>2, LenProperties
    <3> HIDE DEF j
    <3> QED
      BY <2>2, <3>1, SubSeqProperties
  <2>7. SubSeq(s, 1, j) \o new = SubSeq(s, 1, Len(s))
    <3>1. /\ 1 \in 1 .. Len(s) + 1 /\ j \in 1 - 1 .. Len(s) /\ Len(s) \in j .. Len(s)
      BY <1>0, <2>2
    <3> HIDE DEF j
    <3> QED
      BY <3>1, ConcatAdjacentSubSeq
  <2>8. SubSeq(s, 1, Len(s)) = s
    BY SubSeqFull
  <2>9. /\ Len(s) - Len(new) = j /\ Len(s) = Len(new) + j
        /\ Len(new) > 0 /\ Len(new) <= MaxMessages
    BY <1>0, <2>4
  <2>10. CutOff(s) = SubSeq(s, 1, j)
    BY <2>1, <2>9 DEF CutOff
  <2> HIDE DEF new, j
  <2> QED
    BY <2>1, <2>2, <2>3, <2>5, <2>6, <2>7, <2>8, <2>9, <2>10
<1>2. CASE ~ (Len(s) > MaxMessages)
  <2>1. /\ Capped(s) = s /\ Len(s) - Len(s) = 0 /\ CutOff(s) = SubSeq(s, 1, 0)
        /\ Len(s) <= MaxMessages
    BY <1>0, <1>2 DEF Capped, CutOff
  <2>2. SubSeq(s, 1, 0) = << >> /\ << >> \in Seq(Message)
    BY SubSeqEmpty
  <2>3. << >> \o s = s
    BY ConcatEmptySeq
  <2>4. \E k \in Nat : /\ Len(s) = Len(Capped(s)) + k
                     /\ \A i \in 1 .. Len(Capped(s)) : Capped(s)[i] = s[i + k]
    <3> WITNESS 0 \in Nat
    <3> QED
      BY <1>0, <2>1
  <2> QED
    BY <2>1, <2>2, <2>3, <2>4
<1> QED
  BY <1>1, <1>2

-----------------------------------------------------------------------------
(* An operation is known by what it does.                                  *)
LEMMA OpIs ==
  ASSUME Typed, NEW p \in Process
  PROVE  /\ op[p].do = "append" => op[p] \in Appending
         /\ op[p].do = "drain" => op[p] \in Draining(p)
         /\ op[p].do \in {"select", "update", "row"} => op[p] \in Mirroring
         /\ op[p].do = "idle" => op[p] = Idle
<1>1. op[p] \in Op(p)
  BY DEF Typed
<1> QED
  BY <1>1 DEF Op, Idle, Appending, Draining, Mirroring

LEMMA OpStep ==
  ASSUME Typed, NEW p \in Process, NEW v \in Op(p), op' = [op EXCEPT ![p] = v]
  PROVE  DOMAIN op' = Process /\ \A q \in Process : op'[q] \in Op(q)
BY DEF Typed

(* A file written, and its history with it.                                *)
LEMMA WriteStep ==
  ASSUME Typed, NEW p \in Process, NEW n \in Name, NEW new \in Messages,
         NEW in \in Messages, NEW out \in Messages, WriteFile(p, n, new, in, out)
  PROVE  /\ inbox' = [inbox EXCEPT ![n] = new]
         /\ raced' \in {raced, raced \cup {n}}
         /\ inbox' \in [Name -> Messages \cup {NoFile}]
         /\ gone' \in [Name -> Messages] /\ log' \in [Name -> Messages]
         /\ raced' \subseteq Name
<1>1. << >> \in Messages /\ \A f, g \in Messages : f \o g \in Messages
  BY ConcatProperties, EmptySeq DEF Messages
<1>2. CASE n \in raced \/ \E q \in Process \ {p} : Pending(q, n)
  BY <1>1, <1>2 DEF WriteFile, Typed
<1>3. CASE ~ (n \in raced \/ \E q \in Process \ {p} : Pending(q, n))
  <2>1. log[n] \o in \in Messages /\ gone[n] \o out \in Messages
    BY <1>1 DEF Typed
  <2>2. /\ inbox' = [inbox EXCEPT ![n] = new]
        /\ log' = [log EXCEPT ![n] = log[n] \o in]
        /\ gone' = [gone EXCEPT ![n] = gone[n] \o out]
        /\ raced' = raced
    BY <1>3 DEF WriteFile
  <2> QED
    BY <2>1, <2>2 DEF Typed
<1> QED
  BY <1>2, <1>3

LEMMA Contents ==
  ASSUME Typed, NEW n \in Name
  PROVE  Content(inbox[n]) \in Messages
<1>1. << >> \in Messages
  BY EmptySeq DEF Messages
<1> QED
  BY <1>1 DEF Typed, Content

(* A message under way to the files in todo. *)
Starts(p, m, todo, next) ==
  /\ op[p] = Idle
  /\ m.ts = sent + 1 /\ m.sender = p
  /\ op' = [op EXCEPT ![p] = AppendTo(todo, m, next)]
  /\ sent' = sent + 1
  /\ UNCHANGED <<inbox, gone, log, raced>>

MintedFor(m, todo, r, k, t) ==
  m.kind = k /\ m.task = t /\ (r # "*" => todo = {r})

LEMMA SendStep ==
  ASSUME Typed, NEW p \in Process, NEW r \in Recipients \cup {"*"}, NEW k \in Kinds,
         NEW t \in Tasks, NEW next \in Mirroring \cup {Idle}, StartSend(p, r, k, t, next)
  PROVE  \E m \in Message, todo \in SUBSET Name :
           MintedFor(m, todo, r, k, t) /\ Starts(p, m, todo, next)
<1> DEFINE m == Mint(p, r, k, t)
<1>1. m \in Message
  <2>1. sent \in Nat /\ sent < MaxSent /\ MaxSent \in Nat
    BY MessagingAssumption DEF StartSend, Typed
  <2>2. sent + 1 \in 1 .. MaxSent
    BY <2>1
  <2> QED
    BY <2>2 DEF Mint, Message
<1>2. Targets(m) \in SUBSET Name /\ (r # "*" => Targets(m) = {r})
  BY DEF Targets, Files, Name, Mint
<1>3. Starts(p, m, Targets(m), next)
  BY DEF StartSend, Starts, Mint
<1>4. MintedFor(m, Targets(m), r, k, t)
  BY <1>2 DEF Mint, MintedFor
<1> HIDE DEF m
<1> QED
  BY <1>1, <1>2, <1>3, <1>4

(* Hands free, or on to the next statement of a mirroring. *)
Proceeds(p) ==
  /\ op[p] # Idle
  /\ \E v \in Mirroring \cup {Idle} : op' = [op EXCEPT ![p] = v]
  /\ UNCHANGED <<inbox, sent, gone, log, raced>>

MailView(p) ==
  \/ \E m \in Message, todo \in SUBSET Name, next \in Mirroring \cup {Idle} :
       Starts(p, m, todo, next)
  \/ ReadForAppend(p) \/ WriteAppend(p) \/ StartDrain(p) \/ Clear(p)
  \/ Proceeds(p)

LEMMA Statuses ==
  \A k \in Reported : KanbanStatus[k] \in KB!TaskStatus /\ k \in TaskKinds
BY DEF Reported, KanbanStatus, KB!TaskStatus, TaskKinds

LEMMA MirrorStep ==
  ASSUME Typed, NEW p \in Process, Mirror(p)
  PROVE  /\ Proceeds(p)
         /\ op[p].do \in {"select", "update", "row"} /\ op[p].task \in Ref
         /\ \/ /\ op[p].do = "select" /\ status[op[p].task] = "absent"
               /\ op'[p] = Idle /\ status' = status
            \/ /\ op[p].do = "select" /\ status[op[p].task] # "absent"
               /\ op'[p].do = "update" /\ op'[p].task = op[p].task /\ op'[p].to = op[p].to
               /\ status' = status
            \/ /\ op[p].do = "update" /\ op'[p].do = "row" /\ op'[p].task = op[p].task
               /\ status' = [status EXCEPT ![op[p].task] = op[p].to]
            \/ op[p].do = "row" /\ op'[p] = Idle /\ status' = status
         /\ status' \in {status, [status EXCEPT ![op[p].task] = op[p].to]}
         /\ UNCHANGED <<reports, torn>>
<1>0. op[p].do \in {"select", "update", "row"}
  BY DEF Mirror, MirrorSelect, MirrorUpdate, MirrorRow
<1>1. op[p] \in Mirroring /\ op[p] # Idle
  BY <1>0, OpIs DEF Idle
<1>2. op[p].task \in Ref /\ op[p].to \in KB!TaskStatus
  BY <1>1 DEF Mirroring
<1>3. CASE MirrorSelect(p)
  <2> DEFINE v == [[op[p] EXCEPT !.do = "update"] EXCEPT !.old = status[op[p].task]]
  <2>1. op' = [op EXCEPT ![p] = IF status[op[p].task] = "absent" THEN Idle ELSE v]
    BY <1>3 DEF MirrorSelect
  <2>2. op'[p] = IF status[op[p].task] = "absent" THEN Idle ELSE v
    BY <2>1 DEF Typed
  <2>3. status[op[p].task] # "absent" => v \in Mirroring
    BY <1>1, <1>2 DEF Typed, Mirroring
  <2>4. v.do = "update" /\ v.task = op[p].task /\ v.to = op[p].to
    BY <1>1 DEF Mirroring
  <2> HIDE DEF v
  <2>5. \E w \in Mirroring \cup {Idle} : op' = [op EXCEPT ![p] = w]
    BY <2>1, <2>3
  <2>6. op[p].do = "select" /\ status' = status
    BY <1>3 DEF MirrorSelect, board
  <2> QED
    BY <1>0, <1>1, <1>2, <1>3, <2>2, <2>4, <2>5, <2>6 DEF Proceeds, Mirror
<1>4. CASE MirrorUpdate(p)
  <2>1. [op[p] EXCEPT !.do = "row"] \in Mirroring
    BY <1>1 DEF Mirroring
  <2>2. op' = [op EXCEPT ![p] = [op[p] EXCEPT !.do = "row"]]
    BY <1>4 DEF MirrorUpdate
  <2>3. op'[p].do = "row" /\ op'[p].task = op[p].task
    BY <1>1, <2>2 DEF Typed, Mirroring
  <2> QED
    BY <1>0, <1>1, <1>2, <1>4, <2>1, <2>2, <2>3 DEF Proceeds, Mirror, MirrorUpdate, KB!SetStatus
<1>5. CASE MirrorRow(p)
  <2>1. op'[p] = Idle
    BY <1>5 DEF MirrorRow, Typed
  <2> QED
    BY <1>0, <1>1, <1>2, <1>5, <2>1 DEF Proceeds, Mirror, MirrorRow, KB!AddRow
<1> QED
  BY <1>3, <1>4, <1>5 DEF Mirror

(* The three ways a task comes into a message.                             *)
Sends(p, r, k, t, next) ==
  /\ r \in Recipients \cup {"*"} /\ k \in Kinds /\ t \in Tasks /\ next \in Mirroring \cup {Idle}
  /\ StartSend(p, r, k, t, next)
  /\ UNCHANGED <<status, torn>>
  /\ \/ k \notin Reported /\ next = Idle /\ UNCHANGED reports
     \/ /\ k \in Reported /\ t \in Ref /\ next = ThenMirror(k, t) /\ r \in Process
        /\ reports' = [reports EXCEPT ![t] = reports[t] \cup {<<p, r>>}]

BusStep(p) ==
  \/ \E r \in Recipients \cup {"*"}, k \in Kinds, t \in Tasks, next \in Mirroring \cup {Idle} :
       Sends(p, r, k, t, next)
  \/ Mail(p) \/ Mirror(p) \/ Die(p)

LEMMA BusSteps == [Next]_busVars => UNCHANGED busVars \/ \E p \in Process : BusStep(p)
<1> SUFFICES ASSUME NEW p \in Process,
                    \/ \E r \in Recipients \cup {"*"}, k \in Kinds : Send(p, r, k)
                    \/ p \in Dispatcher /\ \E r \in Agent \cap Recipients, t \in Ref : Delegate(p, r, t)
                    \/ p \in Agent /\ \E r \in Dispatcher, t \in Ref, k \in Kinds : UpdateStatus(p, r, t, k)
             PROVE  BusStep(p)
  BY DEF Next, BusStep
<1>1. "task_delegated" \notin Reported /\ NoTask \in Tasks /\ Ref \subseteq Tasks
  BY TaskBusAssumption DEF Reported, KanbanStatus, Ref
<1>2. ASSUME NEW r \in Recipients \cup {"*"}, NEW k \in Kinds, Send(p, r, k)
      PROVE  Sends(p, r, k, NoTask, Idle)
  <2>1. k \notin Reported
    BY <1>2, Statuses DEF Send
  <2> QED
    BY <1>1, <1>2, <2>1 DEF Send, Sends, board
<1>3. ASSUME NEW r \in Agent \cap Recipients, NEW t \in Ref, Delegate(p, r, t)
      PROVE  Sends(p, r, "task_delegated", t, Idle)
  BY <1>1, <1>3 DEF Delegate, Sends, board, Valid
<1>4. ASSUME NEW r \in Dispatcher, NEW t \in Ref, NEW k \in Kinds, UpdateStatus(p, r, t, k)
      PROVE  Sends(p, r, k, t, ThenMirror(k, t))
  <2>1. ThenMirror(k, t) \in Mirroring
    BY <1>4, Statuses DEF UpdateStatus, ThenMirror, Mirroring
  <2>2. r \in Process
    BY TaskBusAssumption
  <2> QED
    BY <1>1, <1>4, <2>1, <2>2 DEF UpdateStatus, Sends, board, Valid
<1>5. CASE \E r \in Recipients \cup {"*"}, k \in Kinds : Send(p, r, k)
  BY <1>1, <1>2, <1>5 DEF BusStep
<1>6. CASE \E r \in Agent \cap Recipients, t \in Ref : Delegate(p, r, t)
  BY <1>1, <1>3, <1>6 DEF BusStep, Sends
<1>7. CASE \E r \in Dispatcher, t \in Ref, k \in Kinds : UpdateStatus(p, r, t, k)
  BY <1>1, <1>4, <1>7 DEF BusStep, Sends
<1> QED
  BY <1>5, <1>6, <1>7

(* The history and the file of a name, and the operation in hand, after a  *)
(* step of the mail.                                                       *)
MailTyped ==
  /\ inbox \in [Name -> Messages \cup {NoFile}]
  /\ DOMAIN op = Process /\ \A p \in Process : op[p] \in Op(p)
  /\ sent \in Nat
  /\ gone \in [Name -> Messages] /\ log \in [Name -> Messages]
  /\ raced \subseteq Name

LEMMA MailTyping == ASSUME Typed, NEW p \in Process, MailView(p) PROVE MailTyped'
<1>0. Idle \in Op(p) /\ Appending \subseteq Op(p) /\ Draining(p) \subseteq Op(p) /\ Mirroring \subseteq Op(p)
  BY DEF Op
<1>1. ASSUME NEW m \in Message, NEW todo \in SUBSET Name, NEW next \in Mirroring \cup {Idle},
             Starts(p, m, todo, next)
      PROVE  MailTyped'
  <2>1. AppendTo(todo, m, next) \in Op(p)
    BY <1>0, AppendToIn
  <2> QED
    BY <1>1, <2>1, OpStep DEF Starts, MailTyped, Typed
<1>2. CASE ReadForAppend(p)
  <2>1. op[p] \in Appending
    BY <1>2, OpIs DEF ReadForAppend
  <2>2. Content(inbox[op[p].at]) \in Messages
    BY <2>1, Contents DEF Appending
  <2>3. [op[p] EXCEPT !.raw = Content(inbox[op[p].at])] \in Appending
    BY <2>1, <2>2 DEF Appending
  <2>4. op' = [op EXCEPT ![p] = [op[p] EXCEPT !.raw = Content(inbox[op[p].at])]]
    BY <1>2 DEF ReadForAppend
  <2> QED
    BY <1>0, <1>2, <2>3, <2>4, OpStep DEF ReadForAppend, MailTyped, Typed
<1>3. CASE WriteAppend(p)
  <2> DEFINE o == op[p]
             old == Append(o.raw, o.msg)
  <2>1. o \in Appending
    BY <1>3, OpIs DEF WriteAppend
  <2>2. o.raw \in Messages /\ o.msg \in Message /\ o.at \in Name /\ o.rest \subseteq Name
        /\ o.next \in Mirroring \cup {Idle}
    BY <1>3, <2>1 DEF WriteAppend, Appending
  <2>3. old \in Messages /\ <<o.msg>> \in Messages
    BY <2>2, AppendProperties DEF Messages
  <2>4. WriteFile(p, o.at, Capped(old), <<o.msg>>, CutOff(old))
    BY <1>3 DEF WriteAppend, CutOff
  <2>5. op' = [op EXCEPT ![p] = AppendTo(o.rest, o.msg, o.next)] /\ sent' = sent
    BY <1>3 DEF WriteAppend
  <2> HIDE DEF o, old
  <2>6. AppendTo(o.rest, o.msg, o.next) \in Appending \cup Mirroring \cup {Idle}
    BY <2>2, AppendToIn
  <2>7. Capped(old) \in Messages /\ CutOff(old) \in Messages
    BY <2>3, CapKeepsTheEnd
  <2>8. DOMAIN op' = Process /\ \A q \in Process : op'[q] \in Op(q)
    BY <1>0, <2>5, <2>6, OpStep
  <2> QED
    BY <2>2, <2>3, <2>4, <2>5, <2>7, <2>8, WriteStep DEF MailTyped, Typed
<1>4. CASE StartDrain(p)
  <2>1. Content(inbox[p]) \in Messages
    BY Contents DEF Name
  <2>2. [do |-> "drain", at |-> p, raw |-> Content(inbox[p])] \in Draining(p)
    BY <2>1 DEF Draining
  <2> QED
    BY <1>0, <1>4, <2>2, OpStep DEF StartDrain, MailTyped, Typed
<1>5. CASE Clear(p)
  <2>1. op[p].raw \in Messages
    BY <1>5, OpIs DEF Clear, Draining
  <2>2. << >> \in Messages /\ p \in Name
    BY EmptySeq DEF Messages, Name
  <2>3. WriteFile(p, p, << >>, << >>, op[p].raw) /\ op' = [op EXCEPT ![p] = Idle] /\ sent' = sent
    BY <1>5 DEF Clear
  <2>4. DOMAIN op' = Process /\ \A q \in Process : op'[q] \in Op(q)
    BY <1>0, <2>3, OpStep
  <2> QED
    BY <2>1, <2>2, <2>3, <2>4, WriteStep DEF MailTyped, Typed
<1>6. CASE Proceeds(p)
  BY <1>0, <1>6, OpStep DEF Proceeds, MailTyped, Typed
<1> QED
  BY <1>1, <1>2, <1>3, <1>4, <1>5, <1>6 DEF MailView

(* A step of the bus is a step of the mail.                                *)
LEMMA Views ==
  ASSUME Typed, NEW p \in Process, BusStep(p)
  PROVE  MailView(p)
<1>1. ASSUME NEW r \in Recipients \cup {"*"}, NEW k \in Kinds, NEW t \in Tasks,
             NEW next \in Mirroring \cup {Idle}, Sends(p, r, k, t, next)
      PROVE  MailView(p)
  <2>1. \E m \in Message, todo \in SUBSET Name : Starts(p, m, todo, next)
    BY <1>1, SendStep DEF Sends
  <2> QED
    BY <2>1 DEF MailView
<1>2. CASE Mail(p)
  BY <1>2 DEF Mail, MailView
<1>3. CASE Mirror(p)
  BY <1>3, MirrorStep DEF MailView
<1>4. CASE Die(p)
  BY <1>4 DEF Die, Crash, Proceeds, MailView
<1> QED
  BY <1>1, <1>2, <1>3, <1>4 DEF BusStep

LEMMA TypeStep == Typed /\ [Next]_busVars => Typed'
<1> SUFFICES ASSUME Typed, [Next]_busVars PROVE Typed'
  OBVIOUS
<1>1. CASE UNCHANGED busVars
  BY <1>1 DEF busVars, mailVars, board, Typed
<1>2. ASSUME NEW p \in Process, BusStep(p) PROVE Typed'
  <2>1. MailTyped'
    BY <1>2, Views, MailTyping
  <2>2. /\ status' \in [Ref -> KB!TaskStatus \cup {"absent"}]
        /\ reports' \in [Ref -> SUBSET (Process \X Name)]
        /\ torn' \subseteq Ref
    <3>1. CASE \E r \in Recipients \cup {"*"}, k \in Kinds, t \in Tasks,
                  next \in Mirroring \cup {Idle} : Sends(p, r, k, t, next)
      BY <3>1 DEF Sends, Typed, Name
    <3>2. CASE Mail(p)
      BY <3>2 DEF Mail, board, Typed
    <3>3. CASE Mirror(p)
      <4>1. op[p].to \in KB!TaskStatus
        BY <3>3, MirrorStep, OpIs DEF Mirroring
      <4> QED
        BY <3>3, <4>1, MirrorStep DEF Typed
    <3>4. CASE Die(p)
      BY <3>4 DEF Die, board, Typed
    <3> QED
      BY <1>2, <3>1, <3>2, <3>3, <3>4 DEF BusStep
  <2> QED
    BY <2>1, <2>2 DEF Typed, MailTyped
<1> QED
  BY <1>1, <1>2, BusSteps

LEMMA Typing == Spec => []Typed
<1>1. Init => Typed
  <2>1. << >> \in Messages /\ "pending" \in KB!TaskStatus
    BY EmptySeq DEF Messages, KB!TaskStatus
  <2> QED
    BY <2>1 DEF Init, MailInit, KB!BoardInit, Typed, Op
<1> QED
  BY <1>1, TypeStep, PTL DEF Spec

-----------------------------------------------------------------------------
(* The capacity of an inbox, and the parts of a row a mirroring may write. *)
Capacity ==
  /\ \A n \in Name : inbox[n] = NoFile \/ Len(inbox[n]) <= MaxMessages
  /\ sent <= MaxSent

Rows == blockedBy \in [Ref -> SUBSET Ref] /\ lastRow \in [Ref -> KB!TimelineRow]

LEMMA CapacityStep == Typed /\ Capacity /\ [Next]_busVars => Capacity'
<1> SUFFICES ASSUME Typed, Capacity, [Next]_busVars PROVE Capacity'
  OBVIOUS
<1> USE DEF Capacity
<1>1. CASE UNCHANGED busVars
  BY <1>1 DEF busVars, mailVars
<1>2. ASSUME NEW p \in Process, NEW n \in Name, NEW new \in Messages, Len(new) <= MaxMessages,
             NEW in, NEW out, WriteFile(p, n, new, in, out), sent' = sent
      PROVE  Capacity'
  BY <1>2 DEF WriteFile, Typed
<1>3. ASSUME NEW p \in Process, WriteAppend(p) PROVE Capacity'
  <2> DEFINE old == Append(op[p].raw, op[p].msg)
  <2>1. op[p].raw \in Messages /\ op[p].msg \in Message /\ op[p].at \in Name
    BY <1>3, OpIs DEF WriteAppend, Appending
  <2>2. old \in Messages
    BY <2>1, AppendProperties DEF Messages
  <2>3. /\ WriteFile(p, op[p].at, Capped(old), <<op[p].msg>>,
                     SubSeq(old, 1, Len(old) - Len(Capped(old))))
        /\ sent' = sent
    BY <1>3 DEF WriteAppend
  <2> HIDE DEF old
  <2>4. Capped(old) \in Messages /\ Len(Capped(old)) <= MaxMessages
    BY <2>2, CapKeepsTheEnd
  <2> QED
    BY <1>2, <2>1, <2>3, <2>4
<1>4. ASSUME NEW p \in Process, Clear(p) PROVE Capacity'
  <2>1. << >> \in Messages /\ Len(<< >>) <= MaxMessages /\ p \in Name
    BY EmptySeq, MessagingAssumption DEF Messages, Name
  <2> QED
    BY <1>2, <1>4, <2>1 DEF Clear
<1>5. ASSUME NEW p \in Process, BusStep(p) PROVE Capacity'
  <2>1. CASE \E r \in Recipients \cup {"*"}, k \in Kinds, t \in Tasks,
               next \in Mirroring \cup {Idle} : Sends(p, r, k, t, next)
    BY <2>1, MessagingAssumption DEF Sends, StartSend, Typed
  <2>2. CASE Mail(p)
    BY <1>3, <1>4, <2>2 DEF Mail, ReadForAppend, StartDrain
  <2>3. CASE Mirror(p) \/ Die(p)
    BY <2>3 DEF Mirror, Die, Crash
  <2> QED
    BY <1>5, <2>1, <2>2, <2>3 DEF BusStep
<1> QED
  BY <1>1, <1>5, BusSteps

LEMMA RowsStep == Typed /\ Rows /\ [Next]_busVars => Rows'
<1> SUFFICES ASSUME Typed, Rows, [Next]_busVars PROVE Rows'
  OBVIOUS
<1> USE DEF Rows
<1>1. ASSUME UNCHANGED board PROVE Rows'
  BY <1>1 DEF board
<1>2. ASSUME NEW p \in Process, Mirror(p) PROVE Rows'
  <2>1. CASE MirrorSelect(p)
    BY <1>1, <2>1 DEF MirrorSelect
  <2>2. CASE MirrorUpdate(p)
    BY <2>2 DEF MirrorUpdate, KB!SetStatus
  <2>3. CASE MirrorRow(p)
    <3>1. op[p] \in Mirroring
      BY <2>3, OpIs DEF MirrorRow
    <3>2. op[p].old # op[p].to => [from |-> op[p].old, to |-> op[p].to] \in KB!TimelineRow
      BY <3>1 DEF Mirroring, KB!TimelineRow
    <3>3. UNCHANGED blockedBy
          /\ lastRow' = IF op[p].old = op[p].to THEN lastRow
                        ELSE [lastRow EXCEPT ![op[p].task] = [from |-> op[p].old, to |-> op[p].to]]
      BY <2>3 DEF MirrorRow, KB!AddRow
    <3> QED
      BY <3>2, <3>3
  <2> QED
    BY <1>2, <2>1, <2>2, <2>3 DEF Mirror
<1> QED
  BY <1>1, <1>2 DEF Next, Send, Delegate, UpdateStatus, Mail, Die, busVars

(* messaging.py:107-111: no inbox ever holds more messages than it may,    *)
(* however many write it at once; and the types of the bus and the rows.   *)
THEOREM InboxIsBounded == Spec => []TypeOK
<1>1. Init => Capacity /\ Rows
  <2> SUFFICES ASSUME Init PROVE Capacity /\ Rows
    OBVIOUS
  <2>1. Capacity
    BY MessagingAssumption DEF Init, MailInit, Capacity
  <2>2. PICK onBoard \in SUBSET Ref : KB!BoardInit(onBoard)
    BY DEF Init
  <2>3. blockedBy \in [Ref -> SUBSET Ref]
    BY <2>2 DEF KB!BoardInit
  <2>4. lastRow = [t \in Ref |-> IF t \in onBoard THEN [from |-> "none", to |-> "pending"]
                                 ELSE [from |-> "none", to |-> "none"]]
    BY <2>2 DEF KB!BoardInit, KB!NoRow
  <2>5. lastRow \in [Ref -> KB!TimelineRow]
    BY <2>4 DEF KB!TimelineRow, KB!TaskStatus
  <2> QED
    BY <2>1, <2>3, <2>5 DEF Rows
<1>2. Typed /\ Capacity /\ Rows => TypeOK
  <2> SUFFICES ASSUME Typed, Capacity, Rows PROVE TypeOK
    OBVIOUS
  <2>1. ASSUME NEW n \in Name
        PROVE  \/ inbox[n] = NoFile
               \/ /\ Len(inbox[n]) <= MaxMessages
                  /\ \A i \in DOMAIN inbox[n] : inbox[n][i] \in Message
    BY DEF Typed, Capacity, Messages
  <2>2. sent \in 0 .. MaxSent
    BY MessagingAssumption DEF Typed, Capacity
  <2>3. KB!BoardTypeOK
    BY DEF Typed, Rows, KB!BoardTypeOK
  <2>4. \A p \in Process :
          op[p].do \in {"idle", "append", "drain", "select", "update", "row"}
    BY DEF Typed, Op, Idle, Appending, Draining, Mirroring
  <2> QED
    BY <2>1, <2>2, <2>3, <2>4 DEF TypeOK, Typed
<1> QED
  BY <1>1, <1>2, CapacityStep, RowsStep, Typing, PTL DEF Spec

-----------------------------------------------------------------------------
(* What a list reads as.                                                   *)
LEMMA Reads == \A f \in Messages : Content(f) = f
BY NotLists DEF Content

(* An append ends with a file the process is no longer in, and goes on to  *)
(* the other files of a broadcast or to what comes after the sending.      *)
Written(p) == Append(op[p].raw, op[p].msg)

LEMMA AppendStep ==
  ASSUME Typed, NEW p \in Process, WriteAppend(p)
  PROVE  /\ op[p] \in Appending /\ op[p].at \in Name /\ op[p].msg \in Message
         /\ op[p].raw \in Messages /\ Written(p) \in Messages /\ <<op[p].msg>> \in Messages
         /\ Pending(p, op[p].at)
         /\ WriteFile(p, op[p].at, Capped(Written(p)), <<op[p].msg>>, CutOff(Written(p)))
         /\ inbox' = [inbox EXCEPT ![op[p].at] = Capped(Written(p))]
         /\ raced' \in {raced, raced \cup {op[p].at}}
         /\ \A q \in Process \ {p} : op'[q] = op[q]
         /\ Goes(op'[p], op[p].rest, op[p].msg, op[p].next)
         /\ op[p].next \in Mirroring \cup {Idle}
         /\ sent' = sent
<1>1. op[p] \in Appending /\ Pending(p, op[p].at) /\ op[p].raw # NoRaw
  BY OpIs DEF WriteAppend, Pending
<1>2. op[p].raw \in Messages /\ op[p].msg \in Message /\ op[p].at \in Name /\ op[p].rest \in SUBSET Name
      /\ op[p].next \in Mirroring \cup {Idle}
  BY <1>1 DEF Appending
<1>3. Written(p) \in Messages /\ <<op[p].msg>> \in Messages
  BY <1>2, AppendProperties DEF Messages, Written
<1>4. WriteFile(p, op[p].at, Capped(Written(p)), <<op[p].msg>>, CutOff(Written(p))) /\ sent' = sent
  BY DEF WriteAppend, CutOff, Written
<1>5. op' = [op EXCEPT ![p] = AppendTo(op[p].rest, op[p].msg, op[p].next)]
  BY DEF WriteAppend
<1>6. op'[p] = AppendTo(op[p].rest, op[p].msg, op[p].next) /\ \A q \in Process \ {p} : op'[q] = op[q]
  BY <1>5 DEF Typed
<1>7. /\ inbox' = [inbox EXCEPT ![op[p].at] = Capped(Written(p))]
      /\ raced' \in {raced, raced \cup {op[p].at}}
  BY <1>4 DEF WriteFile
<1>8. Goes(op'[p], op[p].rest, op[p].msg, op[p].next)
  BY <1>2, <1>6, AppendToIs
<1> QED
  BY <1>1, <1>2, <1>3, <1>4, <1>6, <1>7, <1>8

(* Lists are put together in any order.                                    *)
LEMMA Associate == \A f, g, h \in Messages : (f \o g) \o h = f \o (g \o h)
BY ConcatAssociative DEF Messages

(* What leaves a list at the front and comes in at the end; what left it   *)
(* before changes nothing about that.                                      *)
Moves(raw, new, in, out) == out \o new = raw \o in

LEMMA Shift ==
  ASSUME NEW g \in Messages, NEW raw \in Messages, NEW new \in Messages,
         NEW in \in Messages, NEW out \in Messages
  PROVE  Moves(raw, new, in, out) => Moves(g \o raw, new, in, g \o out)
<1> DEFINE Cat(f, h) == f \o h
<1>1. \A f, k, h \in Messages : Cat(Cat(f, k), h) = Cat(f, Cat(k, h))
  BY Associate
<1> HIDE DEF Cat
<1>2. Cat(out, new) = Cat(raw, in) => Cat(Cat(g, out), new) = Cat(Cat(g, raw), in)
  BY <1>1
<1> QED
  BY <1>2 DEF Cat, Moves

(* A write into a file nobody raced for takes out of the front and puts in *)
(* at the end; any other counts as a race.                                 *)
LEMMA QueueWrite ==
  ASSUME Typed, QueueInv, NEW p \in Process, NEW n \in Name,
         NEW new \in Messages, NEW in \in Messages, NEW out \in Messages,
         WriteFile(p, n, new, in, out),
         Pending(p, n), op[p].raw \in Messages, out \o new = op[p].raw \o in,
         \A k : ~Pending(p, k)', \A q \in Process \ {p} : op'[q] = op[q]
  PROVE  QueueInv'
<1>1. inbox' = [inbox EXCEPT ![n] = new] /\ raced \subseteq raced'
  BY DEF WriteFile
<1>2. \A k \in Name \ {n} : inbox'[k] = inbox[k]
  BY <1>1 DEF Typed
<1>3. inbox'[n] = new
  BY <1>1 DEF Typed
<1>4. CASE n \in raced \/ \E q \in Process \ {p} : Pending(q, n)
  <2>1. /\ raced' = raced \cup {n}
        /\ \A k \in Name \ {n} : gone'[k] = gone[k] /\ log'[k] = log[k]
    BY <1>4 DEF WriteFile, Typed
  <2>2. ASSUME NEW q \in Process, NEW k \in Name \ raced', Pending(q, k)'
        PROVE  op'[q].raw = Content(inbox'[k])
    <3>1. q # p /\ k # n /\ k \notin raced
      BY <2>1, <2>2
    <3>2. op'[q] = op[q] /\ inbox'[k] = inbox[k]
      BY <1>2, <3>1
    <3>3. Pending(q, k)
      BY <2>2, <3>2 DEF Pending
    <3> QED
      BY <3>1, <3>2, <3>3 DEF QueueInv
  <2>3. \A k \in Name \ raced' : gone'[k] \o Content(inbox'[k]) = log'[k]
    BY <1>2, <2>1 DEF QueueInv, QueueUnlessRaced
  <2> QED
    BY <2>2, <2>3 DEF QueueInv, QueueUnlessRaced
<1>5. CASE ~ (n \in raced \/ \E q \in Process \ {p} : Pending(q, n))
  <2>1. /\ raced' = raced
        /\ log' = [log EXCEPT ![n] = log[n] \o in]
        /\ gone' = [gone EXCEPT ![n] = gone[n] \o out]
    BY <1>5 DEF WriteFile
  <2>2. ASSUME NEW q \in Process, NEW k \in Name \ raced', Pending(q, k)'
        PROVE  op'[q].raw = Content(inbox'[k])
    <3>1. q # p /\ k \notin raced
      BY <2>1, <2>2
    <3>2. op'[q] = op[q]
      BY <3>1
    <3>3. Pending(q, k)
      BY <2>2, <3>2 DEF Pending
    <3>4. inbox'[k] = inbox[k]
      BY <1>2, <1>5, <3>1, <3>3
    <3> QED
      BY <3>1, <3>2, <3>3, <3>4 DEF QueueInv
  <2>3. gone'[n] \o Content(inbox'[n]) = log'[n]
    <3> DEFINE raw == op[p].raw
    <3>1. raw = Content(inbox[n]) /\ gone[n] \o raw = log[n]
      BY <1>5 DEF QueueInv, QueueUnlessRaced
    <3>2. gone[n] \in Messages /\ raw \in Messages
      BY DEF Typed
    <3>3. gone'[n] = gone[n] \o out /\ log'[n] = log[n] \o in
      BY <2>1 DEF Typed
    <3> HIDE DEF raw
    <3>4. Moves(raw, new, in, out)
      BY DEF raw, Moves
    <3>5. Moves(gone[n] \o raw, new, in, gone[n] \o out)
      BY <3>2, <3>4, Shift, Zenon
    <3>6. Content(inbox'[n]) = new
      BY <1>3, Reads
    <3> QED
      BY <3>1, <3>3, <3>5, <3>6 DEF Moves
  <2>4. ASSUME NEW k \in Name \ raced', k # n PROVE gone'[k] \o Content(inbox'[k]) = log'[k]
    <3>1. gone'[k] = gone[k] /\ log'[k] = log[k] /\ inbox'[k] = inbox[k]
      BY <1>2, <2>1, <2>4 DEF Typed
    <3> QED
      BY <2>1, <3>1 DEF QueueInv, QueueUnlessRaced
  <2> QED
    BY <2>2, <2>3, <2>4 DEF QueueInv, QueueUnlessRaced
<1> QED
  BY <1>4, <1>5

(* Who reads a file finds in it what is in it, and who writes one that     *)
(* nobody else is in adds to what it read or takes it away.                *)
LEMMA QueueStep ==
  ASSUME Typed, QueueInv, NEW p \in Process, MailView(p)
  PROVE  QueueInv'
<1>1. ASSUME UNCHANGED <<inbox, gone, log, raced>>, \A q \in Process \ {p} : op'[q] = op[q],
             \A n \in Name : Pending(p, n)' => op'[p].raw = Content(inbox[n])
      PROVE  QueueInv'
  <2>1. ASSUME NEW q \in Process, NEW n \in Name \ raced, Pending(q, n)', q # p
        PROVE  op'[q].raw = Content(inbox[n])
    <3>1. op'[q] = op[q]
      BY <1>1, <2>1
    <3>2. Pending(q, n)
      BY <2>1, <3>1 DEF Pending
    <3> QED
      BY <3>1, <3>2 DEF QueueInv
  <2>2. \A q \in Process : \A n \in Name \ raced : Pending(q, n)' => op'[q].raw = Content(inbox[n])
    BY <1>1, <2>1
  <2>3. QueueUnlessRaced'
    BY <1>1 DEF QueueInv, QueueUnlessRaced
  <2> QED
    BY <1>1, <2>2, <2>3 DEF QueueInv
<1>2. ASSUME NEW v, op' = [op EXCEPT ![p] = v]
      PROVE  op'[p] = v /\ \A q \in Process \ {p} : op'[q] = op[q]
  BY <1>2 DEF Typed
<1>3. ASSUME NEW m \in Message, NEW todo \in SUBSET Name, NEW next \in Mirroring \cup {Idle},
             Starts(p, m, todo, next)
      PROVE  QueueInv'
  <2>1. op'[p] = AppendTo(todo, m, next) /\ \A q \in Process \ {p} : op'[q] = op[q]
    BY <1>2, <1>3 DEF Starts
  <2>2. Goes(op'[p], todo, m, next)
    BY <2>1, AppendToIs
  <2>3. \A n : ~Pending(p, n)'
    BY <2>2 DEF Pending, Mirroring, Idle, Goes
  <2> QED
    BY <1>1, <1>3, <2>1, <2>3 DEF Starts
<1>4. CASE ReadForAppend(p)
  <2>1. op' = [op EXCEPT ![p] = [op[p] EXCEPT !.raw = Content(inbox[op[p].at])]]
    BY <1>4 DEF ReadForAppend
  <2>2. op[p] \in Appending
    BY <1>4, OpIs DEF ReadForAppend
  <2>3. /\ op'[p] = [op[p] EXCEPT !.raw = Content(inbox[op[p].at])]
        /\ \A q \in Process \ {p} : op'[q] = op[q]
    BY <1>2, <2>1
  <2>4. op'[p].at = op[p].at /\ op'[p].raw = Content(inbox[op[p].at])
    BY <2>2, <2>3 DEF Appending
  <2> QED
    BY <1>1, <1>4, <2>3, <2>4 DEF ReadForAppend, Pending
<1>5. CASE WriteAppend(p)
  <2>1. \A k : ~Pending(p, k)'
    <3>1. Goes(op'[p], op[p].rest, op[p].msg, op[p].next) /\ op[p].next \in Mirroring \cup {Idle}
      BY <1>5, AppendStep
    <3>2. op'[p] \in Mirroring \cup {Idle} \/ op'[p].raw = NoRaw
      BY <3>1 DEF Goes
    <3> QED
      BY <3>2 DEF Pending, Mirroring, Idle
  <2>2. Written(p) = op[p].raw \o <<op[p].msg>>
    <3>1. op[p].raw \in Seq(Message) /\ op[p].msg \in Message
      BY <1>5, AppendStep DEF Messages
    <3> QED
      BY <3>1, AppendIsConcat DEF Written
  <2>3. /\ CutOff(Written(p)) \o Capped(Written(p)) = Written(p)
        /\ Capped(Written(p)) \in Messages /\ CutOff(Written(p)) \in Messages
    BY <1>5, AppendStep, CapKeepsTheEnd
  <2> QED
    BY <1>5, <2>1, <2>2, <2>3, AppendStep, QueueWrite
<1>6. CASE StartDrain(p)
  <2>1. op'[p] = [do |-> "drain", at |-> p, raw |-> Content(inbox[p])]
        /\ \A q \in Process \ {p} : op'[q] = op[q]
    BY <1>2, <1>6 DEF StartDrain
  <2> QED
    BY <1>1, <1>6, <2>1 DEF StartDrain, Pending
<1>7. CASE Clear(p)
  <2>1. op[p].raw \in Messages /\ op[p].at = p /\ op[p].raw # NoRaw /\ p \in Name /\ << >> \in Messages
    BY <1>7, OpIs, NotLists, EmptySeq DEF Clear, Draining, Name, Messages
  <2>2. Pending(p, p)
    BY <1>7, <2>1 DEF Clear, Pending
  <2>3. op'[p] = Idle /\ \A q \in Process \ {p} : op'[q] = op[q]
    BY <1>2, <1>7 DEF Clear
  <2>4. \A k : ~Pending(p, k)'
    BY <2>3 DEF Pending, Idle
  <2>5. WriteFile(p, p, << >>, << >>, op[p].raw)
    BY <1>7 DEF Clear
  <2> QED
    BY <2>1, <2>2, <2>3, <2>4, <2>5, QueueWrite
<1>8. CASE Proceeds(p)
  <2>1. op'[p] \in Mirroring \cup {Idle} /\ \A q \in Process \ {p} : op'[q] = op[q]
    BY <1>2, <1>8 DEF Proceeds
  <2>2. \A n : ~Pending(p, n)'
    BY <2>1 DEF Pending, Mirroring, Idle
  <2> QED
    BY <1>1, <1>8, <2>1, <2>2 DEF Proceeds
<1> QED
  BY <1>3, <1>4, <1>5, <1>6, <1>7, <1>8 DEF MailView

LEMMA Queueing == Spec => []QueueInv
<1>1. Init => QueueInv
  <2> SUFFICES ASSUME Init PROVE QueueInv
    OBVIOUS
  <2>1. \A p \in Process : op[p] = Idle
    BY DEF Init, MailInit
  <2>2. \A n \in Name : gone[n] = << >> /\ log[n] = << >> /\ Content(inbox[n]) = << >>
    BY DEF Init, MailInit, Content
  <2>3. << >> \o << >> = << >>
    BY EmptySeq, ConcatEmptySeq
  <2>4. \A p \in Process : \A n : ~Pending(p, n)
    BY <2>1 DEF Pending, Idle
  <2> QED
    BY <2>2, <2>3, <2>4 DEF QueueInv, QueueUnlessRaced
<1>2. Typed /\ QueueInv /\ [Next]_busVars => QueueInv'
  <2>1. CASE UNCHANGED busVars
    BY <2>1 DEF busVars, mailVars, QueueInv, QueueUnlessRaced, Pending
  <2> QED
    BY <2>1, BusSteps, Views, QueueStep
<1> QED
  BY <1>1, <1>2, Typing, PTL DEF Spec

(* messaging.py:3-16: an inbox no two processes were in at once is a       *)
(* bounded queue, however many use it and wherever they die.               *)
THEOREM InboxIsAQueue == Spec => []QueueUnlessRaced
<1>1. QueueInv => QueueUnlessRaced
  BY DEF QueueInv
<1> QED
  BY <1>1, Queueing, PTL

-----------------------------------------------------------------------------
(* What an operation becomes, for the process that is at work and the      *)
(* message it has in hand.                                                 *)
LEMMA HandStep ==
  ASSUME Typed, NEW p \in Process, MailView(p)
  PROVE  /\ \A q \in Process \ {p} : op'[q] = op[q]
         /\ \/ ~Adding(p)'
            \/ \E m \in Message : /\ m.ts = sent + 1 /\ m.sender = p /\ sent' = sent + 1
                                  /\ op'[p].msg = m /\ op'[p].at \notin op'[p].rest
            \/ /\ Adding(p) /\ sent' = sent /\ op'[p].msg = op[p].msg
               /\ op'[p].at = op[p].at /\ op'[p].rest = op[p].rest
            \/ /\ WriteAppend(p) /\ sent' = sent /\ op'[p].msg = op[p].msg
               /\ op'[p].at \in op[p].rest /\ op'[p].rest = op[p].rest \ {op'[p].at}
         /\ sent' \in {sent, sent + 1}
<1>2. ASSUME NEW v, op' = [op EXCEPT ![p] = v]
      PROVE  op'[p] = v /\ \A q \in Process \ {p} : op'[q] = op[q]
  BY <1>2 DEF Typed
<1>3. ASSUME NEW m \in Message, NEW todo \in SUBSET Name, NEW next \in Mirroring \cup {Idle},
             Starts(p, m, todo, next)
      PROVE  /\ \A q \in Process \ {p} : op'[q] = op[q]
             /\ Adding(p)' => op'[p].msg = m /\ op'[p].at \notin op'[p].rest
  <2>0. op'[p] = AppendTo(todo, m, next) /\ \A q \in Process \ {p} : op'[q] = op[q]
    BY <1>2, <1>3 DEF Starts
  <2>1. Goes(op'[p], todo, m, next)
    BY <2>0, AppendToIs
  <2>2. \/ op'[p] \in Mirroring \cup {Idle}
        \/ op'[p].msg = m /\ op'[p].at \notin op'[p].rest
    BY <2>1 DEF Goes
  <2>3. op'[p] \in Mirroring \cup {Idle} => ~Adding(p)'
    BY DEF Adding, Mirroring, Idle
  <2>4. Adding(p)' => op'[p].msg = m /\ op'[p].at \notin op'[p].rest
    BY <2>2, <2>3
  <2> QED
    BY <2>0, <2>4
<1>4. CASE ReadForAppend(p)
  <2>1. op[p] \in Appending /\ op[p].do = "append"
    BY <1>4, OpIs DEF ReadForAppend
  <2>2. /\ op'[p] = [op[p] EXCEPT !.raw = Content(inbox[op[p].at])]
        /\ \A q \in Process \ {p} : op'[q] = op[q]
    BY <1>2, <1>4 DEF ReadForAppend
  <2>3. op'[p].msg = op[p].msg /\ op'[p].at = op[p].at /\ op'[p].rest = op[p].rest
    BY <2>1, <2>2 DEF Appending
  <2> QED
    BY <1>4, <2>1, <2>2, <2>3 DEF ReadForAppend, Adding
<1>5. CASE WriteAppend(p)
  <2>1. /\ Goes(op'[p], op[p].rest, op[p].msg, op[p].next) /\ op[p].next \in Mirroring \cup {Idle}
        /\ \A q \in Process \ {p} : op'[q] = op[q]
        /\ sent' = sent
    BY <1>5, AppendStep
  <2>2. \/ op'[p] \in Mirroring \cup {Idle}
        \/ op'[p].msg = op[p].msg /\ op'[p].at \in op[p].rest /\ op'[p].rest = op[p].rest \ {op'[p].at}
    BY <2>1 DEF Goes
  <2> QED
    BY <1>5, <2>1, <2>2 DEF Adding, Mirroring, Idle
<1>6. CASE StartDrain(p)
  BY <1>2, <1>6 DEF StartDrain, Adding
<1>7. CASE Clear(p)
  BY <1>2, <1>7 DEF Clear, Adding, Idle
<1>8. CASE Proceeds(p)
  BY <1>2, <1>8 DEF Proceeds, Adding, Mirroring, Idle
<1> QED
  BY <1>3, <1>4, <1>5, <1>6, <1>7, <1>8 DEF MailView, Starts

(* Nothing new comes into a file or into anybody's hands but by an append. *)
LEMMA CopyStep ==
  ASSUME Typed, NEW p \in Process, MailView(p), NEW n \in Name, NEW f \in Messages, Copy(n, f)'
  PROVE  \/ Copy(n, f)
         \/ f = << >>
         \/ WriteAppend(p) /\ n = op[p].at /\ f = Capped(Written(p))
<1>1. \A q \in Process \ {p} : op'[q] = op[q]
  BY HandStep
<1>2. ASSUME NEW q \in Process \ {p}, Pending(q, n)', f = op'[q].raw PROVE Copy(n, f)
  <2>1. Pending(q, n)
    BY <1>1, <1>2 DEF Pending
  <2> QED
    BY <1>1, <1>2, <2>1 DEF Copy
<1>3. CASE Pending(p, n)' /\ f = op'[p].raw
  <2>1. ASSUME NEW m \in Message, NEW todo \in SUBSET Name, NEW next \in Mirroring \cup {Idle},
               Starts(p, m, todo, next)
        PROVE  FALSE
    <3>1. Goes(op'[p], todo, m, next)
      BY <2>1, AppendToIs DEF Starts, Typed
    <3> QED
      BY <1>3, <3>1 DEF Goes, Pending, Mirroring, Idle
  <2>2. CASE ReadForAppend(p)
    <3>1. op[p] \in Appending
      BY <2>2, OpIs DEF ReadForAppend
    <3>2. op'[p] = [op[p] EXCEPT !.raw = Content(inbox[op[p].at])]
      BY <2>2 DEF ReadForAppend, Typed
    <3>3. op'[p].at = op[p].at /\ op'[p].raw = Content(inbox[op[p].at])
      BY <3>1, <3>2 DEF Appending
    <3> QED
      BY <1>3, <3>3 DEF Copy, Pending
  <2>3. CASE WriteAppend(p)
    <3>1. Goes(op'[p], op[p].rest, op[p].msg, op[p].next) /\ op[p].next \in Mirroring \cup {Idle}
      BY <2>3, AppendStep
    <3> QED
      BY <1>3, <3>1 DEF Goes, Pending, Mirroring, Idle
  <2>4. CASE StartDrain(p)
    <3>1. op'[p] = [do |-> "drain", at |-> p, raw |-> Content(inbox[p])]
      BY <2>4 DEF StartDrain, Typed
    <3> QED
      BY <1>3, <3>1 DEF Copy, Pending
  <2>5. CASE Clear(p)
    BY <1>3, <2>5 DEF Clear, Typed, Pending, Idle
  <2>6. CASE Proceeds(p)
    BY <1>3, <2>6 DEF Proceeds, Typed, Pending, Mirroring, Idle
  <2> QED
    BY <2>1, <2>2, <2>3, <2>4, <2>5, <2>6 DEF MailView
<1>4. CASE f = Content(inbox'[n])
  <2>1. CASE inbox' = inbox
    BY <1>4, <2>1 DEF Copy
  <2>2. CASE WriteAppend(p)
    <3>1. /\ inbox' = [inbox EXCEPT ![op[p].at] = Capped(Written(p))]
          /\ Written(p) \in Messages
      BY <2>2, AppendStep
    <3>2. Content(Capped(Written(p))) = Capped(Written(p))
      BY <3>1, CapKeepsTheEnd, Reads
    <3>3. inbox'[n] = IF n = op[p].at THEN Capped(Written(p)) ELSE inbox[n]
      BY <3>1 DEF Typed
    <3> QED
      BY <1>4, <2>2, <3>2, <3>3 DEF Copy
  <2>3. CASE Clear(p)
    <3>1. inbox' = [inbox EXCEPT ![p] = << >>]
      BY <2>3 DEF Clear, WriteFile
    <3>2. inbox'[n] = IF n = p THEN << >> ELSE inbox[n]
      BY <3>1 DEF Typed
    <3>3. Content(<< >>) = << >>
      BY DEF Content
    <3> QED
      BY <1>4, <3>2, <3>3 DEF Copy
  <2> QED
    BY <2>1, <2>2, <2>3 DEF MailView, Starts, ReadForAppend, StartDrain, Proceeds
<1> QED
  BY <1>2, <1>3, <1>4 DEF Copy

(* A message that has settled in a file stays so.                          *)
LEMMA SettledStep ==
  ASSUME Typed, OwnMessages, NEW p \in Process, MailView(p),
         NEW n \in Name, NEW x \in Message, Settled(n, x)
  PROVE  Settled(n, x)'
<1>1. x.ts \in Nat /\ sent \in Nat /\ x.ts <= sent
  BY Parts DEF Typed, Settled
<1>2. x.ts <= sent'
  BY <1>1, HandStep
<1>3. ASSUME NEW q \in Process, Adding(q)' PROVE NewTo(q, n, x)'
  <2>1. CASE q # p
    <3>1. op'[q] = op[q]
      BY <2>1, HandStep
    <3> QED
      BY <1>3, <3>1 DEF Settled, NewTo, Adding
  <2>2. CASE q = p
    <3>1. ASSUME NEW m \in Message, m.ts = sent + 1, m.sender = p, op'[p].msg = m
          PROVE  NewTo(p, n, x)'
      <4>1. x.ts < m.ts /\ x.ts <= m.ts /\ x.ts # m.ts
        BY <1>1, <3>1
      <4> QED
        BY <3>1, <4>1 DEF NewTo
    <3>2. ASSUME Adding(p), op'[p].msg = op[p].msg, op'[p].at = op[p].at, op'[p].rest = op[p].rest
          PROVE  NewTo(p, n, x)'
      BY <3>2 DEF Settled, NewTo
    <3>3. ASSUME WriteAppend(p), op'[p].msg = op[p].msg, op'[p].at \in op[p].rest,
                 op'[p].rest = op[p].rest \ {op'[p].at}
          PROVE  NewTo(p, n, x)'
      BY <3>3 DEF WriteAppend, Settled, NewTo, Adding
    <3> QED
      BY <1>3, <2>2, <3>1, <3>2, <3>3, HandStep
  <2> QED
    BY <2>1, <2>2
<1> QED
  BY <1>2, <1>3 DEF Settled

LEMMA OwnStep ==
  ASSUME Typed, OwnMessages, NEW p \in Process, MailView(p)
  PROVE  OwnMessages'
<1> DEFINE Own(q) == op[q].msg.sender = q /\ op[q].msg.ts <= sent /\ op[q].at \notin op[q].rest
<1>0. sent \in Nat /\ \A q \in Process : Adding(q) => op[q].msg.ts \in Nat
  BY OpIs, Parts DEF Typed, Adding, Appending
<1>1. ASSUME NEW q \in Process \ {p}, Adding(q)' PROVE Own(q)' /\ Adding(q) /\ op'[q].msg = op[q].msg
  <2>1. op'[q] = op[q] /\ Adding(q)
    BY <1>1, HandStep DEF Adding
  <2>2. op[q].msg.sender = q /\ op[q].msg.ts <= sent /\ op[q].at \notin op[q].rest
    BY <2>1 DEF OwnMessages
  <2>3. op[q].msg.ts <= sent'
    BY <1>0, <2>1, <2>2, HandStep
  <2> QED
    BY <2>1, <2>2, <2>3
<1>2. ASSUME Adding(p)'
      PROVE  /\ Own(p)'
             /\ \/ op'[p].msg.ts = sent + 1
                \/ Adding(p) /\ op'[p].msg = op[p].msg
  <2>1. ASSUME NEW m \in Message, m.ts = sent + 1, m.sender = p, sent' = sent + 1,
               op'[p].msg = m, op'[p].at \notin op'[p].rest
        PROVE  Own(p)' /\ op'[p].msg.ts = sent + 1
    BY <1>0, <2>1
  <2>2. ASSUME Adding(p), sent' = sent, op'[p].msg = op[p].msg, op'[p].at = op[p].at,
               op'[p].rest = op[p].rest
        PROVE  Own(p)'
    BY <2>2 DEF OwnMessages
  <2>3. ASSUME WriteAppend(p), sent' = sent, op'[p].msg = op[p].msg,
               op'[p].rest = op[p].rest \ {op'[p].at}
        PROVE  Own(p)' /\ Adding(p)
    BY <2>3 DEF WriteAppend, OwnMessages, Adding
  <2> HIDE DEF Own
  <2> QED
    BY <1>2, <2>1, <2>2, <2>3, HandStep
<1>3. ASSUME NEW q \in Process \ {p}, Adding(q)', Adding(p)', op'[q].msg.ts = op'[p].msg.ts
      PROVE  FALSE
  <2>1. Adding(q) /\ op'[q].msg = op[q].msg
    BY <1>1, <1>3
  <2>2. op[q].msg.ts <= sent /\ op[q].msg.ts \in Nat
    BY <1>0, <2>1 DEF OwnMessages
  <2>3. op'[p].msg.ts # sent + 1
    BY <1>0, <1>3, <2>1, <2>2
  <2>4. Adding(p) /\ op'[p].msg = op[p].msg
    BY <1>2, <1>3, <2>3
  <2> QED
    BY <1>3, <2>1, <2>4 DEF OwnMessages
<1>4. ASSUME NEW q \in Process, NEW r \in Process, Adding(q)', Adding(r)', op'[r].msg.ts = op'[q].msg.ts
      PROVE  q = r
  <2>1. CASE q # p /\ r # p
    <3>1. /\ Adding(q) /\ op'[q].msg = op[q].msg
          /\ Adding(r) /\ op'[r].msg = op[r].msg
      BY <1>1, <1>4, <2>1
    <3> QED
      BY <1>4, <3>1 DEF OwnMessages
  <2>2. CASE q = p \/ r = p
    BY <1>3, <1>4, <2>2
  <2> QED
    BY <2>1, <2>2
<1>5. \A q \in Process : Adding(q)' => Own(q)'
  BY <1>1, <1>2
<1> QED
  BY <1>4, <1>5 DEF OwnMessages

(* What is written is what was read and the message, which is new there.   *)
LEMMA WrittenStep ==
  ASSUME Typed, OrderInv, NEW p \in Process, MailView(p), WriteAppend(p),
         NEW n, n = op[p].at, NEW f, f = Capped(Written(p))
  PROVE  InOrder(f) /\ \A i \in 1 .. Len(f) : Settled(n, f[i])'
<1>0. PICK raw, m, w : raw = op[p].raw /\ m = op[p].msg /\ w = Written(p)
  OBVIOUS
<1>1. /\ raw \in Messages /\ m \in Message /\ n \in Name /\ Pending(p, n) /\ Adding(p)
      /\ w \in Messages
  BY <1>0, AppendStep DEF WriteAppend, Adding
<1>2. InOrder(raw) /\ \A i \in 1 .. Len(raw) : Settled(n, raw[i])
  BY <1>0, <1>1 DEF OrderInv, Copy
<1>3. /\ Len(raw) \in Nat /\ Len(w) = Len(raw) + 1
      /\ \A i \in 1 .. Len(raw) : w[i] = raw[i] /\ raw[i] \in Message
      /\ w[Len(raw) + 1] = m
  BY <1>0, <1>1, AppendProperties, LenProperties DEF Messages, Written
<1>4. m.sender = p /\ m.ts <= sent /\ n \notin op[p].rest
  BY <1>0, <1>1 DEF OrderInv, OwnMessages
<1>5. Settled(n, m)'
  <2>1. m.ts <= sent'
    BY <1>4, AppendStep
  <2>2. ASSUME NEW q \in Process, Adding(q)' PROVE NewTo(q, n, m)'
    <3>1. CASE q # p
      <4>1. op'[q] = op[q] /\ Adding(q)
        BY <2>2, <3>1, HandStep DEF Adding
      <4>2. m.ts # op[q].msg.ts
        BY <1>0, <1>1, <3>1, <4>1 DEF OrderInv, OwnMessages
      <4> QED
        BY <1>1, <1>4, <3>1, <4>1, <4>2 DEF NewTo
    <3>2. CASE q = p
      <4>1. Goes(op'[p], op[p].rest, m, op[p].next) /\ op[p].next \in Mirroring \cup {Idle}
        BY <1>0, AppendStep
      <4>2. op'[p].msg = m /\ op'[p].at \in op[p].rest /\ op'[p].rest = op[p].rest \ {op'[p].at}
        BY <2>2, <3>2, <4>1 DEF Goes, Adding, Mirroring, Idle
      <4>3. m.ts <= m.ts
        BY <1>1, Parts
      <4> QED
        BY <1>4, <3>2, <4>2, <4>3 DEF NewTo
    <3> QED
      BY <3>1, <3>2
  <2> QED
    BY <2>1, <2>2 DEF Settled
<1>6. \A i \in 1 .. Len(w) : Settled(n, w[i])'
  <2> TAKE i \in 1 .. Len(w)
  <2>1. CASE i \in 1 .. Len(raw)
    <3>1. raw[i] \in Message /\ Settled(n, raw[i]) /\ w[i] = raw[i]
      BY <1>2, <1>3, <2>1
    <3>2. Settled(n, raw[i])'
      BY <1>1, <3>1, SettledStep DEF OrderInv
    <3> QED
      BY <3>1, <3>2
  <2>2. CASE i = Len(raw) + 1
    BY <1>3, <1>5, <2>2
  <2> QED
    BY <1>3, <2>1, <2>2
<1>7. InOrder(w)
  <2> SUFFICES ASSUME NEW i \in 1 .. Len(w), NEW j \in 1 .. Len(w), i < j
               PROVE  /\ w[i].ts # w[j].ts
                      /\ w[i].sender = w[j].sender => w[i].ts < w[j].ts
    BY DEF InOrder
  <2>1. i \in 1 .. Len(raw) /\ w[i] = raw[i] /\ raw[i] \in Message
    BY <1>3
  <2>2. CASE j \in 1 .. Len(raw)
    BY <1>2, <1>3, <2>1, <2>2 DEF InOrder
  <2>3. CASE j = Len(raw) + 1
    <3>1. NewTo(p, n, raw[i])
      BY <1>1, <1>2, <2>1 DEF Settled
    <3>2. raw[i].ts # m.ts /\ (raw[i].sender = p => raw[i].ts <= m.ts)
      BY <1>0, <3>1 DEF NewTo
    <3>3. raw[i].ts \in Nat /\ m.ts \in Nat
      BY <1>1, <2>1, Parts
    <3>4. raw[i].sender = p => raw[i].ts < m.ts
      BY <3>2, <3>3
    <3> QED
      BY <1>3, <1>4, <2>1, <2>3, <3>2, <3>4
  <2> QED
    BY <1>3, <2>2, <2>3
<1>8. PICK k \in Nat : /\ Len(w) = Len(f) + k
                       /\ \A i \in 1 .. Len(f) : f[i] = w[i + k]
  BY <1>0, <1>1, CapKeepsTheEnd
<1>9. f \in Messages /\ Len(f) \in Nat
  BY <1>0, <1>1, CapKeepsTheEnd, LenProperties DEF Messages
<1>10. \A i \in 1 .. Len(f) : i + k \in 1 .. Len(w)
  BY <1>8, <1>9
<1>11. \A i \in 1 .. Len(f) : Settled(n, f[i])'
  BY <1>6, <1>8, <1>10
<1>12. InOrder(f)
  <2> SUFFICES ASSUME NEW i \in 1 .. Len(f), NEW j \in 1 .. Len(f), i < j
               PROVE  f[i].ts # f[j].ts /\ (f[i].sender = f[j].sender => f[i].ts < f[j].ts)
    BY DEF InOrder
  <2>1. i + k \in 1 .. Len(w) /\ j + k \in 1 .. Len(w) /\ i + k < j + k
    BY <1>9, <1>10
  <2>2. f[i] = w[i + k] /\ f[j] = w[j + k]
    BY <1>8
  <2>3. /\ w[i + k].ts # w[j + k].ts
        /\ w[i + k].sender = w[j + k].sender => w[i + k].ts < w[j + k].ts
    BY <1>7, <2>1 DEF InOrder
  <2> QED
    BY <2>2, <2>3
<1> QED
  BY <1>11, <1>12

LEMMA OrderStep ==
  ASSUME Typed, OrderInv, NEW p \in Process, MailView(p)
  PROVE  OrderInv'
<1>1. OwnMessages'
  BY OwnStep DEF OrderInv
<1>2. ASSUME NEW n \in Name, NEW f \in Messages, Copy(n, f)'
      PROVE  InOrder(f) /\ \A i \in 1 .. Len(f) : Settled(n, f[i])'
  <2>1. CASE Copy(n, f)
    <3>1. InOrder(f) /\ \A i \in 1 .. Len(f) : Settled(n, f[i]) /\ f[i] \in Message
      BY <2>1, LenProperties DEF OrderInv, Messages
    <3> QED
      BY <3>1, SettledStep DEF OrderInv
  <2>2. CASE f = << >>
    BY <2>2 DEF InOrder
  <2>3. CASE WriteAppend(p) /\ n = op[p].at /\ f = Capped(Written(p))
    BY <2>3, WrittenStep
  <2> QED
    BY <1>2, <2>1, <2>2, <2>3, CopyStep
<1> QED
  BY <1>1, <1>2 DEF OrderInv, InOrder

LEMMA Ordering == Spec => []OrderInv
<1>1. Init => OrderInv
  <2> SUFFICES ASSUME Init PROVE OrderInv
    OBVIOUS
  <2>1. \A p \in Process : ~Adding(p) /\ \A n : ~Pending(p, n)
    BY DEF Init, MailInit, Idle, Adding, Pending
  <2>2. \A n \in Name : Content(inbox[n]) = << >>
    BY DEF Init, MailInit, Content
  <2>3. InOrder(<< >>) /\ \A n : \A i \in 1 .. Len(<< >>) : Settled(n, << >>[i])
    BY DEF InOrder
  <2> QED
    BY <2>1, <2>2, <2>3 DEF OrderInv, OwnMessages, Copy
<1>2. OrderInv /\ UNCHANGED busVars => OrderInv'
  BY DEF busVars, mailVars, OrderInv, OwnMessages, Copy, InOrder, Settled, NewTo, Adding, Pending
<1>3. Typed /\ OrderInv /\ [Next]_busVars => OrderInv'
  BY <1>2, BusSteps, Views, OrderStep
<1> QED
  BY <1>1, <1>3, Typing, PTL DEF Spec

(* messaging.py:80: no message is twice in an inbox and no sender's come   *)
(* out of order there, whatever the processes overwrite of each other's.   *)
THEOREM InboxIsInOrder == Spec => []OldestFirst
<1>1. Typed /\ OrderInv => OldestFirst
  <2> SUFFICES ASSUME Typed, OrderInv, NEW n \in Name PROVE InOrder(Content(inbox[n]))
    BY DEF OldestFirst, InOrder
  <2> QED
    BY Contents DEF OrderInv, Copy
<1> QED
  BY <1>1, Typing, Ordering, PTL

-----------------------------------------------------------------------------
(* The file a message was appended to, and nobody raced for: what is newly *)
(* the last report on a task there was the last one before, or is the      *)
(* message.                                                                *)
Newest(S, x) == x \in S /\ \A y \in S : y.ts <= x.ts

LEMMA AboutIs ==
  ASSUME Typed, NEW n \in Name, NEW t \in Ref, NEW f \in Messages, f = Content(inbox[n])
  PROVE  About(n, t) = {f[i] : i \in {j \in 1 .. Len(f) : f[j].task = t /\ f[j].kind \in Reported}}
<1>1. ToSet(f) = {f[i] : i \in 1 .. Len(f)}
  BY LenProperties DEF ToSet, Messages
<1> QED
  BY <1>1 DEF About

LEMMA AboutWritten ==
  ASSUME Typed, Typed', QueueInv, OrderInv, Accounted, NEW p \in Process, WriteAppend(p), MailView(p),
         NEW n, n = op[p].at, n \notin raced', NEW m, m = op[p].msg,
         NEW t \in Ref, NEW q \in Process, reports[t] = {<<q, n>>}
  PROVE  \A x : Newest(About(n, t)', x) =>
           IF m.kind \in Reported /\ m.task = t THEN m.sender = q => x = m
           ELSE Newest(About(n, t), x)
<1>0. PICK raw, w, f : raw = op[p].raw /\ w = Written(p) /\ f = Capped(w)
  OBVIOUS
<1>1. /\ raw \in Messages /\ m \in Message /\ n \in Name /\ Pending(p, n)
      /\ w \in Messages /\ inbox' = [inbox EXCEPT ![n] = f] /\ raced \subseteq raced'
  BY <1>0, AppendStep
<1>2. raw = Content(inbox[n]) /\ Copy(n, raw)
  BY <1>0, <1>1 DEF QueueInv, Copy
<1>3. /\ Len(raw) \in Nat /\ Len(w) = Len(raw) + 1
      /\ \A i \in 1 .. Len(raw) : w[i] = raw[i] /\ raw[i] \in Message
      /\ w[Len(raw) + 1] = m
  BY <1>0, <1>1, AppendProperties, LenProperties DEF Messages, Written
<1>4. /\ f \in Messages /\ Len(f) \in Nat /\ Len(f) > 0
  <2>1. f \in Messages /\ Len(w) > 0
    BY <1>0, <1>1, <1>3, CapKeepsTheEnd
  <2>2. Len(w) > 0 => Len(f) > 0
    BY <1>0, <1>1, CapKeepsTheEnd
  <2> QED
    BY <2>1, <2>2, LenProperties DEF Messages
<1>5. PICK k \in Nat : /\ Len(w) = Len(f) + k
                       /\ \A i \in 1 .. Len(f) : f[i] = w[i + k]
  BY <1>0, <1>1, CapKeepsTheEnd
<1>6. f = Content(inbox'[n])
  BY <1>1, <1>4, Reads DEF Typed
<1> DEFINE On(x) == x.task = t /\ x.kind \in Reported
<1>7. About(n, t) = {raw[i] : i \in {j \in 1 .. Len(raw) : On(raw[j])}}
  BY <1>1, <1>2, AboutIs
<1>8. About(n, t)' = {f[i] : i \in {j \in 1 .. Len(f) : On(f[j])}}
  <2>1. ToSet(f) = {f[i] : i \in 1 .. Len(f)}
    BY <1>4, LenProperties DEF ToSet, Messages
  <2> QED
    BY <1>6, <2>1 DEF About
<1>9. \A i \in 1 .. Len(raw) : On(raw[i]) => raw[i].sender = q
  <2> SUFFICES ASSUME NEW i \in 1 .. Len(raw), On(raw[i]) PROVE raw[i].sender = q
    OBVIOUS
  <2>1. Known(n, raw[i])
    BY <1>1, <1>2 DEF Accounted
  <2> QED
    BY <2>1 DEF Known
<1>10. /\ InOrder(raw) /\ m.sender = p
       /\ \A i \in 1 .. Len(raw) : NewTo(p, n, raw[i])
  BY <1>1, <1>2 DEF OrderInv, OwnMessages, Settled, WriteAppend, Adding
<1> HIDE DEF On
<1> SUFFICES ASSUME NEW x, x \in About(n, t)', \A y \in About(n, t)' : y.ts <= x.ts
             PROVE  IF m.kind \in Reported /\ m.task = t THEN m.sender = q => x = m
                    ELSE Newest(About(n, t), x)
  BY DEF Newest
<1>11. PICK i \in 1 .. Len(f) : x = f[i] /\ On(f[i])
  BY <1>8
<1>12. i + k \in 1 .. Len(w) /\ x = w[i + k]
  BY <1>3, <1>4, <1>5, <1>11
<1>13. CASE On(m)
  <2>1. m \in About(n, t)'
    <3>1. Len(f) \in 1 .. Len(f) /\ Len(f) + k = Len(raw) + 1
      BY <1>3, <1>4, <1>5
    <3>2. f[Len(f)] = m
      BY <1>3, <1>5, <3>1
    <3> QED
      BY <1>8, <1>13, <3>1, <3>2
  <2>2. ASSUME i + k \in 1 .. Len(raw), m.sender = q PROVE FALSE
    <3>1. x = raw[i + k] /\ x.sender = q /\ x \in Message
      BY <1>3, <1>9, <1>11, <1>12, <2>2
    <3>2. NewTo(p, n, x)
      BY <1>10, <2>2, <3>1
    <3>3. x.ts # m.ts /\ x.ts <= m.ts
      BY <1>0, <1>10, <2>2, <3>1, <3>2 DEF NewTo
    <3>4. x.ts \in Nat /\ m.ts \in Nat /\ m.ts <= x.ts
      BY <1>1, <2>1, <3>1, Parts
    <3> QED
      BY <3>3, <3>4
  <2>3. m.sender = q => x = m
    BY <1>3, <1>12, <2>2
  <2> QED
    BY <1>13, <2>3 DEF On
<1>14. CASE ~On(m)
  <2>1. i + k \in 1 .. Len(raw) /\ x = raw[i + k] /\ On(raw[i + k])
    BY <1>3, <1>11, <1>12, <1>14
  <2>2. x \in About(n, t)
    BY <1>7, <2>1
  <2>3. ASSUME NEW y \in About(n, t) PROVE y.ts <= x.ts
    <3>1. PICK j \in 1 .. Len(raw) : y = raw[j] /\ On(raw[j])
      BY <1>7
    <3>2. y.ts \in Nat /\ x.ts \in Nat /\ y.sender = q /\ x.sender = q
      BY <1>3, <1>9, <2>1, <3>1, Parts
    <3>3. CASE j < i + k
      <4>1. y.ts < x.ts
        BY <1>10, <2>1, <3>1, <3>2, <3>3 DEF InOrder
      <4> QED
        BY <3>2, <4>1
    <3>4. CASE j >= i + k
      <4>1. j - k \in 1 .. Len(f) /\ (j - k) + k = j
        BY <1>3, <1>4, <1>5, <3>4
      <4>2. f[j - k] = y
        BY <1>3, <1>5, <3>1, <4>1
      <4>3. y \in About(n, t)'
        BY <1>8, <3>1, <4>1, <4>2
      <4> QED
        BY <4>3
    <3> QED
      BY <1>3, <2>1, <3>3, <3>4
  <2> QED
    BY <1>14, <2>2, <2>3 DEF Newest, On
<1> QED
  BY <1>13, <1>14

(* What a send does, seen from the process that begins it.                 *)
LEMMA SendsStep ==
  ASSUME Typed, NEW p \in Process, NEW r \in Recipients \cup {"*"}, NEW k \in Kinds,
         NEW t \in Tasks, NEW next \in Mirroring \cup {Idle}, Sends(p, r, k, t, next)
  PROVE  /\ op[p] = Idle /\ UNCHANGED <<inbox, raced, status, torn>>
         /\ \A q \in Process \ {p} : op'[q] = op[q]
         /\ IF k \in Reported
            THEN /\ t \in Ref /\ Adding(p)' /\ op'[p].msg.kind = k /\ op'[p].msg.task = t
                 /\ op'[p].rest = {} /\ op'[p].at = r /\ r \in Process
                 /\ op'[p].next = ThenMirror(k, t)
                 /\ reports' = [reports EXCEPT ![t] = reports[t] \cup {<<p, r>>}]
            ELSE /\ reports' = reports
                 /\ \/ op'[p] = Idle
                    \/ Adding(p)' /\ op'[p].msg.kind = k /\ op'[p].next = Idle
<1>1. PICK m \in Message, todo \in SUBSET Name :
        MintedFor(m, todo, r, k, t) /\ Starts(p, m, todo, next)
  <2>1. StartSend(p, r, k, t, next)
    BY DEF Sends
  <2> QED
    BY <2>1, SendStep
<1>2. op'[p] = AppendTo(todo, m, next) /\ \A q \in Process \ {p} : op'[q] = op[q]
  BY <1>1 DEF Starts, Typed
<1>3. Goes(op'[p], todo, m, next)
  BY <1>2, AppendToIs
<1>4. CASE k \in Reported
  <2>1. r # "*" /\ next = ThenMirror(k, t)
    BY <1>4, NotLists DEF Sends, Name
  <2>2. op'[p] \in Appending /\ op'[p].at \in {r} /\ op'[p].rest = {r} \ {op'[p].at}
        /\ op'[p].msg = m /\ op'[p].next = next
    BY <1>1, <1>3, <2>1 DEF Goes, MintedFor
  <2>3. Adding(p)'
    BY <2>2 DEF Adding, Appending
  <2> QED
    BY <1>1, <1>2, <1>4, <2>1, <2>2, <2>3 DEF Sends, Starts, MintedFor
<1>5. CASE k \notin Reported
  <2>1. next = Idle /\ reports' = reports
    BY <1>5 DEF Sends
  <2>2. \/ op'[p] = Idle
        \/ op'[p] \in Appending /\ op'[p].msg = m /\ op'[p].next = Idle
    BY <1>3, <2>1 DEF Goes
  <2>3. op'[p] \in Appending => Adding(p)'
    BY DEF Adding, Appending
  <2> QED
    BY <1>1, <1>2, <1>5, <2>1, <2>2, <2>3 DEF Sends, Starts, MintedFor
<1> QED
  BY <1>4, <1>5

(* Reading a file, or emptying it, is about no report.                     *)
LEMMA ReadStep ==
  ASSUME Typed, NEW p \in Process, ReadForAppend(p) \/ StartDrain(p) \/ Clear(p)
  PROVE  /\ \A q \in Process \ {p} : op'[q] = op[q]
         /\ \/ /\ Adding(p) /\ Adding(p)' /\ op'[p].msg = op[p].msg /\ op'[p].at = op[p].at
               /\ op'[p].rest = op[p].rest /\ op'[p].next = op[p].next
            \/ op[p].do \in {"idle", "drain"} /\ op'[p].do \in {"idle", "drain"}
         /\ inbox' = inbox \/ inbox' = [inbox EXCEPT ![p] = << >>]
         /\ raced \subseteq raced'
<1>1. ASSUME NEW v, op' = [op EXCEPT ![p] = v]
      PROVE  op'[p] = v /\ \A q \in Process \ {p} : op'[q] = op[q]
  BY <1>1 DEF Typed
<1>2. CASE ReadForAppend(p)
  <2>1. op[p] \in Appending /\ op[p].do = "append"
    BY <1>2, OpIs DEF ReadForAppend
  <2>2. /\ op'[p] = [op[p] EXCEPT !.raw = Content(inbox[op[p].at])]
        /\ \A q \in Process \ {p} : op'[q] = op[q]
    BY <1>1, <1>2 DEF ReadForAppend
  <2>3. /\ op'[p].msg = op[p].msg /\ op'[p].at = op[p].at /\ op'[p].rest = op[p].rest
        /\ op'[p].next = op[p].next /\ op'[p].do = op[p].do
    BY <2>1, <2>2 DEF Appending
  <2> QED
    BY <1>2, <2>1, <2>2, <2>3 DEF ReadForAppend, Adding
<1>3. CASE StartDrain(p)
  BY <1>1, <1>3 DEF StartDrain, Idle
<1>4. CASE Clear(p)
  <2>1. /\ op'[p] = Idle /\ \A q \in Process \ {p} : op'[q] = op[q]
        /\ op[p].do = "drain"
    BY <1>1, <1>4 DEF Clear
  <2>2. inbox' = [inbox EXCEPT ![p] = << >>] /\ raced \subseteq raced'
    BY <1>4 DEF Clear, WriteFile
  <2>3. Idle.do = "idle"
    BY DEF Idle
  <2> QED
    BY <2>1, <2>2, <2>3
<1> QED
  BY <1>2, <1>3, <1>4

(* No report is forgotten.                                                 *)
LEMMA ReportsGrow ==
  ASSUME Typed, NEW p \in Process, BusStep(p), NEW t \in Ref
  PROVE  reports[t] \subseteq reports'[t]
<1>1. ASSUME NEW r, NEW k, NEW u, NEW next, Sends(p, r, k, u, next) PROVE reports[t] \subseteq reports'[t]
  BY <1>1 DEF Sends, Typed
<1>2. CASE Mirror(p)
  BY <1>2, MirrorStep
<1> QED
  BY <1>1, <1>2 DEF BusStep, Mail, Die

LEMMA KnownStep ==
  ASSUME Typed, NEW p \in Process, BusStep(p), NEW n, NEW x, Known(n, x)
  PROVE  Known(n, x)'
BY ReportsGrow DEF Known

LEMMA AccountedStep ==
  ASSUME Typed, OrderInv, Accounted, UnderWay, NEW p \in Process, BusStep(p)
  PROVE  Accounted'
<1>0. MailView(p)
  BY Views
<1> SUFFICES ASSUME NEW n \in Name, NEW f \in Messages, Copy(n, f)', NEW i \in 1 .. Len(f)
             PROVE  Known(n, f[i])'
  BY DEF Accounted
<1>1. CASE Copy(n, f)
  BY <1>1, KnownStep DEF Accounted
<1>2. CASE f = << >>
  BY <1>2
<1>3. CASE WriteAppend(p) /\ n = op[p].at /\ f = Capped(Written(p))
  <2>0. PICK raw, m, w : raw = op[p].raw /\ m = op[p].msg /\ w = Written(p)
    OBVIOUS
  <2>1. raw \in Messages /\ m \in Message /\ w \in Messages /\ Pending(p, n) /\ Adding(p)
    BY <1>3, <2>0, AppendStep DEF WriteAppend, Adding
  <2>2. /\ Len(raw) \in Nat /\ Len(w) = Len(raw) + 1
        /\ \A j \in 1 .. Len(raw) : w[j] = raw[j]
        /\ w[Len(raw) + 1] = m
    BY <2>0, <2>1, AppendProperties, LenProperties DEF Messages, Written
  <2>3. PICK k \in Nat : Len(w) = Len(f) + k /\ \A j \in 1 .. Len(f) : f[j] = w[j + k]
    BY <1>3, <2>0, <2>1, CapKeepsTheEnd
  <2>4. f[i] = w[i + k] /\ i + k \in 1 .. Len(w)
    <3>1. Len(f) \in Nat
      BY LenProperties DEF Messages
    <3> QED
      BY <2>2, <2>3, <3>1
  <2>5. CASE i + k \in 1 .. Len(raw)
    <3>1. Known(n, raw[i + k])
      BY <2>0, <2>1, <2>5 DEF Accounted, Copy
    <3>2. f[i] = raw[i + k]
      BY <2>2, <2>4, <2>5
    <3> QED
      BY <3>1, <3>2, KnownStep
  <2>6. CASE i + k = Len(raw) + 1
    <3>1. f[i] = m
      BY <2>2, <2>4, <2>6
    <3>2. Known(n, m)
      <4>1. m.sender = p
        BY <2>0, <2>1 DEF OrderInv, OwnMessages
      <4> QED
        BY <1>3, <2>0, <2>1, <4>1 DEF UnderWay, Known
    <3> QED
      BY <3>1, <3>2, KnownStep
  <2> QED
    BY <2>2, <2>4, <2>5, <2>6
<1> QED
  BY <1>0, <1>1, <1>2, <1>3, CopyStep

(* What an append leaves the process with.                                 *)
LEMMA AfterAppend ==
  ASSUME Typed, UnderWay, NEW p \in Process, WriteAppend(p)
  PROVE  /\ Adding(p) /\ \A q \in Process \ {p} : op'[q] = op[q]
         /\ UNCHANGED <<sent>>
         /\ IF op[p].msg.kind \in Reported
            THEN op[p].msg.task \in Ref /\ op'[p] = ThenMirror(op[p].msg.kind, op[p].msg.task)
            ELSE \/ op'[p] = Idle
                 \/ Adding(p)' /\ op'[p].msg = op[p].msg /\ op'[p].next = Idle
<1>1. /\ Goes(op'[p], op[p].rest, op[p].msg, op[p].next) /\ Adding(p)
      /\ sent' = sent /\ \A q \in Process \ {p} : op'[q] = op[q]
  BY AppendStep DEF WriteAppend, Adding
<1>2. CASE op[p].msg.kind \in Reported
  <2>1. op[p].msg.task \in Ref /\ op[p].rest = {}
        /\ op[p].next = ThenMirror(op[p].msg.kind, op[p].msg.task)
    BY <1>1, <1>2 DEF UnderWay
  <2> QED
    BY <1>1, <1>2, <2>1 DEF Goes
<1>3. CASE op[p].msg.kind \notin Reported
  <2>1. op[p].next = Idle
    BY <1>1, <1>3 DEF UnderWay
  <2>2. \/ op'[p] = Idle
        \/ op'[p] \in Appending /\ op'[p].msg = op[p].msg /\ op'[p].next = Idle
    BY <1>1, <2>1 DEF Goes
  <2>3. op'[p] \in Appending => Adding(p)'
    BY DEF Adding, Appending
  <2> QED
    BY <1>1, <1>3, <2>2, <2>3
<1> QED
  BY <1>2, <1>3

LEMMA UnderWayStep ==
  ASSUME Typed, UnderWay, NEW p \in Process, BusStep(p)
  PROVE  UnderWay'
<1> DEFINE Fine(q) == IF op[q].msg.kind \in Reported
                      THEN /\ op[q].msg.task \in Ref /\ op[q].rest = {}
                           /\ <<q, op[q].at>> \in reports[op[q].msg.task]
                           /\ op[q].next = ThenMirror(op[q].msg.kind, op[q].msg.task)
                      ELSE op[q].next = Idle
<1>1. \A q \in Process : Adding(q) => Fine(q)
  BY DEF UnderWay
<1>2. ASSUME NEW q \in Process, Adding(q), op'[q].msg = op[q].msg, op'[q].rest = op[q].rest,
             op'[q].at = op[q].at, op'[q].next = op[q].next
      PROVE  Fine(q)'
  <2>1. CASE op[q].msg.kind \in Reported
    <3>1. op[q].msg.task \in Ref /\ op[q].rest = {} /\ <<q, op[q].at>> \in reports[op[q].msg.task]
          /\ op[q].next = ThenMirror(op[q].msg.kind, op[q].msg.task)
      BY <1>1, <1>2, <2>1
    <3>2. <<q, op[q].at>> \in reports'[op[q].msg.task]
      BY <3>1, ReportsGrow
    <3> QED
      BY <1>2, <2>1, <3>1, <3>2 DEF ThenMirror
  <2>2. CASE op[q].msg.kind \notin Reported
    BY <1>1, <1>2, <2>2
  <2> QED
    BY <2>1, <2>2
<1>3. ASSUME Adding(p)' PROVE Fine(p)'
  <2>1. ASSUME NEW r \in Recipients \cup {"*"}, NEW k \in Kinds, NEW t \in Tasks,
               NEW next \in Mirroring \cup {Idle}, Sends(p, r, k, t, next)
        PROVE  Fine(p)'
    <3>1. CASE k \in Reported
      <4>1. /\ t \in Ref /\ op'[p].msg.kind = k /\ op'[p].msg.task = t /\ op'[p].at = r
            /\ op'[p].rest = {} /\ op'[p].next = ThenMirror(k, t)
            /\ reports' = [reports EXCEPT ![t] = reports[t] \cup {<<p, r>>}]
        BY <2>1, <3>1, SendsStep
      <4>2. <<p, r>> \in reports'[t]
        BY <4>1 DEF Typed
      <4> QED
        BY <3>1, <4>1, <4>2 DEF ThenMirror
    <3>2. CASE k \notin Reported
      <4>1. op'[p].msg.kind = k /\ op'[p].next = Idle
        BY <1>3, <2>1, <3>2, SendsStep DEF Adding, Idle
      <4> QED
        BY <3>2, <4>1
    <3> QED
      BY <3>1, <3>2
  <2>2. CASE ReadForAppend(p) \/ StartDrain(p) \/ Clear(p)
    <3>1. /\ Adding(p) /\ op'[p].msg = op[p].msg /\ op'[p].at = op[p].at
          /\ op'[p].rest = op[p].rest /\ op'[p].next = op[p].next
      BY <1>3, <2>2, ReadStep DEF Adding
    <3> QED
      BY <1>2, <3>1
  <2>3. CASE WriteAppend(p)
    <3>1. \A k, t : ThenMirror(k, t).do # "append"
      BY DEF ThenMirror
    <3>2. Idle.do # "append"
      BY DEF Idle
    <3>3. op[p].msg.kind \notin Reported
      BY <1>3, <2>3, <3>1, AfterAppend DEF Adding
    <3>4. op'[p].msg = op[p].msg /\ op'[p].next = Idle
      BY <1>3, <2>3, <3>2, <3>3, AfterAppend DEF Adding
    <3> QED
      BY <3>3, <3>4
  <2>4. CASE Mirror(p)
    BY <1>3, <2>4, MirrorStep DEF Adding, Idle
  <2>5. CASE Die(p)
    BY <1>3, <2>5 DEF Die, Crash, Typed, Adding, Idle
  <2> HIDE DEF Fine
  <2> QED
    BY <2>1, <2>2, <2>3, <2>4, <2>5 DEF BusStep, Mail
<1>4. ASSUME NEW q \in Process \ {p}, Adding(q)' PROVE Fine(q)'
  <2>1. op'[q] = op[q]
    BY Views, HandStep
  <2>2. Adding(q)
    BY <1>4, <2>1 DEF Adding
  <2> QED
    BY <1>2, <2>1, <2>2
<1>5. \A q \in Process : Adding(q)' => Fine(q)'
  <2> HIDE DEF Fine
  <2> QED
    BY <1>3, <1>4
<1> QED
  BY <1>5 DEF UnderWay

LEMMA MirrorsStep ==
  ASSUME Typed, UnderWay, Mirrors, NEW p \in Process, BusStep(p)
  PROVE  Mirrors'
<1> DEFINE Busy(q) == op[q].do \in {"select", "update", "row"}
           Fine(q) == /\ \E n \in Name : <<q, n>> \in reports[op[q].task]
                      /\ op[q].do # "select" => status[op[q].task] # "absent"
<1>0. \A q \in Process : Busy(q) => op[q].task \in Ref /\ op[q].to \in KB!TaskStatus
  BY OpIs DEF Mirroring
<1>1. \A t \in Ref : status[t] # "absent" => status'[t] # "absent"
  <2>1. ASSUME NEW r, NEW k, NEW t, NEW next, Sends(p, r, k, t, next) PROVE status' = status
    BY <2>1 DEF Sends
  <2>2. ASSUME NEW t \in Ref, Mirror(p), status'[t] = "absent" PROVE status[t] = "absent"
    <3>1. op[p].to \in KB!TaskStatus /\ op[p].task \in Ref
      BY <1>0, <2>2, MirrorStep
    <3>2. op[p].to # "absent"
      BY <3>1 DEF KB!TaskStatus
    <3>3. status' \in {status, [status EXCEPT ![op[p].task] = op[p].to]}
      BY <2>2, MirrorStep
    <3> QED
      BY <2>2, <3>1, <3>2, <3>3 DEF Typed
  <2> QED
    BY <2>1, <2>2 DEF BusStep, Mail, Die, board
<1>2. ASSUME NEW q \in Process, Busy(q), op'[q].task = op[q].task,
             op'[q].do # "select" => op[q].do # "select" \/ status[op[q].task] # "absent"
      PROVE  Fine(q)'
  <2>1. op[q].task \in Ref /\ \E n \in Name : <<q, n>> \in reports[op[q].task]
    BY <1>0, <1>2 DEF Mirrors
  <2>2. \E n \in Name : <<q, n>> \in reports'[op'[q].task]
    BY <1>2, <2>1, ReportsGrow
  <2>3. op'[q].do # "select" => status'[op'[q].task] # "absent"
    BY <1>1, <1>2, <2>1 DEF Mirrors
  <2> QED
    BY <2>2, <2>3
<1>3. ASSUME NEW q \in Process \ {p}, Busy(q)' PROVE Fine(q)'
  <2>1. op'[q] = op[q]
    BY Views, HandStep
  <2> QED
    BY <1>2, <1>3, <2>1
<1>4. ASSUME Busy(p)' PROVE Fine(p)'
  <2>1. ASSUME NEW r \in Recipients \cup {"*"}, NEW k \in Kinds, NEW t \in Tasks,
               NEW next \in Mirroring \cup {Idle}, Sends(p, r, k, t, next)
        PROVE  FALSE
    BY <1>4, <2>1, SendsStep DEF Adding, Idle
  <2>2. CASE ReadForAppend(p) \/ StartDrain(p) \/ Clear(p)
    BY <1>4, <2>2, ReadStep DEF Adding
  <2>3. CASE WriteAppend(p)
    <3>1. Adding(p) /\ op[p].msg.kind \in Reported /\ op[p].msg.task \in Ref
          /\ op'[p] = ThenMirror(op[p].msg.kind, op[p].msg.task)
      BY <1>4, <2>3, AfterAppend DEF Adding, Idle
    <3>2. op'[p].do = "select" /\ op'[p].task = op[p].msg.task
      BY <3>1 DEF ThenMirror
    <3>3. op[p].at \in Name /\ <<p, op[p].at>> \in reports[op[p].msg.task]
      BY <2>3, <3>1, AppendStep DEF UnderWay
    <3>4. <<p, op[p].at>> \in reports'[op'[p].task]
      BY <3>1, <3>2, <3>3, ReportsGrow
    <3> QED
      BY <3>2, <3>3, <3>4
  <2>4. CASE Mirror(p)
    <3>1. op'[p].task = op[p].task /\ (op'[p].do # "select" => op[p].do # "select" \/ status[op[p].task] # "absent")
      BY <1>4, <2>4, MirrorStep DEF Idle
    <3>2. Busy(p)
      BY <2>4, MirrorStep
    <3> QED
      BY <1>2, <3>1, <3>2
  <2>5. CASE Die(p)
    BY <1>4, <2>5 DEF Die, Crash, Typed, Idle
  <2> HIDE DEF Fine, Busy
  <2> QED
    BY <2>1, <2>2, <2>3, <2>4, <2>5 DEF BusStep, Mail
<1>5. \A q \in Process : Busy(q)' => Fine(q)'
  <2> HIDE DEF Fine, Busy
  <2> QED
    BY <1>3, <1>4
<1> QED
  BY <1>5 DEF Mirrors

-----------------------------------------------------------------------------
(* The row of a task keeps following an inbox that is not touched, whoever *)
(* else is at work.                                                        *)
LEMMA FollowsOthers ==
  ASSUME NEW q, NEW n, NEW t, Follows(q, n, t),
         About(n, t)' = About(n, t), status'[t] = status[t], op'[q] = op[q]
  PROVE  Follows(q, n, t)'
BY DEF Follows, ToMirror, ToSend, Says, Adding

LEMMA FollowsIdle ==
  ASSUME NEW q, NEW n, NEW t, Says(n, t, status[t]),
         About(n, t)' = About(n, t), status'[t] = status[t], ~ToMirror(q, t)'
  PROVE  Follows(q, n, t)'
BY DEF Follows, Says

LEMMA AboutSame ==
  ASSUME NEW n, NEW t, inbox'[n] = inbox[n]
  PROVE  About(n, t)' = About(n, t)
BY DEF About

LEMMA TileSend ==
  ASSUME Typed, TileInv, NEW p \in Process, NEW r \in Recipients \cup {"*"}, NEW k \in Kinds,
         NEW u \in Tasks, NEW next \in Mirroring \cup {Idle}, Sends(p, r, k, u, next),
         NEW q \in Process, NEW n \in Name, NEW t \in Ref, Sole(q, n, t)'
  PROVE  Follows(q, n, t)'
<1>1. /\ op[p] = Idle /\ UNCHANGED <<inbox, raced, status, torn>>
      /\ \A s \in Process \ {p} : op'[s] = op[s]
  BY SendsStep
<1>2. About(n, t)' = About(n, t)
  BY <1>1, AboutSame
<1>3. CASE k \in Reported /\ u = t
  <2>1. /\ Adding(p)' /\ op'[p].msg.kind = k /\ op'[p].msg.task = t /\ t \in Ref
        /\ reports' = [reports EXCEPT ![t] = reports[t] \cup {<<p, r>>}]
    BY <1>3, SendsStep
  <2>2. <<p, r>> \in reports'[t]
    BY <2>1 DEF Typed
  <2>3. q = p
    BY <2>2 DEF Sole
  <2>4. ToSend(p, t)' /\ ~ToMirror(p, t)'
    BY <1>3, <2>1 DEF ToSend, ToMirror, Adding
  <2> QED
    BY <2>3, <2>4 DEF Follows
<1>4. CASE ~ (k \in Reported /\ u = t)
  <2>1. reports'[t] = reports[t]
    BY <1>4, SendsStep DEF Typed
  <2>2. Follows(q, n, t)
    BY <1>1, <2>1 DEF Sole, TileInv
  <2>3. CASE q # p
    BY <1>1, <1>2, <2>2, <2>3, FollowsOthers
  <2>4. CASE q = p
    <3>1. Says(n, t, status[t])
      BY <1>1, <2>2, <2>4 DEF Follows, ToMirror, ToSend, Adding, Idle
    <3>2. ~ToMirror(p, t)'
      BY SendsStep DEF ToMirror, Adding, Idle
    <3> QED
      BY <1>1, <1>2, <2>4, <3>1, <3>2, FollowsIdle
  <2> QED
    BY <2>3, <2>4
<1> QED
  BY <1>3, <1>4

LEMMA TileRead ==
  ASSUME Typed, TileInv, NEW p \in Process, ReadForAppend(p) \/ StartDrain(p) \/ Clear(p),
         UNCHANGED <<status, reports, torn>>,
         NEW q \in Process, NEW n \in Name, NEW t \in Ref, Sole(q, n, t)'
  PROVE  Follows(q, n, t)'
<1>1. raced \subseteq raced' /\ \A s \in Process \ {p} : op'[s] = op[s]
  BY ReadStep
<1>2. Follows(q, n, t)
  BY <1>1 DEF Sole, TileInv
<1>3. CASE inbox'[n] = inbox[n]
  <2>1. About(n, t)' = About(n, t)
    BY <1>3, AboutSame
  <2>2. CASE q # p
    BY <1>1, <1>2, <2>1, <2>2, FollowsOthers
  <2>3. CASE q = p
    <3>1. CASE Adding(p) /\ Adding(p)' /\ op'[p].msg = op[p].msg
      BY <1>2, <2>1, <2>3, <3>1 DEF Follows, ToMirror, ToSend, Says, Adding
    <3>2. CASE op[p].do \in {"idle", "drain"} /\ op'[p].do \in {"idle", "drain"}
      <4>1. Says(n, t, status[t]) /\ ~ToMirror(p, t)'
        BY <1>2, <2>3, <3>2 DEF Follows, ToMirror, ToSend, Adding
      <4> QED
        BY <2>1, <2>3, <4>1, FollowsIdle
    <3> QED
      BY <3>1, <3>2, ReadStep
  <2> QED
    BY <2>2, <2>3
<1>4. CASE inbox'[n] # inbox[n]
  <2>1. inbox'[n] = << >>
    BY <1>4, ReadStep DEF Typed
  <2>2. About(n, t)' = {}
    BY <2>1 DEF About, Content, ToSet
  <2>3. Says(n, t, op[q].to)' /\ Says(n, t, status[t])'
    BY <2>2 DEF Says
  <2> QED
    BY <2>3 DEF Follows
<1> QED
  BY <1>3, <1>4

LEMMA TileMirror ==
  ASSUME Typed, TileInv, NEW p \in Process, Mirror(p),
         NEW q \in Process, NEW n \in Name, NEW t \in Ref, Sole(q, n, t)'
  PROVE  Follows(q, n, t)'
<1>1. /\ UNCHANGED <<inbox, raced, reports, torn>> /\ op[p].task \in Ref
      /\ \A s \in Process \ {p} : op'[s] = op[s]
  BY MirrorStep DEF Proceeds, Typed
<1>2. About(n, t)' = About(n, t)
  BY <1>1, AboutSame
<1>3. status'[t] = IF op[p].do = "update" /\ op[p].task = t THEN op[p].to ELSE status[t]
  BY <1>1, MirrorStep DEF Typed
<1>4. op[p].task = t => q = p
  <2>1. reports[t] = {<<q, n>>}
    BY <1>1 DEF Sole
  <2>2. \E k \in Name : <<p, k>> \in reports[op[p].task]
    BY MirrorStep DEF TileInv, Mirrors
  <2> QED
    BY <2>1, <2>2
<1>5. Sole(q, n, t)
  BY <1>1, <1>3, <1>4, MirrorStep DEF Sole, TileInv, Mirrors
<1>6. Follows(q, n, t)
  BY <1>5 DEF TileInv
<1>7. CASE q # p
  BY <1>1, <1>2, <1>3, <1>4, <1>6, <1>7, FollowsOthers
<1>8. CASE q = p /\ op[p].task # t
  <2>1. Says(n, t, status[t])
    BY <1>6, <1>8, MirrorStep DEF Follows, ToMirror, ToSend, Adding
  <2>2. ~ToMirror(p, t)'
    BY <1>8, MirrorStep DEF ToMirror, Idle
  <2> QED
    BY <1>2, <1>3, <1>8, <2>1, <2>2, FollowsIdle
<1>9. CASE q = p /\ op[p].task = t
  <2>1. CASE op[p].do = "select"
    <3>1. op'[p].do = "update" /\ op'[p].task = t /\ op'[p].to = op[p].to
      BY <1>5, <1>9, <2>1, MirrorStep DEF Sole
    <3>2. Says(n, t, op[p].to)
      BY <1>6, <1>9, <2>1 DEF Follows, ToMirror
    <3> QED
      BY <1>2, <1>9, <3>1, <3>2 DEF Follows, ToMirror, Says
  <2>2. CASE op[p].do = "update"
    <3>1. op'[p].do = "row" /\ status'[t] = op[p].to
      BY <1>3, <1>9, <2>2, MirrorStep
    <3>2. Says(n, t, op[p].to)
      BY <1>6, <1>9, <2>2 DEF Follows, ToMirror
    <3> QED
      BY <1>2, <1>9, <3>1, <3>2 DEF Follows, ToMirror, Says
  <2>3. CASE op[p].do = "row"
    <3>1. op'[p] = Idle /\ status'[t] = status[t]
      BY <1>3, <2>3, MirrorStep
    <3>2. Says(n, t, status[t])
      BY <1>6, <1>9, <2>3 DEF Follows, ToMirror, ToSend, Adding
    <3>3. ~ToMirror(p, t)'
      BY <3>1 DEF ToMirror, Idle
    <3> QED
      BY <1>2, <1>9, <3>1, <3>2, <3>3, FollowsIdle
  <2> QED
    BY <2>1, <2>2, <2>3, MirrorStep
<1> QED
  BY <1>7, <1>8, <1>9

LEMMA TileDie ==
  ASSUME Typed, TileInv, NEW p \in Process, Die(p),
         NEW q \in Process, NEW n \in Name, NEW t \in Ref, Sole(q, n, t)'
  PROVE  Follows(q, n, t)'
<1>1. /\ UNCHANGED <<inbox, raced, reports, status>> /\ ~InReport(p, t) /\ torn \subseteq torn'
      /\ op'[p] = Idle /\ \A s \in Process \ {p} : op'[s] = op[s]
  BY DEF Die, Crash, board, Typed, Sole
<1>2. About(n, t)' = About(n, t)
  BY <1>1, AboutSame
<1>3. Follows(q, n, t)
  BY <1>1 DEF Sole, TileInv
<1>4. CASE q # p
  BY <1>1, <1>2, <1>3, <1>4, FollowsOthers
<1>5. CASE q = p
  <2>1. Says(n, t, status[t])
    BY <1>1, <1>3, <1>5 DEF Follows, ToMirror, ToSend, Adding, InReport
  <2>2. ~ToMirror(p, t)'
    BY <1>1 DEF ToMirror, Idle
  <2> QED
    BY <1>1, <1>2, <1>5, <2>1, <2>2, FollowsIdle
<1> QED
  BY <1>4, <1>5

LEMMA TileWrite ==
  ASSUME Typed, Typed', QueueInv, OrderInv, TileInv, NEW p \in Process, WriteAppend(p),
         MailView(p), UNCHANGED <<status, reports, torn>>,
         NEW q \in Process, NEW n \in Name, NEW t \in Ref, Sole(q, n, t)'
  PROVE  Follows(q, n, t)'
<1>0. PICK m, at : m = op[p].msg /\ at = op[p].at
  OBVIOUS
<1>1. /\ inbox' = [inbox EXCEPT ![at] = Capped(Written(p))] /\ raced \subseteq raced'
      /\ at \in Name /\ m \in Message /\ Adding(p) /\ op[p].do = "append"
      /\ \A s \in Process \ {p} : op'[s] = op[s]
  BY <1>0, AppendStep DEF WriteAppend, Adding
<1>2. Sole(q, n, t) /\ Follows(q, n, t) /\ reports[t] = {<<q, n>>} /\ n \notin raced'
  BY <1>1 DEF Sole, TileInv
<1>3. m.kind \in Reported /\ m.task = t => q = p /\ n = at
  <2>1. m.kind \in Reported => <<p, at>> \in reports[m.task]
    BY <1>0, <1>1 DEF TileInv, UnderWay
  <2> QED
    BY <1>2, <2>1
<1>4. CASE ~ (m.kind \in Reported /\ m.task = t)
  <2>1. \A s : Says(n, t, s) => \A x : Newest(About(n, t), x) => s = KanbanStatus[x.kind]
    BY DEF Says, Newest
  <2>2. \A x : Newest(About(n, t)', x) => Newest(About(n, t), x)
    <3>1. CASE n = at
      BY <1>0, <1>2, <1>4, <3>1, AboutWritten DEF TileInv
    <3>2. CASE n # at
      <4>1. About(n, t)' = About(n, t)
        BY <1>1, <3>2, AboutSame DEF Typed
      <4> QED
        BY <4>1
    <3> QED
      BY <3>1, <3>2
  <2>3. CASE q # p
    <3>1. op'[q] = op[q]
      BY <1>1, <2>3
    <3>2. CASE ToMirror(q, t)
      <4>1. \A x : Newest(About(n, t)', x) => op[q].to = KanbanStatus[x.kind]
        BY <1>2, <2>1, <2>2, <3>2 DEF Follows
      <4> QED
        BY <3>1, <3>2, <4>1 DEF Follows, ToMirror, Says, Newest
    <3>3. CASE ToSend(q, t)
      BY <3>1, <3>3 DEF Follows, ToMirror, ToSend, Adding
    <3>4. CASE ~ToMirror(q, t) /\ ~ToSend(q, t)
      <4>1. \A x : Newest(About(n, t)', x) => status[t] = KanbanStatus[x.kind]
        BY <1>2, <2>1, <2>2, <3>4 DEF Follows
      <4> QED
        BY <3>1, <3>4, <4>1 DEF Follows, ToMirror, Says, Newest
    <3> QED
      BY <3>2, <3>3, <3>4
  <2>4. CASE q = p
    <3>1. Says(n, t, status[t])
      BY <1>0, <1>1, <1>2, <1>4, <2>4 DEF Follows, ToMirror, ToSend
    <3>2. \A x : Newest(About(n, t)', x) => status[t] = KanbanStatus[x.kind]
      BY <2>1, <2>2, <3>1
    <3>3. ~ToMirror(p, t)'
      <4>1. CASE m.kind \in Reported
        <5>1. op'[p] = ThenMirror(m.kind, m.task)
          BY <1>0, <4>1, AfterAppend DEF TileInv
        <5> QED
          BY <1>4, <4>1, <5>1 DEF ToMirror, ThenMirror
      <4>2. CASE m.kind \notin Reported
        <5>1. op'[p] = Idle \/ op'[p].do = "append"
          BY <1>0, <4>2, AfterAppend DEF TileInv, Adding
        <5> QED
          BY <5>1 DEF ToMirror, Idle
      <4> QED
        BY <4>1, <4>2
    <3> QED
      BY <2>4, <3>2, <3>3 DEF Follows, Says, Newest
  <2> QED
    BY <2>3, <2>4
<1>5. CASE m.kind \in Reported /\ m.task = t
  <2>1. q = p /\ n = at /\ m.sender = q
    BY <1>0, <1>1, <1>3, <1>5 DEF OrderInv, OwnMessages
  <2>2. \A x : Newest(About(n, t)', x) => x = m
    BY <1>0, <1>2, <1>5, <2>1, AboutWritten DEF TileInv
  <2>3. op'[p] = ThenMirror(m.kind, t)
    BY <1>0, <1>5, AfterAppend DEF TileInv
  <2>4. op'[p].do = "select" /\ op'[p].task = t /\ op'[p].to = KanbanStatus[m.kind]
    BY <2>3 DEF ThenMirror
  <2> QED
    BY <2>1, <2>2, <2>4 DEF Follows, ToMirror, Says, Newest
<1> QED
  BY <1>4, <1>5

LEMMA TileStep ==
  ASSUME Typed, Typed', QueueInv, OrderInv, TileInv, NEW p \in Process, BusStep(p)
  PROVE  TileInv'
<1>1. Accounted' /\ UnderWay' /\ Mirrors'
  BY AccountedStep, UnderWayStep, MirrorsStep DEF TileInv
<1>2. ASSUME NEW q \in Process, NEW n \in Name, NEW t \in Ref, Sole(q, n, t)'
      PROVE  Follows(q, n, t)'
  <2>1. ASSUME NEW r \in Recipients \cup {"*"}, NEW k \in Kinds, NEW u \in Tasks,
               NEW next \in Mirroring \cup {Idle}, Sends(p, r, k, u, next)
        PROVE  Follows(q, n, t)'
    BY <1>2, <2>1, TileSend
  <2>2. CASE Mail(p)
    <3>1. UNCHANGED <<status, reports, torn>>
      BY <2>2 DEF Mail, board
    <3>2. CASE WriteAppend(p)
      BY <1>2, <3>1, <3>2, Views, TileWrite
    <3>3. CASE ReadForAppend(p) \/ StartDrain(p) \/ Clear(p)
      BY <1>2, <3>1, <3>3, TileRead
    <3> QED
      BY <2>2, <3>2, <3>3 DEF Mail
  <2>3. CASE Mirror(p)
    BY <1>2, <2>3, TileMirror
  <2>4. CASE Die(p)
    BY <1>2, <2>4, TileDie
  <2> QED
    BY <2>1, <2>2, <2>3, <2>4 DEF BusStep
<1> QED
  BY <1>1, <1>2 DEF TileInv

(* bus.py:302-304: the tile of a task reflects what its one reporter last  *)
(* said, whatever other processes send, drain and mirror meanwhile.        *)
THEOREM TilesAgree == Spec => []TileAgrees
<1>1. Init => TileInv
  <2> SUFFICES ASSUME Init PROVE TileInv
    OBVIOUS
  <2>1. \A p \in Process : op[p] = Idle
    BY DEF Init, MailInit
  <2>2. \A n \in Name : Content(inbox[n]) = << >>
    BY DEF Init, MailInit, Content
  <2>3. \A t \in Ref : reports[t] = {}
    BY DEF Init
  <2>4. \A n : \A i \in 1 .. Len(<< >>) : Known(n, << >>[i])
    OBVIOUS
  <2>5. Accounted /\ UnderWay /\ Mirrors
    BY <2>1, <2>2, <2>4 DEF Accounted, UnderWay, Mirrors, Copy, Pending, Adding, Idle
  <2> QED
    BY <2>3, <2>5 DEF TileInv, Sole
<1>2. TileInv /\ UNCHANGED busVars => TileInv'
  <2> SUFFICES ASSUME TileInv, UNCHANGED <<inbox, op, raced, status, reports, torn>> PROVE TileInv'
    BY DEF busVars, mailVars, board
  <2>1. Accounted'
    BY DEF TileInv, Accounted, Known, Copy, Pending
  <2>2. UnderWay' /\ Mirrors'
    BY DEF TileInv, UnderWay, Mirrors, Adding
  <2>3. ASSUME NEW t \in Ref, NEW q \in Process, NEW n \in Name, Sole(q, n, t)'
        PROVE  Follows(q, n, t)'
    <3>1. Follows(q, n, t)
      BY <2>3 DEF TileInv, Sole
    <3>2. About(n, t)' = About(n, t)
      BY AboutSame
    <3> QED
      BY <3>1, <3>2, FollowsOthers
  <2> QED
    BY <2>1, <2>2, <2>3 DEF TileInv
<1>3. Typed /\ Typed' /\ QueueInv /\ OrderInv /\ TileInv /\ [Next]_busVars => TileInv'
  BY <1>2, BusSteps, TileStep
<1>4. TileInv => TileAgrees
  <2> SUFFICES ASSUME TileInv, NEW t \in Ref, NEW p \in Process, NEW n \in Name,
                      Sole(p, n, t), \A q \in Process : ~InReport(q, t),
                      NEW m \in StatusOf(n, t), m.kind \in Reported
               PROVE  status[t] = KanbanStatus[m.kind]
    BY DEF TileAgrees, Sole
  <2>1. Says(n, t, status[t])
    BY DEF TileInv, Follows, ToMirror, ToSend, InReport, Adding
  <2>2. m \in About(n, t) /\ \A y \in About(n, t) : y.ts <= m.ts
    <3>1. m \in ToSet(Content(inbox[n])) /\ m.task = t
          /\ \A o \in Delegations(n) : o.task = t => m.ts >= o.ts
      BY DEF StatusOf, Delegations
    <3>2. \A y \in About(n, t) : y \in Delegations(n) /\ y.task = t
      BY Statuses DEF About, Delegations
    <3>3. \A y \in About(n, t) : m.ts >= y.ts
      BY <3>1, <3>2
    <3> QED
      BY <3>1, <3>3 DEF About
  <2> QED
    BY <2>1, <2>2 DEF Says
<1> QED
  BY <1>1, <1>3, <1>4, Typing, Queueing, Ordering, PTL DEF Spec

=============================================================================
