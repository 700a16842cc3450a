------------------------------ MODULE Messaging ------------------------------
(***************************************************************************)
(* Directed messages between heads through JSON inbox files                *)
(* (claude_swarm/messaging.py).  A writer reads the whole file, changes    *)
(* the list in memory and replaces the file: the replacement is atomic,    *)
(* the read and the replacement together are not, and there is no lock.    *)
(*                                                                         *)
(* A process does one operation at a time; op[p] is the operation in hand  *)
(* with what it has read.  gone, log and raced are history variables.      *)
(***************************************************************************)
EXTENDS Naturals, Sequences, SequencesExt

CONSTANTS
  Process,        \* processes that send and drain; each has an inbox name
  Recipients,     \* names a message may be addressed to
  NameOrder,      \* the order of the sorted glob of inbox files
  Kinds,          \* message kinds
  Tasks,          \* task references a message may carry
  NoFile,         \* the inbox file does not exist
  NoRaw,          \* the file has not been read yet
  MaxMessages,    \* capacity of an inbox
  MaxSent         \* bound: messages ever sent

Name == Process \cup Recipients

Message == [ts : 1 .. MaxSent, sender : Process, recipient : Recipients \cup {"*"},
            kind : Kinds, task : Tasks]

(* "*" is nobody's inbox, and what is not a list is not taken for one. *)
ASSUME MessagingAssumption ==
  /\ NameOrder \in [Name -> Nat]
  /\ MaxMessages \in Nat \ {0}
  /\ MaxSent \in Nat
  /\ "*" \notin Name
  /\ {NoFile, NoRaw} \cap Seq(Message) = {}

VARIABLES
  inbox,      \* the file of each name
  op,         \* the operation each process is in
  sent,       \* messages minted so far; a message's ts is its number
  raced,      \* history: inboxes written between another's read and write
  gone,       \* history: what left each other inbox, drained or dropped
  log         \* history: what was appended to each other inbox

mailVars == <<inbox, op, sent, raced, gone, log>>

Idle == [do |-> "idle"]

MailInit ==
  /\ inbox = [n \in Name |-> NoFile]
  /\ op = [p \in Process |-> Idle]
  /\ sent = 0
  /\ gone = [n \in Name |-> <<>>]
  /\ log = [n \in Name |-> <<>>]
  /\ raced = {}

-----------------------------------------------------------------------------
(* Inbox: a file that is not there reads as empty. *)

Content(f) == IF f = NoFile THEN <<>> ELSE f

(* Drop the oldest messages over capacity. *)
Capped(msgs) ==
  IF Len(msgs) > MaxMessages THEN SubSeq(msgs, Len(msgs) - MaxMessages + 1, Len(msgs))
  ELSE msgs

(* Who has read the file of n and not yet written it back. *)
Pending(p, n) ==
  /\ op[p].do \in {"append", "drain"}
  /\ op[p].raw # NoRaw
  /\ op[p].at = n

(* The file of n replaced, with messages added to it or taken out of it. *)
WriteFile(p, n, new, in, out) ==
  /\ inbox' = [inbox EXCEPT ![n] = new]
  /\ IF n \in raced \/ \E q \in Process \ {p} : Pending(q, n)
     THEN /\ raced' = raced \cup {n}
          /\ log' = [log EXCEPT ![n] = <<>>]
          /\ gone' = [gone EXCEPT ![n] = <<>>]
     ELSE /\ log' = [log EXCEPT ![n] = @ \o in]
          /\ gone' = [gone EXCEPT ![n] = @ \o out]
          /\ UNCHANGED raced

-----------------------------------------------------------------------------
(* MessageBus.send: one append per file; a broadcast goes to the files     *)
(* there are, in sorted order, whoever sends it.                           *)

Files == {n \in Name : inbox[n] # NoFile}

First(S) == CHOOSE n \in S : \A o \in S : NameOrder[n] <= NameOrder[o]

Targets(m) == IF m.recipient = "*" THEN Files ELSE {m.recipient}

(* The operation that appends m to the files in todo, or ends as next. *)
AppendTo(todo, m, next) ==
  IF todo = {} THEN next
  ELSE [do |-> "append", at |-> First(todo), rest |-> todo \ {First(todo)},
        msg |-> m, raw |-> NoRaw, next |-> next]

Mint(p, r, k, t) ==
  [ts |-> sent + 1, sender |-> p, recipient |-> r, kind |-> k, task |-> t]

(* A message minted and its files listed; next is what p does afterwards. *)
StartSend(p, r, k, t, next) ==
  /\ op[p] = Idle
  /\ sent < MaxSent
  /\ sent' = sent + 1
  /\ LET m == Mint(p, r, k, t) IN op' = [op EXCEPT ![p] = AppendTo(Targets(m), m, next)]
  /\ UNCHANGED <<inbox, gone, log, raced>>

ReadForAppend(p) ==
  /\ op[p].do = "append" /\ op[p].raw = NoRaw
  /\ op' = [op EXCEPT ![p].raw = Content(inbox[op[p].at])]
  /\ UNCHANGED <<inbox, sent, gone, log, raced>>

(* mutant: the message is put before the others *)
WriteAppendFront(p) ==
  /\ op[p].do = "append" /\ op[p].raw # NoRaw
  /\ LET o == op[p]
         old == <<o.msg>> \o o.raw
         new == Capped(old)
     IN /\ WriteFile(p, o.at, new, <<o.msg>>, SubSeq(old, 1, Len(old) - Len(new)))
        /\ op' = [op EXCEPT ![p] = AppendTo(o.rest, o.msg, o.next)]
  /\ UNCHANGED sent

(* Inbox.append: the file replaced by what was read and the message. *)
WriteAppend(p) ==
  /\ op[p].do = "append" /\ op[p].raw # NoRaw
  /\ LET o == op[p]
         old == Append(o.raw, o.msg)
         new == Capped(old)
     IN /\ WriteFile(p, o.at, new, <<o.msg>>, SubSeq(old, 1, Len(old) - Len(new)))
        /\ op' = [op EXCEPT ![p] = AppendTo(o.rest, o.msg, o.next)]
  /\ UNCHANGED sent

-----------------------------------------------------------------------------
(* Inbox.drain: a snapshot, then an empty list written over the file. *)

StartDrain(p) ==
  /\ op[p] = Idle
  /\ op' = [op EXCEPT ![p] = [do |-> "drain", at |-> p, raw |-> Content(inbox[p])]]
  /\ UNCHANGED <<inbox, sent, gone, log, raced>>

(* mutant: drain returns the messages and leaves the file *)
ClearLeavesFile(p) ==
  /\ op[p].do = "drain"
  /\ WriteFile(p, p, Content(inbox[p]), <<>>, op[p].raw)
  /\ op' = [op EXCEPT ![p] = Idle]
  /\ UNCHANGED sent

Clear(p) ==
  /\ op[p].do = "drain"
  /\ WriteFile(p, p, <<>>, <<>>, op[p].raw)
  /\ op' = [op EXCEPT ![p] = Idle]
  /\ UNCHANGED sent

(* The process dies and comes back with nothing in hand; a temporary file  *)
(* it leaves behind is no inbox.                                           *)
Crash(p) ==
  /\ op[p] # Idle
  /\ op' = [op EXCEPT ![p] = Idle]
  /\ UNCHANGED <<inbox, sent, gone, log, raced>>

-----------------------------------------------------------------------------
(* messaging.py:3-16: an inbox no two processes were in at once is a       *)
(* bounded queue: what left it followed by what is in it is what was       *)
(* appended, in that order, each message once, also when processes die.    *)
QueueUnlessRaced ==
  \A n \in Name \ raced : gone[n] \o Content(inbox[n]) = log[n]

(* messaging.py:80 ("oldest-first"): whatever the writers overwrite, an    *)
(* inbox holds no message twice, and those of one sender in the order they *)
(* were sent.                                                              *)
OldestFirst ==
  \A n \in Name : LET f == Content(inbox[n]) IN
    \A i, j \in 1 .. Len(f) :
      i < j => f[i].ts # f[j].ts /\ (f[i].sender = f[j].sender => f[i].ts < f[j].ts)

=============================================================================
