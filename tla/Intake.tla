------------------------------- MODULE Intake -------------------------------
(***************************************************************************)
(* GitHubWorkSource.generate (claude_swarm/github_tasks.py): the open      *)
(* issues that are not in the seen file are filed as tasks, then the file  *)
(* is replaced.  Every loop may have a source of its own over one file.    *)
(***************************************************************************)
EXTENDS Naturals

CONSTANTS
  Source,     \* work sources over one state directory
  Issue,      \* issues with the label
  MaxFilings  \* bound on the tasks filed for one issue

ASSUME IntakeAssumption == MaxFilings \in Nat \ {0}

VARIABLES
  seen,     \* gh-seen.json
  filings,  \* how many tasks were filed for each issue
  gen,      \* the call of generate in progress in each source
  excused   \* history: issues whose task left no lasting mark in the file:
            \* see RefiledHasCause

intakeVars == <<seen, filings, gen, excused>>

(* known is the set in memory, todo the issues still to look at, filed     *)
(* those this call filed; lapped says that another call ran meanwhile.     *)
NoCall == [on |-> FALSE, known |-> {}, todo |-> {}, filed |-> {}, lapped |-> FALSE]

Call ==
  [on : BOOLEAN, known : SUBSET Issue, todo : SUBSET Issue,
   filed : SUBSET Issue, lapped : BOOLEAN]

IntakeTypeOK ==
  /\ seen \subseteq Issue
  /\ filings \in [Issue -> 0 .. MaxFilings]
  /\ gen \in [Source -> Call]
  /\ excused \subseteq Issue

IntakeInit ==
  /\ seen = {}
  /\ filings = [i \in Issue |-> 0]
  /\ gen = [s \in Source |-> NoCall]
  /\ excused = {}

-----------------------------------------------------------------------------
(* _fetch_issues: whatever open issues have the label and lie in the       *)
(* project; with none, after an error of gh included, generate returns.    *)
Fetched == (SUBSET Issue) \ {{}}

(* _load_seen: a file that cannot be read or parsed counts as empty. *)
Readings == {seen, {}}

(* The issues fetched, then _load_seen.  A disabled source and one that    *)
(* polled a moment ago do nothing.                                         *)
LoadSeen(s) ==
  /\ ~gen[s].on
  /\ LET others == {q \in Source : gen[q].on} IN
       \E open \in Fetched, read \in Readings :
         /\ gen' = [q \in Source |->
              IF q = s THEN [on |-> TRUE, known |-> read, todo |-> open \ read,
                             filed |-> {}, lapped |-> others # {}]
              ELSE [gen[q] EXCEPT !.lapped = gen[q].on]]
         /\ excused' = excused \cup (seen \ read)
  /\ UNCHANGED <<seen, filings>>

(* submit and what follows it: the task is on the board and noted. *)
Submit(s, i) ==
  /\ filings[i] < MaxFilings
  /\ filings' = [filings EXCEPT ![i] = @ + 1]
  /\ gen' = [gen EXCEPT ![s].todo = @ \ {i}, ![s].known = @ \cup {i},
                        ![s].filed = @ \cup {i}]
  /\ UNCHANGED excused

(* submit raises after its INSERT, on the timeline row: the task is on the *)
(* board all the same, and not noted.                                      *)
SubmitHalf(s, i) ==
  /\ filings[i] < MaxFilings
  /\ filings' = [filings EXCEPT ![i] = @ + 1]
  /\ gen' = [gen EXCEPT ![s].todo = @ \ {i}]
  /\ excused' = excused \cup {i}

(* submit raises on its INSERT, and the issue is skipped. *)
SubmitFails(s, i) ==
  /\ gen' = [gen EXCEPT ![s].todo = @ \ {i}]
  /\ UNCHANGED <<filings, excused>>

(* mutant: an issue counts as seen before it is filed *)
FileSeenFirst(s) ==
  /\ \E i \in gen[s].todo :
       \/ Submit(s, i)
       \/ /\ gen' = [gen EXCEPT ![s].todo = @ \ {i}, ![s].known = @ \cup {i}]
          /\ UNCHANGED <<filings, excused>>
  /\ UNCHANGED seen

(* The next issue. *)
File(s) ==
  /\ \E i \in gen[s].todo : Submit(s, i) \/ SubmitHalf(s, i) \/ SubmitFails(s, i)
  /\ UNCHANGED seen

(* The call is over, saved or not. *)
Close(s, saved) ==
  /\ gen' = [gen EXCEPT ![s] = NoCall]
  /\ excused' = IF gen[s].lapped \/ ~saved THEN excused \cup gen[s].filed ELSE excused

(* mutant: the file is replaced by what this call filed *)
SaveFiledOnly(s) ==
  /\ gen[s].on /\ gen[s].todo = {}
  /\ IF gen[s].filed = {} THEN UNCHANGED seen ELSE seen' = gen[s].filed
  /\ Close(s, TRUE)
  /\ UNCHANGED filings

(* _save_seen, if anything was filed: one replace of the file. *)
Save(s) ==
  /\ gen[s].on /\ gen[s].todo = {}
  /\ IF gen[s].filed = {} THEN UNCHANGED seen ELSE seen' = gen[s].known
  /\ Close(s, TRUE)
  /\ UNCHANGED filings

(* The save raises, which the loop swallows, or the process dies. *)
Cut(s) == Close(s, FALSE) /\ UNCHANGED <<seen, filings>>

SaveFails(s) == gen[s].on /\ gen[s].todo = {} /\ gen[s].filed # {} /\ Cut(s)

ResetSeen ==
  /\ seen # {}
  /\ seen' = {}
  /\ excused' = excused \cup seen
  /\ UNCHANGED <<filings, gen>>

Generate(s) == File(s) \/ Save(s) \/ SaveFails(s)

-----------------------------------------------------------------------------
(* github_tasks.py:12 promises an issue is filed once; what that comes to: *)
(* a second task for an issue has its cause in calls that overlapped, in a *)
(* call that was not saved, in a submit that raised after its INSERT, in a *)
(* file that held the issue and could not be read, or in a reset.          *)
RefiledHasCause ==
  \A i \in Issue :
    filings[i] > 1 =>
      i \in excused \/ \E s \in Source : gen[s].lapped /\ i \in gen[s].filed

(* No issue is lost: what the file keeps out of the board has a task.      *)
SeenIsFiled == \A i \in seen : filings[i] > 0

=============================================================================
