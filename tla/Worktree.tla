------------------------------ MODULE Worktree ------------------------------
(***************************************************************************)
(* WorktreeManager (claude_swarm/worktree.py): the worktree and branch of  *)
(* each task, its pull request envelope and the base branch.               *)
(*                                                                         *)
(* The base branch is the set of changes it contains.  A commit is a set   *)
(* of changes; git picks it by adding what is missing, refuses it when     *)
(* nothing is missing, and stops on a conflict when one of its changes     *)
(* clashes with one that only one of base and the commit's fork point has. *)
(* A revert takes all changes of the commit out again, whoever put them    *)
(* in.  git itself is external.                                            *)
(***************************************************************************)
EXTENDS Naturals, Sequences, FiniteSets

CONSTANTS
  PR,          \* tasks that may get a worktree
  Change,      \* changes workers may make
  FileOf,      \* the file of each change
  Commits,     \* what each worker does, commit by commit
  Clash,       \* pairs of changes to the same lines
  MaxSubmits   \* bound: submissions in a behaviour

ASSUME WorktreeAssumption ==
  /\ IsFiniteSet(Change)
  /\ DOMAIN FileOf = Change
  /\ Commits \in [PR -> Seq((SUBSET Change) \ {{}})]
  /\ Clash \subseteq {{x, y} : x, y \in Change}
  /\ MaxSubmits \in Nat

VARIABLES
  base,        \* the changes on the base branch
  conflict,    \* a cherry-pick stopped on a conflict and was not aborted
  tree,        \* tasks with a worktree and its branch
  fork,        \* base when the branch was created
  made,        \* commits on the branch
  envelope,    \* the pull request envelopes
  stale,       \* tasks marked stale
  submits      \* submissions so far: the clock of submitted_at

workers == <<tree, fork, made, stale, submits>>
repo == <<base, conflict, envelope, workers>>

NoEnvelope == [status |-> "none", commits |-> 0, at |-> 0]

Envelope == [status : {"none", "open", "merged", "rejected"},
             commits : Nat, at : 0 .. MaxSubmits]

RepoTypeOK ==
  /\ base \subseteq Change
  /\ conflict \in BOOLEAN
  /\ tree \subseteq PR
  /\ fork \in [PR -> SUBSET Change]
  /\ made \in [PR -> Nat] /\ \A p \in PR : made[p] <= Len(Commits[p])
  /\ envelope \in [PR -> Envelope]
  /\ stale \subseteq PR
  /\ submits \in 0 .. MaxSubmits

RepoInit ==
  /\ base = {}
  /\ conflict = FALSE
  /\ tree = {}
  /\ fork = [p \in PR |-> {}]
  /\ made = [p \in PR |-> 0]
  /\ envelope = [p \in PR |-> NoEnvelope]
  /\ stale = {}
  /\ submits = 0

(* A commit holds what was not on base when the branch was created. *)
CommitOf(p, i) == Commits[p][i] \ fork[p]

(* The changes of the first n commits of p's branch. *)
ChangesOf(p, n) == UNION {CommitOf(p, i) : i \in 1 .. n}

(* files_changed *)
FilesOf(p, n) == {FileOf[x] : x \in ChangesOf(p, n)}

-----------------------------------------------------------------------------
(* A worker.  It works on while its envelope is not open, also after a     *)
(* rejection, and is done when the envelope is merged.                     *)

Working(p) == envelope[p].status \in {"none", "rejected"}

(* Nothing happens when the worktree exists. *)
CreateWorktree(p) ==
  /\ Working(p)
  /\ p \notin tree
  /\ tree' = tree \cup {p}
  /\ fork' = [fork EXCEPT ![p] = base]
  /\ made' = [made EXCEPT ![p] = 0]
  /\ UNCHANGED <<base, conflict, envelope, stale, submits>>

Commit(p) ==
  /\ Working(p)
  /\ p \in tree
  /\ made[p] < Len(Commits[p])
  /\ CommitOf(p, made[p] + 1) # {}
  /\ made' = [made EXCEPT ![p] = @ + 1]
  /\ UNCHANGED <<base, conflict, tree, fork, envelope, stale, submits>>

SubmitPR(p) ==
  /\ Working(p)
  /\ p \in tree
  /\ submits < MaxSubmits
  /\ submits' = submits + 1
  /\ envelope' = [envelope EXCEPT ![p] =
                    [status |-> "open", commits |-> made[p], at |-> submits']]
  /\ UNCHANGED <<base, conflict, tree, fork, made, stale>>

(* cleanup_after_merge *)
RemoveWorktree(p) ==
  /\ tree' = tree \ {p}
  /\ made' = [made EXCEPT ![p] = 0]
  /\ stale' = stale \ {p}
  /\ UNCHANGED <<base, conflict, fork, envelope, submits>>

(* mark_stale does not ask for the worktree. *)
MarkStale(p) ==
  /\ stale' = stale \cup {p}
  /\ UNCHANGED <<base, conflict, tree, fork, made, envelope, submits>>

(* gc_stale, one marker; the marker may be old enough. *)
GcStale(p) ==
  /\ p \in stale
  /\ RemoveWorktree(p)

-----------------------------------------------------------------------------
(* git, as merge_pr and run_pipeline call it. *)

Clashes(p, c) ==
  \E x \in c, y \in (base \ fork[p]) \cup (fork[p] \ base) : {x, y} \in Clash

Picks(p, c) == ~conflict /\ ~Clashes(p, c) /\ ~(c \subseteq base)

=============================================================================
