---------------------------- MODULE MergePipeline ---------------------------
(***************************************************************************)
(* run_pipeline (claude_swarm/merge_pipeline.py) over WorktreeManager: the *)
(* open pull requests are listed, refused as a batch when two of them      *)
(* touch one file, and merged one by one, smallest first: cherry-pick each *)
(* commit, remove the worktree, write the envelope, run the tests, revert  *)
(* when they fail.  The operator runs it again and again; it may be killed *)
(* between any two git commands, and the workers go on meanwhile.          *)
(***************************************************************************)
EXTENDS Worktree

CONSTANTS
  Batches,     \* the options a batch may be run with
  MaxCrashes   \* bound: times the pipeline is killed

ASSUME PipelineAssumption ==
  /\ Batches \subseteq [rejectOverlap : BOOLEAN, stopOnFailure : BOOLEAN]
  /\ MaxCrashes \in Nat

VARIABLES
  pc,          \* where the pipeline is
  opts,        \* its options
  batch,       \* the listed pull requests that are still to be merged
  cur,         \* the one being merged, as it was listed
  picked,      \* its commits picked, or not yet reverted
  verdict,     \* the status merge_pr is going to write
  crashes,     \* bound counter
  landed,      \* history: commits ever picked
  before,      \* history: base before the merge under way
  inBatch      \* history: pull requests merged by this batch

run == <<pc, opts, batch, cur, picked, verdict>>
history == <<crashes, landed, before, inBatch>>
vars == <<repo, run, history>>

NoPR == [pr |-> "none", commits |-> 0, at |-> 0]

Listed == [pr : PR, commits : Nat, at : 1 .. MaxSubmits]

-----------------------------------------------------------------------------
Size(e) == Cardinality(FilesOf(e.pr, e.commits))

(* topological_order: fewest files first, then first come. *)
Before(d, e) ==
  \/ Size(d) < Size(e)
  \/ Size(d) = Size(e) /\ d.at <= e.at

SharesFile(d, e) == FilesOf(d.pr, d.commits) \cap FilesOf(e.pr, e.commits) # {}

(* mutant: the inner loop starts one too far, neighbours are not compared *)
OverlapSkipsNeighbours(B) ==
  \E d, e \in B :
    /\ e.at > d.at + 1
    /\ SharesFile(d, e)

(* file_overlap finds something. *)
Overlap(B) == \E d, e \in B : d # e /\ SharesFile(d, e)

Init ==
  /\ RepoInit
  /\ pc = "idle"
  /\ opts \in Batches
  /\ batch = {}
  /\ cur = NoPR
  /\ picked = 0
  /\ verdict = "none"
  /\ crashes = 0
  /\ landed = {}
  /\ before = {}
  /\ inBatch = {}

(* `claude-swarm merge` *)
Run(o) ==
  /\ pc = "idle"
  /\ pc' = "list"
  /\ opts' = o
  /\ UNCHANGED <<repo, batch, cur, picked, verdict, history>>

(* list_open_prs, then the overlap check. *)
ListPRs ==
  /\ pc = "list"
  /\ LET open == {[pr |-> p, commits |-> envelope[p].commits, at |-> envelope[p].at] :
                    p \in {q \in PR : envelope[q].status = "open"}}
     IN  IF opts.rejectOverlap /\ Overlap(open)
         THEN pc' = "idle" /\ UNCHANGED batch
         ELSE pc' = "next" /\ batch' = open
  /\ UNCHANGED <<repo, opts, cur, picked, verdict, history>>

(* The next request in order.  merge_pr reads the envelope again and finds *)
(* it as it was listed: only the pipeline changes an open envelope.        *)
NextPR ==
  /\ pc = "next"
  /\ \/ /\ batch = {}
        /\ pc' = "idle"
        /\ cur' = NoPR
        /\ before' = {} /\ inBatch' = {}
        /\ UNCHANGED <<batch, verdict>>
     \/ \E e \in batch :
          /\ \A d \in batch : Before(e, d)
          /\ cur' = e
          /\ batch' = batch \ {e}
          /\ before' = base
          /\ UNCHANGED inBatch
          /\ IF e.commits = 0
             THEN pc' = "write" /\ verdict' = "rejected"
             ELSE pc' = "pick" /\ UNCHANGED verdict
  /\ picked' = 0
  /\ UNCHANGED <<repo, opts, crashes, landed>>

(* mutant: the last commit is left out *)
PickAllButLast ==
  /\ pc = "pick"
  /\ LET p == cur.pr
         c == CommitOf(p, picked + 1)
     IN  \/ /\ Picks(p, c)
            /\ base' = base \cup c
            /\ picked' = picked + 1
            /\ landed' = landed \cup {<<p, picked + 1>>}
            /\ pc' = IF picked' + 1 >= cur.commits THEN "clean" ELSE "pick"
            /\ UNCHANGED conflict
         \/ /\ ~Picks(p, c)
            /\ conflict' = (conflict \/ Clashes(p, c))
            /\ pc' = "abort"
            /\ UNCHANGED <<base, picked, landed>>
  /\ UNCHANGED <<envelope, workers, opts, batch, cur, verdict, crashes, before, inBatch>>

(* git cherry-pick of one commit. *)
Pick ==
  /\ pc = "pick"
  /\ LET p == cur.pr
         c == CommitOf(p, picked + 1)
     IN  \/ /\ Picks(p, c)
            /\ base' = base \cup c
            /\ picked' = picked + 1
            /\ landed' = landed \cup {<<p, picked + 1>>}
            /\ pc' = IF picked' = cur.commits THEN "clean" ELSE "pick"
            /\ UNCHANGED conflict
         \/ /\ ~Picks(p, c)
            /\ conflict' = (conflict \/ Clashes(p, c))
            /\ pc' = "abort"
            /\ UNCHANGED <<base, picked, landed>>
  /\ UNCHANGED <<envelope, workers, opts, batch, cur, verdict, crashes, before, inBatch>>

(* mutant: the status is set before the picks *)
AbortPickKeepsStatus ==
  /\ pc = "abort"
  /\ conflict' = FALSE
  /\ verdict' = "merged"
  /\ pc' = "write"
  /\ UNCHANGED <<base, envelope, workers, opts, batch, cur, picked, history>>

(* git cherry-pick --abort undoes the commit that failed, and no other. *)
AbortPick ==
  /\ pc = "abort"
  /\ conflict' = FALSE
  /\ verdict' = "rejected"
  /\ pc' = "write"
  /\ UNCHANGED <<base, envelope, workers, opts, batch, cur, picked, history>>

CleanUp ==
  /\ pc = "clean"
  /\ RemoveWorktree(cur.pr)
  /\ verdict' = "merged"
  /\ pc' = "write"
  /\ UNCHANGED <<opts, batch, cur, picked, history>>

(* stop_on_failure leaves the rest of the batch alone. *)
BatchAfterFailure == IF opts.stopOnFailure THEN {} ELSE batch

(* mutant: only a merge is written back *)
WriteMergedOnly ==
  /\ pc = "write"
  /\ verdict' = "none"
  /\ IF verdict = "merged"
     THEN /\ envelope' = [envelope EXCEPT ![cur.pr].status = verdict]
          /\ pc' = "gate" /\ inBatch' = inBatch \cup {cur.pr} /\ UNCHANGED batch
     ELSE pc' = "next" /\ batch' = BatchAfterFailure /\ UNCHANGED <<envelope, inBatch>>
  /\ UNCHANGED <<base, conflict, workers, opts, cur, picked, crashes, landed, before>>

WriteEnvelope ==
  /\ pc = "write"
  /\ envelope' = [envelope EXCEPT ![cur.pr].status = verdict]
  /\ verdict' = "none"
  /\ IF verdict = "merged"
     THEN pc' = "gate" /\ inBatch' = inBatch \cup {cur.pr} /\ UNCHANGED batch
     ELSE pc' = "next" /\ batch' = BatchAfterFailure /\ UNCHANGED inBatch
  /\ UNCHANGED <<base, conflict, workers, opts, cur, picked, crashes, landed, before>>

(* The tests pass, or fail, or take too long.  No test command is a pass. *)
TestGate ==
  /\ pc = "gate"
  /\ pc' \in {"next", "revert"}
  /\ UNCHANGED <<repo, opts, batch, cur, picked, verdict, history>>

(* mutant: the reverts start at the last commit but one *)
RevertAllButLast ==
  /\ pc = "revert"
  /\ IF picked = 0
     THEN pc' = "next" /\ batch' = BatchAfterFailure /\ UNCHANGED <<base, picked>>
     ELSE /\ base' = IF picked = cur.commits THEN base ELSE base \ CommitOf(cur.pr, picked)
          /\ picked' = picked - 1
          /\ UNCHANGED <<pc, batch>>
  /\ UNCHANGED <<conflict, envelope, workers, opts, cur, verdict, history>>

(* git revert of the worker's commits, the last one first. *)
Revert ==
  /\ pc = "revert"
  /\ IF picked = 0
     THEN pc' = "next" /\ batch' = BatchAfterFailure /\ UNCHANGED <<base, picked>>
     ELSE /\ base' = base \ CommitOf(cur.pr, picked)
          /\ picked' = picked - 1
          /\ UNCHANGED <<pc, batch>>
  /\ UNCHANGED <<conflict, envelope, workers, opts, cur, verdict, history>>

Pipeline ==
  \/ ListPRs \/ NextPR \/ Pick \/ AbortPick \/ CleanUp
  \/ WriteEnvelope \/ TestGate \/ Revert

(* The pipeline is killed. *)
Crash ==
  /\ pc # "idle"
  /\ crashes < MaxCrashes
  /\ crashes' = crashes + 1
  /\ pc' = "idle"
  /\ batch' = {}
  /\ cur' = NoPR
  /\ picked' = 0
  /\ verdict' = "none"
  /\ before' = {} /\ inBatch' = {}
  /\ UNCHANGED <<repo, opts, landed>>

Worker(p) == CreateWorktree(p) \/ Commit(p) \/ SubmitPR(p)

Next ==
  \/ Pipeline
  \/ Crash
  \/ \E o \in Batches : Run(o)
  \/ \E p \in PR : (Worker(p) \/ MarkStale(p) \/ GcStale(p)) /\ UNCHANGED <<run, history>>

Spec == Init /\ [][Next]_vars

(* A started pipeline goes on, and the operator does what run_pipeline     *)
(* asks of its caller: retry serially, that is without the overlap check.  *)
FairSpec ==
  /\ Spec
  /\ WF_vars(Pipeline)
  /\ SF_vars(\E o \in Batches : ~o.rejectOverlap /\ Run(o))

-----------------------------------------------------------------------------
(* The types of the repository and of the pipeline's locals. *)
TypeOK ==
  /\ RepoTypeOK
  /\ pc \in {"idle", "list", "next", "pick", "abort", "clean", "write", "gate", "revert"}
  /\ opts \in Batches
  /\ batch \subseteq Listed
  /\ cur \in Listed \cup {NoPR}
  /\ picked \in Nat /\ picked <= cur.commits
  /\ verdict \in {"none", "merged", "rejected"}
  /\ crashes \in 0 .. MaxCrashes

(* worktree.py:14-15: worktree and branch are removed "right after a       *)
(* successful merge": a branch is deleted only once every commit on it is  *)
(* on base, unless it was marked stale, also when a batch was killed       *)
(* half-way before.                                                        *)
WorkIsKept ==
  [][\A p \in tree \ tree' :
       p \in stale \/ \A i \in 1 .. made[p] : <<p, i>> \in landed]_vars

(* An envelope that says merged tells the truth: all its commits were      *)
(* picked, whatever was picked of it by batches that were killed before.   *)
MergedIsLanded ==
  \A p \in PR :
    envelope[p].status = "merged" =>
      \A i \in 1 .. envelope[p].commits : <<p, i>> \in landed

(* merge_pipeline.py:117: the just-merged commits are reverted "to keep    *)
(* base clean": after the reverts base is what it was before the merge,    *)
(* for a request none of whose changes was there already.                  *)
RevertRestores ==
  pc = "revert" /\ picked = 0 /\ ChangesOf(cur.pr, cur.commits) \cap before = {}
    => base = before

(* merge_pipeline.py:4: a batch run with reject_overlap never merges two   *)
(* requests that touch the same file.                                      *)
BatchIsDisjoint ==
  opts.rejectOverlap =>
    \A p, q \in inBatch :
      p # q => FilesOf(p, envelope[p].commits) \cap FilesOf(q, envelope[q].commits) = {}

(* Every submitted request is eventually merged or rejected, behind other  *)
(* failing requests, refused batches and killed pipelines.                 *)
EveryRequestIsDecided ==
  \A p \in PR : envelope[p].status = "open" ~> envelope[p].status # "open"

=============================================================================
