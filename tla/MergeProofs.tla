----------------------------- MODULE MergeProofs ----------------------------
(***************************************************************************)
(* The merge pipeline over the worktrees, for any number of tasks, any     *)
(* work, any pairs of changes that clash, batches killed at any point and  *)
(* workers that go on meanwhile; and what a workflow may call fit to land. *)
(***************************************************************************)
EXTENDS MergePipeline, Workflow, TLAPS

(* merge_pr is at work on cur; the tests of a merged one run or failed. *)
Merging == pc \in {"pick", "abort", "clean", "write"}
Judged == pc \in {"gate", "revert"}

(* An envelope is out of its worker's hands while it is open or merged. *)
Settled(p) == envelope[p].status \in {"open", "merged"}

(* What was listed is still as it was listed. *)
AsListed(e) ==
  /\ e \in [pr : PR, commits : Nat, at : Nat]
  /\ envelope[e.pr].status = "open"
  /\ envelope[e.pr].commits = e.commits

(* The types of the parts that matter here. *)
Typed ==
  /\ pc \in {"idle", "list", "next", "pick", "abort", "clean", "write", "gate", "revert"}
  /\ envelope \in [PR -> [status : {"none", "open", "merged", "rejected"},
                          commits : Nat, at : Nat]]
  /\ base \subseteq Change
  /\ fork \in [PR -> SUBSET Change] /\ made \in [PR -> Nat]
  /\ \A p \in PR : /\ made[p] <= Len(Commits[p])
                   /\ envelope[p].commits <= Len(Commits[p])
  /\ picked \in Nat
  /\ inBatch \subseteq PR
  /\ submits \in Nat

(* The pipeline works on one request at a time and what it listed of the   *)
(* others holds: nobody else writes an open envelope.                      *)
ListInv ==
  /\ \A e \in batch : AsListed(e)
  /\ \A d, e \in batch : d.pr = e.pr => d = e
  /\ Merging \/ Judged => cur.pr \in PR /\ cur.commits \in Nat /\ picked <= cur.commits
  /\ Merging => AsListed(cur) /\ \A e \in batch : e.pr # cur.pr
  /\ Judged => envelope[cur.pr].status = "merged" /\ envelope[cur.pr].commits = cur.commits
  /\ pc = "clean" => picked = cur.commits
  /\ pc = "pick" => picked < cur.commits
  /\ pc = "write" => verdict \in {"merged", "rejected"}
  /\ pc = "write" /\ verdict = "merged" => picked = cur.commits

(* Every commit that counts as picked was. *)
LandInv ==
  /\ Merging => \A i \in 1 .. picked : <<cur.pr, i>> \in landed
  /\ \A p \in PR : envelope[p].status = "open" => made[p] <= envelope[p].commits
  /\ MergedIsLanded

(* base is what it was, and at most the picked changes on top. *)
BaseInv ==
  Merging \/ Judged =>
    /\ base \subseteq before \cup ChangesOf(cur.pr, picked)
    /\ ChangesOf(cur.pr, cur.commits) \cap before = {} => before \subseteq base

(* The requests of the batch under way: to come, in hand and merged. *)
Batch ==
  {e.pr : e \in batch} \cup inBatch \cup (IF Merging \/ Judged THEN {cur.pr} ELSE {})

Disjoint(p, q) ==
  FilesOf(p, envelope[p].commits) \cap FilesOf(q, envelope[q].commits) = {}

BatchInv ==
  /\ pc \in {"idle", "list"} => batch = {} /\ inBatch = {}
  /\ \A p \in Batch : p \in PR /\ Settled(p)
  /\ \A p \in inBatch : envelope[p].status = "merged"
  /\ opts.rejectOverlap => \A p, q \in Batch : p # q => Disjoint(p, q)

-----------------------------------------------------------------------------
(* A worker's work has a length, and its commits hold changes.             *)
LEMMA Lengths ==
  \A p \in PR : /\ Len(Commits[p]) \in Nat
               /\ \A i \in 1 .. Len(Commits[p]) : Commits[p][i] \subseteq Change
<1> TAKE p \in PR
<1>1. Commits[p] \in Seq((SUBSET Change) \ {{}})
  BY WorktreeAssumption
<1> QED
  BY <1>1

(* A worker, or the collector of stale worktrees, at work. *)
Around(p) == (Worker(p) \/ MarkStale(p) \/ GcStale(p)) /\ UNCHANGED <<run, history>>

(* What the others may do to requests that are open or merged: take the    *)
(* worktree away, and nothing else.                                        *)
LEMMA AroundStep ==
  ASSUME Typed, NEW p \in PR, Around(p)
  PROVE  /\ UNCHANGED <<base, conflict, run, history>>
         /\ \A q \in PR : Settled(q) =>
              /\ envelope'[q] = envelope[q]
              /\ fork'[q] = fork[q]
              /\ made'[q] \in {0, made[q]}
         /\ \A q \in PR : envelope'[q] # envelope[q] =>
              envelope'[q].status = "open" /\ made'[q] <= envelope'[q].commits
         /\ Typed'
<1> USE DEF Typed, Settled, Working
<1>1. UNCHANGED <<run, history>> /\ \A q \in PR : Len(Commits[q]) \in Nat
  BY Lengths DEF Around
<1>2. UNCHANGED <<pc, picked, inBatch>>
  BY <1>1 DEF run, history
<1>3. CASE CreateWorktree(p)
  <2>1. /\ envelope[p].status \in {"none", "rejected"}
        /\ fork' = [fork EXCEPT ![p] = base]
        /\ made' = [made EXCEPT ![p] = 0]
        /\ UNCHANGED <<base, conflict, envelope, submits>>
    BY <1>3 DEF CreateWorktree
  <2> QED
    BY <1>1, <1>2, <2>1
<1>4. CASE Commit(p)
  <2>1. /\ envelope[p].status \in {"none", "rejected"}
        /\ made' = [made EXCEPT ![p] = @ + 1]
        /\ made[p] + 1 <= Len(Commits[p])
        /\ UNCHANGED <<base, conflict, envelope, fork, submits>>
    BY <1>4, Lengths DEF Commit
  <2> QED
    BY <1>1, <1>2, <2>1
<1>5. CASE SubmitPR(p)
  <2>1. /\ envelope[p].status \in {"none", "rejected"}
        /\ submits' \in Nat
        /\ envelope' = [envelope EXCEPT ![p] =
                          [status |-> "open", commits |-> made[p], at |-> submits']]
        /\ UNCHANGED <<base, conflict, fork, made>>
    BY <1>5 DEF SubmitPR
  <2> QED
    BY <1>1, <1>2, <2>1
<1>6. CASE MarkStale(p)
  BY <1>1, <1>2, <1>6 DEF MarkStale
<1>7. CASE GcStale(p)
  <2>1. /\ made' = [made EXCEPT ![p] = 0]
        /\ UNCHANGED <<base, conflict, envelope, fork, submits>>
    BY <1>7 DEF GcStale, RemoveWorktree
  <2> QED
    BY <1>1, <1>2, <2>1
<1> QED
  BY <1>3, <1>4, <1>5, <1>6, <1>7 DEF Around, Worker

(* A step, one action of the pipeline or something around it. *)
Step ==
  \/ ListPRs \/ NextPR \/ Pick \/ AbortPick \/ CleanUp
  \/ WriteEnvelope \/ TestGate \/ Revert \/ Crash
  \/ \E o \in Batches : Run(o)
  \/ \E p \in PR : Around(p)
  \/ UNCHANGED vars

LEMMA Steps == [Next]_vars => Step
  BY DEF Next, Pipeline, Step, Around

(* A pick puts one commit on base, which is work of the request in hand.   *)
LEMMA PickStep ==
  ASSUME Typed, ListInv, Pick
  PROVE  /\ cur.pr \in PR /\ envelope[cur.pr].status = "open"
         /\ UNCHANGED <<envelope, workers, opts, batch, cur, verdict, crashes, before, inBatch>>
         /\ \/ /\ base' = base \cup CommitOf(cur.pr, picked + 1)
               /\ CommitOf(cur.pr, picked + 1) \subseteq Change
               /\ picked' = picked + 1 /\ picked' <= cur.commits
               /\ landed' = landed \cup {<<cur.pr, picked + 1>>}
               /\ pc' = IF picked' = cur.commits THEN "clean" ELSE "pick"
            \/ pc' = "abort" /\ UNCHANGED <<base, picked, landed>>
<1>1. /\ pc = "pick" /\ cur.pr \in PR /\ AsListed(cur) /\ picked < cur.commits
      /\ picked \in Nat /\ cur.commits \in Nat /\ cur.commits <= Len(Commits[cur.pr])
  BY DEF Pick, ListInv, Typed, Merging, AsListed
<1>2. picked + 1 \in 1 .. Len(Commits[cur.pr]) /\ picked + 1 <= cur.commits
  BY <1>1, Lengths
<1>3. CommitOf(cur.pr, picked + 1) \subseteq Change
  BY <1>1, <1>2, Lengths DEF CommitOf
<1> QED
  BY <1>1, <1>2, <1>3 DEF Pick, AsListed

(* Nobody else touches a listed request, and its own turn comes once.      *)
LEMMA ListStep == Typed /\ ListInv /\ [Next]_vars => Typed' /\ ListInv'
<1> SUFFICES ASSUME Typed, ListInv, Step PROVE Typed' /\ ListInv'
  BY Steps
<1>1. CASE ListPRs
  <2>1. UNCHANGED <<base, envelope, fork, made, submits, cur, picked, verdict, inBatch>>
    BY <1>1 DEF ListPRs, repo, workers, history
  <2>2. \/ pc' = "idle" /\ UNCHANGED batch
        \/ /\ pc' = "next"
           /\ batch' = {[pr |-> p, commits |-> envelope[p].commits, at |-> envelope[p].at] :
                          p \in {q \in PR : envelope[q].status = "open"}}
    BY <1>1 DEF ListPRs
  <2>3. Typed'
    BY <2>1, <2>2 DEF Typed
  <2>4. \A e : AsListed(e)' <=> AsListed(e)
    BY <2>1 DEF AsListed
  <2>5. \A e \in batch' : AsListed(e)
    BY <2>2 DEF AsListed, ListInv, Typed
  <2>6. \A d, e \in batch' : d.pr = e.pr => d = e
    BY <2>2 DEF ListInv
  <2> QED
    BY <2>1, <2>2, <2>3, <2>4, <2>5, <2>6 DEF ListInv, Merging, Judged
<1>2. CASE NextPR
  <2>1. UNCHANGED <<base, envelope, fork, made, submits>> /\ picked' = 0
    BY <1>2 DEF NextPR, repo, workers
  <2>2. \A e : AsListed(e)' <=> AsListed(e)
    BY <2>1 DEF AsListed
  <2>3. CASE pc' = "idle" /\ inBatch' = {} /\ UNCHANGED batch
    BY <2>1, <2>2, <2>3 DEF Typed, ListInv, Merging, Judged
  <2>4. ASSUME NEW e \in batch, cur' = e, batch' = batch \ {e}, UNCHANGED inBatch,
               \/ e.commits = 0 /\ pc' = "write" /\ verdict' = "rejected"
               \/ e.commits # 0 /\ pc' = "pick"
        PROVE  Typed' /\ ListInv'
    <3>1. AsListed(e) /\ e.pr \in PR /\ e.commits \in Nat
      BY DEF ListInv, AsListed
    <3>2. Typed'
      BY <2>1, <2>4 DEF Typed
    <3>3. \A d \in batch' : d.pr # e.pr
      BY <2>4 DEF ListInv
    <3> QED
      BY <2>1, <2>2, <2>4, <3>1, <3>2, <3>3 DEF ListInv, Merging, Judged
  <2> QED
    BY <1>2, <2>3, <2>4 DEF NextPR
<1>3. CASE Pick
  <2>1. Typed'
    BY <1>3, PickStep DEF Typed, workers
  <2>2. \A e : AsListed(e)' <=> AsListed(e)
    BY <1>3, PickStep DEF AsListed
  <2>3. picked' \in Nat /\ picked' <= cur.commits /\ pc' \in {"pick", "clean", "abort"}
        /\ (pc' = "clean" => picked' = cur.commits) /\ (pc' = "pick" => picked' < cur.commits)
    BY <1>3, PickStep DEF Typed, ListInv, Merging, Pick
  <2> QED
    BY <1>3, <2>1, <2>2, <2>3, PickStep DEF ListInv, Merging, Judged, Pick
<1>4. CASE AbortPick \/ CleanUp
  <2>1. /\ UNCHANGED <<base, envelope, fork, submits, batch, cur, picked, inBatch>>
        /\ pc \in {"abort", "clean"} /\ pc' = "write"
        /\ verdict' = IF pc = "clean" THEN "merged" ELSE "rejected"
        /\ made' = made \/ made' = [made EXCEPT ![cur.pr] = 0]
    BY <1>4 DEF AbortPick, CleanUp, RemoveWorktree, workers, history
  <2>2. \A e : AsListed(e)' <=> AsListed(e)
    BY <2>1 DEF AsListed
  <2>3. Typed'
    <3>1. CASE made' = made
      BY <2>1, <3>1 DEF Typed
    <3>2. CASE made' = [made EXCEPT ![cur.pr] = 0]
      <4>1. \A p \in PR : Len(Commits[p]) \in Nat
        BY Lengths
      <4>2. made' \in [PR -> Nat]
        BY <3>2 DEF Typed
      <4>3. ASSUME NEW p \in PR PROVE made'[p] <= Len(Commits[p])
        BY <3>2, <4>1 DEF Typed
      <4> QED
        BY <2>1, <4>2, <4>3 DEF Typed
    <3> QED
      BY <2>1, <3>1, <3>2
  <2> QED
    BY <2>1, <2>2, <2>3 DEF ListInv, Merging, Judged
<1>5. CASE WriteEnvelope
  <2>1. /\ UNCHANGED <<base, fork, made, submits, cur, picked>>
        /\ pc = "write" /\ verdict \in {"merged", "rejected"}
        /\ cur.pr \in PR /\ AsListed(cur)
        /\ envelope' = [envelope EXCEPT ![cur.pr].status = verdict]
        /\ IF verdict = "merged" THEN pc' = "gate" ELSE pc' = "next"
        /\ batch' \subseteq batch
        /\ inBatch' \subseteq inBatch \cup {cur.pr}
    BY <1>5 DEF WriteEnvelope, BatchAfterFailure, workers, ListInv, Merging
  <2>2. Typed'
    BY <2>1 DEF Typed
  <2>3. /\ envelope'[cur.pr].status = verdict
        /\ envelope'[cur.pr].commits = cur.commits
        /\ \A p \in PR \ {cur.pr} : envelope'[p] = envelope[p]
    BY <2>1 DEF Typed, AsListed
  <2>4. \A e \in batch' : AsListed(e)'
    BY <2>1, <2>3 DEF ListInv, AsListed, Merging
  <2> QED
    BY <2>1, <2>2, <2>3, <2>4 DEF ListInv, Merging, Judged
<1>6. CASE TestGate
  <2>1. /\ UNCHANGED <<base, envelope, fork, made, submits, batch, cur, picked, inBatch>>
        /\ pc = "gate" /\ pc' \in {"next", "revert"}
    BY <1>6 DEF TestGate, repo, workers, history
  <2>2. \A e : AsListed(e)' <=> AsListed(e)
    BY <2>1 DEF AsListed
  <2> QED
    BY <2>1, <2>2 DEF Typed, ListInv, Merging, Judged
<1>7. CASE Revert
  <2>1. /\ UNCHANGED <<envelope, fork, made, submits, cur, inBatch>>
        /\ pc = "revert" /\ pc' \in {"next", "revert"}
        /\ base' \subseteq base /\ batch' \subseteq batch
        /\ picked' = picked \/ (picked # 0 /\ picked' = picked - 1)
    BY <1>7 DEF Revert, BatchAfterFailure, workers, history
  <2>2. \A e : AsListed(e)' <=> AsListed(e)
    BY <2>1 DEF AsListed
  <2>3. picked' \in Nat /\ picked' <= cur.commits /\ cur.pr \in PR /\ cur.commits \in Nat
    BY <2>1 DEF Typed, ListInv, Merging, Judged
  <2>4. Typed'
    BY <2>1, <2>3 DEF Typed
  <2> QED
    BY <2>1, <2>2, <2>3, <2>4 DEF ListInv, Merging, Judged
<1>8. CASE Crash \/ \E o \in Batches : Run(o)
  <2>1. /\ UNCHANGED <<base, envelope, fork, made, submits>>
        /\ pc' \in {"idle", "list"}
        /\ batch' \in {{}, batch} /\ picked' \in {0, picked} /\ inBatch' \in {{}, inBatch}
    BY <1>8 DEF Crash, Run, repo, workers, history
  <2>2. \A e : AsListed(e)' <=> AsListed(e)
    BY <2>1 DEF AsListed
  <2>3. Typed'
    BY <2>1 DEF Typed
  <2>4. \A e \in batch' : e \in batch
    BY <2>1
  <2> QED
    BY <2>1, <2>2, <2>3, <2>4 DEF ListInv, Merging, Judged
<1>9. ASSUME NEW p \in PR, Around(p) PROVE Typed' /\ ListInv'
  <2>1. Typed' /\ UNCHANGED <<pc, batch, cur, picked, verdict, inBatch>>
    BY <1>9, AroundStep DEF run, history
  <2>2. \A q \in PR : Settled(q) => envelope'[q] = envelope[q]
    BY <1>9, AroundStep
  <2>3. \A e : AsListed(e) => AsListed(e)'
    BY <2>2 DEF AsListed, Settled
  <2>4. Judged => envelope'[cur.pr] = envelope[cur.pr]
    BY <2>2 DEF ListInv, Settled
  <2> QED
    BY <2>1, <2>3, <2>4 DEF ListInv, Merging, Judged
<1>10. CASE UNCHANGED vars
  BY <1>10 DEF vars, repo, workers, run, history, Typed, ListInv, Merging, Judged, AsListed
<1> QED
  BY <1>1, <1>2, <1>3, <1>4, <1>5, <1>6, <1>7, <1>8, <1>9, <1>10 DEF Step

(* The pipeline's locals keep their types, and what it listed holds.       *)
LEMMA Listing == Spec => [](Typed /\ ListInv)
<1>1. Init => Typed /\ ListInv
  <2> SUFFICES ASSUME Init PROVE Typed /\ ListInv
    OBVIOUS
  <2>1. \A p \in PR : Len(Commits[p]) \in Nat
    BY Lengths
  <2>2. Typed
    BY <2>1 DEF Init, RepoInit, NoEnvelope, Typed
  <2> QED
    BY <2>2 DEF Init, ListInv, Merging, Judged
<1> QED
  BY <1>1, ListStep, PTL DEF Spec

-----------------------------------------------------------------------------
(* An envelope says merged only when each of its commits was picked: the   *)
(* picks go from the first to the last and the status comes after.         *)
LEMMA LandStep == Typed /\ ListInv /\ LandInv /\ [Next]_vars => LandInv'
<1> SUFFICES ASSUME Typed, ListInv, LandInv, Step PROVE LandInv'
  BY Steps
<1>1. CASE ListPRs \/ NextPR \/ Crash \/ (\E o \in Batches : Run(o)) \/ UNCHANGED vars
  <2>1. UNCHANGED <<envelope, made, landed>>
    BY <1>1 DEF ListPRs, NextPR, Crash, Run, vars, repo, workers, history
  <2>2. Merging' => picked' = 0 \/ (Merging /\ picked' = picked /\ cur' = cur)
    BY <1>1 DEF ListPRs, NextPR, Crash, Run, vars, run, Merging
  <2>3. \A i \in 1 .. 0 : FALSE
    OBVIOUS
  <2> QED
    BY <2>1, <2>2, <2>3 DEF LandInv, MergedIsLanded
<1>2. CASE Pick
  <2>1. /\ UNCHANGED <<envelope, made, cur>> /\ landed \subseteq landed'
        /\ picked' = picked \/ (picked' = picked + 1 /\ <<cur.pr, picked + 1>> \in landed')
    BY <1>2, PickStep DEF workers
  <2>2. Merging /\ picked \in Nat
    BY <1>2 DEF Pick, Merging, Typed
  <2>3. ASSUME NEW i \in 1 .. picked' PROVE <<cur.pr, i>> \in landed'
    <3>1. i \in 1 .. picked \/ (i = picked + 1 /\ picked' # picked)
      BY <2>1, <2>2
    <3> QED
      BY <2>1, <2>2, <3>1 DEF LandInv
  <2> QED
    BY <2>1, <2>3 DEF LandInv, MergedIsLanded
<1>3. CASE AbortPick \/ CleanUp
  <2>1. UNCHANGED <<envelope, cur, picked, landed>> /\ Merging
    BY <1>3 DEF AbortPick, CleanUp, RemoveWorktree, history, Merging
  <2>2. \A p \in PR : made'[p] \in {0, made[p]}
    BY <1>3 DEF AbortPick, CleanUp, RemoveWorktree, workers, Typed
  <2>3. \A p \in PR : envelope[p].status = "open" => made'[p] <= envelope[p].commits
    <3> SUFFICES ASSUME NEW p \in PR, envelope[p].status = "open"
                 PROVE  made'[p] <= envelope[p].commits
      OBVIOUS
    <3>1. made[p] <= envelope[p].commits /\ envelope[p].commits \in Nat
      BY DEF LandInv, Typed
    <3> QED
      BY <2>2, <3>1
  <2> QED
    BY <2>1, <2>3 DEF LandInv, MergedIsLanded, Merging
<1>4. CASE WriteEnvelope
  <2>1. /\ UNCHANGED <<made, cur, picked, landed>>
        /\ pc = "write" /\ ~Merging' /\ cur.pr \in PR /\ AsListed(cur)
        /\ envelope' = [envelope EXCEPT ![cur.pr].status = verdict]
        /\ verdict \in {"merged", "rejected"}
        /\ verdict = "merged" => picked = cur.commits
    BY <1>4 DEF WriteEnvelope, workers, ListInv, Merging
  <2>2. /\ envelope'[cur.pr].status = verdict
        /\ envelope'[cur.pr].commits = cur.commits
        /\ \A p \in PR \ {cur.pr} : envelope'[p] = envelope[p]
    BY <2>1 DEF Typed, AsListed
  <2>3. verdict = "merged" => \A i \in 1 .. cur.commits : <<cur.pr, i>> \in landed
    BY <2>1 DEF LandInv, Merging
  <2> QED
    BY <2>1, <2>2, <2>3 DEF LandInv, MergedIsLanded
<1>5. CASE TestGate \/ Revert
  <2>1. UNCHANGED <<envelope, made, landed>> /\ ~Merging'
    BY <1>5 DEF TestGate, Revert, repo, workers, history, Merging
  <2> QED
    BY <2>1 DEF LandInv, MergedIsLanded
<1>6. ASSUME NEW p \in PR, Around(p) PROVE LandInv'
  <2>1. UNCHANGED <<pc, cur, picked, landed>> /\ Typed'
    BY <1>6, AroundStep DEF run, history
  <2>2. \A q \in PR :
          \/ envelope'[q] = envelope[q] /\ (Settled(q) => made'[q] \in {0, made[q]})
          \/ envelope'[q].status = "open" /\ made'[q] <= envelope'[q].commits
    BY <1>6, AroundStep
  <2>3. \A q \in PR : envelope'[q].status = "open" => made'[q] <= envelope'[q].commits
    <3> SUFFICES ASSUME NEW q \in PR, envelope'[q].status = "open"
                 PROVE  made'[q] <= envelope'[q].commits
      OBVIOUS
    <3>1. CASE envelope'[q].status = "open" /\ made'[q] <= envelope'[q].commits
      BY <3>1
    <3>2. CASE envelope'[q] = envelope[q] /\ (Settled(q) => made'[q] \in {0, made[q]})
      <4>1. made[q] <= envelope[q].commits /\ envelope[q].commits \in Nat
        BY <3>2 DEF LandInv, Typed
      <4> QED
        BY <3>2, <4>1 DEF Settled
    <3> QED
      BY <2>2, <3>1, <3>2
  <2>4. MergedIsLanded'
    BY <2>1, <2>2 DEF LandInv, MergedIsLanded
  <2> QED
    BY <2>1, <2>3, <2>4 DEF LandInv, Merging
<1> QED
  BY <1>1, <1>2, <1>3, <1>4, <1>5, <1>6 DEF Step

(* So it is in every state. *)
LEMMA Landing == Spec => []LandInv
<1>1. Init => LandInv
  <2> SUFFICES ASSUME Init PROVE LandInv
    OBVIOUS
  <2> QED
    BY DEF Init, RepoInit, NoEnvelope, LandInv, Merging, MergedIsLanded
<1> QED
  BY <1>1, LandStep, Listing, PTL DEF Spec

(* An envelope that says merged tells the truth, whatever batches were     *)
(* killed half-way before and whatever the workers did meanwhile.          *)
THEOREM MergedTellsTheTruth == Spec => []MergedIsLanded
<1>1. LandInv => MergedIsLanded
  BY DEF LandInv
<1> QED
  BY <1>1, Landing, PTL

(* worktree.py:14-15: a branch goes only once all its commits were picked, *)
(* unless it was marked stale: no worker adds a commit to a branch whose   *)
(* request is open.                                                        *)
THEOREM NoWorkIsLost == Spec => WorkIsKept
<1>1. Typed /\ ListInv /\ LandInv /\ [Next]_vars =>
        [\A p \in tree \ tree' : p \in stale \/ \A i \in 1 .. made[p] : <<p, i>> \in landed]_vars
  <2> SUFFICES ASSUME Typed, ListInv, LandInv, Step, NEW p \in tree, p \notin tree', p \notin stale
               PROVE  \A i \in 1 .. made[p] : <<p, i>> \in landed
    BY Steps
  <2>1. CASE CleanUp
    <3>1. /\ p = cur.pr /\ p \in PR /\ AsListed(cur)
          /\ picked = cur.commits /\ Merging
      BY <2>1 DEF CleanUp, RemoveWorktree, ListInv, Merging
    <3>2. made[p] \in Nat /\ picked \in Nat /\ made[p] <= picked
      BY <3>1 DEF AsListed, LandInv, Typed
    <3> QED
      BY <3>1, <3>2 DEF LandInv
  <2>2. ASSUME NEW q \in PR, Around(q) PROVE p \in stale
    BY <2>2 DEF Around, Worker, CreateWorktree, Commit, SubmitPR, MarkStale, GcStale, RemoveWorktree
  <2>3. tree' = tree \/ CleanUp \/ \E q \in PR : Around(q)
    BY DEF Step, ListPRs, NextPR, Pick, AbortPick, WriteEnvelope, TestGate, Revert, Crash, Run,
           vars, repo, workers
  <2> QED
    BY <2>1, <2>2, <2>3
<1> QED
  BY <1>1, Listing, Landing, PTL DEF Spec, WorkIsKept

-----------------------------------------------------------------------------
(* The changes of one commit more, and of no commit.                       *)
LEMMA Changes ==
  ASSUME NEW p, NEW n \in Nat
  PROVE  /\ ChangesOf(p, 0) = {}
         /\ ChangesOf(p, n + 1) = ChangesOf(p, n) \cup CommitOf(p, n + 1)
         /\ \A i \in 1 .. n : CommitOf(p, i) \subseteq ChangesOf(p, n)
<1>1. 1 .. 0 = {} /\ 1 .. n + 1 = 1 .. n \cup {n + 1}
  OBVIOUS
<1> QED
  BY <1>1 DEF ChangesOf

(* A branch that is not forked again keeps its changes. *)
LEMMA SameFork ==
  ASSUME NEW p, fork'[p] = fork[p], NEW n
  PROVE  ChangesOf(p, n)' = ChangesOf(p, n) /\ FilesOf(p, n)' = FilesOf(p, n)
<1>1. \A i : CommitOf(p, i)' = CommitOf(p, i)
  BY DEF CommitOf
<1>2. ChangesOf(p, n)' = ChangesOf(p, n)
  BY <1>1 DEF ChangesOf
<1> QED
  BY <1>2 DEF FilesOf

(* While a request is merged or reverted nobody forks its branch again.    *)
LEMMA CurKeepsFork ==
  ASSUME Typed, ListInv, Step, Merging \/ Judged
  PROVE  cur.pr \in PR /\ fork'[cur.pr] = fork[cur.pr]
<1>1. cur.pr \in PR /\ Settled(cur.pr)
  BY DEF ListInv, AsListed, Settled
<1>2. CASE \E p \in PR : Around(p)
  BY <1>1, <1>2, AroundStep
<1>3. CASE ~ \E p \in PR : Around(p)
  <2>1. fork' = fork
    BY <1>3 DEF Step, ListPRs, NextPR, Pick, AbortPick, CleanUp, RemoveWorktree, WriteEnvelope,
                TestGate, Revert, Crash, Run, vars, repo, workers
  <2> QED
    BY <1>1, <2>1
<1> QED
  BY <1>2, <1>3

(* Picks add the commits of the request in hand to base, reverts take them *)
(* out again, and nobody else writes base.                                 *)
LEMMA BaseStep == Typed /\ ListInv /\ BaseInv /\ [Next]_vars => BaseInv'
<1> SUFFICES ASSUME Typed, ListInv, BaseInv, Step, (Merging \/ Judged)'
             PROVE  /\ base' \subseteq before' \cup ChangesOf(cur.pr, picked)'
                    /\ ChangesOf(cur.pr, cur.commits)' \cap before' = {} => before' \subseteq base'
  BY Steps DEF BaseInv
<1>1. CASE ~ (Merging \/ Judged)
  <2>1. base' = base /\ before' = base
    BY <1>1 DEF Step, ListPRs, NextPR, Pick, AbortPick, CleanUp, WriteEnvelope, TestGate, Revert,
                Crash, Run, Around, vars, repo, run, Merging, Judged
  <2> QED
    BY <2>1
<1>2. CASE Merging \/ Judged
  <2>1. /\ cur.pr \in PR /\ fork'[cur.pr] = fork[cur.pr]
        /\ cur.commits \in Nat /\ picked \in Nat /\ picked <= cur.commits
    BY <1>2, CurKeepsFork DEF ListInv, Typed
  <2>2. cur' = cur /\ before' = before
    BY <1>2 DEF Step, ListPRs, NextPR, Pick, AbortPick, CleanUp, WriteEnvelope, TestGate, Revert,
                Crash, Run, Around, vars, run, history, Merging, Judged
  <2>3. /\ ChangesOf(cur.pr, picked)' = ChangesOf(cur.pr, picked')
        /\ ChangesOf(cur.pr, cur.commits)' = ChangesOf(cur.pr, cur.commits)
    <3>1. \A i : CommitOf(cur.pr, i)' = CommitOf(cur.pr, i)
      BY <2>1, <2>2 DEF CommitOf
    <3> QED
      BY <2>2, <3>1 DEF ChangesOf
  <2>4. SUFFICES /\ base' \subseteq before \cup ChangesOf(cur.pr, picked')
                 /\ ChangesOf(cur.pr, cur.commits) \cap before = {} => before \subseteq base'
    BY <2>2, <2>3
  <2>5. CASE base' = base /\ picked' = picked
    BY <1>2, <2>5 DEF BaseInv
  <2>6. CASE Pick
    <3>1. CASE base' = base \cup CommitOf(cur.pr, picked + 1) /\ picked' = picked + 1
      BY <1>2, <2>1, <3>1, Changes DEF BaseInv
    <3>2. CASE UNCHANGED <<base, picked>>
      BY <1>2, <3>2 DEF BaseInv
    <3> QED
      BY <2>6, <3>1, <3>2, PickStep
  <2>7. CASE Revert
    <3>1. CASE picked = 0
      BY <2>5, <2>7, <3>1 DEF Revert
    <3>2. CASE picked # 0
      <4>1. PICK n \in Nat : picked = n + 1
        <5>1. picked - 1 \in Nat /\ picked = (picked - 1) + 1
          BY <2>1, <3>2
        <5> QED
          BY <5>1
      <4>2. base' = base \ CommitOf(cur.pr, n + 1) /\ picked' = n
        BY <2>7, <3>2, <4>1 DEF Revert
      <4>3. ChangesOf(cur.pr, picked) = ChangesOf(cur.pr, n) \cup CommitOf(cur.pr, n + 1)
        BY <4>1, Changes
      <4>4. CommitOf(cur.pr, n + 1) \subseteq ChangesOf(cur.pr, cur.commits)
        <5>1. n + 1 \in 1 .. cur.commits
          BY <2>1, <4>1
        <5> QED
          BY <2>1, <5>1, Changes
      <4> QED
        BY <1>2, <4>2, <4>3, <4>4 DEF BaseInv
    <3> QED
      BY <3>1, <3>2
  <2> QED
    BY <1>2, <2>5, <2>6, <2>7
    DEF Step, ListPRs, NextPR, AbortPick, CleanUp, RemoveWorktree, WriteEnvelope, TestGate,
        Crash, Run, Around, Worker, CreateWorktree, Commit, SubmitPR, MarkStale, GcStale,
        vars, repo, run, workers, history, Merging, Judged
<1> QED
  BY <1>1, <1>2

(* merge_pipeline.py:117: reverting after the tests failed restores base,  *)
(* for any commits, overlapping ones too, of a request none of whose       *)
(* changes was there before.                                               *)
THEOREM RevertsRestore == Spec => []RevertRestores
<1>1. Init => BaseInv
  BY DEF Init, BaseInv, Merging, Judged
<1>2. Typed /\ ListInv /\ BaseInv => RevertRestores
  <2>1. ChangesOf(cur.pr, 0) = {}
    BY Changes
  <2> QED
    BY <2>1 DEF BaseInv, RevertRestores, Judged
<1> QED
  BY <1>1, <1>2, BaseStep, Listing, PTL DEF Spec

-----------------------------------------------------------------------------
(* The requests of the batch neither change nor come anew, except when the *)
(* batch is listed; a refused one leaves it.                               *)
LEMMA BatchStep == Typed /\ ListInv /\ BatchInv /\ [Next]_vars => BatchInv'
<1> SUFFICES ASSUME Typed, ListInv, BatchInv, Step PROVE BatchInv'
  BY Steps
<1>1. CASE ListPRs
  <2>1. /\ pc = "list" /\ inBatch' = {} /\ ~Merging' /\ ~Judged'
        /\ UNCHANGED <<opts, envelope, fork>>
    BY <1>1 DEF ListPRs, BatchInv, Merging, Judged, repo, workers, history
  <2> DEFINE open == {[pr |-> p, commits |-> envelope[p].commits, at |-> envelope[p].at] :
                        p \in {q \in PR : envelope[q].status = "open"}}
  <2>2. \/ pc' = "idle" /\ batch' = {}
        \/ pc' = "next" /\ batch' = open /\ (opts.rejectOverlap => ~Overlap(open))
    BY <1>1, <2>1 DEF ListPRs, BatchInv
  <2>3. \A e \in open : e.pr \in PR /\ envelope[e.pr].status = "open"
                        /\ e.commits = envelope[e.pr].commits
    OBVIOUS
  <2> HIDE DEF open
  <2>4. Batch' = {e.pr : e \in batch'}
    BY <2>1 DEF Batch
  <2>5. ASSUME ~Overlap(open), NEW d \in open, NEW e \in open, d.pr # e.pr
        PROVE  FilesOf(d.pr, d.commits) \cap FilesOf(e.pr, e.commits) = {}
    BY <2>5 DEF Overlap, SharesFile
  <2>6. ASSUME NEW p, NEW q PROVE Disjoint(p, q)' <=> Disjoint(p, q)
    BY <2>1 DEF Disjoint, FilesOf, ChangesOf, CommitOf
  <2>7. CASE pc' = "idle" /\ batch' = {}
    <3>1. Batch' = {}
      BY <2>4, <2>7
    <3> QED
      BY <2>1, <2>7, <3>1 DEF BatchInv
  <2>8. CASE pc' = "next" /\ batch' = open /\ (opts.rejectOverlap => ~Overlap(open))
    <3>1. \A p \in Batch' : p \in PR /\ Settled(p)'
      BY <2>1, <2>3, <2>4, <2>8 DEF Settled
    <3>2. ASSUME opts.rejectOverlap, NEW p \in Batch', NEW q \in Batch', p # q
          PROVE  Disjoint(p, q)
      <4>1. PICK d \in open : d.pr = p
        BY <2>4, <2>8
      <4>2. PICK e \in open : e.pr = q
        BY <2>4, <2>8
      <4> QED
        BY <2>3, <2>5, <2>8, <3>2, <4>1, <4>2 DEF Disjoint
    <3>3. opts'.rejectOverlap => \A p, q \in Batch' : p # q => Disjoint(p, q)'
      BY <2>1, <2>6, <3>2
    <3> QED
      BY <2>1, <2>8, <3>1, <3>3 DEF BatchInv
  <2> QED
    BY <2>2, <2>7, <2>8
<1>2. CASE \E p \in PR : Around(p)
  <2>1. /\ UNCHANGED <<pc, opts, batch, cur, inBatch>>
        /\ \A q \in PR : Settled(q) => envelope'[q] = envelope[q] /\ fork'[q] = fork[q]
    BY <1>2, AroundStep DEF run, history
  <2>2. Batch' = Batch /\ \A p \in Batch : p \in PR /\ Settled(p)
    BY <2>1 DEF Batch, BatchInv, Merging, Judged
  <2>3. ASSUME NEW p \in Batch, NEW q \in Batch PROVE Disjoint(p, q)' <=> Disjoint(p, q)
    BY <2>1, <2>2 DEF Disjoint, FilesOf, ChangesOf, CommitOf
  <2>4. \A p \in Batch' : p \in PR /\ Settled(p)'
    BY <2>1, <2>2 DEF Settled
  <2>5. \A p \in inBatch' : envelope'[p].status = "merged"
    BY <2>1, <2>2 DEF BatchInv, Batch
  <2>6. opts'.rejectOverlap => \A p, q \in Batch' : p # q => Disjoint(p, q)'
    BY <2>1, <2>2, <2>3 DEF BatchInv
  <2>7. pc' \in {"idle", "list"} => batch' = {} /\ inBatch' = {}
    BY <2>1 DEF BatchInv
  <2> QED
    BY <2>4, <2>5, <2>6, <2>7 DEF BatchInv
<1>3. CASE ~ListPRs /\ ~ \E p \in PR : Around(p)
  <2>1. fork' = fork
    BY <1>3 DEF Step, NextPR, Pick, AbortPick, CleanUp, RemoveWorktree, WriteEnvelope,
                TestGate, Revert, Crash, Run, vars, repo, workers
  <2>2. CASE WriteEnvelope
    <3>1. /\ pc = "write" /\ cur.pr \in PR /\ cur' = cur /\ opts' = opts
          /\ envelope' = [envelope EXCEPT ![cur.pr].status = verdict]
          /\ \/ verdict = "merged" /\ pc' = "gate" /\ inBatch' = inBatch \cup {cur.pr}
                /\ batch' = batch
             \/ verdict = "rejected" /\ pc' = "next" /\ inBatch' = inBatch
                /\ batch' \subseteq batch
      BY <2>2 DEF WriteEnvelope, BatchAfterFailure, ListInv, Merging
    <3>2. \A e \in batch : e.pr # cur.pr
      BY <3>1 DEF ListInv, Merging
    <3>3. /\ \A p \in PR : envelope'[p].commits = envelope[p].commits
          /\ \A p \in PR \ {cur.pr} : envelope'[p].status = envelope[p].status
          /\ envelope'[cur.pr].status = verdict
      BY <3>1 DEF Typed
    <3>4. Batch = {e.pr : e \in batch} \cup inBatch \cup {cur.pr}
      BY <3>1 DEF Batch, Merging
    <3>5. \/ verdict = "merged" /\ Batch' = Batch
          \/ verdict = "rejected" /\ Batch' \subseteq Batch \ {cur.pr}
      <4>1. CASE verdict = "merged"
        BY <3>1, <3>4, <4>1 DEF Batch, Judged
      <4>2. CASE verdict = "rejected"
        <5>1. cur.pr \notin inBatch
          BY <3>1 DEF BatchInv, ListInv, AsListed, Merging
        <5>2. Batch' = {e.pr : e \in batch'} \cup inBatch
          BY <3>1, <4>2 DEF Batch, Merging, Judged
        <5> QED
          BY <3>1, <3>2, <3>4, <4>2, <5>1, <5>2
      <4> QED
        BY <3>1, <4>1, <4>2
    <3>6. \A p, q \in Batch' : Disjoint(p, q)' <=> Disjoint(p, q)
      <4>1. Batch' \subseteq PR
        BY <3>5 DEF BatchInv
      <4>2. ASSUME NEW p \in PR, NEW q \in PR PROVE Disjoint(p, q)' <=> Disjoint(p, q)
        <5>1. envelope'[p].commits = envelope[p].commits /\ envelope'[q].commits = envelope[q].commits
          BY <3>3
        <5>2. \A r, n : ChangesOf(r, n)' = ChangesOf(r, n)
          BY <2>1 DEF ChangesOf, CommitOf
        <5>3. \A r, n : FilesOf(r, n)' = FilesOf(r, n)
          BY <5>2 DEF FilesOf
        <5> QED
          BY <5>1, <5>3 DEF Disjoint
      <4> QED
        BY <4>1, <4>2
    <3>7. \A p \in Batch' : p \in PR /\ Settled(p)'
      BY <3>3, <3>5 DEF BatchInv, Settled
    <3>8. \A p \in inBatch' : envelope'[p].status = "merged"
      <4>1. /\ inBatch \subseteq PR
            /\ \A p \in inBatch : envelope[p].status = "merged"
        BY DEF BatchInv, Typed
      <4>2. cur.pr \notin inBatch
        BY <3>1, <4>1 DEF ListInv, AsListed, Merging
      <4> QED
        BY <3>1, <3>3, <4>1, <4>2
    <3> QED
      BY <3>1, <3>5, <3>6, <3>7, <3>8 DEF BatchInv
  <2>3. CASE ~WriteEnvelope
    <3>1. envelope' = envelope
      BY <1>3, <2>3 DEF Step, NextPR, Pick, AbortPick, CleanUp, RemoveWorktree,
                        TestGate, Revert, Crash, Run, vars, repo, workers
    <3>2. CASE pc' \in {"idle", "list"}
      BY <1>3, <2>3, <3>2 DEF Step, NextPR, Pick, AbortPick, CleanUp, TestGate, Revert,
                        Crash, Run, vars, run, history, BatchInv, Batch, Merging, Judged
    <3>3. CASE pc' \notin {"idle", "list"}
      <4>1. /\ opts' = opts /\ inBatch' = inBatch /\ pc \notin {"idle", "list"}
            /\ \/ batch' \subseteq batch /\ ((cur' = cur /\ (Merging \/ Judged)) \/ ~(Merging \/ Judged)')
               \/ batch' \subseteq batch /\ \E e \in batch : cur' = e
        BY <1>3, <2>3, <3>3 DEF Step, NextPR, Pick, AbortPick, CleanUp, TestGate, Revert,
             BatchAfterFailure, Crash, Run, vars, run, history, Merging, Judged, Typed
      <4>2. Batch' \subseteq Batch
        BY <4>1 DEF Batch
      <4> QED
        BY <2>1, <3>1, <3>3, <4>1, <4>2 DEF BatchInv, Settled, Disjoint, FilesOf, ChangesOf, CommitOf
    <3> QED
      BY <3>2, <3>3
  <2> QED
    BY <2>2, <2>3
<1> QED
  BY <1>1, <1>2, <1>3 DEF Step

(* merge_pipeline.py:4: what a batch run with reject_overlap has merged    *)
(* has no file in common, though requests come, go stale and are worked on *)
(* meanwhile and the envelopes are read again one by one.                  *)
THEOREM BatchesAreDisjoint == Spec => []BatchIsDisjoint
<1>1. Init => BatchInv
  BY DEF Init, BatchInv, Batch, Merging, Judged
<1>2. BatchInv => BatchIsDisjoint
  BY DEF BatchInv, BatchIsDisjoint, Batch, Disjoint
<1> QED
  BY <1>1, <1>2, BatchStep, Listing, PTL DEF Spec

-----------------------------------------------------------------------------
(* The types of the repository and of the pipeline.                        *)

Ranges ==
  /\ conflict \in BOOLEAN
  /\ tree \subseteq PR /\ stale \subseteq PR
  /\ submits <= MaxSubmits
  /\ \A p \in PR : /\ envelope[p].at <= MaxSubmits
                   /\ envelope[p].status = "open" => envelope[p].at >= 1
  /\ opts \in Batches
  /\ batch \subseteq Listed
  /\ cur \in Listed \cup {NoPR}
  /\ picked <= cur.commits
  /\ verdict \in {"none", "merged", "rejected"}
  /\ crashes \in 0 .. MaxCrashes

(* The workers keep the ranges, and leave the pipeline alone.              *)
LEMMA AroundRanges ==
  ASSUME Typed, Ranges, NEW p \in PR, Around(p)
  PROVE  Ranges'
<1> USE DEF Ranges
<1>1. UNCHANGED <<conflict, opts, batch, cur, picked, verdict, crashes>>
  BY AroundStep DEF run, history
<1>2. tree' \subseteq PR /\ stale' \subseteq PR
  BY DEF Around, Worker, CreateWorktree, Commit, SubmitPR, MarkStale, GcStale, RemoveWorktree
<1>3. \/ UNCHANGED <<envelope, submits>>
      \/ /\ submits < MaxSubmits /\ submits' = submits + 1
         /\ envelope' = [envelope EXCEPT ![p] =
                           [status |-> "open", commits |-> made[p], at |-> submits']]
  BY DEF Around, Worker, CreateWorktree, Commit, SubmitPR, MarkStale, GcStale, RemoveWorktree
<1>4. CASE UNCHANGED <<envelope, submits>>
  BY <1>1, <1>2, <1>4
<1>5. CASE /\ submits < MaxSubmits /\ submits' = submits + 1
           /\ envelope' = [envelope EXCEPT ![p] =
                             [status |-> "open", commits |-> made[p], at |-> submits']]
  <2>1. submits \in Nat /\ MaxSubmits \in Nat
    BY WorktreeAssumption DEF Typed
  <2>2. \A q \in PR : /\ envelope'[q].at <= MaxSubmits
                      /\ envelope'[q].status = "open" => envelope'[q].at >= 1
    BY <1>5, <2>1 DEF Typed
  <2> QED
    BY <1>1, <1>2, <1>5, <2>1, <2>2
<1> QED
  BY <1>3, <1>4, <1>5

LEMMA RangesStep == Typed /\ ListInv /\ Ranges /\ [Next]_vars => Ranges'
<1> SUFFICES ASSUME Typed, ListInv, Ranges, Step PROVE Ranges'
  BY Steps
<1> USE DEF Ranges
<1>1. CASE ListPRs
  <2>1. UNCHANGED <<repo, opts, cur, picked, verdict, history>>
    BY <1>1 DEF ListPRs
  <2>2. ASSUME NEW q \in PR, envelope[q].status = "open"
        PROVE  [pr |-> q, commits |-> envelope[q].commits, at |-> envelope[q].at] \in Listed
    BY <2>2, WorktreeAssumption DEF Listed, Typed
  <2>3. batch' \subseteq Listed
    BY <1>1, <2>2 DEF ListPRs
  <2> QED
    BY <2>1, <2>3 DEF repo, workers, history
<1>2. CASE NextPR
  <2>1. /\ UNCHANGED <<repo, opts, crashes>> /\ picked' = 0
        /\ batch' \subseteq batch /\ verdict' \in {"none", "merged", "rejected"}
        /\ cur' \in batch \cup {NoPR}
    BY <1>2 DEF NextPR
  <2>2. cur' \in Listed \cup {NoPR}
    BY <2>1
  <2>3. picked' <= cur'.commits
    BY <2>1, <2>2 DEF Listed, NoPR
  <2> QED
    BY <2>1, <2>2, <2>3 DEF repo, workers
<1>3. CASE Pick
  <2>1. UNCHANGED <<envelope, workers, opts, batch, cur, verdict, crashes>>
        /\ picked' <= cur.commits
    BY <1>3, PickStep
  <2>2. conflict' \in BOOLEAN
    BY <1>3, Zenon DEF Pick
  <2> QED
    BY <2>1, <2>2 DEF workers
<1>4. CASE AbortPick \/ CleanUp
  BY <1>4 DEF AbortPick, CleanUp, RemoveWorktree, workers, history
<1>5. CASE WriteEnvelope
  <2>1. /\ UNCHANGED <<conflict, workers, opts, cur, picked, crashes>>
        /\ envelope' = [envelope EXCEPT ![cur.pr].status = verdict]
        /\ batch' \subseteq batch /\ verdict' = "none"
    BY <1>5 DEF WriteEnvelope, BatchAfterFailure
  <2>2. verdict \in {"merged", "rejected"}
    BY <1>5 DEF WriteEnvelope, ListInv
  <2>3. \A q \in PR : /\ envelope'[q].at <= MaxSubmits
                      /\ envelope'[q].status = "open" => envelope'[q].at >= 1
    BY <2>1, <2>2 DEF Typed
  <2> QED
    BY <2>1, <2>3 DEF workers
<1>6. CASE TestGate
  BY <1>6 DEF TestGate, repo, workers, history
<1>7. CASE Revert
  <2>1. UNCHANGED <<conflict, envelope, workers, opts, cur, verdict, crashes>>
        /\ batch' \subseteq batch /\ picked' \in {picked, picked - 1}
    BY <1>7 DEF Revert, BatchAfterFailure, history
  <2>2. cur.commits \in Nat
    BY DEF Listed, NoPR
  <2> QED
    BY <2>1, <2>2 DEF workers, Typed
<1>8. CASE Crash
  BY <1>8, PipelineAssumption DEF Crash, repo, workers, NoPR
<1>9. ASSUME NEW o \in Batches, Run(o) PROVE Ranges'
  BY <1>9 DEF Run, repo, workers, history
<1>10. ASSUME NEW p \in PR, Around(p) PROVE Ranges'
  BY <1>10, AroundRanges
<1>11. CASE UNCHANGED vars
  BY <1>11 DEF vars, repo, workers, run, history
<1> QED
  BY <1>1, <1>2, <1>3, <1>4, <1>5, <1>6, <1>7, <1>8, <1>9, <1>10, <1>11 DEF Step

(* The repository and the pipeline keep their types, for any work.         *)
THEOREM Typing == Spec => []TypeOK
<1>1. Init => Ranges
  <2> SUFFICES ASSUME Init PROVE Ranges
    OBVIOUS
  <2>1. MaxSubmits \in Nat /\ MaxCrashes \in Nat
    BY WorktreeAssumption, PipelineAssumption
  <2>2. \A p \in PR : envelope[p].at = 0 /\ envelope[p].status = "none"
    BY DEF Init, RepoInit, NoEnvelope
  <2>3. cur = NoPR /\ picked = 0 /\ cur.commits = 0
    BY DEF Init, NoPR
  <2>4. conflict \in BOOLEAN /\ tree \subseteq PR /\ stale \subseteq PR /\ submits = 0
    BY DEF Init, RepoInit
  <2>5. opts \in Batches /\ batch \subseteq Listed /\ verdict = "none" /\ crashes = 0
    BY DEF Init
  <2>6. cur \in Listed \cup {NoPR}
    BY <2>3
  <2> QED
    BY <2>1, <2>2, <2>3, <2>4, <2>5, <2>6 DEF Ranges
<1>2. Typed /\ Ranges => TypeOK
  <2> SUFFICES ASSUME Typed, Ranges PROVE TypeOK
    OBVIOUS
  <2>1. \A p \in PR : envelope[p] \in Envelope
    BY WorktreeAssumption DEF Typed, Ranges, Envelope
  <2>2. envelope \in [PR -> Envelope]
    BY <2>1 DEF Typed
  <2> QED
    BY <2>2, WorktreeAssumption DEF Typed, Ranges, TypeOK, RepoTypeOK
<1> QED
  BY <1>1, <1>2, RangesStep, Listing, PTL DEF Spec

-----------------------------------------------------------------------------
(* What a workflow may land, for any number of cycles and any agents.      *)

Stepping == {"build", "simplify", "code-review", "adversarial"}

Pass == [which : Stepping, changed : BOOLEAN, passed : BOOLEAN, text : BOOLEAN,
         sawContext : Nat]

RunTyped ==
  /\ topology \in {"converge", "pipeline", "fan_out"}
  /\ adversarial \in BOOLEAN
  /\ stages \in Seq(Stepping)
  /\ next \in Stepping \cup {"report", "none"}
  /\ passes \in Seq(Pass)
  /\ context \in Nat
  /\ converged \in BOOLEAN

(* The context handed on is the newest output of the first n passes. *)
Newest(n, seen) == \A k \in 1 .. n : passes[k].text => k <= seen

(* The n-th pass ends a cycle in which nothing changed. *)
QuietCycle(n) ==
  /\ n >= 2
  /\ passes[n - 1].which = "simplify" /\ ~passes[n - 1].changed
  /\ passes[n].which = "code-review" /\ ~passes[n].changed

(* The n-th pass is an adversary that was shown the newest output; one that*)
(* passed the fix has answered.                                            *)
Challenged(n) ==
  /\ passes[n].which = "adversarial"
  /\ passes[n].passed => passes[n].text
  /\ Newest(n - 1, passes[n].sawContext)

(* Where convergence stands.  A pipeline's passes are no convergence; the  *)
(* loop goes on only as long as no cycle was quiet.                        *)
Converging ==
  /\ topology = "converge" <=> next # "none"
  /\ next \in {"build", "simplify", "code-review"} => ~converged
  /\ next = "code-review" => passes # << >> /\ Last.which = "simplify"
  /\ next = "adversarial" => adversarial /\ QuietCycle(Len(passes))
  /\ next = "report" /\ converged =>
       IF adversarial THEN QuietCycle(Len(passes) - 1) /\ Challenged(Len(passes))
       ELSE QuietCycle(Len(passes))

WorkflowInv == RunTyped /\ Newest(Len(passes), context) /\ Converging

(* A pass is appended to the ones before it, was shown the newest output   *)
(* and hands on its own if it has any; one that passed the fix has         *)
(* answered (_safe_run, workflow.py:465-487).                              *)
LEMMA PassIsAppended ==
  ASSUME WorkflowInv, NEW which \in Stepping, RunPass(which)
  PROVE  LET n == Len(passes) + 1
         IN  /\ passes' \in Seq(Pass) /\ Len(passes') = n
             /\ \A k \in 1 .. n - 1 : passes'[k] = passes[k]
             /\ passes'[n].which = which
             /\ passes'[n].sawContext = context
             /\ passes'[n].passed => passes'[n].text
             /\ context' \in Nat
             /\ \A k \in 1 .. n : passes'[k].text => k <= context'
<1> DEFINE n == Len(passes) + 1
<1>1. PICK reply \in Reply :
        /\ passes' = Append(passes, SafeRun(which, reply))
        /\ context' = IF SafeRun(which, reply).text THEN n ELSE context
  BY DEF RunPass
<1> DEFINE res == SafeRun(which, reply)
<1>2. res \in Pass /\ res.which = which /\ res.sawContext = context
      /\ (res.passed => res.text)
  BY DEF SafeRun, Reply, Pass, WorkflowInv, RunTyped
<1>3. passes \in Seq(Pass) /\ n \in Nat /\ n - 1 = Len(passes) /\ context \in Nat
  BY DEF WorkflowInv, RunTyped
<1> HIDE DEF res
<1>4. /\ passes' \in Seq(Pass) /\ Len(passes') = n /\ passes'[n] = res
      /\ \A k \in 1 .. n - 1 : passes'[k] = passes[k]
  BY <1>1, <1>2, <1>3 DEF res
<1>5. context' = IF res.text THEN n ELSE context
  BY <1>1 DEF res
<1>6. context' \in Nat
  BY <1>3, <1>5
<1>7. ASSUME NEW k \in 1 .. n, passes'[k].text PROVE k <= context'
  <2>1. CASE k = n
    BY <2>1, <1>3, <1>4, <1>5, <1>7
  <2>2. CASE k # n
    <3>1. k \in 1 .. n - 1 /\ passes[k].text
      BY <2>2, <1>3, <1>4, <1>7
    <3>2. k <= context
      BY <3>1, <1>3 DEF WorkflowInv, Newest
    <3> QED
      BY <3>2, <1>3, <1>5
  <2> QED
    BY <2>1, <2>2
<1> QED
  BY <1>2, <1>4, <1>6, <1>7

(* A pass leaves the results typed and the newest output in the context.   *)
LEMMA PassKeepsResults ==
  ASSUME WorkflowInv, NEW which \in Stepping, RunPass(which),
         UNCHANGED settings, next' \in Stepping \cup {"report", "none"},
         converged' \in BOOLEAN
  PROVE  RunTyped' /\ Newest(Len(passes), context)'
BY PassIsAppended DEF WorkflowInv, RunTyped, Newest, settings

(* No step of a workflow breaks the invariant.                             *)
LEMMA WorkflowInvKept == WorkflowInv /\ [WorkflowNext]_workflowVars => WorkflowInv'
<1> SUFFICES ASSUME WorkflowInv, [WorkflowNext]_workflowVars PROVE WorkflowInv'
  OBVIOUS
<1> USE DEF settings
<1> DEFINE n == Len(passes)
<1>1. n \in Nat /\ passes \in Seq(Pass) /\ converged \in BOOLEAN /\ adversarial \in BOOLEAN
  BY DEF WorkflowInv, RunTyped
<1>2. ASSUME UNCHANGED <<settings, next, passes, context, converged>> PROVE WorkflowInv'
  BY <1>2
  DEF WorkflowInv, RunTyped, Newest, Converging, Last, QuietCycle, Challenged
<1>3. CASE Build
  <2>1. "build" \in Stepping /\ RunPass("build") /\ next = "build" /\ next' = "simplify"
        /\ UNCHANGED <<settings, converged>>
    BY <1>3 DEF Build, Stepping
  <2>2. RunTyped' /\ Newest(Len(passes), context)'
    BY <2>1, <1>1, PassKeepsResults DEF Stepping
  <2>3. Converging'
    BY <2>1 DEF WorkflowInv, Converging
  <2> QED
    BY <2>2, <2>3 DEF WorkflowInv
<1>4. CASE Simplify
  <2>1. next = "simplify" /\ ~converged /\ topology = "converge" /\ UNCHANGED <<settings, converged>>
    BY <1>4 DEF Simplify, WorkflowInv, Converging
  <2>2. CASE cycles = MaxCycles
    <3>1. next' = "report" /\ UNCHANGED <<passes, context>>
      BY <1>4, <2>2 DEF Simplify
    <3> QED
      BY <2>1, <3>1 DEF WorkflowInv, RunTyped, Newest, Converging
  <2>3. CASE cycles # MaxCycles
    <3>1. "simplify" \in Stepping /\ RunPass("simplify") /\ next' = "code-review"
      BY <1>4, <2>3 DEF Simplify, Stepping
    <3>2. RunTyped' /\ Newest(Len(passes), context)'
      BY <2>1, <3>1, <1>1, PassKeepsResults DEF Stepping
    <3>3. passes' # << >> /\ Last'.which = "simplify"
      BY <3>1, <1>1, PassIsAppended DEF Last
    <3> QED
      BY <2>1, <3>1, <3>2, <3>3 DEF WorkflowInv, Converging
  <2> QED
    BY <2>2, <2>3
<1>5. CASE Review
  <2>1. /\ "code-review" \in Stepping /\ RunPass("code-review")
        /\ next = "code-review" /\ UNCHANGED settings
        /\ converged' = (~Last.changed /\ ~passes'[Len(passes')].changed)
        /\ next' = IF ~converged' THEN "simplify"
                   ELSE IF adversarial THEN "adversarial" ELSE "report"
    BY <1>5 DEF Review, Stepping
  <2>2. converged' \in BOOLEAN
    BY <2>1
  <2>3. RunTyped' /\ Newest(Len(passes), context)'
    BY <2>1, <2>2, PassKeepsResults DEF Stepping
  <2>4. n >= 1 /\ passes[n].which = "simplify" /\ topology = "converge"
    BY <2>1, <1>1 DEF WorkflowInv, Converging, Last
  <2>5. Len(passes') = n + 1 /\ passes'[n] = passes[n]
        /\ passes'[n + 1].which = "code-review"
    BY <2>1, <2>4, <1>1, PassIsAppended
  <2>6. ASSUME converged' PROVE QuietCycle(Len(passes))'
    <3>1. ~passes[n].changed /\ ~passes'[n + 1].changed
      BY <2>1, <2>5, <2>6, Zenon DEF Last
    <3> QED
      BY <2>4, <2>5, <3>1, <1>1 DEF QuietCycle
  <2>7. Converging'
    BY <2>1, <2>2, <2>4, <2>6, <1>1 DEF Converging
  <2> QED
    BY <2>3, <2>7 DEF WorkflowInv
<1>6. CASE Adversarial
  <2>1. /\ "adversarial" \in Stepping /\ RunPass("adversarial")
        /\ next = "adversarial" /\ next' = "report" /\ UNCHANGED <<settings, converged>>
    BY <1>6 DEF Adversarial, Stepping
  <2>2. RunTyped' /\ Newest(Len(passes), context)'
    BY <2>1, <1>1, PassKeepsResults
  <2>3. adversarial /\ QuietCycle(n) /\ topology = "converge" /\ n >= 2
    BY <2>1 DEF WorkflowInv, Converging, QuietCycle
  <2>4. /\ Len(passes') = n + 1 /\ \A k \in 1 .. n : passes'[k] = passes[k]
        /\ passes'[n + 1].which = "adversarial" /\ passes'[n + 1].sawContext = context
        /\ passes'[n + 1].passed => passes'[n + 1].text
    BY <2>1, <1>1, PassIsAppended
  <2>5. QuietCycle(Len(passes) - 1)'
    BY <2>3, <2>4, <1>1 DEF QuietCycle
  <2>6. Challenged(Len(passes))'
    BY <2>4, <1>1 DEF Challenged, Newest, WorkflowInv
  <2>7. Converging'
    BY <2>1, <2>3, <2>5, <2>6 DEF Converging
  <2> QED
    BY <2>2, <2>7 DEF WorkflowInv
<1>7. CASE Stage
  <2>1. topology = "pipeline" /\ n < Len(stages) /\ RunPass(stages[n + 1])
        /\ UNCHANGED <<settings, next, converged>>
    BY <1>7 DEF Stage
  <2>2. stages[n + 1] \in Stepping
    BY <2>1, <1>1 DEF WorkflowInv, RunTyped
  <2>3. next = "none" /\ next \in Stepping \cup {"report", "none"}
    BY <2>1 DEF WorkflowInv, RunTyped, Converging
  <2>4. RunTyped' /\ Newest(Len(passes), context)'
    BY <2>1, <2>2, <2>3, <1>1, PassKeepsResults
  <2>5. Converging'
    BY <2>1, <2>3 DEF Converging
  <2> QED
    BY <2>4, <2>5 DEF WorkflowInv
<1>8. ASSUME NEW i \in 1 .. Prompts, Start(i) \/ Finish(i) PROVE WorkflowInv'
  BY <1>2, <1>8 DEF Start, Finish
<1>9. CASE UNCHANGED workflowVars
  BY <1>2, <1>9 DEF workflowVars
<1> QED
  BY <1>3, <1>4, <1>5, <1>6, <1>7, <1>8, <1>9 DEF WorkflowNext

(* workflow.py:323-326: a workflow that may land has a last cycle in which *)
(* nothing changed and, if it is to be challenged, an adversary that said  *)
(* pass after it was shown the newest output, whatever the agents answer.  *)
THEOREM LandingIsEarned == WorkflowSpec => []MergeIsEarned
<1>1. WorkflowInit => WorkflowInv
  <2> SUFFICES ASSUME WorkflowInit PROVE WorkflowInv
    OBVIOUS
  <2>1. stages \in Seq(Stepping)
    <3>1. stages \in Stages \/ stages = << >>
      BY DEF WorkflowInit
    <3>2. Stages \subseteq Seq(Stepping)
      BY WorkflowAssumption DEF Stepping
    <3>3. << >> \in Seq(Stepping)
      OBVIOUS
    <3> QED
      BY <3>1, <3>2, <3>3
  <2>2. topology = "converge" <=> next # "none"
    BY DEF WorkflowInit
  <2>3. passes = << >> /\ context = 0 /\ converged = FALSE
        /\ topology \in {"converge", "pipeline", "fan_out"} /\ adversarial \in BOOLEAN
        /\ next \in {"build", "simplify", "none"}
    BY DEF WorkflowInit
  <2>4. RunTyped
    <3>1. << >> \in Seq(Pass)
      OBVIOUS
    <3> QED
      BY <2>1, <2>3, <3>1 DEF RunTyped, Stepping
  <2>5. Newest(Len(passes), context)
    BY <2>3 DEF Newest
  <2>6. Converging
    BY <2>2, <2>3 DEF Converging
  <2> QED
    BY <2>4, <2>5, <2>6 DEF WorkflowInv
<1>2. WorkflowInv => MergeIsEarned
  <2> SUFFICES ASSUME WorkflowInv, MergeOk PROVE MergeIsEarned
    BY DEF MergeIsEarned
  <2>1. passes \in Seq(Pass) /\ adversarial \in BOOLEAN
    BY DEF WorkflowInv, RunTyped
  <2>2. CASE adversarial
    <3>1. Last.passed /\ QuietCycle(Len(passes) - 1) /\ Challenged(Len(passes))
      BY <2>2 DEF MergeOk, AdversarialPassed, WorkflowInv, Converging
    <3> QED
      BY <2>1, <2>2, <3>1 DEF MergeIsEarned, QuietCycle, Challenged, Newest, Last
  <2>3. CASE ~adversarial
    <3>1. QuietCycle(Len(passes))
      BY <2>3 DEF MergeOk, WorkflowInv, Converging
    <3> QED
      BY <2>1, <2>3, <3>1 DEF MergeIsEarned, QuietCycle
  <2> QED
    BY <2>1, <2>2, <2>3
<1> QED
  BY <1>1, <1>2, WorkflowInvKept, PTL DEF WorkflowSpec

=============================================================================
