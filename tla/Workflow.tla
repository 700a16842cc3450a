------------------------------ MODULE Workflow ------------------------------
(***************************************************************************)
(* WorkflowRunner (claude_swarm/workflow.py): one workflow over agents     *)
(* that may answer anything, answer without a verdict, or crash.           *)
(* converge builds, then cycles /simplify and /code-review until a cycle   *)
(* changes nothing, then asks an adversary; pipeline runs stages in order; *)
(* fan_out runs prompts on a pool of threads.                              *)
(*                                                                         *)
(* The text of an answer matters only by whether there is any and by its   *)
(* VERDICT line; the context handed on is the number of the pass whose     *)
(* output it is.                                                           *)
(***************************************************************************)
EXTENDS Naturals, Sequences, FiniteSets

CONSTANTS
  MaxCycles,    \* WorkflowConfig.max_cycles
  MaxParallel,  \* WorkflowConfig.max_parallel
  Stages,       \* the pipelines to consider
  Prompts       \* prompts of a fan-out

ASSUME WorkflowAssumption ==
  /\ MaxCycles \in Nat
  /\ MaxParallel \in Nat
  /\ Stages \subseteq Seq({"build", "simplify", "code-review", "adversarial"})
  /\ Prompts \in Nat

VARIABLES
  topology,     \* "converge", "pipeline" or "fan_out"
  adversarial,  \* WorkflowConfig.run_adversarial
  stages,       \* the pipeline's stages
  next,         \* the pass converge runs next, or "report"
  passes,       \* the results so far
  context,      \* the pass whose output is handed on, 0 for none
  cycles,       \* simplify and review cycles run
  converged,    \* the last cycle changed nothing
  branch        \* what became of each prompt of a fan-out

settings == <<topology, adversarial, stages>>
workflowVars == <<settings, next, passes, context, cycles, converged, branch>>

-----------------------------------------------------------------------------
(* What a pass may come to: one of the four verdicts, a text without a     *)
(* verdict, an empty text, an exception.                                   *)
Reply == {"changed", "clean", "pass", "fail", "silent", "empty", "crash"}

(* mutant: an adversary that does not say fail has passed the fix *)
SafeRunTrusts(which, reply) ==
  [which |-> which,
   changed |-> which # "adversarial" /\ reply = "changed",
   passed |-> which = "adversarial" /\ reply # "fail",
   text |-> reply \notin {"empty", "crash"},
   sawContext |-> context]

(* _safe_run over _parse_pass_result: no verdict and an exception both     *)
(* count as nothing changed, and as a fix refuted.                         *)
SafeRun(which, reply) ==
  [which |-> which,
   changed |-> which # "adversarial" /\ reply = "changed",
   passed |-> which = "adversarial" /\ reply = "pass",
   text |-> reply \notin {"empty", "crash"},
   sawContext |-> context]

WorkflowInit ==
  /\ topology \in {"converge", "pipeline", "fan_out"}
  /\ adversarial \in BOOLEAN
  /\ stages \in IF topology = "pipeline" THEN Stages ELSE {<< >>}
  /\ next \in IF topology = "converge" THEN {"build", "simplify"} ELSE {"none"}
  /\ passes = << >>
  /\ context = 0
  /\ cycles = 0
  /\ converged = FALSE
  /\ branch = [i \in 1 .. Prompts |-> "queued"]

Last == passes[Len(passes)]

RunPass(which) ==
  \E reply \in Reply :
    LET res == SafeRun(which, reply) IN
      /\ passes' = Append(passes, res)
      /\ context' = IF res.text THEN Len(passes) + 1 ELSE context

-----------------------------------------------------------------------------
(* converge *)

(* The head of the loop over range(max_cycles). *)
Build ==
  /\ next = "build"
  /\ RunPass("build")
  /\ next' = "simplify"
  /\ UNCHANGED <<settings, cycles, converged, branch>>

Simplify ==
  /\ next = "simplify"
  /\ IF cycles = MaxCycles
     THEN next' = "report" /\ UNCHANGED <<passes, context, cycles>>
     ELSE next' = "code-review" /\ cycles' = cycles + 1 /\ RunPass("simplify")
  /\ UNCHANGED <<settings, converged, branch>>

(* A cycle in which neither pass changed anything ends the loop. *)
Review ==
  /\ next = "code-review"
  /\ RunPass("code-review")
  /\ converged' = (~Last.changed /\ ~passes'[Len(passes')].changed)
  /\ next' = IF ~converged' THEN "simplify"
             ELSE IF adversarial THEN "adversarial" ELSE "report"
  /\ UNCHANGED <<settings, cycles, branch>>

Adversarial ==
  /\ next = "adversarial"
  /\ RunPass("adversarial")
  /\ next' = "report"
  /\ UNCHANGED <<settings, cycles, converged, branch>>

AdversarialPassed == converged /\ (adversarial => Last.passed)

(* WorkflowReport.merge_ok *)
MergeOk == next = "report" /\ converged /\ AdversarialPassed

-----------------------------------------------------------------------------
(* pipeline and fan_out *)

Stage ==
  /\ topology = "pipeline"
  /\ Len(passes) < Len(stages)
  /\ RunPass(stages[Len(passes) + 1])
  /\ UNCHANGED <<settings, next, cycles, converged, branch>>

Running == {i \in 1 .. Prompts : branch[i] = "running"}

Queued == {i \in 1 .. Prompts : branch[i] = "queued"}

Width == IF MaxParallel = 0 THEN 1 ELSE IF MaxParallel < Prompts THEN MaxParallel ELSE Prompts

(* The pool's threads take the prompts in order. *)
Start(i) ==
  /\ topology = "fan_out"
  /\ Cardinality(Running) < Width
  /\ i \in Queued /\ \A j \in Queued : i <= j
  /\ branch' = [branch EXCEPT ![i] = "running"]
  /\ UNCHANGED <<settings, next, passes, context, cycles, converged>>

(* mutant: a branch that raises leaves no result *)
FinishUnlessCrash(i) ==
  /\ branch[i] = "running"
  /\ \E reply \in Reply : branch' = [branch EXCEPT ![i] = IF reply = "crash" THEN "lost" ELSE reply]
  /\ UNCHANGED <<settings, next, passes, context, cycles, converged>>

(* A pass that raises is a result too. *)
Finish(i) ==
  /\ branch[i] = "running"
  /\ \E reply \in Reply : branch' = [branch EXCEPT ![i] = reply]
  /\ UNCHANGED <<settings, next, passes, context, cycles, converged>>

WorkflowNext ==
  \/ Build \/ Simplify \/ Review \/ Adversarial
  \/ Stage
  \/ \E i \in 1 .. Prompts : Start(i) \/ Finish(i)

WorkflowSpec == WorkflowInit /\ [][WorkflowNext]_workflowVars

(* An agent's call returns or raises, and the pool's threads run. *)
WorkflowFairSpec ==
  /\ WorkflowSpec
  /\ WF_workflowVars(WorkflowNext)
  /\ \A i \in 1 .. Prompts : WF_workflowVars(Finish(i))

-----------------------------------------------------------------------------
(* workflow.py:323-326: a workflow may land iff it converged and survived  *)
(* the adversary.  Whatever the agents answer or fail to, a landing means  *)
(* that no pass of the last cycle reported a change, and that an adversary *)
(* which did not crash said pass after it was shown the newest output.     *)
MergeIsEarned ==
  MergeOk =>
    LET n == Len(passes) - (IF adversarial THEN 1 ELSE 0) IN
      /\ passes[n - 1].which = "simplify" /\ ~passes[n - 1].changed
      /\ passes[n].which = "code-review" /\ ~passes[n].changed
      /\ adversarial =>
           /\ passes[n + 1].which = "adversarial"
           /\ passes[n + 1].passed /\ passes[n + 1].text
           /\ \A k \in 1 .. n : passes[k].text => k <= passes[n + 1].sawContext

(* max_cycles "always terminates" (workflow.py:334), a pipeline runs every *)
(* stage, and "one bad branch doesn't sink its siblings" (workflow.py:373):*)
(* every workflow ends with all of its results.                            *)
EveryWorkflowEnds ==
  <>(CASE topology = "converge" -> next = "report"
       [] topology = "pipeline" -> Len(passes) = Len(stages)
       [] topology = "fan_out"  -> \A i \in 1 .. Prompts : branch[i] \in Reply)

=============================================================================
