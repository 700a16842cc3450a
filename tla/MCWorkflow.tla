----------------------------- MODULE MCWorkflow -----------------------------
(* Small instances of Workflow: two cycles, a pipeline of each kind of     *)
(* stage, three prompts on two threads.                                    *)
EXTENDS Workflow

MCStages == {<<"build", "code-review", "simplify", "adversarial">>}
=============================================================================
