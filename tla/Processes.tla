----------------------------- MODULE Processes ------------------------------
(***************************************************************************)
(* The operating system's part of the models of one host: process ids,     *)
(* which are given again once their process is gone.                       *)
(***************************************************************************)
EXTENDS Naturals

CONSTANTS
  Pid,    \* process ids
  NoPid   \* what a missing or unreadable pid file holds

ASSUME ProcessAssumption == NoPid \notin Pid

VARIABLE
  proc    \* what runs under each pid: "none", "team", "daemon" or "other"

ProcType == [Pid -> {"none", "team", "daemon", "other"}]

ProcInit == proc = [p \in Pid |-> "none"]

(* os.kill(pid, 0) does not raise ProcessLookupError. *)
Alive(p) == proc[p] # "none"

Begin(p, kind) ==
  /\ ~Alive(p)
  /\ proc' = [proc EXCEPT ![p] = kind]

End(p) == proc' = [proc EXCEPT ![p] = "none"]

=============================================================================
