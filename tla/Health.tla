------------------------------- MODULE Health -------------------------------
(***************************************************************************)
(* The heartbeat between two processes: a perpetual loop writes its status *)
(* file after every tick (claude_swarm/perpetual.py), the meta-supervisor  *)
(* reads the file and calls the loop silent or not (claude_swarm/meta_     *)
(* supervisor.py).  Time is counted in seconds up to the timeout.          *)
(***************************************************************************)
EXTENDS Naturals

CONSTANTS
  Loop,     \* loops with a status file
  Timeout,  \* MetaSupervisorMonitor.heartbeat_timeout_s
  Never     \* no time

VARIABLES
  pc,      \* where each loop is
  tickAge, \* seconds since stats.last_tick_at
  file,    \* its status file: "absent", "torn" while it is written, or
           \* "whole", and the seconds since the last tick it tells of
  quiet,   \* history: seconds since the file was last written whole
  silent   \* the loops the last check found silent

vars == <<pc, tickAge, file, quiet, silent>>

-----------------------------------------------------------------------------
(* The keys of PerpetualSupervisor.status; last_tick_at lies one level     *)
(* down, in the object under "perpetual".                                  *)
StatusKeys ==
  {"teammate", "turn", "cost_so_far_usd", "cost_cap_usd", "kanban", "heads",
   "perpetual", "name"}

(* The keys the monitor looks for, at the top. *)
HeartbeatKeys == {"last_tick", "heartbeat", "updated_at"}

(* _read_heartbeat: nothing without a file, without JSON in it or without  *)
(* one of the keys.                                                        *)
ReadHeartbeat(l) ==
  IF file[l].state = "whole" /\ HeartbeatKeys \cap StatusKeys # {}
  THEN file[l].age ELSE Never

IsSilent(l) == ReadHeartbeat(l) = Never \/ ReadHeartbeat(l) >= Timeout

Later(age) == IF age = Never THEN Never ELSE IF age < Timeout THEN age + 1 ELSE age

NoText(state) == [state |-> state, age |-> Never]

Init ==
  /\ pc = [l \in Loop |-> "top"]
  /\ tickAge = [l \in Loop |-> Never]
  /\ file = [l \in Loop |-> NoText("absent")]
  /\ quiet = [l \in Loop |-> Timeout]
  /\ silent = {}

-----------------------------------------------------------------------------
(* run: a tick, which notes the time and then drives a task for as long as *)
(* it takes, a checkpoint, a nap.                                          *)
Tick(l) ==
  /\ pc[l] = "top"
  /\ tickAge' = [tickAge EXCEPT ![l] = 0]
  /\ pc' = [pc EXCEPT ![l] = "checkpoint"]
  /\ UNCHANGED <<file, quiet, silent>>

(* The run ends with one more checkpoint. *)
Stop(l) ==
  /\ pc[l] = "top"
  /\ pc' = [pc EXCEPT ![l] = "checkpoint_last"]
  /\ UNCHANGED <<tickAge, file, quiet, silent>>

(* write_text opens the file empty; an OSError is logged. *)
Checkpoint(l) ==
  /\ \/ /\ pc[l] \in {"checkpoint", "checkpoint_last"}
        /\ \/ /\ pc' = [pc EXCEPT ![l] = IF @ = "checkpoint" THEN "write" ELSE "write_last"]
              /\ file' = [file EXCEPT ![l] = NoText("torn")]
           \/ /\ pc' = [pc EXCEPT ![l] = IF @ = "checkpoint" THEN "top" ELSE "gone"]
              /\ UNCHANGED file
        /\ UNCHANGED quiet
     \/ /\ pc[l] \in {"write", "write_last"}
        /\ pc' = [pc EXCEPT ![l] = IF @ = "write" THEN "top" ELSE "gone"]
        /\ file' = [file EXCEPT ![l] = [state |-> "whole", age |-> tickAge[l]]]
        /\ quiet' = [quiet EXCEPT ![l] = 0]
  /\ UNCHANGED <<tickAge, silent>>

Crash(l) ==
  /\ pc[l] # "gone"
  /\ pc' = [pc EXCEPT ![l] = "gone"]
  /\ UNCHANGED <<tickAge, file, quiet, silent>>

Second ==
  /\ tickAge' = [l \in Loop |-> Later(tickAge[l])]
  /\ file' = [l \in Loop |-> [file[l] EXCEPT !.age = Later(@)]]
  /\ quiet' = [l \in Loop |-> Later(quiet[l])]
  /\ UNCHANGED <<pc, silent>>

(* check_supervisor_health over the names with a file. *)
Check ==
  /\ silent' = {l \in Loop : file[l].state # "absent" /\ IsSilent(l)}
  /\ UNCHANGED <<pc, tickAge, file, quiet>>

Next ==
  \/ \E l \in Loop : Tick(l) \/ Stop(l) \/ Checkpoint(l) \/ Crash(l)
  \/ Second
  \/ Check

Spec == Init /\ [][Next]_vars

-----------------------------------------------------------------------------
(* meta_supervisor.py:426-427: is_silent "means the supervisor has not     *)
(* written a heartbeat within heartbeat_timeout_s"; a loop that has just   *)
(* written its status is not called silent.                                *)
SilentMeansQuiet ==
  [][\A l \in silent' \ silent : quiet[l] = Timeout]_vars

=============================================================================
