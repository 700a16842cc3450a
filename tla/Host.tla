-------------------------------- MODULE Host --------------------------------
(***************************************************************************)
(* One machine: perpetual teams behind their pid file, the background      *)
(* supervisor and daemon-stop, the GitHub intake of the teams' loops, and  *)
(* whatever else runs there, over one table of processes.                  *)
(***************************************************************************)
EXTENDS Singleton, Daemon, Intake

CONSTANT
  Setups  \* what runs on the host besides teams, to consider

(* A team has one loop here, and its work source is named by its process. *)
ASSUME HostAssumption ==
  /\ Source = Pid
  /\ Setups \subseteq SUBSET {"intake", "daemon"}

VARIABLE
  setup  \* intake: the sources are enabled; daemon: `run --daemon` is used

vars == <<setup, proc, teamVars, daemonVars, intakeVars>>

Init ==
  /\ setup \in Setups
  /\ ProcInit
  /\ TeamInit
  /\ DaemonInit
  /\ IntakeInit

-----------------------------------------------------------------------------
(* A call of generate ends with its process. *)
Intaking(p) == IF proc'[p] = "none" THEN Cut(p) ELSE UNCHANGED intakeVars

Team(p) ==
  /\ TeamStep(p) \/ KillTeam(p)
  /\ Intaking(p)
  /\ UNCHANGED <<setup, daemonVars>>

(* The loop finds its board idle. *)
Refill(p) ==
  /\ "intake" \in setup
  /\ Looping(p)
  /\ LoadSeen(p) \/ Generate(p)
  /\ UNCHANGED <<setup, proc, teamVars, daemonVars>>

Reset == ResetSeen /\ UNCHANGED <<setup, proc, teamVars, daemonVars>>

Background(p) ==
  /\ "daemon" \in setup
  /\ Fork(p) \/ ParentWrites(p) \/ ParentDies(p) \/ DaemonEnds(p)
  /\ UNCHANGED <<setup, teamVars, intakeVars>>

Stop ==
  /\ StopReads \/ StopTerms \/ StopWaits \/ StopUnlinks
  /\ UNCHANGED <<setup, teamVars, intakeVars>>

Killed(p) ==
  IF proc[p] = "team"
  THEN Gone(p) /\ Cut(p) /\ UNCHANGED <<teamPid, raced>>
  ELSE End(p) /\ UNCHANGED <<teamVars, intakeVars>>

StopByForce == StopKills /\ Killed(target) /\ UNCHANGED setup

(* A program this repository does not know. *)
Other(p) ==
  /\ \/ Begin(p, "other")
     \/ proc[p] = "other" /\ End(p)
  /\ UNCHANGED <<setup, teamVars, daemonVars, intakeVars>>

Next ==
  \/ \E p \in Pid : Team(p) \/ Refill(p) \/ Background(p) \/ Other(p)
  \/ Reset
  \/ Stop
  \/ StopByForce

Spec == Init /\ [][Next]_vars

-----------------------------------------------------------------------------
(* The types of the files, of the processes and of their registers. *)
TypeOK ==
  /\ proc \in ProcType
  /\ TeamTypeOK
  /\ DaemonTypeOK
  /\ IntakeTypeOK

=============================================================================
