----------------------------- MODULE Singleton ------------------------------
(***************************************************************************)
(* One perpetual team per home (claude_swarm/perpetual.py): PidfileGuard   *)
(* around the launch and the life of run_perpetual_team.  Reading the pid  *)
(* file, probing its owner, truncating it and writing it are steps; a team *)
(* may be started without the guard (--no-singleton) or detached           *)
(* (join=False), and a loop that outlives the interrupt goes on after its  *)
(* team gave the guard up.                                                 *)
(***************************************************************************)
EXTENDS Processes

VARIABLES
  teamPid,  \* perpetual-team.pid: a pid, or NoPid when missing or truncated
  at,       \* where run_perpetual_team is in each process
  mode,     \* how each was called: "guarded", "detached" or "unguarded"
  owner,    \* the pid acquire has read
  raced     \* history: two acquires overlapped

teamVars == <<teamPid, at, mode, owner, raced>>

-----------------------------------------------------------------------------
Where == {"out", "look", "probe", "truncate", "write", "run", "release", "unlink", "left"}

Mode == {"guarded", "detached", "unguarded"}

TeamTypeOK ==
  /\ teamPid \in Pid \cup {NoPid}
  /\ at \in [Pid -> Where]
  /\ mode \in [Pid -> Mode]
  /\ owner \in [Pid -> Pid \cup {NoPid}]
  /\ raced \in BOOLEAN

TeamInit ==
  /\ teamPid = NoPid
  /\ at = [p \in Pid |-> "out"]
  /\ mode = [p \in Pid |-> "guarded"]
  /\ owner = [p \in Pid |-> NoPid]
  /\ raced = FALSE

Acquiring(p) == at[p] \in {"probe", "truncate", "write"}

(* Loops of the process may be alive. *)
Looping(p) == at[p] \in {"run", "release", "unlink", "left"}

(* The process holds the guard. *)
Holds(p) == at[p] \in {"run", "release", "unlink"} /\ mode[p] # "unguarded"

(* The process is gone, and with it the daemon threads of its loops. *)
Gone(p) ==
  /\ End(p)
  /\ at' = [at EXCEPT ![p] = "out"]
  /\ owner' = [owner EXCEPT ![p] = NoPid]
  /\ mode' = [mode EXCEPT ![p] = "guarded"]

-----------------------------------------------------------------------------
StartTeam(p) ==
  /\ Begin(p, "team")
  /\ \E m \in Mode :
       /\ mode' = [mode EXCEPT ![p] = m]
       /\ at' = [at EXCEPT ![p] = IF m = "unguarded" THEN "run" ELSE "look"]
  /\ UNCHANGED <<teamPid, owner, raced>>

(* acquire: exists and _read_pid. *)
Look(p) ==
  /\ at[p] = "look"
  /\ owner' = [owner EXCEPT ![p] = teamPid]
  /\ at' = [at EXCEPT ![p] = IF teamPid = NoPid THEN "truncate" ELSE "probe"]
  /\ raced' = (raced \/ \E q \in Pid \ {p} : Acquiring(q))
  /\ UNCHANGED <<proc, teamPid, mode>>

(* mutant: only a pid of another user's process counts as alive *)
ProbeOthers(p) ==
  /\ at[p] = "probe"
  /\ IF owner[p] # p /\ proc[owner[p]] = "other"
     THEN Gone(p)
     ELSE /\ at' = [at EXCEPT ![p] = "truncate"]
          /\ owner' = [owner EXCEPT ![p] = NoPid]
          /\ UNCHANGED <<proc, mode>>
  /\ UNCHANGED <<teamPid, raced>>

(* A live owner other than this process raises DuplicateTeamError; a pid   *)
(* that was given again counts as alive.                                   *)
Probe(p) ==
  /\ at[p] = "probe"
  /\ IF owner[p] # p /\ Alive(owner[p])
     THEN Gone(p)
     ELSE /\ at' = [at EXCEPT ![p] = "truncate"]
          /\ owner' = [owner EXCEPT ![p] = NoPid]
          /\ UNCHANGED <<proc, mode>>
  /\ UNCHANGED <<teamPid, raced>>

(* write_text opens the file empty, then writes it. *)
Truncate(p) ==
  /\ at[p] = "truncate"
  /\ teamPid' = NoPid
  /\ at' = [at EXCEPT ![p] = "write"]
  /\ UNCHANGED <<proc, mode, owner, raced>>

(* The loops are built and started; a failure, or join=False, releases the *)
(* guard at once.                                                          *)
WritePid(p) ==
  /\ at[p] = "write"
  /\ teamPid' = p
  /\ \E next \in {"run", "release"} :
       /\ mode[p] = "detached" => next = "release"
       /\ at' = [at EXCEPT ![p] = next]
  /\ UNCHANGED <<proc, mode, owner, raced>>

(* run_perpetual_team returns or raises: the process ends, or goes on with *)
(* the loops that are still alive: all of a detached team, one that did    *)
(* not end within the join's ten seconds, those started before a failure.  *)
Leave(p) ==
  \/ mode[p] # "detached" /\ Gone(p)
  \/ at' = [at EXCEPT ![p] = "left"] /\ UNCHANGED <<proc, mode, owner>>

(* Every loop ended, or an interrupt and ten seconds. *)
Joined(p) ==
  /\ at[p] = "run"
  /\ IF mode[p] = "unguarded"
     THEN Leave(p)
     ELSE at' = [at EXCEPT ![p] = "release"] /\ UNCHANGED <<proc, mode, owner>>
  /\ UNCHANGED <<teamPid, raced>>

Release(p) ==
  /\ at[p] = "release"
  /\ IF teamPid = p
     THEN at' = [at EXCEPT ![p] = "unlink"] /\ UNCHANGED <<proc, mode, owner>>
     ELSE Leave(p)
  /\ UNCHANGED <<teamPid, raced>>

Unlink(p) ==
  /\ at[p] = "unlink"
  /\ teamPid' = NoPid
  /\ Leave(p)
  /\ UNCHANGED raced

(* Killed anywhere; the pid file stays. *)
KillTeam(p) ==
  /\ proc[p] = "team"
  /\ Gone(p)
  /\ UNCHANGED <<teamPid, raced>>

TeamStep(p) ==
  \/ StartTeam(p) \/ Look(p) \/ Probe(p) \/ Truncate(p) \/ WritePid(p)
  \/ Joined(p) \/ Release(p) \/ Unlink(p)

-----------------------------------------------------------------------------
(* perpetual.py:455-458: while a team holds the guard no second one gets   *)
(* it, whichever processes die and whoever is given their pids - but for   *)
(* the acquires that overlap, which nothing keeps apart.                   *)
OneTeamUnlessRaced ==
  ~raced => \A p, q \in Pid : Holds(p) /\ Holds(q) => p = q

=============================================================================
