------------------------------- MODULE Daemon -------------------------------
(***************************************************************************)
(* The background supervisor of the command line (claude_swarm/cli/        *)
(* main.py): `run --daemon` forks, the parent writes the child's pid;      *)
(* daemon-stop reads it, sends SIGTERM, waits, sends SIGKILL and removes   *)
(* the file.  A reader that finds the file half written reports it and     *)
(* ends, as if there were none: writing it is one step.                    *)
(***************************************************************************)
EXTENDS Processes

VARIABLES
  daemonPid,  \* supervisor.pid
  forked,     \* daemons whose parent has not written the file
  stopping,   \* where daemon-stop is: "no", "term", "wait", "kill" or "unlink"
  target,     \* the pid it has read
  strayed     \* history: a fork beside another daemon or a stop, a stop
              \* beside a fork, or a parent that died before it wrote

daemonVars == <<daemonPid, forked, stopping, target, strayed>>

DaemonTypeOK ==
  /\ daemonPid \in Pid \cup {NoPid}
  /\ forked \subseteq Pid
  /\ stopping \in {"no", "term", "wait", "kill", "unlink"}
  /\ target \in Pid \cup {NoPid}
  /\ strayed \in BOOLEAN

DaemonInit ==
  /\ daemonPid = NoPid
  /\ forked = {}
  /\ stopping = "no"
  /\ target = NoPid
  /\ strayed = FALSE

-----------------------------------------------------------------------------
(* _spawn_daemon_or_exit looks at nothing before it forks. *)
Fork(p) ==
  /\ p \notin forked
  /\ Begin(p, "daemon")
  /\ forked' = forked \cup {p}
  /\ strayed' = (strayed \/ forked # {} \/ stopping # "no"
                   \/ \E q \in Pid : proc[q] = "daemon")
  /\ UNCHANGED <<daemonPid, stopping, target>>

ParentWrites(p) ==
  /\ p \in forked
  /\ forked' = forked \ {p}
  /\ daemonPid' = p
  /\ UNCHANGED <<proc, stopping, target, strayed>>

ParentDies(p) ==
  /\ p \in forked
  /\ forked' = forked \ {p}
  /\ strayed' = TRUE
  /\ UNCHANGED <<proc, daemonPid, stopping, target>>

(* It drained its board, was aborted, obeyed a signal or was killed; the   *)
(* file stays.                                                             *)
DaemonEnds(p) ==
  /\ proc[p] = "daemon"
  /\ End(p)
  /\ UNCHANGED daemonVars

-----------------------------------------------------------------------------
StopReads ==
  /\ stopping = "no"
  /\ daemonPid # NoPid
  /\ target' = daemonPid
  /\ stopping' = "term"
  /\ strayed' = (strayed \/ forked # {})
  /\ UNCHANGED <<proc, daemonPid, forked>>

(* SIGTERM, or ProcessLookupError. *)
StopTerms ==
  /\ stopping = "term"
  /\ stopping' = IF Alive(target) THEN "wait" ELSE "unlink"
  /\ UNCHANGED <<proc, daemonPid, forked, target, strayed>>

(* mutant: a daemon that outlives the timeout is given up *)
StopGivesUp ==
  /\ stopping = "wait"
  /\ stopping' = "unlink"
  /\ UNCHANGED <<proc, daemonPid, forked, target, strayed>>

(* The process is gone, or the timeout has passed. *)
StopWaits ==
  /\ stopping = "wait"
  /\ stopping' \in (IF Alive(target) THEN {"kill"} ELSE {"unlink", "kill"})
  /\ UNCHANGED <<proc, daemonPid, forked, target, strayed>>

(* SIGKILL, to whatever process has that pid by now: Host says how it ends. *)
StopKills ==
  /\ stopping = "kill"
  /\ stopping' = "unlink"
  /\ UNCHANGED <<daemonPid, forked, target, strayed>>

StopUnlinks ==
  /\ stopping = "unlink"
  /\ stopping' = "no"
  /\ daemonPid' = NoPid
  /\ target' = NoPid
  /\ UNCHANGED <<proc, forked, strayed>>

-----------------------------------------------------------------------------
(* cli/main.py:94: a daemon can be stopped with daemon-stop: it is named   *)
(* by the pid file as long as it lives - provided no second one was forked *)
(* beside it or while a stop was under way, which nothing refuses.         *)
DaemonIsNamed ==
  ~strayed => \A p \in Pid : proc[p] = "daemon" => p \in forked \/ daemonPid = p

=============================================================================
