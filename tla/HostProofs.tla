----------------------------- MODULE HostProofs -----------------------------
(***************************************************************************)
(* The files of one host, for any number of processes and issues: the seen *)
(* file of the GitHub intake, the pid file of the perpetual team and the   *)
(* pid file of the background supervisor.  Each component has an inductive *)
(* invariant of its own; a step of the host is first seen through the eyes *)
(* of each of them.                                                        *)
(***************************************************************************)
EXTENDS Host, TLAPS

(* While daemon-stop is under way it has read a pid. *)
Targeted == stopping # "no" => target \in Pid

-----------------------------------------------------------------------------
(* A step of the host, as the intake sees it. *)
IntakeView ==
  \/ UNCHANGED intakeVars
  \/ ResetSeen
  \/ \E s \in Source : LoadSeen(s) \/ File(s) \/ Save(s) \/ Cut(s)

(* A process that is no team's starts or ends. *)
Stranger(p) ==
  /\ \E kind \in {"none", "daemon", "other"} : proc' = [proc EXCEPT ![p] = kind]
  /\ proc[p] # "team"
  /\ UNCHANGED teamVars

(* A step of the host, as the team's guard sees it. *)
TeamView ==
  \/ UNCHANGED <<proc, teamVars>>
  \/ \E p \in Pid : TeamStep(p) \/ KillTeam(p) \/ Stranger(p)

(* A process that is no daemon starts, or one of any kind ends. *)
NoDaemon(p) ==
  /\ \E kind \in {"none", "team", "other"} : proc' = [proc EXCEPT ![p] = kind]
  /\ UNCHANGED daemonVars

(* A step of the host, as the background supervisor's pid file sees it. *)
DaemonView ==
  \/ UNCHANGED <<proc, daemonVars>>
  \/ \E p \in Pid : Fork(p) \/ ParentWrites(p) \/ ParentDies(p) \/ NoDaemon(p)
  \/ StopReads \/ StopTerms \/ StopWaits \/ StopUnlinks
  \/ StopKills /\ proc' = [proc EXCEPT ![target] = "none"]

(* What a team does to the table of processes.                             *)
LEMMA TeamOnProc ==
  ASSUME NEW p \in Pid, TeamStep(p) \/ KillTeam(p)
  PROVE  proc' = proc \/ \E kind \in {"none", "team"} : proc' = [proc EXCEPT ![p] = kind]
BY DEF TeamStep, KillTeam, StartTeam, Begin, Look, Probe, Truncate, WritePid, Joined,
       Release, Unlink, Leave, Gone, End

(* Every step of the host is one of the steps each component knows.        *)
LEMMA Views ==
  ASSUME DaemonTypeOK, Targeted, [Next]_vars
  PROVE  IntakeView /\ TeamView /\ DaemonView
<1>1. ASSUME NEW p \in Pid, Team(p) PROVE IntakeView /\ TeamView /\ DaemonView
  <2>1. IntakeView
    BY <1>1, HostAssumption DEF Team, Intaking, IntakeView
  <2>2. TeamView
    BY <1>1 DEF Team, TeamView
  <2>3. DaemonView
    BY <1>1, TeamOnProc DEF Team, DaemonView, NoDaemon
  <2> QED
    BY <2>1, <2>2, <2>3
<1>2. ASSUME NEW p \in Pid, Refill(p) PROVE IntakeView /\ TeamView /\ DaemonView
  BY <1>2, HostAssumption
  DEF Refill, Generate, SaveFails, IntakeView, TeamView, DaemonView
<1>3. ASSUME NEW p \in Pid, Background(p) PROVE IntakeView /\ TeamView /\ DaemonView
  BY <1>3
  DEF Background, Fork, Begin, Alive, ParentWrites, ParentDies, DaemonEnds, End,
      IntakeView, TeamView, Stranger, DaemonView, NoDaemon
<1>4. ASSUME NEW p \in Pid, Other(p) PROVE IntakeView /\ TeamView /\ DaemonView
  BY <1>4
  DEF Other, Begin, Alive, End, IntakeView, TeamView, Stranger, DaemonView, NoDaemon
<1>5. CASE Reset
  BY <1>5 DEF Reset, IntakeView, TeamView, DaemonView
<1>6. CASE Stop
  BY <1>6
  DEF Stop, StopReads, StopTerms, StopWaits, StopUnlinks, IntakeView, TeamView, DaemonView
<1>7. CASE StopByForce
  <2>1. target \in Pid
    BY <1>7 DEF StopByForce, StopKills, Targeted
  <2>2. proc' = [proc EXCEPT ![target] = "none"]
    BY <1>7 DEF StopByForce, Killed, Gone, End
  <2>3. IntakeView
    BY <1>7, <2>1, HostAssumption DEF StopByForce, Killed, IntakeView
  <2>4. TeamView
    BY <1>7, <2>1, <2>2
    DEF StopByForce, Killed, TeamView, KillTeam, Stranger
  <2> QED
    BY <1>7, <2>2, <2>3, <2>4 DEF StopByForce, DaemonView
<1>8. CASE UNCHANGED vars
  BY <1>8 DEF vars, IntakeView, TeamView, DaemonView
<1> QED
  BY <1>1, <1>2, <1>3, <1>4, <1>5, <1>6, <1>7, <1>8 DEF Next

-----------------------------------------------------------------------------
(* The types of the intake's files and registers.                          *)
LEMMA IntakeTyping ==
  ASSUME IntakeTypeOK, IntakeView
  PROVE  IntakeTypeOK'
<1>1. ASSUME NEW s \in Source, LoadSeen(s) PROVE IntakeTypeOK'
  BY <1>1 DEF LoadSeen, Readings, Fetched, IntakeTypeOK, Call
<1>2. ASSUME NEW s \in Source, File(s) PROVE IntakeTypeOK'
  <2>1. PICK i \in gen[s].todo : Submit(s, i) \/ SubmitHalf(s, i) \/ SubmitFails(s, i)
    BY <1>2 DEF File
  <2>2. i \in Issue /\ seen' = seen /\ excused' \subseteq Issue
    BY <1>2, <2>1 DEF File, Submit, SubmitHalf, SubmitFails, IntakeTypeOK, Call
  <2>3. filings' \in [Issue -> 0 .. MaxFilings]
    BY <2>1, <2>2, IntakeAssumption DEF Submit, SubmitHalf, SubmitFails, IntakeTypeOK
  <2>4. gen' \in [Source -> Call]
    BY <2>1 DEF Submit, SubmitHalf, SubmitFails, IntakeTypeOK, Call
  <2> QED
    BY <2>2, <2>3, <2>4 DEF IntakeTypeOK
<1>3. ASSUME NEW s \in Source, Save(s) PROVE IntakeTypeOK'
  BY <1>3 DEF Save, Close, IntakeTypeOK, Call, NoCall
<1>4. ASSUME NEW s \in Source, Cut(s) PROVE IntakeTypeOK'
  BY <1>4 DEF Cut, Close, IntakeTypeOK, Call, NoCall
<1>5. CASE ResetSeen \/ UNCHANGED intakeVars
  BY <1>5 DEF ResetSeen, intakeVars, IntakeTypeOK
<1> QED
  BY <1>1, <1>2, <1>3, <1>4, <1>5 DEF IntakeView

(* The types of the table of processes and of the team's registers.        *)
LEMMA TeamTyping ==
  ASSUME proc \in ProcType, TeamTypeOK, TeamView
  PROVE  proc' \in ProcType /\ TeamTypeOK'
<1>1. ASSUME NEW p \in Pid, TeamStep(p) \/ KillTeam(p) \/ Stranger(p)
      PROVE  proc' \in ProcType
  BY <1>1, TeamOnProc DEF Stranger, ProcType
<1>2. ASSUME NEW p \in Pid, TeamStep(p) \/ KillTeam(p) \/ Stranger(p)
      PROVE  TeamTypeOK'
  <2> DEFINE Registers == /\ at' \in [Pid -> Where] /\ mode' \in [Pid -> Mode]
                          /\ owner' \in [Pid -> Pid \cup {NoPid}]
  <2>1. Gone(p) => Registers
    BY DEF Gone, TeamTypeOK, Where, Mode
  <2>2. Leave(p) => Registers
    BY <2>1 DEF Leave, TeamTypeOK, Where
  <2> HIDE DEF Registers
  <2>3. CASE StartTeam(p) \/ Look(p) \/ Truncate(p) \/ WritePid(p)
    BY <2>3 DEF StartTeam, Look, Truncate, WritePid, TeamTypeOK, Where
  <2>4. CASE Probe(p)
    BY <2>1, <2>4 DEF Probe, Registers, TeamTypeOK, Where
  <2>5. CASE Joined(p) \/ Release(p) \/ Unlink(p)
    BY <2>2, <2>5 DEF Joined, Release, Unlink, Registers, TeamTypeOK, Where
  <2>6. CASE KillTeam(p) \/ Stranger(p)
    BY <2>1, <2>6 DEF KillTeam, Stranger, Registers, teamVars, TeamTypeOK
  <2> QED
    BY <1>2, <2>3, <2>4, <2>5, <2>6 DEF TeamStep
<1>3. CASE UNCHANGED <<proc, teamVars>>
  BY <1>3 DEF teamVars, TeamTypeOK
<1> QED
  BY <1>1, <1>2, <1>3 DEF TeamView

(* The types of the registers of daemon-stop.                              *)
LEMMA DaemonTyping ==
  ASSUME DaemonTypeOK, Targeted, DaemonView
  PROVE  DaemonTypeOK' /\ Targeted'
BY DEF DaemonView, Fork, ParentWrites, ParentDies, NoDaemon, StopReads, StopTerms,
       StopWaits, StopUnlinks, StopKills, daemonVars, DaemonTypeOK, Targeted

(* The types of the files, of the processes and of their registers, in     *)
(* every reachable state.                                                  *)
THEOREM Typing == Spec => [](TypeOK /\ Targeted)
<1>1. Init => TypeOK /\ Targeted
  <2> SUFFICES ASSUME Init PROVE TypeOK /\ Targeted
    OBVIOUS
  <2>1. proc \in ProcType /\ TeamTypeOK
    BY DEF Init, ProcInit, ProcType, TeamInit, TeamTypeOK, Where, Mode
  <2>2. DaemonTypeOK /\ Targeted
    BY DEF Init, DaemonInit, DaemonTypeOK, Targeted
  <2>3. IntakeTypeOK
    BY IntakeAssumption DEF Init, IntakeInit, IntakeTypeOK, NoCall, Call
  <2> QED
    BY <2>1, <2>2, <2>3 DEF TypeOK
<1>2. TypeOK /\ Targeted /\ [Next]_vars => TypeOK' /\ Targeted'
  BY Views, IntakeTyping, TeamTyping, DaemonTyping DEF TypeOK
<1> QED
  BY <1>1, <1>2, PTL DEF Spec

-----------------------------------------------------------------------------
(* No issue is lost: every issue a call knows, and every issue of the file *)
(* it will be written to, has been filed.                                  *)
KnownIsFiled == SeenIsFiled /\ \A s \in Source : \A i \in gen[s].known : filings[i] > 0

(* github_tasks.py: what the seen file keeps out of the board has a task,  *)
(* however the calls of generate overlap, fail and die.                    *)
THEOREM NoIssueLost == Spec => []SeenIsFiled
<1>1. Init => KnownIsFiled
  BY DEF Init, IntakeInit, KnownIsFiled, SeenIsFiled, NoCall
<1>2. IntakeTypeOK /\ KnownIsFiled /\ IntakeView => KnownIsFiled'
  <2> SUFFICES ASSUME IntakeTypeOK, KnownIsFiled, IntakeView PROVE KnownIsFiled'
    OBVIOUS
  <2> USE DEF KnownIsFiled, SeenIsFiled
  <2>1. ASSUME NEW s \in Source, LoadSeen(s) PROVE KnownIsFiled'
    BY <2>1 DEF LoadSeen, Readings, IntakeTypeOK, Call
  <2>2. ASSUME NEW s \in Source, File(s) PROVE KnownIsFiled'
    <3>1. seen' = seen /\ \A i \in Issue : filings[i] > 0 => filings'[i] > 0
      BY <2>2 DEF File, Submit, SubmitHalf, SubmitFails, IntakeTypeOK, Call
    <3>2. \A r \in Source : \A i \in gen'[r].known : filings'[i] > 0
      <4>1. PICK i \in gen[s].todo :
              \/ /\ filings' = [filings EXCEPT ![i] = @ + 1]
                 /\ gen' = [gen EXCEPT ![s].todo = @ \ {i}, ![s].known = @ \cup {i},
                                       ![s].filed = @ \cup {i}]
              \/ gen' = [gen EXCEPT ![s].todo = @ \ {i}]
        BY <2>2 DEF File, Submit, SubmitHalf, SubmitFails
      <4>2. \A r \in Source : gen[r].known \subseteq Issue /\ gen[r].todo \subseteq Issue
        BY DEF IntakeTypeOK, Call
      <4>3. \A r \in Source : \A j \in gen'[r].known :
              j \in gen[r].known \/ (j = i /\ filings' = [filings EXCEPT ![i] = @ + 1])
        BY <4>1 DEF IntakeTypeOK, Call
      <4> QED
        BY <3>1, <4>2, <4>3 DEF IntakeTypeOK
    <3> QED
      BY <3>1, <3>2 DEF IntakeTypeOK
  <2>3. ASSUME NEW s \in Source, Save(s) PROVE KnownIsFiled'
    BY <2>3 DEF Save, Close, NoCall, IntakeTypeOK
  <2>4. ASSUME NEW s \in Source, Cut(s) PROVE KnownIsFiled'
    BY <2>4 DEF Cut, Close, NoCall, IntakeTypeOK
  <2>5. CASE ResetSeen \/ UNCHANGED intakeVars
    BY <2>5 DEF ResetSeen, intakeVars
  <2> QED
    BY <2>1, <2>2, <2>3, <2>4, <2>5 DEF IntakeView
<1> QED
  BY <1>1, <1>2, Typing, Views, PTL DEF Spec, TypeOK, KnownIsFiled

-----------------------------------------------------------------------------
(* Calls under way together know of each other's overlap. *)
Overlaps ==
  \A s, r \in Source : s # r /\ gen[s].on /\ gen[r].on => gen[s].lapped

(* The books of one call: nothing outside of it, what it filed it knows    *)
(* and will not look at again.                                             *)
Books ==
  \A s \in Source :
    /\ gen[s].on \/ (gen[s].todo = {} /\ gen[s].filed = {} /\ ~gen[s].lapped)
    /\ gen[s].filed \subseteq gen[s].known
    /\ gen[s].known \cap gen[s].todo = {}

(* The file and the calls' memories of it differ by issues that are        *)
(* excused, or are about to be.                                            *)
Memories ==
  \A s \in Source : gen[s].on =>
    /\ seen \subseteq gen[s].known \cup excused
    /\ gen[s].known \subseteq seen \cup excused \cup gen[s].filed
    /\ \A r \in Source : gen[r].on =>
         gen[r].known \subseteq gen[s].known \cup excused \cup gen[r].filed

(* An issue with a task is in the file, in the hands of a call or excused. *)
Accounted ==
  \A i \in Issue : filings[i] > 0 =>
    i \in seen \/ i \in excused \/ \E s \in Source : i \in gen[s].filed

IntakeInv == IntakeTypeOK /\ Overlaps /\ Books /\ Memories /\ Accounted /\ RefiledHasCause

(* A call that begins: it remembers the file, and whoever is under way     *)
(* learns of it.                                                           *)
LEMMA LoadStep ==
  ASSUME IntakeInv, NEW s \in Source, LoadSeen(s), IntakeTypeOK'
  PROVE  IntakeInv'
<1> USE DEF IntakeInv
<1>1. PICK open \in Fetched, read \in Readings :
        /\ gen' = [q \in Source |->
             IF q = s THEN [on |-> TRUE, known |-> read, todo |-> open \ read,
                            filed |-> {}, lapped |-> {r \in Source : gen[r].on} # {}]
             ELSE [gen[q] EXCEPT !.lapped = gen[q].on]]
        /\ excused' = excused \cup (seen \ read)
  BY DEF LoadSeen
<1>2. /\ ~gen[s].on /\ gen[s].filed = {} /\ ~gen[s].lapped
      /\ seen' = seen /\ filings' = filings
      /\ excused \subseteq excused' /\ seen \subseteq read \cup excused' /\ read \subseteq seen
  BY <1>1 DEF LoadSeen, Readings, Books, NoCall
<1>3. /\ gen'[s].on /\ gen'[s].known = read /\ gen'[s].filed = {}
      /\ gen'[s].known \cap gen'[s].todo = {}
      /\ gen'[s].lapped = (\E r \in Source : gen[r].on)
  BY <1>1
<1>4. ASSUME NEW q \in Source, q # s
      PROVE  /\ gen'[q].on = gen[q].on /\ gen'[q].known = gen[q].known
             /\ gen'[q].todo = gen[q].todo /\ gen'[q].filed = gen[q].filed
             /\ gen'[q].lapped = gen[q].on
  <2>1. gen'[q] = [gen[q] EXCEPT !.lapped = gen[q].on] /\ gen[q] \in Call
    BY <1>1, <1>4 DEF IntakeTypeOK
  <2> QED
    BY <2>1 DEF Call
<1>5. Overlaps'
  BY <1>2, <1>3, <1>4 DEF Overlaps
<1>6. Books'
  BY <1>2, <1>3, <1>4 DEF Books
<1>7. Memories'
  BY <1>2, <1>3, <1>4 DEF Memories
<1>8. Accounted'
  BY <1>2, <1>3, <1>4 DEF Accounted
<1>9. RefiledHasCause'
  BY <1>2, <1>3, <1>4 DEF RefiledHasCause, Books, NoCall
<1> QED
  BY <1>5, <1>6, <1>7, <1>8, <1>9

(* The next issue of a call: if it had a task already, the call is late or *)
(* the issue excused, for the call would have found it in the file.        *)
LEMMA FileStep ==
  ASSUME IntakeInv, NEW s \in Source, File(s), IntakeTypeOK'
  PROVE  IntakeInv'
<1> USE DEF IntakeInv
<1>1. PICK i \in gen[s].todo : Submit(s, i) \/ SubmitHalf(s, i) \/ SubmitFails(s, i)
  BY DEF File
<1>2. /\ seen' = seen /\ excused \subseteq excused' /\ i \in Issue /\ gen[s].on
  BY <1>1 DEF File, Submit, SubmitHalf, SubmitFails, IntakeTypeOK, Call, Books, NoCall
<1>3. ASSUME NEW q \in Source, q # s PROVE gen'[q] = gen[q]
  BY <1>1, <1>3 DEF Submit, SubmitHalf, SubmitFails, IntakeTypeOK
<1>4. /\ gen'[s].on = gen[s].on /\ gen'[s].lapped = gen[s].lapped
      /\ gen'[s].todo = gen[s].todo \ {i}
  BY <1>1 DEF Submit, SubmitHalf, SubmitFails, IntakeTypeOK, Call
<1>5. CASE SubmitHalf(s, i) \/ SubmitFails(s, i)
  <2>1. gen'[s].known = gen[s].known /\ gen'[s].filed = gen[s].filed
    BY <1>5 DEF SubmitHalf, SubmitFails, IntakeTypeOK, Call
  <2>2. Overlaps' /\ Books'
    <3>1. Overlaps'
      BY <1>3, <1>4 DEF Overlaps
    <3>2. ASSUME NEW q \in Source
          PROVE  /\ gen'[q].on \/ (gen'[q].todo = {} /\ gen'[q].filed = {} /\ ~gen'[q].lapped)
                 /\ gen'[q].filed \subseteq gen'[q].known
                 /\ gen'[q].known \cap gen'[q].todo = {}
      <4>1. CASE q = s
        BY <1>2, <1>4, <2>1, <4>1 DEF Books
      <4>2. CASE q # s
        BY <1>3, <4>2 DEF Books
      <4> QED
        BY <4>1, <4>2
    <3>3. Books'
      BY <3>2 DEF Books
    <3> QED
      BY <3>1, <3>3
  <2>3. Memories'
    BY <1>2, <1>3, <1>4, <2>1 DEF Memories
  <2>4. \A j \in Issue : filings'[j] = filings[j] \/ j \in excused'
    BY <1>5 DEF SubmitHalf, SubmitFails, IntakeTypeOK
  <2>5. \A q \in Source : gen'[q].filed = gen[q].filed /\ gen'[q].lapped = gen[q].lapped
    BY <1>3, <1>4, <2>1
  <2>6. Accounted' /\ RefiledHasCause'
    BY <1>2, <2>4, <2>5 DEF Accounted, RefiledHasCause
  <2> QED
    BY <2>2, <2>3, <2>6
<1>6. CASE Submit(s, i)
  <2>1. gen'[s].known = gen[s].known \cup {i} /\ gen'[s].filed = gen[s].filed \cup {i}
    BY <1>6 DEF Submit, IntakeTypeOK, Call
  <2>2. Overlaps' /\ Books'
    <3>1. Overlaps'
      BY <1>3, <1>4 DEF Overlaps
    <3>2. ASSUME NEW q \in Source
          PROVE  /\ gen'[q].on \/ (gen'[q].todo = {} /\ gen'[q].filed = {} /\ ~gen'[q].lapped)
                 /\ gen'[q].filed \subseteq gen'[q].known
                 /\ gen'[q].known \cap gen'[q].todo = {}
      <4>1. CASE q = s
        BY <1>2, <1>4, <2>1, <4>1 DEF Books
      <4>2. CASE q # s
        BY <1>3, <4>2 DEF Books
      <4> QED
        BY <4>1, <4>2
    <3>3. Books'
      BY <3>2 DEF Books
    <3> QED
      BY <3>1, <3>3
  <2>3. Memories'
    BY <1>2, <1>3, <1>4, <2>1 DEF Memories
  <2>4. filings'[i] = filings[i] + 1 /\ \A j \in Issue \ {i} : filings'[j] = filings[j]
    BY <1>2, <1>6 DEF Submit, IntakeTypeOK
  <2>5. Accounted'
    BY <1>2, <1>3, <2>1, <2>4 DEF Accounted
  <2>6. excused' = excused
    BY <1>6 DEF Submit
  <2>7. filings[i] > 0 => i \in excused \/ gen[s].lapped
    <3> SUFFICES ASSUME filings[i] > 0, ~gen[s].lapped PROVE i \in excused
      OBVIOUS
    <3>1. i \notin gen[s].known /\ i \notin gen[s].filed
      BY DEF Books
    <3>2. \A r \in Source \ {s} : gen[r].filed = {}
      BY <1>2 DEF Overlaps, Books, NoCall
    <3>3. i \in seen \/ i \in excused
      BY <1>2, <3>1, <3>2 DEF Accounted
    <3> QED
      BY <1>2, <3>1, <3>3 DEF Memories
  <2>8. RefiledHasCause'
    <3> SUFFICES ASSUME NEW j \in Issue, filings'[j] > 1
                 PROVE  j \in excused \/ \E r \in Source : gen'[r].lapped /\ j \in gen'[r].filed
      BY <2>6 DEF RefiledHasCause
    <3>1. CASE j = i
      BY <1>2, <1>4, <2>1, <2>4, <2>7, <3>1 DEF IntakeTypeOK
    <3>2. CASE j # i
      BY <1>2, <1>3, <1>4, <2>1, <2>4, <3>2 DEF RefiledHasCause
    <3> QED
      BY <3>1, <3>2
  <2> QED
    BY <2>2, <2>3, <2>5, <2>8
<1> QED
  BY <1>1, <1>5, <1>6

(* The end of a call: what it filed is in the file, or excused.            *)
LEMMA CloseStep ==
  ASSUME IntakeInv, NEW s \in Source, Save(s) \/ Cut(s), IntakeTypeOK'
  PROVE  IntakeInv'
<1> USE DEF IntakeInv
<1>1. /\ gen' = [gen EXCEPT ![s] = NoCall] /\ filings' = filings
      /\ excused \subseteq excused'
      /\ gen[s].lapped => gen[s].filed \subseteq excused'
      /\ \/ seen' = seen /\ gen[s].filed \subseteq excused'
         \/ seen' = gen[s].known /\ gen[s].on
  BY DEF Save, Cut, Close
<1>2. gen'[s] = NoCall /\ \A q \in Source \ {s} : gen'[q] = gen[q]
  BY <1>1 DEF IntakeTypeOK
<1>3. Overlaps' /\ Books'
  BY <1>2 DEF Overlaps, Books, NoCall
<1>4. Memories'
  <2>1. CASE seen' = seen /\ gen[s].filed \subseteq excused'
    BY <1>1, <1>2, <2>1 DEF Memories, NoCall
  <2>2. CASE seen' = gen[s].known /\ gen[s].on
    BY <1>1, <1>2, <2>2 DEF Memories, NoCall, Overlaps
  <2> QED
    BY <1>1, <2>1, <2>2
<1>5. Accounted'
  <2>1. CASE seen' = seen /\ gen[s].filed \subseteq excused'
    BY <1>1, <1>2, <2>1 DEF Accounted
  <2>2. CASE seen' = gen[s].known /\ gen[s].on
    BY <1>1, <1>2, <2>2 DEF Accounted, Memories, Books
  <2> QED
    BY <1>1, <2>1, <2>2
<1>6. RefiledHasCause'
  BY <1>1, <1>2 DEF RefiledHasCause
<1> QED
  BY <1>3, <1>4, <1>5, <1>6

(* github_tasks.py:12: a second task for an issue has its cause in calls   *)
(* that overlapped, in a call that was not saved, in a submit that raised  *)
(* after its INSERT, in a file that could not be read or in a reset, for   *)
(* any number of loops over one seen file.                                 *)
THEOREM RefilingHasCause == Spec => []RefiledHasCause
<1>1. Init => IntakeInv
  BY IntakeAssumption
  DEF Init, IntakeInit, IntakeInv, IntakeTypeOK, Overlaps, Books, Memories, Accounted,
      RefiledHasCause, NoCall, Call
<1>2. IntakeInv /\ IntakeView => IntakeInv'
  <2> SUFFICES ASSUME IntakeInv, IntakeView PROVE IntakeInv'
    OBVIOUS
  <2>1. IntakeTypeOK'
    BY IntakeTyping DEF IntakeInv
  <2>2. CASE ResetSeen
    BY <2>1, <2>2
    DEF ResetSeen, IntakeInv, Overlaps, Books, Memories, Accounted, RefiledHasCause
  <2>3. CASE UNCHANGED intakeVars
    BY <2>1, <2>3
    DEF intakeVars, IntakeInv, Overlaps, Books, Memories, Accounted, RefiledHasCause
  <2> QED
    BY <2>1, <2>2, <2>3, LoadStep, FileStep, CloseStep DEF IntakeView
<1>3. IntakeInv => RefiledHasCause
  BY DEF IntakeInv
<1> QED
  BY <1>1, <1>2, <1>3, Typing, Views, PTL DEF Spec, TypeOK

-----------------------------------------------------------------------------
(* Only a live team is inside run_perpetual_team, and only one with the    *)
(* guard acquires or releases it.                                          *)
Inside ==
  \A p \in Pid :
    /\ at[p] # "out" => proc[p] = "team"
    /\ at[p] \in Where \ {"out", "run", "left"} => mode[p] # "unguarded"

(* Acquires that do not overlap: one at a time, the file names the holder, *)
(* who probes has read the holder's name, and who goes on to write the     *)
(* file found no holder.                                                   *)
Guarded ==
  /\ \A p, q \in Pid : Acquiring(p) /\ Acquiring(q) => p = q
  /\ \A p \in Pid : Holds(p) => teamPid = p
  /\ \A p, q \in Pid : at[p] = "probe" /\ Holds(q) => owner[p] = q
  /\ \A p, q \in Pid : at[p] \in {"truncate", "write"} => ~Holds(q)

TeamInv == proc \in ProcType /\ TeamTypeOK /\ Inside /\ (~raced => Guarded)

(* A step of one process inside run_perpetual_team leaves the others where *)
(* they are.                                                               *)
LEMMA OthersStay ==
  ASSUME TeamInv, NEW p \in Pid, TeamStep(p) \/ KillTeam(p), NEW q \in Pid \ {p}
  PROVE  /\ at'[q] = at[q] /\ mode'[q] = mode[q] /\ owner'[q] = owner[q]
         /\ proc'[q] = proc[q]
BY DEF TeamInv, TeamTypeOK, ProcType, TeamStep, KillTeam, StartTeam, Begin, Look, Probe,
       Truncate, WritePid, Joined, Release, Unlink, Leave, Gone, End

(* Inside is kept by every step of a team and of a stranger.               *)
LEMMA InsideStep ==
  ASSUME TeamInv, NEW p \in Pid, TeamStep(p) \/ KillTeam(p) \/ Stranger(p)
  PROVE  Inside'
<1> USE DEF TeamInv
<1>1. CASE TeamStep(p) \/ KillTeam(p)
  <2>1. /\ at'[p] # "out" => proc'[p] = "team"
        /\ at'[p] \in Where \ {"out", "run", "left"} => mode'[p] # "unguarded"
    BY <1>1
    DEF Inside, TeamTypeOK, ProcType, Where, TeamStep, KillTeam, StartTeam, Begin, Look,
        Probe, Truncate, WritePid, Joined, Release, Unlink, Leave, Gone, End
  <2> QED
    BY <1>1, <2>1, OthersStay DEF Inside
<1>2. CASE Stranger(p)
  BY <1>2 DEF Stranger, Inside, teamVars, ProcType
<1> QED
  BY <1>1, <1>2

(* The acquire of a team that no other acquire overlaps (PidfileGuard,     *)
(* perpetual.py:452-483).                                                  *)
LEMMA GuardStep ==
  ASSUME TeamInv, NEW p \in Pid, TeamStep(p) \/ KillTeam(p), ~raced'
  PROVE  Guarded'
<1> USE DEF TeamInv
<1>1. Guarded /\ ~raced
  BY DEF TeamStep, KillTeam, StartTeam, Look, Probe, Truncate, WritePid, Joined,
         Release, Unlink, TeamTypeOK
<1>2. \A q \in Pid \ {p} :
        /\ at'[q] = at[q] /\ mode'[q] = mode[q] /\ owner'[q] = owner[q]
        /\ Acquiring(q)' = Acquiring(q) /\ Holds(q)' = Holds(q)
  BY OthersStay DEF Acquiring, Holds
<1>3. CASE ~Acquiring(p)' /\ teamPid' = teamPid /\ (Holds(p)' => Holds(p))
  BY <1>1, <1>2, <1>3 DEF Guarded, Acquiring
<1>4. CASE StartTeam(p)
  BY <1>3, <1>4 DEF StartTeam, TeamTypeOK, Acquiring, Holds, Mode
<1>5. CASE Look(p)
  <2>1. \A q \in Pid \ {p} : ~Acquiring(q)
    BY <1>5 DEF Look
  <2>2. /\ at'[p] \in {"truncate", "probe"} /\ ~Holds(p)'
        /\ owner'[p] = teamPid /\ teamPid' = teamPid
        /\ at'[p] = "truncate" => teamPid = NoPid
    BY <1>5 DEF Look, TeamTypeOK, Holds
  <2> QED
    BY <1>1, <1>2, <2>1, <2>2, ProcessAssumption DEF Guarded, Acquiring
<1>6. CASE Probe(p)
  <2>1. CASE Gone(p)
    BY <1>3, <1>6, <2>1 DEF Probe, Gone, TeamTypeOK, Acquiring, Holds
  <2>2. CASE ~(owner[p] # p /\ Alive(owner[p]))
    <3>1. \A q \in Pid : ~Holds(q)
      BY <1>1, <1>6, <2>2 DEF Probe, Guarded, Holds, Inside, Alive
    <3>2. at'[p] = "truncate" /\ teamPid' = teamPid /\ Acquiring(p) /\ ~Holds(p)'
      BY <1>6, <2>2 DEF Probe, TeamTypeOK, Acquiring, Holds
    <3> QED
      BY <1>1, <1>2, <3>1, <3>2 DEF Guarded, Acquiring
  <2> QED
    BY <1>6, <2>1, <2>2 DEF Probe
<1>7. CASE Truncate(p)
  <2>1. \A q \in Pid : ~Holds(q)
    BY <1>1, <1>7 DEF Truncate, Guarded
  <2>2. at'[p] = "write" /\ Acquiring(p) /\ ~Holds(p)'
    BY <1>7 DEF Truncate, TeamTypeOK, Acquiring, Holds
  <2> QED
    BY <1>1, <1>2, <2>1, <2>2 DEF Guarded, Acquiring
<1>8. CASE WritePid(p)
  <2>1. \A q \in Pid : ~Holds(q)
    BY <1>1, <1>8 DEF WritePid, Guarded
  <2>2. \A q \in Pid \ {p} : ~Acquiring(q)
    BY <1>1, <1>8 DEF WritePid, Guarded, Acquiring
  <2>3. ~Acquiring(p)' /\ teamPid' = p
    BY <1>8 DEF WritePid, TeamTypeOK, Acquiring
  <2> QED
    BY <1>2, <2>1, <2>2, <2>3 DEF Guarded, Acquiring
<1>9. CASE Joined(p)
  BY <1>3, <1>9 DEF Joined, Leave, Gone, TeamTypeOK, Acquiring, Holds
<1>10. CASE Release(p)
  <2>1. Holds(p)
    BY <1>10 DEF Release, Inside, Holds, Where
  <2> QED
    BY <1>3, <1>10, <2>1 DEF Release, Leave, Gone, TeamTypeOK, Acquiring
<1>11. CASE Unlink(p)
  <2>1. Holds(p)
    BY <1>11 DEF Unlink, Inside, Holds, Where
  <2>2. \A q \in Pid \ {p} : ~Holds(q)
    BY <1>1, <2>1 DEF Guarded
  <2>3. ~Holds(p)' /\ ~Acquiring(p)'
    BY <1>11 DEF Unlink, Leave, Gone, TeamTypeOK, Holds, Acquiring
  <2> QED
    BY <1>1, <1>2, <2>2, <2>3 DEF Guarded, Acquiring
<1>12. CASE KillTeam(p)
  BY <1>3, <1>12 DEF KillTeam, Gone, TeamTypeOK, Acquiring, Holds
<1> QED
  BY <1>4, <1>5, <1>6, <1>7, <1>8, <1>9, <1>10, <1>11, <1>12 DEF TeamStep

(* perpetual.py:455-458: one team holds the guard of a home, whichever     *)
(* processes die and whoever is given their pids, as long as no two        *)
(* acquires overlap.                                                       *)
THEOREM OneTeam == Spec => []OneTeamUnlessRaced
<1>1. Init => TeamInv
  BY DEF Init, ProcInit, ProcType, TeamInit, TeamInv, TeamTypeOK, Inside, Guarded,
         Acquiring, Holds, Where, Mode
<1>2. TeamInv /\ TeamView => TeamInv'
  <2> SUFFICES ASSUME TeamInv, TeamView PROVE TeamInv'
    OBVIOUS
  <2>1. proc' \in ProcType /\ TeamTypeOK'
    BY TeamTyping DEF TeamInv
  <2>2. ASSUME NEW p \in Pid, TeamStep(p) \/ KillTeam(p) PROVE TeamInv'
    BY <2>1, <2>2, InsideStep, GuardStep DEF TeamInv
  <2>3. ASSUME NEW p \in Pid, Stranger(p) PROVE TeamInv'
    <3>1. (~raced => Guarded)'
      BY <2>3 DEF Stranger, teamVars, TeamInv, Guarded, Acquiring, Holds
    <3> QED
      BY <2>1, <2>3, <3>1, InsideStep DEF TeamInv
  <2>4. CASE UNCHANGED <<proc, teamVars>>
    BY <2>1, <2>4 DEF teamVars, TeamInv, Inside, Guarded, Acquiring, Holds
  <2> QED
    BY <2>2, <2>3, <2>4 DEF TeamView
<1>3. TeamInv => OneTeamUnlessRaced
  BY DEF TeamInv, Guarded, OneTeamUnlessRaced
<1> QED
  BY <1>1, <1>2, <1>3, Typing, Views, PTL DEF Spec, TypeOK

-----------------------------------------------------------------------------
IsDaemon(p) == proc[p] = "daemon"

(* Without a stray fork or stop: one daemon, one parent that still has to  *)
(* name it, no fork while daemon-stop works, and daemon-stop has the right *)
(* pid until the daemon is gone.                                           *)
Named ==
  /\ \A p, q \in Pid : IsDaemon(p) /\ q \in forked => p = q
  /\ \A p \in Pid : IsDaemon(p) => p \in forked \/ daemonPid = p
  /\ \A p, q \in forked : p = q
  /\ stopping # "no" => forked = {} /\ target = daemonPid
  /\ stopping = "unlink" => \A p \in Pid : ~IsDaemon(p)

DaemonInv ==
  proc \in ProcType /\ DaemonTypeOK /\ Targeted /\ (~strayed => Named)

(* The steps of `run --daemon`, of its child and of daemon-stop            *)
(* (cli/main.py:67-110, 697-735), when none strays.                      *)
LEMMA NamedStep ==
  ASSUME DaemonInv, DaemonView, ~strayed'
  PROVE  Named'
<1> USE DEF DaemonInv
<1>1. Named /\ ~strayed
  BY DEF DaemonView, Fork, ParentWrites, ParentDies, NoDaemon, StopReads, StopTerms,
         StopWaits, StopUnlinks, StopKills, daemonVars, DaemonTypeOK
<1>2. ASSUME NEW p \in Pid, Fork(p) PROVE Named'
  <2>1. /\ forked = {} /\ stopping = "no" /\ \A q \in Pid : ~IsDaemon(q)
        /\ forked' = {p} /\ stopping' = "no"
    BY <1>2 DEF Fork, IsDaemon
  <2>2. \A q \in Pid \ {p} : ~IsDaemon(q)'
    BY <1>2, <2>1 DEF Fork, Begin, IsDaemon, ProcType
  <2> QED
    BY <2>1, <2>2 DEF Named
<1>3. ASSUME NEW p \in Pid, ParentWrites(p) PROVE Named'
  BY <1>1, <1>3 DEF ParentWrites, Named, IsDaemon
<1>4. ASSUME NEW p \in Pid, ParentDies(p) PROVE Named'
  BY <1>4 DEF ParentDies
<1>5. ASSUME \A p \in Pid : IsDaemon(p)' => IsDaemon(p), UNCHANGED daemonVars PROVE Named'
  BY <1>1, <1>5 DEF Named, daemonVars
<1>6. ASSUME NEW p \in Pid, NoDaemon(p) PROVE Named'
  BY <1>5, <1>6 DEF NoDaemon, IsDaemon, ProcType
<1>7. CASE StopReads
  BY <1>1, <1>7 DEF StopReads, Named, IsDaemon
<1>8. CASE StopTerms \/ StopWaits
  BY <1>1, <1>8 DEF StopTerms, StopWaits, Alive, Named, IsDaemon, Targeted
<1>9. CASE StopUnlinks
  BY <1>1, <1>9 DEF StopUnlinks, Named, IsDaemon
<1>10. CASE StopKills /\ proc' = [proc EXCEPT ![target] = "none"]
  BY <1>1, <1>10 DEF StopKills, Named, IsDaemon, Targeted, ProcType
<1>11. CASE UNCHANGED <<proc, daemonVars>>
  BY <1>5, <1>11 DEF IsDaemon
<1> QED
  BY <1>2, <1>3, <1>4, <1>6, <1>7, <1>8, <1>9, <1>10, <1>11 DEF DaemonView

(* cli/main.py:94: a background supervisor is named by its pid file, or    *)
(* about to be, as long as it lives.                                       *)
THEOREM DaemonFound == Spec => []DaemonIsNamed
<1>1. Init => DaemonInv
  BY DEF Init, ProcInit, ProcType, DaemonInit, DaemonInv, DaemonTypeOK, Targeted, Named,
         IsDaemon
<1>2. DaemonInv /\ TypeOK /\ TypeOK' /\ Targeted /\ [Next]_vars => DaemonInv'
  BY Views, DaemonTyping, NamedStep DEF DaemonInv, TypeOK
<1>3. DaemonInv => DaemonIsNamed
  BY DEF DaemonInv, Named, IsDaemon, DaemonIsNamed
<1> QED
  BY <1>1, <1>2, <1>3, Typing, PTL DEF Spec

=============================================================================
