---------------------------- MODULE ServiceProofs ----------------------------
(***************************************************************************)
(* Theorems about the services, for any services, administrators, process  *)
(* ids, deaths of daemons and losses of power: the types, and that rc      *)
(* starts what is enabled.                                                 *)
(***************************************************************************)
EXTENDS Service, TLAPS

-----------------------------------------------------------------------------
(* The invariant that the types need *)

\* A shell has a script of some service exactly while it runs one, and start has
\* two steps.
ShellsOK ==
  \A x \in Shells :
    /\ sh[x].cmd = "none" <=> sh[x].at = "none"
    /\ sh[x].cmd # "none" => sh[x].svc \in Services
    /\ sh[x].cmd = "start" => sh[x].at \in {"check", "spawn"}

\* It is daemons that are late.
LateOK == \A p \in late : proc[p] \in Services

IInv == TypeOK /\ ShellsOK /\ LateOK

ShellType == [cmd : {"none", "start", "stop", "restart"},
              svc : Services \cup {"none"},
              at : {"none", "check", "spawn", "read", "stopcmd", "kill", "rm"},
              pid : Pids \cup {0}, out : {"ok", "failed"}]

\* A shell's record, as ShellsOK wants it.
Sane(r) ==
  /\ r.cmd = "none" <=> r.at = "none"
  /\ r.cmd # "none" => r.svc \in Services
  /\ r.cmd = "start" => r.at \in {"check", "spawn"}

\* The types of everything but the shells.
DataOK ==
  /\ proc \in [Pids -> Services \cup {"none", "other"}]
  /\ term \subseteq Pids /\ late \subseteq Pids
  /\ pidfile \in [Services -> Pids \cup {0}] /\ on \subseteq Plain
  /\ prio \in [Services -> Priorities]
  /\ links \subseteq Links /\ todo \subseteq Links
  /\ phase \in {"off", "boot", "up", "shutdown"} /\ ran \subseteq LocalScripts
  /\ excused \subseteq Services /\ disturbed \subseteq Services /\ crashes \in 0 .. MaxCrashes

LEMMA ShellsAreSane ==
  /\ TypeOK => sh \in [Shells -> ShellType]
  /\ ShellsOK => \A x \in Shells : Sane(sh[x])
  /\ (\A x \in Shells : Sane(sh'[x])) => ShellsOK'
  BY DEF TypeOK, ShellsOK, Sane, ShellType

LEMMA Parts ==
  ASSUME IInv
  PROVE  DataOK /\ sh \in [Shells -> ShellType] /\ ShellsOK /\ LateOK
  BY DEF IInv, TypeOK, DataOK, ShellType

LEMMA PartsNext ==
  ASSUME DataOK', sh' \in [Shells -> ShellType], ShellsOK', LateOK'
  PROVE  IInv'
  BY DEF IInv, TypeOK, DataOK, ShellType

LEMMA SameShells ==
  ASSUME IInv, sh' = sh
  PROVE  sh' \in [Shells -> ShellType] /\ ShellsOK'
  BY Parts DEF ShellsOK

\* A step of one shell.
LEMMA OneShell ==
  ASSUME IInv, NEW x \in Shells, NEW r \in ShellType, Sane(r),
         sh' = [sh EXCEPT ![x] = r]
  PROVE  sh' \in [Shells -> ShellType] /\ ShellsOK' /\ sh'[x] = r
<1>1. sh \in [Shells -> ShellType] /\ \A y \in Shells : Sane(sh[y])
  BY ShellsAreSane DEF IInv
<1>2. sh' \in [Shells -> ShellType] /\ \A y \in Shells : Sane(sh'[y])
  BY <1>1
<1> QED
  BY <1>1, <1>2, ShellsAreSane

LEMMA ExitShell ==
  ASSUME IInv, NEW x \in Shells, NEW out \in {"ok", "failed"}, Exit(x, out)
  PROVE  /\ sh' \in [Shells -> ShellType] /\ ShellsOK' /\ sh'[x].cmd = "none"
         /\ \A y \in Shells \ {x} : sh'[y] = sh[y]
<1> DEFINE r == [Idle EXCEPT !.out = out]
<1>1. r \in ShellType /\ Sane(r) /\ r.cmd = "none"
  BY DEF Idle, ShellType, Sane
<1>2. sh' = [sh EXCEPT ![x] = r]
  BY DEF Exit
<1>3. sh \in [Shells -> ShellType]
  BY ShellsAreSane DEF IInv
<1> HIDE DEF r
<1> QED
  BY <1>1, <1>2, <1>3, OneShell

LEMMA GotoShell ==
  ASSUME IInv, NEW x \in Shells, sh[x].at # "none",
         NEW at \in {"check", "spawn", "stopcmd", "kill", "rm"}, Goto(x, at),
         sh[x].cmd = "start" => at \in {"check", "spawn"}
  PROVE  /\ sh' \in [Shells -> ShellType] /\ ShellsOK'
         /\ sh'[x].cmd = sh[x].cmd /\ sh'[x].svc = sh[x].svc
         /\ \A y \in Shells \ {x} : sh'[y] = sh[y]
<1> DEFINE r == [sh[x] EXCEPT !.at = at]
<1>1. sh[x] \in ShellType /\ Sane(sh[x]) /\ sh \in [Shells -> ShellType]
  BY ShellsAreSane DEF IInv
<1>2. /\ r \in ShellType /\ r.cmd = sh[x].cmd /\ r.svc = sh[x].svc /\ r.at = at
      /\ at # "none"
  BY <1>1 DEF ShellType
<1>3. Sane(r)
  BY <1>1, <1>2 DEF Sane
<1>4. sh' = [sh EXCEPT ![x] = r]
  BY DEF Goto
<1> HIDE DEF r
<1> QED
  BY <1>1, <1>2, <1>3, <1>4, OneShell

LEMMA StoppedShell ==
  ASSUME IInv, NEW x \in Shells, sh[x].at # "none", Stopped(x)
  PROVE  /\ sh' \in [Shells -> ShellType] /\ ShellsOK'
         /\ \A y \in Shells \ {x} : sh'[y] = sh[y]
<1>1. CASE sh[x].cmd = "restart"
  BY <1>1, GotoShell DEF Stopped
<1>2. CASE sh[x].cmd # "restart"
  BY <1>2, ExitShell DEF Stopped
<1> QED
  BY <1>1, <1>2

LEMMA BeginShell ==
  ASSUME IInv, NEW x \in Shells, NEW s \in Services,
         NEW c \in {"start", "stop", "restart"}, Begin(x, s, c)
  PROVE  /\ sh' \in [Shells -> ShellType] /\ ShellsOK'
         /\ sh'[x].cmd = c /\ sh'[x].svc = s
         /\ \A y \in Shells \ {x} : sh'[y] = sh[y]
<1> DEFINE r == [cmd |-> c, svc |-> s, pid |-> 0, out |-> "ok",
                 at |-> IF c = "start" THEN "check" ELSE "read"]
<1>1. r \in ShellType /\ Sane(r) /\ r.cmd = c /\ r.svc = s
  BY DEF ShellType, Sane
<1>2. sh' = [sh EXCEPT ![x] = r]
  BY DEF Begin
<1>3. sh \in [Shells -> ShellType]
  BY ShellsAreSane DEF IInv
<1> HIDE DEF r
<1> QED
  BY <1>1, <1>2, <1>3, OneShell

-----------------------------------------------------------------------------
(* Every step preserves it *)

LEMMA CheckRunningGood ==
  ASSUME IInv, NEW x \in Shells, CheckRunning(x)
  PROVE  IInv'
<1>1. sh' \in [Shells -> ShellType] /\ ShellsOK'
  BY ExitShell, GotoShell DEF CheckRunning
<1>2. DataOK' /\ LateOK'
  <2>1. sh[x].svc \in Services
    BY Parts DEF CheckRunning, ShellsOK
  <2>2. excused' \subseteq Services /\ disturbed' \subseteq Services
    BY <2>1, Parts DEF CheckRunning, Look, DataOK
  <2> QED
    BY <2>2, Parts DEF CheckRunning, processes, machine, DataOK, LateOK
<1> QED
  BY <1>1, <1>2, PartsNext

LEMMA SpawnGood ==
  ASSUME IInv, NEW x \in Shells, Spawn(x)
  PROVE  IInv'
<1> DEFINE s == sh[x].svc
<1>1. sh' \in [Shells -> ShellType] /\ ShellsOK'
  BY ExitShell DEF Spawn
<1>2. s \in Services
  BY Parts DEF Spawn, ShellsOK
<1>3. CASE s \in Plain /\ on' = on \cup {s} /\ UNCHANGED <<proc, late, pidfile, excused>>
  <2>1. DataOK' /\ LateOK'
    BY <1>3, Parts DEF Spawn, machine, DataOK, LateOK
  <2> QED
    BY <1>1, <2>1, PartsNext
<1>4. ASSUME NEW p \in Free, proc' = [proc EXCEPT ![p] = s],
             late' = IF s \in Late THEN late \cup {p} ELSE late,
             pidfile' = IF s \in Late THEN pidfile ELSE [pidfile EXCEPT ![s] = p],
             UNCHANGED <<on, excused>>
      PROVE  IInv'
  <2>1. p \in Pids /\ 0 \notin Pids
    BY ServiceAssumption DEF Free
  <2>2. DataOK'
    BY <1>2, <1>4, <2>1, Parts DEF Spawn, machine, DataOK
  <2>3. \A q \in late' : proc'[q] \in Services
    BY <1>2, <1>4, <2>1, Parts DEF DataOK, LateOK
  <2> QED
    BY <1>1, <2>2, <2>3, PartsNext DEF LateOK
<1>5. CASE excused' = excused \cup {s} /\ UNCHANGED <<proc, late, pidfile, on>>
  <2>1. DataOK' /\ LateOK'
    BY <1>2, <1>5, Parts DEF Spawn, machine, DataOK, LateOK
  <2> QED
    BY <1>1, <2>1, PartsNext
<1> QED
  BY <1>3, <1>4, <1>5 DEF Spawn

LEMMA ReadPidGood ==
  ASSUME IInv, NEW x \in Shells, ReadPid(x)
  PROVE  IInv'
<1> DEFINE s == sh[x].svc
<1>1. DataOK' /\ LateOK'
  <2>1. sh[x].svc \in Services
    BY Parts DEF ReadPid, ShellsOK
  <2>2. disturbed' \subseteq Services
    BY <2>1, Parts DEF ReadPid, Look, DataOK
  <2> QED
    BY <2>2, Parts DEF ReadPid, processes, machine, DataOK, LateOK
<1>2. sh[x].at = "read" /\ sh[x].cmd # "start" /\ s \in Services /\ sh[x] \in ShellType
  BY Parts DEF ReadPid, ShellsOK
<1>3. CASE Goto(x, "stopcmd")
  BY <1>1, <1>2, <1>3, GotoShell, PartsNext
<1>4. CASE Stopped(x)
  BY <1>1, <1>2, <1>4, StoppedShell, PartsNext
<1>5. CASE sh' = [sh EXCEPT ![x].at = "kill", ![x].pid = pidfile[s]]
  <2> DEFINE r == [sh[x] EXCEPT !.at = "kill", !.pid = pidfile[s]]
  <2>1. sh' = [sh EXCEPT ![x] = r]
    BY <1>5, Parts
  <2>2. r \in ShellType /\ Sane(r)
    BY <1>2, Parts DEF ShellType, Sane, ShellsOK, DataOK
  <2> HIDE DEF r
  <2> QED
    BY <1>1, <2>1, <2>2, OneShell, PartsNext
<1> QED
  BY <1>3, <1>4, <1>5 DEF ReadPid

LEMMA StopCmdGood ==
  ASSUME IInv, NEW x \in Shells, StopCmd(x)
  PROVE  IInv'
<1>1. sh' \in [Shells -> ShellType] /\ ShellsOK'
  BY StoppedShell, ExitShell DEF StopCmd
<1>2. DataOK' /\ LateOK'
  <2>1. sh[x].svc \in Services
    BY Parts DEF StopCmd, ShellsOK
  <2> QED
    BY <2>1, Parts DEF StopCmd, machine, DataOK, LateOK
<1> QED
  BY <1>1, <1>2, PartsNext

LEMMA KillGood ==
  ASSUME IInv, NEW x \in Shells, Kill(x)
  PROVE  IInv'
<1>1. sh[x].at = "kill" /\ sh[x].cmd # "start" /\ sh[x] \in ShellType
  BY Parts DEF Kill, ShellsOK
<1>2. sh' \in [Shells -> ShellType] /\ ShellsOK'
  BY <1>1, ExitShell, GotoShell DEF Kill
<1>3. term' \subseteq Pids
  BY <1>1, Parts DEF Kill, Alive, ShellType, DataOK
<1>4. excused' \subseteq Services /\ disturbed' \subseteq Services
  BY Parts DEF Kill, DataOK
<1>5. DataOK' /\ LateOK'
  BY <1>3, <1>4, Parts DEF Kill, machine, DataOK, LateOK
<1> QED
  BY <1>2, <1>5, PartsNext

LEMMA RmPidFileGood ==
  ASSUME IInv, NEW x \in Shells, RmPidFile(x)
  PROVE  IInv'
<1>1. sh' \in [Shells -> ShellType] /\ ShellsOK'
  BY StoppedShell DEF RmPidFile
<1>2. DataOK' /\ LateOK'
  BY Parts DEF RmPidFile, machine, history, DataOK, LateOK
<1> QED
  BY <1>1, <1>2, PartsNext

LEMMA ServiceGood ==
  ASSUME IInv, NEW x \in Admins, NEW s \in Services, NEW c \in Commands, Service(x, s, c)
  PROVE  IInv'
<1>1. x \in Shells
  BY DEF Shells
<1>2. sh' \in [Shells -> ShellType] /\ ShellsOK'
  BY <1>1, BeginShell, SameShells DEF Service
<1>3. links' \subseteq Links /\ excused' \subseteq Services
  <2>1. /\ links \subseteq Links /\ excused \subseteq Services
        /\ <<prio[s], s>> \in Links
    BY Parts DEF DataOK, Links
  <2>2. CASE Enabling(s)
    BY <2>1, <2>2 DEF Enabling, Service
  <2>3. CASE Disabling(s)
    BY <2>1, <2>3 DEF Disabling, Service
  <2>4. CASE UNCHANGED links
    BY <2>1, <2>4 DEF Service
  <2> QED
    BY <2>2, <2>3, <2>4 DEF Service
<1>4. DataOK' /\ LateOK'
  BY <1>3, Parts DEF Service, processes, machine, history, DataOK, LateOK
<1> QED
  BY <1>2, <1>4, PartsNext

LEMMA RcGood ==
  ASSUME IInv, Boot \/ RcService \/ RcLocal \/ Shutdown
  PROVE  IInv'
<1>1. CASE Boot
  <2>1. DataOK' /\ LateOK'
    BY <1>1, Parts DEF Boot, processes, DataOK, LateOK
  <2> QED
    BY <1>1, <2>1, SameShells, PartsNext DEF Boot
<1>2. CASE RcService
  <2>1. PICK l \in todo : /\ todo' = todo \ {l}
                          /\ IF l \in links
                             THEN Begin("rc", l[2], IF phase = "boot" THEN "start" ELSE "stop")
                             ELSE UNCHANGED sh
    BY <1>2 DEF RcService
  <2>2. l[2] \in Services /\ "rc" \in Shells
    BY Parts DEF DataOK, Links, Shells
  <2>3. sh' \in [Shells -> ShellType] /\ ShellsOK'
    <3>1. CASE l \in links /\ phase = "boot"
      BY <2>1, <2>2, <3>1, BeginShell
    <3>2. CASE l \in links /\ phase # "boot"
      BY <2>1, <2>2, <3>2, BeginShell
    <3>3. CASE l \notin links
      BY <2>1, <3>3, SameShells
    <3> QED
      BY <3>1, <3>2, <3>3
  <2>4. DataOK' /\ LateOK'
    BY <1>2, <2>1, Parts DEF RcService, processes, history, DataOK, LateOK
  <2> QED
    BY <2>3, <2>4, PartsNext
<1>3. CASE RcLocal
  <2>1. DataOK' /\ LateOK'
    BY <1>3, Parts DEF RcLocal, processes, history, DataOK, LateOK
  <2> QED
    BY <1>3, <2>1, SameShells, PartsNext DEF RcLocal
<1>4. CASE Shutdown
  <2>1. DataOK' /\ LateOK'
    BY <1>4, Parts DEF Shutdown, processes, history, DataOK, LateOK
  <2> QED
    BY <1>4, <2>1, SameShells, PartsNext DEF Shutdown
<1> QED
  BY <1>1, <1>2, <1>3, <1>4

LEMMA OffGood ==
  ASSUME IInv, Off, crashes' \in 0 .. MaxCrashes
  PROVE  IInv'
<1>1. Idle \in ShellType /\ Sane(Idle)
  BY DEF Idle, ShellType, Sane
<1>2. sh' \in [Shells -> ShellType] /\ \A x \in Shells : sh'[x] = Idle
  BY <1>1 DEF Off
<1>3. DataOK' /\ LateOK'
  BY Parts DEF Off, history, DataOK, LateOK
<1> QED
  BY <1>1, <1>2, <1>3, ShellsAreSane, PartsNext

LEMMA HaltGood ==
  ASSUME IInv, Halt \/ PowerLoss
  PROVE  IInv'
<1>1. crashes' \in 0 .. MaxCrashes
  BY Parts, ServiceAssumption DEF Halt, PowerLoss, DataOK
<1> QED
  BY <1>1, OffGood DEF Halt, PowerLoss

LEMMA ProcessGood ==
  ASSUME IInv, NEW p \in Pids,
         WritePidFile(p) \/ Terminate(p) \/ Die(p) \/ OtherProcess(p)
  PROVE  IInv'
<1> sh' = sh
  BY DEF WritePidFile, Terminate, Die, OtherProcess
<1>1. CASE WritePidFile(p)
  <2>1. proc[p] \in Services
    BY <1>1, Parts, ServiceAssumption DEF WritePidFile, DataOK, LateOK
  <2>2. DataOK' /\ LateOK'
    BY <1>1, <2>1, Parts DEF WritePidFile, machine, history, DataOK, LateOK
  <2> QED
    BY <2>2, SameShells, PartsNext
<1>2. CASE Terminate(p)
  <2>1. DataOK' /\ LateOK'
    BY <1>2, Parts DEF Terminate, machine, history, DataOK, LateOK
  <2> QED
    BY <2>1, SameShells, PartsNext
<1>3. CASE Die(p)
  <2>1. crashes' \in 0 .. MaxCrashes
    BY <1>3, Parts, ServiceAssumption DEF Die, DataOK
  <2>2. DataOK' /\ LateOK'
    BY <1>3, <2>1, Parts DEF Die, machine, DataOK, LateOK
  <2> QED
    BY <2>2, SameShells, PartsNext
<1>4. CASE OtherProcess(p)
  <2>1. proc[p] \in {"none", "other"} /\ p \notin late
    BY <1>4, Parts, ServiceAssumption DEF OtherProcess, Free, LateOK
  <2>2. DataOK' /\ LateOK'
    BY <1>4, <2>1, Parts DEF OtherProcess, machine, history, DataOK, LateOK
  <2> QED
    BY <2>2, SameShells, PartsNext
<1> QED
  BY <1>1, <1>2, <1>3, <1>4

LEMMA PriorityGood ==
  ASSUME IInv, NEW s \in Services, NEW n \in Priorities, NewPriority(s, n)
  PROVE  IInv'
<1>1. DataOK' /\ LateOK'
  BY Parts DEF NewPriority, processes, machine, history, DataOK, LateOK
<1> QED
  BY <1>1, SameShells, PartsNext DEF NewPriority

LEMMA InitGood == Init => IInv
<1> SUFFICES ASSUME Init PROVE IInv
  OBVIOUS
<1>1. Idle \in ShellType /\ Sane(Idle)
  BY DEF Idle, ShellType, Sane
<1>2. sh \in [Shells -> ShellType] /\ ShellsOK
  BY <1>1 DEF Init, ShellsOK, Sane
<1>3. DataOK /\ LateOK
  BY ServiceAssumption DEF Init, DataOK, LateOK, Links
<1> QED
  BY <1>2, <1>3 DEF IInv, TypeOK, DataOK, ShellType

LEMMA NextGood == IInv /\ [Next]_vars => IInv'
<1> SUFFICES ASSUME IInv, [Next]_vars PROVE IInv'
  OBVIOUS
<1>1. ASSUME NEW x \in Shells, InitScript(x)
      PROVE  IInv'
  BY <1>1, CheckRunningGood, SpawnGood, ReadPidGood, StopCmdGood, KillGood, RmPidFileGood
     DEF InitScript
<1>2. CASE UNCHANGED vars
  <2>1. DataOK' /\ LateOK'
    BY <1>2, Parts DEF vars, processes, machine, history, DataOK, LateOK
  <2> QED
    BY <1>2, <2>1, SameShells, PartsNext DEF vars
<1> QED
  BY <1>1, <1>2, ServiceGood, RcGood, HaltGood, ProcessGood, PriorityGood DEF Next, Rc

\* Every command of service, every script and every crash keeps the state of the
\* services well formed.
THEOREM TypeCorrect == Spec => []TypeOK
<1>1. IInv => TypeOK
  BY DEF IInv
<1> QED
  BY <1>1, InitGood, NextGood, PTL DEF Spec

-----------------------------------------------------------------------------
(* Booting *)

\* The machine is switched on with nothing under way.
OffOK == phase = "off" => term = {} /\ \A x \in Shells : sh[x].cmd = "none"

\* What becomes of an enabled service while rc runs.
Covered(l) ==
  \/ l \in todo \/ Running(l[2]) \/ l[2] \in excused
  \/ sh["rc"].cmd = "start" /\ sh["rc"].svc = l[2]

\* Until rc ends, only rc runs scripts, it only starts, and nothing is stopped.
BootOK ==
  phase = "boot" =>
    /\ term = {} /\ \A x \in Admins : sh[x].cmd = "none"
    /\ sh["rc"].cmd \in {"none", "start"}
    /\ \A l \in links : Covered(l)

BootInv == IInv /\ OffOK /\ BootOK

LEMMA RcIsAShell == "rc" \in Shells /\ "rc" \notin Admins /\ Shells \ {"rc"} = Admins
  BY ServiceAssumption DEF Shells

\* A step that only lets other daemons begin or end.
LEMMA RunningKept ==
  ASSUME on \subseteq on', term' = term, NEW s, Running(s),
         \A q \in Pids : proc[q] = s => proc'[q] = s
  PROVE  Running(s)'
  BY DEF Running

\* A shell that runs nothing takes no step of a script.
LEMMA NoScript ==
  ASSUME IInv, NEW x \in Shells, sh[x].cmd = "none"
  PROVE  ~InitScript(x)
<1>1. sh[x].at = "none"
  BY Parts DEF ShellsOK
<1> QED
  BY <1>1 DEF InitScript, CheckRunning, Spawn, ReadPid, StopCmd, Kill, RmPidFile

LEMMA OffNext ==
  ASSUME IInv, OffOK, [Next]_vars
  PROVE  OffOK'
<1>1. CASE Off
  BY <1>1 DEF Off, OffOK, Idle
<1>2. CASE phase' # "off"
  BY <1>2 DEF OffOK
<1>3. CASE phase' = "off" /\ ~Off
  <2>1. phase = "off"
    BY <1>3, Parts DEF Next, Rc, InitScript, CheckRunning, Spawn, ReadPid, StopCmd, Kill,
       RmPidFile, Service, Boot, RcService, RcLocal, Shutdown, Halt, PowerLoss,
       WritePidFile, Terminate, Die, OtherProcess, NewPriority, vars, machine
  <2>2. term = {} /\ \A x \in Shells : sh[x].cmd = "none"
    BY <2>1 DEF OffOK
  <2>3. term' = {} /\ sh' = sh
    <3>1. ASSUME NEW x \in Shells, InitScript(x) PROVE FALSE
      BY <3>1, <2>2, NoScript
    <3>2. ASSUME NEW x \in Admins, NEW s \in Services, NEW c \in Commands,
                 Service(x, s, c)
          PROVE  FALSE
      BY <3>2, <2>1 DEF Service
    <3>3. CASE Rc \/ PowerLoss
      BY <3>3, <2>1, <1>3 DEF Rc, Boot, RcService, RcLocal, Shutdown, Halt, PowerLoss
    <3>4. ASSUME NEW p \in Pids,
                 WritePidFile(p) \/ Terminate(p) \/ Die(p) \/ OtherProcess(p)
          PROVE  term' = {} /\ sh' = sh
      BY <3>4, <2>2 DEF WritePidFile, Terminate, Die, OtherProcess
    <3>5. ASSUME NEW s \in Services, NEW n \in Priorities, NewPriority(s, n)
          PROVE  term' = {} /\ sh' = sh
      BY <3>5, <2>2 DEF NewPriority, processes
    <3>6. CASE UNCHANGED vars
      BY <3>6, <2>2 DEF vars, processes
    <3> QED
      BY <3>1, <3>2, <3>3, <3>4, <3>5, <3>6 DEF Next
  <2> QED
    BY <2>2, <2>3 DEF OffOK
<1> QED
  BY <1>1, <1>2, <1>3

\* rc's shell while it boots: it looks, and starts.
LEMMA BootScript ==
  ASSUME BootInv, phase = "boot", NEW x \in Shells, InitScript(x)
  PROVE  BootOK'
<1>0. PICK s : s = sh["rc"].svc
  OBVIOUS
<1>1. IInv /\ x = "rc" /\ sh["rc"].cmd = "start" /\ sh["rc"].at \in {"check", "spawn"}
      /\ s = sh["rc"].svc
  <2>1. x = "rc"
    BY NoScript, RcIsAShell DEF BootInv, BootOK
  <2>2. sh["rc"].cmd = "start"
    BY <2>1, NoScript, RcIsAShell DEF BootInv, BootOK
  <2> QED
    BY <1>0, <2>1, <2>2, Parts, RcIsAShell DEF BootInv, ShellsOK
<1>2. s \in Services /\ term = {}
  BY <1>1, Parts, RcIsAShell DEF ShellsOK, BootInv, BootOK
<1>3. /\ term' = term /\ links' = links /\ todo' = todo /\ excused \subseteq excused'
  BY <1>1, Parts DEF InitScript, CheckRunning, Spawn, ReadPid, StopCmd, Kill, RmPidFile,
     processes, machine, history
<1>4. CASE CheckRunning("rc")
  <2>1. \A t \in Services : Running(t) => Running(t)'
    BY <1>4 DEF CheckRunning, processes, Running
  <2>2. CASE Exit("rc", "ok") /\ Alive(pidfile[s])
    <3>1. /\ \A y \in Admins : sh'[y] = sh[y]
          /\ sh'["rc"].cmd = "none"
      BY <2>2, <1>1, ExitShell, RcIsAShell
    <3>2. Running(s) \/ s \in excused'
      <4>1. CASE proc[pidfile[s]] = s
        <5>1. pidfile[s] \in Pids
          BY <2>2, <1>1, <1>2, Parts DEF Alive, DataOK
        <5> QED
          BY <4>1, <5>1, <1>2 DEF Running
      <4>2. CASE proc[pidfile[s]] # s
        BY <4>2, <2>2, <1>1, <1>4 DEF CheckRunning, Mistaken
      <4> QED
        BY <4>1, <4>2
    <3>3. \A l \in links : Covered(l) => Covered(l)'
      BY <1>1, <1>2, <1>3, <2>1, <3>2, Parts DEF Covered, DataOK, Links
    <3> QED
      BY <1>2, <1>3, <3>1, <3>3 DEF BootInv, BootOK
  <2>3. CASE Goto("rc", "spawn")
    <3>1. /\ \A y \in Admins : sh'[y] = sh[y]
          /\ sh'["rc"].cmd = "start" /\ sh'["rc"].svc = s
      BY <2>3, <1>1, GotoShell, RcIsAShell
    <3>2. \A l \in links : Covered(l) => Covered(l)'
      BY <1>1, <1>3, <2>1, <3>1, Parts DEF Covered, DataOK, Links
    <3> QED
      BY <1>2, <1>3, <3>1, <3>2 DEF BootInv, BootOK
  <2> QED
    BY <1>1, <1>4, <2>2, <2>3 DEF CheckRunning
<1>5. CASE Spawn("rc")
  <2>1. Exit("rc", "ok") \/ Exit("rc", "failed")
    BY <1>5 DEF Spawn
  <2>2. /\ \A y \in Admins : sh'[y] = sh[y]
        /\ sh'["rc"].cmd = "none"
    <3>1. \A y \in Shells \ {"rc"} : sh'[y] = sh[y]
      BY <2>1, <1>1, ExitShell, RcIsAShell
    <3>2. sh'["rc"].cmd = "none"
      BY <2>1, <1>1, ExitShell, RcIsAShell
    <3> QED
      BY <3>1, <3>2, RcIsAShell
  <2>3. \A t \in Services : Running(t) => Running(t)'
    <3>1. on \subseteq on'
      BY <1>5 DEF Spawn
    <3>2. \A q \in Pids : proc[q] # "none" => proc'[q] = proc[q]
      BY <1>5, <1>1, Parts DEF Spawn, Free, DataOK
    <3> QED
      BY <3>1, <3>2, <1>3, RunningKept, ServiceAssumption
  <2>4. Running(s)' \/ s \in excused'
    <3>1. CASE on' = on \cup {s}
      BY <3>1 DEF Running
    <3>2. CASE \E p \in Free : proc' = [proc EXCEPT ![p] = s]
      BY <3>2, <1>1, <1>2, <1>3, Parts DEF Running, Free, DataOK
    <3>3. CASE excused' = excused \cup {s}
      BY <3>3
    <3> QED
      BY <1>1, <1>5, <3>1, <3>2, <3>3 DEF Spawn
  <2>5. \A l \in links : Covered(l) => Covered(l)'
    BY <1>1, <1>3, <2>3, <2>4, Parts DEF Covered, DataOK, Links
  <2> QED
    BY <1>2, <1>3, <2>2, <2>5 DEF BootInv, BootOK
<1> QED
  BY <1>1, <1>4, <1>5 DEF InitScript, ReadPid, StopCmd, Kill, RmPidFile

\* The daemons and other processes while rc boots.
LEMMA BootProcess ==
  ASSUME BootInv, phase = "boot", NEW p \in Pids,
         WritePidFile(p) \/ Terminate(p) \/ Die(p) \/ OtherProcess(p)
  PROVE  BootOK'
<1>1. IInv /\ term = {} /\ \A l \in links : Covered(l)
  BY DEF BootInv, BootOK
<1>2. /\ term' = {} /\ on' = on /\ sh' = sh /\ links' = links /\ todo' = todo
      /\ excused \subseteq excused'
  BY <1>1 DEF WritePidFile, Terminate, Die, OtherProcess, machine, history
<1>3. ASSUME NEW l \in links PROVE Covered(l)'
  <2>1. CASE ~Running(l[2])
    BY <1>1, <1>2, <2>1 DEF Covered
  <2>2. CASE Running(l[2])
    <3>1. l[2] \in Services
      BY <1>1, Parts DEF DataOK, Links
    <3>2. CASE WritePidFile(p)
      BY <1>1, <1>2, <2>2, <3>2 DEF WritePidFile, Running, Covered
    <3>3. CASE Die(p)
      <4>1. CASE proc[p] = l[2]
        BY <3>3, <4>1 DEF Die, Covered
      <4>2. CASE proc[p] # l[2]
        <5>1. \A q \in Pids : proc[q] = l[2] => proc'[q] = l[2]
          BY <3>3, <4>2, <1>1, Parts DEF Die, DataOK
        <5> QED
          BY <5>1, <1>1, <1>2, <2>2, RunningKept DEF Covered
      <4> QED
        BY <4>1, <4>2
    <3>4. CASE OtherProcess(p)
      <4>1. \A q \in Pids : proc[q] = l[2] => proc'[q] = l[2]
        BY <3>1, <3>4, <1>1, Parts, ServiceAssumption DEF OtherProcess, Free, DataOK
      <4> QED
        BY <4>1, <1>1, <1>2, <2>2, RunningKept DEF Covered
    <3> QED
      BY <1>1, <3>2, <3>3, <3>4 DEF Terminate
  <2> QED
    BY <2>1, <2>2
<1> QED
  BY <1>2, <1>3 DEF BootInv, BootOK

\* rc goes on to the next link.
LEMMA BootService ==
  ASSUME BootInv, phase = "boot", RcService
  PROVE  BootOK'
<1>1. /\ IInv /\ term = {} /\ sh["rc"].cmd = "none" /\ \A l \in links : Covered(l)
      /\ \A x \in Admins : sh[x].cmd = "none"
  BY DEF BootInv, BootOK, RcService
<1>2. /\ term' = term /\ proc' = proc /\ on' = on /\ links' = links
      /\ excused' = excused
  BY DEF RcService, processes, history
<1>3. PICK l \in todo :
        todo' = todo \ {l} /\ IF l \in links THEN Begin("rc", l[2], "start") ELSE sh' = sh
  BY DEF RcService
<1>4. l[2] \in Services
  BY <1>1, Parts DEF DataOK, Links
<1>5. CASE l \in links
  <2>1. /\ sh'["rc"].cmd = "start" /\ sh'["rc"].svc = l[2]
        /\ \A y \in Shells \ {"rc"} : sh'[y] = sh[y]
    BY <1>1, <1>3, <1>4, <1>5, BeginShell, RcIsAShell
  <2>2. \A m \in links : Covered(m)'
    BY <1>1, <1>2, <1>3, <2>1 DEF Covered, Running
  <2> QED
    BY <1>1, <1>2, <2>1, <2>2, RcIsAShell DEF BootOK
<1>6. CASE l \notin links
  <2>1. \A m \in links : Covered(m)'
    BY <1>1, <1>2, <1>3, <1>6 DEF Covered, Running
  <2> QED
    BY <1>1, <1>2, <1>3, <1>6, <2>1 DEF BootOK
<1> QED
  BY <1>5, <1>6

LEMMA BootNext ==
  ASSUME BootInv, [Next]_vars
  PROVE  BootOK'
<1>1. CASE phase' # "boot"
  BY <1>1 DEF BootOK
<1>2. CASE phase' = "boot" /\ phase # "boot"
  <2>1. Boot
    BY <1>2 DEF Next, Rc, InitScript, CheckRunning, Spawn, ReadPid, StopCmd, Kill,
       RmPidFile, Service, RcService, RcLocal, Shutdown, Halt, PowerLoss, Off,
       WritePidFile, Terminate, Die, OtherProcess, NewPriority, vars, machine
  <2>2. term = {} /\ \A x \in Shells : sh[x].cmd = "none"
    BY <2>1 DEF Boot, BootInv, OffOK
  <2>3. term' = {} /\ sh' = sh /\ links' = links /\ todo' = links
    BY <2>1, <2>2 DEF Boot, processes
  <2> QED
    BY <2>2, <2>3, RcIsAShell DEF BootOK, Covered
<1>3. CASE phase = "boot" /\ phase' = "boot"
  <2>1. CASE UNCHANGED <<processes, links, todo, sh, excused>>
    BY <2>1, <1>3 DEF BootInv, BootOK, Covered, Running, processes
  <2>2. ASSUME NEW x \in Shells, InitScript(x)
        PROVE  BootOK'
    BY <1>3, <2>2, BootScript
  <2>3. ASSUME NEW x \in Admins, NEW s \in Services, NEW c \in Commands,
               Service(x, s, c)
        PROVE  BootOK'
    BY <1>3, <2>3 DEF Service
  <2>4. CASE RcService
    BY <1>3, <2>4, BootService
  <2>5. CASE Boot \/ RcLocal \/ Shutdown \/ Halt \/ PowerLoss
    BY <1>3, <2>5 DEF Boot, RcLocal, Shutdown, Halt, PowerLoss, Off
  <2>6. ASSUME NEW p \in Pids,
               WritePidFile(p) \/ Terminate(p) \/ Die(p) \/ OtherProcess(p)
        PROVE  BootOK'
    BY <1>3, <2>6, BootProcess
  <2>7. ASSUME NEW s \in Services, NEW n \in Priorities, NewPriority(s, n)
        PROVE  BootOK'
    BY <2>7, <2>1 DEF NewPriority, machine, history
  <2>8. CASE UNCHANGED vars
    BY <2>8, <2>1 DEF vars, machine, history
  <2> QED
    BY <2>2, <2>3, <2>4, <2>5, <2>6, <2>7, <2>8 DEF Next, Rc
<1> QED
  BY <1>1, <1>2, <1>3

StartsStep ==
  phase = "boot" /\ phase' = "up" => \A l \in links : Running(l[2]) \/ l[2] \in excused

\* It is RcLocal that ends the boot, with no link left and no script running.
LEMMA StartsNext ==
  ASSUME BootInv, [Next]_vars
  PROVE  StartsStep
<1> SUFFICES ASSUME phase = "boot", phase' = "up", NEW l \in links
             PROVE  Running(l[2]) \/ l[2] \in excused
  BY DEF StartsStep
<1>1. RcLocal
  BY DEF Next, Rc, InitScript, CheckRunning, Spawn, ReadPid, StopCmd, Kill,
     RmPidFile, Service, Boot, RcService, RcLocal, Shutdown, Halt, PowerLoss, Off,
     WritePidFile, Terminate, Die, OtherProcess, NewPriority, vars, machine
<1> QED
  BY <1>1 DEF RcLocal, BootInv, BootOK, Covered

LEMMA BootInit == Init => BootInv
<1> SUFFICES ASSUME Init PROVE BootInv
  OBVIOUS
<1> QED
  BY InitGood, ServiceAssumption DEF BootInv, Init, OffOK, BootOK, Idle

\* For any services, administrators, crashes and whatever pid files and process ids
\* they leave: when rc ends, each enabled service runs, or since the machine was
\* switched on its StartCmd failed, its daemon died, or its pid file named another
\* process when rc looked at it.
THEOREM Starts == Spec => BootStarts
<1>1. BootInv /\ [Next]_vars => BootInv'
  BY NextGood, OffNext, BootNext DEF BootInv
<1>2. BootInv /\ [Next]_vars => [StartsStep]_vars
  BY StartsNext
<1> QED
  BY <1>1, <1>2, BootInit, PTL DEF Spec, BootStarts, StartsStep
=============================================================================
