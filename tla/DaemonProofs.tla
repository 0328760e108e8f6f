---------------------------- MODULE DaemonProofs ----------------------------
(***************************************************************************)
(* That a service has one daemon, that its pid file names it, that stop    *)
(* stops it, and that the services keep their order: for any services,     *)
(* administrators and commands, deaths of daemons and losses of power,     *)
(* daemons that are late to write their pid file or delete it on exit, and *)
(* process ids that are given out again.                                   *)
(***************************************************************************)
EXTENDS ServiceProofs

-----------------------------------------------------------------------------
(* The invariant *)

\* No daemon of s goes on; none has yet to write its pid file; none is told to end.
NoDaemon(s) == \A p \in Pids \ term : proc[p] # s
NoneLate(s) == \A p \in late : proc[p] # s
NoneEnding(s) == \A p \in term : proc[p] # s

\* The daemons of s and its pid file: one daemon goes on, which the file names once
\* it is written, and no other is left that will write the file, or delete it.
Daemons(s) ==
  /\ \A p, q \in Pids \ term : proc[p] = s /\ proc[q] = s => p = q
  /\ \A p \in Pids \ (term \cup late) : proc[p] = s => pidfile[s] = p
  /\ s \in Removing => NoneEnding(s) \/ NoDaemon(s)
  /\ \A p \in late \cap term : proc[p] # s

\* The shell x has looked at the pid file of s, and goes by what it found there.
Past(x, s) == sh[x].svc = s /\ sh[x].at \in {"spawn", "stopcmd", "kill", "rm"}
Found(x, s) ==
  /\ NoneLate(s)
  /\ sh[x].at = "spawn" => NoDaemon(s) /\ (s \in Removing => NoneEnding(s))
  /\ sh[x].at = "stopcmd" => s \in Plain
  /\ sh[x].at = "kill" =>
       s \notin Plain /\ \A p \in Pids \ term : proc[p] = s => p = sh[x].pid
  /\ sh[x].at = "rm" => s \notin Plain /\ NoDaemon(s)

\* One shell at a time is past the look at the pid file of s, and what it found holds.
Sound(s) ==
  /\ Daemons(s)
  /\ \A x, y \in Shells : Past(x, s) /\ Past(y, s) => x = y
  /\ \A x \in Shells : Past(x, s) => Found(x, s)

\* A plain service has no daemon, nothing runs in a machine that is off, and stop
\* has no step of start.
Steady ==
  /\ \A p \in term : proc[p] # "none"
  /\ \A p \in Pids : proc[p] \notin Plain
  /\ phase = "off" => on = {} /\ \A p \in Pids : proc[p] = "none"
  /\ \A x \in Shells : sh[x].cmd = "stop" => sh[x].at \notin {"check", "spawn"}

DaemonInv == BootInv /\ Steady /\ \A s \in Services \ disturbed : Sound(s)

-----------------------------------------------------------------------------
(* What a step of a script does *)

\* A script that has not found out anything, or no script.
Begun(f) == f.at \in {"none", "check", "read"} /\ (f.cmd = "stop" => f.at # "check")

LEMMA ScriptOfOne ==
  ASSUME IInv, NEW x \in Shells, InitScript(x)
  PROVE  /\ \A y \in Shells \ {x} : sh'[y] = sh[y]
         /\ sh[x].cmd # "none" /\ sh[x].svc \in Services
         /\ phase' = phase
<1>1. sh \in [Shells -> ShellType] /\ Sane(sh[x])
  BY ShellsAreSane DEF IInv
<1>2. \A y \in Shells \ {x} : sh'[y] = sh[y]
  BY <1>1 DEF InitScript, CheckRunning, Spawn, ReadPid, StopCmd, Kill, RmPidFile,
     Stopped, Goto, Exit
<1>3. sh[x].cmd # "none"
  BY NoScript
<1>4. phase' = phase
  BY DEF InitScript, CheckRunning, Spawn, ReadPid, StopCmd, Kill, RmPidFile, machine
<1> QED
  BY <1>1, <1>2, <1>3, <1>4 DEF Sane

LEMMA StoppedAt ==
  ASSUME IInv, NEW x \in Shells, Stopped(x)
  PROVE  Begun(sh'[x])
<1>1. sh \in [Shells -> ShellType]
  BY ShellsAreSane DEF IInv
<1> QED
  BY <1>1 DEF Stopped, Goto, Exit, Idle, ShellType, Begun

LEMMA ExitAt ==
  ASSUME IInv, NEW x \in Shells, NEW out, Exit(x, out)
  PROVE  Begun(sh'[x]) /\ sh'[x].cmd = "none" /\ sh'[x].out = out
<1>1. sh \in [Shells -> ShellType]
  BY ShellsAreSane DEF IInv
<1> QED
  BY <1>1 DEF Exit, Idle, Begun

LEMMA GotoAt ==
  ASSUME IInv, NEW x \in Shells, NEW at, Goto(x, at)
  PROVE  /\ sh'[x].at = at /\ sh'[x].svc = sh[x].svc /\ sh'[x].pid = sh[x].pid
         /\ sh'[x].cmd = sh[x].cmd
<1>1. sh \in [Shells -> ShellType]
  BY ShellsAreSane DEF IInv
<1> QED
  BY <1>1 DEF Goto, ShellType

LEMMA BeginAt ==
  ASSUME IInv, NEW x \in Shells, NEW s, NEW c, Begin(x, s, c)
  PROVE  \A y \in Shells : sh'[y] = sh[y] \/ (y = x /\ Begun(sh'[y]))
<1>1. sh \in [Shells -> ShellType]
  BY ShellsAreSane DEF IInv
<1> QED
  BY <1>1 DEF Begin, Begun

\* What a step of x's script, of the service s, does and leaves alone: of the daemons
\* of other services it may signal some, which are disturbed by that.
Effects(x, s) ==
  /\ \A y \in Shells \ {x} : sh'[y] = sh[y]
  /\ sh'[x].cmd = "none" \/ (sh'[x].cmd = sh[x].cmd /\ sh'[x].svc = s)
  /\ UNCHANGED <<phase, todo, links>>
  /\ excused \subseteq excused' /\ disturbed \subseteq disturbed'
  /\ \A q \in Pids : \/ proc'[q] = proc[q]
                     \/ proc[q] = "none" /\ proc'[q] = s /\ s \notin Plain
  /\ term \subseteq term'
  /\ \A q \in term' \ term :
       q \in Pids /\ proc'[q] # "none" /\ proc[q] \notin Services \ (disturbed' \cup {s})
  /\ \A q \in term' \ term : proc[q] \notin Services \ (excused' \cup {s})
  /\ \A q \in late' \ late : q \in Pids /\ proc'[q] = s
  /\ late \subseteq late'
  /\ \A t \in Services \ {s} : pidfile'[t] = pidfile[t] /\ (t \in on' <=> t \in on)

LEMMA ScriptGoes ==
  ASSUME IInv, NEW x \in Shells, InitScript(x)
  PROVE  /\ \A y \in Shells \ {x} : sh'[y] = sh[y]
         /\ \/ sh'[x].cmd = "none"
            \/ sh'[x].cmd = sh[x].cmd /\ sh'[x].svc = sh[x].svc
         /\ UNCHANGED <<phase, todo, links>>
         /\ excused \subseteq excused' /\ disturbed \subseteq disturbed'
<1>1. sh \in [Shells -> ShellType]
  BY ShellsAreSane DEF IInv
<1>2. \A y \in Shells \ {x} : sh'[y] = sh[y]
  BY <1>1, ScriptOfOne
<1>3. \/ \E out : Exit(x, out)
      \/ \E at : Goto(x, at)
      \/ sh' = [sh EXCEPT ![x].at = "kill", ![x].pid = pidfile[sh[x].svc]]
  BY DEF InitScript, CheckRunning, Spawn, ReadPid, StopCmd, Kill, RmPidFile, Stopped
<1>4. \/ sh'[x].cmd = "none"
      \/ sh'[x].cmd = sh[x].cmd /\ sh'[x].svc = sh[x].svc
  <2>1. CASE \E out : Exit(x, out)
    BY <2>1, ExitAt
  <2>2. CASE \E at : Goto(x, at)
    BY <2>2, GotoAt
  <2>3. CASE sh' = [sh EXCEPT ![x].at = "kill", ![x].pid = pidfile[sh[x].svc]]
    BY <2>3, <1>1 DEF ShellType
  <2> QED
    BY <1>3, <2>1, <2>2, <2>3
<1>5. UNCHANGED <<phase, todo, links>>
  BY DEF InitScript, CheckRunning, Spawn, ReadPid, StopCmd, Kill, RmPidFile, machine
<1>6. excused \subseteq excused' /\ disturbed \subseteq disturbed'
  BY DEF InitScript, CheckRunning, Spawn, ReadPid, StopCmd, Kill, RmPidFile, Look, history
<1> QED
  BY <1>2, <1>4, <1>5, <1>6

LEMMA ScriptEffects ==
  ASSUME IInv, NEW x \in Shells, InitScript(x), NEW s, s = sh[x].svc
  PROVE  Effects(x, s)
<1>1. /\ \A y \in Shells \ {x} : sh'[y] = sh[y]
      /\ sh'[x].cmd = "none" \/ (sh'[x].cmd = sh[x].cmd /\ sh'[x].svc = s)
      /\ UNCHANGED <<phase, todo, links>>
      /\ excused \subseteq excused' /\ disturbed \subseteq disturbed'
  BY ScriptGoes
<1>2. /\ s \in Services /\ pidfile \in [Services -> Pids \cup {0}] /\ term \subseteq Pids
      /\ proc \in [Pids -> Services \cup {"none", "other"}]
  BY ScriptOfOne, Parts DEF DataOK
<1>3. CASE CheckRunning(x) \/ ReadPid(x)
  <2>1. UNCHANGED <<proc, term, late, pidfile, on>>
    BY <1>3 DEF CheckRunning, ReadPid, processes
  <2> QED
    BY <1>1, <1>2, <2>1 DEF Effects
<1>4. CASE Spawn(x)
  <2>1. term' = term
    BY <1>4 DEF Spawn
  <2>2. CASE on' = on \cup {s} /\ UNCHANGED <<proc, late, pidfile>>
    BY <1>1, <1>2, <2>1, <2>2 DEF Effects
  <2>3. CASE UNCHANGED <<proc, late, pidfile, on>>
    BY <1>1, <1>2, <2>1, <2>3 DEF Effects
  <2>4. ASSUME s \notin Plain, NEW p \in Free, proc' = [proc EXCEPT ![p] = s],
               late' = IF s \in Late THEN late \cup {p} ELSE late,
               pidfile' = IF s \in Late THEN pidfile ELSE [pidfile EXCEPT ![s] = p],
               on' = on
        PROVE  Effects(x, s)
    <3>1. p \in Pids /\ proc[p] = "none"
      BY DEF Free
    <3>2. proc'[p] = s /\ \A q \in Pids \ {p} : proc'[q] = proc[q]
      BY <1>2, <2>4, <3>1
    <3>3. \A t \in Services \ {s} : pidfile'[t] = pidfile[t]
      BY <1>2, <2>4
    <3> QED
      BY <1>1, <2>1, <2>4, <3>1, <3>2, <3>3 DEF Effects
  <2> QED
    BY <1>2, <1>4, <2>2, <2>3, <2>4 DEF Spawn
<1>5. CASE StopCmd(x)
  <2>1. UNCHANGED <<proc, term, late, pidfile>> /\ (on' = on \ {s} \/ on' = on)
    BY <1>5 DEF StopCmd
  <2> QED
    BY <1>1, <1>2, <2>1 DEF Effects
<1>6. CASE Kill(x)
  <2>1. UNCHANGED <<proc, late, pidfile, on>>
    BY <1>6 DEF Kill
  <2>2. \/ term' = term
        \/ term' = term \cup {sh[x].pid} /\ Alive(sh[x].pid)
    BY <1>6 DEF Kill
  <2>3. Alive(sh[x].pid) => sh[x].pid \in Pids /\ proc[sh[x].pid] # "none"
    BY Parts DEF Alive, ShellType
  <2>4. Alive(sh[x].pid) /\ proc[sh[x].pid] \in Services \ {s} =>
          proc[sh[x].pid] \in excused' \cap disturbed'
    BY <1>6 DEF Kill, Mistaken
  <2> QED
    BY <1>1, <1>2, <2>1, <2>2, <2>3, <2>4 DEF Effects
<1>7. CASE RmPidFile(x)
  <2>1. UNCHANGED <<proc, term, late, on>> /\ pidfile' = [pidfile EXCEPT ![s] = 0]
    BY <1>7 DEF RmPidFile
  <2> QED
    BY <1>1, <1>2, <2>1 DEF Effects
<1> QED
  BY <1>3, <1>4, <1>5, <1>6, <1>7 DEF InitScript

\* Of other services, a script changes nothing.
LEMMA Elsewhere ==
  ASSUME IInv, NEW x, NEW s \in Services, Effects(x, s),
         NEW t \in Services \ {s}, t \notin excused' \cap disturbed'
  PROVE  /\ \A p \in Pids : proc'[p] = t <=> proc[p] = t
         /\ \A p \in Pids : proc[p] = t => (p \in term' <=> p \in term)
         /\ \A p \in Pids : proc[p] = t => (p \in late' <=> p \in late)
         /\ pidfile'[t] = pidfile[t]
         /\ Running(t)' <=> Running(t)
<1>1. \A p \in Pids : proc'[p] = t <=> proc[p] = t
  BY ServiceAssumption DEF Effects
<1>2. \A p \in Pids : proc[p] = t => (p \in term' <=> p \in term)
  BY DEF Effects
<1>3. \A p \in Pids : proc[p] = t => (p \in late' <=> p \in late)
  BY <1>1 DEF Effects
<1>4. (\E p \in Pids \ term' : proc'[p] = t) <=> (\E p \in Pids \ term : proc[p] = t)
  BY <1>1, <1>2
<1> QED
  BY <1>1, <1>2, <1>3, <1>4 DEF Effects, Running

\* Where the processes of t, its pid file and its scripts are the same, it stays sound.
LEMMA SoundSame ==
  ASSUME IInv, IInv', NEW t \in Services, Sound(t),
         \A p \in Pids : proc'[p] = t <=> proc[p] = t,
         \A p \in Pids : proc[p] = t => (p \in term' <=> p \in term),
         \A p \in Pids : proc[p] = t => (p \in late' <=> p \in late),
         pidfile'[t] = pidfile[t],
         \A y \in Shells : Past(y, t)' => sh'[y] = sh[y]
  PROVE  Sound(t)'
<1>1. term \subseteq Pids /\ late \subseteq Pids /\ term' \subseteq Pids /\ late' \subseteq Pids
  BY DEF IInv, TypeOK
<1>2. /\ NoDaemon(t) => NoDaemon(t)'
      /\ NoneLate(t) => NoneLate(t)'
      /\ NoneEnding(t) => NoneEnding(t)'
  BY <1>1 DEF NoDaemon, NoneLate, NoneEnding
<1>3. Daemons(t)'
  <2>1. \A p, q \in Pids \ term' : proc'[p] = t /\ proc'[q] = t => p = q
    BY DEF Sound, Daemons
  <2>2. \A p \in Pids \ (term' \cup late') : proc'[p] = t => pidfile'[t] = p
    BY DEF Sound, Daemons
  <2>3. \A p \in late' \cap term' : proc'[p] # t
    BY <1>1 DEF Sound, Daemons
  <2> QED
    BY <1>2, <2>1, <2>2, <2>3 DEF Sound, Daemons
<1>4. ASSUME NEW y \in Shells, Past(y, t)' PROVE Past(y, t) /\ Found(y, t)'
  <2>1. sh'[y] = sh[y] /\ Past(y, t) /\ Found(y, t)
    BY <1>4 DEF Past, Sound
  <2> QED
    BY <1>2, <2>1 DEF Found
<1> QED
  BY <1>3, <1>4 DEF Sound

-----------------------------------------------------------------------------
(* The script's own service *)
\* What a step of x's script is given, and has to give, for its service.
Given(x, s) ==
  /\ IInv /\ Steady /\ Sound(s) /\ x \in Shells /\ s \in Services /\ s = sh[x].svc
  /\ \A y \in Shells \ {x} : sh'[y] = sh[y]
  /\ s \notin disturbed'

LEMMA OwnSound ==
  ASSUME NEW x, NEW s, Given(x, s), Past(x, s) \/ Settled(x, s),
         Daemons(s)', Past(x, s)' => Found(x, s)'
  PROVE  Sound(s)'
<1>1. \A y \in Shells \ {x} : ~Past(y, s)
  BY DEF Given, Sound, Settled, Past
<1>2. \A y \in Shells \ {x} : ~Past(y, s)'
  BY <1>1 DEF Given, Past
<1> QED
  BY <1>2 DEF Sound

LEMMA BegunIsNotPast ==
  ASSUME NEW x, NEW s, Begun(sh'[x])
  PROVE  ~Past(x, s)'
  BY DEF Begun, Past

LEMMA DaemonsSame ==
  ASSUME NEW s, Daemons(s), UNCHANGED <<proc, term, late, pidfile>>
  PROVE  /\ Daemons(s)' /\ (NoDaemon(s)' <=> NoDaemon(s))
         /\ (NoneLate(s)' <=> NoneLate(s)) /\ (NoneEnding(s)' <=> NoneEnding(s))
  BY DEF Daemons, NoDaemon, NoneLate, NoneEnding

\* What the pid file tells where all that was begun has taken effect.
LEMMA SettledFile ==
  ASSUME NEW x, NEW s, Given(x, s), Settled(x, s)
  PROVE  /\ NoneLate(s) /\ (s \in Removing => NoneEnding(s))
         /\ \A p \in Pids \ term : proc[p] = s => pidfile[s] = p /\ s \notin Plain
<1>1. NoneLate(s) /\ (s \in Removing => NoneEnding(s))
  BY DEF Settled, NoneLate, NoneEnding
<1> QED
  BY <1>1 DEF NoneLate, Given, Sound, Daemons, Steady

LEMMA CheckRunningSound ==
  ASSUME NEW x, NEW s, Given(x, s), CheckRunning(x)
  PROVE  Sound(s)'
<1>1. UNCHANGED <<proc, term, late, pidfile>> /\ Settled(x, s)
  BY DEF CheckRunning, processes, Look, Given
<1>2. Daemons(s)' /\ (NoDaemon(s) => NoDaemon(s)')
  BY <1>1, DaemonsSame DEF Given, Sound
<1>3. CASE Exit(x, "ok")
  BY <1>1, <1>2, <1>3, ExitAt, BegunIsNotPast, OwnSound DEF Given
<1>4. CASE Goto(x, "spawn") /\ ~(s \notin Plain /\ Alive(pidfile[s]))
  <2>1. sh'[x].at = "spawn"
    BY <1>4, GotoAt DEF Given
  <2>2. NoDaemon(s)
    <3> SUFFICES ASSUME NEW p \in Pids \ term, proc[p] = s PROVE FALSE
      BY DEF NoDaemon
    <3>1. s \notin Plain /\ pidfile[s] = p
      BY <1>1, SettledFile
    <3>2. Alive(p)
      BY ServiceAssumption DEF Alive, Given
    <3> QED
      BY <3>1, <3>2, <1>4
  <2>3. Found(x, s)'
    BY <1>1, <2>1, <2>2, SettledFile DEF Found, NoDaemon, NoneLate, NoneEnding
  <2> QED
    BY <1>1, <1>2, <2>3, OwnSound
<1> QED
  BY <1>3, <1>4 DEF CheckRunning, Given

LEMMA SpawnSound ==
  ASSUME NEW x, NEW s, Given(x, s), Spawn(x)
  PROVE  Sound(s)'
<1>1. /\ term' = term /\ Past(x, s) /\ ~Past(x, s)'
      /\ NoDaemon(s) /\ NoneLate(s) /\ (s \in Removing => NoneEnding(s))
  <2>1. Past(x, s) /\ Found(x, s) /\ sh[x].at = "spawn" /\ term' = term
    BY DEF Spawn, Past, Given, Sound
  <2>2. ~Past(x, s)'
    BY ExitAt, BegunIsNotPast DEF Spawn, Given
  <2> QED
    BY <2>1, <2>2 DEF Found
<1>2. CASE UNCHANGED <<proc, late, pidfile>>
  BY <1>1, <1>2, DaemonsSame, OwnSound DEF Given, Sound
<1>3. ASSUME NEW p \in Free, proc' = [proc EXCEPT ![p] = s],
             late' = IF s \in Late THEN late \cup {p} ELSE late,
             pidfile' = IF s \in Late THEN pidfile ELSE [pidfile EXCEPT ![s] = p]
      PROVE  Sound(s)'
  <2>1. /\ p \in Pids /\ p \notin term /\ p \notin late
        /\ proc'[p] = s /\ \A q \in Pids \ {p} : proc'[q] = proc[q]
        /\ term \subseteq Pids /\ late \subseteq Pids
        /\ s \notin Late => pidfile'[s] = p
    BY <1>3, Parts, ServiceAssumption DEF Given, DataOK, Free, LateOK, Steady
  <2>2. \A q \in Pids \ term' : proc'[q] = s => q = p
    BY <1>1, <2>1 DEF NoDaemon
  <2>3. \A q \in Pids \ (term' \cup late') : proc'[q] = s => pidfile'[s] = q
    BY <1>3, <2>1, <2>2
  <2>4. s \in Removing => NoneEnding(s)'
    BY <1>1, <2>1 DEF NoneEnding
  <2>5. \A q \in late' \cap term' : proc'[q] # s
    BY <1>1, <1>3, <2>1 DEF NoneLate
  <2> QED
    BY <1>1, <2>2, <2>3, <2>4, <2>5, OwnSound DEF Daemons
<1> QED
  BY <1>2, <1>3 DEF Spawn, Given

LEMMA ReadPidSound ==
  ASSUME NEW x, NEW s, Given(x, s), ReadPid(x)
  PROVE  Sound(s)'
<1>1. UNCHANGED <<proc, term, late, pidfile>> /\ Settled(x, s)
  BY DEF ReadPid, processes, Look, Given
<1>2. Daemons(s)' /\ NoneLate(s)'
  BY <1>1, DaemonsSame, SettledFile DEF Given, Sound
<1>3. CASE Stopped(x)
  BY <1>1, <1>2, <1>3, StoppedAt, BegunIsNotPast, OwnSound DEF Given
<1>4. CASE s \in Plain /\ Goto(x, "stopcmd")
  <2>1. sh'[x].at = "stopcmd"
    BY <1>4, GotoAt DEF Given
  <2>2. Found(x, s)'
    BY <1>2, <1>4, <2>1 DEF Found
  <2> QED
    BY <1>1, <1>2, <2>2, OwnSound
<1>5. CASE /\ s \notin Plain
           /\ sh' = [sh EXCEPT ![x].at = "kill", ![x].pid = pidfile[s]]
  <2>1. sh'[x].at = "kill" /\ sh'[x].pid = pidfile[s]
    BY <1>5, Parts DEF Given, ShellType
  <2>2. \A p \in Pids \ term' : proc'[p] = s => p = sh'[x].pid
    BY <1>1, <2>1, SettledFile
  <2>3. Found(x, s)'
    BY <1>2, <1>5, <2>1, <2>2 DEF Found
  <2> QED
    BY <1>1, <1>2, <2>3, OwnSound
<1> QED
  BY <1>3, <1>4, <1>5 DEF ReadPid, Given

LEMMA StopCmdSound ==
  ASSUME NEW x, NEW s, Given(x, s), StopCmd(x)
  PROVE  Sound(s)'
<1>1. UNCHANGED <<proc, term, late, pidfile>> /\ Past(x, s)
  BY DEF StopCmd, Past, Given
<1>2. ~Past(x, s)'
  BY StoppedAt, ExitAt, BegunIsNotPast DEF StopCmd, Given
<1> QED
  BY <1>1, <1>2, DaemonsSame, OwnSound DEF Given, Sound

LEMMA KillSound ==
  ASSUME NEW x, NEW s, Given(x, s), Kill(x)
  PROVE  Sound(s)'
<1>1. /\ UNCHANGED <<proc, late, pidfile>> /\ Past(x, s)
      /\ s \notin Plain /\ NoneLate(s)
      /\ \A p \in Pids \ term : proc[p] = s => p = sh[x].pid
  BY DEF Kill, Past, Given, Sound, Found
<1>2. CASE Exit(x, "failed") /\ term' = term
  BY <1>1, <1>2, ExitAt, BegunIsNotPast, DaemonsSame, OwnSound DEF Given, Sound
<1>3. CASE Goto(x, "rm") /\ term' = term \cup {sh[x].pid}
  <2>1. sh'[x].at = "rm"
    BY <1>3, GotoAt DEF Given
  <2>2. NoDaemon(s)' /\ NoneLate(s)'
    BY <1>1, <1>3 DEF NoDaemon, NoneLate
  <2>3. Daemons(s)'
    BY <2>2 DEF Daemons, NoDaemon, NoneLate
  <2> QED
    BY <1>1, <2>1, <2>2, <2>3, OwnSound DEF Found
<1> QED
  BY <1>2, <1>3 DEF Kill

LEMMA RmPidFileSound ==
  ASSUME NEW x, NEW s, Given(x, s), RmPidFile(x)
  PROVE  Sound(s)'
<1>1. /\ UNCHANGED <<proc, term, late>> /\ Past(x, s) /\ NoDaemon(s)
      /\ \A p \in late \cap term : proc[p] # s
  BY DEF RmPidFile, Past, Given, Sound, Found, Daemons
<1>2. ~Past(x, s)'
  BY StoppedAt, BegunIsNotPast DEF RmPidFile, Given
<1>3. Daemons(s)'
  BY <1>1 DEF Daemons, NoDaemon
<1> QED
  BY <1>1, <1>2, <1>3, OwnSound

LEMMA ScriptSound ==
  ASSUME NEW x, NEW s, Given(x, s), InitScript(x)
  PROVE  Sound(s)'
  BY CheckRunningSound, SpawnSound, ReadPidSound, StopCmdSound, KillSound, RmPidFileSound
     DEF InitScript

-----------------------------------------------------------------------------
(* Every step *)

LEMMA SteadyScript ==
  ASSUME IInv, Steady, NEW x \in Shells, InitScript(x), OffOK
  PROVE  Steady'
<1>1. PICK s : s = sh[x].svc /\ Effects(x, s) /\ s \in Services
  BY ScriptEffects, ScriptOfOne
<1>2. phase' # "off"
  BY <1>1, ScriptOfOne DEF OffOK
<1>3. \A p \in term' : proc'[p] # "none"
  BY <1>1, Parts, ServiceAssumption DEF Effects, Steady, DataOK
<1>4. \A p \in Pids : proc'[p] \notin Plain
  BY <1>1 DEF Effects, Steady
<1>5. ASSUME NEW y \in Shells, sh'[y].cmd = "stop"
      PROVE  sh'[y].at \notin {"check", "spawn"}
  <2>1. CASE y # x
    BY <1>1, <1>5, <2>1 DEF Effects, Steady
  <2>2. CASE y = x
    <3>1. sh[x].cmd = "stop" /\ sh[x].at \notin {"check", "spawn"}
      BY <1>1, <1>5, <2>2 DEF Effects, Steady
    <3>2. \/ \E out : Exit(x, out)
          \/ \E at \in {"stopcmd", "rm"} : Goto(x, at)
          \/ sh' = [sh EXCEPT ![x].at = "kill", ![x].pid = pidfile[s]]
      BY <1>1, <3>1 DEF InitScript, CheckRunning, Spawn, ReadPid, StopCmd, Kill, RmPidFile,
         Stopped
    <3>3. CASE \E out : Exit(x, out)
      BY <1>5, <2>2, <3>3, ExitAt
    <3>4. CASE \E at \in {"stopcmd", "rm"} : Goto(x, at)
      BY <2>2, <3>4, GotoAt
    <3>5. CASE sh' = [sh EXCEPT ![x].at = "kill", ![x].pid = pidfile[s]]
      BY <2>2, <3>5, Parts DEF ShellType
    <3> QED
      BY <3>2, <3>3, <3>4, <3>5
  <2> QED
    BY <2>1, <2>2
<1> QED
  BY <1>2, <1>3, <1>4, <1>5 DEF Steady

LEMMA DaemonScript ==
  ASSUME DaemonInv, IInv', NEW x \in Shells, InitScript(x)
  PROVE  Steady' /\ \A t \in Services \ disturbed' : Sound(t)'
<1>1. IInv /\ Steady /\ OffOK
  BY DEF DaemonInv, BootInv
<1>2. PICK s : s = sh[x].svc /\ Effects(x, s) /\ s \in Services
  BY <1>1, ScriptEffects, ScriptOfOne
<1>3. ASSUME NEW t \in Services \ disturbed' PROVE Sound(t)'
  <2>1. Sound(t)
    BY <1>2 DEF DaemonInv, Effects
  <2>2. CASE t = s
    <3>1. Given(x, s)
      BY <1>1, <1>2, <1>3, <2>1, <2>2 DEF Given, Effects
    <3> QED
      BY <2>2, <3>1, ScriptSound
  <2>3. CASE t # s
    <3>1. /\ \A p \in Pids : proc'[p] = t <=> proc[p] = t
          /\ \A p \in Pids : proc[p] = t => (p \in term' <=> p \in term)
          /\ \A p \in Pids : proc[p] = t => (p \in late' <=> p \in late)
          /\ pidfile'[t] = pidfile[t]
      BY <1>1, <1>2, <1>3, <2>3, Elsewhere
    <3>2. ~Past(x, t)'
      <4>1. sh'[x].svc = t => sh'[x].at = "none"
        BY <1>2, <2>3, Parts DEF Effects, IInv, ShellsOK
      <4> QED
        BY <4>1 DEF Past
    <3>3. \A y \in Shells : Past(y, t)' => sh'[y] = sh[y]
      BY <1>2, <3>2 DEF Effects
    <3> QED
      BY <1>1, <2>1, <3>1, <3>3, SoundSame
  <2> QED
    BY <2>2, <2>3
<1> QED
  BY <1>1, <1>3, SteadyScript

\* A step in which daemons end or begin to be other processes, and t's file stays.
LEMMA DaemonsEnd ==
  ASSUME NEW t \in Services, Sound(t), NEW p \in Pids, sh' = sh,
         NEW n \in {"none", "other"}, proc' = [proc EXCEPT ![p] = n],
         proc \in [Pids -> Services \cup {"none", "other"}],
         term' \in {term, term \ {p}}, late' \subseteq late, late \ {p} \subseteq late',
         pidfile'[t] = pidfile[t] \/ NoDaemon(t), term \subseteq Pids, late \subseteq Pids
  PROVE  Sound(t)'
<1>1. /\ \A q \in Pids : proc'[q] = t => proc[q] = t /\ q # p
      /\ \A q \in Pids \ {p} : proc'[q] = proc[q]
  BY ServiceAssumption
<1>2. \A q \in Pids \ term' : proc'[q] = t => q \notin term /\ proc[q] = t
  BY <1>1
<1>3. /\ NoDaemon(t) => NoDaemon(t)'
      /\ NoneLate(t) => NoneLate(t)'
      /\ NoneEnding(t) => NoneEnding(t)'
  BY <1>1, <1>2 DEF NoDaemon, NoneLate, NoneEnding
<1>4. Daemons(t)'
  <2>1. \A q, r \in Pids \ term' : proc'[q] = t /\ proc'[r] = t => q = r
    BY <1>2 DEF Sound, Daemons
  <2>2. \A q \in Pids \ (term' \cup late') : proc'[q] = t => pidfile'[t] = q
    BY <1>1, <1>2 DEF Sound, Daemons, NoDaemon
  <2>3. \A q \in late' \cap term' : proc'[q] # t
    BY <1>1 DEF Sound, Daemons
  <2> QED
    BY <1>3, <2>1, <2>2, <2>3 DEF Sound, Daemons
<1>5. ASSUME NEW y \in Shells, Past(y, t)' PROVE Past(y, t) /\ Found(y, t)'
  <2>1. Past(y, t) /\ Found(y, t)
    BY <1>5 DEF Past, Sound
  <2> QED
    BY <1>2, <1>3, <2>1 DEF Found
<1> QED
  BY <1>4, <1>5 DEF Sound

LEMMA WritePidFileSound ==
  ASSUME NEW t \in Services, Sound(t), NEW p \in Pids, WritePidFile(p),
         proc[p] \in Services, late \subseteq Pids, pidfile \in [Services -> Pids \cup {0}]
  PROVE  Sound(t)'
<1>1. /\ UNCHANGED <<proc, term, sh>> /\ late' = late \ {p} /\ p \in late
      /\ pidfile' = [pidfile EXCEPT ![proc[p]] = p]
  BY DEF WritePidFile
<1>2. Daemons(t)'
  <2>1. ASSUME NEW q \in Pids \ (term' \cup late'), proc'[q] = t PROVE pidfile'[t] = q
    <3>1. q \in Pids \ term /\ proc[q] = t
      BY <1>1, <2>1
    <3>2. CASE proc[p] = t
      <4>1. p \notin term
        BY <1>1, <3>2 DEF Sound, Daemons
      <4>2. q = p
        BY <3>1, <3>2, <4>1 DEF Sound, Daemons
      <4> QED
        BY <1>1, <3>2, <4>2
    <3>3. CASE proc[p] # t
      <4>1. q \notin late /\ pidfile'[t] = pidfile[t]
        BY <1>1, <2>1, <3>1, <3>3
      <4> QED
        BY <3>1, <4>1 DEF Sound, Daemons
    <3> QED
      BY <3>2, <3>3
  <2> QED
    BY <1>1, <2>1 DEF Sound, Daemons, NoneEnding, NoDaemon
<1>3. \A y \in Shells : (Past(y, t)' <=> Past(y, t)) /\ (Found(y, t) => Found(y, t)')
  BY <1>1 DEF Past, Found, NoneLate, NoneEnding, NoDaemon
<1> QED
  BY <1>2, <1>3 DEF Sound

LEMMA DaemonProcess ==
  ASSUME DaemonInv, NEW p \in Pids,
         WritePidFile(p) \/ Terminate(p) \/ Die(p) \/ OtherProcess(p)
  PROVE  Steady' /\ \A t \in Services \ disturbed' : Sound(t)'
<1>1. /\ IInv /\ Steady /\ term \subseteq Pids /\ late \subseteq Pids
      /\ proc \in [Pids -> Services \cup {"none", "other"}]
      /\ pidfile \in [Services -> Pids \cup {0}]
      /\ \A q \in late : proc[q] \in Services
  BY Parts DEF DaemonInv, BootInv, DataOK, LateOK
<1>2. /\ UNCHANGED <<sh, phase, disturbed, on>>
      /\ \A t \in Services \ disturbed : Sound(t)
  BY DEF WritePidFile, Terminate, Die, OtherProcess, machine, history, DaemonInv
<1>3. phase # "off"
  <2> SUFFICES ASSUME phase = "off" PROVE FALSE
    OBVIOUS
  <2>1. proc[p] = "none" /\ p \notin late /\ p \notin term
    BY <1>1, ServiceAssumption DEF Steady
  <2> QED
    BY <2>1, ServiceAssumption DEF WritePidFile, Terminate, Die, OtherProcess
<1>4. CASE WritePidFile(p)
  <2>1. Steady'
    BY <1>1, <1>2, <1>4 DEF WritePidFile, Steady
  <2> QED
    BY <1>1, <1>2, <1>4, <2>1, WritePidFileSound DEF WritePidFile
<1>5. CASE Terminate(p) \/ Die(p) \/ OtherProcess(p)
  <2>1. PICK n \in {"none", "other"} : proc' = [proc EXCEPT ![p] = n] /\ (n = "none" => p \notin term')
    BY <1>1, <1>5, ServiceAssumption DEF Terminate, Die, OtherProcess, Free, Steady
  <2>2. /\ term' \in {term, term \ {p}} /\ late' \subseteq late /\ late \ {p} \subseteq late'
    BY <1>5 DEF Terminate, Die, OtherProcess
  <2>3. Steady'
    <3>1. \A q \in term' : proc'[q] # "none"
      BY <1>1, <2>1, <2>2 DEF Steady
    <3>2. \A q \in Pids : proc'[q] \notin Plain
      BY <1>1, <2>1, ServiceAssumption DEF Steady
    <3> QED
      BY <1>1, <1>2, <1>3, <3>1, <3>2 DEF Steady
  <2>4. ASSUME NEW t \in Services \ disturbed' PROVE Sound(t)'
    <3>1. Sound(t)
      BY <1>2
    <3>2. pidfile'[t] = pidfile[t] \/ NoDaemon(t)
      <4>1. CASE Terminate(p)
        <5>1. CASE proc[p] = t /\ t \in Removing
          BY <3>1, <4>1, <5>1 DEF Terminate, Sound, Daemons, NoneEnding
        <5>2. CASE ~(proc[p] = t /\ t \in Removing)
          BY <1>1, <4>1, <5>2 DEF Terminate
        <5> QED
          BY <5>1, <5>2
      <4> QED
        BY <1>5, <4>1 DEF Die, OtherProcess
    <3> QED
      BY <1>1, <1>2, <2>1, <2>2, <3>1, <3>2, DaemonsEnd
  <2> QED
    BY <2>3, <2>4
<1> QED
  BY <1>4, <1>5

\* The machine is off, or has been switched on: no process and no script is there.
LEMMA NothingRuns ==
  ASSUME \A p \in Pids : proc[p] = "none", term = {}, late = {}, on = {},
         \A x \in Shells : sh[x].at = "none"
  PROVE  Steady /\ \A t \in Services : Sound(t)
  BY ServiceAssumption
     DEF Steady, Sound, Daemons, Past, NoneEnding

LEMMA DaemonOff ==
  ASSUME Off
  PROVE  Steady' /\ \A t \in Services \ disturbed' : Sound(t)'
<1>1. /\ \A p \in Pids : proc'[p] = "none"
      /\ term' = {} /\ late' = {} /\ on' = {}
      /\ \A x \in Shells : sh'[x].at = "none"
  BY DEF Off, Idle
<1>2. Steady'
  BY <1>1, ServiceAssumption DEF Steady
<1>3. \A t \in Services : Sound(t)'
  BY <1>1, ServiceAssumption DEF Sound, Daemons, Past, NoneEnding
<1> QED
  BY <1>2, <1>3

LEMMA DaemonBoot ==
  ASSUME DaemonInv, Boot
  PROVE  Steady' /\ \A t \in Services \ disturbed' : Sound(t)'
<1>1. /\ \A p \in Pids : proc'[p] = "none"
      /\ term' = {} /\ late' = {} /\ on' = {}
      /\ \A x \in Shells : sh'[x].at = "none"
  <2>1. /\ IInv /\ phase = "off" /\ UNCHANGED <<proc, term, late, on, sh>>
    BY DEF Boot, processes, DaemonInv, BootInv
  <2>2. term = {} /\ on = {} /\ \A p \in Pids : proc[p] = "none"
    BY <2>1 DEF DaemonInv, BootInv, OffOK, Steady
  <2>3. late = {}
    BY <2>1, <2>2, Parts, ServiceAssumption DEF DataOK, LateOK
  <2>4. \A x \in Shells : sh[x].at = "none"
    BY <2>1, Parts DEF DaemonInv, BootInv, OffOK, ShellsOK
  <2> QED
    BY <2>1, <2>2, <2>3, <2>4
<1>2. Steady'
  BY <1>1, ServiceAssumption DEF Steady
<1>3. \A t \in Services : Sound(t)'
  BY <1>1, ServiceAssumption DEF Sound, Daemons, Past, NoneEnding
<1> QED
  BY <1>2, <1>3

\* Commands, and the steps of rc and rc.shutdown: they begin scripts.
LEMMA DaemonBegins ==
  ASSUME DaemonInv, UNCHANGED processes, disturbed' = disturbed,
         phase' = "off" => phase = "off",
         \A x \in Shells : sh'[x] = sh[x] \/ Begun(sh'[x])
  PROVE  Steady' /\ \A t \in Services \ disturbed' : Sound(t)'
<1>1. UNCHANGED <<proc, term, late, pidfile, on>>
  BY DEF processes
<1>2. \A x \in Shells : sh'[x].cmd = "stop" => sh'[x].at \notin {"check", "spawn"}
  BY DEF DaemonInv, Steady, Begun
<1>3. Steady'
  BY <1>1, <1>2 DEF DaemonInv, Steady
<1>4. ASSUME NEW t \in Services \ disturbed' PROVE Sound(t)'
  <2>1. Sound(t)
    BY <1>4 DEF DaemonInv
  <2>2. \A x \in Shells : Past(x, t)' => sh'[x] = sh[x] /\ Past(x, t)
    BY DEF Past, Begun
  <2>3. Daemons(t)'
    BY <1>1, <2>1, DaemonsSame DEF Sound
  <2>4. \A x \in Shells : Past(x, t)' => Found(x, t)'
    BY <1>1, <2>1, <2>2 DEF Sound, Found, NoDaemon, NoneLate, NoneEnding
  <2> QED
    BY <2>1, <2>2, <2>3, <2>4 DEF Sound
<1> QED
  BY <1>3, <1>4

LEMMA DaemonNext ==
  ASSUME DaemonInv, [Next]_vars
  PROVE  DaemonInv'
<1> DEFINE Goal == Steady' /\ \A t \in Services \ disturbed' : Sound(t)'
<1>0. IInv
  BY DEF DaemonInv, BootInv
<1>1. BootInv'
  BY <1>0, NextGood, OffNext, BootNext DEF DaemonInv, BootInv
<1>2. ASSUME NEW x \in Shells, InitScript(x) PROVE Goal
  BY <1>1, <1>2, DaemonScript DEF BootInv
<1>3. ASSUME NEW x \in Admins, NEW s \in Services, NEW c \in Commands, Service(x, s, c)
      PROVE  Goal
  <2>1. UNCHANGED <<processes, phase, disturbed>>
    BY <1>3 DEF Service, machine
  <2>2. \A y \in Shells : sh'[y] = sh[y] \/ Begun(sh'[y])
    BY <1>0, <1>3, BeginAt, RcIsAShell DEF Service
  <2> QED
    BY <2>1, <2>2, DaemonBegins
<1>4. ASSUME RcService PROVE Goal
  <2>1. UNCHANGED <<processes, phase, disturbed>>
    BY <1>4 DEF RcService, history
  <2>2. \A y \in Shells : sh'[y] = sh[y] \/ Begun(sh'[y])
    <3>1. ASSUME NEW s, NEW c, Begin("rc", s, c)
          PROVE  \A y \in Shells : sh'[y] = sh[y] \/ Begun(sh'[y])
      BY <3>1, <1>0, BeginAt, RcIsAShell
    <3> QED
      BY <3>1, <1>4 DEF RcService
  <2> QED
    BY <2>1, <2>2, DaemonBegins
<1>5. ASSUME RcLocal \/ Shutdown PROVE Goal
  BY <1>5, DaemonBegins DEF RcLocal, Shutdown, history
<1>6. ASSUME Halt \/ PowerLoss PROVE Goal
  BY <1>6, DaemonOff DEF Halt, PowerLoss
<1>7. ASSUME \/ \E s \in Services, n \in Priorities : NewPriority(s, n)
             \/ UNCHANGED vars
      PROVE  Goal
  BY <1>7, DaemonBegins DEF NewPriority, vars, machine, history
<1>8. Goal
  BY <1>2, <1>3, <1>4, <1>5, <1>6, <1>7, DaemonProcess, DaemonBoot DEF Next, Rc
<1> QED
  BY <1>1, <1>8 DEF DaemonInv

LEMMA DaemonInit == Init => DaemonInv
<1> SUFFICES ASSUME Init PROVE DaemonInv
  OBVIOUS
<1>1. \A x \in Shells : sh[x].at = "none"
  BY DEF Init, Idle
<1> QED
  BY <1>1, NothingRuns, BootInit DEF DaemonInv, Init

-----------------------------------------------------------------------------
(* Theorems *)

\* For any services, administrators, crashes and process ids: while the commands for a
\* service have taken effect when its script looks at the pid file, and no other script
\* signals its daemon, cc_start never starts a second one.
THEOREM One == Spec => []OneDaemon
<1>1. DaemonInv => OneDaemon
  BY DEF DaemonInv, Sound, Daemons, OneDaemon
<1>2. DaemonInv /\ [Next]_vars => DaemonInv'
  BY DaemonNext
<1> QED
  BY <1>1, <1>2, DaemonInit, PTL DEF Spec

\* Of the same services the pid file names the daemon, once it has written it.
THEOREM KnownDaemon == Spec => []DaemonIsKnown
<1>1. DaemonInv => DaemonIsKnown
  BY DEF DaemonInv, Sound, Daemons, DaemonIsKnown
<1>2. DaemonInv /\ [Next]_vars => DaemonInv'
  BY DaemonNext
<1> QED
  BY <1>1, <1>2, DaemonInit, PTL DEF Spec

StopsStep ==
  \A x \in Shells, s \in Services \ disturbed' :
    sh[x].svc = s /\ sh[x].cmd = "stop" /\ sh'[x].cmd = "none" /\ sh'[x].out = "ok"
      => ~Running(s)'

\* Only a script's step, or the end of the machine, ends a stop.
LEMMA StopEnds ==
  ASSUME IInv, [Next]_vars, NEW x \in Shells, sh[x].cmd = "stop", sh'[x].cmd = "none"
  PROVE  InitScript(x) \/ Off
<1>1. sh'[x] # sh[x]
  OBVIOUS
<1>2. ASSUME NEW y \in Shells, InitScript(y) PROVE InitScript(x)
  BY <1>1, <1>2, ScriptOfOne
<1>3. ASSUME NEW y \in Admins, NEW t \in Services, NEW c \in Commands, Service(y, t, c)
      PROVE  FALSE
  <2>1. x # y
    BY <1>3 DEF Service
  <2> QED
    BY <2>1, <1>1, <1>3, BeginAt, RcIsAShell DEF Service
<1>4. CASE RcService
  <2>1. x # "rc"
    BY <1>4 DEF RcService
  <2>2. ASSUME NEW s, NEW c, Begin("rc", s, c) PROVE FALSE
    BY <2>1, <2>2, <1>1, BeginAt, RcIsAShell
  <2> QED
    BY <2>2, <1>1, <1>4 DEF RcService
<1>5. ~(Boot \/ RcLocal \/ Shutdown)
  BY <1>1 DEF Boot, RcLocal, Shutdown
<1>6. ASSUME NEW p \in Pids, WritePidFile(p) \/ Terminate(p) \/ Die(p) \/ OtherProcess(p)
      PROVE  FALSE
  BY <1>1, <1>6 DEF WritePidFile, Terminate, Die, OtherProcess
<1>7. ~(\E s \in Services, n \in Priorities : NewPriority(s, n)) /\ ~UNCHANGED vars
  BY <1>1 DEF NewPriority, vars
<1> QED
  BY <1>2, <1>3, <1>4, <1>5, <1>6, <1>7 DEF Next, Rc, Halt, PowerLoss

LEMMA StopsNext ==
  ASSUME DaemonInv, [Next]_vars
  PROVE  StopsStep
<1> SUFFICES ASSUME NEW x \in Shells, NEW s \in Services \ disturbed',
                    sh[x].svc = s, sh[x].cmd = "stop",
                    sh'[x].cmd = "none", sh'[x].out = "ok"
             PROVE  ~Running(s)'
  BY DEF StopsStep
<1>1. /\ IInv /\ Steady /\ sh \in [Shells -> ShellType] /\ on \subseteq Plain
      /\ pidfile \in [Services -> Pids \cup {0}]
      /\ sh[x].at \notin {"check", "spawn"}
  BY Parts DEF DaemonInv, BootInv, DataOK, Steady
<1>2. CASE Off
  BY <1>2, ServiceAssumption DEF Off, Running
<1>3. CASE InitScript(x)
  <2>1. s \notin disturbed /\ Sound(s) /\ Given(x, s)
    BY <1>1, <1>3, ScriptGoes DEF DaemonInv, Given
  <2>2. ~Exit(x, "failed") /\ \A at : ~Goto(x, at)
    BY <1>1, GotoAt, ExitAt
  <2>3. CASE ReadPid(x)
    <3>1. s \notin Plain /\ pidfile[s] = 0
      BY <1>1, <2>2, <2>3 DEF ReadPid, ShellType
    <3>2. UNCHANGED <<proc, term, on>> /\ Settled(x, s)
      BY <2>3 DEF ReadPid, processes, Look
    <3>3. NoDaemon(s)
      BY <2>1, <3>1, <3>2, SettledFile, ServiceAssumption DEF NoDaemon
    <3> QED
      BY <1>1, <3>1, <3>2, <3>3 DEF Running, NoDaemon
  <2>4. CASE StopCmd(x)
    <3>1. Past(x, s) /\ sh[x].at = "stopcmd"
      BY <2>4 DEF StopCmd, Past
    <3>2. s \in Plain
      BY <2>1, <3>1 DEF Sound, Found
    <3>3. on' = on \ {s} /\ UNCHANGED <<proc, term>>
      BY <2>2, <2>4 DEF StopCmd
    <3> QED
      BY <1>1, <3>2, <3>3 DEF Running, Steady
  <2>5. CASE RmPidFile(x)
    <3>1. Past(x, s) /\ sh[x].at = "rm"
      BY <2>5 DEF RmPidFile, Past
    <3>2. s \notin Plain /\ NoDaemon(s)
      BY <2>1, <3>1 DEF Sound, Found
    <3>3. UNCHANGED <<proc, term, on>>
      BY <2>5 DEF RmPidFile
    <3> QED
      BY <1>1, <3>2, <3>3 DEF Running, NoDaemon
  <2>6. ~Kill(x)
    BY <2>2 DEF Kill
  <2> QED
    BY <1>1, <1>3, <2>3, <2>4, <2>5, <2>6 DEF InitScript, CheckRunning, Spawn
<1> QED
  BY <1>1, <1>2, <1>3, StopEnds

\* When stop reports success for such a service, its daemon has the signal or is gone,
\* or the plain service is stopped: an empty pid file means that nothing runs.
THEOREM Stops == Spec => StopStops
<1>1. DaemonInv /\ [Next]_vars => DaemonInv'
  BY DaemonNext
<1>2. DaemonInv /\ [Next]_vars => [StopsStep]_vars
  BY StopsNext
<1> QED
  BY <1>1, <1>2, DaemonInit, PTL DEF Spec, StopStops, StopsStep

-----------------------------------------------------------------------------
(* The order of the services *)

\* The services that the order says nothing of.
Left == excused \cup disturbed

\* What administrators command is excused.
Meant == \A x \in Admins : sh[x].cmd # "none" => sh[x].svc \in excused

\* rc has ended when the machine is up, and rc.shutdown only stops.
RcKnows ==
  /\ phase = "up" => sh["rc"].cmd = "none"
  /\ phase = "shutdown" => sh["rc"].cmd \in {"none", "stop"}

ScriptsInv == DaemonInv /\ Meant /\ RcKnows

Handles(s) == sh["rc"].cmd # "none" /\ sh["rc"].svc = s

\* rc only looks and starts, at boot; rc.shutdown only stops.
LEMMA RcPhase ==
  ASSUME ScriptsInv, InitScript("rc")
  PROVE  /\ phase \in {"boot", "shutdown"} /\ Handles(sh["rc"].svc)
         /\ sh["rc"].svc \in Services
         /\ phase = "boot" => sh["rc"].cmd = "start" /\ sh["rc"].at \in {"check", "spawn"}
         /\ phase = "shutdown" => sh["rc"].cmd = "stop" /\ sh["rc"].at \notin {"check", "spawn"}
<1>1. IInv /\ "rc" \in Shells
  BY RcIsAShell DEF ScriptsInv, DaemonInv, BootInv
<1>2. sh["rc"].cmd # "none" /\ sh["rc"].svc \in Services
  BY <1>1, ScriptOfOne
<1>3. phase \in {"boot", "shutdown"}
  BY <1>1, <1>2, Parts DEF ScriptsInv, DaemonInv, BootInv, OffOK, RcKnows, DataOK
<1>4. phase = "boot" => sh["rc"].cmd = "start" /\ sh["rc"].at \in {"check", "spawn"}
  BY <1>1, <1>2, Parts DEF ScriptsInv, DaemonInv, BootInv, BootOK, ShellsOK
<1>5. phase = "shutdown" => sh["rc"].cmd = "stop" /\ sh["rc"].at \notin {"check", "spawn"}
  BY <1>1, <1>2 DEF ScriptsInv, DaemonInv, RcKnows, Steady
<1> QED
  BY <1>2, <1>3, <1>4, <1>5 DEF Handles

Wanted(s) == IF phase = "boot" THEN Running(s) ELSE ~Running(s)

\* What a step of rc's script has to give for the service it handles: where it ends,
\* the service runs at boot, and does not at shutdown.
Hands(s) == (Wanted(s) => Wanted(s)') /\ (Handles(s)' \/ Wanted(s)')

LEMMA RcStarts ==
  ASSUME ScriptsInv, InitScript("rc"), phase = "boot", NEW s \in Services,
         s = sh["rc"].svc, s \notin Left'
  PROVE  Hands(s)
<1>1. /\ IInv /\ "rc" \in Shells /\ term = {} /\ Handles(s) /\ phase' = "boot"
      /\ on \subseteq Plain /\ pidfile \in [Services -> Pids \cup {0}]
      /\ proc \in [Pids -> Services \cup {"none", "other"}]
  BY RcIsAShell, ScriptGoes, RcPhase, Parts
     DEF ScriptsInv, DaemonInv, BootInv, BootOK, DataOK
<1>2. CASE CheckRunning("rc")
  <2>1. Running(s)' <=> Running(s)
    BY <1>2 DEF CheckRunning, processes, Running
  <2>2. CASE s \notin Plain /\ Alive(pidfile[s]) /\ Exit("rc", "ok")
    <3>1. proc[pidfile[s]] = s /\ pidfile[s] \in Pids
      BY <1>1, <1>2, <2>2 DEF CheckRunning, Mistaken, Alive, Left
    <3>2. Running(s)'
      BY <1>1, <2>1, <3>1 DEF Running
    <3> QED
      BY <1>1, <3>2 DEF Hands, Wanted
  <2>3. CASE Goto("rc", "spawn")
    <3>1. sh'["rc"].svc = s /\ sh'["rc"].cmd = sh["rc"].cmd
      BY <1>1, <2>3, GotoAt
    <3> QED
      BY <1>1, <2>1, <3>1 DEF Hands, Wanted, Handles
  <2> QED
    BY <1>2, <2>2, <2>3 DEF CheckRunning
<1>3. CASE Spawn("rc")
  <2>1. CASE on' = on \cup {s}
    BY <1>1, <2>1 DEF Hands, Wanted, Running
  <2>2. ASSUME NEW p \in Free, proc' = [proc EXCEPT ![p] = s]
        PROVE  Hands(s)
    <3>1. p \in Pids /\ proc'[p] = s /\ p \notin term'
      BY <1>1, <1>3, <2>2 DEF Spawn, Free
    <3> QED
      BY <1>1, <3>1 DEF Hands, Wanted, Running
  <2> QED
    BY <1>3, <2>1, <2>2 DEF Spawn, Left
<1> QED
  BY <1>1, <1>2, <1>3, RcPhase DEF InitScript, ReadPid, StopCmd, Kill, RmPidFile

LEMMA RcStops ==
  ASSUME ScriptsInv, InitScript("rc"), phase = "shutdown", NEW s \in Services,
         s = sh["rc"].svc, s \notin Left'
  PROVE  Hands(s)
<1>1. /\ IInv /\ "rc" \in Shells /\ Handles(s) /\ on \subseteq Plain /\ Steady
      /\ phase' = "shutdown" /\ sh["rc"].cmd = "stop"
      /\ sh["rc"].at \notin {"check", "spawn"}
  BY RcIsAShell, ScriptGoes, RcPhase, Parts DEF ScriptsInv, DaemonInv, BootInv, DataOK
<1>2. Sound(s) /\ Given("rc", s) /\ s \notin disturbed'
  BY <1>1, ScriptGoes DEF ScriptsInv, DaemonInv, Given, Left
<1>3. Wanted(s) => Wanted(s)'
  <2>1. on' \subseteq on /\ proc' = proc /\ term \subseteq term'
    BY <1>1 DEF InitScript, CheckRunning, Spawn, ReadPid, StopCmd, Kill, RmPidFile, processes
  <2> QED
    BY <1>1, <2>1 DEF Wanted, Running
<1>4. ASSUME NEW at, Goto("rc", at) PROVE Handles(s)'
  BY <1>1, <1>4, GotoAt DEF Handles
<1>5. CASE ReadPid("rc")
  <2>1. UNCHANGED <<proc, term, on>> /\ Settled("rc", s)
    BY <1>2, <1>5 DEF ReadPid, processes, Look
  <2>2. CASE s \notin Plain /\ pidfile[s] = 0
    <3>1. NoDaemon(s)
      BY <1>2, <2>1, <2>2, SettledFile, ServiceAssumption DEF NoDaemon
    <3>2. Wanted(s)'
      BY <1>1, <2>1, <2>2, <3>1 DEF Wanted, Running, NoDaemon
    <3> QED
      BY <1>3, <3>2 DEF Hands
  <2>3. CASE sh' = [sh EXCEPT !["rc"].at = "kill", !["rc"].pid = pidfile[s]]
    <3>1. sh'["rc"].svc = s /\ sh'["rc"].cmd = sh["rc"].cmd
      BY <1>1, <1>2, <2>3, Parts DEF ShellType, Given
    <3> QED
      BY <1>1, <1>3, <3>1 DEF Hands, Handles
  <2> QED
    BY <1>2, <1>3, <1>4, <1>5, <2>2, <2>3 DEF ReadPid, Hands
<1>6. CASE StopCmd("rc")
  <2>1. Past("rc", s) /\ sh["rc"].at = "stopcmd"
    BY <1>6 DEF StopCmd, Past
  <2>2. s \in Plain
    BY <1>1, <1>2, <2>1 DEF Sound, Found
  <2>3. UNCHANGED <<proc, term>> /\ on' = on \ {s}
    BY <1>6 DEF StopCmd, Left
  <2>4. Wanted(s)'
    BY <1>1, <2>2, <2>3 DEF Wanted, Running, Steady
  <2> QED
    BY <1>3, <2>4 DEF Hands
<1>7. CASE Kill("rc")
  <2>1. Past("rc", s) /\ sh["rc"].at = "kill"
    BY <1>7 DEF Kill, Past
  <2>2. /\ UNCHANGED <<proc, on>> /\ s \notin Plain
        /\ \A p \in Pids \ term : proc[p] = s => p = sh["rc"].pid
    BY <1>1, <1>2, <1>7, <2>1 DEF Kill, Sound, Found
  <2>3. CASE Alive(sh["rc"].pid)
    BY <1>3, <1>4, <1>7, <2>3 DEF Kill, Hands
  <2>4. CASE ~Alive(sh["rc"].pid)
    <3>1. term' = term
      BY <1>7, <2>4 DEF Kill
    <3>2. Wanted(s)'
      BY <1>1, <2>2, <2>4, <3>1, ServiceAssumption DEF Wanted, Running, Alive
    <3> QED
      BY <1>3, <3>2 DEF Hands
  <2> QED
    BY <2>3, <2>4
<1>8. CASE RmPidFile("rc")
  <2>1. Past("rc", s) /\ sh["rc"].at = "rm"
    BY <1>8 DEF RmPidFile, Past
  <2>2. UNCHANGED <<proc, term, on>> /\ s \notin Plain /\ NoDaemon(s)
    BY <1>1, <1>2, <1>8, <2>1 DEF RmPidFile, Sound, Found
  <2>3. Wanted(s)'
    BY <1>1, <2>2 DEF Wanted, Running, NoDaemon
  <2> QED
    BY <1>3, <2>3 DEF Hands
<1> QED
  BY <1>1, <1>5, <1>6, <1>7, <1>8 DEF InitScript, CheckRunning, Spawn

LEMMA ScriptsNext ==
  ASSUME ScriptsInv, [Next]_vars
  PROVE  ScriptsInv'
<1>1. IInv /\ DaemonInv'
  BY DaemonNext DEF ScriptsInv, DaemonInv, BootInv
<1> SUFFICES Meant' /\ RcKnows'
  BY <1>1 DEF ScriptsInv
<1>2. ASSUME NEW x \in Shells, InitScript(x) PROVE Meant' /\ RcKnows'
  <2>1. /\ \A y \in Shells \ {x} : sh'[y] = sh[y]
        /\ sh'[x].cmd = "none" \/ (sh'[x].cmd = sh[x].cmd /\ sh'[x].svc = sh[x].svc)
        /\ phase' = phase /\ excused \subseteq excused'
    BY <1>1, <1>2, ScriptGoes
  <2>2. Meant'
    BY <2>1, RcIsAShell DEF ScriptsInv, Meant
  <2>3. sh'["rc"].cmd \in {"none", sh["rc"].cmd}
    BY <2>1, RcIsAShell
  <2> QED
    BY <2>1, <2>2, <2>3 DEF ScriptsInv, RcKnows
<1>3. ASSUME NEW x \in Admins, NEW s \in Services, NEW c \in Commands, Service(x, s, c)
      PROVE  Meant' /\ RcKnows'
  <2>1. excused' = excused \cup {s} /\ phase' = phase
    BY <1>3 DEF Service, machine
  <2>2. CASE c \in {"start", "stop", "restart"} /\ Begin(x, s, c)
    <3>1. sh'[x].svc = s /\ \A y \in Shells \ {x} : sh'[y] = sh[y]
      BY <1>1, <2>2, BeginShell, RcIsAShell
    <3> QED
      BY <2>1, <3>1, RcIsAShell DEF ScriptsInv, Meant, RcKnows
  <2>3. CASE UNCHANGED sh
    BY <2>1, <2>3 DEF ScriptsInv, Meant, RcKnows
  <2> QED
    BY <1>3, <2>2, <2>3 DEF Service
<1>4. CASE RcService
  <2>1. PICK l \in todo : \/ Begin("rc", l[2], IF phase = "boot" THEN "start" ELSE "stop")
                          \/ UNCHANGED sh
    BY <1>4 DEF RcService
  <2>2. /\ UNCHANGED <<phase, excused>> /\ phase \in {"boot", "shutdown"}
        /\ l[2] \in Services /\ sh \in [Shells -> ShellType]
    BY <1>1, <1>4, Parts DEF RcService, history, DataOK, Links
  <2>3. CASE Begin("rc", l[2], IF phase = "boot" THEN "start" ELSE "stop")
    <3>1. /\ \A y \in Shells \ {"rc"} : sh'[y] = sh[y]
          /\ sh'["rc"].cmd = IF phase = "boot" THEN "start" ELSE "stop"
      BY <2>2, <2>3, RcIsAShell DEF Begin
    <3> QED
      BY <2>2, <3>1, RcIsAShell DEF ScriptsInv, Meant, RcKnows
  <2>4. CASE UNCHANGED sh
    BY <2>2, <2>4 DEF ScriptsInv, Meant, RcKnows
  <2> QED
    BY <2>1, <2>3, <2>4
<1>5. CASE Boot
  <2>1. sh' = sh /\ phase' = "boot" /\ \A x \in Shells : sh[x].cmd = "none"
    BY <1>5 DEF Boot, ScriptsInv, DaemonInv, BootInv, OffOK
  <2> QED
    BY <2>1, RcIsAShell DEF Meant, RcKnows
<1>6. CASE RcLocal \/ Shutdown
  BY <1>6 DEF RcLocal, Shutdown, history, ScriptsInv, Meant, RcKnows
<1>7. CASE Halt \/ PowerLoss
  <2>1. phase' = "off" /\ \A x \in Shells : sh'[x].cmd = "none"
    BY <1>7 DEF Halt, PowerLoss, Off, Idle
  <2> QED
    BY <2>1, RcIsAShell DEF Meant, RcKnows
<1>8. CASE UNCHANGED <<sh, phase>> /\ excused \subseteq excused'
  BY <1>8 DEF ScriptsInv, Meant, RcKnows
<1>9. ASSUME NEW p \in Pids, WritePidFile(p) \/ Terminate(p) \/ Die(p) \/ OtherProcess(p)
      PROVE  UNCHANGED <<sh, phase>> /\ excused \subseteq excused'
  BY <1>9 DEF WritePidFile, Terminate, Die, OtherProcess, machine, history
<1>10. ASSUME \/ \E s \in Services, n \in Priorities : NewPriority(s, n)
              \/ UNCHANGED vars
       PROVE  UNCHANGED <<sh, phase>> /\ excused \subseteq excused'
  BY <1>10 DEF NewPriority, vars, machine, history
<1> QED
  BY <1>2, <1>3, <1>4, <1>5, <1>6, <1>7, <1>8, <1>9, <1>10 DEF Next, Rc

\* The order in which rc, or rc.shutdown, comes to the links.
First(l, m) == IF phase = "boot" THEN Before(l, m) ELSE Before(m, l)

\* Of the services that are not left out: what is done came before what is to do;
\* what is as rc wants it, or is at it, has been come to; and of those that have,
\* at most the last is not as rc wants it, which is at it.
Ordered ==
  phase \in {"boot", "shutdown"} =>
    /\ \A k \in links \ todo, m \in todo : k[2] \notin Left => ~First(m, k)
    /\ \A l \in links : l[2] \notin Left /\ (Wanted(l[2]) \/ Handles(l[2])) =>
         \E k \in links \ todo : k[2] = l[2]
    /\ \A m \in links \ todo : m[2] \notin Left /\ ~Wanted(m[2]) =>
         /\ Handles(m[2])
         /\ \A k \in links \ todo : k[2] \notin Left => ~First(m, k)

\* When rc has ended, what is enabled runs.
UpOK == phase = "up" => \A l \in links : Running(l[2]) \/ l[2] \in Left

OrderInv == ScriptsInv /\ Ordered /\ UpOK

\* A step that rc's list has no part in: the links of a service that is not left out
\* stay or go together, and it begins or ends only where rc handles it.
Calm ==
  /\ UNCHANGED <<phase, todo>> /\ Left \subseteq Left'
  /\ \A l \in links' : l \in links \/ l[2] \in Left'
  /\ \A l \in links, m \in links' : l[2] = m[2] => l \in links' \/ l[2] \in Left'
  /\ \A s \in Services \ Left' :
       /\ ~Handles(s) => (Running(s)' <=> Running(s)) /\ ~Handles(s)'
       /\ Handles(s) => (Wanted(s) => Wanted(s)') /\ (Handles(s)' \/ Wanted(s)')

LEMMA CalmOrdered ==
  ASSUME OrderInv, Calm, links' \subseteq Priorities \X Services
  PROVE  Ordered' /\ UpOK'
<1>1. UpOK'
  <2> SUFFICES ASSUME phase = "up", NEW l \in links', l[2] \notin Left'
               PROVE  Running(l[2])'
    BY DEF UpOK, Calm
  <2>1. l \in links /\ l[2] \in Services \ Left' /\ l[2] \notin Left
    BY DEF Calm
  <2>2. ~Handles(l[2])
    BY DEF OrderInv, ScriptsInv, RcKnows, Handles
  <2> QED
    BY <2>1, <2>2 DEF OrderInv, UpOK, Calm
<1>2. Ordered'
  <2> SUFFICES ASSUME phase \in {"boot", "shutdown"} PROVE Ordered'
    BY DEF Calm, Ordered
  <2>1. \A l, m : First(l, m)' <=> First(l, m)
    BY DEF First, Calm, Before
  <2>2. \A l \in links' : l[2] \notin Left' =>
           l \in links /\ l[2] \in Services \ Left' /\ l[2] \notin Left
    BY DEF Calm
  <2>3. \A k \in links' \ todo', m \in todo' : k[2] \notin Left' => ~First(m, k)'
    BY <2>1, <2>2 DEF OrderInv, Ordered, Calm
  <2>4. ASSUME NEW l \in links', l[2] \notin Left', Wanted(l[2])' \/ Handles(l[2])'
        PROVE  \E k \in links' \ todo' : k[2] = l[2]
    <3>1. l \in links /\ l[2] \in Services \ Left' /\ l[2] \notin Left
      BY <2>2, <2>4
    <3>2. Wanted(l[2]) \/ Handles(l[2])
      BY <2>4, <3>1 DEF Calm, Wanted
    <3>3. PICK k \in links \ todo : k[2] = l[2]
      BY <3>1, <3>2 DEF OrderInv, Ordered
    <3>4. k \in links' \ todo'
      BY <2>4, <3>3 DEF Calm
    <3> QED
      BY <3>3, <3>4
  <2>5. ASSUME NEW m \in links' \ todo', m[2] \notin Left', ~Wanted(m[2])'
        PROVE  /\ Handles(m[2])'
               /\ \A k \in links' \ todo' : k[2] \notin Left' => ~First(m, k)'
    <3>1. m \in links \ todo /\ m[2] \in Services \ Left' /\ m[2] \notin Left
      BY <2>2, <2>5 DEF Calm
    <3>2. ~Wanted(m[2])
      BY <2>5, <3>1 DEF Calm, Wanted
    <3>3. Handles(m[2]) /\ \A k \in links \ todo : k[2] \notin Left => ~First(m, k)
      BY <3>1, <3>2 DEF OrderInv, Ordered
    <3>4. Handles(m[2])'
      BY <2>5, <3>1, <3>3 DEF Calm
    <3>5. \A k \in links' \ todo' : k[2] \notin Left' => ~First(m, k)'
      BY <2>1, <2>2, <3>3 DEF Calm
    <3> QED
      BY <3>4, <3>5
  <2> QED
    BY <2>3, <2>4, <2>5 DEF Ordered
<1> QED
  BY <1>1, <1>2

LEMMA ScriptCalm ==
  ASSUME ScriptsInv, NEW x \in Shells, InitScript(x)
  PROVE  Calm
<1> PICK s : s = sh[x].svc
  OBVIOUS
<1>1. IInv /\ s \in Services /\ Effects(x, s)
  BY ScriptEffects, ScriptOfOne DEF ScriptsInv, DaemonInv, BootInv
<1>2. /\ UNCHANGED <<phase, todo, links>> /\ Left \subseteq Left'
      /\ \A t \in Services \ (Left' \cup {s}) : Running(t)' <=> Running(t)
      /\ \A y \in Shells \ {x} : sh'[y] = sh[y]
      /\ sh'[x].cmd = "none" \/ (sh'[x].cmd = sh[x].cmd /\ sh'[x].svc = s)
  BY <1>1, Elsewhere DEF Effects, Left
<1>3. CASE x = "rc"
  <2>1. s \notin Left' => Hands(s)
    BY <1>1, <1>3, RcPhase, RcStarts, RcStops
  <2>2. Handles(s) /\ \A t \in Services \ {s} : ~Handles(t) /\ ~Handles(t)'
    BY <1>2, <1>3, RcPhase DEF Handles
  <2>3. ASSUME NEW t \in Services \ Left'
        PROVE  /\ ~Handles(t) => (Running(t)' <=> Running(t)) /\ ~Handles(t)'
               /\ Handles(t) => (Wanted(t) => Wanted(t)') /\ (Handles(t)' \/ Wanted(t)')
    <3>1. CASE t = s
      BY <2>1, <2>2, <3>1 DEF Hands
    <3>2. CASE t # s
      BY <1>2, <2>2, <3>2
    <3> QED
      BY <3>1, <3>2
  <2> QED
    BY <1>2, <2>3 DEF Calm
<1>4. CASE x # "rc"
  <2>1. s \in Left' /\ sh'["rc"] = sh["rc"]
    <3>1. s \in excused
      BY <1>1, <1>4, ScriptOfOne, RcIsAShell DEF ScriptsInv, Meant
    <3> QED
      BY <1>2, <1>4, <3>1, RcIsAShell DEF Left
  <2>2. \A t \in Services \ Left' :
           /\ Running(t)' <=> Running(t)
           /\ Handles(t)' <=> Handles(t)
           /\ Wanted(t)' <=> Wanted(t)
    BY <1>2, <2>1 DEF Handles, Wanted
  <2> QED
    BY <1>2, <2>2 DEF Calm
<1> QED
  BY <1>3, <1>4

\* A step that neither touches rc's shell nor begins or ends a service that is not
\* left out.
LEMMA OtherCalm ==
  ASSUME UNCHANGED <<phase, todo>>, Left \subseteq Left', sh'["rc"] = sh["rc"],
         \A s \in Services \ Left' : Running(s)' <=> Running(s),
         \A l \in links' : l \in links \/ l[2] \in Left',
         \A l \in links, m \in links' : l[2] = m[2] => l \in links' \/ l[2] \in Left'
  PROVE  Calm
  BY DEF Calm, Handles, Wanted

LEMMA ServiceCalm ==
  ASSUME ScriptsInv, NEW x \in Admins, NEW s \in Services, NEW c \in Commands, Service(x, s, c)
  PROVE  Calm
<1>1. /\ UNCHANGED <<proc, term, on, phase, todo>> /\ excused' = excused \cup {s}
      /\ disturbed' = disturbed
  BY DEF Service, machine, processes
<1>0. sh'["rc"] = sh["rc"]
  <2>1. IInv /\ x \in Shells /\ x # "rc" /\ "rc" \in Shells
    BY RcIsAShell DEF ScriptsInv, DaemonInv, BootInv
  <2> QED
    BY <2>1, BeginAt DEF Service
<1>2. \A t : Running(t)' <=> Running(t)
  BY <1>1 DEF Running
<1>3. /\ \A l \in links' : l \in links \/ l[2] \in Left'
      /\ \A l \in links, m \in links' : l[2] = m[2] => l \in links' \/ l[2] \in Left'
  <2>1. CASE Enabling(s)
    BY <1>1, <2>1 DEF Enabling, Left
  <2>2. CASE Disabling(s)
    BY <1>1, <2>2 DEF Disabling, Left
  <2>3. CASE UNCHANGED links
    BY <2>3
  <2> QED
    BY <2>1, <2>2, <2>3 DEF Service
<1> QED
  BY <1>0, <1>1, <1>2, <1>3, OtherCalm DEF Left

LEMMA BeforeIsOrder ==
  ASSUME NEW k \in Links, NEW l \in Links, NEW m \in Links
  PROVE  /\ ~First(l, l)
         /\ First(l, m) => ~First(m, l)
         /\ l[2] = m[2] /\ ~First(l, m) /\ First(k, m) => First(k, l)
<1>1. /\ k[1] \in Nat /\ l[1] \in Nat /\ m[1] \in Nat
      /\ Rank[k[2]] \in Nat /\ Rank[l[2]] \in Nat /\ Rank[m[2]] \in Nat
  BY ServiceAssumption DEF Links
<1> QED
  BY <1>1 DEF First, Before

\* rc goes on to the next link.
LEMMA RcServiceOrdered ==
  ASSUME OrderInv, RcService
  PROVE  Ordered' /\ UpOK'
<1>1. /\ UNCHANGED <<proc, term, on, links, phase>> /\ Left' = Left
      /\ sh["rc"].cmd = "none" /\ phase \in {"boot", "shutdown"} /\ Ordered
      /\ links \subseteq Links /\ todo \subseteq Links
  BY Parts DEF RcService, processes, history, Left, OrderInv, ScriptsInv, DaemonInv, BootInv, DataOK
<1>2. PICK l \in todo :
        /\ NextLink(l) /\ todo' = todo \ {l}
        /\ IF l \in links THEN Begin("rc", l[2], IF phase = "boot" THEN "start" ELSE "stop")
                          ELSE UNCHANGED sh
  BY DEF RcService
<1>3. /\ \A s : Wanted(s)' <=> Wanted(s)
      /\ \A k, m : First(k, m)' <=> First(k, m)
      /\ \A s : ~Handles(s)
  BY <1>1 DEF Wanted, Running, First, Before, Handles
<1>4. \A m \in todo \ {l} : First(l, m)
  BY <1>2 DEF NextLink, First
<1>5. \A m \in links \ todo : m[2] \notin Left => Wanted(m[2])
  BY <1>1, <1>3 DEF Ordered
<1>6. CASE l \in links
  <2>1. \A s : Handles(s)' <=> s = l[2]
    <3>1. sh \in [Shells -> ShellType] /\ "rc" \in Shells
      BY ShellsAreSane, RcIsAShell DEF OrderInv, ScriptsInv, DaemonInv, BootInv, IInv
    <3>2. sh'["rc"].cmd # "none" /\ sh'["rc"].svc = l[2]
      BY <1>2, <1>6, <3>1 DEF Begin
    <3> QED
      BY <3>2 DEF Handles
  <2>2. links' \ todo' = (links \ todo) \cup {l}
    BY <1>1, <1>2, <1>6
  <2>3. \A k \in links' \ todo', m \in todo' : k[2] \notin Left => ~First(m, k)
    <3>1. \A m \in todo' : ~First(m, l)
      BY <1>1, <1>2, <1>4, BeforeIsOrder
    <3> QED
      BY <1>1, <1>2, <2>2, <3>1 DEF Ordered
  <2>4. \A m \in links : m[2] \notin Left /\ (Wanted(m[2]) \/ Handles(m[2])') =>
          \E k \in links' \ todo' : k[2] = m[2]
    BY <1>1, <2>1, <2>2 DEF Ordered
  <2>5. ASSUME NEW m \in links' \ todo', m[2] \notin Left, ~Wanted(m[2])
        PROVE  /\ Handles(m[2])'
               /\ \A k \in links' \ todo' : k[2] \notin Left => ~First(m, k)
    <3>1. m = l
      BY <1>5, <2>2, <2>5
    <3>2. \A k \in links' \ todo' : k[2] \notin Left => ~First(l, k)
      BY <1>1, <1>2, <2>2, BeforeIsOrder DEF Ordered
    <3> QED
      BY <2>1, <3>1, <3>2
  <2>6. Ordered'
    BY <1>1, <1>3, <2>3, <2>4, <2>5 DEF Ordered
  <2> QED
    BY <1>1, <2>6 DEF UpOK
<1>7. CASE l \notin links
  <2>1. /\ links' \ todo' = links \ todo /\ todo' \subseteq todo
        /\ \A s : ~Handles(s)'
    BY <1>1, <1>2, <1>7 DEF Handles
  <2>2. Ordered'
    BY <1>1, <1>3, <1>5, <2>1 DEF Ordered
  <2> QED
    BY <1>1, <2>2 DEF UpOK
<1> QED
  BY <1>6, <1>7

\* A list begins: nothing has been come to, and, at shutdown, everything runs.
LEMMA ListBegins ==
  ASSUME OrderInv, Boot \/ Shutdown
  PROVE  Ordered' /\ UpOK'
<1>1. /\ UNCHANGED <<proc, term, on, links, sh>> /\ todo' = links
      /\ sh["rc"].cmd = "none" /\ phase' # "up"
  <2>1. phase = "off" => sh["rc"].cmd = "none"
    BY RcIsAShell DEF OrderInv, ScriptsInv, DaemonInv, BootInv, OffOK
  <2> QED
    BY <2>1 DEF Boot, Shutdown, processes, OrderInv, ScriptsInv, RcKnows
<1>2. ASSUME NEW l \in links, l[2] \notin Left', phase' \in {"boot", "shutdown"}
      PROVE  ~Wanted(l[2])'
  <2>1. CASE Boot
    <3>1. phase' = "boot" /\ on = {} /\ \A p \in Pids : proc[p] = "none"
      BY <2>1 DEF Boot, OrderInv, ScriptsInv, DaemonInv, Steady
    <3>2. l[2] # "none"
      BY Parts, ServiceAssumption DEF OrderInv, ScriptsInv, DaemonInv, BootInv, DataOK, Links
    <3> QED
      BY <1>1, <3>1, <3>2 DEF Wanted, Running
  <2>2. CASE Shutdown
    BY <1>1, <1>2, <2>2 DEF Shutdown, history, Left, OrderInv, UpOK, Wanted, Running
  <2> QED
    BY <2>1, <2>2
<1>3. \A s : ~Handles(s)'
  BY <1>1 DEF Handles
<1> QED
  BY <1>1, <1>2, <1>3 DEF Ordered, UpOK

LEMMA BootIsOver ==
  ASSUME OrderInv, RcLocal
  PROVE  Ordered' /\ UpOK'
<1>1. /\ UNCHANGED <<proc, term, on, links>> /\ Left' = Left /\ phase' = "up"
      /\ phase = "boot" /\ todo = {} /\ sh["rc"].cmd = "none"
  BY DEF RcLocal, processes, history, Left
<1>2. \A l \in links : Running(l[2]) \/ l[2] \in Left
  BY <1>1 DEF OrderInv, Ordered, Wanted, Handles
<1>3. \A s : Running(s)' <=> Running(s)
  BY <1>1 DEF Running
<1> QED
  BY <1>1, <1>2, <1>3 DEF Ordered, UpOK

LEMMA OrderNext ==
  ASSUME OrderInv, [Next]_vars
  PROVE  OrderInv'
<1>1. ScriptsInv /\ ScriptsInv'
  BY ScriptsNext DEF OrderInv
<1>2. links' \subseteq Priorities \X Services
  BY <1>1 DEF ScriptsInv, DaemonInv, BootInv, IInv, TypeOK, Links
<1>3. ASSUME Calm PROVE Ordered' /\ UpOK'
  BY <1>2, <1>3, CalmOrdered
<1>4. ASSUME NEW p \in Pids, WritePidFile(p) \/ Terminate(p) \/ Die(p) \/ OtherProcess(p)
      PROVE  Calm
  <2>1. /\ UNCHANGED <<phase, todo, links, sh, on>> /\ Left \subseteq Left'
        /\ term \subseteq Pids /\ proc \in [Pids -> Services \cup {"none", "other"}]
    BY <1>1, <1>4, Parts DEF WritePidFile, Terminate, Die, OtherProcess, machine, history, Left,
       ScriptsInv, DaemonInv, BootInv, DataOK
  <2>2. ASSUME NEW s \in Services \ Left' PROVE Running(s)' <=> Running(s)
    <3>1. \A q \in Pids : q \notin term /\ proc[q] = s <=> q \notin term' /\ proc'[q] = s
      <4>1. CASE WritePidFile(p)
        BY <4>1 DEF WritePidFile
      <4>2. CASE Terminate(p)
        BY <2>1, <4>2, ServiceAssumption DEF Terminate
      <4>3. CASE Die(p)
        BY <2>1, <4>3, ServiceAssumption DEF Die, Left
      <4>4. CASE OtherProcess(p)
        BY <2>1, <4>4, ServiceAssumption DEF OtherProcess, Free
      <4> QED
        BY <1>4, <4>1, <4>2, <4>3, <4>4
    <3> QED
      BY <2>1, <3>1 DEF Running
  <2> QED
    BY <2>1, <2>2, OtherCalm
<1>5. ASSUME \/ \E s \in Services, n \in Priorities : NewPriority(s, n)
             \/ UNCHANGED vars
      PROVE  Calm
  <2>1. UNCHANGED <<proc, term, on, phase, todo, links, sh>> /\ Left' = Left
    BY <1>5 DEF NewPriority, vars, machine, processes, history, Left
  <2>2. \A s : Running(s)' <=> Running(s)
    BY <2>1 DEF Running
  <2> QED
    BY <2>1, <2>2, OtherCalm
<1>6. ASSUME Off PROVE Ordered' /\ UpOK'
  BY <1>6 DEF Off, Ordered, UpOK
<1>7. Ordered' /\ UpOK'
  <2>1. ASSUME \E x \in Shells : InitScript(x) PROVE Ordered' /\ UpOK'
    BY <1>1, <1>3, <2>1, ScriptCalm
  <2>2. ASSUME \E x \in Admins, s \in Services, c \in Commands : Service(x, s, c)
        PROVE  Ordered' /\ UpOK'
    BY <1>1, <1>3, <2>2, ServiceCalm
  <2>3. ASSUME Rc \/ PowerLoss PROVE Ordered' /\ UpOK'
    BY <1>6, <2>3, ListBegins, RcServiceOrdered, BootIsOver DEF Rc, Halt, PowerLoss
  <2> QED
    BY <1>3, <1>4, <1>5, <2>1, <2>2, <2>3 DEF Next
<1> QED
  BY <1>1, <1>7 DEF OrderInv

\* For any services, administrators, commands, crashes and process ids: services that
\* come first in ls order are up as long as the later ones, while rc starts them and
\* while rc.shutdown stops them, but for those that failed to start or to stop, died,
\* were commanded or mistaken, or are disturbed.
THEOREM Order == Spec => []OrderKept
<1>1. Init => OrderInv
  <2>1. Init => \A x \in Shells : sh[x].cmd = "none"
    BY DEF Init, Idle
  <2> QED
    BY <2>1, DaemonInit, RcIsAShell
       DEF Init, OrderInv, ScriptsInv, Meant, RcKnows, Ordered, UpOK
<1>2. OrderInv /\ [Next]_vars => OrderInv'
  BY OrderNext
<1>3. OrderInv => OrderKept
  <2> SUFFICES ASSUME OrderInv, phase \in {"boot", "shutdown"},
                      NEW l \in links, NEW m \in links, Counts(l), Counts(m), Before(l, m),
                      l[2] \notin Left, m[2] \notin Left,
                      Running(m[2]), ~Running(l[2])
               PROVE  FALSE
    BY DEF OrderKept, Left
  <2>1. links \subseteq Links /\ Ordered
    BY Parts DEF OrderInv, ScriptsInv, DaemonInv, BootInv, DataOK
  <2>2. PICK a \in {l, m}, b \in {l, m} : First(a, b) /\ Wanted(b[2]) /\ ~Wanted(a[2])
    <3>1. CASE phase = "boot"
      BY <3>1 DEF First, Wanted
    <3>2. CASE phase = "shutdown"
      BY <3>2 DEF First, Wanted
    <3> QED
      BY <3>1, <3>2
  <2>3. PICK k \in links \ todo : k[2] = b[2]
    BY <2>1, <2>2 DEF Ordered
  <2>4. ~First(k, b)
    BY <2>2, <2>3 DEF Counts, First
  <2>5. First(a, k)
    BY <2>1, <2>2, <2>3, <2>4, BeforeIsOrder
  <2>6. a \notin todo
    BY <2>1, <2>3, <2>5 DEF Ordered
  <2> QED
    BY <2>1, <2>2, <2>3, <2>5, <2>6 DEF Ordered
<1> QED
  BY <1>1, <1>2, <1>3, PTL DEF Spec
=============================================================================
