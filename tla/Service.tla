------------------------------- MODULE Service -------------------------------
(***************************************************************************)
(* System services: the common core of the init scripts (common-core), the *)
(* command service, and the scripts rc and rc.shutdown, which init runs at *)
(* boot and at shutdown.                                                   *)
(*                                                                         *)
(* A shell is an administrator's, or the one that runs rc and rc.shutdown. *)
(* It runs one init script at a time, in the steps between which another   *)
(* process can run: look at the pid file, start, signal, remove the file.  *)
(* The daemons, and the processes that may get the same pids, are the      *)
(* environment.  /run is a directory of the root file system, so a pid     *)
(* file outlives its daemon when the machine stops, and a process id that  *)
(* is free is given out again, to whatever runs next.                      *)
(***************************************************************************)
EXTENDS Integers, FiniteSets

CONSTANTS
  Services,    \* the scripts in /etc/init.d
  Rank,        \* Rank[s]: the place of s among the names, in ls order
  EndsWith,    \* the pairs <<t, s>> of services where the name t ends with s
  Plain,       \* services without PidFile: StartCmd and StopCmd only
  Late,        \* daemons that write the pid file after StartCmd has returned
  Removing,    \* daemons that remove the pid file when they exit
  Default,     \* services with DefaultStart=yes
  Priorities,  \* values of StartPriority
  Admins,      \* shells of administrators
  Commands,    \* what they run
  Pids,        \* process ids
  LocalScripts, \* the executable files the administrator has put in /etc/rc.d
  MaxCrashes   \* bound on daemons that die and on losses of power

ASSUME ServiceAssumption ==
  /\ Rank \in [Services -> Nat] /\ EndsWith \subseteq Services \X Services
  /\ \A s \in Services : <<s, s>> \in EndsWith
  /\ Plain \subseteq Services /\ Late \subseteq Services \ Plain
  /\ Removing \subseteq Services \ Plain /\ Default \subseteq Services
  /\ Priorities \subseteq Nat /\ 0 \notin Pids
  /\ MaxCrashes \in Nat
  /\ Services \cap {"none", "other"} = {} /\ "rc" \notin Admins
  /\ Commands \subseteq {"start", "stop", "restart", "enable", "disable", "default"}

VARIABLES
  proc,     \* proc[p]: the service that p is a daemon of, "other", or "none"
  term,     \* the processes that have got SIGTERM and still run
  late,     \* the daemons that have not yet written their pid file
  pidfile,  \* pidfile[s]: the pid in s's PidFile, 0 where there is no file
  on,       \* the plain services that are started
  prio,     \* prio[s]: StartPriority in s's script
  links,    \* /etc/rc.d/enabled: <<priority, service>>
  phase,    \* of the machine: "off", "boot", "up", "shutdown"
  todo,     \* the links that rc or rc.shutdown has listed and not yet run
  ran,      \* the local scripts run since the machine was switched on
  sh,       \* sh[x]: what the shell x runs, and where it is
  excused,  \* auxiliary: services that since boot failed, died, were commanded by an
            \* administrator, or for which another process was taken, or the reverse
  disturbed, \* auxiliary: services whose script has since boot looked at the pid file
            \* while an earlier command had not taken effect (~Settled), or whose
            \* daemon the script of another service has signalled
  crashes   \* number of crashes so far

processes == <<proc, term, late, pidfile, on>>
machine == <<phase, todo, ran>>
history == <<excused, disturbed>>
vars == <<processes, prio, links, machine, sh, history, crashes>>

Shells == Admins \cup {"rc"}
Idle == [cmd |-> "none", svc |-> "none", at |-> "none", pid |-> 0, out |-> "ok"]

Alive(p) == p # 0 /\ proc[p] # "none"
Free == {p \in Pids : proc[p] = "none"}
Running(s) == s \in on \/ \E p \in Pids \ term : proc[p] = s
\* kill -0 of the process in the pid file: cc_start's test, and cc_status.
StatusRunning(s) == IF s \in Plain THEN s \in on ELSE Alive(pidfile[s])

\* The process p, which is there, is not one of s.
Mistaken(p, s) == Alive(p) /\ proc[p] # s

\* All that was begun for s has taken effect: its daemon has written its pid file, the
\* one that was told to end will not delete it any more, and no other shell is
\* between looking at the file and the end of its command.
Settled(x, s) ==
  /\ \A p \in late : proc[p] # s
  /\ s \in Removing => \A p \in term : proc[p] # s
  /\ \A y \in Shells \ {x} : sh[y].svc = s => sh[y].at \in {"check", "read"}
Look(x) ==
  disturbed' = IF Settled(x, sh[x].svc) THEN disturbed ELSE disturbed \cup {sh[x].svc}

\* ls order of the names <priority><service>.
Before(l, m) == l[1] < m[1] \/ (l[1] = m[1] /\ Rank[l[2]] < Rank[m[2]])

\* Where a command begins.
Begin(x, s, c) ==
  sh' = [sh EXCEPT ![x] = [cmd |-> c, svc |-> s, pid |-> 0, out |-> "ok",
                           at |-> IF c = "start" THEN "check" ELSE "read"]]
Goto(x, at) == sh' = [sh EXCEPT ![x].at = at]
Exit(x, out) == sh' = [sh EXCEPT ![x] = [Idle EXCEPT !.out = out]]
\* Seeded fault: restart ends in a step that is not there.
Stopped_Lost(x) == IF sh[x].cmd = "restart" THEN Goto(x, "start") ELSE Exit(x, "ok")
\* The end of cc_stop, with status 0: restart goes on with "$0 start".
Stopped(x) == IF sh[x].cmd = "restart" THEN Goto(x, "check") ELSE Exit(x, "ok")

-----------------------------------------------------------------------------
(* common-core *)

\* Seeded fault: cc_start only looks whether the file is there.
CheckRunning_FileOnly(x) ==
  /\ sh[x].at = "check"
  /\ IF pidfile[sh[x].svc] # 0 THEN Exit(x, "ok") ELSE Goto(x, "spawn")
  /\ Look(x)
  /\ UNCHANGED <<processes, prio, links, machine, excused, crashes>>
\* Seeded fault: cc_start does not look.
CheckRunning_Never(x) ==
  /\ sh[x].at = "check"
  /\ Goto(x, "spawn")
  /\ Look(x)
  /\ UNCHANGED <<processes, prio, links, machine, excused, crashes>>

\* cc_start: nothing to do when the process in the pid file is there, whatever it is.
CheckRunning(x) ==
  /\ sh[x].at = "check"
  /\ LET s == sh[x].svc IN
     /\ IF s \notin Plain /\ Alive(pidfile[s]) THEN Exit(x, "ok") ELSE Goto(x, "spawn")
     /\ excused' = excused \cup (IF Mistaken(pidfile[s], s) THEN {s} ELSE {})
  /\ Look(x)
  /\ UNCHANGED <<processes, prio, links, machine, crashes>>

\* StartCmd: the daemon goes to the background, or the command fails.
Spawn(x) ==
  /\ sh[x].at = "spawn"
  /\ LET s == sh[x].svc IN
     \/ /\ s \in Plain
        /\ on' = on \cup {s}
        /\ Exit(x, "ok")
        /\ UNCHANGED <<proc, late, pidfile, excused>>
     \/ /\ s \notin Plain
        /\ \E p \in Free :
             /\ proc' = [proc EXCEPT ![p] = s]
             /\ late' = IF s \in Late THEN late \cup {p} ELSE late
             /\ pidfile' = IF s \in Late THEN pidfile ELSE [pidfile EXCEPT ![s] = p]
        /\ Exit(x, "ok")
        /\ UNCHANGED <<on, excused>>
     \/ /\ Exit(x, "failed")
        /\ excused' = excused \cup {s}
        /\ UNCHANGED <<proc, late, pidfile, on>>
  /\ UNCHANGED <<term, prio, links, machine, disturbed, crashes>>

\* cc_stop: the pid is read from the file.
ReadPid(x) ==
  /\ sh[x].at = "read"
  /\ LET s == sh[x].svc IN
     \/ s \in Plain /\ Goto(x, "stopcmd")
     \/ s \notin Plain /\ pidfile[s] = 0 /\ Stopped(x)
     \/ /\ s \notin Plain /\ pidfile[s] # 0
        /\ sh' = [sh EXCEPT ![x].at = "kill", ![x].pid = pidfile[s]]
  /\ Look(x)
  /\ UNCHANGED <<processes, prio, links, machine, excused, crashes>>

\* StopCmd of a plain service; where it fails the service stays as it is.
StopCmd(x) ==
  /\ sh[x].at = "stopcmd"
  /\ \/ on' = on \ {sh[x].svc} /\ Stopped(x) /\ UNCHANGED excused
     \/ Exit(x, "failed") /\ excused' = excused \cup {sh[x].svc} /\ UNCHANGED on
  /\ UNCHANGED <<proc, term, late, pidfile, prio, links, machine, disturbed, crashes>>

\* Seeded fault: kill -0 in place of kill.
Kill_Probe(x) ==
  /\ sh[x].at = "kill"
  /\ IF Alive(sh[x].pid) THEN Goto(x, "rm") ELSE Exit(x, "failed")
  /\ UNCHANGED <<processes, prio, links, machine, history, crashes>>

\* kill: fails when the process is gone, and the pid file stays.  The process may by now
\* be another one than the daemon, and the daemon of another service.
Kill(x) ==
  /\ sh[x].at = "kill"
  /\ LET p == sh[x].pid
         hit == IF Mistaken(p, sh[x].svc) THEN {proc[p]} \cap Services ELSE {} IN
     /\ IF Alive(p) THEN term' = term \cup {p} /\ Goto(x, "rm")
                    ELSE Exit(x, "failed") /\ UNCHANGED term
     /\ excused' = excused \cup hit /\ disturbed' = disturbed \cup hit
  /\ UNCHANGED <<proc, late, pidfile, on, prio, links, machine, crashes>>

\* rm -f of the pid file.
RmPidFile(x) ==
  /\ sh[x].at = "rm"
  /\ pidfile' = [pidfile EXCEPT ![sh[x].svc] = 0]
  /\ Stopped(x)
  /\ UNCHANGED <<proc, term, late, on, prio, links, machine, history, crashes>>

InitScript(x) ==
  CheckRunning(x) \/ Spawn(x) \/ ReadPid(x) \/ StopCmd(x) \/ Kill(x) \/ RmPidFile(x)

-----------------------------------------------------------------------------
(* service *)

Enabling(s) == links' = links \cup {<<prio[s], s>>}
\* rm -f /etc/rc.d/enabled/*<name>.
Disabling(s) == links' = {l \in links : <<l[2], s>> \notin EndsWith}

\* An administrator runs "service s c".
Service(x, s, c) ==
  /\ phase \in {"up", "shutdown"} /\ sh[x].cmd = "none"
  /\ \/ c \in {"start", "stop", "restart"} /\ Begin(x, s, c) /\ UNCHANGED links
     \/ (c = "enable" \/ (c = "default" /\ s \in Default)) /\ Enabling(s) /\ UNCHANGED sh
     \/ (c = "disable" \/ (c = "default" /\ s \notin Default)) /\ Disabling(s) /\ UNCHANGED sh
  /\ excused' = excused \cup {s}
  /\ UNCHANGED <<processes, prio, machine, disturbed, crashes>>

-----------------------------------------------------------------------------
(* rc and rc.shutdown *)

\* The machine is switched on; rc lists the enabled services.
Boot ==
  /\ phase = "off"
  /\ phase' = "boot" /\ todo' = links /\ ran' = {}
  /\ excused' = {} /\ disturbed' = {}
  /\ UNCHANGED <<processes, prio, links, sh, crashes>>

\* Seeded fault: ls for both.
NextLink_Forward(l) == \A m \in todo \ {l} : Before(l, m)

\* The next link in ls order at boot, in ls -r order at shutdown.
NextLink(l) ==
  \A m \in todo \ {l} : IF phase = "boot" THEN Before(l, m) ELSE Before(m, l)

\* Seeded fault: the list is read again for each service.
RcService_Again ==
  /\ phase \in {"boot", "shutdown"} /\ sh["rc"].cmd = "none"
  /\ \E l \in todo :
       /\ NextLink(l)
       /\ Begin("rc", l[2], IF phase = "boot" THEN "start" ELSE "stop")
  /\ UNCHANGED <<processes, prio, links, machine, history, crashes>>

\* rc and rc.shutdown run the script of a link, if it is still there.
RcService ==
  /\ phase \in {"boot", "shutdown"} /\ sh["rc"].cmd = "none"
  /\ \E l \in todo :
       /\ NextLink(l)
       /\ todo' = todo \ {l}
       /\ IF l \in links
          THEN Begin("rc", l[2], IF phase = "boot" THEN "start" ELSE "stop")
          ELSE UNCHANGED sh
  /\ UNCHANGED <<processes, prio, links, phase, ran, history, crashes>>

\* rc runs rc.local and ends; the gettys follow.
RcLocal ==
  /\ phase = "boot" /\ todo = {} /\ sh["rc"].cmd = "none"
  /\ ran' = ran \cup (LocalScripts \cap {"rc.local"})
  /\ phase' = "up"
  /\ UNCHANGED <<processes, prio, links, todo, sh, history, crashes>>

\* init runs rc.shutdown, which begins with the local script.
Shutdown ==
  /\ phase = "up"
  /\ ran' = ran \cup (LocalScripts \cap {"rc.local.shutdown"})
  /\ phase' = "shutdown" /\ todo' = links
  /\ UNCHANGED <<processes, prio, links, sh, history, crashes>>

\* The machine is off: no process is left, the files are.
Off ==
  /\ phase' = "off" /\ todo' = {}
  /\ proc' = [p \in Pids |-> "none"] /\ term' = {} /\ late' = {} /\ on' = {}
  /\ sh' = [x \in Shells |-> Idle]
  /\ UNCHANGED <<pidfile, prio, links, ran, history>>

\* Seeded fault: the end of every process is waited for.
Halt_Wait ==
  /\ phase = "shutdown" /\ todo = {} /\ sh["rc"].cmd = "none"
  /\ \A p \in Pids : proc[p] = "none"
  /\ Off
  /\ UNCHANGED crashes

\* rc.shutdown has unmounted the file systems, and init stops the machine.
Halt ==
  /\ phase = "shutdown" /\ todo = {} /\ sh["rc"].cmd = "none"
  /\ Off
  /\ UNCHANGED crashes

PowerLoss ==
  /\ phase # "off" /\ crashes < MaxCrashes
  /\ Off
  /\ crashes' = crashes + 1

-----------------------------------------------------------------------------
(* Daemons and other processes *)

WritePidFile(p) ==
  /\ p \in late
  /\ pidfile' = [pidfile EXCEPT ![proc[p]] = p]
  /\ late' = late \ {p}
  /\ UNCHANGED <<proc, term, on, prio, links, machine, sh, history, crashes>>

\* A process that has got SIGTERM exits.
Terminate(p) ==
  /\ p \in term
  /\ proc' = [proc EXCEPT ![p] = "none"]
  /\ term' = term \ {p} /\ late' = late \ {p}
  /\ pidfile' = IF proc[p] \in Removing THEN [pidfile EXCEPT ![proc[p]] = 0] ELSE pidfile
  /\ UNCHANGED <<on, prio, links, machine, sh, history, crashes>>

\* A daemon dies of itself; its pid file stays.
Die(p) ==
  /\ proc[p] \in Services /\ crashes < MaxCrashes
  /\ proc' = [proc EXCEPT ![p] = "none"]
  /\ term' = term \ {p} /\ late' = late \ {p}
  /\ excused' = excused \cup {proc[p]} /\ crashes' = crashes + 1
  /\ UNCHANGED <<pidfile, on, prio, links, machine, sh, disturbed>>

\* Another program runs, or comes to its end.
OtherProcess(p) ==
  /\ phase # "off"
  /\ \/ p \in Free /\ proc' = [proc EXCEPT ![p] = "other"] /\ UNCHANGED term
     \/ /\ proc[p] = "other"
        /\ proc' = [proc EXCEPT ![p] = "none"] /\ term' = term \ {p}
  /\ UNCHANGED <<late, pidfile, on, prio, links, machine, sh, history, crashes>>

\* A script with another StartPriority is installed.
NewPriority(s, n) ==
  /\ n # prio[s]
  /\ prio' = [prio EXCEPT ![s] = n]
  /\ UNCHANGED <<processes, links, machine, sh, history, crashes>>

-----------------------------------------------------------------------------
Init ==
  /\ proc = [p \in Pids |-> "none"] /\ term = {} /\ late = {}
  /\ pidfile = [s \in Services |-> 0] /\ on = {}
  /\ prio \in [Services -> Priorities]
  /\ links = {<<prio[s], s>> : s \in Default}
  /\ phase = "off" /\ todo = {} /\ ran = {}
  /\ sh = [x \in Shells |-> Idle]
  /\ excused = {} /\ disturbed = {} /\ crashes = 0

Rc == Boot \/ RcService \/ RcLocal \/ Shutdown \/ Halt

Next ==
  \/ \E x \in Shells : InitScript(x)
  \/ \E x \in Admins, s \in Services, c \in Commands : Service(x, s, c)
  \/ Rc \/ PowerLoss
  \/ \E p \in Pids : WritePidFile(p) \/ Terminate(p) \/ Die(p) \/ OtherProcess(p)
  \/ \E s \in Services, n \in Priorities : NewPriority(s, n)

\* A shell goes on with its script, and rc and rc.shutdown with their lists.
Fairness ==
  /\ \A x \in Shells : WF_vars(InitScript(x))
  /\ WF_vars(RcService) /\ WF_vars(RcLocal) /\ WF_vars(Halt)

Spec == Init /\ [][Next]_vars
FairSpec == Spec /\ Fairness

-----------------------------------------------------------------------------
(* Properties *)

Links == Priorities \X Services

TypeOK ==
  /\ proc \in [Pids -> Services \cup {"none", "other"}]
  /\ term \subseteq Pids /\ late \subseteq Pids
  /\ pidfile \in [Services -> Pids \cup {0}] /\ on \subseteq Plain
  /\ prio \in [Services -> Priorities]
  /\ links \subseteq Links /\ todo \subseteq Links
  /\ phase \in {"off", "boot", "up", "shutdown"} /\ ran \subseteq LocalScripts
  /\ sh \in [Shells -> [cmd : {"none", "start", "stop", "restart"},
                        svc : Services \cup {"none"},
                        at : {"none", "check", "spawn", "read", "stopcmd", "kill", "rm"},
                        pid : Pids \cup {0}, out : {"ok", "failed"}]]
  /\ excused \subseteq Services /\ disturbed \subseteq Services /\ crashes \in 0 .. MaxCrashes

\* A service that is not disturbed has at most one daemon, besides those that are told
\* to end: cc_start's test of the pid file finds the daemon there is, also when it was
\* late to write the file, when an older one deletes it on exit, and after crashes.
OneDaemon ==
  \A p, q \in Pids \ term :
    proc[p] = proc[q] /\ proc[p] \in Services \ disturbed => p = q

\* The pid file of a service that is not disturbed names its daemon, as soon as it has
\* been written: status reports it and stop reaches it.
DaemonIsKnown ==
  \A p \in Pids \ (term \cup late) :
    proc[p] \in Services \ disturbed => pidfile[proc[p]] = p

\* When stop reports success for a service that is not disturbed, none of its daemons
\* goes on.
StopStops ==
  [][\A x \in Shells, s \in Services \ disturbed' :
       sh[x].svc = s /\ sh[x].cmd = "stop" /\ sh'[x].cmd = "none" /\ sh'[x].out = "ok"
         => ~Running(s)']_vars

\* When rc ends, every enabled service runs, unless its StartCmd failed, its daemon died
\* since, or its pid file named another process that was there when rc looked: a file
\* that the last boot left is no obstacle in itself.
BootStarts ==
  [][phase = "boot" /\ phase' = "up" =>
       \A l \in links : Running(l[2]) \/ l[2] \in excused]_vars

\* Services that come first in ls order are up as long as the later ones: rc starts
\* them before, rc.shutdown stops them after.  Of two links of a service, the first
\* counts at boot and the last at shutdown.  Those that failed to start or to stop, died,
\* were commanded or mistaken (excused) or are disturbed are left out.
Counts(l) == \A m \in links :
  m[2] = l[2] => IF phase = "boot" THEN ~Before(m, l) ELSE ~Before(l, m)
OrderKept ==
  phase \in {"boot", "shutdown"} =>
    \A l, m \in {k \in links : Counts(k)} :
      Before(l, m) /\ {l[2], m[2]} \cap (excused \cup disturbed) = {} /\ Running(m[2])
        => Running(l[2])

\* rc and rc.shutdown come to an end.
BootEnds == phase = "boot" ~> phase # "boot"
ShutdownEnds == phase = "shutdown" ~> phase = "off"
=============================================================================
