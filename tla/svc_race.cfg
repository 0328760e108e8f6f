SPECIFICATION Spec
CONSTANTS
  Services = {"crond", "syslogd"}
  Rank <- MCRank
  EndsWith <- Same
  Plain = {}
  Late = {"crond", "syslogd"}
  Removing = {"syslogd"}
  Default = {"syslogd"}
  Priorities = {10}
  a = a
  b = b
  Admins = {a, b}
  Commands = {"stop", "restart"}
  p1 = p1
  p2 = p2
  Pids = {p1, p2}
  LocalScripts = {}
  MaxCrashes = 1
SYMMETRY Symmetric
INVARIANTS
  TypeOK
  OneDaemon
  DaemonIsKnown
PROPERTIES
  StopStops
