SPECIFICATION FairSpec
CONSTANTS
  Services = {"network", "syslogd"}
  Rank <- MCRank
  EndsWith <- Same
  Plain = {"network"}
  Late = {"syslogd"}
  Removing = {"syslogd"}
  Default = {"syslogd"}
  a = a
  b = b
  p1 = p1
  p2 = p2
  Priorities = {10, 20}
  Admins = {a}
  Commands = {"enable", "default"}
  Pids = {p1, p2}
  LocalScripts = {"rc.local"}
  MaxCrashes = 1
INVARIANTS
  OrderKept
PROPERTIES
  BootStarts
  BootEnds
  ShutdownEnds
