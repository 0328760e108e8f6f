------------------------------ MODULE MCService ------------------------------
(***************************************************************************)
(* Small instances of Service: the network, a plain service, and the       *)
(* daemons crond and syslogd.                                              *)
(***************************************************************************)
EXTENDS Service, TLC

CONSTANTS a, b, p1, p2  \* administrators and process ids, where they are symmetric

MCRank == [s \in Services |->
  CASE s = "crond" -> 1 [] s = "network" -> 2 [] s = "syslogd" -> 3]
Same == {<<s, s>> : s \in Services}
Symmetric == Permutations(Admins) \cup Permutations(Pids)
=============================================================================
