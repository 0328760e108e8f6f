-------------------------- MODULE ConfigFileProofs --------------------------
(***************************************************************************)
(* Proofs about ConfigFile, for every set of versions and contents and any *)
(* number of upgrades and crashes.                                         *)
(***************************************************************************)
EXTENDS ConfigFile, TLAPS

\* The machine's state has the right shape, and between the renames of REPLACE
\* there is no file f.
Inv ==
  /\ TypeOK
  /\ pc = "replace" => fs["f"] = NoFile

\* Where all versions preserve the file, the path that a version lists is f.new.
LEMMA AllListNew == Preserved = Releases => \A v \in Releases : Entry(v) = "f.new"
BY DEF Entry

\* Inv is inductive: the commands of the tools keep the shape of the state, and
\* REPLACE leaves the gap between its two renames.
LEMMA InvIsInvariant == Spec => []Inv
<1> USE ConfigAssumption DEF FileNames
<1>1. Init => Inv
  BY DEF Init, Inv, TypeOK
<1>2. Inv /\ [Next]_vars => Inv'
  <2> SUFFICES ASSUME Inv, [Next]_vars PROVE Inv'
    OBVIOUS
  <2> USE DEF Inv, TypeOK
  <2>1. ASSUME NEW v \in Releases, NEW a \in NewFileActions, Upgrade(v, a) PROVE Inv'
    <3>1. Upstream[v] \in Contents BY DEF Contents
    <3>2. Entry(v) \in FileNames BY DEF Entry
    <3> QED BY <2>1, <3>1, <3>2 DEF Upgrade, Asked
  <2>2. ASSUME NEW a \in NewFileActions, Command(a) PROVE Inv'
    BY <2>2 DEF Command, Asked
  <2>3. CASE InstallNewFile
    BY <2>3 DEF InstallNewFile, Exists, Rm, Mv, Done
  <2>4. CASE Replace
    BY <2>4 DEF Replace, Mv, Done
  <2>5. ASSUME NEW v \in Releases, RemoveOld(v) PROVE Inv'
    <3>1. Entry(v) \in FileNames BY DEF Entry
    <3> QED BY <2>5, <3>1 DEF RemoveOld, Rm
  <2>6. CASE Upgraded
    BY <2>6 DEF Upgraded
  <2>7. ASSUME NEW c \in Edited, Edit(c) PROVE Inv'
    <3>1. c \in Contents BY DEF Contents
    <3> QED BY <2>7, <3>1 DEF Edit, Exists
  <2>8. CASE Accept
    BY <2>8 DEF Accept, Mv, Exists
  <2>9. CASE Crash
    BY <2>9 DEF Crash
  <2>10. CASE UNCHANGED vars
    BY <2>10 DEF vars
  <2> QED BY <2>1, <2>2, <2>3, <2>4, <2>5, <2>6, <2>7, <2>8, <2>9, <2>10 DEF Next
<1> QED BY <1>1, <1>2, PTL DEF Spec

\* Type correctness of upgradepkg, pkgtool and the administrator's steps.
THEOREM TypeCorrect == Spec => []TypeOK
BY InvIsInvariant, PTL DEF Inv

\* A package all of whose versions preserve the file never loses an administrator's
\* edit without a copy at f.old, unless OVERWRITE is asked for.
THEOREM EditsAreSaved ==
  ASSUME Preserved = Releases
  PROVE  Spec => EditSaved
<1> DEFINE Saved ==
      fs["f"] \in Edited /\ pc # "idle" /\ fs'["f"] # fs["f"] =>
        action = "OVERWRITE" \/ fs'["f.old"] = fs["f"]
<1>1. Inv /\ [Next]_vars => [Saved]_vars
  <2> SUFFICES ASSUME Inv, Next PROVE Saved
    BY DEF vars
  <2> USE ConfigAssumption DEF FileNames, Inv, TypeOK
  <2>1. CASE InstallNewFile
    BY <2>1 DEF InstallNewFile, Exists, Rm, Mv
  <2>2. CASE Replace
    BY <2>2 DEF Replace
  <2>3. ASSUME NEW v \in Releases, RemoveOld(v) PROVE Saved
    <3>1. Entry(v) = "f.new" BY AllListNew
    <3> QED BY <2>3, <3>1 DEF RemoveOld, Rm
  <2>4. ASSUME NEW v \in Releases, NEW a \in NewFileActions, Upgrade(v, a) PROVE Saved
    BY <2>4 DEF Upgrade
  <2>5. CASE Upgraded \/ Crash
    BY <2>5 DEF Upgraded, Crash
  <2>6. ASSUME NEW c \in Edited, Edit(c) PROVE Saved
    BY <2>6 DEF Edit
  <2>7. ASSUME NEW a \in NewFileActions, Command(a) PROVE Saved
    BY <2>7 DEF Command
  <2>8. CASE Accept
    BY <2>8 DEF Accept
  <2> QED BY <2>1, <2>2, <2>3, <2>4, <2>5, <2>6, <2>7, <2>8 DEF Next
<1> QED BY <1>1, InvIsInvariant, PTL DEF Spec, EditSaved

\* A package all of whose versions preserve the file keeps the administrator's last
\* edit at f, until a run is asked to replace it.  While such an edit exists every
\* run has NEW_FILE_ACTION=KEEP, which is what makes the fact inductive.
THEOREM KeepLosesNoEdit ==
  ASSUME Preserved = Releases
  PROVE  Spec => []EditNotLost
<1> DEFINE Stays == edit # NoFile => fs["f"] = edit /\ (pc # "idle" => action = "KEEP")
<1>1. Init => Stays
  BY DEF Init
<1>2. Inv /\ Stays /\ [Next]_vars => Stays'
  <2> SUFFICES ASSUME Inv, Stays, [Next]_vars PROVE Stays'
    OBVIOUS
  <2> USE ConfigAssumption DEF FileNames, Inv, TypeOK
  <2>1. ASSUME NEW v \in Releases, NEW a \in NewFileActions, Upgrade(v, a) PROVE Stays'
    <3>1. Entry(v) = "f.new" BY AllListNew
    <3> QED BY <2>1, <3>1 DEF Upgrade, Asked
  <2>2. ASSUME NEW a \in NewFileActions, Command(a) PROVE Stays'
    BY <2>2 DEF Command, Asked
  <2>3. CASE InstallNewFile
    BY <2>3 DEF InstallNewFile, Exists, Rm, Mv
  <2>4. CASE Replace
    BY <2>4 DEF Replace, Mv
  <2>5. ASSUME NEW v \in Releases, RemoveOld(v) PROVE Stays'
    <3>1. Entry(v) = "f.new" BY AllListNew
    <3> QED BY <2>5, <3>1 DEF RemoveOld, Rm
  <2>6. CASE Upgraded \/ Crash
    BY <2>6 DEF Upgraded, Crash
  <2>7. ASSUME NEW c \in Edited, Edit(c) PROVE Stays'
    BY <2>7 DEF Edit
  <2>8. CASE Accept
    BY <2>8 DEF Accept
  <2>9. CASE UNCHANGED vars
    BY <2>9 DEF vars
  <2> QED BY <2>1, <2>2, <2>3, <2>4, <2>5, <2>6, <2>7, <2>8, <2>9 DEF Next
<1>3. Stays => EditNotLost
  BY DEF EditNotLost
<1> QED BY <1>1, <1>2, <1>3, InvIsInvariant, PTL DEF Spec

\* What upgradepkg has brought about when it gets to a step: the new version's file
\* waits at f.new until doinst.sh is through, and the version is in the database, so
\* that the removal of the others leaves f.new alone.
Delivering ==
  tool = "upgradepkg" /\ pc # "idle" =>
    /\ release \in db
    /\ pc \in {"doinst", "replace"} => fs["f.new"] = Upstream[release]
    /\ pc = "remove" => fs["f"] # NoFile /\ Upstream[release] \in {fs["f"], fs["f.new"]}

\* An upgrade of a package all of whose versions preserve the file ends with a file
\* at f and with the new version's file at f or f.new, for any contents, any
\* NEW_FILE_ACTION and any debris of earlier crashes.
THEOREM UpgradesDeliver ==
  ASSUME Preserved = Releases
  PROVE  Spec => UpgradeDelivers
<1> USE ConfigAssumption DEF FileNames
<1>1. Init => Delivering
  BY DEF Init, Delivering
<1>2. Inv /\ Delivering /\ [Next]_vars => Delivering'
  <2> SUFFICES ASSUME Inv, Delivering, [Next]_vars PROVE Delivering'
    OBVIOUS
  <2> USE DEF Inv, TypeOK, Delivering
  <2>1. ASSUME NEW v \in Releases, NEW a \in NewFileActions, Upgrade(v, a) PROVE Delivering'
    <3>1. Entry(v) = "f.new" BY AllListNew
    <3> QED BY <2>1, <3>1 DEF Upgrade
  <2>2. ASSUME NEW a \in NewFileActions, Command(a) PROVE Delivering'
    BY <2>2 DEF Command
  <2>3. CASE InstallNewFile
    <3>1. CASE tool = "upgradepkg"
      <4>1. fs["f.new"] = Upstream[release] /\ Exists("f.new")
        BY <2>3, <3>1 DEF InstallNewFile, Exists
      <4> QED
        BY <2>3, <3>1, <4>1 DEF InstallNewFile, Exists, Rm, Mv, Done
    <3>2. CASE tool # "upgradepkg"
      BY <2>3, <3>2 DEF InstallNewFile
    <3> QED BY <3>1, <3>2
  <2>4. CASE Replace
    BY <2>4 DEF Replace, Mv, Done
  <2>5. ASSUME NEW v \in Releases, RemoveOld(v) PROVE Delivering'
    <3>1. CASE release \in db
      <4>1. release \in db \ {v} /\ Entry(release) = Entry(v)
        BY <2>5, <3>1, AllListNew DEF RemoveOld
      <4>2. fs' = fs
        BY <2>5, <4>1 DEF RemoveOld
      <4> QED
        BY <2>5, <4>1, <4>2 DEF RemoveOld
    <3>2. CASE release \notin db
      BY <2>5, <3>2 DEF RemoveOld
    <3> QED BY <3>1, <3>2
  <2>6. CASE Upgraded \/ Crash
    BY <2>6 DEF Upgraded, Crash
  <2>7. ASSUME NEW c \in Edited, Edit(c) PROVE Delivering'
    BY <2>7 DEF Edit
  <2>8. CASE Accept
    BY <2>8 DEF Accept
  <2>9. CASE UNCHANGED vars
    BY <2>9 DEF vars
  <2> QED BY <2>1, <2>2, <2>3, <2>4, <2>5, <2>6, <2>7, <2>8, <2>9 DEF Next
<1> DEFINE Delivered ==
      tool = "upgradepkg" /\ pc # "idle" /\ pc' = "idle" /\ crashes' = crashes =>
        /\ fs'["f"] # NoFile
        /\ Upstream[release] \in {fs'["f"], fs'["f.new"]}
<1>3. Inv /\ Delivering /\ [Next]_vars => [Delivered]_vars
  <2> SUFFICES ASSUME Inv, Delivering, Next, tool = "upgradepkg", pc # "idle", pc' = "idle",
                      crashes' = crashes
               PROVE  Delivered
    OBVIOUS
  <2>1. Upgraded
    <3>1. ~Crash
      BY DEF Crash, Inv, TypeOK
    <3> QED
      BY <3>1 DEF Next, Upgrade, Command, InstallNewFile, Replace, RemoveOld, Edit, Accept, Done
  <2> QED
    BY <2>1 DEF Upgraded, Delivering
<1> QED BY <1>1, <1>2, <1>3, InvIsInvariant, PTL DEF Spec, UpgradeDelivers
=============================================================================
