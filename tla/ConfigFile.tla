----------------------------- MODULE ConfigFile -----------------------------
(***************************************************************************)
(* A configuration file through the life of a package: the commands        *)
(* preserve-file and install-new-file of pkgtool, as the Makefiles and     *)
(* doinst.sh scripts of packages use them, inside upgradepkg.              *)
(*                                                                         *)
(* A version of the package that preserves the file f ships f.new, and its *)
(* doinst.sh runs install-new-file f; another version ships f itself.      *)
(* upgradepkg unpacks the new version, runs doinst.sh and then removes     *)
(* the other versions, here with the rules of removepkg for one entry.     *)
(***************************************************************************)
EXTENDS Integers

CONSTANTS
  Releases,   \* versions of the package
  Upstream,   \* Upstream[v]: the content of the file that v ships
  Preserved,  \* the versions whose Makefile runs preserve-file
  Edited,     \* contents the administrator gives to the file
  NewFileActions, \* values of NEW_FILE_ACTION in use: KEEP, REPLACE, OVERWRITE
  NoFile,     \* where there is no file
  MaxCrashes  \* bound on the number of crashes

ASSUME ConfigAssumption ==
  /\ Preserved \subseteq Releases /\ NoFile \notin Edited
  /\ \A v \in Releases : Upstream[v] \notin Edited \cup {NoFile}
  /\ NewFileActions \subseteq {"KEEP", "REPLACE", "OVERWRITE"}
  /\ MaxCrashes \in Nat

VARIABLES
  fs,      \* fs[n]: the content of the file n
  db,      \* the versions in the package database
  pc,      \* what the tools do next
  tool,    \* the running command: upgradepkg, or pkgtool by hand
  release, \* the version that is being installed
  action,  \* NEW_FILE_ACTION of this run
  edit,    \* auxiliary: the last content the administrator gave to f, if no run
           \* since then was asked to replace the file
  crashes  \* number of crashes so far

vars == <<fs, db, pc, tool, release, action, edit, crashes>>

FileNames == {"f", "f.new", "f.old"}
Contents == Edited \cup {Upstream[v] : v \in Releases}

\* The path a version ships and lists: preserve-file has renamed it.
Entry(v) == IF v \in Preserved THEN "f.new" ELSE "f"
Exists(n) == fs[n] # NoFile
Rm(n) == fs' = [fs EXCEPT ![n] = NoFile]
Mv(a, b) == fs' = [fs EXCEPT ![b] = fs[a], ![a] = NoFile]

-----------------------------------------------------------------------------
\* The administrator lets go of the edit by asking for anything but KEEP.
Asked(a) == edit' = IF a = "KEEP" THEN edit ELSE NoFile

\* upgradepkg: the archive is unpacked and its contents are recorded.
Upgrade(v, a) ==
  /\ pc = "idle"
  /\ fs' = [fs EXCEPT ![Entry(v)] = Upstream[v]]
  /\ db' = db \cup {v}
  /\ pc' = IF v \in Preserved THEN "doinst" ELSE "remove"
  /\ tool' = "upgradepkg" /\ release' = v /\ action' = a
  /\ Asked(a) /\ UNCHANGED crashes

\* pkgtool install-new-file f, by hand.
Command(a) ==
  /\ pc = "idle"
  /\ pc' = "doinst" /\ tool' = "pkgtool" /\ action' = a
  /\ Asked(a) /\ UNCHANGED <<fs, db, release, crashes>>

\* Seeded fault: upgradepkg stops after doinst.sh.
Done_Stop == pc' = IF tool = "upgradepkg" THEN "stopped" ELSE "idle"

\* What follows install-new-file.
Done == pc' = IF tool = "upgradepkg" THEN "remove" ELSE "idle"

\* Seeded faults: the file overwritten whatever NEW_FILE_ACTION says; the new file
\* deleted when they differ.
InstallNewFile_Blind ==
  /\ pc = "doinst"
  /\ IF Exists("f.new") THEN Mv("f.new", "f") ELSE UNCHANGED fs
  /\ Done
  /\ UNCHANGED <<db, tool, release, action, edit, crashes>>
InstallNewFile_RmAlways ==
  /\ pc = "doinst"
  /\ IF Exists("f") THEN Rm("f.new") ELSE Mv("f.new", "f")
  /\ Done
  /\ UNCHANGED <<db, tool, release, action, edit, crashes>>

\* install-new-file, up to the first rename of REPLACE.
InstallNewFile ==
  /\ pc = "doinst"
  /\ \/ ~Exists("f.new") /\ UNCHANGED fs /\ Done
     \/ Exists("f.new") /\ ~Exists("f") /\ Mv("f.new", "f") /\ Done
     \/ Exists("f.new") /\ fs["f"] = fs["f.new"] /\ Rm("f.new") /\ Done
     \/ /\ Exists("f.new") /\ Exists("f") /\ fs["f"] # fs["f.new"]
        /\ \/ action = "KEEP" /\ UNCHANGED fs /\ Done
           \/ action = "OVERWRITE" /\ Mv("f.new", "f") /\ Done
           \/ action = "REPLACE" /\ Mv("f", "f.old") /\ pc' = "replace"
  /\ UNCHANGED <<db, tool, release, action, edit, crashes>>

\* The second rename of REPLACE.
Replace ==
  /\ pc = "replace"
  /\ Mv("f.new", "f")
  /\ Done
  /\ UNCHANGED <<db, tool, release, action, edit, crashes>>

\* upgradepkg and removepkg: another version goes, and with it the path it lists
\* if no other version in the database lists that.
RemoveOld(v) ==
  /\ pc = "remove" /\ v \in db \ {release}
  /\ IF \E w \in db \ {v} : Entry(w) = Entry(v) THEN UNCHANGED fs ELSE Rm(Entry(v))
  /\ db' = db \ {v}
  /\ UNCHANGED <<pc, tool, release, action, edit, crashes>>

Upgraded ==
  /\ pc = "remove" /\ db = {release}
  /\ pc' = "idle"
  /\ UNCHANGED <<fs, db, tool, release, action, edit, crashes>>

-----------------------------------------------------------------------------
\* The administrator edits the file, or accepts the one left for consideration.
Edit(c) ==
  /\ pc = "idle" /\ Exists("f")
  /\ fs' = [fs EXCEPT !["f"] = c] /\ edit' = c
  /\ UNCHANGED <<db, pc, tool, release, action, crashes>>

Accept ==
  /\ pc = "idle" /\ Exists("f.new")
  /\ Mv("f.new", "f") /\ edit' = NoFile
  /\ UNCHANGED <<db, pc, tool, release, action, crashes>>

\* The machine stops in the middle of an upgrade.
Crash ==
  /\ pc # "idle" /\ crashes < MaxCrashes
  /\ pc' = "idle" /\ crashes' = crashes + 1
  /\ UNCHANGED <<fs, db, tool, release, action, edit>>

Init ==
  /\ fs = [n \in FileNames |-> NoFile]
  /\ db = {} /\ pc = "idle" /\ edit = NoFile /\ crashes = 0
  /\ tool = "pkgtool" /\ release \in Releases /\ action \in NewFileActions

Next ==
  \/ \E v \in Releases, a \in NewFileActions : Upgrade(v, a)
  \/ \E a \in NewFileActions : Command(a)
  \/ InstallNewFile \/ Replace
  \/ \E v \in Releases : RemoveOld(v)
  \/ Upgraded
  \/ \E c \in Edited : Edit(c)
  \/ Accept \/ Crash

Spec == Init /\ [][Next]_vars

-----------------------------------------------------------------------------
(* Properties *)

TypeOK ==
  /\ fs \in [FileNames -> Contents \cup {NoFile}]
  /\ db \subseteq Releases /\ release \in Releases /\ action \in NewFileActions
  /\ pc \in {"idle", "doinst", "replace", "remove"}
  /\ tool \in {"upgradepkg", "pkgtool"}
  /\ edit \in Edited \cup {NoFile} /\ crashes \in 0 .. MaxCrashes

\* The file that an administrator has edited stays at f, or goes to f.old in the
\* step that takes it away; only OVERWRITE loses it.  (preserve-file and
\* install-new-file, with removepkg's removal of the other versions.)
EditSaved ==
  [][fs["f"] \in Edited /\ pc # "idle" /\ fs'["f"] # fs["f"] =>
       action = "OVERWRITE" \/ fs'["f.old"] = fs["f"]]_vars

\* An upgrade that ends leaves a file at f, and the file the new version ships at f
\* or for consideration at f.new, whatever crashes came before it.
UpgradeDelivers ==
  [][tool = "upgradepkg" /\ pc # "idle" /\ pc' = "idle" /\ crashes' = crashes =>
       /\ fs'["f"] # NoFile
       /\ Upstream[release] \in {fs'["f"], fs'["f.new"]}]_vars

\* Through upgrades, downgrades and crashes the administrator's last edit stays at
\* f, until a run is asked to replace the file: the default, KEEP, loses nothing,
\* whatever debris of a REPLACE or OVERWRITE it finds.
EditNotLost == edit # NoFile => fs["f"] = edit
=============================================================================
