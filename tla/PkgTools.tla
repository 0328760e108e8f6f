------------------------------ MODULE PkgTools ------------------------------
(***************************************************************************)
(* The package tools of Fidelix: installpkg, removepkg and upgradepkg      *)
(* (base/pkgtools/src/sbin).                                               *)
(*                                                                         *)
(* A root directory is a set of paths plus a package database, the         *)
(* directory var/pkgdb with one entry per package; an entry holds the      *)
(* file "contents", the list of the paths its package provides.  The tools *)
(* are shell scripts: a command runs alone and is a sequence of small      *)
(* steps on the disk, and it may be interrupted between any two of them.   *)
(***************************************************************************)
EXTENDS Integers, FiniteSets

CONSTANTS
  Roots,      \* root directories (the argument of -d)
  Slash,      \* the default root, "/"
  Archives,   \* package files, the argument of installpkg and upgradepkg
  Packages,   \* full package names, name-version-arch-build
  Names,      \* package names
  Pkg,        \* the full name an archive's file name carries
  Name,       \* the name in a full name
  Files,      \* plain paths
  Dirs,       \* directory paths other than "/"
  Links,      \* symbolic links
  Ships,      \* the paths in an archive, the package's metadata left out
  Local,      \* files that belong to the administrator, not to a package
  Anc,        \* the directories above a path, other than "/"
  Target,     \* the directory a symbolic link names
  Hits,       \* Hits[f]: the names the regular expression "^f$" matches
  HasDoinst,  \* packages that carry an executable doinst.sh
  HasDouninst,\* packages whose entry carries an executable douninst.sh
  Faults,     \* the kinds of failure considered: "crash", "tar"
  MaxFaults   \* bound on the number of failures

Paths == Files \cup Dirs \cup Links

\* The directories of the database: P, P@oldpkg, and P@oldpkg/P, where mv puts
\* P when P@oldpkg exists already.
Entries == Packages \X {"cur", "old", "nested"}

Tools == {"installpkg", "removepkg", "upgradepkg"}

ASSUME RootAssumption == Slash \in Roots

ASSUME PackageAssumption ==
  /\ Pkg \in [Archives -> Packages]
  /\ Name \in [Packages -> Names]
  /\ HasDoinst \subseteq Packages
  /\ HasDouninst \subseteq Packages
  /\ Faults \subseteq {"crash", "tar"}
  /\ MaxFaults \in Nat

ASSUME PathAssumption ==
  /\ Files \cap Dirs = {} /\ Files \cap Links = {} /\ Dirs \cap Links = {}
  /\ Local \subseteq Files
  /\ Anc \in [Paths -> SUBSET Dirs]
  /\ \A p \in Paths : p \notin Anc[p] /\ \A d \in Anc[p] : Anc[d] \subseteq Anc[p]
  /\ Target \in [Links -> Dirs]

\* tar stores a path after the directories above it.
ASSUME ShipsAssumption ==
  /\ Ships \in [Archives -> SUBSET (Paths \ Local)]
  /\ \A a \in Archives : \A p \in Ships[a] : Anc[p] \subseteq Ships[a]

\* A name used as a regular expression may match other names, too, or nothing; and
\* it need not match itself, as a[1], which matches a1 only.
ASSUME HitsAssumption == Hits \in [Paths -> SUBSET Paths]

VARIABLES
  fs,        \* fs[r]: the paths that exist under root r
  present,   \* present[r]: the entries that exist in r's database
  contents,  \* contents[r][e]: the lines of e's contents file, {} if missing
  setup,     \* setup[r]: names whose doinst.sh ran and whose douninst.sh did not
  torn,      \* auxiliary. torn[r]: entries whose removal began, or whose
             \* archive tar could not extract
  pc,        \* where the running script is
  rc,        \* exit status of the last command
  cmd,       \* the command given, one of Tools
  pkg,       \* the archive it is about
  root,      \* its root_dir
  upg,       \* do_upgradepkg is "true" in the environment
  caller,    \* the command that runs removepkg: itself, or the one that calls it
  ent,       \* the entry that removepkg removes
  at,        \* the root_dir of that removepkg
  todo,      \* paths the current loop has still to visit
  olds,      \* old_versions: entries upgradepkg has still to remove
  faults     \* number of failures so far

disk == <<fs, present, contents, setup, torn>>
request == <<cmd, pkg, root, upg>>
removal == <<caller, ent, at>>
vars == <<disk, pc, rc, request, removal, todo, olds, faults>>

Cur(a) == <<Pkg[a], "cur">>
Old(a) == <<Pkg[a], "old">>
Nested(a) == <<Pkg[a], "nested">>

Steps == {"extract", "list", "doinst", "checkold",   \* installpkg
          "douninst", "rmfile", "rmdir",             \* removepkg
          "nextold"}                                 \* upgradepkg

-----------------------------------------------------------------------------
(* Queries *)

\* [ -d "./$file" ], which follows a symbolic link.
IsDir(r, f) == f \in fs[r] /\ (f \in Dirs \/ (f \in Links /\ Target[f] \in fs[r]))

\* Seeded fault: only entries under a package's own name are searched.
Lines_CurOnly(r, f) == {l \in Entries \X Paths :
  /\ l[1] \in present[r] /\ l[1][2] = "cur"
  /\ l[2] \in contents[r][l[1]] /\ l[2] \in Hits[f]}

\* The lines "grep -r" finds in the contents files of root r.
Lines(r, f) == {l \in Entries \X Paths :
  l[1] \in present[r] /\ l[2] \in contents[r][l[1]] /\ l[2] \in Hits[f]}

\* Seeded fault: rm without counting.
OnlyLine_NoCount(r, f) == TRUE

\* [ $count -eq 1 ]
OnlyLine(r, f) == \E line \in Entries \X Paths : Lines(r, f) = {line}

\* Seeded faults: rmdir without -p; rm -r in place of rmdir.
RmdirP_NoParents(r, d) == {x \in {d} \cap Dirs : \A y \in fs[r] : x \notin Anc[y]}
RmdirP_Recursive(r, d) == {d} \cup {y \in fs[r] : d \in Anc[y]}

\* What "rmdir --ignore-fail-on-non-empty -p" removes: the directory and then
\* the ones above it, as long as they hold nothing else.
RmdirP(r, d) ==
  IF d \notin Dirs THEN {}
  ELSE LET chain == {d} \cup Anc[d] IN
       {x \in chain : \A y \in fs[r] : x \in Anc[y] => y \in chain}

\* Seeded faults: full names are compared; P@oldpkg is skipped.
SameName_Full(r, a) == {e \in present[r] : e[2] # "nested" /\ e[1] = Pkg[a]}
SameName_NoOld(r, a) == {e \in present[r] : e[2] = "cur" /\ Name[e[1]] = Name[Pkg[a]]}

\* Entries of the database that "ls" shows with the name of archive a,
\* P@oldpkg included.
SameName(r, a) == {e \in present[r] : e[2] # "nested" /\ Name[e[1]] = Name[Pkg[a]]}

-----------------------------------------------------------------------------
(* Ends of commands *)

\* Seeded fault: exit -s.
Exit_Negative(s) == pc' = "idle" /\ rc' = -s /\ todo' = {} /\ olds' = {}

\* Back at the prompt, with exit status s.
Exit(s) == pc' = "idle" /\ rc' = s /\ todo' = {} /\ olds' = {}

\* upgradepkg goes on with the old versions it has still to remove.
Continue(old_versions) ==
  pc' = "nextold" /\ todo' = {} /\ olds' = old_versions /\ UNCHANGED rc

\* installpkg ends with status s.  Under do_upgradepkg (u) upgradepkg goes on to
\* the old versions or gives up with status 1; otherwise s is the status of the
\* whole command, be it installpkg or the upgradepkg -i of a new package.
ReturnInstall(u, s, old_versions) ==
  \/ u /\ s = 0 /\ Continue(old_versions)
  \/ u /\ s # 0 /\ Exit(1)
  \/ ~u /\ Exit(s)

\* removepkg ends with status s, in the command c that ran it.
ReturnRemove(c, s) ==
  \/ c = "installpkg" /\ ReturnInstall(upg, s, olds)
  \/ c = "upgradepkg" /\ s = 0 /\ Continue(olds)
  \/ c = "upgradepkg" /\ s # 0 /\ Exit(1)
  \/ c = "removepkg" /\ Exit(s)

\* removepkg's start: it fails unless the entry exists in the root it looks in.
CallRemovepkg(c, e, r, old_versions) ==
  /\ caller' = c /\ ent' = e /\ at' = r
  /\ IF e \in present[r]
     THEN pc' = "douninst" /\ todo' = {} /\ olds' = old_versions /\ UNCHANGED rc
     ELSE ReturnRemove(c, 2)
  /\ UNCHANGED disk

-----------------------------------------------------------------------------
(* installpkg *)

\* mv P P@oldpkg: a rename, a move into P@oldpkg when that exists, or a
\* failure nobody looks at when P@oldpkg/P exists too.
SetAside(r, a) ==
  LET to == IF Old(a) \in present[r] THEN Nested(a) ELSE Old(a) IN
  IF to \in present[r]
  THEN UNCHANGED <<present, contents, torn>>
  ELSE /\ present' = [present EXCEPT ![r] = (@ \ {Cur(a)}) \cup {to}]
       /\ contents' = [contents EXCEPT ![r] =
                         [@ EXCEPT ![to] = contents[r][Cur(a)], ![Cur(a)] = {}]]
       /\ torn' = [torn EXCEPT ![r] = IF Cur(a) \in @
                                      THEN (@ \ {Cur(a)}) \cup {to} ELSE @]

\* installpkg up to the tar that extracts the archive: a package that is
\* installed is refused, or set aside when -r asks for a reinstallation.
CallInstallpkg(a, r, reinstall, u, old_versions) ==
  /\ UNCHANGED <<fs, setup, removal>>
  /\ IF Cur(a) \in present[r] /\ ~reinstall
     THEN /\ ReturnInstall(u, 2, old_versions)
          /\ UNCHANGED <<present, contents, torn>>
     ELSE /\ IF Cur(a) \in present[r]
             THEN SetAside(r, a)
             ELSE UNCHANGED <<present, contents, torn>>
          /\ pc' = "extract" /\ todo' = Ships[a] /\ olds' = old_versions
          /\ UNCHANGED rc

InstallPkg(a, r, reinstall) ==
  /\ pc = "idle"
  /\ cmd' = "installpkg" /\ pkg' = a /\ root' = r /\ upg' = FALSE
  /\ CallInstallpkg(a, r, reinstall, FALSE, {})
  /\ UNCHANGED faults

\* The next lines of a list in tar's order: a directory comes before its members.
NextLines == {f \in todo : Anc[f] \cap todo = {}}

\* tar xf creates, or replaces, one path ...
Extract ==
  /\ pc = "extract"
  /\ \E f \in NextLines :
       /\ fs' = [fs EXCEPT ![root] = @ \cup {f}]
       /\ todo' = todo \ {f}
  /\ UNCHANGED <<present, contents, setup, torn, pc, rc, request, removal, olds, faults>>

\* ... and, somewhere among them, the package's entry with its metadata.
ExtractEntry ==
  /\ pc = "extract"
  /\ Cur(pkg) \notin present[root]
  /\ present' = [present EXCEPT ![root] = @ \cup {Cur(pkg)}]
  /\ UNCHANGED <<fs, contents, setup, torn, pc, rc, request, removal, todo, olds, faults>>

\* A failure of kind k happens now.
Fault(k) == k \in Faults /\ faults < MaxFaults /\ faults' = faults + 1

\* tar ends, having extracted everything or having failed (a damaged archive, a
\* full disk): installpkg does not look at its status.
TarEnds ==
  /\ pc = "extract"
  /\ \/ todo = {} /\ Cur(pkg) \in present[root] /\ UNCHANGED faults
     \/ Fault("tar")
  /\ pc' = "list"
  /\ UNCHANGED <<disk, rc, request, removal, todo, olds>>

\* What a list cut short may hold: lines in tar's order.
Prefixes(list) == {part \in SUBSET list : \A p \in part : Anc[p] \subseteq part}

\* The entry is torn now if tar left something (todo) unextracted.
Mark == torn' = [torn EXCEPT ![root] = IF todo = {} THEN @ \ {Cur(pkg)}
                                                   ELSE @ \cup {Cur(pkg)}]

\* Seeded fault: a contents file that exists is kept.
SaveContents_Keep(part) ==
  IF Cur(pkg) \in present[root] /\ contents[root][Cur(pkg)] = {}
  THEN /\ contents' = [contents EXCEPT ![root] = [@ EXCEPT ![Cur(pkg)] = part]]
       /\ Mark
  ELSE UNCHANGED <<contents, torn>>

\* The contents file holds the lines in part; without the entry's directory there
\* is nowhere to write.
SaveContents(part) ==
  IF Cur(pkg) \in present[root]
  THEN /\ contents' = [contents EXCEPT ![root] = [@ EXCEPT ![Cur(pkg)] = part]]
       /\ Mark
  ELSE UNCHANGED <<contents, torn>>

\* tar tf > contents, which may fail as tar xf may.
WriteContents ==
  /\ pc = "list"
  /\ \/ SaveContents(Ships[pkg]) /\ UNCHANGED faults
     \/ Fault("tar") /\ \E part \in Prefixes(Ships[pkg]) : SaveContents(part)
  /\ pc' = "doinst" /\ todo' = {}
  /\ UNCHANGED <<fs, present, setup, rc, request, removal, olds>>

\* The package's doinst.sh.
Doinst ==
  /\ pc = "doinst"
  /\ setup' = IF Cur(pkg) \in present[root] /\ Pkg[pkg] \in HasDoinst
              THEN [setup EXCEPT ![root] = @ \cup {Name[Pkg[pkg]]}]
              ELSE setup
  /\ pc' = "checkold"
  /\ UNCHANGED <<fs, present, contents, torn, rc, request, removal, todo, olds, faults>>

\* Seeded fault: the entry that was set aside is forgotten.
CheckOld_Forget ==
  /\ pc = "checkold"
  /\ ReturnInstall(upg, 0, olds) /\ UNCHANGED <<disk, removal>>
  /\ UNCHANGED <<request, faults>>

\* An entry that was set aside is removed, by a removepkg that is given no -d and
\* so works on "/" whatever root_dir is; its exit status is installpkg's.
CheckOld ==
  /\ pc = "checkold"
  /\ IF Old(pkg) \in present[root]
     THEN CallRemovepkg("installpkg", Old(pkg), Slash, olds)
     ELSE ReturnInstall(upg, 0, olds) /\ UNCHANGED <<disk, removal>>
  /\ UNCHANGED <<request, faults>>

-----------------------------------------------------------------------------
(* removepkg *)

\* removepkg of entry <<p, k>> by the user; a is only a name for the package.
RemovePkg(a, k, r) ==
  /\ pc = "idle"
  /\ cmd' = "removepkg" /\ pkg' = a /\ root' = r /\ upg' = FALSE
  /\ CallRemovepkg("removepkg", <<Pkg[a], k>>, r, {})
  /\ UNCHANGED faults

\* Seeded fault: do_upgradepkg is not looked at.
Douninst_Always ==
  /\ pc = "douninst"
  /\ setup' = IF ent[1] \in HasDouninst
              THEN [setup EXCEPT ![at] = @ \ {Name[ent[1]]}]
              ELSE setup
  /\ torn' = [torn EXCEPT ![at] = @ \cup {ent}]
  /\ pc' = "rmfile" /\ todo' = contents[at][ent]
  /\ UNCHANGED <<fs, present, contents, rc, request, removal, olds, faults>>

\* The package's douninst.sh, unless an upgrade removes the package.
Douninst ==
  /\ pc = "douninst"
  /\ setup' = IF ent[1] \in HasDouninst /\ ~upg
              THEN [setup EXCEPT ![at] = @ \ {Name[ent[1]]}]
              ELSE setup
  /\ torn' = [torn EXCEPT ![at] = @ \cup {ent}]
  /\ pc' = "rmfile" /\ todo' = contents[at][ent]
  /\ UNCHANGED <<fs, present, contents, rc, request, removal, olds, faults>>

\* removepkg_rmfile on the lines that do not name a directory.
RmFile ==
  /\ pc = "rmfile"
  /\ \E f \in NextLines :
       /\ fs' = IF ~IsDir(at, f) /\ OnlyLine(at, f)
                THEN [fs EXCEPT ![at] = @ \ {f}]
                ELSE fs
       /\ todo' = todo \ {f}
  /\ UNCHANGED <<present, contents, setup, torn, pc, rc, request, removal, olds, faults>>

\* The second pass over the contents file.
RmFilesDone ==
  /\ pc = "rmfile" /\ todo = {}
  /\ pc' = "rmdir" /\ todo' = contents[at][ent]
  /\ UNCHANGED <<disk, rc, request, removal, olds, faults>>

\* removepkg_rmdir on the lines that name a directory.
RmDir ==
  /\ pc = "rmdir"
  /\ \E d \in NextLines :
       /\ fs' = IF IsDir(at, d) /\ OnlyLine(at, d)
                THEN [fs EXCEPT ![at] = @ \ RmdirP(at, d)]
                ELSE fs
       /\ todo' = todo \ {d}
  /\ UNCHANGED <<present, contents, setup, torn, pc, rc, request, removal, olds, faults>>

\* rm -rf of the entry, and of what lies inside it.
Gone(e) == {e} \cup (IF e[2] = "old" THEN {<<e[1], "nested">>} ELSE {})

RmEntry ==
  /\ pc = "rmdir" /\ todo = {}
  /\ present' = [present EXCEPT ![at] = @ \ Gone(ent)]
  /\ contents' = [contents EXCEPT ![at] =
                    [e \in Entries |-> IF e \in Gone(ent) THEN {} ELSE @[e]]]
  /\ torn' = [torn EXCEPT ![at] = @ \ Gone(ent)]
  /\ ReturnRemove(caller, 0)
  /\ UNCHANGED <<fs, setup, request, removal, faults>>

-----------------------------------------------------------------------------
(* upgradepkg *)

UpgradePkg(a, r, install, reinstall) ==
  /\ pc = "idle"
  /\ cmd' = "upgradepkg" /\ pkg' = a /\ root' = r
  /\ LET same == SameName(r, a) IN
     \/ /\ same = {} /\ ~install
        /\ upg' = FALSE /\ Exit(1) /\ UNCHANGED <<disk, removal>>
     \/ /\ same = {} /\ install
        /\ upg' = FALSE /\ CallInstallpkg(a, r, FALSE, FALSE, {})
     \/ /\ same # {}
        /\ upg' = TRUE /\ CallInstallpkg(a, r, reinstall, TRUE, same \ {Cur(a)})
  /\ UNCHANGED faults

\* Seeded fault: removepkg is not given -d.
NextOld_NoRoot ==
  /\ pc = "nextold"
  /\ \/ olds = {} /\ Exit(0) /\ UNCHANGED <<disk, removal>>
     \/ \E e \in olds : CallRemovepkg("upgradepkg", e, Slash, olds \ {e})
  /\ UNCHANGED <<request, faults>>

\* The loop over old_versions.
NextOld ==
  /\ pc = "nextold"
  /\ \/ olds = {} /\ Exit(0) /\ UNCHANGED <<disk, removal>>
     \/ \E e \in olds : CallRemovepkg("upgradepkg", e, root, olds \ {e})
  /\ UNCHANGED <<request, faults>>

-----------------------------------------------------------------------------
(* The environment *)

\* The administrator puts a file of their own into an existing directory.
CreateLocal(r, f) ==
  /\ pc = "idle"
  /\ f \in Local \ fs[r] /\ Anc[f] \subseteq fs[r]
  /\ fs' = [fs EXCEPT ![r] = @ \cup {f}]
  /\ UNCHANGED <<present, contents, setup, torn, pc, rc, request, removal, todo, olds, faults>>

\* The script is killed or the machine stops.  While the contents file is being
\* written, any part of it may have reached the disk.
Crash ==
  /\ pc # "idle" /\ Fault("crash")
  /\ \/ UNCHANGED <<contents, torn>>
     \/ pc = "list" /\ \E part \in Prefixes(Ships[pkg]) : SaveContents(part)
  /\ Exit(130)
  /\ UNCHANGED <<fs, present, setup, request, removal>>

-----------------------------------------------------------------------------
Init ==
  /\ fs = [r \in Roots |-> {}]
  /\ present = [r \in Roots |-> {}]
  /\ contents = [r \in Roots |-> [e \in Entries |-> {}]]
  /\ setup = [r \in Roots |-> {}]
  /\ torn = [r \in Roots |-> {}]
  /\ pc = "idle" /\ rc = 0
  /\ cmd = "removepkg" /\ pkg \in Archives /\ root = Slash /\ upg = FALSE
  /\ caller = "removepkg" /\ ent = Cur(pkg) /\ at = Slash
  /\ todo = {} /\ olds = {} /\ faults = 0

\* A step of the script that runs.
Step ==
  \/ Extract \/ ExtractEntry \/ TarEnds \/ WriteContents \/ Doinst \/ CheckOld
  \/ Douninst \/ RmFile \/ RmFilesDone \/ RmDir \/ RmEntry \/ NextOld

\* A command given by the user.
Command ==
  \E a \in Archives, r \in Roots :
    \/ \E re \in BOOLEAN : InstallPkg(a, r, re)
    \/ \E k \in {"cur", "old"} : RemovePkg(a, k, r)
    \/ \E i, re \in BOOLEAN : UpgradePkg(a, r, i, re)

Next ==
  \/ Command
  \/ Step
  \/ \E r \in Roots, f \in Local : CreateLocal(r, f)
  \/ Crash

Spec == Init /\ [][Next]_vars

-----------------------------------------------------------------------------
(* Properties *)

TypeOK ==
  /\ fs \in [Roots -> SUBSET Paths]
  /\ present \in [Roots -> SUBSET Entries]
  /\ contents \in [Roots -> [Entries -> SUBSET Paths]]
  /\ setup \in [Roots -> SUBSET Names]
  /\ torn \in [Roots -> SUBSET Entries]
  /\ pc \in {"idle"} \cup Steps
  /\ rc \in {0, 1, 2, 130}
  /\ cmd \in Tools /\ pkg \in Archives /\ root \in Roots /\ upg \in BOOLEAN
  /\ caller \in Tools /\ ent \in Entries /\ at \in Roots
  /\ todo \subseteq Paths
  /\ olds \subseteq Entries
  /\ faults \in 0 .. MaxFaults

\* The files and links whose own line is among the ones counted for them, if any
\* is.  For a name that matches others and not itself, as a[1] does, removepkg
\* counts the wrong lines and may delete what another package provides.
Countable == {f \in Paths \ Dirs : Hits[f] = {} \/ f \in Hits[f]}

\* Whatever is installed, upgraded and removed, and wherever a command was
\* interrupted: a file listed by a package whose own removal has not begun (and
\* that tar could extract) is on disk, if its name is one that removepkg counts
\* right.  This is the point of counting lines before each rm.
ProvidedFilesPresent ==
  \A r \in Roots : \A e \in present[r] \ torn[r] :
    contents[r][e] \cap Countable \subseteq fs[r]

\* What makes ProvidedFilesPresent inductive: entries that do not exist have no
\* lines; extraction has created what is not left to extract; a removal works
\* through the lines of an entry that exists and is already marked.
RemovalInv ==
  /\ \A r \in Roots : \A e \in Entries \ present[r] : contents[r][e] = {}
  /\ pc \in {"extract", "list"} => Ships[pkg] \ todo \subseteq fs[root]
  /\ pc \in {"douninst", "rmfile", "rmdir"} => ent \in present[at]
  /\ pc \in {"rmfile", "rmdir"} => ent \in torn[at] /\ todo \subseteq contents[at][ent]

\* removepkg's usage: it removes all of the files provided by the package, except
\* for those also provided by others, and the directories that are left empty.
\* Between commands whatever lies in a root is provided by a package or is the
\* administrator's, or is a directory that is not empty.
NoOrphans ==
  pc = "idle" =>
    \A r \in Roots : \A p \in fs[r] \ Local :
      \/ \E e \in present[r] : p \in contents[r][e]
      \/ p \in Dirs /\ \E y \in fs[r] : p \in Anc[y]

\* What exit status 0 promises of an installation or upgrade, also one that
\* finds the debris of interrupted commands: the package is registered with all
\* its paths, its (countable) files are there, and no older copy is set aside.
Installed ==
  /\ Cur(pkg) \in present[root]
  /\ contents[root][Cur(pkg)] = Ships[pkg]
  /\ Ships[pkg] \cap Countable \subseteq fs[root]
  /\ Old(pkg) \notin present[root]

SuccessMeansInstalled ==
  pc = "idle" /\ cmd \in {"installpkg", "upgradepkg"} /\ rc = 0 => Installed

\* upgradepkg that ends well leaves one version of the package, not counting on
\* the way the tool itself finds the others.
OneVersionAfterUpgrade ==
  pc = "idle" /\ cmd = "upgradepkg" /\ rc = 0 =>
    \A e \in present[root] : Name[e[1]] = Name[Pkg[pkg]] => e = Cur(pkg)

\* Between commands none of which was interrupted no package is set aside.
NothingSetAside ==
  pc = "idle" => \A r \in Roots : \A e \in present[r] : e[2] = "cur"

\* upgradepkg installs before it removes: at no step of an upgrade does a
\* (countable) file that the new version provides disappear from the root.
UpgradeHasNoGap ==
  [][cmd = "upgradepkg" /\ pc # "idle" =>
       Ships[pkg] \cap Countable \cap fs[root] \subseteq fs'[root]]_vars

\* The old version's douninst.sh does not undo what the new one's doinst.sh did.
UpgradeKeepsSetup ==
  pc = "idle" /\ cmd = "upgradepkg" /\ rc = 0 /\ Pkg[pkg] \in HasDoinst
    => Name[Pkg[pkg]] \in setup[root]

\* The tools never delete a file that no package provides.
LocalFilesStay == [][\A r \in Roots : fs[r] \cap Local \subseteq fs'[r]]_vars

\* A command that is given -d works on that root only.
OtherRootsUntouched ==
  [][\A r \in Roots : pc # "idle" /\ r # root =>
       fs'[r] = fs[r] /\ present'[r] = present[r]]_vars

-----------------------------------------------------------------------------
(* The abstract database *)

\* An archive is being installed and its entry is not complete yet.
Installing == pc \in {"extract", "list"}

\* removepkg has an entry in its hands.
Removing == pc \in {"douninst", "rmfile", "rmdir"}

\* Where the entry of package p is: an installation sets it aside.
Place(p) == IF Installing /\ p = Pkg[pkg] THEN Old(pkg) ELSE <<p, "cur">>

\* The entries that an upgrade has still to remove, once the new one is complete.
Superseded ==
  IF Installing THEN {}
  ELSE olds \cup (IF Removing /\ caller = "upgradepkg" THEN {ent} ELSE {})

\* The packages that count as installed in "/".
Standing == {p \in Packages : Place(p) \in present[Slash] \ (torn[Slash] \cup Superseded)}

\* What the running command has still to do.
Pending ==
  [put |-> IF Installing THEN {pkg} ELSE {},
   drop |-> IF Installing THEN {e[1] : e \in olds}
            ELSE IF pc = "douninst" /\ caller = "removepkg" THEN {ent[1]} ELSE {}]

Db == INSTANCE PackageDb WITH
  db <- [p \in Standing |-> contents[Slash][Place(p)]],
  asked <- <<cmd, IF cmd = "removepkg" THEN ent ELSE pkg>>,
  want <- Pending,
  busy <- pc # "idle",
  status <- rc

\* Commands that nothing interrupts are atomic, and say truly whether they did what
\* was asked: installpkg -r exchanges an entry, and upgradepkg all the versions of
\* a package for the new one, at the moment the new list is complete; removepkg
\* removes a package the moment it begins; 0 is the status of a command that took
\* effect and 1 or 2 that of one that changed nothing.
ActsAtOnce == Db!Spec

=============================================================================
