--------------------------- MODULE PkgToolsProofs ---------------------------
(***************************************************************************)
(* Theorems about PkgTools, for all roots, archives, paths and faults: its *)
(* safety properties, and that it implements PackageDb.                    *)
(***************************************************************************)
EXTENDS PkgTools, TLAPS

-----------------------------------------------------------------------------
(* Type correctness *)

\* Entries of an archive's package are entries of the database.
LEMMA EntriesOfArchive ==
  ASSUME NEW a \in Archives
  PROVE  Cur(a) \in Entries /\ Old(a) \in Entries /\ Nested(a) \in Entries
BY PackageAssumption DEF Cur, Old, Nested, Entries

\* What a command that ends, or goes on to the old versions, leaves behind.
LEMMA ReturnInstallType ==
  ASSUME TypeOK, NEW u, NEW s \in {0, 1, 2},
         NEW o \in SUBSET Entries, ReturnInstall(u, s, o)
  PROVE  /\ pc' \in {"idle", "nextold"} /\ rc' \in {0, 1, 2, 130}
         /\ todo' = {} /\ olds' \subseteq Entries
BY DEF TypeOK, ReturnInstall, Continue, Exit

LEMMA ReturnRemoveType ==
  ASSUME TypeOK, NEW c \in Tools, NEW s \in {0, 1, 2}, ReturnRemove(c, s)
  PROVE  /\ pc' \in {"idle", "nextold"} /\ rc' \in {0, 1, 2, 130}
         /\ todo' = {} /\ olds' \subseteq Entries
<1>1. upg \in BOOLEAN /\ olds \in SUBSET Entries
  BY DEF TypeOK
<1>2. CASE ReturnInstall(upg, s, olds)
  BY <1>1, <1>2, ReturnInstallType
<1>3. CASE Continue(olds) \/ Exit(1) \/ Exit(s)
  BY <1>1, <1>3 DEF TypeOK, Continue, Exit
<1> QED
  BY <1>2, <1>3 DEF ReturnRemove

\* Setting an entry aside keeps the database well formed.
LEMMA SetAsideType ==
  ASSUME TypeOK, NEW r \in Roots, NEW a \in Archives, SetAside(r, a)
  PROVE  /\ present' \in [Roots -> SUBSET Entries]
         /\ contents' \in [Roots -> [Entries -> SUBSET Paths]]
         /\ torn' \in [Roots -> SUBSET Entries]
<1> DEFINE to == IF Old(a) \in present[r] THEN Nested(a) ELSE Old(a)
<1>1. to \in Entries /\ Cur(a) \in Entries
  BY EntriesOfArchive
<1>2. CASE to \in present[r]
  BY <1>2 DEF SetAside, TypeOK
<1>3. CASE to \notin present[r]
  <2>1. present' \in [Roots -> SUBSET Entries]
    BY <1>1, <1>3 DEF SetAside, TypeOK
  <2>2. contents' \in [Roots -> [Entries -> SUBSET Paths]]
    <3>1. /\ contents \in [Roots -> [Entries -> SUBSET Paths]]
          /\ contents[r][Cur(a)] \in SUBSET Paths
      BY <1>1 DEF TypeOK
    <3>2. contents' = [contents EXCEPT ![r] =
                         [@ EXCEPT ![to] = contents[r][Cur(a)], ![Cur(a)] = {}]]
      BY <1>3 DEF SetAside
    <3> QED
      BY <3>1, <3>2
  <2>3. torn' \in [Roots -> SUBSET Entries]
    BY <1>1, <1>3 DEF SetAside, TypeOK
  <2> QED
    BY <2>1, <2>2, <2>3
<1> QED
  BY <1>2, <1>3

\* The part of the state that a call of installpkg or removepkg sets, apart from
\* the request.
CallType ==
  /\ fs' \in [Roots -> SUBSET Paths] /\ setup' \in [Roots -> SUBSET Names]
  /\ present' \in [Roots -> SUBSET Entries] /\ torn' \in [Roots -> SUBSET Entries]
  /\ contents' \in [Roots -> [Entries -> SUBSET Paths]]
  /\ caller' \in Tools /\ ent' \in Entries /\ at' \in Roots
  /\ pc' \in {"idle"} \cup Steps /\ rc' \in {0, 1, 2, 130}
  /\ todo' \subseteq Paths /\ olds' \subseteq Entries

LEMMA CallRemovepkgType ==
  ASSUME TypeOK, NEW c \in Tools, NEW e \in Entries, NEW r \in Roots,
         NEW o \in SUBSET Entries, CallRemovepkg(c, e, r, o)
  PROVE  CallType
<1>1. CASE e \in present[r]
  BY <1>1 DEF CallRemovepkg, TypeOK, CallType, Steps, disk
<1>2. CASE e \notin present[r]
  <2>1. ReturnRemove(c, 2)
    BY <1>2 DEF CallRemovepkg
  <2>2. pc' \in {"idle"} \cup Steps /\ rc' \in {0, 1, 2, 130} /\ todo' = {} /\ olds' \subseteq Entries
    BY <2>1, ReturnRemoveType DEF Steps
  <2> QED
    BY <2>2 DEF CallRemovepkg, TypeOK, CallType, disk
<1> QED
  BY <1>1, <1>2

LEMMA CallInstallpkgType ==
  ASSUME TypeOK, NEW a \in Archives, NEW r \in Roots, NEW re, NEW u,
         NEW o \in SUBSET Entries,
         CallInstallpkg(a, r, re, u, o)
  PROVE  CallType
<1>1. CASE Cur(a) \in present[r] /\ ~re
  <2>1. ReturnInstall(u, 2, o) /\ UNCHANGED <<present, contents, torn>>
    BY <1>1 DEF CallInstallpkg
  <2>2. pc' \in {"idle"} \cup Steps /\ rc' \in {0, 1, 2, 130} /\ todo' = {} /\ olds' \subseteq Entries
    BY <2>1, ReturnInstallType DEF Steps
  <2> QED
    BY <2>1, <2>2 DEF CallInstallpkg, TypeOK, CallType, removal
<1>2. CASE ~(Cur(a) \in present[r] /\ ~re)
  <2>1. SetAside(r, a) \/ UNCHANGED <<present, contents, torn>>
    BY <1>2 DEF CallInstallpkg
  <2>2. /\ present' \in [Roots -> SUBSET Entries]
        /\ contents' \in [Roots -> [Entries -> SUBSET Paths]]
        /\ torn' \in [Roots -> SUBSET Entries]
    BY <2>1, SetAsideType DEF TypeOK
  <2>3. Ships[a] \subseteq Paths
    BY ShipsAssumption
  <2> QED
    BY <1>2, <2>2, <2>3 DEF CallInstallpkg, TypeOK, CallType, Steps, removal
<1> QED
  BY <1>1, <1>2

\* The contents file of the package being installed.
LEMMA SaveContentsType ==
  ASSUME TypeOK, NEW part \in SUBSET Paths, SaveContents(part)
  PROVE  /\ contents' \in [Roots -> [Entries -> SUBSET Paths]]
         /\ torn' \in [Roots -> SUBSET Entries]
<1>1. pkg \in Archives /\ Cur(pkg) \in Entries
  BY EntriesOfArchive DEF TypeOK
<1>2. CASE Cur(pkg) \in present[root]
  <2>1. contents' = [contents EXCEPT ![root] = [@ EXCEPT ![Cur(pkg)] = part]] /\ Mark
    BY <1>2 DEF SaveContents
  <2>2. contents' \in [Roots -> [Entries -> SUBSET Paths]]
    BY <2>1 DEF TypeOK
  <2>3. torn' \in [Roots -> SUBSET Entries]
    BY <1>1, <2>1 DEF Mark, TypeOK
  <2> QED
    BY <2>2, <2>3
<1>3. CASE Cur(pkg) \notin present[root]
  BY <1>3 DEF SaveContents, TypeOK
<1> QED
  BY <1>2, <1>3

\* Every prefix of an archive's list is a set of paths.
LEMMA PrefixType ==
  ASSUME NEW a \in Archives, NEW part \in Prefixes(Ships[a])
  PROVE  part \in SUBSET Paths
BY ShipsAssumption DEF Prefixes

-----------------------------------------------------------------------------

\* Initial states are well typed.
LEMMA TypeInit == Init => TypeOK
<1> SUFFICES ASSUME Init PROVE TypeOK
  OBVIOUS
<1>1. ent \in Entries
  BY EntriesOfArchive DEF Init
<1>2. contents \in [Roots -> [Entries -> SUBSET Paths]]
  BY DEF Init
<1>3. /\ fs \in [Roots -> SUBSET Paths] /\ present \in [Roots -> SUBSET Entries]
      /\ setup \in [Roots -> SUBSET Names] /\ torn \in [Roots -> SUBSET Entries]
  BY DEF Init
<1>4. faults \in 0 .. MaxFaults
  BY PackageAssumption DEF Init
<1> QED
  BY <1>1, <1>2, <1>3, <1>4, RootAssumption DEF Init, TypeOK, Tools

\* So is every successor of a well typed state, one step of the proof per action.
LEMMA TypeNext == TypeOK /\ [Next]_vars => TypeOK'
<1> SUFFICES ASSUME TypeOK, [Next]_vars PROVE TypeOK'
  OBVIOUS
<1> USE RootAssumption
<1>0. {} \in SUBSET Entries
  OBVIOUS
<1>1. ASSUME NEW a \in Archives, NEW r \in Roots, NEW re \in BOOLEAN,
             InstallPkg(a, r, re)
      PROVE  TypeOK'
  <2>1. CallInstallpkg(a, r, re, FALSE, {})
    BY <1>1 DEF InstallPkg
  <2>2. CallType
    BY <1>0, <2>1, CallInstallpkgType
  <2> QED
    BY <1>1, <2>2 DEF InstallPkg, TypeOK, CallType, Tools
<1>2. ASSUME NEW a \in Archives, NEW r \in Roots, NEW k \in {"cur", "old"},
             RemovePkg(a, k, r)
      PROVE  TypeOK'
  <2>1. <<Pkg[a], k>> \in Entries
    BY PackageAssumption DEF Entries
  <2>2. CallRemovepkg("removepkg", <<Pkg[a], k>>, r, {})
    BY <1>2 DEF RemovePkg
  <2>3. "removepkg" \in Tools
    BY DEF Tools
  <2>4. CallType
    BY <1>0, <2>1, <2>2, <2>3, CallRemovepkgType, Zenon
  <2> QED
    BY <1>2, <2>4 DEF RemovePkg, TypeOK, CallType, Tools
<1>3. ASSUME NEW a \in Archives, NEW r \in Roots, NEW i \in BOOLEAN,
             NEW re \in BOOLEAN, UpgradePkg(a, r, i, re)
      PROVE  TypeOK'
  <2>1. SameName(r, a) \ {Cur(a)} \in SUBSET Entries
    BY DEF SameName, TypeOK
  <2>2. CASE Exit(1) /\ upg' = FALSE /\ UNCHANGED <<disk, removal>>
    BY <1>3, <2>2 DEF UpgradePkg, Exit, TypeOK, Tools, disk, removal
  <2>3. CASE upg' = FALSE /\ CallInstallpkg(a, r, FALSE, FALSE, {})
    <3>1. CallType
      BY <1>0, <2>3, CallInstallpkgType
    <3> QED
      BY <1>3, <2>3, <3>1 DEF UpgradePkg, TypeOK, CallType, Tools
  <2>4. CASE upg' = TRUE /\ CallInstallpkg(a, r, re, TRUE, SameName(r, a) \ {Cur(a)})
    <3>1. CallType
      BY <2>1, <2>4, CallInstallpkgType
    <3> QED
      BY <1>3, <2>4, <3>1 DEF UpgradePkg, TypeOK, CallType, Tools
  <2> QED
    BY <1>3, <2>2, <2>3, <2>4 DEF UpgradePkg
<1>4. CASE Extract
  BY <1>4 DEF Extract, NextLines, TypeOK, request, removal
<1>5. CASE ExtractEntry
  BY <1>5, EntriesOfArchive DEF ExtractEntry, TypeOK, request, removal
<1>6. CASE TarEnds
  <2>1. faults' \in 0 .. MaxFaults
    BY <1>6, PackageAssumption DEF TarEnds, Fault, TypeOK
  <2> QED
    BY <1>6, <2>1 DEF TarEnds, TypeOK, Steps, disk, request, removal
<1>7. CASE WriteContents
  <2>1. faults' \in 0 .. MaxFaults
    BY <1>7, PackageAssumption DEF WriteContents, Fault, TypeOK
  <2>2. Ships[pkg] \in SUBSET Paths
    BY ShipsAssumption DEF TypeOK
  <2>3. contents' \in [Roots -> [Entries -> SUBSET Paths]] /\ torn' \in [Roots -> SUBSET Entries]
    BY <1>7, <2>2, PrefixType, SaveContentsType DEF WriteContents, TypeOK
  <2> QED
    BY <1>7, <2>1, <2>3 DEF WriteContents, TypeOK, Steps, request, removal
<1>8. CASE Doinst
  BY <1>8, PackageAssumption DEF Doinst, TypeOK, Steps, request, removal
<1>9. CASE CheckOld
  <2>1. Old(pkg) \in Entries /\ "installpkg" \in Tools
    BY EntriesOfArchive DEF TypeOK, Tools
  <2>2. CASE CallRemovepkg("installpkg", Old(pkg), Slash, olds)
    BY <1>9, <2>1, <2>2, CallRemovepkgType DEF CheckOld, TypeOK, CallType, request
  <2>3. CASE ReturnInstall(upg, 0, olds) /\ UNCHANGED <<disk, removal>>
    BY <1>9, <2>3, ReturnInstallType DEF CheckOld, TypeOK, Steps, request, disk, removal
  <2> QED
    BY <1>9, <2>2, <2>3 DEF CheckOld
<1>10. CASE Douninst
  BY <1>10 DEF Douninst, TypeOK, Steps, request, removal
<1>11. CASE RmFile
  BY <1>11 DEF RmFile, NextLines, TypeOK, request, removal
<1>12. CASE RmFilesDone
  BY <1>12 DEF RmFilesDone, TypeOK, Steps, disk, request, removal
<1>13. CASE RmDir
  BY <1>13 DEF RmDir, NextLines, TypeOK, request, removal
<1>14. CASE RmEntry
  <2>1. ReturnRemove(caller, 0)
    BY <1>14 DEF RmEntry
  <2>2. contents' \in [Roots -> [Entries -> SUBSET Paths]]
    BY <1>14 DEF RmEntry, TypeOK
  <2>3. present' \in [Roots -> SUBSET Entries] /\ torn' \in [Roots -> SUBSET Entries]
    BY <1>14 DEF RmEntry, TypeOK
  <2> QED
    BY <1>14, <2>1, <2>2, <2>3, ReturnRemoveType DEF RmEntry, TypeOK, Steps, request, removal
<1>15. CASE NextOld
  <2>1. CASE Exit(0) /\ UNCHANGED <<disk, removal>>
    BY <1>15, <2>1 DEF NextOld, Exit, TypeOK, disk, request, removal
  <2>2. ASSUME NEW e \in olds, CallRemovepkg("upgradepkg", e, root, olds \ {e})
        PROVE  TypeOK'
    <3>1. e \in Entries /\ olds \ {e} \in SUBSET Entries /\ "upgradepkg" \in Tools
      BY DEF TypeOK, Tools
    <3> QED
      BY <1>15, <2>2, <3>1, CallRemovepkgType DEF NextOld, TypeOK, CallType, request
  <2> QED
    BY <1>15, <2>1, <2>2 DEF NextOld
<1>16. ASSUME NEW r \in Roots, NEW f \in Local, CreateLocal(r, f)
       PROVE  TypeOK'
  BY <1>16, PathAssumption DEF CreateLocal, TypeOK, Paths, request, removal
<1>17. CASE Crash
  <2>1. faults' \in 0 .. MaxFaults
    BY <1>17, PackageAssumption DEF Crash, Fault, TypeOK
  <2>2. contents' \in [Roots -> [Entries -> SUBSET Paths]] /\ torn' \in [Roots -> SUBSET Entries]
    BY <1>17, PrefixType, SaveContentsType DEF Crash, TypeOK
  <2> QED
    BY <1>17, <2>1, <2>2 DEF Crash, Exit, TypeOK, request, removal
<1>18. CASE UNCHANGED vars
  BY <1>18 DEF vars, TypeOK, disk, request, removal
<1> QED
  BY <1>1, <1>2, <1>3, <1>4, <1>5, <1>6, <1>7, <1>8, <1>9, <1>10, <1>11,
     <1>12, <1>13, <1>14, <1>15, <1>16, <1>17, <1>18 DEF Next, Command, Step

\* The type invariant: the fields of the disk and of the running script keep their
\* types in every step of every tool.
THEOREM TypeCorrect == Spec => []TypeOK
BY TypeInit, TypeNext, PTL DEF Spec

-----------------------------------------------------------------------------
(* Provided files are present *)

Inv == TypeOK /\ ProvidedFilesPresent /\ RemovalInv

\* The parts of Inv that speak of the disk alone.
DiskInv ==
  /\ ProvidedFilesPresent
  /\ \A r \in Roots : \A e \in Entries \ present[r] : contents[r][e] = {}

\* A step that leaves files, entries and lists alone keeps them.
LEMMA DiskUnchanged ==
  ASSUME Inv, UNCHANGED <<fs, present, contents, torn>>
  PROVE  DiskInv'
BY DEF Inv, DiskInv, ProvidedFilesPresent, RemovalInv

\* At the prompt, and between the old versions, RemovalInv says no more.
LEMMA AtRest ==
  ASSUME DiskInv', pc' \in {"idle", "nextold", "doinst", "checkold"}
  PROVE  ProvidedFilesPresent' /\ RemovalInv'
BY DEF DiskInv, RemovalInv

LEMMA ReturnInstallRests ==
  ASSUME NEW u, NEW s, NEW o, ReturnInstall(u, s, o)
  PROVE  pc' \in {"idle", "nextold"}
BY DEF ReturnInstall, Continue, Exit

LEMMA ReturnRemoveRests ==
  ASSUME NEW c, NEW s, ReturnRemove(c, s)
  PROVE  pc' \in {"idle", "nextold"}
<1>1. ReturnInstall(upg, s, olds) \/ Continue(olds) \/ Exit(1) \/ Exit(s)
  BY DEF ReturnRemove
<1> QED
  BY <1>1, ReturnInstallRests DEF Continue, Exit

\* A call of removepkg starts on an entry that exists, or returns.
LEMMA CallRemovepkgKeeps ==
  ASSUME Inv, NEW c, NEW e, NEW r, NEW o, CallRemovepkg(c, e, r, o)
  PROVE  ProvidedFilesPresent' /\ RemovalInv'
<1>1. UNCHANGED <<fs, present, contents, torn>> /\ ent' = e /\ at' = r
  BY DEF CallRemovepkg, disk
<1>2. DiskInv'
  BY <1>1, DiskUnchanged
<1>3. CASE e \in present[r]
  BY <1>1, <1>2, <1>3 DEF CallRemovepkg, DiskInv, RemovalInv
<1>4. CASE e \notin present[r]
  <2>1. ReturnRemove(c, 2)
    BY <1>4 DEF CallRemovepkg
  <2>2. pc' \in {"idle", "nextold"}
    BY <2>1, ReturnRemoveRests
  <2> QED
    BY <1>2, <2>2, AtRest
<1> QED
  BY <1>3, <1>4

\* An entry that is set aside takes its list and its mark along.
LEMMA SetAsideKeeps ==
  ASSUME Inv, NEW r \in Roots, NEW a \in Archives, SetAside(r, a), UNCHANGED fs,
         Cur(a) \in present[r]
  PROVE  DiskInv'
<1> DEFINE to == IF Old(a) \in present[r] THEN Nested(a) ELSE Old(a)
<1>1. to \in Entries /\ Cur(a) \in Entries /\ to # Cur(a)
  BY EntriesOfArchive DEF Old, Nested, Cur
<1>2. CASE to \in present[r]
  BY <1>2, DiskUnchanged DEF SetAside
<1>3. CASE to \notin present[r]
  <2> DEFINE t == IF Cur(a) \in torn[r] THEN (torn[r] \ {Cur(a)}) \cup {to} ELSE torn[r]
  <2>1. /\ present' = [present EXCEPT ![r] = (@ \ {Cur(a)}) \cup {to}]
        /\ contents' = [contents EXCEPT ![r] =
                          [@ EXCEPT ![to] = contents[r][Cur(a)], ![Cur(a)] = {}]]
        /\ torn' = [torn EXCEPT ![r] = t]
    BY <1>3 DEF SetAside
  <2>2. /\ present'[r] = (present[r] \ {Cur(a)}) \cup {to}
        /\ torn'[r] = t
        /\ contents'[r][to] = contents[r][Cur(a)]
        /\ contents'[r][Cur(a)] = {}
        /\ \A e \in Entries \ {to, Cur(a)} : contents'[r][e] = contents[r][e]
        /\ \A q \in Roots \ {r} : /\ present'[q] = present[q] /\ torn'[q] = torn[q]
                                  /\ contents'[q] = contents[q]
    BY <1>1, <2>1 DEF Inv, TypeOK
  <2> HIDE DEF to
  <2>3. ASSUME NEW q \in Roots, NEW e \in present'[q] \ torn'[q]
        PROVE  contents'[q][e] \cap Countable \subseteq fs[q]
    <3>1. CASE q # r
      BY <2>2, <2>3, <3>1 DEF Inv, ProvidedFilesPresent
    <3>2. CASE q = r /\ e = to
      BY <1>3, <2>2, <2>3, <3>2 DEF Inv, ProvidedFilesPresent
    <3>3. CASE q = r /\ e # to
      BY <1>1, <2>2, <2>3, <3>3 DEF Inv, ProvidedFilesPresent, TypeOK
    <3> QED
      BY <3>1, <3>2, <3>3
  <2>4. ASSUME NEW q \in Roots, NEW e \in Entries \ present'[q]
        PROVE  contents'[q][e] = {}
    <3>1. CASE q # r
      BY <2>2, <2>4, <3>1 DEF Inv, RemovalInv
    <3>2. CASE q = r
      BY <1>1, <2>2, <2>4, <3>2 DEF Inv, RemovalInv
    <3> QED
      BY <3>1, <3>2
  <2> QED
    BY <2>3, <2>4 DEF DiskInv, ProvidedFilesPresent
<1> QED
  BY <1>2, <1>3

\* A call of installpkg starts with nothing extracted, or returns.
LEMMA CallInstallpkgKeeps ==
  ASSUME Inv, NEW a \in Archives, NEW r \in Roots, NEW re, NEW u, NEW o,
         pkg' = a, CallInstallpkg(a, r, re, u, o)
  PROVE  ProvidedFilesPresent' /\ RemovalInv'
<1>1. UNCHANGED fs
  BY DEF CallInstallpkg
<1>2. CASE Cur(a) \in present[r] /\ ~re
  <2>1. ReturnInstall(u, 2, o) /\ UNCHANGED <<present, contents, torn>>
    BY <1>2 DEF CallInstallpkg
  <2> QED
    BY <1>1, <2>1, ReturnInstallRests, DiskUnchanged, AtRest
<1>3. CASE ~(Cur(a) \in present[r] /\ ~re)
  <2>1. DiskInv'
    <3>1. CASE Cur(a) \in present[r]
      BY <1>1, <1>3, <3>1, SetAsideKeeps DEF CallInstallpkg
    <3>2. CASE Cur(a) \notin present[r]
      BY <1>1, <1>3, <3>2, DiskUnchanged DEF CallInstallpkg
    <3> QED
      BY <3>1, <3>2
  <2>2. pc' = "extract" /\ todo' = Ships[a]
    BY <1>3 DEF CallInstallpkg
  <2> QED
    BY <2>1, <2>2 DEF DiskInv, RemovalInv
<1> QED
  BY <1>2, <1>3

\* The contents file that installpkg writes lists files that tar has extracted,
\* also when only a part of it reaches the disk.
LEMMA SaveContentsKeeps ==
  ASSUME Inv, pc = "list", NEW part \in SUBSET Ships[pkg], SaveContents(part),
         UNCHANGED <<fs, present, root, pkg>>
  PROVE  DiskInv'
<1>1. pkg \in Archives /\ root \in Roots /\ Cur(pkg) \in Entries
  BY EntriesOfArchive DEF Inv, TypeOK
<1>2. CASE Cur(pkg) \notin present[root]
  BY <1>2, DiskUnchanged DEF SaveContents
<1>3. CASE Cur(pkg) \in present[root]
  <2>1. /\ contents'[root][Cur(pkg)] = part
        /\ \A e \in Entries \ {Cur(pkg)} : contents'[root][e] = contents[root][e]
        /\ \A q \in Roots \ {root} : contents'[q] = contents[q]
    BY <1>1, <1>3 DEF SaveContents, Inv, TypeOK
  <2>2. /\ torn'[root] = IF todo = {} THEN torn[root] \ {Cur(pkg)} ELSE torn[root] \cup {Cur(pkg)}
        /\ \A q \in Roots \ {root} : torn'[q] = torn[q]
    BY <1>1, <1>3 DEF SaveContents, Mark, Inv, TypeOK
  <2>3. todo = {} => part \subseteq fs[root]
    BY DEF Inv, RemovalInv
  <2>4. ASSUME NEW q \in Roots, NEW e \in present[q] \ torn'[q]
        PROVE  contents'[q][e] \cap Countable \subseteq fs[q]
    <3>1. CASE q = root /\ e = Cur(pkg)
      BY <2>1, <2>2, <2>3, <2>4, <3>1
    <3>2. CASE ~(q = root /\ e = Cur(pkg))
      BY <2>1, <2>2, <2>4, <3>2 DEF Inv, ProvidedFilesPresent, TypeOK
    <3> QED
      BY <3>1, <3>2
  <2>5. ASSUME NEW q \in Roots, NEW e \in Entries \ present[q]
        PROVE  contents'[q][e] = {}
    BY <1>3, <2>1, <2>5 DEF Inv, RemovalInv
  <2> QED
    BY <2>4, <2>5 DEF DiskInv, ProvidedFilesPresent
<1> QED
  BY <1>2, <1>3

\* The heart of removepkg: a countable line found once, among the lines of an entry
\* that is being removed, is in no other entry.
LEMMA OnlyLineIsMine ==
  ASSUME Inv, NEW f \in contents[at][ent] \cap Countable, ent \in present[at],
         OnlyLine(at, f),
         NEW e \in present[at], e # ent
  PROVE  f \notin contents[at][e]
<1>1. /\ at \in Roots /\ ent \in Entries /\ e \in Entries /\ f \in Paths
      /\ contents[at][e] \in SUBSET Paths
  BY DEF Inv, TypeOK
<1>2. PICK line \in Entries \X Paths : Lines(at, f) = {line}
  BY DEF OnlyLine
<1>3. f \in Hits[f]
  <2>1. line[2] \in Hits[f]
    BY <1>2 DEF Lines
  <2> QED
    BY <2>1 DEF Countable
<1>4. <<ent, f>> \in Lines(at, f)
  BY <1>1, <1>3 DEF Lines
<1>5. SUFFICES ASSUME f \in contents[at][e] PROVE FALSE
  OBVIOUS
<1>6. <<e, f>> \in Lines(at, f)
  BY <1>1, <1>3, <1>5 DEF Lines
<1> QED
  BY <1>2, <1>4, <1>6

\* removepkg_rmfile deletes no line of another package.
LEMMA RmFileKeeps ==
  ASSUME Inv, RmFile
  PROVE  ProvidedFilesPresent' /\ RemovalInv'
<1>1. PICK f \in todo :
        /\ fs' = IF ~IsDir(at, f) /\ OnlyLine(at, f) THEN [fs EXCEPT ![at] = @ \ {f}] ELSE fs
        /\ todo' = todo \ {f}
  BY DEF RmFile, NextLines
<1>2. /\ UNCHANGED <<present, contents, torn, pc, root, pkg, ent, at>>
      /\ pc = "rmfile"
  BY DEF RmFile, request, removal
<1>3. /\ ent \in present[at] /\ ent \in torn[at] /\ f \in contents[at][ent]
      /\ todo' \subseteq contents[at][ent]
  BY <1>1, <1>2 DEF Inv, RemovalInv
<1>4. ProvidedFilesPresent'
  <2>1. CASE fs' = fs
    BY <1>2, <2>1 DEF Inv, ProvidedFilesPresent
  <2>2. CASE OnlyLine(at, f) /\ fs' = [fs EXCEPT ![at] = @ \ {f}]
    <3>1. at \in Roots /\ fs'[at] = fs[at] \ {f} /\ \A q \in Roots \ {at} : fs'[q] = fs[q]
      BY <2>2 DEF Inv, TypeOK
    <3> SUFFICES ASSUME NEW q \in Roots, NEW e \in present[q] \ torn[q]
                 PROVE  contents[q][e] \cap Countable \subseteq fs'[q]
      BY <1>2 DEF ProvidedFilesPresent
    <3>2. contents[q][e] \cap Countable \subseteq fs[q]
      BY DEF Inv, ProvidedFilesPresent
    <3>3. CASE q # at
      BY <3>1, <3>2, <3>3
    <3>4. CASE q = at
      <4>1. f \notin contents[at][e] \cap Countable
        BY <1>3, <2>2, <3>4, OnlyLineIsMine
      <4> QED
        BY <3>1, <3>2, <3>4, <4>1
    <3> QED
      BY <3>3, <3>4
  <2> QED
    BY <1>1, <2>1, <2>2
<1>5. RemovalInv'
  BY <1>2, <1>3 DEF Inv, RemovalInv
<1> QED
  BY <1>4, <1>5

\* removepkg_rmdir removes nothing but directories.
LEMMA RmDirKeeps ==
  ASSUME Inv, RmDir
  PROVE  ProvidedFilesPresent' /\ RemovalInv'
<1>1. PICK d \in todo :
        /\ fs' = IF IsDir(at, d) /\ OnlyLine(at, d)
                 THEN [fs EXCEPT ![at] = @ \ RmdirP(at, d)] ELSE fs
        /\ todo' = todo \ {d}
  BY DEF RmDir, NextLines
<1>2. /\ UNCHANGED <<present, contents, torn, pc, root, pkg, ent, at>>
      /\ pc = "rmdir"
  BY DEF RmDir, request, removal
<1>3. at \in Roots /\ d \in Paths
  BY DEF Inv, TypeOK
<1>4. RmdirP(at, d) \subseteq Dirs
  <2>1. CASE d \notin Dirs
    BY <2>1 DEF RmdirP
  <2>2. CASE d \in Dirs
    BY <1>3, <2>2, PathAssumption DEF RmdirP
  <2> QED
    BY <2>1, <2>2
<1>5. \A q \in Roots : fs[q] \cap Countable \subseteq fs'[q]
  <2>1. CASE fs' = fs
    BY <2>1
  <2>2. CASE fs' = [fs EXCEPT ![at] = @ \ RmdirP(at, d)]
    BY <1>3, <1>4, <2>2 DEF Inv, TypeOK, Countable
  <2> QED
    BY <1>1, <2>1, <2>2
<1>6. ProvidedFilesPresent'
  BY <1>2, <1>5 DEF Inv, ProvidedFilesPresent
<1>7. RemovalInv'
  BY <1>1, <1>2 DEF Inv, RemovalInv
<1> QED
  BY <1>6, <1>7

\* The removed entry takes its list along.
LEMMA RmEntryKeeps ==
  ASSUME Inv, RmEntry
  PROVE  ProvidedFilesPresent' /\ RemovalInv'
<1>1. /\ present' = [present EXCEPT ![at] = @ \ Gone(ent)]
      /\ contents' = [contents EXCEPT ![at] =
                        [e \in Entries |-> IF e \in Gone(ent) THEN {} ELSE @[e]]]
      /\ torn' = [torn EXCEPT ![at] = @ \ Gone(ent)]
      /\ ReturnRemove(caller, 0)
      /\ UNCHANGED fs
  BY DEF RmEntry
<1>2. /\ present'[at] = present[at] \ Gone(ent)
      /\ torn'[at] = torn[at] \ Gone(ent)
      /\ \A e \in Entries : contents'[at][e] = IF e \in Gone(ent) THEN {} ELSE contents[at][e]
      /\ \A q \in Roots \ {at} : /\ present'[q] = present[q] /\ torn'[q] = torn[q]
                                 /\ contents'[q] = contents[q]
  BY <1>1 DEF Inv, TypeOK
<1>3. ASSUME NEW q \in Roots, NEW e \in present'[q] \ torn'[q]
      PROVE  contents'[q][e] \cap Countable \subseteq fs[q]
  <2>1. CASE q = at
    BY <1>2, <1>3, <2>1 DEF Inv, TypeOK, ProvidedFilesPresent
  <2>2. CASE q # at
    BY <1>2, <1>3, <2>2 DEF Inv, ProvidedFilesPresent
  <2> QED
    BY <2>1, <2>2
<1>4. ASSUME NEW q \in Roots, NEW e \in Entries \ present'[q]
      PROVE  contents'[q][e] = {}
  <2>1. CASE q = at
    BY <1>2, <1>4, <2>1 DEF Inv, RemovalInv
  <2>2. CASE q # at
    BY <1>2, <1>4, <2>2 DEF Inv, RemovalInv
  <2> QED
    BY <2>1, <2>2
<1>5. DiskInv'
  BY <1>1, <1>3, <1>4 DEF DiskInv, ProvidedFilesPresent
<1>6. pc' \in {"idle", "nextold"}
  BY <1>1, ReturnRemoveRests
<1> QED
  BY <1>5, <1>6, AtRest

\* The steps of installpkg.
LEMMA InstallStepsKeep ==
  ASSUME Inv, Extract \/ ExtractEntry \/ TarEnds \/ WriteContents \/ Doinst \/ CheckOld
  PROVE  ProvidedFilesPresent' /\ RemovalInv'
<1>0. root \in Roots /\ pkg \in Archives /\ Cur(pkg) \in Entries
  BY EntriesOfArchive DEF Inv, TypeOK
<1>1. CASE Extract
  <2>1. PICK f \in todo : fs' = [fs EXCEPT ![root] = @ \cup {f}] /\ todo' = todo \ {f}
    BY <1>1 DEF Extract, NextLines
  <2>2. UNCHANGED <<present, contents, torn, pc, root, pkg, ent, at>> /\ pc = "extract"
    BY <1>1 DEF Extract, request, removal
  <2>3. fs'[root] = fs[root] \cup {f} /\ \A q \in Roots \ {root} : fs'[q] = fs[q]
    BY <1>0, <2>1 DEF Inv, TypeOK
  <2>4. ProvidedFilesPresent'
    BY <2>2, <2>3 DEF Inv, ProvidedFilesPresent
  <2>5. Ships[pkg] \ todo' \subseteq fs'[root]
    BY <2>1, <2>2, <2>3 DEF Inv, RemovalInv
  <2> QED
    BY <2>2, <2>4, <2>5 DEF Inv, RemovalInv
<1>2. CASE ExtractEntry
  <2>1. /\ UNCHANGED <<fs, contents, torn, pc, root, pkg, ent, at, todo>> /\ pc = "extract"
        /\ Cur(pkg) \notin present[root]
        /\ present' = [present EXCEPT ![root] = @ \cup {Cur(pkg)}]
    BY <1>2 DEF ExtractEntry, request, removal
  <2>2. /\ present'[root] = present[root] \cup {Cur(pkg)}
        /\ \A q \in Roots \ {root} : present'[q] = present[q]
    BY <1>0, <2>1 DEF Inv, TypeOK
  <2>3. contents[root][Cur(pkg)] = {}
    BY <1>0, <2>1 DEF Inv, RemovalInv
  <2>4. ProvidedFilesPresent'
    BY <2>1, <2>2, <2>3 DEF Inv, ProvidedFilesPresent
  <2> QED
    BY <2>1, <2>2, <2>4 DEF Inv, RemovalInv
<1>3. CASE TarEnds
  <2>1. UNCHANGED <<fs, present, contents, torn, root, pkg, todo>> /\ pc = "extract" /\ pc' = "list"
    BY <1>3 DEF TarEnds, disk, request
  <2> QED
    BY <2>1, DiskUnchanged DEF Inv, DiskInv, RemovalInv
<1>4. CASE WriteContents
  <2>1. PICK part \in SUBSET Ships[pkg] : SaveContents(part)
    BY <1>4 DEF WriteContents, Prefixes
  <2>2. DiskInv'
    BY <1>4, <2>1, SaveContentsKeeps DEF WriteContents, request
  <2> QED
    BY <1>4, <2>2, AtRest DEF WriteContents
<1>5. CASE Doinst
  BY <1>5, DiskUnchanged, AtRest DEF Doinst
<1>6. CASE CheckOld
  <2>1. CASE CallRemovepkg("installpkg", Old(pkg), Slash, olds)
    BY <2>1, CallRemovepkgKeeps
  <2>2. CASE ReturnInstall(upg, 0, olds) /\ UNCHANGED <<disk, removal>>
    BY <2>2, ReturnInstallRests, DiskUnchanged, AtRest DEF disk
  <2> QED
    BY <1>6, <2>1, <2>2 DEF CheckOld
<1> QED
  BY <1>1, <1>2, <1>3, <1>4, <1>5, <1>6

\* Inv is inductive: one step per action.
LEMMA InvIsInvariant == Spec => []Inv
<1>1. Init => Inv
  <2> SUFFICES ASSUME Init PROVE ProvidedFilesPresent /\ RemovalInv
    BY TypeInit DEF Inv
  <2> QED
    BY DEF Init, ProvidedFilesPresent, RemovalInv
<1>2. Inv /\ [Next]_vars => Inv'
  <2> SUFFICES ASSUME Inv, [Next]_vars PROVE ProvidedFilesPresent' /\ RemovalInv'
    BY TypeNext DEF Inv
  <2>1. ASSUME NEW a \in Archives, NEW r \in Roots, NEW re \in BOOLEAN,
               InstallPkg(a, r, re)
        PROVE  ProvidedFilesPresent' /\ RemovalInv'
    BY <2>1, CallInstallpkgKeeps DEF InstallPkg
  <2>2. ASSUME NEW a \in Archives, NEW r \in Roots, NEW k \in {"cur", "old"},
               RemovePkg(a, k, r)
        PROVE  ProvidedFilesPresent' /\ RemovalInv'
    BY <2>2, CallRemovepkgKeeps DEF RemovePkg
  <2>3. ASSUME NEW a \in Archives, NEW r \in Roots, NEW i \in BOOLEAN,
               NEW re \in BOOLEAN, UpgradePkg(a, r, i, re)
        PROVE  ProvidedFilesPresent' /\ RemovalInv'
    <3>1. CASE Exit(1) /\ UNCHANGED <<disk, removal>>
      BY <3>1, DiskUnchanged, AtRest DEF Exit, disk
    <3>2. CASE CallInstallpkg(a, r, FALSE, FALSE, {})
      BY <2>3, <3>2, CallInstallpkgKeeps DEF UpgradePkg
    <3>3. CASE CallInstallpkg(a, r, re, TRUE, SameName(r, a) \ {Cur(a)})
      BY <2>3, <3>3, CallInstallpkgKeeps DEF UpgradePkg
    <3> QED
      BY <2>3, <3>1, <3>2, <3>3 DEF UpgradePkg
  <2>4. CASE Extract \/ ExtractEntry \/ TarEnds \/ WriteContents \/ Doinst \/ CheckOld
    BY <2>4, InstallStepsKeep
  <2>5. CASE Douninst
    <3>1. /\ UNCHANGED <<fs, present, contents, ent, at, root, pkg>>
          /\ pc = "douninst" /\ pc' = "rmfile" /\ todo' = contents[at][ent]
          /\ torn' = [torn EXCEPT ![at] = @ \cup {ent}]
      BY <2>5 DEF Douninst, request, removal
    <3>2. /\ torn'[at] = torn[at] \cup {ent}
          /\ \A q \in Roots \ {at} : torn'[q] = torn[q]
      BY <3>1 DEF Inv, TypeOK
    <3>3. ProvidedFilesPresent'
      BY <3>1, <3>2 DEF Inv, ProvidedFilesPresent
    <3> QED
      BY <3>1, <3>2, <3>3 DEF Inv, RemovalInv
  <2>6. CASE RmFile
    BY <2>6, RmFileKeeps
  <2>7. CASE RmFilesDone
    BY <2>7, DiskUnchanged DEF RmFilesDone, Inv, RemovalInv, DiskInv, disk, request, removal
  <2>8. CASE RmDir
    BY <2>8, RmDirKeeps
  <2>9. CASE RmEntry
    BY <2>9, RmEntryKeeps
  <2>10. CASE NextOld
    <3>1. CASE Exit(0) /\ UNCHANGED <<disk, removal>>
      BY <3>1, DiskUnchanged, AtRest DEF Exit, disk
    <3>2. ASSUME NEW e \in olds, CallRemovepkg("upgradepkg", e, root, olds \ {e})
          PROVE  ProvidedFilesPresent' /\ RemovalInv'
      BY <3>2, CallRemovepkgKeeps
    <3> QED
      BY <2>10, <3>1, <3>2 DEF NextOld
  <2>11. ASSUME NEW r \in Roots, NEW f \in Local, CreateLocal(r, f)
         PROVE  ProvidedFilesPresent' /\ RemovalInv'
    <3>1. \A q \in Roots : fs[q] \subseteq fs'[q]
      BY <2>11 DEF CreateLocal, Inv, TypeOK
    <3>2. UNCHANGED <<present, contents, torn, pc>> /\ pc = "idle"
      BY <2>11 DEF CreateLocal
    <3>3. ProvidedFilesPresent'
      BY <3>1, <3>2 DEF Inv, ProvidedFilesPresent
    <3> QED
      BY <3>2, <3>3 DEF Inv, RemovalInv
  <2>12. CASE Crash
    <3>1. UNCHANGED <<fs, present, root, pkg>> /\ pc' = "idle"
      BY <2>12 DEF Crash, Exit, request
    <3>2. CASE UNCHANGED <<contents, torn>>
      BY <3>1, <3>2, DiskUnchanged, AtRest
    <3>3. ASSUME pc = "list", NEW part \in Prefixes(Ships[pkg]), SaveContents(part)
          PROVE  ProvidedFilesPresent' /\ RemovalInv'
      BY <3>1, <3>3, SaveContentsKeeps, AtRest DEF Prefixes
    <3> QED
      BY <2>12, <3>2, <3>3 DEF Crash
  <2>13. CASE UNCHANGED vars
    BY <2>13, DiskUnchanged DEF vars, disk, request, removal, Inv, RemovalInv, DiskInv
  <2> QED
    BY <2>1, <2>2, <2>3, <2>4, <2>5, <2>6, <2>7, <2>8, <2>9, <2>10, <2>11,
       <2>12, <2>13 DEF Next, Command, Step
<1> QED
  BY <1>1, <1>2, PTL DEF Spec

\* For every set of roots, archives and paths, every way names match as regular
\* expressions, and every pattern of crashes and extraction failures: no
\* installation, removal or upgrade deletes a file or link that an entry lists,
\* unless that entry's own removal has begun or its extraction failed, or its name
\* matches others and not itself (a[1] matches a1), for which the count is wrong.
THEOREM FilesAreKept == Spec => []ProvidedFilesPresent
BY InvIsInvariant, PTL DEF Inv

-----------------------------------------------------------------------------
(* Files of the administrator *)

\* No contents file lists a file of the administrator.
NoLocalLines == \A r \in Roots : \A e \in Entries : contents[r][e] \cap Local = {}

\* Setting an entry aside moves its list.
LEMMA SetAsideOwn ==
  ASSUME TypeOK, NoLocalLines, NEW r \in Roots, NEW a \in Archives, SetAside(r, a)
  PROVE  NoLocalLines'
<1> DEFINE to == IF Old(a) \in present[r] THEN Nested(a) ELSE Old(a)
<1>1. to \in Entries /\ Cur(a) \in Entries
  BY EntriesOfArchive
<1>2. CASE to \in present[r]
  BY <1>2 DEF SetAside, NoLocalLines
<1>3. CASE to \notin present[r]
  <2>1. contents' = [contents EXCEPT ![r] =
                       [@ EXCEPT ![to] = contents[r][Cur(a)], ![Cur(a)] = {}]]
    BY <1>3 DEF SetAside
  <2>2. /\ \A q \in Roots \ {r} : contents'[q] = contents[q]
        /\ contents'[r] = [contents[r] EXCEPT ![to] = contents[r][Cur(a)], ![Cur(a)] = {}]
    BY <2>1 DEF TypeOK
  <2> HIDE DEF to
  <2>3. \A e \in Entries : contents'[r][e] \in {contents[r][e], contents[r][Cur(a)], {}}
    BY <1>1, <2>2 DEF TypeOK
  <2>4. \A e \in Entries : contents'[r][e] \cap Local = {}
    <3>1. TAKE e \in Entries
    <3>2. contents[r][e] \cap Local = {} /\ contents[r][Cur(a)] \cap Local = {}
      BY <1>1 DEF NoLocalLines
    <3>3. contents'[r][e] \in {contents[r][e], contents[r][Cur(a)], {}}
      BY <2>3
    <3> QED
      BY <3>2, <3>3
  <2> QED
    BY <2>2, <2>4 DEF NoLocalLines
<1> QED
  BY <1>2, <1>3

\* An archive has no file of the administrator, and so its list has none.
LEMMA SaveContentsOwn ==
  ASSUME TypeOK, NoLocalLines, NEW part \in SUBSET Ships[pkg], SaveContents(part)
  PROVE  NoLocalLines'
<1>1. pkg \in Archives /\ root \in Roots /\ Cur(pkg) \in Entries
  BY EntriesOfArchive DEF TypeOK
<1>2. part \cap Local = {}
  BY <1>1, ShipsAssumption
<1>3. CASE Cur(pkg) \notin present[root]
  BY <1>3 DEF SaveContents, NoLocalLines
<1>4. CASE Cur(pkg) \in present[root]
  <2>1. contents' = [contents EXCEPT ![root] = [@ EXCEPT ![Cur(pkg)] = part]]
    BY <1>4 DEF SaveContents
  <2>2. /\ \A q \in Roots \ {root} : contents'[q] = contents[q]
        /\ \A e \in Entries : contents'[root][e] \in {contents[root][e], part}
    BY <1>1, <2>1 DEF TypeOK
  <2> QED
    BY <1>2, <2>2 DEF NoLocalLines
<1> QED
  BY <1>3, <1>4

\* Calls of the tools move or drop lists and write none.
LEMMA CallInstallpkgOwn ==
  ASSUME TypeOK, NoLocalLines, NEW a \in Archives, NEW r \in Roots, NEW re, NEW u, NEW o,
         CallInstallpkg(a, r, re, u, o)
  PROVE  NoLocalLines' /\ fs' = fs
<1>1. SetAside(r, a) \/ UNCHANGED contents
  BY DEF CallInstallpkg
<1> QED
  BY <1>1, SetAsideOwn DEF CallInstallpkg, NoLocalLines

LEMMA CallRemovepkgOwn ==
  ASSUME NoLocalLines, NEW c, NEW e, NEW r, NEW o, CallRemovepkg(c, e, r, o)
  PROVE  NoLocalLines' /\ fs' = fs
BY DEF CallRemovepkg, NoLocalLines, disk

\* No step of the tools lists a file of the administrator or deletes one.  The two
\* loops of removepkg visit paths that the package lists; rmdir takes directories.
LEMMA OwnNext ==
  ASSUME Inv, NoLocalLines, [Next]_vars
  PROVE  NoLocalLines' /\ \A r \in Roots : fs[r] \cap Local \subseteq fs'[r]
<1> DEFINE Kept == NoLocalLines' /\ \A r \in Roots : fs[r] \cap Local \subseteq fs'[r]
<1>0. /\ TypeOK /\ root \in Roots /\ at \in Roots /\ pkg \in Archives
      /\ UNCHANGED <<contents, fs>> => Kept
  BY DEF Inv, TypeOK, NoLocalLines
<1>1. CASE Command
  <2>1. ASSUME NEW a \in Archives, NEW r \in Roots, NEW re \in BOOLEAN, InstallPkg(a, r, re)
        PROVE  Kept
    BY <1>0, <2>1, CallInstallpkgOwn DEF InstallPkg
  <2>2. ASSUME NEW a \in Archives, NEW r \in Roots, NEW k \in {"cur", "old"}, RemovePkg(a, k, r)
        PROVE  Kept
    BY <2>2, CallRemovepkgOwn DEF RemovePkg
  <2>3. ASSUME NEW a \in Archives, NEW r \in Roots, NEW i \in BOOLEAN, NEW re \in BOOLEAN,
               UpgradePkg(a, r, i, re)
        PROVE  Kept
    <3>1. CASE UNCHANGED <<disk, removal>>
      BY <1>0, <3>1 DEF disk
    <3>2. CASE CallInstallpkg(a, r, FALSE, FALSE, {})
      BY <1>0, <3>2, CallInstallpkgOwn
    <3>3. CASE CallInstallpkg(a, r, re, TRUE, SameName(r, a) \ {Cur(a)})
      BY <1>0, <3>3, CallInstallpkgOwn
    <3> QED
      BY <2>3, <3>1, <3>2, <3>3 DEF UpgradePkg
  <2> QED
    BY <1>1, <2>1, <2>2, <2>3 DEF Command
<1>2. CASE Extract
  <2>1. UNCHANGED contents /\ \E f \in todo : fs' = [fs EXCEPT ![root] = @ \cup {f}]
    BY <1>2 DEF Extract, NextLines
  <2> QED
    BY <1>0, <2>1 DEF TypeOK, NoLocalLines
<1>3. CASE ExtractEntry \/ TarEnds \/ Doinst \/ Douninst \/ RmFilesDone \/ UNCHANGED vars
  BY <1>0, <1>3 DEF ExtractEntry, TarEnds, Doinst, Douninst, RmFilesDone, vars, disk
<1>4. CASE WriteContents
  <2>1. \E part \in SUBSET Ships[pkg] : SaveContents(part)
    BY <1>4 DEF WriteContents, Prefixes
  <2> QED
    BY <1>0, <1>4, <2>1, SaveContentsOwn DEF WriteContents
<1>5. CASE CheckOld
  BY <1>0, <1>5, CallRemovepkgOwn DEF CheckOld, disk
<1>6. CASE NextOld
  BY <1>0, <1>6, CallRemovepkgOwn DEF NextOld, disk
<1>7. CASE RmFile
  <2>1. PICK f \in todo : fs' = fs \/ fs' = [fs EXCEPT ![at] = @ \ {f}]
    BY <1>7 DEF RmFile, NextLines
  <2>2. f \notin Local
    BY <1>0, <1>7 DEF RmFile, Inv, RemovalInv, TypeOK, NoLocalLines
  <2>3. UNCHANGED contents
    BY <1>7 DEF RmFile
  <2> QED
    BY <1>0, <2>1, <2>2, <2>3 DEF TypeOK, NoLocalLines
<1>8. CASE RmDir
  <2>1. PICK d \in todo : fs' = fs \/ fs' = [fs EXCEPT ![at] = @ \ RmdirP(at, d)]
    BY <1>8 DEF RmDir, NextLines
  <2>2. RmdirP(at, d) \cap Local = {}
    BY <1>0, PathAssumption DEF RmdirP, TypeOK, Paths
  <2>3. UNCHANGED contents
    BY <1>8 DEF RmDir
  <2> QED
    BY <1>0, <2>1, <2>2, <2>3 DEF TypeOK, NoLocalLines
<1>9. CASE RmEntry
  <2>1. /\ UNCHANGED fs
        /\ contents' = [contents EXCEPT ![at] =
                          [e \in Entries |-> IF e \in Gone(ent) THEN {} ELSE @[e]]]
    BY <1>9 DEF RmEntry
  <2> QED
    BY <1>0, <2>1 DEF TypeOK, NoLocalLines
<1>10. ASSUME NEW r \in Roots, NEW f \in Local, CreateLocal(r, f) PROVE Kept
  BY <1>0, <1>10 DEF CreateLocal, TypeOK, NoLocalLines
<1>11. CASE Crash
  <2>1. UNCHANGED contents \/ \E part \in SUBSET Ships[pkg] : SaveContents(part)
    BY <1>11 DEF Crash, Prefixes
  <2> QED
    BY <1>0, <1>11, <2>1, SaveContentsOwn DEF Crash, NoLocalLines
<1> QED
  BY <1>1, <1>2, <1>3, <1>4, <1>5, <1>6, <1>7, <1>8, <1>9, <1>10, <1>11 DEF Next, Step

\* installpkg, removepkg and upgradepkg, stopped anywhere, never delete a file that
\* the administrator has put into a directory that packages share.
THEOREM LocalFilesAreKept == Spec => LocalFilesStay
<1>1. Init => NoLocalLines
  BY DEF Init, NoLocalLines
<1>2. Inv /\ NoLocalLines /\ [Next]_vars => NoLocalLines'
  BY OwnNext
<1>3. Inv /\ NoLocalLines /\ [Next]_vars
        => [\A r \in Roots : fs[r] \cap Local \subseteq fs'[r]]_vars
  BY OwnNext
<1> QED
  BY <1>1, <1>2, <1>3, InvIsInvariant, PTL DEF Spec, LocalFilesStay

-----------------------------------------------------------------------------
(* The new version stays through an upgrade, where tar does not fail *)

\* The package is registered with all its paths.
Registered ==
  /\ Cur(pkg) \in present[root] \ torn[root]
  /\ contents[root][Cur(pkg)] = Ships[pkg]

\* What installpkg and upgradepkg have done when they get to a step: the new entry
\* is complete before an old one is removed, and it is not among the old ones.
NewStays ==
  cmd # "removepkg" =>
    /\ Cur(pkg) \notin olds
    /\ pc = "list" => Cur(pkg) \in present[root] /\ todo = {}
    /\ Removing \/ pc \in {"doinst", "checkold", "nextold"} => Registered
    /\ Removing => ent # Cur(pkg)

\* Ends of commands keep the old versions that are left, or drop them.
LEMMA ReturnRemoveOlds ==
  ASSUME NEW c, NEW s, ReturnRemove(c, s)
  PROVE  olds' = olds \/ olds' = {}
BY DEF ReturnRemove, ReturnInstall, Continue, Exit

\* A call of installpkg gets as far as tar, or ends.
LEMMA CallInstallpkgBegins ==
  ASSUME NEW a, NEW r, NEW re, NEW u, NEW o, CallInstallpkg(a, r, re, u, o)
  PROVE  pc' \in {"idle", "extract"} /\ (olds' = o \/ olds' = {})
BY DEF CallInstallpkg, ReturnInstall, Exit

LEMMA BeginKeepsNew ==
  ASSUME NewStays, Command
  PROVE  NewStays'
<1>1. ASSUME NEW a \in Archives, NEW r \in Roots, NEW re \in BOOLEAN, InstallPkg(a, r, re)
      PROVE  NewStays'
  <2>1. /\ CallInstallpkg(a, r, re, FALSE, {}) /\ pkg' = a
    BY <1>1 DEF InstallPkg
  <2>2. pc' \in {"idle", "extract"} /\ olds' = {}
    BY <2>1, CallInstallpkgBegins
  <2> QED
    BY <2>2 DEF NewStays, Removing
<1>2. ASSUME NEW a \in Archives, NEW r \in Roots, NEW k \in {"cur", "old"}, RemovePkg(a, k, r)
      PROVE  NewStays'
  BY <1>2 DEF RemovePkg, NewStays
<1>3. ASSUME NEW a \in Archives, NEW r \in Roots, NEW i \in BOOLEAN, NEW re \in BOOLEAN,
             UpgradePkg(a, r, i, re)
      PROVE  NewStays'
  <2>1. pkg' = a
    BY <1>3 DEF UpgradePkg
  <2>2. pc' \in {"idle", "extract"} /\ Cur(a) \notin olds'
    <3>1. CASE Exit(1)
      BY <3>1 DEF Exit
    <3>2. CASE CallInstallpkg(a, r, FALSE, FALSE, {})
      <4>1. pc' \in {"idle", "extract"} /\ (olds' = {} \/ olds' = {})
        BY <3>2, CallInstallpkgBegins, Zenon
      <4> QED
        BY <4>1
    <3>3. CASE CallInstallpkg(a, r, re, TRUE, SameName(r, a) \ {Cur(a)})
      <4>1. pc' \in {"idle", "extract"} /\ (olds' = SameName(r, a) \ {Cur(a)} \/ olds' = {})
        BY <3>3, CallInstallpkgBegins, Zenon
      <4> QED
        BY <4>1
    <3> QED
      BY <1>3, <3>1, <3>2, <3>3 DEF UpgradePkg
  <2> QED
    BY <2>1, <2>2 DEF NewStays, Removing, Cur
<1> QED
  BY <1>1, <1>2, <1>3 DEF Command

\* The entry that removepkg is given is another one.
LEMMA CallRemovepkgKeepsNew ==
  ASSUME NewStays, Registered, NEW c, NEW e, NEW r, NEW o \in SUBSET olds,
         e # Cur(pkg), CallRemovepkg(c, e, r, o), UNCHANGED request
  PROVE  NewStays'
<1>1. UNCHANGED <<present, contents, torn, cmd, root, pkg>> /\ ent' = e
  BY DEF CallRemovepkg, disk, request
<1>2. Registered'
  BY <1>1 DEF Registered, Cur
<1>3. pc' # "list" /\ olds' \subseteq olds
  <2>1. CASE e \in present[r]
    BY <2>1 DEF CallRemovepkg
  <2>2. CASE e \notin present[r]
    BY <2>2, ReturnRemoveRests, ReturnRemoveOlds DEF CallRemovepkg
  <2> QED
    BY <2>1, <2>2
<1> QED
  BY <1>1, <1>2, <1>3 DEF NewStays, Cur

LEMMA StepKeepsNew ==
  ASSUME Inv, NewStays, "tar" \notin Faults, Step, cmd # "removepkg"
  PROVE  NewStays'
<1>0. /\ root \in Roots /\ at \in Roots /\ pkg \in Archives
      /\ Cur(pkg) \in Entries /\ ent \in Entries
  BY EntriesOfArchive DEF Inv, TypeOK
<1>1. CASE Extract \/ ExtractEntry
  BY <1>1 DEF Extract, ExtractEntry, NewStays, Removing, request, Cur
<1>2. CASE TarEnds
  BY <1>2 DEF TarEnds, Fault, NewStays, Removing, disk, request, Cur
<1>3. CASE WriteContents
  <2>1. /\ SaveContents(Ships[pkg]) /\ pc = "list" /\ pc' = "doinst"
        /\ UNCHANGED <<present, request, olds>>
    BY <1>3 DEF WriteContents, Fault
  <2>2. Cur(pkg) \in present[root] /\ todo = {}
    BY <2>1 DEF NewStays
  <2>3. /\ contents' = [contents EXCEPT ![root] = [@ EXCEPT ![Cur(pkg)] = Ships[pkg]]]
        /\ torn' = [torn EXCEPT ![root] = @ \ {Cur(pkg)}]
    BY <2>1, <2>2 DEF SaveContents, Mark
  <2>4. /\ contents'[root][Cur(pkg)] = Ships[pkg]
        /\ Cur(pkg) \notin torn'[root]
    BY <1>0, <2>3 DEF Inv, TypeOK
  <2> QED
    BY <2>1, <2>2, <2>4 DEF NewStays, Registered, Removing, request, Cur
<1>4. CASE Doinst \/ RmFile \/ RmFilesDone \/ RmDir
  BY <1>4 DEF Doinst, RmFile, RmFilesDone, RmDir, NewStays, Removing, Registered,
     disk, request, removal, Cur
<1>5. CASE CheckOld
  <2>1. Registered /\ UNCHANGED request
    BY <1>5 DEF CheckOld, NewStays
  <2>2. CASE CallRemovepkg("installpkg", Old(pkg), Slash, olds)
    BY <2>1, <2>2, CallRemovepkgKeepsNew DEF Old, Cur
  <2>3. CASE ReturnInstall(upg, 0, olds) /\ UNCHANGED <<disk, removal>>
    <3>1. pc' \in {"idle", "nextold"} /\ (olds' = olds \/ olds' = {})
      BY <2>3 DEF ReturnInstall, Continue, Exit
    <3> QED
      BY <2>1, <2>3, <3>1 DEF NewStays, Registered, Removing, disk, request, Cur
  <2> QED
    BY <1>5, <2>2, <2>3 DEF CheckOld
<1>6. CASE Douninst
  <2>1. /\ pc = "douninst" /\ pc' = "rmfile"
        /\ torn' = [torn EXCEPT ![at] = @ \cup {ent}]
        /\ UNCHANGED <<present, contents, request, removal, olds>>
    BY <1>6 DEF Douninst
  <2>2. torn'[root] \subseteq torn[root] \cup {ent}
    BY <1>0, <2>1 DEF Inv, TypeOK
  <2> QED
    BY <2>1, <2>2 DEF NewStays, Registered, Removing, request, removal, Cur
<1>7. CASE RmEntry
  <2>1. /\ pc = "rmdir" /\ UNCHANGED request
        /\ present' = [present EXCEPT ![at] = @ \ Gone(ent)]
        /\ contents' = [contents EXCEPT ![at] =
                          [e \in Entries |-> IF e \in Gone(ent) THEN {} ELSE @[e]]]
        /\ torn' = [torn EXCEPT ![at] = @ \ Gone(ent)]
        /\ ReturnRemove(caller, 0)
    BY <1>7 DEF RmEntry
  <2>2. Registered /\ Cur(pkg) \notin Gone(ent)
    BY <2>1 DEF NewStays, Removing, Gone, Cur
  <2>3. /\ present[root] \ Gone(ent) \subseteq present'[root]
        /\ torn'[root] \subseteq torn[root]
        /\ contents'[root][Cur(pkg)] = contents[root][Cur(pkg)]
    BY <1>0, <2>1, <2>2 DEF Inv, TypeOK
  <2>4. pc' \in {"idle", "nextold"} /\ (olds' = olds \/ olds' = {})
    BY <2>1, ReturnRemoveRests, ReturnRemoveOlds
  <2> QED
    BY <2>1, <2>2, <2>3, <2>4 DEF NewStays, Registered, Removing, request, Cur
<1>8. CASE NextOld
  <2>1. Registered /\ UNCHANGED request /\ Cur(pkg) \notin olds
    BY <1>8 DEF NextOld, NewStays
  <2>2. CASE Exit(0) /\ UNCHANGED <<disk, removal>>
    BY <2>1, <2>2 DEF Exit, NewStays, Removing
  <2>3. ASSUME NEW e \in olds, CallRemovepkg("upgradepkg", e, root, olds \ {e})
        PROVE  NewStays'
    BY <2>1, <2>3, CallRemovepkgKeepsNew
  <2> QED
    BY <1>8, <2>2, <2>3 DEF NextOld
<1> QED
  BY <1>1, <1>2, <1>3, <1>4, <1>5, <1>6, <1>7, <1>8 DEF Step

LEMMA NewStaysNext ==
  ASSUME Inv, NewStays, "tar" \notin Faults, [Next]_vars
  PROVE  NewStays'
<1>1. CASE Step
  <2>1. cmd' = cmd
    BY <1>1 DEF Step, Extract, ExtractEntry, TarEnds, WriteContents, Doinst, CheckOld,
       Douninst, RmFile, RmFilesDone, RmDir, RmEntry, NextOld, request
  <2> QED
    BY <1>1, <2>1, StepKeepsNew DEF NewStays
<1>2. ASSUME NEW r \in Roots, NEW f \in Local, CreateLocal(r, f) PROVE NewStays'
  BY <1>2 DEF CreateLocal, NewStays, Removing, request, Cur
<1>3. CASE Crash
  BY <1>3 DEF Crash, Exit, NewStays, Removing
<1>4. CASE UNCHANGED vars
  BY <1>4 DEF vars, disk, request, removal, NewStays, Removing, Registered, Cur
<1> QED
  BY <1>1, <1>2, <1>3, <1>4, BeginKeepsNew DEF Next

\* What the loops of removepkg delete is not in the complete new entry.
LEMMA NoGapNext ==
  ASSUME Inv, NewStays, [Next]_vars, cmd = "upgradepkg", pc # "idle"
  PROVE  Ships[pkg] \cap Countable \cap fs[root] \subseteq fs'[root]
<1>0. root \in Roots /\ at \in Roots
  BY DEF Inv, TypeOK
<1>1. ~Command /\ \A r \in Roots, f \in Local : ~CreateLocal(r, f)
  BY DEF Command, InstallPkg, RemovePkg, UpgradePkg, CreateLocal
<1>2. CASE Extract
  BY <1>0, <1>2 DEF Extract, Inv, TypeOK
<1>3. CASE RmFile
  <2>1. PICK f \in todo : fs' = IF ~IsDir(at, f) /\ OnlyLine(at, f)
                                THEN [fs EXCEPT ![at] = @ \ {f}] ELSE fs
    BY <1>3 DEF RmFile, NextLines
  <2>2. /\ Registered /\ ent # Cur(pkg) /\ ent \in present[at] /\ f \in contents[at][ent]
    BY <1>3, <2>1 DEF RmFile, NewStays, Removing, Inv, RemovalInv
  <2>3. CASE at = root /\ OnlyLine(at, f)
    <3>1. f \notin Ships[pkg] \cap Countable
      BY <2>2, <2>3, OnlyLineIsMine DEF Registered
    <3> QED
      BY <1>0, <2>1, <3>1 DEF Inv, TypeOK
  <2> QED
    BY <1>0, <2>1, <2>3 DEF Inv, TypeOK
<1>4. CASE RmDir
  <2>1. PICK d \in todo : fs' = fs \/ fs' = [fs EXCEPT ![at] = @ \ RmdirP(at, d)]
    BY <1>4 DEF RmDir, NextLines
  <2>2. RmdirP(at, d) \subseteq Dirs
    BY PathAssumption DEF RmdirP, Inv, TypeOK, Paths
  <2> QED
    BY <1>0, <2>1, <2>2 DEF Inv, TypeOK, Countable
<1>5. CASE \/ ExtractEntry \/ TarEnds \/ WriteContents \/ Doinst \/ CheckOld
           \/ Douninst \/ RmFilesDone \/ RmEntry \/ NextOld
  BY <1>5 DEF ExtractEntry, TarEnds, WriteContents, Doinst, CheckOld, CallRemovepkg,
     Douninst, RmFilesDone, RmEntry, NextOld, disk
<1>6. CASE Crash \/ UNCHANGED vars
  BY <1>6 DEF Crash, vars, disk
<1> QED
  BY <1>1, <1>2, <1>3, <1>4, <1>5, <1>6 DEF Next, Step

LEMMA NewStaysInit == Init => NewStays
  BY DEF Init, NewStays

\* upgradepkg installs before it removes: whatever was interrupted before, no file
\* of the new version is missing at any moment once it is there, unless its name
\* matches others and not itself, or tar fails, which the tools do not notice.
THEOREM NoGap ==
  ASSUME "tar" \notin Faults
  PROVE  Spec => UpgradeHasNoGap
<1>1. Inv /\ NewStays /\ [Next]_vars => NewStays'
  BY NewStaysNext
<1>2. Inv /\ NewStays /\ [Next]_vars
        => [cmd = "upgradepkg" /\ pc # "idle" =>
              Ships[pkg] \cap Countable \cap fs[root] \subseteq fs'[root]]_vars
  BY NoGapNext
<1> QED
  BY <1>1, <1>2, NewStaysInit, InvIsInvariant, PTL DEF Spec, UpgradeHasNoGap

-----------------------------------------------------------------------------
(* One version is left, in the only root, where tar does not fail *)

\* What mv has put into a P@oldpkg has one around it, and no tool is asked for it.
NestedInOld ==
  /\ \A r \in Roots : \A p \in Packages :
       <<p, "nested">> \in present[r] => <<p, "old">> \in present[r]
  /\ \A e \in olds \cup {ent} : e[2] # "nested"

\* Entries of the name that is installed.
Others == {e \in present[root] : e[2] # "nested" /\ Name[e[1]] = Name[Pkg[pkg]]}

\* Where old versions can be while a package is installed: set aside, in the list of
\* upgradepkg, or being removed.
OldsSeen ==
  cmd # "removepkg" =>
    /\ upg => cmd = "upgradepkg"
    /\ ~upg => olds = {}
    /\ pc = "nextold" => upg /\ Old(pkg) \notin present[root]
    /\ Removing =>
         \/ caller = "installpkg" /\ ent = Old(pkg)
         \/ caller = "upgradepkg" /\ upg /\ Old(pkg) \notin present[root]
    /\ cmd = "upgradepkg" /\ pc # "idle" =>
         Others \subseteq {Cur(pkg), Old(pkg)} \cup olds \cup (IF Removing THEN {ent} ELSE {})

\* What exit status 0 has brought about.
Done ==
  cmd # "removepkg" /\ pc = "idle" /\ rc = 0 =>
    /\ Registered /\ Old(pkg) \notin present[root]
    /\ cmd = "upgradepkg" => Others \subseteq {Cur(pkg)}

UpgradeInv == NewStays /\ NestedInOld /\ OldsSeen /\ Done

LEMMA NestedSetAside ==
  ASSUME Inv, NestedInOld, NEW r \in Roots, NEW a \in Archives, SetAside(r, a)
  PROVE  /\ \A q \in Roots : \A p \in Packages :
              <<p, "nested">> \in present'[q] => <<p, "old">> \in present'[q]
         /\ present'[r] \subseteq present[r] \cup {Old(a), Nested(a)}
<1> DEFINE to == IF Old(a) \in present[r] THEN Nested(a) ELSE Old(a)
<1>1. CASE to \in present[r]
  BY <1>1 DEF SetAside, NestedInOld
<1>2. CASE to \notin present[r]
  <2>1. /\ present'[r] = (present[r] \ {Cur(a)}) \cup {to}
        /\ \A q \in Roots \ {r} : present'[q] = present[q]
    BY <1>2 DEF SetAside, Inv, TypeOK
  <2>2. /\ Cur(a) = <<Pkg[a], "cur">> /\ Old(a) = <<Pkg[a], "old">>
        /\ Nested(a) = <<Pkg[a], "nested">>
    BY DEF Cur, Old, Nested
  <2> QED
    BY <2>1, <2>2 DEF NestedInOld
<1> QED
  BY <1>1, <1>2

LEMMA CallInstallpkgOlds ==
  ASSUME Inv, NestedInOld, NEW a \in Archives, NEW r \in Roots, NEW re, NEW u, NEW o,
         \A e \in o : e[2] # "nested", CallInstallpkg(a, r, re, u, o)
  PROVE  /\ NestedInOld'
         /\ present'[r] \subseteq present[r] \cup {Old(a), Nested(a)}
         /\ Cur(a) \notin present[r] => present' = present
         /\ pc' = "idle" => rc' # 0
<1>1. pc' \in {"idle", "extract"} /\ (olds' = o \/ olds' = {}) /\ ent' = ent
  BY CallInstallpkgBegins DEF CallInstallpkg, removal
<1>2. SetAside(r, a) \/ present' = present
  BY DEF CallInstallpkg
<1>3. /\ \A q \in Roots : \A p \in Packages :
           <<p, "nested">> \in present'[q] => <<p, "old">> \in present'[q]
      /\ present'[r] \subseteq present[r] \cup {Old(a), Nested(a)}
  BY <1>2, NestedSetAside DEF NestedInOld
<1>4. pc' = "idle" => rc' # 0
  BY DEF CallInstallpkg, ReturnInstall, Exit
<1>5. Cur(a) \notin present[r] => present' = present
  BY DEF CallInstallpkg
<1> QED
  BY <1>1, <1>3, <1>4, <1>5 DEF NestedInOld

LEMMA CallRemovepkgNested ==
  ASSUME NestedInOld, NEW c, NEW e, NEW r, NEW o \in SUBSET olds, o = {} \/ c # "removepkg",
         e[2] # "nested", CallRemovepkg(c, e, r, o)
  PROVE  NestedInOld'
<1>1. present' = present /\ ent' = e
  BY DEF CallRemovepkg, disk
<1>2. olds' \subseteq olds
  <2>1. CASE e \in present[r]
    BY <2>1 DEF CallRemovepkg
  <2>2. CASE e \notin present[r]
    BY <2>2, ReturnRemoveOlds DEF CallRemovepkg
  <2> QED
    BY <2>1, <2>2
<1> QED
  BY <1>1, <1>2 DEF NestedInOld

LEMMA BeginKeepsOlds ==
  ASSUME Inv, UpgradeInv, Command
  PROVE  NestedInOld' /\ OldsSeen' /\ Done'
<1> USE DEF UpgradeInv
<1>1. ASSUME NEW a \in Archives, NEW r \in Roots, NEW re \in BOOLEAN, InstallPkg(a, r, re)
      PROVE  NestedInOld' /\ OldsSeen' /\ Done'
  <2> DEFINE none == {}
  <2>1. CallInstallpkg(a, r, re, FALSE, none) /\ cmd' = "installpkg" /\ upg' = FALSE
    BY <1>1 DEF InstallPkg
  <2>2. pc' \in {"idle", "extract"} /\ olds' = {}
    BY <2>1, CallInstallpkgBegins
  <2>3. \A e \in none : e[2] # "nested"
    OBVIOUS
  <2> HIDE DEF none
  <2>4. NestedInOld' /\ (pc' = "idle" => rc' # 0)
    BY <2>1, <2>3, CallInstallpkgOlds
  <2> QED
    BY <2>1, <2>2, <2>4 DEF OldsSeen, Done, Removing
<1>2. ASSUME NEW a \in Archives, NEW r \in Roots, NEW k \in {"cur", "old"}, RemovePkg(a, k, r)
      PROVE  NestedInOld' /\ OldsSeen' /\ Done'
  <2>1. CallRemovepkg("removepkg", <<Pkg[a], k>>, r, {}) /\ cmd' = "removepkg"
    BY <1>2 DEF RemovePkg
  <2>2. {} \in SUBSET olds /\ <<Pkg[a], k>>[2] # "nested"
    OBVIOUS
  <2>3. NestedInOld'
    BY <2>1, <2>2, CallRemovepkgNested, Zenon
  <2> QED
    BY <2>1, <2>3 DEF OldsSeen, Done
<1>3. ASSUME NEW a \in Archives, NEW r \in Roots, NEW i \in BOOLEAN, NEW re \in BOOLEAN,
             UpgradePkg(a, r, i, re)
      PROVE  NestedInOld' /\ OldsSeen' /\ Done'
  <2> DEFINE same == SameName(r, a)
  <2>0. pkg' = a /\ root' = r /\ cmd' = "upgradepkg"
    BY <1>3 DEF UpgradePkg
  <2>1. CASE upg' = FALSE /\ Exit(1) /\ UNCHANGED <<disk, removal>>
    <3>1. pc' = "idle" /\ rc' = 1 /\ olds' = {} /\ present' = present /\ ent' = ent
      BY <2>1 DEF Exit, disk, removal
    <3> QED
      BY <2>0, <2>1, <3>1 DEF NestedInOld, OldsSeen, Done, Removing
  <2>2. CASE same = {} /\ upg' = FALSE /\ CallInstallpkg(a, r, FALSE, FALSE, {})
    <3>1. pc' \in {"idle", "extract"} /\ (olds' = {} \/ olds' = {})
      BY <2>2, CallInstallpkgBegins, Zenon
    <3>2. Cur(a) \notin present[r]
      BY <2>2 DEF SameName, Cur
    <3>3. \A e \in {} : e[2] # "nested"
      OBVIOUS
    <3>4. NestedInOld' /\ present' = present /\ (pc' = "idle" => rc' # 0)
      BY <2>2, <3>2, <3>3, CallInstallpkgOlds
    <3>5. Others' = {}
      BY <2>0, <2>2, <3>4 DEF Others, SameName
    <3> QED
      BY <2>0, <2>2, <3>1, <3>4, <3>5 DEF OldsSeen, Done, Removing
  <2>3. CASE upg' = TRUE /\ CallInstallpkg(a, r, re, TRUE, same \ {Cur(a)})
    <3> DEFINE o == same \ {Cur(a)}
    <3>1. pc' \in {"idle", "extract"} /\ (olds' = o \/ olds' = {})
      BY <2>3, CallInstallpkgBegins, Zenon
    <3>2. \A e \in o : e[2] # "nested"
      BY DEF SameName
    <3>3. /\ NestedInOld' /\ (pc' = "idle" => rc' # 0)
          /\ present'[r] \subseteq present[r] \cup {Old(a), Nested(a)}
      BY <2>3, <3>2, CallInstallpkgOlds
    <3>4. pc' = "extract" => olds' = o
      BY <2>3 DEF CallInstallpkg, ReturnInstall, Exit
    <3>5. Others' \subseteq {Cur(a), Old(a)} \cup o
      BY <2>0, <3>3 DEF Others, SameName, Nested
    <3> QED
      BY <2>0, <2>3, <3>1, <3>3, <3>4, <3>5 DEF OldsSeen, Done, Removing, Cur, Old
  <2> QED
    BY <1>3, <2>1, <2>2, <2>3 DEF UpgradePkg
<1> QED
  BY <1>1, <1>2, <1>3 DEF Command

\* Steps that leave the entries alone.
LEMMA QuietStep ==
  ASSUME UpgradeInv, UNCHANGED <<present, request, olds, removal>>,
         \/ /\ pc \in {"extract", "list", "doinst"}
            /\ pc' \in {"extract", "list", "doinst", "checkold"}
         \/ Removing /\ Removing'
  PROVE  NestedInOld' /\ OldsSeen' /\ Done'
<1>1. UNCHANGED <<present, cmd, pkg, root, upg, olds, caller, ent>> /\ Others' = Others
  BY DEF request, removal, Others
<1> QED
  BY <1>1 DEF UpgradeInv, NestedInOld, OldsSeen, Done, Removing, Cur, Old

LEMMA InstallStepKeepsOlds ==
  ASSUME Inv, UpgradeInv, Roots = {Slash},
         Extract \/ ExtractEntry \/ TarEnds \/ WriteContents \/ Doinst \/ CheckOld
  PROVE  NestedInOld' /\ OldsSeen' /\ Done'
<1> USE DEF UpgradeInv
<1>0. root = Slash /\ pkg \in Archives
  BY DEF Inv, TypeOK
<1>1. CASE Extract \/ TarEnds \/ WriteContents \/ Doinst
  BY <1>1, QuietStep DEF Extract, TarEnds, WriteContents, Doinst, disk
<1>2. CASE ExtractEntry
  <2>1. /\ pc = "extract" /\ pc' = pc /\ UNCHANGED <<request, olds, removal>>
        /\ present' = [present EXCEPT ![root] = @ \cup {Cur(pkg)}]
    BY <1>2 DEF ExtractEntry
  <2>2. present'[root] = present[root] \cup {Cur(pkg)}
    BY <1>0, <2>1 DEF Inv, TypeOK
  <2>3. Others' \subseteq Others \cup {Cur(pkg)}
    BY <2>1, <2>2 DEF Others, request
  <2>4. NestedInOld'
    BY <1>0, <2>1, <2>2 DEF NestedInOld, removal, Cur
  <2> QED
    BY <2>1, <2>3, <2>4 DEF OldsSeen, Done, Removing, request, Cur, Old
<1>3. CASE CheckOld
  <2>0. /\ pc = "checkold" /\ UNCHANGED request
        /\ cmd # "removepkg" => Registered
    BY <1>3 DEF CheckOld, NewStays
  <2>1. CASE Old(pkg) \in present[root] /\ CallRemovepkg("installpkg", Old(pkg), Slash, olds)
    <3>1. /\ pc' = "douninst" /\ caller' = "installpkg" /\ ent' = Old(pkg)
          /\ olds' = olds /\ present' = present
      BY <1>0, <2>1 DEF CallRemovepkg, disk
    <3>2. Others' = Others
      BY <2>0, <3>1 DEF Others, request
    <3> QED
      BY <2>0, <3>1, <3>2 DEF NestedInOld, OldsSeen, Done, Removing, request, Cur, Old
  <2>2. CASE /\ Old(pkg) \notin present[root]
             /\ ReturnInstall(upg, 0, olds) /\ UNCHANGED <<disk, removal>>
    <3>1. /\ present' = present /\ ent' = ent /\ Others' = Others
          /\ Registered' = Registered
      BY <2>0, <2>2 DEF disk, removal, Others, request, Registered, Cur
    <3>2. CASE upg /\ pc' = "nextold" /\ olds' = olds
      BY <2>0, <2>2, <3>1, <3>2 DEF NestedInOld, OldsSeen, Done, Removing, request, Cur, Old
    <3>3. CASE ~upg /\ pc' = "idle" /\ olds' = {}
      <4>1. NestedInOld' /\ OldsSeen'
        BY <2>0, <2>2, <3>1, <3>3 DEF NestedInOld, OldsSeen, Removing, request
      <4>2. Old(pkg) \notin Others
        BY <2>2 DEF Others
      <4>3. cmd = "upgradepkg" => Others \subseteq {Cur(pkg)}
        BY <2>0, <3>3, <4>2 DEF OldsSeen, Removing
      <4>4. Done'
        BY <2>0, <2>2, <3>1, <4>3 DEF Done, request, Cur, Old
      <4> QED
        BY <4>1, <4>4
    <3> QED
      BY <2>2, <3>2, <3>3 DEF ReturnInstall, Continue, Exit
  <2> QED
    BY <1>3, <2>1, <2>2 DEF CheckOld
<1> QED
  BY <1>1, <1>2, <1>3

LEMMA RemoveStepKeepsOlds ==
  ASSUME Inv, UpgradeInv, NewStays', Roots = {Slash},
         Douninst \/ RmFile \/ RmFilesDone \/ RmDir \/ RmEntry \/ NextOld
  PROVE  NestedInOld' /\ OldsSeen' /\ Done'
<1> USE DEF UpgradeInv
<1>0. root = Slash /\ at = Slash /\ pkg \in Archives /\ ent \in Entries
  BY DEF Inv, TypeOK
<1>1. CASE Douninst \/ RmFile \/ RmFilesDone \/ RmDir
  BY <1>1, QuietStep DEF Douninst, RmFile, RmFilesDone, RmDir, Removing, disk
<1>2. CASE RmEntry
  <2>1. /\ pc = "rmdir" /\ UNCHANGED <<request, removal>>
        /\ present' = [present EXCEPT ![at] = @ \ Gone(ent)]
        /\ contents' = [contents EXCEPT ![at] =
                          [e \in Entries |-> IF e \in Gone(ent) THEN {} ELSE @[e]]]
        /\ torn' = [torn EXCEPT ![at] = @ \ Gone(ent)]
        /\ ReturnRemove(caller, 0)
    BY <1>2 DEF RmEntry
  <2>2. present'[root] = present[root] \ Gone(ent)
    BY <1>0, <2>1 DEF Inv, TypeOK
  <2>3. pc' \in {"idle", "nextold"} /\ (olds' = olds \/ olds' = {})
    BY <2>1, ReturnRemoveRests, ReturnRemoveOlds
  <2>4. NestedInOld'
    <3>1. ASSUME NEW p \in Packages, <<p, "nested">> \in present'[root]
          PROVE  <<p, "old">> \in present'[root]
      <4>1. <<p, "old">> \in present[root] /\ <<p, "nested">> \notin Gone(ent)
        BY <1>0, <2>2, <3>1 DEF NestedInOld
      <4>2. ent # <<p, "old">>
        BY <4>1 DEF Gone
      <4> QED
        BY <2>2, <4>1, <4>2 DEF Gone
    <3> QED
      BY <1>0, <2>1, <2>3, <3>1 DEF NestedInOld, removal, request
  <2>5. Others' \subseteq Others \ {ent} /\ ent \notin present'[root]
    BY <2>1, <2>2 DEF Others, request, Gone
  <2>6. CASE cmd = "removepkg"
    BY <2>1, <2>4, <2>6 DEF OldsSeen, Done, request
  <2>7. CASE cmd # "removepkg"
    <3>1. Registered'
      <4>1. Registered /\ Cur(pkg) \notin Gone(ent)
        BY <2>1, <2>7 DEF NewStays, Removing, Gone, Cur
      <4>2. /\ torn'[root] \subseteq torn[root]
            /\ contents'[root][Cur(pkg)] = contents[root][Cur(pkg)]
        BY <1>0, <2>1, <4>1, EntriesOfArchive DEF Inv, TypeOK
      <4> QED
        BY <2>1, <2>2, <4>1, <4>2 DEF Registered, request, Cur
    <3>2. Old(pkg) \notin present'[root]
      BY <2>1, <2>2, <2>5, <2>7 DEF OldsSeen, Removing
    <3>3. CASE upg /\ pc' = "nextold" /\ olds' = olds
      BY <2>1, <2>4, <2>5, <2>7, <3>2, <3>3 DEF OldsSeen, Done, Removing, request, Cur, Old
    <3>4. CASE ~upg /\ pc' = "idle" /\ olds' = {}
      BY <2>1, <2>4, <2>5, <2>7, <3>1, <3>2, <3>4 DEF OldsSeen, Done, Removing, request, Cur, Old
    <3> QED
      <4>1. caller = "installpkg" \/ (caller = "upgradepkg" /\ upg)
        BY <2>1, <2>7 DEF OldsSeen, Removing
      <4> QED
        BY <2>1, <3>3, <3>4, <4>1 DEF ReturnRemove, ReturnInstall, Continue, Exit
  <2> QED
    BY <2>6, <2>7
<1>3. CASE NextOld
  <2>0. pc = "nextold" /\ UNCHANGED request
    BY <1>3 DEF NextOld
  <2>1. CASE olds = {} /\ Exit(0) /\ UNCHANGED <<disk, removal>>
    <3>1. /\ present' = present /\ ent' = ent /\ pc' = "idle" /\ olds' = {}
          /\ Others' = Others /\ Registered' = Registered
      BY <2>0, <2>1 DEF Exit, disk, removal, Others, request, Registered, Cur
    <3>2. NestedInOld'
      BY <3>1 DEF NestedInOld
    <3>3. OldsSeen'
      BY <2>0, <3>1 DEF OldsSeen, Removing, request
    <3>4. Done'
      <4> SUFFICES ASSUME cmd # "removepkg" PROVE Done'
        BY <2>0 DEF Done, request
      <4>1. Registered
        BY <2>0 DEF NewStays
      <4>2. Old(pkg) \notin present[root] /\ (cmd = "upgradepkg" => Others \subseteq {Cur(pkg), Old(pkg)})
        BY <2>0, <2>1 DEF OldsSeen, Removing
      <4>3. Old(pkg) \notin Others
        BY <4>2 DEF Others
      <4> QED
        BY <2>0, <3>1, <4>1, <4>2, <4>3 DEF Done, request, Cur, Old
    <3> QED
      BY <3>2, <3>3, <3>4
  <2>2. ASSUME NEW e \in olds, CallRemovepkg("upgradepkg", e, root, olds \ {e})
        PROVE  NestedInOld' /\ OldsSeen' /\ Done'
    <3>1. present' = present /\ ent' = e /\ caller' = "upgradepkg" /\ Others' = Others
      BY <2>0, <2>2 DEF CallRemovepkg, disk, Others, request
    <3>2. CASE e \in present[root]
      <4>1. pc' = "douninst" /\ olds' = olds \ {e}
        BY <2>2, <3>2 DEF CallRemovepkg
      <4> QED
        BY <2>0, <2>2, <3>1, <4>1 DEF NestedInOld, OldsSeen, Done, Removing, request, Cur, Old
    <3>3. CASE e \notin present[root]
      <4>1. ReturnRemove("upgradepkg", 2)
        BY <2>2, <3>3 DEF CallRemovepkg
      <4>2. pc' = "idle" /\ rc' = 1 /\ olds' = {}
        BY <4>1 DEF ReturnRemove, Exit
      <4> QED
        BY <2>0, <2>2, <3>1, <4>2 DEF NestedInOld, OldsSeen, Done, Removing, request
    <3> QED
      BY <3>2, <3>3
  <2> QED
    BY <1>3, <2>1, <2>2 DEF NextOld
<1> QED
  BY <1>1, <1>2, <1>3

LEMMA UpgradeNext ==
  ASSUME Inv, UpgradeInv, "tar" \notin Faults, Roots = {Slash}, [Next]_vars
  PROVE  UpgradeInv'
<1>0. NewStays' /\ NestedInOld /\ OldsSeen /\ Done
  BY NewStaysNext DEF UpgradeInv
<1>1. CASE Step
  BY <1>0, <1>1, InstallStepKeepsOlds, RemoveStepKeepsOlds DEF Step, UpgradeInv
<1>2. ASSUME NEW r \in Roots, NEW f \in Local, CreateLocal(r, f) PROVE UpgradeInv'
  BY <1>0, <1>2 DEF CreateLocal, UpgradeInv, NestedInOld, OldsSeen, Done, Registered, Others,
     Removing, request, removal, Cur, Old
<1>3. CASE Crash
  <2>1. pc' = "idle" /\ rc' = 130 /\ olds' = {} /\ UNCHANGED <<present, request, removal>>
    BY <1>3 DEF Crash, Exit
  <2> QED
    BY <1>0, <2>1 DEF UpgradeInv, NestedInOld, OldsSeen, Done, Removing, request, removal
<1>4. CASE UNCHANGED vars
  BY <1>0, <1>4 DEF vars, disk, UpgradeInv, NestedInOld, OldsSeen, Done, Registered, Others,
     Removing, request, removal, Cur, Old
<1> QED
  BY <1>0, <1>1, <1>2, <1>3, <1>4, BeginKeepsOlds DEF Next, UpgradeInv

LEMMA UpgradeInvHolds ==
  ASSUME "tar" \notin Faults, Roots = {Slash}
  PROVE  Spec => [](Inv /\ UpgradeInv)
<1>1. Init => UpgradeInv
  BY DEF Init, UpgradeInv, NewStays, NestedInOld, OldsSeen, Done, Cur
<1>2. Inv /\ UpgradeInv /\ [Next]_vars => UpgradeInv'
  BY UpgradeNext
<1> QED
  BY <1>1, <1>2, InvIsInvariant, PTL DEF Spec

\* Exit status 0 of installpkg and upgradepkg means what it says, also of a command
\* that finds the debris of any number of interrupted ones, for any packages: the new
\* package is registered with all its paths, its countable files are there, and no
\* copy is set aside.  The conditions: tar does not fail, which nobody looks at, and
\* there is one root, for the copy that -r sets aside in another one stays there.
THEOREM SuccessIsReal ==
  ASSUME "tar" \notin Faults, Roots = {Slash}
  PROVE  Spec => []SuccessMeansInstalled
<1>1. Inv /\ UpgradeInv => SuccessMeansInstalled
  <2> SUFFICES ASSUME Inv, UpgradeInv, pc = "idle", cmd \in {"installpkg", "upgradepkg"}, rc = 0
               PROVE  Installed
    BY DEF SuccessMeansInstalled
  <2>1. Registered /\ Old(pkg) \notin present[root] /\ root \in Roots
    BY DEF UpgradeInv, Done, Inv, TypeOK
  <2> QED
    BY <2>1 DEF Registered, Installed, Inv, ProvidedFilesPresent
<1> QED
  BY <1>1, UpgradeInvHolds, PTL

\* Under the same conditions an upgrade that ends well leaves one version of the
\* package, whatever interrupted upgrades and reinstallations left before.
THEOREM OneIsLeft ==
  ASSUME "tar" \notin Faults, Roots = {Slash}
  PROVE  Spec => []OneVersionAfterUpgrade
<1>1. Inv /\ UpgradeInv => OneVersionAfterUpgrade
  <2> SUFFICES ASSUME Inv, UpgradeInv, pc = "idle", cmd = "upgradepkg", rc = 0,
                      NEW e \in present[root], Name[e[1]] = Name[Pkg[pkg]]
               PROVE  e = Cur(pkg)
    BY DEF OneVersionAfterUpgrade
  <2>1. Others \subseteq {Cur(pkg)} /\ root \in Roots /\ e \in Entries
    BY DEF UpgradeInv, Done, Inv, TypeOK
  <2>2. CASE e[2] # "nested"
    BY <2>1, <2>2 DEF Others
  <2>3. CASE e[2] = "nested"
    <3>1. PICK p \in Packages : e = <<p, "nested">>
      BY <2>1, <2>3 DEF Entries
    <3>2. <<p, "old">> \in present[root]
      BY <2>1, <3>1 DEF UpgradeInv, NestedInOld
    <3>3. <<p, "old">> \in Others
      BY <3>1, <3>2 DEF Others
    <3> QED
      BY <2>1, <3>3 DEF Cur
  <2> QED
    BY <2>2, <2>3
<1> QED
  BY <1>1, UpgradeInvHolds, PTL

-----------------------------------------------------------------------------
(* What doinst.sh of the new version did stays done, where tar does not fail *)

SetUp == Pkg[pkg] \in HasDoinst => Name[Pkg[pkg]] \in setup[root]

\* A removal in an upgrade has do_upgradepkg set: without it there was nothing of
\* that name to remove.
SetupStays ==
  cmd = "upgradepkg" =>
    /\ ~upg /\ pc # "idle" => ~Removing /\ pc # "nextold" /\ Old(pkg) \notin present[root]
    /\ Removing \/ pc \in {"checkold", "nextold"} => SetUp
    /\ pc = "idle" /\ rc = 0 => SetUp

LEMMA CallRemovepkgKeepsSetup ==
  ASSUME SetupStays, NEW c, NEW e, NEW r, NEW o, CallRemovepkg(c, e, r, o),
         UNCHANGED request, upg, cmd = "upgradepkg" => SetUp
  PROVE  SetupStays'
BY DEF CallRemovepkg, SetupStays, SetUp, disk, request

LEMMA BeginKeepsSetup ==
  ASSUME SetupStays, Command
  PROVE  SetupStays'
<1>1. ASSUME NEW a \in Archives, NEW r \in Roots, NEW re \in BOOLEAN, InstallPkg(a, r, re)
      PROVE  SetupStays'
  BY <1>1 DEF InstallPkg, SetupStays
<1>2. ASSUME NEW a \in Archives, NEW r \in Roots, NEW k \in {"cur", "old"}, RemovePkg(a, k, r)
      PROVE  SetupStays'
  BY <1>2 DEF RemovePkg, SetupStays
<1>3. ASSUME NEW a \in Archives, NEW r \in Roots, NEW i \in BOOLEAN, NEW re \in BOOLEAN,
             UpgradePkg(a, r, i, re)
      PROVE  SetupStays'
  <2>0. pkg' = a /\ root' = r
    BY <1>3 DEF UpgradePkg
  <2>1. CASE upg' = FALSE /\ Exit(1)
    BY <2>1 DEF Exit, SetupStays, Removing
  <2>2. CASE SameName(r, a) = {} /\ upg' = FALSE /\ CallInstallpkg(a, r, FALSE, FALSE, {})
    <3>1. Cur(a) \notin present[r] /\ Old(a) \notin present[r]
      BY <2>2 DEF SameName, Cur, Old
    <3>2. pc' = "extract" /\ present' = present
      BY <2>2, <3>1 DEF CallInstallpkg
    <3> QED
      BY <2>0, <3>1, <3>2 DEF SetupStays, Removing, Old
  <2>3. CASE upg' = TRUE /\ CallInstallpkg(a, r, re, TRUE, SameName(r, a) \ {Cur(a)})
    <3>1. pc' = "extract" \/ (pc' = "idle" /\ rc' = 1)
      BY <2>3 DEF CallInstallpkg, ReturnInstall, Exit
    <3> QED
      BY <2>3, <3>1 DEF SetupStays, Removing
  <2> QED
    BY <1>3, <2>1, <2>2, <2>3 DEF UpgradePkg
<1> QED
  BY <1>1, <1>2, <1>3 DEF Command

LEMMA StepKeepsSetup ==
  ASSUME Inv, NewStays, SetupStays, Step, cmd = "upgradepkg"
  PROVE  SetupStays'
<1>0. /\ root \in Roots /\ at \in Roots /\ pkg \in Archives /\ upg \in BOOLEAN
      /\ setup \in [Roots -> SUBSET Names] /\ present \in [Roots -> SUBSET Entries]
  BY DEF Inv, TypeOK
<1>1. CASE Extract \/ TarEnds \/ WriteContents
  BY <1>1 DEF Extract, TarEnds, WriteContents, SetupStays, Removing, disk, request, Old
<1>2. CASE ExtractEntry
  <2>1. present'[root] = present[root] \cup {Cur(pkg)} /\ pc' = "extract" /\ UNCHANGED request
    BY <1>0, <1>2 DEF ExtractEntry
  <2> QED
    BY <1>2, <2>1 DEF ExtractEntry, SetupStays, Removing, request, Old, Cur
<1>3. CASE Doinst
  <2>1. Cur(pkg) \in present[root]
    BY <1>3 DEF Doinst, NewStays, Registered
  <2>2. SetUp' /\ pc' = "checkold" /\ UNCHANGED <<present, request>>
    BY <1>0, <1>3, <2>1, PackageAssumption DEF Doinst, SetUp, request
  <2> QED
    BY <1>3, <2>2 DEF Doinst, SetupStays, Removing, request, Old
<1>4. CASE CheckOld
  <2>1. SetUp /\ UNCHANGED request /\ pc = "checkold"
    BY <1>4 DEF CheckOld, SetupStays
  <2>2. CASE Old(pkg) \in present[root] /\ CallRemovepkg("installpkg", Old(pkg), Slash, olds)
    <3>1. upg
      BY <1>0, <2>1, <2>2 DEF SetupStays
    <3> QED
      BY <2>1, <2>2, <3>1, CallRemovepkgKeepsSetup
  <2>3. CASE ReturnInstall(upg, 0, olds) /\ UNCHANGED <<disk, removal>>
    <3>1. SetUp' /\ (pc' = "idle" \/ (pc' = "nextold" /\ upg'))
      BY <2>1, <2>3 DEF ReturnInstall, Continue, Exit, SetUp, disk, request
    <3> QED
      BY <3>1 DEF SetupStays, Removing
  <2> QED
    BY <1>4, <2>2, <2>3 DEF CheckOld
<1>5. CASE Douninst
  <2>1. upg /\ SetUp
    BY <1>0, <1>5 DEF Douninst, SetupStays, Removing
  <2>2. UNCHANGED <<setup, request>> /\ pc' = "rmfile"
    BY <1>5, <2>1 DEF Douninst
  <2> QED
    BY <2>1, <2>2 DEF SetupStays, SetUp, Removing, request
<1>6. CASE RmFile \/ RmFilesDone \/ RmDir
  BY <1>6 DEF RmFile, RmFilesDone, RmDir, SetupStays, SetUp, Removing, disk, request, Old
<1>7. CASE RmEntry
  <2>1. upg /\ SetUp /\ UNCHANGED <<setup, request>> /\ ReturnRemove(caller, 0)
    BY <1>0, <1>7 DEF RmEntry, SetupStays, Removing
  <2>2. SetUp' /\ upg' /\ pc' \in {"idle", "nextold"}
    BY <2>1, ReturnRemoveRests DEF SetUp, request
  <2> QED
    BY <2>2 DEF SetupStays, Removing
<1>8. CASE NextOld
  <2>1. upg /\ SetUp /\ UNCHANGED request
    BY <1>0, <1>8 DEF NextOld, SetupStays
  <2>2. CASE Exit(0) /\ UNCHANGED <<disk, removal>>
    BY <2>1, <2>2 DEF Exit, SetupStays, SetUp, Removing, disk, request
  <2>3. ASSUME NEW e \in olds, CallRemovepkg("upgradepkg", e, root, olds \ {e})
        PROVE  SetupStays'
    BY <2>1, <2>3, CallRemovepkgKeepsSetup
  <2> QED
    BY <1>8, <2>2, <2>3 DEF NextOld
<1> QED
  BY <1>1, <1>2, <1>3, <1>4, <1>5, <1>6, <1>7, <1>8 DEF Step

LEMMA SetupNext ==
  ASSUME Inv, NewStays, SetupStays, [Next]_vars
  PROVE  SetupStays'
<1>1. CASE Step
  <2>1. cmd' = cmd
    BY <1>1 DEF Step, Extract, ExtractEntry, TarEnds, WriteContents, Doinst, CheckOld,
       Douninst, RmFile, RmFilesDone, RmDir, RmEntry, NextOld, request
  <2> QED
    BY <1>1, <2>1, StepKeepsSetup DEF SetupStays
<1>2. ASSUME NEW r \in Roots, NEW f \in Local, CreateLocal(r, f) PROVE SetupStays'
  BY <1>2 DEF CreateLocal, SetupStays, SetUp, Removing, request
<1>3. CASE Crash
  BY <1>3 DEF Crash, Exit, SetupStays, Removing
<1>4. CASE UNCHANGED vars
  BY <1>4 DEF vars, disk, request, removal, SetupStays, SetUp, Removing, Old
<1> QED
  BY <1>1, <1>2, <1>3, <1>4, BeginKeepsSetup DEF Next

\* After an upgrade that ends well, what doinst.sh of the new version has set up is
\* not undone by douninst.sh of an old one, in any root and after any interruptions.
THEOREM SetupIsKept ==
  ASSUME "tar" \notin Faults
  PROVE  Spec => []UpgradeKeepsSetup
<1>1. Init => SetupStays
  BY DEF Init, SetupStays
<1>2. Inv /\ NewStays /\ [Next]_vars => NewStays'
  BY NewStaysNext
<1>3. Inv /\ NewStays /\ SetupStays /\ [Next]_vars => SetupStays'
  BY SetupNext
<1>4. SetupStays => UpgradeKeepsSetup
  BY DEF SetupStays, SetUp, UpgradeKeepsSetup
<1> QED
  BY <1>1, <1>2, <1>3, <1>4, NewStaysInit, InvIsInvariant, PTL DEF Spec

-----------------------------------------------------------------------------
(* Nothing is set aside in "/" for long, where no command is interrupted *)

\* A removal works in root_dir, and in "/" the only entry under another name than its
\* package's is the one that the running installation has set aside, until it is
\* removed.
SlashTidy ==
  /\ Removing => at = root
  /\ \A e \in present[Slash] :
       \/ e[2] = "cur"
       \/ /\ root = Slash /\ e = Old(pkg)
          /\ \/ pc \in {"extract", "list", "doinst", "checkold"}
             \/ Removing /\ ent = Old(pkg)

LEMMA CallInstallpkgTidy ==
  ASSUME Inv, SlashTidy, pc = "idle", NEW a \in Archives, NEW r \in Roots,
         NEW re, NEW u, NEW o, CallInstallpkg(a, r, re, u, o), pkg' = a, root' = r
  PROVE  SlashTidy'
<1>1. pc' \in {"idle", "extract"} /\ Slash \in Roots
  BY CallInstallpkgBegins, RootAssumption
<1>2. \A e \in present[Slash] : e[2] = "cur"
  BY DEF SlashTidy, Removing
<1>3. CASE present' = present
  BY <1>1, <1>2, <1>3 DEF SlashTidy, Removing
<1>4. CASE SetAside(r, a) /\ pc' = "extract" /\ present' # present
  <2>1. r # Slash => present'[Slash] = present[Slash]
    BY <1>1, <1>4 DEF SetAside, Inv, TypeOK
  <2>2. r = Slash => present'[Slash] \subseteq present[Slash] \cup {Old(a)}
    <3> SUFFICES ASSUME r = Slash PROVE present'[Slash] \subseteq present[Slash] \cup {Old(a)}
      OBVIOUS
    <3>1. Old(a) \notin present[r]
      BY <1>2 DEF Old
    <3> QED
      BY <1>1, <1>4, <3>1 DEF SetAside, Inv, TypeOK
  <2>3. Old(pkg)' = Old(a)
    BY DEF Old
  <2> QED
    BY <1>2, <1>4, <2>1, <2>2, <2>3 DEF SlashTidy, Removing
<1> QED
  BY <1>3, <1>4 DEF CallInstallpkg

LEMMA CallRemovepkgTidy ==
  ASSUME NEW c, NEW e, NEW r, NEW o, CallRemovepkg(c, e, r, o)
  PROVE  /\ present' = present /\ fs' = fs
         /\ e \in present[r] => pc' = "douninst" /\ at' = r /\ ent' = e
         /\ e \notin present[r] => pc' \in {"idle", "nextold"}
BY ReturnRemoveRests DEF CallRemovepkg, disk

LEMMA BeginTidy ==
  ASSUME Inv, SlashTidy, Command
  PROVE  SlashTidy'
<1>0. pc = "idle" /\ \A e \in present[Slash] : e[2] = "cur"
  BY DEF Command, InstallPkg, RemovePkg, UpgradePkg, SlashTidy, Removing
<1>1. ASSUME NEW a \in Archives, NEW r \in Roots, NEW re \in BOOLEAN, InstallPkg(a, r, re)
      PROVE  SlashTidy'
  BY <1>0, <1>1, CallInstallpkgTidy DEF InstallPkg
<1>2. ASSUME NEW a \in Archives, NEW r \in Roots, NEW k \in {"cur", "old"}, RemovePkg(a, k, r)
      PROVE  SlashTidy'
  <2>1. CallRemovepkg("removepkg", <<Pkg[a], k>>, r, {}) /\ root' = r
    BY <1>2 DEF RemovePkg
  <2>2. present' = present /\ (pc' \in {"idle", "nextold"} \/ at' = r)
    BY <2>1, CallRemovepkgTidy
  <2> QED
    BY <1>0, <2>1, <2>2 DEF SlashTidy, Removing
<1>3. ASSUME NEW a \in Archives, NEW r \in Roots, NEW i \in BOOLEAN, NEW re \in BOOLEAN,
             UpgradePkg(a, r, i, re)
      PROVE  SlashTidy'
  <2>0. pkg' = a /\ root' = r
    BY <1>3 DEF UpgradePkg
  <2>1. CASE Exit(1) /\ UNCHANGED <<disk, removal>>
    BY <1>0, <2>1 DEF Exit, disk, SlashTidy, Removing
  <2>2. ASSUME NEW re2, NEW u, NEW o, CallInstallpkg(a, r, re2, u, o)
        PROVE  SlashTidy'
    BY <1>0, <2>0, <2>2, CallInstallpkgTidy
  <2> QED
    BY <1>3, <2>1, <2>2 DEF UpgradePkg
<1> QED
  BY <1>1, <1>2, <1>3 DEF Command

LEMMA StepTidy ==
  ASSUME Inv, SlashTidy, Step
  PROVE  SlashTidy'
<1>0. /\ root \in Roots /\ at \in Roots /\ Slash \in Roots /\ ent \in Entries
      /\ present \in [Roots -> SUBSET Entries]
  BY RootAssumption DEF Inv, TypeOK
<1>1. CASE Extract \/ TarEnds \/ WriteContents \/ Doinst
  BY <1>1 DEF Extract, TarEnds, WriteContents, Doinst, disk, request, removal,
     SlashTidy, Removing, Old
<1>2. CASE ExtractEntry
  <2>1. present'[Slash] \subseteq present[Slash] \cup {Cur(pkg)}
    BY <1>0, <1>2 DEF ExtractEntry
  <2> QED
    BY <1>2, <2>1 DEF ExtractEntry, request, removal, SlashTidy, Removing, Old, Cur
<1>3. CASE CheckOld
  <2>0. pc = "checkold" /\ UNCHANGED request
    BY <1>3 DEF CheckOld
  <2>1. CASE Old(pkg) \in present[root] /\ CallRemovepkg("installpkg", Old(pkg), Slash, olds)
    <3>1. /\ present' = present /\ Old(pkg)' = Old(pkg)
          /\ \/ Old(pkg) \notin present[Slash] /\ pc' \in {"idle", "nextold"}
             \/ Old(pkg) \in present[Slash] /\ pc' = "douninst" /\ at' = Slash /\ ent' = Old(pkg)
      BY <2>0, <2>1, CallRemovepkgTidy DEF request, Old
    <3>2. Old(pkg) \in present[Slash] => root = Slash
      BY DEF SlashTidy, Old
    <3> QED
      BY <2>0, <3>1, <3>2 DEF SlashTidy, Removing, request
  <2>2. CASE /\ Old(pkg) \notin present[root]
             /\ ReturnInstall(upg, 0, olds) /\ UNCHANGED <<disk, removal>>
    <3>1. pc' \in {"idle", "nextold"} /\ present' = present
      BY <2>2 DEF ReturnInstall, Continue, Exit, disk
    <3>2. \A e \in present[Slash] : e[2] = "cur"
      BY <2>0, <2>2 DEF SlashTidy
    <3> QED
      BY <3>1, <3>2 DEF SlashTidy, Removing
  <2> QED
    BY <1>3, <2>1, <2>2 DEF CheckOld
<1>4. CASE Douninst \/ RmFile \/ RmFilesDone \/ RmDir
  BY <1>4 DEF Douninst, RmFile, RmFilesDone, RmDir, disk, request, removal,
     SlashTidy, Removing, Old
<1>5. CASE RmEntry
  <2>1. /\ pc = "rmdir" /\ present' = [present EXCEPT ![at] = @ \ Gone(ent)]
        /\ pc' \in {"idle", "nextold"}
    BY <1>5, ReturnRemoveRests DEF RmEntry
  <2>2. /\ root # Slash => present'[Slash] = present[Slash]
        /\ root = Slash => present'[Slash] = present[Slash] \ Gone(ent)
    BY <1>0, <2>1 DEF SlashTidy, Removing
  <2>3. \A e \in present'[Slash] : e[2] = "cur"
    BY <2>1, <2>2 DEF SlashTidy, Gone
  <2> QED
    BY <2>1, <2>3 DEF SlashTidy, Removing
<1>6. CASE NextOld
  <2>0. /\ pc = "nextold" /\ UNCHANGED request
        /\ \A e \in present[Slash] : e[2] = "cur"
    BY <1>6 DEF NextOld, SlashTidy, Removing
  <2>1. CASE Exit(0) /\ UNCHANGED <<disk, removal>>
    BY <2>0, <2>1 DEF Exit, disk, SlashTidy, Removing
  <2>2. ASSUME NEW e \in olds, CallRemovepkg("upgradepkg", e, root, olds \ {e})
        PROVE  SlashTidy'
    <3>1. present' = present /\ (pc' \in {"idle", "nextold"} \/ at' = root)
      BY <2>2, CallRemovepkgTidy
    <3> QED
      BY <2>0, <3>1 DEF SlashTidy, Removing, request
  <2> QED
    BY <1>6, <2>1, <2>2 DEF NextOld
<1> QED
  BY <1>1, <1>2, <1>3, <1>4, <1>5, <1>6 DEF Step

LEMMA TidyNext ==
  ASSUME Inv, SlashTidy, "crash" \notin Faults, [Next]_vars
  PROVE  SlashTidy'
<1>1. ASSUME NEW r \in Roots, NEW f \in Local, CreateLocal(r, f) PROVE SlashTidy'
  BY <1>1 DEF CreateLocal, request, removal, SlashTidy, Removing, Old
<1>2. ~Crash
  BY DEF Crash, Fault
<1>3. CASE UNCHANGED vars
  BY <1>3 DEF vars, disk, request, removal, SlashTidy, Removing, Old
<1> QED
  BY <1>1, <1>2, <1>3, BeginTidy, StepTidy DEF Next

LEMMA TidyHolds ==
  ASSUME "crash" \notin Faults
  PROVE  Spec => [](Inv /\ SlashTidy)
<1>1. Init => SlashTidy
  BY RootAssumption DEF Init, SlashTidy, Removing
<1>2. Inv /\ SlashTidy /\ [Next]_vars => SlashTidy'
  BY TidyNext
<1> QED
  BY <1>1, <1>2, InvIsInvariant, PTL DEF Spec

\* Where there is one root and no command is interrupted, no package is left set aside
\* between commands: installpkg -r removes what it has set aside, also when tar fails.
THEOREM NothingIsLeftAside ==
  ASSUME "crash" \notin Faults, Roots = {Slash}
  PROVE  Spec => []NothingSetAside
<1>1. SlashTidy => NothingSetAside
  BY DEF SlashTidy, Removing, NothingSetAside
<1> QED
  BY <1>1, TidyHolds, PTL

\* A step in one root.
LEMMA OneRootStep ==
  ASSUME Inv, SlashTidy, Step, NEW r \in Roots, r # root
  PROVE  fs'[r] = fs[r] /\ present'[r] = present[r]
<1>0. /\ fs \in [Roots -> SUBSET Paths] /\ present \in [Roots -> SUBSET Entries]
      /\ Removing => at = root
  BY DEF Inv, TypeOK, SlashTidy
<1>1. CASE Extract \/ ExtractEntry \/ TarEnds \/ WriteContents \/ Doinst
  BY <1>0, <1>1 DEF Extract, ExtractEntry, TarEnds, WriteContents, Doinst, disk
<1>2. CASE CheckOld \/ NextOld
  BY <1>2 DEF CheckOld, NextOld, CallRemovepkg, disk
<1>3. CASE Douninst \/ RmFilesDone
  BY <1>3 DEF Douninst, RmFilesDone, disk
<1>4. CASE RmFile
  <2>1. at = root /\ present' = present
    BY <1>0, <1>4 DEF RmFile, Removing
  <2>2. \E f \in NextLines : fs' = fs \/ fs' = [fs EXCEPT ![at] = @ \ {f}]
    BY <1>4 DEF RmFile
  <2> QED
    BY <1>0, <2>1, <2>2
<1>5. CASE RmDir
  <2>1. at = root /\ present' = present
    BY <1>0, <1>5 DEF RmDir, Removing
  <2>2. \E d \in NextLines : fs' = fs \/ fs' = [fs EXCEPT ![at] = @ \ RmdirP(at, d)]
    BY <1>5 DEF RmDir
  <2> QED
    BY <1>0, <2>1, <2>2
<1>6. CASE RmEntry
  <2>1. /\ at = root /\ fs' = fs
        /\ present' = [present EXCEPT ![at] = @ \ Gone(ent)]
    BY <1>0, <1>6 DEF RmEntry, Removing
  <2> QED
    BY <1>0, <2>1
<1> QED
  BY <1>1, <1>2, <1>3, <1>4, <1>5, <1>6 DEF Step

\* A command that is given -d works in that root only, though installpkg passes no -d
\* on to the removepkg it runs: with no command interrupted there is nothing set aside
\* in "/" that this removepkg could find.
THEOREM OtherRootsAreLeft ==
  ASSUME "crash" \notin Faults
  PROVE  Spec => OtherRootsUntouched
<1>1. Inv /\ SlashTidy /\ [Next]_vars
        => [\A r \in Roots : pc # "idle" /\ r # root =>
              fs'[r] = fs[r] /\ present'[r] = present[r]]_vars
  <2> SUFFICES ASSUME Inv, SlashTidy, Next, NEW r \in Roots, pc # "idle", r # root
               PROVE  fs'[r] = fs[r] /\ present'[r] = present[r]
    OBVIOUS
  <2>1. ~Command /\ \A q \in Roots, f \in Local : ~CreateLocal(q, f)
    BY DEF Command, InstallPkg, RemovePkg, UpgradePkg, CreateLocal
  <2>2. CASE Crash
    BY <2>2 DEF Crash
  <2> QED
    BY <2>1, <2>2, OneRootStep DEF Next
<1> QED
  BY <1>1, TidyHolds, PTL DEF Spec, OtherRootsUntouched

-----------------------------------------------------------------------------
(* Nothing is left behind, where no command fails *)

\* The hypotheses.  Nothing fails, and there is one root, so that what -r sets aside
\* is removed; a path matches itself only, so that lines are counted right; and no
\* link names a directory, for rmdir does not remove a link.
Tidy ==
  /\ Faults = {} /\ Roots = {Slash} /\ Links = {}
  /\ \A p \in Paths : Hits[p] = {p}

Listed(p) == \E e \in present[Slash] : p \in contents[Slash][e]
ListedByOther(p) == \E e \in present[Slash] \ {ent} : p \in contents[Slash][e]

\* A directory that is not empty.
Holds(d) == d \in Dirs /\ \E y \in fs[Slash] : d \in Anc[y]

\* A list holds the directories above its paths.
ListsClosed ==
  \A e \in Entries : \A p \in contents[Slash][e] : Anc[p] \subseteq contents[Slash][e]

\* While tar extracts a package none of its paths is listed.
ListsNothingYet ==
  /\ pc = "extract" => todo \subseteq Ships[pkg]
  /\ pc = "list" => Cur(pkg) \in present[Slash]
  /\ pc \in {"extract", "list"} => contents[Slash][Cur(pkg)] = {}

\* Why a path is there.
Explained ==
  \A p \in fs[Slash] \ Local :
    \/ Listed(p) \/ Holds(p)
    \/ pc \in {"extract", "list"} /\ p \in Ships[pkg]

\* What the loops of removepkg leave of the lines they have visited.
Visited ==
  pc \in {"rmfile", "rmdir"} =>
    \A p \in contents[Slash][ent] \cap fs[Slash] :
      \/ ListedByOther(p)
      \/ pc = "rmfile" /\ (p \in todo \/ p \in Dirs)
      \/ pc = "rmdir" /\ p \in Dirs /\ (p \in todo \/ Holds(p))

OrphanInv == SlashTidy /\ ListsClosed /\ ListsNothingYet /\ Explained /\ Visited

\* A line that no other package has is counted once.
LEMMA OnlyLineHere ==
  ASSUME Inv, Tidy, Removing, NEW f \in contents[Slash][ent], ~ListedByOther(f)
  PROVE  OnlyLine(at, f)
<1>1. /\ at = Slash /\ ent \in present[Slash] /\ f \in Paths
      /\ present[Slash] \subseteq Entries
      /\ \A e \in Entries : contents[Slash][e] \subseteq Paths
  BY RootAssumption DEF Tidy, Removing, Inv, RemovalInv, TypeOK
<1>2. Hits[f] = {f}
  BY <1>1 DEF Tidy
<1>3. ASSUME NEW l \in Entries \X Paths
      PROVE  l \in Lines(at, f) <=> l = <<ent, f>>
  <2>1. l \in Lines(at, f) <=> l[1] \in present[Slash] /\ l[2] \in contents[Slash][l[1]] /\ l[2] = f
    BY <1>1, <1>2, <1>3 DEF Lines
  <2>2. l[1] \in present[Slash] /\ f \in contents[Slash][l[1]] => l[1] = ent
    BY DEF ListedByOther
  <2>3. l = <<l[1], l[2]>>
    BY <1>3
  <2> QED
    BY <1>1, <2>1, <2>2, <2>3
<1>4. <<ent, f>> \in Entries \X Paths
  BY <1>1
<1>5. Lines(at, f) = {<<ent, f>>}
  <2>1. Lines(at, f) \subseteq Entries \X Paths
    BY DEF Lines
  <2> QED
    BY <1>3, <1>4, <2>1
<1> QED
  BY <1>4, <1>5 DEF OnlyLine

\* "rmdir -p" leaves nothing that has become empty.
LEMMA RmdirLeavesFull ==
  ASSUME TypeOK, NEW r \in Roots, NEW d \in Dirs,
         NEW p \in fs[r] \ RmdirP(r, d), p \in Dirs,
         p = d \/ \E y \in fs[r] : p \in Anc[y]
  PROVE  \E y \in fs[r] \ RmdirP(r, d) : p \in Anc[y]
<1> DEFINE chain == {d} \cup Anc[d]
<1>1. RmdirP(r, d) = {x \in chain : \A y \in fs[r] : x \in Anc[y] => y \in chain}
  BY DEF RmdirP
<1>2. d \in Paths /\ fs[r] \subseteq Paths /\ Anc[d] \subseteq Dirs /\ Dirs \subseteq Paths
  BY PathAssumption DEF TypeOK, Paths
<1>3. CASE p \in chain
  <2>1. PICK y \in fs[r] : p \in Anc[y] /\ y \notin chain
    BY <1>1, <1>3
  <2> QED
    BY <1>1, <2>1
<1>4. CASE p \notin chain
  <2>1. PICK y \in fs[r] : p \in Anc[y]
    BY <1>4
  <2>2. y \notin chain
    <3>1. y = d => p \in chain
      BY <2>1
    <3>2. y \in Anc[d] => p \in chain
      BY <1>2, <2>1, PathAssumption
    <3> QED
      BY <1>4, <3>1, <3>2
  <2> QED
    BY <1>1, <2>1, <2>2
<1> QED
  BY <1>3, <1>4

\* Steps that leave the disk alone and are not part of a removal's loops.
LEMMA QuietOrphans ==
  ASSUME OrphanInv, SlashTidy', UNCHANGED <<fs, present, contents>>,
         pc \notin {"extract", "list"}, pc' \notin {"extract", "list", "rmfile", "rmdir"}
  PROVE  OrphanInv'
<1>1. ListsClosed' /\ ListsNothingYet' /\ Visited'
  BY DEF OrphanInv, ListsClosed, ListsNothingYet, Visited
<1>2. Explained'
  <2>1. /\ \A p : Listed(p)' = Listed(p)
        /\ \A p : Holds(p)' = Holds(p)
    BY DEF Listed, Holds
  <2> QED
    BY <2>1 DEF OrphanInv, Explained
<1> QED
  BY <1>1, <1>2 DEF OrphanInv

LEMMA CallRemovepkgOrphans ==
  ASSUME OrphanInv, SlashTidy', pc \in {"idle", "checkold", "nextold"},
         NEW c, NEW e, NEW r, NEW o, CallRemovepkg(c, e, r, o)
  PROVE  OrphanInv'
<1>1. UNCHANGED <<fs, present, contents>> /\ pc' \in {"idle", "nextold", "douninst"}
  BY ReturnRemoveRests DEF CallRemovepkg, disk
<1> QED
  BY <1>1, QuietOrphans

LEMMA CallInstallpkgOrphans ==
  ASSUME Inv, Tidy, OrphanInv, SlashTidy', pc = "idle", NEW a \in Archives, NEW r \in Roots,
         NEW re, NEW u, NEW o, CallInstallpkg(a, r, re, u, o), pkg' = a
  PROVE  OrphanInv'
<1>0. /\ r = Slash /\ Slash \in Roots /\ Cur(a) \in Entries /\ Old(a) \in Entries
      /\ Cur(a) # Old(a) /\ fs' = fs
      /\ present \in [Roots -> SUBSET Entries]
      /\ contents \in [Roots -> [Entries -> SUBSET Paths]]
  BY EntriesOfArchive, RootAssumption DEF Tidy, Inv, TypeOK, Cur, Old, CallInstallpkg
<1>1. Cur(pkg)' = Cur(a)
  BY DEF Cur
<1>2. CASE present' = present /\ contents' = contents /\ pc' = "idle"
  BY <1>0, <1>2, QuietOrphans
<1>3. CASE /\ present' = present /\ contents' = contents /\ pc' = "extract"
           /\ Cur(a) \notin present[Slash] /\ todo' = Ships[a]
  <2>1. contents[Slash][Cur(a)] = {}
    BY <1>0, <1>3 DEF Inv, RemovalInv
  <2>2. ListsClosed' /\ ListsNothingYet' /\ Visited'
    BY <1>1, <1>3, <2>1 DEF OrphanInv, ListsClosed, ListsNothingYet, Visited
  <2>3. Explained'
    <3>1. /\ \A p : Listed(p)' = Listed(p)
          /\ \A p : Holds(p)' = Holds(p)
      BY <1>0, <1>3 DEF Listed, Holds
    <3> QED
      BY <1>0, <3>1 DEF OrphanInv, Explained
  <2> QED
    BY <2>2, <2>3 DEF OrphanInv
<1>4. CASE SetAside(r, a) /\ pc' = "extract" /\ todo' = Ships[a] /\ Cur(a) \in present[Slash]
  <2>1. Old(a) \notin present[Slash]
    BY DEF OrphanInv, SlashTidy, Removing, Old
  <2>2. /\ present'[Slash] = (present[Slash] \ {Cur(a)}) \cup {Old(a)}
        /\ contents'[Slash] = [contents[Slash] EXCEPT ![Old(a)] = contents[Slash][Cur(a)],
                                                      ![Cur(a)] = {}]
    BY <1>0, <1>4, <2>1 DEF SetAside
  <2>3. /\ contents'[Slash][Cur(a)] = {}
        /\ contents'[Slash][Old(a)] = contents[Slash][Cur(a)]
        /\ \A e \in Entries \ {Cur(a), Old(a)} : contents'[Slash][e] = contents[Slash][e]
    BY <1>0, <2>2
  <2>4. ListsClosed'
    BY <1>0, <2>3 DEF OrphanInv, ListsClosed
  <2>5. ListsNothingYet' /\ Visited'
    BY <1>1, <1>4, <2>3 DEF ListsNothingYet, Visited
  <2>6. Explained'
    <3>1. ASSUME NEW p, Listed(p) PROVE Listed(p)'
      <4>1. PICK e \in present[Slash] : p \in contents[Slash][e]
        BY <3>1 DEF Listed
      <4>2. e \in Entries
        BY <1>0
      <4>3. CASE e = Cur(a)
        BY <2>2, <2>3, <4>1, <4>3 DEF Listed
      <4>4. CASE e # Cur(a)
        BY <2>1, <2>2, <2>3, <4>1, <4>2, <4>4 DEF Listed
      <4> QED
        BY <4>3, <4>4
    <3>2. \A p : Holds(p)' = Holds(p)
      BY <1>0 DEF Holds
    <3>3. pc = "idle"
      OBVIOUS
    <3> QED
      BY <1>0, <3>1, <3>2, <3>3 DEF OrphanInv, Explained
  <2> QED
    BY <2>4, <2>5, <2>6 DEF OrphanInv
<1> QED
  <2>1. CASE Cur(a) \in present[r] /\ ~re
    <3>1. ReturnInstall(u, 2, o)
      BY <2>1 DEF CallInstallpkg
    <3>2. pc' = "idle"
      BY <3>1 DEF ReturnInstall, Exit
    <3> QED
      BY <1>2, <2>1, <3>2 DEF CallInstallpkg
  <2>2. CASE Cur(a) \in present[r] /\ re
    BY <1>0, <1>4, <2>2 DEF CallInstallpkg
  <2>3. CASE Cur(a) \notin present[r]
    BY <1>0, <1>3, <2>3 DEF CallInstallpkg
  <2> QED
    BY <2>1, <2>2, <2>3

LEMMA BeginOrphans ==
  ASSUME Inv, Tidy, OrphanInv, SlashTidy', Command
  PROVE  OrphanInv'
<1>1. ASSUME NEW a \in Archives, NEW r \in Roots, NEW re \in BOOLEAN, InstallPkg(a, r, re)
      PROVE  OrphanInv'
  BY <1>1, CallInstallpkgOrphans DEF InstallPkg
<1>2. ASSUME NEW a \in Archives, NEW r \in Roots, NEW k \in {"cur", "old"}, RemovePkg(a, k, r)
      PROVE  OrphanInv'
  BY <1>2, CallRemovepkgOrphans DEF RemovePkg
<1>3. ASSUME NEW a \in Archives, NEW r \in Roots, NEW i \in BOOLEAN, NEW re \in BOOLEAN,
             UpgradePkg(a, r, i, re)
      PROVE  OrphanInv'
  <2>0. pkg' = a /\ pc = "idle"
    BY <1>3 DEF UpgradePkg
  <2>1. CASE Exit(1) /\ UNCHANGED <<disk, removal>>
    BY <2>0, <2>1, QuietOrphans DEF Exit, disk
  <2>2. ASSUME NEW re2, NEW u, NEW o, CallInstallpkg(a, r, re2, u, o)
        PROVE  OrphanInv'
    BY <2>0, <2>2, CallInstallpkgOrphans
  <2> QED
    BY <1>3, <2>1, <2>2 DEF UpgradePkg
<1> QED
  BY <1>1, <1>2, <1>3 DEF Command

LEMMA InstallStepOrphans ==
  ASSUME Inv, Tidy, OrphanInv, SlashTidy',
         Extract \/ ExtractEntry \/ TarEnds \/ WriteContents \/ Doinst \/ CheckOld
  PROVE  OrphanInv'
<1>0. /\ root = Slash /\ Slash \in Roots /\ pkg \in Archives /\ Cur(pkg) \in Entries
      /\ fs \in [Roots -> SUBSET Paths] /\ present \in [Roots -> SUBSET Entries]
      /\ contents \in [Roots -> [Entries -> SUBSET Paths]]
  BY EntriesOfArchive, RootAssumption DEF Tidy, Inv, TypeOK
<1>1. CASE Extract
  <2>1. PICK f \in todo : fs' = [fs EXCEPT ![root] = @ \cup {f}] /\ todo' = todo \ {f}
    BY <1>1 DEF Extract, NextLines
  <2>2. /\ pc = "extract" /\ UNCHANGED <<present, contents, pc, pkg>>
        /\ fs'[Slash] = fs[Slash] \cup {f} /\ f \in Ships[pkg]
    BY <1>0, <1>1, <2>1 DEF Extract, request, OrphanInv, ListsNothingYet
  <2>3. ListsClosed' /\ ListsNothingYet' /\ Visited'
    BY <2>1, <2>2 DEF OrphanInv, ListsClosed, ListsNothingYet, Visited, Cur
  <2>4. Explained'
    <3>1. /\ \A p : Listed(p)' = Listed(p)
          /\ \A p : Holds(p) => Holds(p)'
      BY <2>2 DEF Listed, Holds
    <3> QED
      BY <2>2, <3>1 DEF OrphanInv, Explained
  <2> QED
    BY <2>3, <2>4 DEF OrphanInv
<1>2. CASE ExtractEntry
  <2>1. /\ pc = "extract" /\ UNCHANGED <<fs, contents, pc, pkg, todo>>
        /\ present'[Slash] = present[Slash] \cup {Cur(pkg)}
    BY <1>0, <1>2 DEF ExtractEntry, request
  <2>2. ListsClosed' /\ ListsNothingYet' /\ Visited'
    BY <2>1 DEF OrphanInv, ListsClosed, ListsNothingYet, Visited, Cur
  <2>3. Explained'
    <3>1. /\ \A p : Listed(p) => Listed(p)'
          /\ \A p : Holds(p) => Holds(p)'
      BY <2>1 DEF Listed, Holds
    <3> QED
      BY <2>1, <3>1 DEF OrphanInv, Explained
  <2> QED
    BY <2>2, <2>3 DEF OrphanInv
<1>3. CASE TarEnds
  <2>1. /\ pc = "extract" /\ pc' = "list" /\ UNCHANGED <<fs, present, contents, pkg>>
        /\ Cur(pkg) \in present[Slash]
    BY <1>0, <1>3 DEF TarEnds, Fault, Tidy, disk, request
  <2>2. ListsClosed' /\ ListsNothingYet' /\ Visited'
    BY <2>1 DEF OrphanInv, ListsClosed, ListsNothingYet, Visited, Cur
  <2>3. Explained'
    <3>1. /\ \A p : Listed(p) => Listed(p)'
          /\ \A p : Holds(p) => Holds(p)'
      BY <2>1 DEF Listed, Holds
    <3> QED
      BY <2>1, <3>1 DEF OrphanInv, Explained
  <2> QED
    BY <2>2, <2>3 DEF OrphanInv
<1>4. CASE WriteContents
  <2>1. /\ pc = "list" /\ pc' = "doinst" /\ UNCHANGED <<fs, present, pkg>>
        /\ SaveContents(Ships[pkg])
    BY <1>4 DEF WriteContents, Fault, Tidy, request
  <2>2. Cur(pkg) \in present[Slash] /\ contents[Slash][Cur(pkg)] = {}
    BY <2>1 DEF OrphanInv, ListsNothingYet
  <2>3. /\ contents'[Slash][Cur(pkg)] = Ships[pkg]
        /\ \A e \in Entries \ {Cur(pkg)} : contents'[Slash][e] = contents[Slash][e]
    BY <1>0, <2>1, <2>2 DEF SaveContents
  <2>4. ListsClosed'
    BY <1>0, <2>3, ShipsAssumption DEF OrphanInv, ListsClosed
  <2>5. ListsNothingYet' /\ Visited'
    BY <2>1 DEF ListsNothingYet, Visited
  <2>6. Explained'
    <3>1. ASSUME NEW p, Listed(p) PROVE Listed(p)'
      <4>1. PICK e \in present[Slash] : p \in contents[Slash][e]
        BY <3>1 DEF Listed
      <4>2. e \in Entries /\ e # Cur(pkg)
        BY <1>0, <2>2, <4>1
      <4> QED
        BY <2>1, <2>3, <4>1, <4>2 DEF Listed
    <3>2. \A p \in Ships[pkg] : Listed(p)'
      BY <2>1, <2>2, <2>3 DEF Listed
    <3>3. \A p : Holds(p) => Holds(p)'
      BY <2>1 DEF Holds
    <3> QED
      BY <2>1, <3>1, <3>2, <3>3 DEF OrphanInv, Explained
  <2> QED
    BY <2>4, <2>5, <2>6 DEF OrphanInv
<1>5. CASE Doinst
  BY <1>5, QuietOrphans DEF Doinst
<1>6. CASE CheckOld
  <2>1. CASE CallRemovepkg("installpkg", Old(pkg), Slash, olds)
    BY <1>6, <2>1, CallRemovepkgOrphans DEF CheckOld
  <2>2. CASE ReturnInstall(upg, 0, olds) /\ UNCHANGED <<disk, removal>>
    BY <1>6, <2>2, ReturnInstallRests, QuietOrphans DEF CheckOld, disk
  <2> QED
    BY <1>6, <2>1, <2>2 DEF CheckOld
<1> QED
  BY <1>1, <1>2, <1>3, <1>4, <1>5, <1>6

\* The first loop: a file that is only this package's goes, and what held it is listed
\* by the package too.
LEMMA RmFileOrphans ==
  ASSUME Inv, Tidy, OrphanInv, SlashTidy', RmFile
  PROVE  OrphanInv'
<1>0. /\ at = Slash /\ Slash \in Roots /\ ent \in present[Slash] /\ ent \in Entries
      /\ fs \in [Roots -> SUBSET Paths] /\ todo \subseteq contents[Slash][ent]
      /\ contents[Slash][ent] \subseteq Paths /\ Removing
  BY RootAssumption DEF Tidy, Inv, TypeOK, RemovalInv, RmFile, Removing
<1>1. PICK f \in todo :
        /\ fs' = IF ~IsDir(at, f) /\ OnlyLine(at, f) THEN [fs EXCEPT ![at] = @ \ {f}] ELSE fs
        /\ todo' = todo \ {f}
  BY DEF RmFile, NextLines
<1>2. pc = "rmfile" /\ UNCHANGED <<present, contents, pc, ent, pkg>>
  BY DEF RmFile, request, removal
<1>3. f \in contents[Slash][ent] /\ f \in Paths /\ Anc[f] \subseteq contents[Slash][ent]
  BY <1>0, <1>1 DEF OrphanInv, ListsClosed
<1>4. /\ fs'[Slash] \subseteq fs[Slash] /\ fs[Slash] \ {f} \subseteq fs'[Slash]
      /\ f \in fs'[Slash] => IsDir(Slash, f) \/ ~OnlyLine(at, f)
  BY <1>0, <1>1
<1>5. ListsClosed' /\ ListsNothingYet'
  BY <1>2 DEF OrphanInv, ListsClosed, ListsNothingYet
<1>6. /\ \A p : Listed(p)' = Listed(p)
      /\ \A p : ListedByOther(p)' = ListedByOther(p)
  BY <1>2 DEF Listed, ListedByOther
<1>7. Explained'
  <2> SUFFICES ASSUME NEW p \in fs[Slash] \ Local, p \in fs'[Slash], ~Listed(p)
               PROVE  Holds(p)'
    BY <1>2, <1>4, <1>6 DEF Explained
  <2>1. Holds(p)
    BY <1>2 DEF OrphanInv, Explained
  <2>2. PICK y \in fs[Slash] : p \in Dirs /\ p \in Anc[y]
    BY <2>1 DEF Holds
  <2>3. y # f
    BY <1>0, <1>3, <2>2 DEF Listed
  <2> QED
    BY <1>4, <2>2, <2>3 DEF Holds
<1>8. Visited'
  <2> SUFFICES ASSUME NEW p \in contents[Slash][ent], p \in fs'[Slash], ~ListedByOther(p)
               PROVE  p \in todo' \/ p \in Dirs
    BY <1>2, <1>6 DEF Visited
  <2>1. p \in todo \/ p \in Dirs
    BY <1>2, <1>4 DEF OrphanInv, Visited
  <2>2. CASE p = f
    <3>1. IsDir(Slash, f)
      BY <1>0, <1>4, <2>2, OnlyLineHere
    <3> QED
      BY <2>2, <3>1 DEF IsDir, Tidy
  <2> QED
    BY <1>1, <2>1, <2>2
<1> QED
  BY <1>5, <1>7, <1>8 DEF OrphanInv

\* The second loop: what is only this package's goes as soon as it is empty.
LEMMA RmDirOrphans ==
  ASSUME Inv, Tidy, OrphanInv, SlashTidy', RmDir
  PROVE  OrphanInv'
<1>0. /\ at = Slash /\ Slash \in Roots /\ ent \in present[Slash] /\ ent \in Entries
      /\ TypeOK /\ fs \in [Roots -> SUBSET Paths] /\ todo \subseteq contents[Slash][ent]
      /\ contents[Slash][ent] \subseteq Paths /\ Removing
  BY RootAssumption DEF Tidy, Inv, TypeOK, RemovalInv, RmDir, Removing
<1>1. PICK d \in todo :
        /\ fs' = IF IsDir(at, d) /\ OnlyLine(at, d) THEN [fs EXCEPT ![at] = @ \ RmdirP(at, d)]
                 ELSE fs
        /\ todo' = todo \ {d}
  BY DEF RmDir, NextLines
<1>2. pc = "rmdir" /\ UNCHANGED <<present, contents, pc, ent, pkg>>
  BY DEF RmDir, request, removal
<1>3. d \in contents[Slash][ent]
  BY <1>0, <1>1
<1>4. /\ fs'[Slash] \subseteq fs[Slash]
      /\ \A p : Holds(p) /\ p \in fs'[Slash] => Holds(p)'
      /\ d \in fs'[Slash] /\ d \in Dirs /\ OnlyLine(at, d) => Holds(d)'
  <2>1. CASE IsDir(at, d) /\ OnlyLine(at, d)
    <3>1. fs'[Slash] = fs[Slash] \ RmdirP(Slash, d) /\ d \in Dirs
      BY <1>0, <1>1, <2>1 DEF IsDir, Tidy
    <3>2. ASSUME NEW p \in fs'[Slash], p \in Dirs, p = d \/ Holds(p)
          PROVE  Holds(p)'
      <4>1. p \in fs[Slash] \ RmdirP(Slash, d)
        BY <3>1
      <4>2. p = d \/ \E y \in fs[Slash] : p \in Anc[y]
        BY <3>2 DEF Holds
      <4>3. \E y \in fs[Slash] \ RmdirP(Slash, d) : p \in Anc[y]
        BY <1>0, <3>1, <3>2, <4>1, <4>2, RmdirLeavesFull
      <4> QED
        BY <3>1, <3>2, <4>3 DEF Holds
    <3> QED
      BY <3>1, <3>2 DEF Holds
  <2>2. CASE ~(IsDir(at, d) /\ OnlyLine(at, d))
    <3>1. fs' = fs
      BY <1>1, <2>2
    <3>2. \A p : Holds(p)' = Holds(p)
      BY <3>1 DEF Holds
    <3>3. d \in fs'[Slash] /\ d \in Dirs => IsDir(at, d)
      BY <1>0, <3>1 DEF IsDir
    <3> QED
      BY <2>2, <3>1, <3>2, <3>3
  <2> QED
    BY <2>1, <2>2
<1>5. ListsClosed' /\ ListsNothingYet'
  BY <1>2 DEF OrphanInv, ListsClosed, ListsNothingYet
<1>6. /\ \A p : Listed(p)' = Listed(p)
      /\ \A p : ListedByOther(p)' = ListedByOther(p)
  BY <1>2 DEF Listed, ListedByOther
<1>7. Explained'
  BY <1>2, <1>4, <1>6 DEF OrphanInv, Explained
<1>8. Visited'
  <2> SUFFICES ASSUME NEW p \in contents[Slash][ent], p \in fs'[Slash], ~ListedByOther(p)
               PROVE  p \in Dirs /\ (p \in todo' \/ Holds(p)')
    BY <1>2, <1>6 DEF Visited
  <2>1. p \in Dirs /\ (p \in todo \/ Holds(p))
    BY <1>2, <1>4 DEF OrphanInv, Visited
  <2>2. CASE p = d
    BY <1>0, <1>4, <2>1, <2>2, OnlyLineHere
  <2> QED
    BY <1>1, <1>4, <2>1, <2>2
<1> QED
  BY <1>5, <1>7, <1>8 DEF OrphanInv

\* When the entry goes, nothing is left that it alone accounts for.
LEMMA RmEntryOrphans ==
  ASSUME Inv, Tidy, OrphanInv, SlashTidy', RmEntry
  PROVE  OrphanInv'
<1>0. /\ at = Slash /\ Slash \in Roots /\ ent \in present[Slash] /\ ent \in Entries
      /\ present \in [Roots -> SUBSET Entries]
      /\ contents \in [Roots -> [Entries -> SUBSET Paths]]
  BY RootAssumption DEF Tidy, Inv, TypeOK, RemovalInv, RmEntry
<1>1. /\ pc = "rmdir" /\ todo = {} /\ fs' = fs /\ pc' \in {"idle", "nextold"}
      /\ present' = [present EXCEPT ![at] = @ \ Gone(ent)]
      /\ contents' = [contents EXCEPT ![at] =
                        [e \in Entries |-> IF e \in Gone(ent) THEN {} ELSE @[e]]]
  BY ReturnRemoveRests DEF RmEntry
<1>2. /\ present'[Slash] = present[Slash] \ Gone(ent)
      /\ \A e \in Entries : contents'[Slash][e] =
                              IF e \in Gone(ent) THEN {} ELSE contents[Slash][e]
  BY <1>0, <1>1
<1>3. present[Slash] \ {ent} \subseteq present'[Slash]
  <2>1. \A e \in present[Slash] : e[2] # "nested"
    BY DEF OrphanInv, SlashTidy, Old
  <2> QED
    BY <1>2, <2>1 DEF Gone
<1>4. ListsClosed' /\ ListsNothingYet' /\ Visited'
  BY <1>1, <1>2 DEF OrphanInv, ListsClosed, ListsNothingYet, Visited
<1>5. Explained'
  <2> SUFFICES ASSUME NEW p \in fs[Slash] \ Local
               PROVE  Listed(p)' \/ Holds(p)'
    BY <1>1 DEF Explained
  <2>1. ListedByOther(p) => Listed(p)'
    <3> SUFFICES ASSUME NEW e \in present[Slash] \ {ent}, p \in contents[Slash][e]
                 PROVE  Listed(p)'
      BY DEF ListedByOther
    <3>1. e \in present'[Slash] /\ e \in Entries /\ e \notin Gone(ent)
      BY <1>0, <1>2, <1>3
    <3> QED
      BY <1>2, <3>1 DEF Listed
  <2>2. Holds(p)' = Holds(p)
    BY <1>1 DEF Holds
  <2>3. Listed(p) \/ Holds(p)
    BY <1>1 DEF OrphanInv, Explained
  <2>4. Listed(p) => ListedByOther(p) \/ p \in contents[Slash][ent]
    BY DEF Listed, ListedByOther
  <2>5. p \in contents[Slash][ent] => ListedByOther(p) \/ Holds(p)
    BY <1>1 DEF OrphanInv, Visited
  <2> QED
    BY <2>1, <2>2, <2>3, <2>4, <2>5
<1> QED
  BY <1>4, <1>5 DEF OrphanInv

LEMMA RemoveStepOrphans ==
  ASSUME Inv, Tidy, OrphanInv, SlashTidy', Douninst \/ RmFilesDone \/ NextOld
  PROVE  OrphanInv'
<1>1. CASE Douninst \/ RmFilesDone
  <2>0. at = Slash
    BY DEF Tidy, Inv, TypeOK
  <2>1. /\ UNCHANGED <<fs, present, contents, ent, pkg>> /\ todo' = contents[Slash][ent]
        /\ \/ pc = "douninst" /\ pc' = "rmfile"
           \/ pc = "rmfile" /\ pc' = "rmdir" /\ todo = {}
    BY <1>1, <2>0 DEF Douninst, RmFilesDone, disk, request, removal
  <2>2. ListsClosed' /\ ListsNothingYet'
    BY <2>1 DEF OrphanInv, ListsClosed, ListsNothingYet
  <2>3. /\ \A p : Listed(p)' = Listed(p)
        /\ \A p : ListedByOther(p)' = ListedByOther(p)
        /\ \A p : Holds(p)' = Holds(p)
    BY <2>1 DEF Listed, ListedByOther, Holds
  <2>4. Explained'
    BY <2>1, <2>3 DEF OrphanInv, Explained
  <2>5. Visited'
    BY <2>1, <2>3 DEF OrphanInv, Visited
  <2> QED
    BY <2>2, <2>4, <2>5 DEF OrphanInv
<1>2. CASE NextOld
  <2>1. CASE Exit(0) /\ UNCHANGED <<disk, removal>>
    BY <1>2, <2>1, QuietOrphans DEF NextOld, Exit, disk
  <2>2. ASSUME NEW e \in olds, CallRemovepkg("upgradepkg", e, root, olds \ {e})
        PROVE  OrphanInv'
    BY <1>2, <2>2, CallRemovepkgOrphans DEF NextOld
  <2> QED
    BY <1>2, <2>1, <2>2 DEF NextOld
<1> QED
  BY <1>1, <1>2

LEMMA OrphanNext ==
  ASSUME Inv, Tidy, OrphanInv, [Next]_vars
  PROVE  OrphanInv'
<1>0. SlashTidy'
  BY TidyNext DEF Tidy, OrphanInv
<1>1. CASE Step
  BY <1>0, <1>1, InstallStepOrphans, RmFileOrphans, RmDirOrphans, RmEntryOrphans,
     RemoveStepOrphans DEF Step
<1>2. ASSUME NEW r \in Roots, NEW f \in Local, CreateLocal(r, f) PROVE OrphanInv'
  <2>1. /\ pc = "idle" /\ UNCHANGED <<present, contents, pc>>
        /\ fs' = [fs EXCEPT ![Slash] = @ \cup {f}]
    BY <1>2 DEF CreateLocal, Tidy
  <2>2. fs'[Slash] = fs[Slash] \cup {f}
    BY <2>1, RootAssumption DEF Inv, TypeOK
  <2>3. ListsClosed' /\ ListsNothingYet' /\ Visited'
    BY <2>1 DEF OrphanInv, ListsClosed, ListsNothingYet, Visited
  <2>4. /\ \A p : Listed(p)' = Listed(p)
        /\ \A p : Holds(p) => Holds(p)'
    BY <2>1, <2>2 DEF Listed, Holds
  <2>5. Explained'
    BY <2>1, <2>2, <2>4 DEF OrphanInv, Explained
  <2> QED
    BY <1>0, <2>3, <2>5 DEF OrphanInv
<1>3. ~Crash
  BY DEF Crash, Fault, Tidy
<1>4. CASE UNCHANGED vars
  <2>1. UNCHANGED <<fs, present, contents, pc, pkg, ent, todo>>
    BY <1>4 DEF vars, disk, request, removal
  <2>2. /\ \A p : Listed(p)' = Listed(p)
        /\ \A p : ListedByOther(p)' = ListedByOther(p)
        /\ \A p : Holds(p)' = Holds(p)
    BY <2>1 DEF Listed, ListedByOther, Holds
  <2>3. ListsClosed' /\ ListsNothingYet'
    BY <2>1 DEF OrphanInv, ListsClosed, ListsNothingYet, Cur
  <2>4. Explained' /\ Visited'
    BY <2>1, <2>2 DEF OrphanInv, Explained, Visited
  <2> QED
    BY <1>0, <2>3, <2>4 DEF OrphanInv
<1> QED
  BY <1>0, <1>1, <1>2, <1>3, <1>4, BeginOrphans DEF Next

\* removepkg removes all that a package provides, except for what others provide too:
\* for any packages, upgrades, reinstallations and removals in any order, every path
\* in a root is listed by a package that is registered, or is the administrator's, or
\* is a directory that holds something.
THEOREM NothingIsOrphaned ==
  ASSUME Tidy
  PROVE  Spec => []NoOrphans
<1>1. Init => OrphanInv
  BY RootAssumption DEF Init, OrphanInv, SlashTidy, Removing, ListsClosed, ListsNothingYet,
     Explained, Visited
<1>2. Inv /\ OrphanInv /\ [Next]_vars => OrphanInv'
  BY OrphanNext
<1>3. OrphanInv => NoOrphans
  BY DEF OrphanInv, Explained, Listed, Holds, NoOrphans, Tidy
<1> QED
  BY <1>1, <1>2, <1>3, InvIsInvariant, PTL DEF Spec

-----------------------------------------------------------------------------
(* The tools implement PackageDb, in the only root, where no command is interrupted
   and tar does not fail *)

\* What the steps of a command leave to each other: only the entry that is being
\* removed is marked, the old versions are there until their turn comes, and a
\* removepkg of its own removes a package that is installed.
DbInv ==
  /\ pc = "idle" => olds = {}
  /\ \A e \in torn[Slash] : pc \in {"rmfile", "rmdir"} /\ e = ent
  /\ \A e \in olds : e \in present[Slash] /\ e[2] = "cur"
  /\ cmd = "removepkg" =>
       /\ caller = "removepkg" /\ ~upg /\ olds = {}
       /\ pc # "idle" => Removing /\ ent[2] = "cur"
  /\ Removing /\ caller = "upgradepkg" => ent[2] = "cur" /\ ent \notin olds

AtomicInv == Inv /\ UpgradeInv /\ SlashTidy /\ DbInv

\* The database and the command that PackageDb sees.
DbSeen == [p \in Standing |-> contents[Slash][Place(p)]]
AskedSeen == <<cmd, IF cmd = "removepkg" THEN ent ELSE pkg>>

LEMMA SameDb ==
  ASSUME Standing' = Standing,
         \A p \in Standing : contents'[Slash][Place(p)'] = contents[Slash][Place(p)]
  PROVE  DbSeen' = DbSeen
BY DEF DbSeen

\* A step that PackageDb does not see.
LEMMA Unseen ==
  ASSUME DbSeen' = DbSeen, AskedSeen' = AskedSeen, Pending' = Pending,
         pc' = "idle" <=> pc = "idle", rc' = rc
  PROVE  UNCHANGED Db!dvars
BY DEF Db!dvars, DbSeen, AskedSeen

\* At the prompt.
LEMMA IdleView ==
  ASSUME AtomicInv, Roots = {Slash}, pc = "idle"
  PROVE  /\ olds = {} /\ torn[Slash] = {}
         /\ \A e \in present[Slash] : e \in Entries /\ e[2] = "cur"
         /\ Standing = {p \in Packages : <<p, "cur">> \in present[Slash]}
         /\ DbSeen = [p \in Standing |-> contents[Slash][<<p, "cur">>]]
         /\ Pending = Db!Nothing
<1>1. olds = {} /\ torn[Slash] = {}
  BY DEF AtomicInv, DbInv
<1>2. \A e \in present[Slash] : e \in Entries /\ e[2] = "cur"
  BY DEF AtomicInv, SlashTidy, Removing, Inv, TypeOK
<1>3. \A p : Place(p) = <<p, "cur">>
  BY DEF Place, Installing
<1>4. Superseded = {}
  BY <1>1 DEF Superseded, Installing, Removing
<1>5. Standing = {p \in Packages : <<p, "cur">> \in present[Slash]}
  BY <1>1, <1>3, <1>4 DEF Standing
<1>6. DbSeen = [p \in Standing |-> contents[Slash][<<p, "cur">>]]
  BY <1>3 DEF DbSeen
<1>7. Pending = Db!Nothing
  BY DEF Pending, Db!Nothing, Installing
<1> QED
  BY <1>1, <1>2, <1>5, <1>6, <1>7

\* What upgradepkg finds are the versions in the database.
LEMMA VersionsFound ==
  ASSUME AtomicInv, Roots = {Slash}, pc = "idle", NEW a \in Archives
  PROVE  /\ SameName(Slash, a) = {} <=> Db!Versions(a) = {}
         /\ {e[1] : e \in SameName(Slash, a) \ {Cur(a)}} = Db!Versions(a) \ {Pkg[a]}
         /\ Pkg[a] \in Db!Installed <=> Cur(a) \in present[Slash]
<1>1. Db!Installed = {p \in Packages : <<p, "cur">> \in present[Slash]}
  BY IdleView DEF Db!Installed, DbSeen
<1>2. Db!Versions(a) = {p \in Packages : <<p, "cur">> \in present[Slash] /\ Name[p] = Name[Pkg[a]]}
  BY <1>1 DEF Db!Versions
<1>3. \A e \in SameName(Slash, a) : /\ e = <<e[1], "cur">> /\ e[1] \in Packages
                                    /\ e \in present[Slash] /\ Name[e[1]] = Name[Pkg[a]]
  BY IdleView DEF SameName, Entries
<1>4. \A p \in Db!Versions(a) : <<p, "cur">> \in SameName(Slash, a)
  BY <1>2 DEF SameName
<1>5. Pkg[a] \in Packages
  BY PackageAssumption
<1>6. \A e \in SameName(Slash, a) : e[1] \in Db!Versions(a) /\ (e = Cur(a) <=> e[1] = Pkg[a])
  BY <1>2, <1>3 DEF Cur
<1>7. {e[1] : e \in SameName(Slash, a) \ {Cur(a)}} = Db!Versions(a) \ {Pkg[a]}
  <2>1. ASSUME NEW p \in Db!Versions(a) \ {Pkg[a]}
        PROVE  \E e \in SameName(Slash, a) \ {Cur(a)} : p = e[1]
    <3>1. <<p, "cur">> \in SameName(Slash, a) /\ <<p, "cur">> # Cur(a)
      BY <1>4, <2>1 DEF Cur
    <3> QED
      BY <3>1
  <2> QED
    BY <1>6, <2>1
<1> QED
  BY <1>1, <1>4, <1>5, <1>6, <1>7 DEF Cur

\* A command that gets as far as tar has been accepted.
LEMMA InstallAccepted ==
  ASSUME AtomicInv, Roots = {Slash}, pc = "idle", NEW a \in Archives,
         NEW re \in BOOLEAN, NEW u \in BOOLEAN, NEW o, CallInstallpkg(a, Slash, re, u, o),
         pkg' = a, root' = Slash, Cur(a) \notin present[Slash] \/ re
  PROVE  /\ pc' = "extract" /\ rc' = rc /\ olds' = o
         /\ torn'[Slash] = {}
         /\ present[Slash] \ {Cur(a)} \subseteq present'[Slash]
         /\ DbSeen' = DbSeen
         /\ Pending' = [put |-> {a}, drop |-> {e[1] : e \in olds'}]
<1>0. /\ Slash \in Roots /\ a \in Archives /\ Cur(a) \in Entries /\ Old(a) \in Entries
      /\ present \in [Roots -> SUBSET Entries] /\ torn \in [Roots -> SUBSET Entries]
      /\ contents \in [Roots -> [Entries -> SUBSET Paths]]
  BY RootAssumption, EntriesOfArchive DEF AtomicInv, Inv, TypeOK
<1>1. pc' = "extract" /\ rc' = rc /\ olds' = o
  BY DEF CallInstallpkg
<1>2. /\ torn[Slash] = {} /\ \A e \in present[Slash] : e[2] = "cur"
      /\ Standing = {p \in Packages : <<p, "cur">> \in present[Slash]}
      /\ DbSeen = [p \in Standing |-> contents[Slash][<<p, "cur">>]]
  BY IdleView
<1>3. Old(a) \notin present[Slash]
  BY <1>2 DEF Old
<1>4. Pending' = [put |-> {a}, drop |-> {e[1] : e \in olds'}]
  BY <1>1 DEF Pending, Installing
<1>5. \A p \in Packages : Place(p)' = IF p = Pkg[a] THEN Old(a) ELSE <<p, "cur">>
  BY <1>1 DEF Place, Installing, Old
<1>6. Superseded' = {}
  BY <1>1 DEF Superseded, Installing
<1>7. CASE Cur(a) \notin present[Slash]
  <2>1. UNCHANGED <<present, contents, torn>>
    BY <1>7 DEF CallInstallpkg
  <2>2. Pkg[a] \notin Standing
    BY <1>2, <1>7 DEF Cur
  <2>3. Standing' = Standing
    BY <1>2, <1>3, <1>5, <1>6, <2>1, <2>2 DEF Standing
  <2>4. DbSeen' = DbSeen
    <3>1. \A p \in Standing : Place(p)' = <<p, "cur">>
      BY <1>2, <1>5, <2>2
    <3> QED
      BY <1>2, <2>1, <2>3, <3>1 DEF DbSeen
  <2> QED
    BY <1>1, <1>2, <1>4, <2>1, <2>4
<1>8. CASE Cur(a) \in present[Slash]
  <2>1. SetAside(Slash, a)
    BY <1>8 DEF CallInstallpkg
  <2>2. /\ present' = [present EXCEPT ![Slash] = (@ \ {Cur(a)}) \cup {Old(a)}]
        /\ contents' = [contents EXCEPT ![Slash] =
                         [@ EXCEPT ![Old(a)] = contents[Slash][Cur(a)], ![Cur(a)] = {}]]
        /\ torn' = [torn EXCEPT ![Slash] = IF Cur(a) \in @ THEN (@ \ {Cur(a)}) \cup {Old(a)} ELSE @]
    BY <1>3, <2>1 DEF SetAside
  <2>3. present'[Slash] = (present[Slash] \ {Cur(a)}) \cup {Old(a)} /\ torn'[Slash] = {}
    BY <1>0, <1>2, <2>2
  <2>4. contents'[Slash] = [contents[Slash] EXCEPT ![Old(a)] = contents[Slash][Cur(a)], ![Cur(a)] = {}]
    BY <1>0, <2>2
  <2>5. Standing' = Standing
    <3>1. Standing' = {p \in Packages : Place(p)' \in present'[Slash]}
      BY <1>6, <2>3 DEF Standing
    <3>2. ASSUME NEW p \in Packages
          PROVE  Place(p)' \in present'[Slash] <=> <<p, "cur">> \in present[Slash]
      BY <1>5, <1>8, <2>3 DEF Cur, Old
    <3> QED
      BY <1>2, <3>1, <3>2
  <2>6. ASSUME NEW p \in Packages
        PROVE  contents'[Slash][Place(p)'] = contents[Slash][<<p, "cur">>]
    <3>1. CASE p = Pkg[a]
      BY <1>0, <1>5, <2>4, <3>1 DEF Cur, Old
    <3>2. CASE p # Pkg[a]
      <4>1. Place(p)' = <<p, "cur">> /\ <<p, "cur">> \in Entries
        BY <1>5, <3>2 DEF Entries
      <4>2. <<p, "cur">> # Cur(a) /\ <<p, "cur">> # Old(a)
        BY <3>2 DEF Cur, Old
      <4> QED
        BY <1>0, <2>4, <4>1, <4>2
    <3> QED
      BY <3>1, <3>2
  <2>7. DbSeen' = DbSeen
    BY <1>2, <2>5, <2>6 DEF DbSeen
  <2> QED
    BY <1>1, <1>2, <1>4, <2>3, <2>7
<1> QED
  BY <1>7, <1>8

\* What the steps see of AtomicInv.
LEMMA AtomicTypes ==
  ASSUME AtomicInv, Roots = {Slash}
  PROVE  /\ root = Slash /\ at = Slash /\ Slash \in Roots /\ pkg \in Archives
         /\ Cur(pkg) \in Entries /\ Old(pkg) \in Entries /\ ent \in Entries
         /\ olds \subseteq Entries
         /\ present \in [Roots -> SUBSET Entries] /\ torn \in [Roots -> SUBSET Entries]
         /\ contents \in [Roots -> [Entries -> SUBSET Paths]]
BY RootAssumption, EntriesOfArchive DEF AtomicInv, Inv, TypeOK

\* The commands that are refused leave everything to PackageDb's Refuse.
LEMMA Refused ==
  ASSUME AtomicInv, Roots = {Slash}, pc = "idle", NEW s, NEW c,
         UNCHANGED <<present, contents, torn>>, pc' = "idle", rc' = s, olds' = {},
         AskedSeen' = c
  PROVE  Db!Refuse(c, s) /\ (\A e \in torn'[Slash] : FALSE)
<1>1. /\ olds = {} /\ torn[Slash] = {}
      /\ Standing = {p \in Packages : <<p, "cur">> \in present[Slash]}
      /\ DbSeen = [p \in Standing |-> contents[Slash][<<p, "cur">>]]
      /\ Pending = Db!Nothing
  BY IdleView
<1>2. \A p : Place(p)' = <<p, "cur">>
  BY DEF Place, Installing
<1>3. Superseded' = {} /\ Pending' = Db!Nothing
  BY DEF Superseded, Pending, Installing, Removing, Db!Nothing
<1>4. Standing' = Standing
  BY <1>1, <1>2, <1>3 DEF Standing
<1>5. DbSeen' = DbSeen
  BY <1>1, <1>2, <1>4 DEF DbSeen
<1> QED
  BY <1>1, <1>3, <1>5 DEF Db!Refuse, DbSeen, AskedSeen

LEMMA InstallPkgAtomic ==
  ASSUME AtomicInv, Roots = {Slash}, NEW a \in Archives, NEW re \in BOOLEAN,
         InstallPkg(a, Slash, re)
  PROVE  Db!Install(a, re) /\ DbInv'
<1>0. /\ pc = "idle" /\ cmd' = "installpkg" /\ pkg' = a /\ root' = Slash
      /\ CallInstallpkg(a, Slash, re, FALSE, {})
  BY DEF InstallPkg
<1>1. AskedSeen' = <<"installpkg", a>>
  BY <1>0 DEF AskedSeen
<1>2. Pkg[a] \in Db!Installed <=> Cur(a) \in present[Slash]
  BY <1>0, VersionsFound
<1>3. CASE Cur(a) \in present[Slash] /\ ~re
  <2>1. /\ UNCHANGED <<present, contents, torn>> /\ pc' = "idle" /\ rc' = 2 /\ olds' = {}
    BY <1>0, <1>3 DEF CallInstallpkg, ReturnInstall, Exit
  <2>2. Db!Refuse(<<"installpkg", a>>, 2) /\ (\A e \in torn'[Slash] : FALSE)
    BY <1>0, <1>1, <2>1, Refused
  <2>3. DbInv'
    BY <1>0, <2>1, <2>2 DEF DbInv, Removing
  <2> QED
    BY <1>2, <1>3, <2>2, <2>3 DEF Db!Install
<1>4. CASE Cur(a) \notin present[Slash] \/ re
  <2> DEFINE none == {}
  <2>0. CallInstallpkg(a, Slash, re, FALSE, none)
    BY <1>0
  <2> HIDE DEF none
  <2>1. /\ pc' = "extract" /\ rc' = rc /\ olds' = none /\ torn'[Slash] = {}
        /\ DbSeen' = DbSeen /\ Pending' = [put |-> {a}, drop |-> {e[1] : e \in olds'}]
    BY <1>0, <1>4, <2>0, InstallAccepted
  <2>2. none = {} /\ {e[1] : e \in olds'} = {}
    BY <2>1 DEF none
  <2>3. Db!Accept(<<"installpkg", a>>, {a}, {})
    BY <1>0, <1>1, <2>1, <2>2 DEF Db!Accept, DbSeen, AskedSeen
  <2>4. DbInv'
    BY <1>0, <2>1, <2>2 DEF DbInv, Removing
  <2> QED
    BY <1>2, <1>4, <2>3, <2>4 DEF Db!Install
<1> QED
  BY <1>3, <1>4

LEMMA RemovePkgAtomic ==
  ASSUME AtomicInv, Roots = {Slash}, NEW a \in Archives, NEW k \in {"cur", "old"},
         RemovePkg(a, k, Slash)
  PROVE  Db!Remove(Pkg[a], k) /\ DbInv'
<1> DEFINE e == <<Pkg[a], k>>
<1>0. /\ pc = "idle" /\ cmd' = "removepkg" /\ upg' = FALSE /\ root' = Slash
      /\ CallRemovepkg("removepkg", e, Slash, {})
  BY DEF RemovePkg
<1>1. /\ UNCHANGED <<present, contents, torn>> /\ ent' = e /\ caller' = "removepkg"
      /\ AskedSeen' = <<"removepkg", e>>
  BY <1>0 DEF CallRemovepkg, disk, AskedSeen
<1>2. /\ Pkg[a] \in Db!Installed <=> <<Pkg[a], "cur">> \in present[Slash]
      /\ \A x \in present[Slash] : x[2] = "cur"
  BY <1>0, VersionsFound, IdleView DEF Cur
<1>3. CASE e \notin present[Slash]
  <2>1. pc' = "idle" /\ rc' = 2 /\ olds' = {}
    BY <1>0, <1>3 DEF CallRemovepkg, ReturnRemove, Exit
  <2>2. Db!Refuse(<<"removepkg", e>>, 2) /\ (\A x \in torn'[Slash] : FALSE)
    BY <1>0, <1>1, <2>1, Refused
  <2>3. DbInv'
    BY <1>0, <1>1, <2>1, <2>2 DEF DbInv, Removing
  <2> QED
    BY <1>2, <1>3, <2>2, <2>3 DEF Db!Remove
<1>4. CASE e \in present[Slash]
  <2>0. k = "cur"
    BY <1>2, <1>4
  <2>1. pc' = "douninst" /\ rc' = rc /\ olds' = {}
    BY <1>0, <1>4 DEF CallRemovepkg
  <2>2. /\ olds = {} /\ torn[Slash] = {}
        /\ Standing = {p \in Packages : <<p, "cur">> \in present[Slash]}
        /\ DbSeen = [p \in Standing |-> contents[Slash][<<p, "cur">>]]
    BY <1>0, IdleView
  <2>3. \A p : Place(p)' = <<p, "cur">>
    BY <2>1 DEF Place, Installing
  <2>4. Superseded' = {}
    BY <1>1, <2>1 DEF Superseded, Installing, Removing
  <2>5. Standing' = Standing
    BY <1>1, <2>2, <2>3, <2>4 DEF Standing
  <2>6. DbSeen' = DbSeen
    BY <1>1, <2>2, <2>3, <2>5 DEF DbSeen
  <2>7. Pending' = [put |-> {}, drop |-> {Pkg[a]}]
    BY <1>1, <2>1 DEF Pending, Installing
  <2>8. Db!Accept(<<"removepkg", e>>, {}, {Pkg[a]})
    BY <1>0, <1>1, <2>1, <2>6, <2>7 DEF Db!Accept, DbSeen, AskedSeen
  <2>9. DbInv'
    BY <1>0, <1>1, <2>0, <2>1, <2>2 DEF DbInv, Removing
  <2> QED
    BY <1>2, <1>4, <2>0, <2>8, <2>9 DEF Db!Remove
<1> QED
  BY <1>3, <1>4

LEMMA UpgradePkgAtomic ==
  ASSUME AtomicInv, Roots = {Slash}, NEW a \in Archives, NEW i \in BOOLEAN, NEW re \in BOOLEAN,
         UpgradePkg(a, Slash, i, re)
  PROVE  Db!Upgrade(a, i, re) /\ DbInv'
<1> DEFINE same == SameName(Slash, a)
           o == same \ {Cur(a)}
<1>0. pc = "idle" /\ cmd' = "upgradepkg" /\ pkg' = a /\ root' = Slash
  BY DEF UpgradePkg
<1>1. AskedSeen' = <<"upgradepkg", a>>
  BY <1>0 DEF AskedSeen
<1>2. /\ same = {} <=> Db!Versions(a) = {}
      /\ {e[1] : e \in o} = Db!Versions(a) \ {Pkg[a]}
      /\ Pkg[a] \in Db!Installed <=> Cur(a) \in present[Slash]
  BY <1>0, VersionsFound
<1>3. ASSUME UNCHANGED <<present, contents, torn>>, pc' = "idle", rc' = 1, olds' = {}
      PROVE  Db!Refuse(<<"upgradepkg", a>>, 1) /\ DbInv'
  <2>1. Db!Refuse(<<"upgradepkg", a>>, 1) /\ (\A e \in torn'[Slash] : FALSE)
    BY <1>0, <1>1, <1>3, Refused
  <2> QED
    BY <1>0, <1>3, <2>1 DEF DbInv, Removing
<1>4. CASE same = {} /\ ~i /\ Exit(1) /\ UNCHANGED <<disk, removal>>
  <2>1. UNCHANGED <<present, contents, torn>> /\ pc' = "idle" /\ rc' = 1 /\ olds' = {}
    BY <1>4 DEF Exit, disk
  <2> QED
    BY <1>2, <1>3, <1>4, <2>1 DEF Db!Upgrade
<1>5. CASE same = {} /\ i /\ CallInstallpkg(a, Slash, FALSE, FALSE, {})
  <2> DEFINE none == {}
  <2>0. CallInstallpkg(a, Slash, FALSE, FALSE, none)
    BY <1>5
  <2>01. Cur(a) \notin present[Slash]
    <3>1. Cur(a)[2] # "nested" /\ Cur(a)[1] = Pkg[a]
      BY DEF Cur
    <3>2. Cur(a) \notin SameName(Slash, a)
      BY <1>5
    <3> QED
      BY <3>1, <3>2 DEF SameName
  <2> HIDE DEF none
  <2>1. /\ pc' = "extract" /\ rc' = rc /\ olds' = none /\ torn'[Slash] = {}
        /\ DbSeen' = DbSeen /\ Pending' = [put |-> {a}, drop |-> {e[1] : e \in olds'}]
    BY <1>0, <2>0, <2>01, InstallAccepted
  <2>02. none = {} /\ {e[1] : e \in olds'} = {} /\ Db!Versions(a) \ {Pkg[a]} = {}
    <3>1. none = {}
      BY DEF none
    <3>2. Db!Versions(a) = {}
      BY <1>2, <1>5
    <3> QED
      BY <2>1, <3>1, <3>2
  <2>2. Db!Accept(<<"upgradepkg", a>>, {a}, Db!Versions(a) \ {Pkg[a]})
    BY <1>0, <1>1, <2>02, <2>1 DEF Db!Accept, DbSeen, AskedSeen
  <2>3. DbInv'
    BY <1>0, <2>02, <2>1 DEF DbInv, Removing
  <2> QED
    BY <1>2, <1>5, <2>2, <2>3 DEF Db!Upgrade
<1>6. CASE same # {} /\ CallInstallpkg(a, Slash, re, TRUE, o)
  <2>1. CASE Cur(a) \in present[Slash] /\ ~re
    <3>1. UNCHANGED <<present, contents, torn>> /\ pc' = "idle" /\ rc' = 1 /\ olds' = {}
      BY <1>6, <2>1 DEF CallInstallpkg, ReturnInstall, Exit
    <3> QED
      BY <1>2, <1>3, <1>6, <2>1, <3>1 DEF Db!Upgrade
  <2>2. CASE Cur(a) \notin present[Slash] \/ re
    <3> HIDE DEF o
    <3>1. /\ pc' = "extract" /\ rc' = rc /\ olds' = o /\ torn'[Slash] = {}
          /\ present[Slash] \ {Cur(a)} \subseteq present'[Slash]
          /\ DbSeen' = DbSeen /\ Pending' = [put |-> {a}, drop |-> {e[1] : e \in olds'}]
      BY <1>0, <1>6, <2>2, InstallAccepted
    <3>2. Db!Accept(<<"upgradepkg", a>>, {a}, Db!Versions(a) \ {Pkg[a]})
      BY <1>0, <1>1, <1>2, <3>1 DEF Db!Accept, DbSeen, AskedSeen
    <3>3. \A e \in o : e \in present'[Slash] /\ e[2] = "cur"
      <4>1. o \subseteq present[Slash] \ {Cur(a)}
        BY DEF o, SameName
      <4> QED
        BY <1>0, <3>1, <4>1, IdleView
    <3>4. DbInv'
      BY <1>0, <3>1, <3>3 DEF DbInv, Removing
    <3> QED
      BY <1>2, <1>6, <2>2, <3>2, <3>4 DEF Db!Upgrade
  <2> QED
    BY <2>1, <2>2
<1> QED
  BY <1>4, <1>5, <1>6 DEF UpgradePkg

\* A step after which PackageDb sees the command that it saw.
LEMMA SameAsked ==
  ASSUME UNCHANGED request, cmd = "removepkg" => ent' = ent
  PROVE  AskedSeen' = AskedSeen
BY DEF AskedSeen, request

\* Once the new entry is complete, or while a package is removed, every entry that
\* counts is in its place.
LEMMA InPlace ==
  ASSUME ~Installing
  PROVE  /\ Standing = {p \in Packages : <<p, "cur">> \in present[Slash] \ (torn[Slash] \cup Superseded)}
         /\ DbSeen = [p \in Standing |-> contents[Slash][<<p, "cur">>]]
<1>1. \A p : Place(p) = <<p, "cur">>
  BY DEF Place
<1> QED
  BY <1>1 DEF Standing, DbSeen

LEMMA InPlaceNext ==
  ASSUME ~Installing'
  PROVE  /\ Standing' = {p \in Packages : <<p, "cur">> \in present'[Slash] \ (torn'[Slash] \cup Superseded')}
         /\ DbSeen' = [p \in Standing' |-> contents'[Slash][<<p, "cur">>]]
<1>1. \A p : Place(p)' = <<p, "cur">>
  BY DEF Place
<1> QED
  BY <1>1 DEF Standing, DbSeen

\* tar works beside the entry that is set aside.
LEMMA ExtractUnseen ==
  ASSUME AtomicInv, Roots = {Slash}, Faults = {}, Extract \/ ExtractEntry \/ TarEnds
  PROVE  UNCHANGED Db!dvars /\ DbInv'
<1>0. /\ pc = "extract" /\ pc' \in {"extract", "list"}
      /\ UNCHANGED <<contents, torn, rc, request, removal, olds>>
      /\ present' = present \/ present' = [present EXCEPT ![root] = @ \cup {Cur(pkg)}]
  BY DEF Extract, ExtractEntry, TarEnds, disk
<1>1. /\ cmd # "removepkg" /\ torn[Slash] = {}
  BY <1>0 DEF AtomicInv, DbInv, Removing
<1>2. Installing /\ Installing'
  BY <1>0 DEF Installing
<1>3. \A p : Place(p)' = Place(p) /\ Place(p) # Cur(pkg)
  BY <1>0, <1>2 DEF Place, Old, Cur, request
<1>4. Superseded = {} /\ Superseded' = {}
  BY <1>2 DEF Superseded
<1>5. /\ present[Slash] \subseteq present'[Slash]
      /\ present'[Slash] \subseteq present[Slash] \cup {Cur(pkg)}
  BY <1>0, AtomicTypes
<1>6. Standing' = Standing
  BY <1>0, <1>3, <1>4, <1>5 DEF Standing
<1>7. DbSeen' = DbSeen
  BY <1>0, <1>3, <1>6 DEF DbSeen
<1>8. Pending' = Pending
  BY <1>0, <1>2 DEF Pending, request
<1>9. AskedSeen' = AskedSeen
  BY <1>0, <1>1, SameAsked
<1>10. UNCHANGED Db!dvars
  BY <1>0, <1>7, <1>8, <1>9, Unseen
<1>11. DbInv'
  BY <1>0, <1>1, <1>5 DEF AtomicInv, DbInv, Removing, request, removal
<1> QED
  BY <1>10, <1>11

\* The list of paths completes the new entry, and with it the exchange.
LEMMA WriteContentsAtomic ==
  ASSUME AtomicInv, Roots = {Slash}, Faults = {}, WriteContents
  PROVE  Db!TakeEffect /\ DbInv'
<1>0. /\ root = Slash /\ Slash \in Roots /\ pkg \in Archives /\ Cur(pkg) \in Entries
      /\ olds \subseteq Entries
      /\ torn \in [Roots -> SUBSET Entries] /\ contents \in [Roots -> [Entries -> SUBSET Paths]]
  BY AtomicTypes
<1>1. /\ pc = "list" /\ pc' = "doinst" /\ SaveContents(Ships[pkg])
      /\ UNCHANGED <<present, rc, request, removal, olds>>
  BY DEF WriteContents, Fault
<1>2. cmd # "removepkg" /\ torn[Slash] = {} /\ \A e \in olds : e \in present[Slash] /\ e[2] = "cur"
  BY <1>1 DEF AtomicInv, DbInv, Removing
<1>3. Cur(pkg) \in present[Slash] /\ todo = {} /\ Cur(pkg) \notin olds
  BY <1>0, <1>1, <1>2 DEF AtomicInv, UpgradeInv, NewStays
<1>4. /\ contents'[Slash] = [contents[Slash] EXCEPT ![Cur(pkg)] = Ships[pkg]]
      /\ torn'[Slash] = {}
  <2>1. /\ contents' = [contents EXCEPT ![root] = [@ EXCEPT ![Cur(pkg)] = Ships[pkg]]]
        /\ torn' = [torn EXCEPT ![root] = @ \ {Cur(pkg)}]
    BY <1>0, <1>1, <1>3 DEF SaveContents, Mark
  <2> QED
    BY <1>0, <1>2, <2>1
<1>5. Installing /\ ~Installing' /\ Superseded = {} /\ Superseded' = olds
  BY <1>1 DEF Installing, Superseded, Removing
<1>6. /\ Standing' = {p \in Packages : <<p, "cur">> \in present[Slash] \ olds}
      /\ DbSeen' = [p \in Standing' |-> contents'[Slash][<<p, "cur">>]]
  BY <1>1, <1>4, <1>5, InPlaceNext
<1> DEFINE drop == {e[1] : e \in olds}
           W == [put |-> {pkg}, drop |-> drop]
<1>7. Pending = W /\ Pending' = Db!Nothing /\ W # Db!Nothing
  BY <1>1 DEF Pending, Installing, Db!Nothing
<1>8. Db!Installed = Standing
  BY DEF Db!Installed
<1>9. Pkg[pkg] \in Standing' /\ Pkg[pkg] \in Packages
  BY <1>0, <1>3, <1>6, PackageAssumption DEF Cur
<1>10. ASSUME NEW p \in Packages, p # Pkg[pkg]
       PROVE  /\ p \in Standing <=> <<p, "cur">> \in present[Slash]
              /\ p \in drop <=> <<p, "cur">> \in olds
              /\ Place(p) = <<p, "cur">>
  <2>1. Place(p) = <<p, "cur">>
    BY <1>10 DEF Place
  <2>2. p \in drop <=> <<p, "cur">> \in olds
    <3>1. \A e \in olds : e = <<e[1], "cur">>
      BY <1>0, <1>2 DEF Entries
    <3> QED
      BY <3>1
  <2> QED
    BY <1>2, <1>5, <2>1, <2>2 DEF Standing
<1>11. Standing' = (Standing \ drop) \cup {Pkg[pkg]}
  <2>1. Standing \subseteq Packages /\ Standing' \subseteq Packages
    BY <1>6 DEF Standing
  <2>2. ASSUME NEW p \in Packages, p # Pkg[pkg]
        PROVE  p \in Standing' <=> p \in Standing \ drop
    BY <1>6, <1>10, <2>2
  <2> QED
    BY <1>9, <2>1, <2>2
<1>12. ASSUME NEW p \in Standing'
       PROVE  contents'[Slash][<<p, "cur">>] =
                IF p \in {Pkg[pkg]} THEN Ships[pkg] ELSE DbSeen[p]
  <2>0. p \in Packages
    BY <1>6
  <2>1. CASE p = Pkg[pkg]
    BY <1>0, <1>4, <2>1 DEF Cur
  <2>2. CASE p # Pkg[pkg]
    <3>1. p \in Standing /\ Place(p) = <<p, "cur">>
      BY <1>10, <1>11, <2>0, <2>2
    <3>2. <<p, "cur">> # Cur(pkg) /\ <<p, "cur">> \in Entries
      BY <2>0, <2>2 DEF Cur, Entries
    <3>3. contents'[Slash][<<p, "cur">>] = contents[Slash][<<p, "cur">>]
      BY <1>0, <1>4, <3>2
    <3> QED
      BY <2>2, <3>1, <3>3 DEF DbSeen
  <2> QED
    BY <2>1, <2>2
<1>13. DbSeen' = Db!Changed(W)
  <2>1. {Pkg[a] : a \in W.put} = {Pkg[pkg]} /\ W.drop = drop
    OBVIOUS
  <2>2. UNION {Ships[a] : a \in {b \in W.put : Pkg[b] = Pkg[pkg]}} = Ships[pkg]
    OBVIOUS
  <2>3. ASSUME NEW p \in Standing'
        PROVE  contents'[Slash][<<p, "cur">>] =
                 IF p \in {Pkg[pkg]} THEN UNION {Ships[a] : a \in {b \in W.put : Pkg[b] = p}}
                                     ELSE DbSeen[p]
    BY <1>12, <2>2
  <2> HIDE DEF W, drop
  <2>4. DbSeen' = [p \in (Standing \ drop) \cup {Pkg[pkg]} |->
                     IF p \in {Pkg[pkg]} THEN UNION {Ships[a] : a \in {b \in W.put : Pkg[b] = p}}
                                         ELSE DbSeen[p]]
    BY <1>6, <1>11, <2>3
  <2> QED
    BY <1>8, <2>1, <2>4 DEF Db!Changed, DbSeen
<1>14. AskedSeen' = AskedSeen
  BY <1>1, <1>2, SameAsked
<1>15. Db!TakeEffect
  <2> HIDE DEF W
  <2> QED
    BY <1>1, <1>7, <1>13, <1>14 DEF Db!TakeEffect, DbSeen, AskedSeen
<1>16. DbInv'
  BY <1>1, <1>2, <1>4 DEF DbInv, Removing, request
<1> QED
  BY <1>15, <1>16

\* doinst.sh, and the removal of the entry that was set aside, of which PackageDb sees
\* the end at most.
LEMMA DoinstUnseen ==
  ASSUME AtomicInv, Roots = {Slash}, Doinst
  PROVE  UNCHANGED Db!dvars /\ DbInv'
<1>0. /\ pc = "doinst" /\ pc' = "checkold"
      /\ UNCHANGED <<present, contents, torn, rc, request, removal, olds>>
  BY DEF Doinst
<1>1. cmd # "removepkg" /\ torn[Slash] = {}
  BY <1>0 DEF AtomicInv, DbInv, Removing
<1>2. ~Installing /\ ~Installing' /\ Superseded' = Superseded
  BY <1>0 DEF Installing, Superseded, Removing
<1>3. Standing' = Standing
  BY <1>0, <1>2, InPlace, InPlaceNext
<1>4. DbSeen' = DbSeen
  BY <1>0, <1>2, <1>3, InPlace, InPlaceNext
<1>5. Pending' = Pending
  BY <1>0, <1>2 DEF Pending
<1>6. AskedSeen' = AskedSeen
  BY <1>0, <1>1, SameAsked
<1>7. UNCHANGED Db!dvars
  BY <1>0, <1>4, <1>5, <1>6, Unseen
<1>8. DbInv'
  BY <1>0, <1>1 DEF AtomicInv, DbInv, Removing, request, removal
<1> QED
  BY <1>7, <1>8

\* The end of a command that did its work.
LEMMA Replies ==
  ASSUME DbSeen' = DbSeen, AskedSeen' = AskedSeen, Pending = Db!Nothing, Pending' = Db!Nothing,
         pc # "idle", pc' = "idle", rc' = 0
  PROVE  Db!Reply
BY DEF Db!Reply, DbSeen, AskedSeen

LEMMA CheckOldAtomic ==
  ASSUME AtomicInv, Roots = {Slash}, CheckOld
  PROVE  (UNCHANGED Db!dvars \/ Db!Reply) /\ DbInv'
<1>0. /\ pc = "checkold" /\ UNCHANGED <<present, contents, torn, request>> /\ root = Slash
  BY AtomicTypes DEF CheckOld, CallRemovepkg, disk
<1>1. cmd # "removepkg" /\ torn[Slash] = {}
  BY <1>0 DEF AtomicInv, DbInv, Removing
<1>2. ~Installing /\ Superseded = olds /\ Pending = Db!Nothing
  BY <1>0 DEF Installing, Superseded, Removing, Pending, Db!Nothing
<1>3. AskedSeen' = AskedSeen
  BY <1>0, <1>1, SameAsked
<1>4. ~upg => olds = {}
  BY <1>1 DEF AtomicInv, UpgradeInv, OldsSeen
<1>5. ASSUME ~Installing', Superseded' = olds
      PROVE  DbSeen' = DbSeen
  <2>1. Standing' = Standing
    BY <1>0, <1>2, <1>5, InPlace, InPlaceNext
  <2> QED
    BY <1>0, <1>2, <1>5, <2>1, InPlace, InPlaceNext
<1>6. CASE Old(pkg) \in present[root] /\ CallRemovepkg("installpkg", Old(pkg), Slash, olds)
  <2>1. /\ pc' = "douninst" /\ caller' = "installpkg" /\ olds' = olds /\ rc' = rc
    BY <1>0, <1>6 DEF CallRemovepkg
  <2>2. ~Installing' /\ Superseded' = olds /\ Pending' = Db!Nothing
    BY <2>1 DEF Installing, Superseded, Removing, Pending, Db!Nothing
  <2>3. UNCHANGED Db!dvars
    BY <1>0, <1>2, <1>3, <1>5, <2>1, <2>2, Unseen
  <2>4. DbInv'
    BY <1>0, <1>1, <2>1 DEF AtomicInv, DbInv, Removing, request
  <2> QED
    BY <2>3, <2>4
<1>7. CASE ReturnInstall(upg, 0, olds) /\ UNCHANGED <<disk, removal>>
  <2>1. CASE upg /\ pc' = "nextold" /\ olds' = olds /\ rc' = rc
    <3>1. ~Installing' /\ Superseded' = olds /\ Pending' = Db!Nothing
      BY <2>1 DEF Installing, Superseded, Removing, Pending, Db!Nothing
    <3>2. UNCHANGED Db!dvars
      BY <1>0, <1>2, <1>3, <1>5, <2>1, <3>1, Unseen
    <3>3. DbInv'
      BY <1>0, <1>1, <2>1 DEF AtomicInv, DbInv, Removing, request
    <3> QED
      BY <3>2, <3>3
  <2>2. CASE ~upg /\ pc' = "idle" /\ olds' = {} /\ rc' = 0
    <3>1. ~Installing' /\ Superseded' = olds /\ Pending' = Db!Nothing
      BY <1>4, <2>2 DEF Installing, Superseded, Removing, Pending, Db!Nothing
    <3>2. Db!Reply
      BY <1>0, <1>2, <1>3, <1>5, <2>2, <3>1, Replies
    <3>3. DbInv'
      BY <1>0, <1>1, <2>2 DEF DbInv, Removing, request
    <3> QED
      BY <3>2, <3>3
  <2> QED
    BY <1>7, <2>1, <2>2 DEF ReturnInstall, Continue, Exit
<1> QED
  BY <1>6, <1>7 DEF CheckOld

\* Who called the removepkg that runs, and for which entry.
LEMMA WhoRemoves ==
  ASSUME AtomicInv, Roots = {Slash}, Removing
  PROVE  \/ cmd = "removepkg" /\ caller = "removepkg" /\ ~upg /\ olds = {} /\ ent[2] = "cur"
         \/ cmd # "removepkg" /\ caller = "installpkg" /\ ent = Old(pkg) /\ (~upg => olds = {})
         \/ /\ cmd # "removepkg" /\ caller = "upgradepkg" /\ upg
            /\ ent[2] = "cur" /\ ent \notin olds
BY DEF AtomicInv, DbInv, UpgradeInv, OldsSeen, Removing

\* removepkg begins: for PackageDb a package that the user removes is gone now.
LEMMA DouninstAtomic ==
  ASSUME AtomicInv, Roots = {Slash}, Douninst
  PROVE  (UNCHANGED Db!dvars \/ Db!TakeEffect) /\ DbInv'
<1>0. /\ pc = "douninst" /\ pc' = "rmfile"
      /\ UNCHANGED <<present, contents, rc, request, removal, olds>>
      /\ torn' = [torn EXCEPT ![at] = @ \cup {ent}]
  BY DEF Douninst
<1>1. at = Slash /\ Slash \in Roots /\ torn \in [Roots -> SUBSET Entries] /\ ent \in Entries
  BY AtomicTypes
<1>2. Removing /\ Removing' /\ ~Installing /\ ~Installing' /\ Superseded' = Superseded
  BY <1>0 DEF Removing, Installing, Superseded, removal
<1>3. torn[Slash] = {} /\ torn'[Slash] = {ent}
  <2>1. torn[Slash] = {}
    BY <1>0 DEF AtomicInv, DbInv
  <2> QED
    BY <1>0, <1>1, <2>1
<1>4. AskedSeen' = AskedSeen
  BY <1>0, SameAsked DEF removal
<1>5. /\ Standing = {p \in Packages : <<p, "cur">> \in present[Slash] \ Superseded}
      /\ Standing' = {p \in Packages : <<p, "cur">> \in present[Slash] \ ({ent} \cup Superseded)}
      /\ DbSeen = [p \in Standing |-> contents[Slash][<<p, "cur">>]]
      /\ DbSeen' = [p \in Standing' |-> contents[Slash][<<p, "cur">>]]
  BY <1>0, <1>2, <1>3, InPlace, InPlaceNext
<1>6. DbInv'
  <2>1. \A e \in torn'[Slash] : pc' \in {"rmfile", "rmdir"} /\ e = ent'
    BY <1>0, <1>3 DEF removal
  <2>2. \A e \in olds' : e \in present'[Slash] /\ e[2] = "cur"
    BY <1>0 DEF AtomicInv, DbInv
  <2> QED
    BY <1>0, <1>2, <2>1, <2>2, WhoRemoves DEF DbInv, request, removal
<1>7. CASE caller = "removepkg"
  <2>1. ent[2] = "cur" /\ olds = {} /\ Superseded = {} /\ Pending' = Db!Nothing
        /\ Pending = [put |-> {}, drop |-> {ent[1]}]
    BY <1>0, <1>2, <1>7, WhoRemoves DEF Superseded, Pending, Db!Nothing, Installing
  <2>2. Standing' = Standing \ {ent[1]}
    <3>1. ent = <<ent[1], "cur">>
      BY <1>1, <2>1 DEF Entries
    <3> QED
      BY <1>5, <2>1, <3>1
  <2>3. DbSeen' = Db!Changed([put |-> {}, drop |-> {ent[1]}])
    <3>1. DbSeen' = [p \in Standing \ {ent[1]} |-> DbSeen[p]]
      BY <1>5, <2>2
    <3> QED
      BY <3>1 DEF Db!Changed, Db!Installed, DbSeen
  <2>4. Pending # Db!Nothing
    BY <2>1 DEF Db!Nothing
  <2>5. Db!TakeEffect
    BY <1>0, <1>4, <2>1, <2>3, <2>4 DEF Db!TakeEffect, DbSeen, AskedSeen
  <2> QED
    BY <1>6, <2>5
<1>8. CASE caller # "removepkg"
  <2>1. Pending' = Pending
    BY <1>0, <1>2, <1>8 DEF Pending, Installing
  <2>2. \A p \in Packages : <<p, "cur">> # ent \/ ent \in Superseded
    BY <1>2, <1>8, WhoRemoves DEF Superseded, Old
  <2>3. Standing' = Standing
    BY <1>5, <2>2
  <2>4. UNCHANGED Db!dvars
    BY <1>0, <1>4, <1>5, <2>1, <2>3, Unseen
  <2> QED
    BY <1>6, <2>4
<1> QED
  BY <1>7, <1>8

LEMMA RemovalUnseen ==
  ASSUME AtomicInv, Roots = {Slash}, RmFile \/ RmFilesDone \/ RmDir
  PROVE  UNCHANGED Db!dvars /\ DbInv'
<1>0. /\ pc \in {"rmfile", "rmdir"} /\ pc' \in {"rmfile", "rmdir"}
      /\ UNCHANGED <<present, contents, torn, rc, request, removal, olds>>
  BY DEF RmFile, RmFilesDone, RmDir, disk
<1>1. ~Installing /\ ~Installing' /\ Superseded' = Superseded /\ Pending' = Pending
  BY <1>0 DEF Installing, Superseded, Removing, Pending, removal
<1>2. Standing' = Standing
  BY <1>0, <1>1, InPlace, InPlaceNext
<1>3. DbSeen' = DbSeen
  BY <1>0, <1>1, <1>2, InPlace, InPlaceNext
<1>4. AskedSeen' = AskedSeen
  BY <1>0, SameAsked DEF removal
<1>5. UNCHANGED Db!dvars
  BY <1>0, <1>1, <1>3, <1>4, Unseen
<1>6. DbInv'
  BY <1>0 DEF AtomicInv, DbInv, Removing, request, removal
<1> QED
  BY <1>5, <1>6

\* The entry that removepkg deletes has not counted since the removal began.
LEMMA RmEntryAtomic ==
  ASSUME AtomicInv, Roots = {Slash}, RmEntry
  PROVE  (UNCHANGED Db!dvars \/ Db!Reply) /\ DbInv'
<1>0. /\ pc = "rmdir" /\ UNCHANGED <<request, removal>>
      /\ present' = [present EXCEPT ![at] = @ \ Gone(ent)]
      /\ contents' = [contents EXCEPT ![at] =
                        [e \in Entries |-> IF e \in Gone(ent) THEN {} ELSE @[e]]]
      /\ torn' = [torn EXCEPT ![at] = @ \ Gone(ent)]
      /\ ReturnRemove(caller, 0)
  BY DEF RmEntry
<1>1. /\ at = Slash /\ Slash \in Roots /\ ent \in Entries
      /\ present \in [Roots -> SUBSET Entries] /\ torn \in [Roots -> SUBSET Entries]
      /\ contents \in [Roots -> [Entries -> SUBSET Paths]]
  BY AtomicTypes
<1>2. Removing
  BY <1>0 DEF Removing
<1>3. torn[Slash] = {ent}
  BY <1>0, <1>1 DEF AtomicInv, DbInv, Inv, RemovalInv
<1>4. /\ present'[Slash] = present[Slash] \ Gone(ent) /\ torn'[Slash] = {}
      /\ \A e \in Entries \ Gone(ent) : contents'[Slash][e] = contents[Slash][e]
  BY <1>0, <1>1, <1>3 DEF Gone
<1>5. /\ olds' = olds
      /\ \/ pc' = "idle" /\ rc' = 0
         \/ pc' = "nextold" /\ rc' = rc
  BY <1>0, <1>2, WhoRemoves DEF ReturnRemove, ReturnInstall, Continue, Exit
<1>6. ~Installing /\ ~Installing' /\ Superseded' = olds
      /\ Pending = Db!Nothing /\ Pending' = Db!Nothing
  BY <1>0, <1>5 DEF Installing, Superseded, Removing, Pending, Db!Nothing
<1>7. Superseded \cup {ent} = olds \cup {ent}
  BY <1>2, <1>6 DEF Superseded
<1>8. /\ Standing = {p \in Packages : <<p, "cur">> \in present[Slash] \ (olds \cup {ent})}
      /\ Standing' = {p \in Packages : <<p, "cur">> \in (present[Slash] \ Gone(ent)) \ olds}
      /\ DbSeen = [p \in Standing |-> contents[Slash][<<p, "cur">>]]
      /\ DbSeen' = [p \in Standing' |-> contents'[Slash][<<p, "cur">>]]
  BY <1>3, <1>4, <1>6, <1>7, InPlace, InPlaceNext
<1>9. \A p \in Packages : <<p, "cur">> \in Gone(ent) <=> <<p, "cur">> = ent
  BY DEF Gone
<1>10. Standing' = Standing
  BY <1>8, <1>9
<1>11. DbSeen' = DbSeen
  <2>1. \A p \in Standing : contents'[Slash][<<p, "cur">>] = contents[Slash][<<p, "cur">>]
    BY <1>1, <1>4, <1>8, <1>9 DEF Entries
  <2> QED
    BY <1>8, <1>10, <2>1
<1>12. AskedSeen' = AskedSeen
  BY <1>0, SameAsked DEF removal
<1>13. UNCHANGED Db!dvars \/ Db!Reply
  <2>1. CASE pc' = "idle" /\ rc' = 0
    BY <1>0, <1>6, <1>11, <1>12, <2>1, Replies
  <2>2. CASE pc' = "nextold" /\ rc' = rc
    BY <1>0, <1>6, <1>11, <1>12, <2>2, Unseen
  <2> QED
    BY <1>5, <2>1, <2>2
<1>14. DbInv'
  <2>1. pc' = "idle" => olds' = {}
    BY <1>0, <1>2, <1>5, WhoRemoves DEF ReturnRemove, ReturnInstall, Continue, Exit
  <2>2. \A e \in olds' : e \in present'[Slash] /\ e[2] = "cur"
    <3>1. \A e \in olds : e \in present[Slash] /\ e[2] = "cur"
      BY DEF AtomicInv, DbInv
    <3>2. \A e \in olds : e \notin Gone(ent)
      BY <1>2, <3>1, WhoRemoves DEF Gone, Old
    <3> QED
      BY <1>4, <1>5, <3>1, <3>2
  <2>3. cmd' = "removepkg" => caller' = "removepkg" /\ ~upg' /\ olds' = {} /\ pc' = "idle"
    BY <1>0, <1>2, <1>5, WhoRemoves DEF request, removal, ReturnRemove, Exit
  <2> QED
    BY <1>4, <1>5, <2>1, <2>2, <2>3 DEF DbInv, Removing
<1> QED
  BY <1>13, <1>14

LEMMA NextOldAtomic ==
  ASSUME AtomicInv, Roots = {Slash}, NextOld
  PROVE  (UNCHANGED Db!dvars \/ Db!Reply) /\ DbInv'
<1>0. /\ pc = "nextold" /\ UNCHANGED <<present, contents, torn, request>> /\ root = Slash
  BY AtomicTypes DEF NextOld, CallRemovepkg, disk
<1>1. /\ cmd # "removepkg" /\ torn[Slash] = {}
      /\ \A e \in olds : e \in present[Slash] /\ e[2] = "cur"
  BY <1>0 DEF AtomicInv, DbInv, Removing
<1>2. ~Installing /\ Superseded = olds /\ Pending = Db!Nothing
  BY <1>0 DEF Installing, Superseded, Removing, Pending, Db!Nothing
<1>3. AskedSeen' = AskedSeen
  BY <1>0, <1>1, SameAsked
<1>4. ASSUME ~Installing', Superseded' = olds
      PROVE  DbSeen' = DbSeen
  <2>1. Standing' = Standing
    BY <1>0, <1>2, <1>4, InPlace, InPlaceNext
  <2> QED
    BY <1>0, <1>2, <1>4, <2>1, InPlace, InPlaceNext
<1>5. CASE olds = {} /\ Exit(0)
  <2>1. pc' = "idle" /\ rc' = 0 /\ olds' = {}
    BY <1>5 DEF Exit
  <2>2. ~Installing' /\ Superseded' = olds /\ Pending' = Db!Nothing
    BY <1>5, <2>1 DEF Installing, Superseded, Removing, Pending, Db!Nothing
  <2>3. Db!Reply
    BY <1>0, <1>2, <1>3, <1>4, <2>1, <2>2, Replies
  <2>4. DbInv'
    BY <1>0, <1>1, <2>1 DEF DbInv, Removing, request
  <2> QED
    BY <2>3, <2>4
<1>6. ASSUME NEW e \in olds, CallRemovepkg("upgradepkg", e, root, olds \ {e})
      PROVE  UNCHANGED Db!dvars /\ DbInv'
  <2>1. /\ pc' = "douninst" /\ caller' = "upgradepkg" /\ ent' = e
        /\ olds' = olds \ {e} /\ rc' = rc
    BY <1>0, <1>1, <1>6 DEF CallRemovepkg
  <2>2. ~Installing' /\ Superseded' = olds /\ Pending' = Db!Nothing
    BY <2>1 DEF Installing, Superseded, Removing, Pending, Db!Nothing
  <2>3. UNCHANGED Db!dvars
    BY <1>0, <1>2, <1>3, <1>4, <2>1, <2>2, Unseen
  <2>4. DbInv'
    BY <1>0, <1>1, <2>1 DEF DbInv, Removing, request
  <2> QED
    BY <2>3, <2>4
<1> QED
  BY <1>5, <1>6 DEF NextOld

LEMMA StepAtomic ==
  ASSUME AtomicInv, Roots = {Slash}, Faults = {}, Step
  PROVE  [Db!Next]_(Db!dvars) /\ DbInv'
BY ExtractUnseen, WriteContentsAtomic, DoinstUnseen, CheckOldAtomic, DouninstAtomic,
   RemovalUnseen, RmEntryAtomic, NextOldAtomic DEF Step, Db!Next

LEMMA CommandAtomic ==
  ASSUME AtomicInv, Roots = {Slash}, Command
  PROVE  Db!Next /\ DbInv'
<1>1. ASSUME NEW a \in Archives, NEW re \in BOOLEAN, InstallPkg(a, Slash, re)
      PROVE  Db!Next /\ DbInv'
  BY <1>1, InstallPkgAtomic DEF Db!Next
<1>2. ASSUME NEW a \in Archives, NEW k \in {"cur", "old"}, RemovePkg(a, k, Slash)
      PROVE  Db!Next /\ DbInv'
  BY <1>2, RemovePkgAtomic DEF Db!Next
<1>3. ASSUME NEW a \in Archives, NEW i \in BOOLEAN, NEW re \in BOOLEAN,
             UpgradePkg(a, Slash, i, re)
      PROVE  Db!Next /\ DbInv'
  BY <1>3, UpgradePkgAtomic DEF Db!Next
<1> QED
  BY <1>1, <1>2, <1>3 DEF Command

\* Nothing that PackageDb sees has changed.
LEMMA QuietAtomic ==
  ASSUME AtomicInv, UNCHANGED <<present, contents, torn, pc, rc, request, removal, olds>>
  PROVE  UNCHANGED Db!dvars /\ DbInv'
<1>1. \A p : Place(p)' = Place(p)
  BY DEF Place, Installing, Old, request
<1>2. Superseded' = Superseded /\ Pending' = Pending
  BY DEF Superseded, Pending, Installing, Removing, request, removal
<1>3. Standing' = Standing
  BY <1>1, <1>2 DEF Standing
<1>4. DbSeen' = DbSeen
  BY <1>1, <1>3 DEF DbSeen
<1>5. AskedSeen' = AskedSeen
  BY SameAsked DEF removal
<1>6. UNCHANGED Db!dvars
  BY <1>2, <1>4, <1>5, Unseen
<1>7. DbInv'
  BY DEF AtomicInv, DbInv, Removing, request, removal
<1> QED
  BY <1>6, <1>7

LEMMA AtomicNext ==
  ASSUME AtomicInv, Roots = {Slash}, Faults = {}, [Next]_vars
  PROVE  [Db!Next]_(Db!dvars) /\ DbInv'
<1>1. CASE Command
  BY <1>1, CommandAtomic
<1>2. CASE Step
  BY <1>2, StepAtomic
<1>3. ASSUME NEW r \in Roots, NEW f \in Local, CreateLocal(r, f)
      PROVE  [Db!Next]_(Db!dvars) /\ DbInv'
  BY <1>3, QuietAtomic DEF CreateLocal
<1>4. CASE UNCHANGED vars
  BY <1>4, QuietAtomic DEF vars, disk
<1>5. ~Crash
  BY DEF Crash, Fault
<1> QED
  BY <1>1, <1>2, <1>3, <1>4, <1>5 DEF Next

LEMMA AtomicInit ==
  ASSUME Init
  PROVE  Db!Init /\ DbInv
<1>1. Standing = {}
  BY RootAssumption DEF Init, Standing
<1>2. [p \in Standing |-> contents[Slash][Place(p)]] = [p \in {} |-> {}]
  BY <1>1
<1>3. <<cmd, IF cmd = "removepkg" THEN ent ELSE pkg>> \in
        {<<"removepkg", <<Pkg[a], "cur">>>> : a \in Archives}
  BY DEF Init, Cur
<1>4. Pending = Db!Nothing /\ ~(pc # "idle") /\ rc = 0
  BY DEF Init, Pending, Installing, Db!Nothing
<1>5. Db!Init
  BY <1>2, <1>3, <1>4 DEF Db!Init
<1>6. DbInv
  BY RootAssumption DEF Init, DbInv, Removing
<1> QED
  BY <1>5, <1>6

\* PackageDb: every command that nothing interrupts is atomic and tells with its
\* exit status whether it took effect, for any packages.  An upgrade exchanges all
\* the versions for the new one, and a reinstallation one build for another, in the
\* one step that completes the new list; a refused command changes nothing.  The
\* conditions are those of the theorems above: one root, and no failures.
THEOREM CommandsAreAtomic ==
  ASSUME Faults = {}, Roots = {Slash}
  PROVE  Spec => ActsAtOnce
<1>1. Init => Db!Init /\ DbInv
  BY AtomicInit
<1>2. (Inv /\ UpgradeInv) /\ (Inv /\ SlashTidy) /\ DbInv /\ [Next]_vars
        => [Db!Next]_(Db!dvars) /\ DbInv'
  BY AtomicNext DEF AtomicInv
<1>3. Spec => [](Inv /\ UpgradeInv)
  BY UpgradeInvHolds
<1>4. Spec => [](Inv /\ SlashTidy)
  BY TidyHolds
<1> QED
  BY <1>1, <1>2, <1>3, <1>4, PTL DEF Spec, ActsAtOnce, Db!Spec
=============================================================================
