--------------------------- MODULE PkgBuildProofs ---------------------------
(***************************************************************************)
(* Theorems about the build system, for any packages, revisions,           *)
(* dependencies, and failures of any number and kind: the types, that      *)
(* pkg_root is built from sources that are there, that a successful        *)
(* install leaves the version of the source tree, that packages hold the   *)
(* version in their name, that make clean forces a rebuild, and that a     *)
(* package is built only when the packages it needs are installed.         *)
(***************************************************************************)
EXTENDS PkgBuild, TLAPS, SequenceTheorems

-----------------------------------------------------------------------------
(* The stack of running makes *)

Outcomes == {"running", "ok", "failed"}
Commands == [pkg : Pkgs, goal : Goals, outcome : Outcomes]

\* What every recipe needs of the makes that run.
LEMMA TopType ==
  ASSUME TypeOK, stack # <<>>
  PROVE  /\ top \in Frames /\ top = stack[1] /\ Tail(stack) \in Seq(Frames)
         /\ Len(stack) \in Nat /\ Len(stack) > 0 /\ Len(Tail(stack)) = Len(stack) - 1
         /\ \A i \in 1 .. Len(Tail(stack)) : Tail(stack)[i] = stack[i + 1]
  BY HeadTailProperties DEF TypeOK, top

LEMMA SingletonProperties ==
  ASSUME NEW f \in Frames
  PROVE  <<f>> \in Seq(Frames) /\ Len(<<f>>) = 1 /\ <<f>>[1] = f
  OBVIOUS

LEMMA PairProperties ==
  ASSUME NEW f \in Frames, NEW g \in Frames
  PROVE  /\ <<g, f>> \in Seq(Frames) /\ Len(<<g, f>>) = 2
         /\ <<g, f>>[1] = g /\ <<g, f>>[2] = f
  OBVIOUS

\* The frames when a make goes on to another stage.
LEMMA ReplaceFrames ==
  ASSUME TypeOK, stack # <<>>, NEW f \in Frames, stack' = <<f>> \o Tail(stack)
  PROVE  /\ stack' \in Seq(Frames) /\ stack' # <<>> /\ top' = f
         /\ Len(stack') = Len(stack) /\ stack'[1] = f
         /\ \A i \in 2 .. Len(stack) : stack'[i] = stack[i]
  <1>1. /\ stack' \in Seq(Frames) /\ Len(stack') = Len(stack) /\ stack'[1] = f
        /\ \A i \in 2 .. Len(stack) : stack'[i] = stack[i]
    BY TopType, SingletonProperties, ConcatProperties
  <1>2. stack' # <<>> /\ Head(stack') = stack'[1]
    BY <1>1, TopType
  <1> QED
    BY <1>1, <1>2 DEF top

\* The frames when a make starts another.
LEMMA PushFrames ==
  ASSUME TypeOK, stack # <<>>, NEW f \in Frames, NEW g \in Frames,
         stack' = <<g, f>> \o Tail(stack)
  PROVE  /\ stack' \in Seq(Frames) /\ stack' # <<>> /\ top' = g
         /\ Len(stack') = Len(stack) + 1 /\ stack'[1] = g /\ stack'[2] = f
         /\ \A i \in 3 .. Len(stack) + 1 : stack'[i] = stack[i - 1]
  <1>1. /\ stack' \in Seq(Frames) /\ Len(stack') = Len(stack) + 1
        /\ stack'[1] = g /\ stack'[2] = f
        /\ \A i \in 3 .. Len(stack) + 1 : stack'[i] = stack[i - 1]
    BY TopType, PairProperties, ConcatProperties
  <1>2. stack' # <<>> /\ Head(stack') = stack'[1]
    BY <1>1, TopType
  <1> QED
    BY <1>1, <1>2 DEF top

LEMMA GotoType ==
  ASSUME TypeOK, stack # <<>>, NEW s \in Stages
  PROVE  /\ [top EXCEPT !.at = s] \in Frames
         /\ [top EXCEPT !.at = s].pkg = top.pkg /\ [top EXCEPT !.at = s].goal = top.goal
         /\ [top EXCEPT !.at = s].at = s
  BY TopType DEF Frames

-----------------------------------------------------------------------------
(* The invariant *)

\* sha3sum only passes archives that are on disk, and whatever takes them away
\* takes the stamp of the verification with them.
VerifiedAreFetched == \A p \in Pkgs : verified[p] \subseteq fetched[p]

\* upgradepkg leaves one version of a package.
OneVersion == \A p \in Pkgs : \A c, d \in inst[p] : c[1] = d[1]

\* The outermost make is the command's, and all but the innermost wait for a
\* dependency.
OneCommand ==
  stack # <<>> =>
    /\ last.outcome = "running"
    /\ stack[Len(stack)].pkg = last.pkg /\ stack[Len(stack)].goal = last.goal
    /\ \A i \in 2 .. Len(stack) : stack[i].at = "deps"

\* The recipe of install comes after the target that is the package.
PackageIsThere == stack # <<>> /\ top.at = "upgrade" => Packed(top.pkg) # {}

IInv == TypeOK /\ VerifiedAreFetched /\ OneVersion /\ OneCommand /\ PackageIsThere

\* What a step does to the stack and to the command.
Control ==
  stack \in Seq(Frames) /\ last \in Commands /\ OneCommand /\ PackageIsThere

LEMMA ReplaceControl ==
  ASSUME IInv, stack # <<>>, NEW f \in Frames, f.pkg = top.pkg, f.goal = top.goal,
         stack' = <<f>> \o Tail(stack), last' = last,
         f.at = "upgrade" => Packed(f.pkg)' # {}
  PROVE  Control'
<1>1. TypeOK
  BY DEF IInv
<1>2. /\ stack' \in Seq(Frames) /\ stack' # <<>> /\ top' = f
      /\ Len(stack') = Len(stack) /\ stack'[1] = f
      /\ \A i \in 2 .. Len(stack) : stack'[i] = stack[i]
  BY <1>1, ReplaceFrames
<1>3. Len(stack) \in Nat /\ Len(stack) > 0 /\ top = stack[1]
  BY <1>1, TopType
<1>4. OneCommand'
  <2>1. /\ stack'[Len(stack)].pkg = stack[Len(stack)].pkg
        /\ stack'[Len(stack)].goal = stack[Len(stack)].goal
    <3>1. CASE Len(stack) = 1
      BY <3>1, <1>2, <1>3
    <3>2. CASE Len(stack) # 1
      BY <3>2, <1>2, <1>3
    <3> QED
      BY <3>1, <3>2
  <2>2. \A i \in 2 .. Len(stack) : stack'[i].at = stack[i].at
    BY <1>2
  <2> QED
    BY <2>1, <2>2, <1>2 DEF IInv, OneCommand
<1>5. PackageIsThere'
  BY <1>2 DEF PackageIsThere
<1>6. last' \in Commands
  BY DEF IInv, TypeOK, Commands, Outcomes
<1> QED
  BY <1>2, <1>4, <1>5, <1>6 DEF Control

LEMMA GotoControl ==
  ASSUME IInv, stack # <<>>, NEW s \in Stages, Goto(s), last' = last,
         NEW p, p = top.pkg, s = "upgrade" => Packed(p)' # {}
  PROVE  Control'
<1> DEFINE f == [top EXCEPT !.at = s]
<1>1. f \in Frames /\ f.pkg = p /\ f.goal = top.goal /\ f.at = s
  BY GotoType DEF IInv
<1>2. stack' = <<f>> \o Tail(stack)
  BY DEF Goto
<1> HIDE DEF f
<1> QED
  BY <1>1, <1>2, ReplaceControl DEF Packed

LEMMA ReturnControl ==
  ASSUME IInv, stack # <<>>, Return
  PROVE  Control'
<1>1. /\ Tail(stack) \in Seq(Frames) /\ Len(stack) \in Nat /\ Len(stack) > 0
      /\ Len(Tail(stack)) = Len(stack) - 1
      /\ \A i \in 1 .. Len(stack) - 1 : Tail(stack)[i] = stack[i + 1]
  BY TopType DEF IInv
<1>2. stack' = Tail(stack) /\ last' \in Commands
  BY DEF Return, IInv, TypeOK, Commands, Outcomes
<1>3. CASE Len(stack) = 1
  <2>1. stack' = <<>>
    BY <1>1, <1>2, <1>3, EmptySeq
  <2> QED
    BY <1>1, <1>2, <2>1 DEF Control, OneCommand, PackageIsThere
<1>4. CASE Len(stack) # 1
  <2>1. last' = last /\ Len(stack') = Len(stack) - 1 /\ Len(stack) - 1 > 0
        /\ \A i \in 1 .. Len(stack) - 1 : stack'[i] = stack[i + 1]
    BY <1>1, <1>2, <1>4 DEF Return
  <2>2. stack' # <<>> /\ top' = stack'[1]
    <3>1. stack' \in Seq(Frames) /\ Len(stack') > 0
      BY <2>1, <1>1, <1>2
    <3>2. stack' # <<>> /\ Head(stack') = stack'[1]
      BY <3>1
    <3> QED
      BY <3>2 DEF top
  <2>3. /\ last.outcome = "running"
        /\ stack[Len(stack)].pkg = last.pkg /\ stack[Len(stack)].goal = last.goal
        /\ \A i \in 2 .. Len(stack) : stack[i].at = "deps"
    BY DEF IInv, OneCommand
  <2>4. stack'[Len(stack) - 1] = stack[Len(stack)]
    BY <2>1, <1>1
  <2>5. \A i \in 1 .. Len(stack) - 1 : stack'[i].at = "deps"
    BY <2>1, <2>3, <1>1
  <2>6. OneCommand'
    BY <2>1, <2>3, <2>4, <2>5, <1>1 DEF OneCommand
  <2>7. PackageIsThere'
    BY <2>1, <2>2, <2>5, <1>1 DEF PackageIsThere
  <2> QED
    BY <1>1, <1>2, <2>6, <2>7 DEF Control
<1> QED
  BY <1>3, <1>4

LEMMA AbortControl ==
  ASSUME IInv, Abort
  PROVE  Control'
<1>1. stack' = <<>> /\ last' \in Commands
  BY DEF Abort, IInv, TypeOK, Commands, Outcomes
<1> QED
  BY <1>1, EmptySeq DEF Control, OneCommand, PackageIsThere

\* A step outside of any make, or inside of one and without an effect on it.
LEMMA IdleControl ==
  ASSUME IInv, stack' = stack, last' = last,
         stack # <<>> => top.at # "upgrade" \/ Packed(top.pkg)' = Packed(top.pkg)
  PROVE  Control'
<1>1. stack \in Seq(Frames) /\ last \in Commands /\ OneCommand'
  BY DEF IInv, TypeOK, Commands, Outcomes, OneCommand
<1>2. PackageIsThere'
  BY DEF IInv, PackageIsThere, top
<1> QED
  BY <1>1, <1>2 DEF Control

\* And what it does to the directories, the repository and the database.
Data ==
  /\ tree \in [Pkgs -> Revs]
  /\ downloaded \in [Pkgs -> SUBSET Versions] /\ fetched \in [Pkgs -> SUBSET Versions]
  /\ verified \in [Pkgs -> SUBSET Versions] /\ built \in [Pkgs -> SUBSET Versions]
  /\ depstamp \subseteq Pkgs /\ fresh \subseteq Pkgs
  /\ pkgroot \in [Pkgs -> SUBSET Revs]
  /\ repo \in [Pkgs -> SUBSET Contents] /\ inst \in [Pkgs -> SUBSET Contents]
  /\ failures \in 0 .. MaxFailures
  /\ VerifiedAreFetched /\ OneVersion

dataVars == <<tree, fetched, stamps, pkgroot, repo, inst, fresh, failures>>

LEMMA Parts ==
  /\ Control /\ Data => IInv
  /\ IInv => Control /\ Data
  BY DEF Control, Data, IInv, TypeOK, Commands, Outcomes

LEMMA PartsNext ==
  Control' /\ Data' => IInv'
  BY DEF Control, Data, IInv, TypeOK, Commands, Outcomes

LEMMA SameData ==
  ASSUME IInv, UNCHANGED dataVars
  PROVE  Data'
  BY Parts DEF Data, dataVars, stamps, VerifiedAreFetched, OneVersion

LEMMA Typed ==
  ASSUME TypeOK
  PROVE  /\ \A p \in Pkgs : ver(p) \in Versions /\ deps(p) \subseteq Pkgs
         /\ \A p \in Pkgs : Packed(p) \subseteq Contents
         /\ stack # <<>> => /\ top.pkg \in Pkgs /\ top.goal \in Goals
                            /\ top.left \subseteq Pkgs
  BY BuildAssumption, TopType DEF TypeOK, ver, deps, Packed, Frames

LEMMA FaultType ==
  ASSUME IInv, NEW k, Fault(k)
  PROVE  failures' \in 0 .. MaxFailures
  BY BuildAssumption DEF Fault, IInv, TypeOK

-----------------------------------------------------------------------------
(* Every step preserves it *)

LEMMA PackageFileControl ==
  ASSUME IInv, stack # <<>>, PackageFile, repo' = repo, tree' = tree
  PROVE  Control'
<1>1. CASE Packed(top.pkg) = {}
  BY <1>1, GotoControl DEF PackageFile, Stages
<1>2. CASE Packed(top.pkg) # {} /\ top.goal = "build"
  BY <1>2, ReturnControl DEF PackageFile
<1>3. CASE Packed(top.pkg) # {} /\ top.goal # "build"
  <2>1. PICK p : p = top.pkg
    OBVIOUS
  <2>2. Packed(p)' = Packed(p)
    BY DEF Packed, ver
  <2> QED
    BY <1>3, <2>1, <2>2, GotoControl DEF PackageFile, Stages
<1> QED
  BY <1>1, <1>2, <1>3

LEMMA MakeGood ==
  ASSUME IInv, NEW p \in Pkgs, NEW goal \in Goals, Make(p, goal)
  PROVE  IInv'
<1> DEFINE f == [pkg |-> p, goal |-> goal, at |-> "start", left |-> {}]
<1>1. f \in Frames
  BY DEF Frames, Stages
<1>2. stack' = <<f>> /\ last' = [pkg |-> p, goal |-> goal, outcome |-> "running"]
  BY DEF Make
<1>3. stack' \in Seq(Frames) /\ Len(stack') = 1 /\ stack'[1] = f /\ top' = f
  BY <1>1, <1>2, SingletonProperties DEF top
<1>4. last' \in Commands
  BY <1>2 DEF Commands, Outcomes
<1>5. OneCommand'
  BY <1>2, <1>3 DEF OneCommand
<1>6. PackageIsThere'
  BY <1>3 DEF PackageIsThere
<1>7. Control'
  BY <1>3, <1>4, <1>5, <1>6 DEF Control
<1>8. Data'
  BY SameData DEF Make, dataVars
<1> QED
  BY <1>7, <1>8, PartsNext

LEMMA StartGood ==
  ASSUME IInv, Start
  PROVE  IInv'
<1>1. Data'
  BY SameData DEF Start, dataVars
<1>2. CASE Return
  BY <1>1, <1>2, ReturnControl, PartsNext DEF Start
<1>3. CASE PackageFile
  BY <1>1, <1>3, PackageFileControl, PartsNext DEF Start
<1>4. CASE /\ stack' = <<[top EXCEPT !.at = "deps", !.left = deps(top.pkg)]>> \o Tail(stack)
           /\ last' = last
  <2> DEFINE f == [top EXCEPT !.at = "deps", !.left = deps(top.pkg)]
  <2>1. /\ stack # <<>> /\ TypeOK /\ top \in Frames /\ top.pkg \in Pkgs
        /\ deps(top.pkg) \subseteq Pkgs
    BY TopType, Typed DEF Start, IInv
  <2>2. f \in Frames /\ f.pkg = top.pkg /\ f.goal = top.goal /\ f.at = "deps"
    BY <2>1 DEF Frames, Stages
  <2>3. stack' = <<f>> \o Tail(stack) /\ last' = last
    BY <1>4
  <2> HIDE DEF f
  <2>4. Control'
    BY <2>1, <2>2, <2>3, ReplaceControl
  <2> QED
    BY <2>4, <1>1, PartsNext
<1> QED
  BY <1>1, <1>2, <1>3, <1>4, PartsNext DEF Start

LEMMA InstallDepGood ==
  ASSUME IInv, InstallDep
  PROVE  IInv'
<1>1. PICK d \in top.left :
        stack' = <<[pkg |-> d, goal |-> "install", at |-> "start", left |-> {}],
                   [top EXCEPT !.left = @ \ {d}]>> \o Tail(stack)
  BY DEF InstallDep
<1> DEFINE f == [top EXCEPT !.left = @ \ {d}]
           g == [pkg |-> d, goal |-> "install", at |-> "start", left |-> {}]
<1>2. stack # <<>> /\ top.at = "deps" /\ last' = last
  BY DEF InstallDep
<1>3. TypeOK /\ top \in Frames /\ top = stack[1] /\ Len(stack) \in Nat /\ Len(stack) > 0
  BY <1>2, TopType DEF IInv
<1>4. /\ f \in Frames /\ f.pkg = top.pkg /\ f.goal = top.goal /\ f.at = "deps"
      /\ g \in Frames /\ g.at = "start"
  BY <1>1, <1>2, <1>3 DEF Frames, Stages, Goals
<1>5. stack' = <<g, f>> \o Tail(stack)
  BY <1>1
<1> HIDE DEF f, g
<1>6. /\ stack' \in Seq(Frames) /\ stack' # <<>> /\ top' = g
      /\ Len(stack') = Len(stack) + 1 /\ stack'[1] = g /\ stack'[2] = f
      /\ \A i \in 3 .. Len(stack) + 1 : stack'[i] = stack[i - 1]
  BY <1>2, <1>3, <1>4, <1>5, PushFrames
<1>7. /\ last.outcome = "running"
      /\ stack[Len(stack)].pkg = last.pkg /\ stack[Len(stack)].goal = last.goal
      /\ \A i \in 2 .. Len(stack) : stack[i].at = "deps"
  BY <1>2 DEF IInv, OneCommand
<1>8. /\ stack'[Len(stack) + 1].pkg = stack[Len(stack)].pkg
      /\ stack'[Len(stack) + 1].goal = stack[Len(stack)].goal
  <2>1. CASE Len(stack) = 1
    BY <2>1, <1>3, <1>4, <1>6
  <2>2. CASE Len(stack) # 1
    <3>3. ASSUME NEW n \in Nat, n > 0, n # 1
          PROVE  n + 1 \in 3 .. n + 1 /\ (n + 1) - 1 = n
      BY <3>3
    <3>4. Len(stack) + 1 \in 3 .. Len(stack) + 1 /\ (Len(stack) + 1) - 1 = Len(stack)
      BY <2>2, <3>3, <1>3
    <3>5. stack'[Len(stack) + 1] = stack[(Len(stack) + 1) - 1]
      BY <3>4, <1>6
    <3> QED
      BY <3>4, <3>5
  <2> QED
    BY <2>1, <2>2
<1>9. \A i \in 2 .. Len(stack) + 1 : stack'[i].at = "deps"
  <2> TAKE i \in 2 .. Len(stack) + 1
  <2>1. CASE i = 2
    BY <2>1, <1>4, <1>6
  <2>2. CASE i # 2
    <3>1. i \in 3 .. Len(stack) + 1 /\ i - 1 \in 2 .. Len(stack)
      BY <2>2, <1>3
    <3> QED
      BY <3>1, <1>6, <1>7
  <2> QED
    BY <2>1, <2>2
<1>10. OneCommand'
  BY <1>2, <1>6, <1>7, <1>8, <1>9 DEF OneCommand
<1>11. PackageIsThere'
  BY <1>4, <1>6 DEF PackageIsThere
<1>12. Control'
  BY <1>2, <1>6, <1>10, <1>11 DEF Control, IInv, TypeOK, Commands, Outcomes
<1> QED
  BY <1>12, SameData, PartsNext DEF InstallDep, dataVars

LEMMA DepsDoneGood ==
  ASSUME IInv, DepsDone
  PROVE  IInv'
<1>1. Control'
  BY PackageFileControl DEF DepsDone
<1>2. top.pkg \in Pkgs
  BY Typed DEF DepsDone, IInv
<1>3. Data'
  BY <1>2, Parts DEF DepsDone, Data, VerifiedAreFetched, OneVersion
<1> QED
  BY <1>1, <1>3, PartsNext

LEMMA DownloadGood ==
  ASSUME IInv, Download
  PROVE  IInv'
<1>1. Control'
  BY IdleControl DEF Download
<1>2. top.pkg \in Pkgs /\ ver(top.pkg) \in Versions
  BY Typed DEF Download, IInv
<1>3. failures' \in 0 .. MaxFailures
  BY FaultType, Parts DEF Download, Data
<1>4. /\ downloaded' \in [Pkgs -> SUBSET Versions]
      /\ fetched' \in [Pkgs -> SUBSET Versions]
      /\ \A p \in Pkgs : fetched[p] \subseteq fetched'[p]
  BY <1>2, Parts DEF Download, Data
<1>5. Data'
  BY <1>3, <1>4, Parts DEF Download, Data, VerifiedAreFetched, OneVersion
<1> QED
  BY <1>1, <1>5, PartsNext

LEMMA VerifyGood ==
  ASSUME IInv, Verify
  PROVE  IInv'
<1>1. top.pkg \in Pkgs /\ ver(top.pkg) \in Versions
  BY Typed DEF Verify, IInv
<1>2. CASE Abort /\ UNCHANGED verified
  <2>1. Data'
    BY <1>2, SameData DEF Verify, dataVars, stamps
  <2> QED
    BY <1>2, <2>1, AbortControl, PartsNext
<1>3. CASE /\ ver(top.pkg) \in fetched[top.pkg]
           /\ verified' = [verified EXCEPT ![top.pkg] = @ \cup {ver(top.pkg)}]
           /\ UNCHANGED <<stack, last>>
  <2>1. Control'
    BY <1>3, IdleControl DEF Verify
  <2>2. verified' \in [Pkgs -> SUBSET Versions] /\ VerifiedAreFetched'
    BY <1>1, <1>3, Parts DEF Verify, Data, VerifiedAreFetched
  <2>3. Data'
    BY <2>2, Parts DEF Verify, Data, OneVersion
  <2> QED
    BY <2>1, <2>3, PartsNext
<1> QED
  BY <1>2, <1>3 DEF Verify

LEMMA BuildGood ==
  ASSUME IInv, Build
  PROVE  IInv'
<1>1. Control'
  BY GotoControl DEF Build, Stages
<1>2. top.pkg \in Pkgs /\ ver(top.pkg) \in Versions
  BY Typed DEF Build, IInv
<1>3. pkgroot' \in [Pkgs -> SUBSET Revs] /\ built' \in [Pkgs -> SUBSET Versions]
  BY <1>2, Parts DEF Build, Data
<1>4. Data'
  BY <1>3, Parts DEF Build, Data, VerifiedAreFetched, OneVersion
<1> QED
  BY <1>1, <1>4, PartsNext

LEMMA ClearedType ==
  ASSUME NEW S, NEW f \in [Pkgs -> SUBSET S], NEW p \in Pkgs
  PROVE  /\ Cleared(f, p) \in [Pkgs -> SUBSET S]
         /\ Cleared(f, p)[p] = {} /\ \A q \in Pkgs \ {p} : Cleared(f, p)[q] = f[q]
  BY DEF Cleared

LEMMA BuildCustomGood ==
  ASSUME IInv, BuildCustom
  PROVE  IInv'
<1>1. Control'
  BY GotoControl DEF BuildCustom, Stages
<1>2. top.pkg \in Pkgs /\ ver(top.pkg) \in Versions
  BY Typed DEF BuildCustom, IInv
<1>3. CASE UNCHANGED <<stamps, fetched, pkgroot, repo>>
  BY <1>1, <1>3, SameData, PartsNext DEF BuildCustom, dataVars, stamps
<1>4. CASE /\ pkgroot' = [pkgroot EXCEPT ![top.pkg] = @ \cup {tree[top.pkg]}]
           /\ built' = [built EXCEPT ![top.pkg] = @ \cup {ver(top.pkg)}]
           /\ UNCHANGED <<downloaded, verified, depstamp, fetched, repo>>
  <2>1. pkgroot' \in [Pkgs -> SUBSET Revs] /\ built' \in [Pkgs -> SUBSET Versions]
    BY <1>2, <1>4, Parts DEF Data
  <2>2. Data'
    BY <1>4, <2>1, Parts DEF BuildCustom, Data, VerifiedAreFetched, OneVersion
  <2> QED
    BY <1>1, <2>2, PartsNext
<1>5. CASE /\ downloaded' = Cleared(downloaded, top.pkg)
           /\ verified' = Cleared(verified, top.pkg)
           /\ depstamp' = depstamp \ {top.pkg}
           /\ fetched' = Cleared(fetched, top.pkg) /\ repo' = Cleared(repo, top.pkg)
           /\ pkgroot' = [pkgroot EXCEPT ![top.pkg] = {tree[top.pkg]}]
           /\ built' = [built EXCEPT ![top.pkg] = {ver(top.pkg)}]
  <2>1. /\ pkgroot' \in [Pkgs -> SUBSET Revs] /\ built' \in [Pkgs -> SUBSET Versions]
        /\ depstamp' \subseteq Pkgs
    BY <1>2, <1>5, Parts DEF Data
  <2>2. /\ downloaded' \in [Pkgs -> SUBSET Versions] /\ verified' \in [Pkgs -> SUBSET Versions]
        /\ fetched' \in [Pkgs -> SUBSET Versions] /\ repo' \in [Pkgs -> SUBSET Contents]
        /\ VerifiedAreFetched'
    BY <1>2, <1>5, Parts DEF Data, VerifiedAreFetched, Cleared
  <2>3. Data'
    BY <2>1, <2>2, Parts DEF BuildCustom, Data, OneVersion
  <2> QED
    BY <1>1, <2>3, PartsNext
<1> QED
  BY <1>3, <1>4, <1>5 DEF BuildCustom

LEMMA PackGood ==
  ASSUME IInv, Pack
  PROVE  IInv'
<1> DEFINE p == top.pkg
           c == <<ver(p), pkgroot[p]>>
<1>1. p \in Pkgs /\ ver(p) \in Versions /\ pkgroot[p] \subseteq Revs /\ stack # <<>>
  BY Typed, Parts DEF Pack, IInv, Data
<1>2. c \in Contents
  BY <1>1 DEF Contents
<1>3. repo' = [repo EXCEPT ![p] = (@ \ Packed(p)) \cup {c}] /\ tree' = tree
  BY DEF Pack
<1>4. repo' \in [Pkgs -> SUBSET Contents] /\ c \in repo'[p]
  BY <1>1, <1>2, <1>3, Parts DEF Data
<1>5. Data'
  BY <1>4, Parts DEF Pack, Data, VerifiedAreFetched, OneVersion, stamps
<1>6. CASE Return
  BY <1>1, <1>5, <1>6, ReturnControl, PartsNext
<1>7. CASE Goto("upgrade") /\ UNCHANGED last
  <2>1. PICK q : q = p
    OBVIOUS
  <2>2. c \in Packed(q)'
    BY <1>3, <1>4, <2>1 DEF Packed, ver
  <2>3. Control'
    BY <1>1, <1>7, <2>1, <2>2, GotoControl DEF Stages
  <2> QED
    BY <1>5, <2>3, PartsNext
<1> QED
  BY <1>6, <1>7 DEF Pack

LEMMA UpgradeGood ==
  ASSUME IInv, Upgrade
  PROVE  IInv'
<1>1. top.pkg \in Pkgs /\ Packed(top.pkg) \subseteq Contents /\ stack # <<>>
  BY Typed DEF Upgrade, IInv
<1>2. Control'
  BY <1>1, ReturnControl DEF Upgrade
<1>3. inst' \in [Pkgs -> SUBSET Contents] /\ OneVersion'
  BY <1>1, Parts DEF Upgrade, Data, OneVersion, Packed
<1>4. Data'
  BY <1>3, Parts DEF Upgrade, Data, VerifiedAreFetched, stamps
<1> QED
  BY <1>2, <1>4, PartsNext

LEMMA CleanUpGood ==
  ASSUME IInv, NEW p \in Pkgs, NEW target \in Cleaners, CleanUp(p, target)
  PROVE  IInv'
<1>1. Control'
  BY IdleControl DEF CleanUp
<1>2. fresh' \subseteq Pkgs
  BY Parts DEF CleanUp, Data
<1>3. /\ pkgroot' \in [Pkgs -> SUBSET Revs]
      /\ downloaded' \in [Pkgs -> SUBSET Versions] /\ built' \in [Pkgs -> SUBSET Versions]
      /\ depstamp' \subseteq Pkgs /\ repo' \in [Pkgs -> SUBSET Contents]
      /\ verified' \in [Pkgs -> SUBSET Versions] /\ fetched' \in [Pkgs -> SUBSET Versions]
      /\ VerifiedAreFetched'
  <2>1. CASE Clean(p)
    BY <2>1, Parts DEF Clean, CleanFiles, Cleared, Data, VerifiedAreFetched
  <2>2. CASE Tidy(p)
    BY <2>2, Parts DEF Tidy, Cleared, Data, VerifiedAreFetched
  <2>3. CASE Neat(p)
    BY <2>3, Parts DEF Neat, Cleared, Data, VerifiedAreFetched, stamps
  <2>4. CASE Scrub(p)
    BY <2>4, Parts DEF Scrub, Cleared, Data, VerifiedAreFetched
  <2> QED
    BY <2>1, <2>2, <2>3, <2>4 DEF CleanUp
<1>4. Data'
  BY <1>2, <1>3, Parts DEF CleanUp, Data, OneVersion
<1> QED
  BY <1>1, <1>4, PartsNext

LEMMA UninstallGood ==
  ASSUME IInv, NEW p \in Pkgs, Uninstall(p)
  PROVE  IInv'
<1>1. Control'
  BY IdleControl DEF Uninstall
<1>2. Data'
  BY Parts DEF Uninstall, Data, VerifiedAreFetched, OneVersion, stamps
<1> QED
  BY <1>1, <1>2, PartsNext

LEMMA EditGood ==
  ASSUME IInv, NEW p \in Pkgs, NEW v \in Revs, Edit(p, v)
  PROVE  IInv'
<1>1. Control'
  BY IdleControl DEF Edit
<1>2. Data'
  BY Parts DEF Edit, Data, VerifiedAreFetched, OneVersion, stamps
<1> QED
  BY <1>1, <1>2, PartsNext

LEMMA InterruptGood ==
  ASSUME IInv, Interrupt
  PROVE  IInv'
<1>1. top.pkg \in Pkgs /\ failures' \in 0 .. MaxFailures
  BY Typed, FaultType DEF Interrupt, IInv
<1>2. pkgroot' \in [Pkgs -> SUBSET Revs]
  BY <1>1, Parts DEF Interrupt, Data
<1>3. Data'
  BY <1>1, <1>2, Parts DEF Interrupt, Data, VerifiedAreFetched, OneVersion, stamps
<1> QED
  BY <1>3, AbortControl, PartsNext DEF Interrupt

LEMMA DiskFullGood ==
  ASSUME IInv, DiskFull
  PROVE  IInv'
<1>1. /\ top.pkg \in Pkgs /\ ver(top.pkg) \in Versions
      /\ failures' \in 0 .. MaxFailures
  BY Typed, FaultType DEF DiskFull, IInv
<1>2. <<ver(top.pkg), {}>> \in Contents
  BY <1>1 DEF Contents
<1>3. repo' \in [Pkgs -> SUBSET Contents]
  BY <1>1, <1>2, Parts DEF DiskFull, Data
<1>4. Data'
  BY <1>1, <1>3, Parts DEF DiskFull, Data, VerifiedAreFetched, OneVersion, stamps
<1> QED
  BY <1>4, AbortControl, PartsNext DEF DiskFull

LEMMA InitGood == Init => IInv
<1> SUFFICES ASSUME Init PROVE IInv
  OBVIOUS
<1>1. last \in Commands
  BY DEF Init, Commands, Goals, Outcomes
<1>2. Control
  BY <1>1, EmptySeq DEF Init, Control, OneCommand, PackageIsThere
<1>3. Data
  BY BuildAssumption DEF Init, Data, VerifiedAreFetched, OneVersion
<1> QED
  BY <1>2, <1>3, Parts

LEMMA NextGood == IInv /\ [Next]_vars => IInv'
<1> SUFFICES ASSUME IInv, [Next]_vars PROVE IInv'
  OBVIOUS
<1>1. CASE Step
  BY <1>1, StartGood, InstallDepGood, DepsDoneGood, DownloadGood, VerifyGood,
     BuildGood, BuildCustomGood, PackGood, UpgradeGood DEF Step
<1>2. ASSUME NEW p \in Pkgs,
             \/ \E goal \in Goals : Make(p, goal)
             \/ \E target \in Cleaners : CleanUp(p, target)
             \/ \E v \in Revs : Edit(p, v)
      PROVE  IInv'
  BY <1>2, MakeGood, CleanUpGood, EditGood
<1>3. ASSUME NEW p \in Uninstalls, Uninstall(p)
      PROVE  IInv'
  BY <1>3, BuildAssumption, UninstallGood
<1>4. CASE Interrupt \/ DiskFull
  BY <1>4, InterruptGood, DiskFullGood
<1>5. CASE UNCHANGED vars
  <2>1. Control'
    BY <1>5, IdleControl DEF vars, Packed, ver, top
  <2>2. Data'
    BY <1>5, SameData DEF vars, dataVars
  <2> QED
    BY <2>1, <2>2, PartsNext
<1> QED
  BY <1>1, <1>2, <1>3, <1>4, <1>5 DEF Next

-----------------------------------------------------------------------------
(* Theorems *)

\* What the build keeps whatever the targets and the failures.
THEOREM Invariance == Spec => []IInv
  BY InitGood, NextGood, PTL DEF Spec

\* Whatever the source tree, the targets and the failures, the stamps, the archives,
\* the packages and the running makes are of the kinds that the makefiles expect.
THEOREM TypeCorrect == Spec => []TypeOK
<1>1. IInv => TypeOK
  BY DEF IInv
<1> QED
  BY <1>1, Invariance, PTL

SourcesStep ==
  \A p \in Pkgs \ Custom : pkgroot'[p] \notin {{}, pkgroot[p]} =>
    VersionOf[p][tree[p]] \in fetched[p]

LEMMA SourcesNext == IInv /\ [Next]_vars => SourcesStep
<1> SUFFICES ASSUME IInv, [Next]_vars PROVE SourcesStep
  OBVIOUS
<1>1. CASE pkgroot' = pkgroot
  BY <1>1 DEF SourcesStep
<1>2. ASSUME NEW q \in Pkgs, pkgroot' = Cleared(pkgroot, q)
      PROVE  SourcesStep
  BY <1>2, ClearedType, Parts DEF SourcesStep, Data, Cleared
<1>3. ASSUME NEW q \in Pkgs \ Custom, ver(q) \in verified[q],
             \A p \in Pkgs \ {q} : pkgroot'[p] = pkgroot[p]
      PROVE  SourcesStep
  BY <1>3, Parts DEF SourcesStep, Data, VerifiedAreFetched, ver
<1>4. ASSUME NEW q \in Custom, \A p \in Pkgs \ {q} : pkgroot'[p] = pkgroot[p]
      PROVE  SourcesStep
  BY <1>4 DEF SourcesStep
<1>5. CASE Step
  <2>1. CASE Build
    BY <2>1, <1>3, Typed, Parts DEF Build, Data, IInv
  <2>2. CASE BuildCustom
    BY <2>2, <1>1, <1>4, Parts DEF BuildCustom, Data
  <2>3. CASE Start \/ InstallDep \/ DepsDone \/ Download \/ Verify \/ Pack \/ Upgrade
    BY <2>3, <1>1 DEF Start, InstallDep, DepsDone, Download, Verify, Pack, Upgrade
  <2> QED
    BY <1>5, <2>1, <2>2, <2>3 DEF Step
<1>6. ASSUME NEW p \in Pkgs,
             \/ \E goal \in Goals : Make(p, goal)
             \/ \E target \in Cleaners : CleanUp(p, target)
             \/ \E v \in Revs : Edit(p, v)
      PROVE  SourcesStep
  BY <1>6, <1>1, <1>2 DEF Make, Edit, CleanUp, Clean, Tidy, Neat, Scrub
<1>7. ASSUME NEW p \in Uninstalls, Uninstall(p)
      PROVE  SourcesStep
  BY <1>7, <1>1 DEF Uninstall
<1>8. CASE Interrupt
  <2>1. top.pkg \in Pkgs
    BY <1>8, Typed DEF Interrupt, IInv
  <2>2. CASE pkgroot' = [pkgroot EXCEPT ![top.pkg] = @ \cup {tree[top.pkg]}]
    <3>1. \A p \in Pkgs \ {top.pkg} : pkgroot'[p] = pkgroot[p]
      BY <2>1, <2>2, Parts DEF Data
    <3>2. CASE top.pkg \in Custom
      BY <3>1, <3>2, <1>4
    <3>3. CASE top.pkg \notin Custom
      <4>1. pkgroot' = pkgroot \/ ver(top.pkg) \in verified[top.pkg]
        BY <1>8, <3>3 DEF Interrupt
      <4> QED
        BY <4>1, <3>1, <3>3, <2>1, <1>1, <1>3
    <3> QED
      BY <3>2, <3>3
  <2> QED
    BY <2>2, <1>1, <1>8 DEF Interrupt
<1>9. CASE DiskFull \/ UNCHANGED vars
  BY <1>9, <1>1 DEF DiskFull, vars
<1> QED
  BY <1>5, <1>6, <1>7, <1>8, <1>9 DEF Next

\* For any number of failures of the network: pkg_root is never made from a version
\* whose archives are not there, though .stamp_download is set when wget failed.
THEOREM Sources == Spec => BuiltFromSources
<1>1. IInv /\ [Next]_vars => [SourcesStep]_vars
  BY SourcesNext
<1> QED
  BY <1>1, Invariance, PTL DEF Spec, BuiltFromSources, SourcesStep

CurrentStep ==
  last'.outcome = "ok" /\ last.outcome = "running" /\ last.goal # "build" =>
    {c[1] : c \in inst'[last.pkg]} = {ver(last.pkg)}

\* When the command is done, the innermost make was its own.
LEMMA CommandEnds ==
  ASSUME IInv, stack # <<>>, Return, last'.outcome = "ok", last.outcome = "running"
  PROVE  top.pkg = last.pkg /\ top.goal = last.goal
<1>1. Len(stack) = 1
  BY DEF Return
<1> QED
  BY <1>1, TopType DEF IInv, OneCommand

LEMMA CurrentNext == IInv /\ [Next]_vars => CurrentStep
<1> SUFFICES ASSUME IInv, [Next]_vars, last'.outcome = "ok", last.outcome = "running",
                    last.goal # "build"
             PROVE  {c[1] : c \in inst'[last.pkg]} = {ver(last.pkg)}
  BY DEF CurrentStep
<1> DEFINE q == last.pkg
<1>1. q \in Pkgs /\ last' # last
  BY DEF IInv, TypeOK
<1>2. CASE Start
  <2>1. stack # <<>>
    BY <1>2 DEF Start
  <2>2. CASE Return /\ top.goal = "install" /\ Entry(top.pkg) # {} /\ inst' = inst
    <3>1. Entry(q) # {}
      BY <2>1, <2>2, CommandEnds
    <3> QED
      BY <1>1, <2>2, <3>1 DEF Entry, IInv, OneVersion
  <2>3. CASE PackageFile
    BY <1>1, <2>1, <2>3, CommandEnds DEF PackageFile
  <2> QED
    BY <1>1, <1>2, <2>2, <2>3 DEF Start
<1>3. CASE DepsDone
  BY <1>1, <1>3, CommandEnds DEF PackageFile, DepsDone
<1>4. CASE Pack
  BY <1>1, <1>4, CommandEnds DEF Pack
<1>5. CASE Upgrade
  <2>1. stack # <<>> /\ Return /\ inst' = [inst EXCEPT ![top.pkg] = Packed(top.pkg)]
    BY <1>5 DEF Upgrade
  <2>2. top.pkg = q
    BY <2>1, CommandEnds
  <2>3. inst'[q] = Packed(q) /\ Packed(q) # {}
    BY <1>1, <1>5, <2>1, <2>2 DEF IInv, TypeOK, PackageIsThere, Upgrade
  <2> QED
    BY <2>3 DEF Packed
<1>6. CASE Verify \/ Interrupt \/ DiskFull
  BY <1>6, <1>1 DEF Verify, Interrupt, DiskFull, Abort, IInv, TypeOK
<1>7. CASE InstallDep \/ Download \/ Build \/ BuildCustom \/ UNCHANGED vars
  BY <1>7, <1>1 DEF InstallDep, Download, Build, BuildCustom, vars
<1>8. ASSUME NEW p \in Pkgs,
             \/ \E goal \in Goals : Make(p, goal)
             \/ \E target \in Cleaners : CleanUp(p, target)
             \/ \E v \in Revs : Edit(p, v)
      PROVE  FALSE
  <2>1. ASSUME NEW goal \in Goals, Make(p, goal) PROVE FALSE
    <3>1. last'.outcome = "running"
      BY <2>1 DEF Make
    <3> QED
      BY <3>1
  <2>2. CASE \/ \E target \in Cleaners : CleanUp(p, target)
             \/ \E v \in Revs : Edit(p, v)
    BY <2>2, <1>1 DEF Edit, CleanUp
  <2> QED
    BY <1>8, <2>1, <2>2
<1>9. ASSUME NEW p \in Uninstalls, Uninstall(p)
      PROVE  FALSE
  BY <1>9, <1>1 DEF Uninstall
<1> QED
  BY <1>2, <1>3, <1>4, <1>5, <1>6, <1>7, <1>8, <1>9 DEF Next, Step

\* make install and make reinstall, when they end well, leave the version that the
\* source tree has, and no other, whatever failed and was cleaned before.
THEOREM Current == Spec => InstalledIsCurrent
<1>1. IInv /\ [Next]_vars => [CurrentStep]_vars
  BY CurrentNext
<1> QED
  BY <1>1, Invariance, PTL DEF Spec, InstalledIsCurrent, CurrentStep

-----------------------------------------------------------------------------
(* Where nothing is interrupted, no disk is full and scrub is not used, a package *)
(* holds the version that it is named for                                         *)

\* The recipe of the package only runs when it is not there.
NothingToMake == stack # <<>> /\ top.at = "make" => Packed(top.pkg) = {}

\* What makepkg is about to pack has the files of the source tree.
RootIsCurrent == stack # <<>> /\ top.at = "pack" => tree[top.pkg] \in pkgroot[top.pkg]

\* The stamp of a custom build goes with a package, or the package comes next: so
\* its recipe never finds the stamp.
BuiltIsPacked ==
  \A p \in Custom : \A v \in built[p] :
    \/ \E c \in repo[p] : c[1] = v
    \/ stack # <<>> /\ top.at = "pack" /\ top.pkg = p /\ v = ver(p)

HoldInv ==
  IInv /\ PackagesHoldTheirVersion /\ NothingToMake /\ RootIsCurrent /\ BuiltIsPacked

\* Where a make goes on.
LEMMA GotoTop ==
  ASSUME IInv, stack # <<>>, NEW s \in Stages, Goto(s)
  PROVE  stack' # <<>> /\ top'.at = s /\ top'.pkg = top.pkg
<1> DEFINE f == [top EXCEPT !.at = s]
<1>1. f \in Frames /\ f.pkg = top.pkg /\ f.at = s /\ TypeOK
  BY GotoType DEF IInv
<1>2. stack' = <<f>> \o Tail(stack)
  BY DEF Goto
<1> HIDE DEF f
<1> QED
  BY <1>1, <1>2, ReplaceFrames

\* Below the innermost make, all wait for a dependency.
LEMMA ReturnTop ==
  ASSUME IInv, stack # <<>>, Return, stack' # <<>>
  PROVE  top'.at = "deps"
<1>1. /\ Tail(stack) \in Seq(Frames) /\ Len(stack) \in Nat /\ Len(stack) > 0
      /\ Len(Tail(stack)) = Len(stack) - 1
      /\ \A i \in 1 .. Len(stack) - 1 : Tail(stack)[i] = stack[i + 1]
  BY TopType DEF IInv
<1>2. stack' = Tail(stack)
  BY DEF Return
<1>3. stack' \in Seq(Frames) /\ Len(stack') > 0
  BY <1>1, <1>2
<1>4. top' = stack'[1]
  BY <1>3 DEF top
<1>5. 2 \in 2 .. Len(stack) /\ stack'[1] = stack[2]
  BY <1>1, <1>2, <1>3
<1> QED
  BY <1>4, <1>5 DEF IInv, OneCommand

LEMMA PackageFileTop ==
  ASSUME IInv, stack # <<>>, PackageFile, repo' = repo, tree' = tree, stack' # <<>>
  PROVE  /\ top'.at \in {"deps", "make", "upgrade"}
         /\ NothingToMake'
<1>1. CASE Packed(top.pkg) = {}
  <2>1. top'.at = "make" /\ top'.pkg = top.pkg
    BY <1>1, GotoTop DEF PackageFile, Stages
  <2> QED
    BY <1>1, <2>1 DEF NothingToMake, Packed, ver
<1>2. CASE Packed(top.pkg) # {} /\ top.goal = "build"
  BY <1>2, ReturnTop DEF PackageFile, NothingToMake
<1>3. CASE Packed(top.pkg) # {} /\ top.goal # "build"
  BY <1>3, GotoTop DEF PackageFile, NothingToMake, Stages
<1> QED
  BY <1>1, <1>2, <1>3

\* A step that is not about pkg_root or packages.
LEMMA HoldSame ==
  ASSUME HoldInv, UNCHANGED <<tree, built, pkgroot, repo, inst>>, NothingToMake',
         stack # <<>> => top.at # "pack", stack' # <<>> => top'.at # "pack"
  PROVE  PackagesHoldTheirVersion' /\ NothingToMake' /\ RootIsCurrent' /\ BuiltIsPacked'
<1>1. PackagesHoldTheirVersion'
  BY DEF HoldInv, PackagesHoldTheirVersion
<1>2. RootIsCurrent'
  BY DEF RootIsCurrent
<1>3. BuiltIsPacked'
  BY DEF HoldInv, BuiltIsPacked
<1> QED
  BY <1>1, <1>2, <1>3

Holding == PackagesHoldTheirVersion /\ NothingToMake /\ RootIsCurrent /\ BuiltIsPacked

LEMMA HoldMakes ==
  ASSUME HoldInv, Start \/ InstallDep \/ DepsDone \/ Download \/ Verify
  PROVE  Holding'
<1>1. IInv /\ TypeOK /\ stack # <<>> /\ top \in Frames
  BY TopType DEF HoldInv, IInv, Start, InstallDep, DepsDone, Download, Verify
<1>2. /\ UNCHANGED <<tree, built, pkgroot, repo, inst>>
      /\ top.at # "pack"
  BY DEF Start, InstallDep, DepsDone, Download, Verify, stamps
<1> SUFFICES stack' # <<>> => top'.at # "pack" /\ NothingToMake'
  BY <1>2, HoldSame DEF Holding, NothingToMake
<1> SUFFICES ASSUME stack' # <<>> PROVE top'.at # "pack" /\ NothingToMake'
  OBVIOUS
<1>3. CASE PackageFile
  BY <1>1, <1>2, <1>3, PackageFileTop
<1>4. CASE Return
  BY <1>1, <1>4, ReturnTop DEF NothingToMake
<1>5. CASE Start /\ stack' = <<[top EXCEPT !.at = "deps", !.left = deps(top.pkg)]>> \o Tail(stack)
  <2> DEFINE f == [top EXCEPT !.at = "deps", !.left = deps(top.pkg)]
  <2>1. f \in Frames /\ f.at = "deps"
    BY <1>1, Typed DEF Frames, Stages
  <2>2. stack' = <<f>> \o Tail(stack)
    BY <1>5
  <2> HIDE DEF f
  <2>3. top' = f
    BY <1>1, <2>1, <2>2, ReplaceFrames
  <2> QED
    BY <2>1, <2>3 DEF NothingToMake
<1>6. CASE InstallDep
  <2>1. PICK d \in top.left :
          stack' = <<[pkg |-> d, goal |-> "install", at |-> "start", left |-> {}],
                     [top EXCEPT !.left = @ \ {d}]>> \o Tail(stack)
    BY <1>6 DEF InstallDep
  <2> DEFINE f == [top EXCEPT !.left = @ \ {d}]
             g == [pkg |-> d, goal |-> "install", at |-> "start", left |-> {}]
  <2>2. f \in Frames /\ g \in Frames /\ g.at = "start"
    BY <1>1, <2>1 DEF Frames, Stages, Goals
  <2>3. stack' = <<g, f>> \o Tail(stack)
    BY <2>1
  <2> HIDE DEF f, g
  <2>4. top' = g
    BY <1>1, <2>2, <2>3, PushFrames
  <2> QED
    BY <2>2, <2>4 DEF NothingToMake
<1>7. CASE stack' = stack
  BY <1>2, <1>7 DEF HoldInv, NothingToMake, top, Packed, ver
<1>8. CASE Abort
  BY <1>8 DEF Abort
<1> QED
  BY <1>1, <1>3, <1>4, <1>5, <1>6, <1>7, <1>8 DEF Start, DepsDone, Download, Verify

LEMMA HoldBuild ==
  ASSUME HoldInv, Build
  PROVE  Holding'
<1> PICK p : p = top.pkg
  OBVIOUS
<1>1. /\ IInv /\ stack # <<>> /\ top.at = "make" /\ p \in Pkgs /\ p \notin Custom
      /\ p = top.pkg
  BY Typed DEF HoldInv, IInv, Build
<1>2. top'.at = "pack" /\ top'.pkg = p
  BY <1>1, GotoTop DEF Build, Stages
<1>3. /\ tree' = tree /\ repo' = repo /\ inst' = inst /\ pkgroot'[p] = {tree[p]}
      /\ \A q \in Pkgs \ {p} : built'[q] = built[q]
  BY <1>1, Parts DEF Build, Data
<1>4. PackagesHoldTheirVersion' /\ NothingToMake' /\ RootIsCurrent'
  BY <1>2, <1>3 DEF HoldInv, PackagesHoldTheirVersion, NothingToMake, RootIsCurrent
<1>5. BuiltIsPacked'
  BY <1>1, <1>3, BuildAssumption DEF HoldInv, BuiltIsPacked
<1> QED
  BY <1>4, <1>5 DEF Holding

LEMMA HoldBuildCustom ==
  ASSUME HoldInv, BuildCustom
  PROVE  Holding'
<1> PICK p : p = top.pkg
  OBVIOUS
<1>1. /\ IInv /\ stack # <<>> /\ top.at = "make" /\ p \in Pkgs /\ p \in Custom
      /\ p = top.pkg
  BY Typed DEF HoldInv, IInv, BuildCustom
<1>2. stack' # <<>> /\ top'.at = "pack" /\ top'.pkg = p
  BY <1>1, GotoTop DEF BuildCustom, Stages
<1>3. ver(p) \notin built[p]
  <2>1. \A c \in repo[p] : c[1] # ver(p)
    BY <1>1 DEF HoldInv, NothingToMake, Packed
  <2> QED
    BY <1>1, <2>1 DEF HoldInv, BuiltIsPacked
<1>4. /\ tree' = tree /\ inst' = inst /\ tree[p] \in pkgroot'[p]
      /\ \A q \in Pkgs \ {p} : built'[q] = built[q] /\ repo'[q] = repo[q]
      /\ built'[p] = {ver(p)} \/ (built'[p] = built[p] \cup {ver(p)} /\ repo'[p] = repo[p])
      /\ repo'[p] \subseteq repo[p]
  BY <1>1, <1>3, Parts DEF BuildCustom, Data, Cleared
<1>5. PackagesHoldTheirVersion'
  BY <1>1, <1>4 DEF HoldInv, PackagesHoldTheirVersion
<1>6. NothingToMake' /\ RootIsCurrent'
  BY <1>2, <1>4 DEF NothingToMake, RootIsCurrent
<1>7. BuiltIsPacked'
  <2> SUFFICES ASSUME NEW q \in Custom, NEW v \in built'[q]
               PROVE  \/ \E c \in repo'[q] : c[1] = v
                      \/ stack' # <<>> /\ top'.at = "pack" /\ top'.pkg = q /\ v = ver(q)'
    BY DEF BuiltIsPacked
  <2>1. ver(q)' = ver(q) /\ q \in Pkgs
    BY <1>4, BuildAssumption DEF ver
  <2>2. CASE q = p /\ v = ver(p)
    BY <1>2, <2>1, <2>2
  <2>3. CASE q # p \/ v # ver(p)
    <3>1. v \in built[q] /\ repo'[q] = repo[q]
      BY <1>4, <2>1, <2>3
    <3>2. \E c \in repo[q] : c[1] = v
      BY <1>1, <3>1 DEF HoldInv, BuiltIsPacked
    <3> QED
      BY <3>1, <3>2
  <2> QED
    BY <2>2, <2>3
<1> QED
  BY <1>5, <1>6, <1>7 DEF Holding

LEMMA HoldPack ==
  ASSUME HoldInv, Pack
  PROVE  Holding'
<1> PICK p : p = top.pkg
  OBVIOUS
<1>1. /\ IInv /\ stack # <<>> /\ top.at = "pack" /\ p \in Pkgs /\ p = top.pkg
      /\ tree[p] \in pkgroot[p]
  BY Typed DEF HoldInv, IInv, Pack, RootIsCurrent
<1>2. PICK c : c = <<ver(p), pkgroot[p]>>
  OBVIOUS
<1>3. /\ repo'[p] = (repo[p] \ Packed(p)) \cup {c}
      /\ \A q \in Pkgs \ {p} : repo'[q] = repo[q]
      /\ tree' = tree /\ built' = built /\ pkgroot' = pkgroot /\ inst' = inst
  BY <1>1, <1>2, Parts DEF Pack, Data, stamps
<1>4. stack' # <<>> => top'.at \notin {"make", "pack"}
  BY <1>1, ReturnTop, GotoTop DEF Pack, Stages
<1>5. \E v \in c[2] : VersionOf[p][v] = c[1]
  BY <1>1, <1>2 DEF ver
<1>6. PackagesHoldTheirVersion'
  <2> SUFFICES ASSUME NEW q \in Pkgs, NEW d \in repo'[q] \cup inst'[q]
               PROVE  \E v \in d[2] : VersionOf[q][v] = d[1]
    BY DEF PackagesHoldTheirVersion
  <2>1. d \in repo[q] \cup inst[q] \/ (q = p /\ d = c)
    BY <1>3
  <2> QED
    BY <2>1, <1>5 DEF HoldInv, PackagesHoldTheirVersion
<1>7. NothingToMake' /\ RootIsCurrent'
  BY <1>4 DEF NothingToMake, RootIsCurrent
<1>8. BuiltIsPacked'
  <2> SUFFICES ASSUME NEW q \in Custom, NEW v \in built[q]
               PROVE  \E d \in repo'[q] : d[1] = v
    BY <1>3 DEF BuiltIsPacked
  <2>1. CASE q = p /\ v = ver(p)
    BY <1>2, <1>3, <2>1
  <2>2. CASE q # p \/ v # ver(p)
    <3>1. PICK d \in repo[q] : d[1] = v
      BY <1>1, <2>2 DEF HoldInv, BuiltIsPacked
    <3>2. d \in repo'[q]
      BY <1>3, <2>2, <3>1, BuildAssumption DEF Packed
    <3> QED
      BY <3>1, <3>2
  <2> QED
    BY <2>1, <2>2
<1> QED
  BY <1>6, <1>7, <1>8 DEF Holding

LEMMA HoldUpgrade ==
  ASSUME HoldInv, Upgrade
  PROVE  Holding'
<1> PICK p : p = top.pkg
  OBVIOUS
<1>1. IInv /\ stack # <<>> /\ top.at = "upgrade" /\ p \in Pkgs /\ p = top.pkg
  BY Typed DEF HoldInv, IInv, Upgrade
<1>2. /\ inst'[p] \subseteq repo[p] /\ \A q \in Pkgs \ {p} : inst'[q] = inst[q]
      /\ tree' = tree /\ built' = built /\ pkgroot' = pkgroot /\ repo' = repo
  BY <1>1, Parts DEF Upgrade, Data, stamps, Packed
<1>3. stack' # <<>> => top'.at = "deps"
  BY <1>1, ReturnTop DEF Upgrade
<1>4. PackagesHoldTheirVersion'
  BY <1>2 DEF HoldInv, PackagesHoldTheirVersion
<1>5. NothingToMake' /\ RootIsCurrent'
  BY <1>3 DEF NothingToMake, RootIsCurrent
<1>6. BuiltIsPacked'
  BY <1>1, <1>2 DEF HoldInv, BuiltIsPacked
<1> QED
  BY <1>4, <1>5, <1>6 DEF Holding

\* Between the commands: packages go with the stamps, and the other way.
LEMMA HoldCommands ==
  ASSUME HoldInv, "scrub" \notin Cleaners, NEW p \in Pkgs,
         \/ \E goal \in Goals : Make(p, goal)
         \/ \E target \in Cleaners : CleanUp(p, target)
         \/ \E v \in Revs : Edit(p, v)
         \/ Uninstall(p)
  PROVE  Holding'
<1>1. stack = <<>> /\ IInv
  BY DEF HoldInv, Make, CleanUp, Edit, Uninstall
<1>2. ASSUME NEW goal \in Goals, Make(p, goal)
      PROVE  Holding'
  <2>1. top'.at = "start"
    BY <1>2 DEF Make, top
  <2>2. NothingToMake'
    BY <2>1 DEF NothingToMake
  <2> QED
    BY <1>1, <1>2, <2>1, <2>2, HoldSame DEF Make, stamps, Holding
<1>3. CASE stack' = <<>>
  <2>1. NothingToMake' /\ RootIsCurrent'
    BY <1>3 DEF NothingToMake, RootIsCurrent
  <2>2. ASSUME \A q \in Pkgs : /\ repo'[q] \subseteq repo[q]
                               /\ inst'[q] \subseteq inst[q],
               \A q \in Pkgs : built'[q] = {} \/ (built'[q] = built[q] /\ repo'[q] = repo[q])
        PROVE  Holding'
    <3>1. PackagesHoldTheirVersion'
      BY <2>2 DEF HoldInv, PackagesHoldTheirVersion
    <3>2. BuiltIsPacked'
      BY <1>1, <2>2, BuildAssumption DEF HoldInv, BuiltIsPacked
    <3> QED
      BY <2>1, <3>1, <3>2 DEF Holding
  <2>3. ASSUME NEW target \in Cleaners, CleanUp(p, target)
        PROVE  Holding'
    <3>1. CASE Clean(p)
      BY <1>1, <2>2, <2>3, <3>1, Parts DEF Clean, CleanFiles, Cleared, CleanUp, Data
    <3>2. CASE Tidy(p) \/ Neat(p)
      BY <1>1, <2>2, <2>3, <3>2 DEF Tidy, Neat, CleanUp, stamps
    <3> QED
      BY <2>3, <3>1, <3>2 DEF CleanUp
  <2>4. CASE \/ \E v \in Revs : Edit(p, v)
             \/ Uninstall(p)
    BY <1>1, <2>2, <2>4, Parts DEF Edit, Uninstall, stamps, Data
  <2> QED
    BY <1>2, <2>3, <2>4
<1> QED
  BY <1>1, <1>2, <1>3 DEF CleanUp, Edit, Uninstall

LEMMA HoldNext ==
  ASSUME HoldInv, "scrub" \notin Cleaners, Failures \subseteq {"network"}, [Next]_vars
  PROVE  HoldInv'
<1>1. IInv'
  BY NextGood DEF HoldInv
<1>2. ASSUME Step PROVE Holding'
  <2>1. CASE Start \/ InstallDep \/ DepsDone \/ Download \/ Verify
    BY <2>1, HoldMakes
  <2>2. CASE Build
    BY <2>2, HoldBuild
  <2>3. CASE BuildCustom
    BY <2>3, HoldBuildCustom
  <2>4. CASE Pack
    BY <2>4, HoldPack
  <2>5. CASE Upgrade
    BY <2>5, HoldUpgrade
  <2> QED
    BY <1>2, <2>1, <2>2, <2>3, <2>4, <2>5 DEF Step
<1>3. ASSUME NEW p \in Pkgs,
             \/ \E goal \in Goals : Make(p, goal)
             \/ \E target \in Cleaners : CleanUp(p, target)
             \/ \E v \in Revs : Edit(p, v)
             \/ Uninstall(p)
      PROVE  Holding'
  BY <1>3, HoldCommands
<1>4. ~Interrupt /\ ~DiskFull
  BY DEF Interrupt, DiskFull, Fault
<1>5. ASSUME UNCHANGED vars PROVE Holding'
  <2>1. /\ UNCHANGED <<tree, built, pkgroot, repo, inst, stack>>
        /\ PackagesHoldTheirVersion /\ NothingToMake /\ RootIsCurrent /\ BuiltIsPacked
    BY <1>5 DEF vars, stamps, HoldInv
  <2>2. PackagesHoldTheirVersion'
    BY <2>1 DEF PackagesHoldTheirVersion
  <2>3. NothingToMake'
    BY <2>1 DEF NothingToMake, Packed, ver, top
  <2>4. RootIsCurrent'
    BY <2>1 DEF RootIsCurrent, top
  <2>5. BuiltIsPacked'
    BY <2>1 DEF BuiltIsPacked, ver, top
  <2> QED
    BY <2>2, <2>3, <2>4, <2>5 DEF Holding
<1>6. Holding'
  BY <1>2, <1>3, <1>4, <1>5, BuildAssumption DEF Next
<1> QED
  BY <1>1, <1>6 DEF HoldInv, Holding

LEMMA HoldInit == Init => HoldInv
<1> SUFFICES ASSUME Init PROVE HoldInv
  OBVIOUS
<1>1. stack = <<>> /\ \A p \in Pkgs : repo[p] = {} /\ inst[p] = {} /\ built[p] = {}
  BY DEF Init
<1>2. PackagesHoldTheirVersion
  BY <1>1 DEF PackagesHoldTheirVersion
<1>3. NothingToMake /\ RootIsCurrent
  BY <1>1 DEF NothingToMake, RootIsCurrent
<1>4. BuiltIsPacked
  BY <1>1, BuildAssumption DEF BuiltIsPacked
<1> QED
  BY <1>2, <1>3, <1>4, InitGood DEF HoldInv

\* For any packages, dependencies, edits of the source tree, failing downloads and
\* uses of clean, tidy and neat: a package holds the files of the version that its
\* name says.  The conditions are needed: scrub and an interrupted build leave a
\* stamp, or files, that do not go with pkg_root.
THEOREM Holds ==
  ASSUME "scrub" \notin Cleaners, Failures \subseteq {"network"}
  PROVE  Spec => []PackagesHoldTheirVersion
<1>1. Init => HoldInv
  BY HoldInit
<1>2. HoldInv /\ [Next]_vars => HoldInv'
  BY HoldNext
<1>3. HoldInv => PackagesHoldTheirVersion
  BY DEF HoldInv
<1> QED
  BY <1>1, <1>2, <1>3, PTL DEF Spec
-----------------------------------------------------------------------------
(* Under the same conditions, a clean forces a rebuild *)

\* After a clean, and with no edit since, a package of the version of the source
\* tree was packed from the source tree as it is.
FreshPacked ==
  \A p \in fresh : \A c \in repo[p] : c[1] = ver(p) => tree[p] \in c[2]

RebuildInv == HoldInv /\ FreshPacked

LEMMA FreshPack ==
  ASSUME RebuildInv, Pack
  PROVE  FreshPacked'
<1>1. /\ IInv /\ stack # <<>> /\ top.at = "pack" /\ top.pkg \in Pkgs
      /\ tree[top.pkg] \in pkgroot[top.pkg]
  BY Typed DEF RebuildInv, HoldInv, IInv, Pack, RootIsCurrent
<1>2. PICK c : c = <<ver(top.pkg), pkgroot[top.pkg]>>
  OBVIOUS
<1>3. /\ repo'[top.pkg] \subseteq repo[top.pkg] \cup {c}
      /\ \A q \in Pkgs \ {top.pkg} : repo'[q] = repo[q]
      /\ tree' = tree /\ fresh' = fresh
  BY <1>1, <1>2, Parts DEF Pack, Data
<1>4. tree[top.pkg] \in c[2]
  BY <1>1, <1>2
<1> SUFFICES ASSUME NEW p \in fresh, NEW d \in repo'[p], d[1] = ver(p)
             PROVE  tree[p] \in d[2]
  BY <1>3 DEF FreshPacked, ver
<1>5. p \in Pkgs
  BY <1>1, Typed DEF IInv, TypeOK
<1>6. d \in repo[p] \/ (p = top.pkg /\ d = c)
  BY <1>3, <1>5
<1> QED
  BY <1>4, <1>6 DEF RebuildInv, FreshPacked

\* Where the packages of the repository only go away.
LEMMA FreshFewer ==
  ASSUME IInv, FreshPacked, UNCHANGED <<tree, fresh>>,
         \A p \in Pkgs : repo'[p] \subseteq repo[p]
  PROVE  FreshPacked'
<1> SUFFICES ASSUME NEW p \in fresh, NEW d \in repo'[p], d[1] = ver(p)
             PROVE  tree[p] \in d[2]
  BY DEF FreshPacked, ver
<1>1. p \in Pkgs
  BY DEF IInv, TypeOK
<1> QED
  BY <1>1 DEF FreshPacked

LEMMA FreshStep ==
  ASSUME RebuildInv, Step
  PROVE  FreshPacked'
<1>1. CASE Pack
  BY <1>1, FreshPack
<1>2. CASE BuildCustom
  <2>1. UNCHANGED <<tree, fresh>> /\ (repo' = repo \/ repo' = Cleared(repo, top.pkg))
    BY <1>2 DEF BuildCustom
  <2>2. top.pkg \in Pkgs /\ repo \in [Pkgs -> SUBSET Contents]
    BY <1>2, Typed DEF RebuildInv, HoldInv, IInv, TypeOK, BuildCustom
  <2>3. \A p \in Pkgs : repo'[p] \subseteq repo[p]
    BY <2>1, <2>2 DEF Cleared
  <2> QED
    BY <2>1, <2>3, FreshFewer DEF RebuildInv, HoldInv
<1>3. CASE Start \/ InstallDep \/ DepsDone \/ Download \/ Verify \/ Build \/ Upgrade
  <2>1. UNCHANGED <<tree, fresh, repo>>
    BY <1>3 DEF Start, InstallDep, DepsDone, Download, Verify, Build, Upgrade
  <2> QED
    BY <2>1, FreshFewer DEF RebuildInv, HoldInv
<1> QED
  BY <1>1, <1>2, <1>3 DEF Step

LEMMA FreshCommands ==
  ASSUME RebuildInv, "scrub" \notin Cleaners, NEW p \in Pkgs,
         \/ \E goal \in Goals : Make(p, goal)
         \/ \E target \in Cleaners : CleanUp(p, target)
         \/ \E v \in Revs : Edit(p, v)
         \/ Uninstall(p)
  PROVE  FreshPacked'
<1>1. IInv /\ FreshPacked /\ repo \in [Pkgs -> SUBSET Contents] /\ fresh \subseteq Pkgs
      /\ tree \in [Pkgs -> Revs]
  BY DEF RebuildInv, HoldInv, IInv, TypeOK
<1>2. CASE (\E goal \in Goals : Make(p, goal)) \/ Uninstall(p)
  <2>1. UNCHANGED <<tree, fresh, repo>>
    BY <1>2 DEF Make, Uninstall
  <2> QED
    BY <1>1, <2>1, FreshFewer
<1>3. ASSUME NEW target \in Cleaners, CleanUp(p, target) PROVE FreshPacked'
  <2>1. tree' = tree /\ target # "scrub"
    BY <1>3 DEF CleanUp
  <2>2. CASE target = "clean"
    <3>1. repo' = Cleared(repo, p) /\ fresh' = fresh \cup {p}
      BY <1>3, <2>2 DEF CleanUp, Clean, CleanFiles
    <3>2. repo'[p] = {} /\ \A q \in Pkgs \ {p} : repo'[q] = repo[q]
      BY <1>1, <3>1 DEF Cleared
    <3> SUFFICES ASSUME NEW q \in fresh', NEW d \in repo'[q], d[1] = ver(q)
                 PROVE  tree[q] \in d[2]
      BY <2>1 DEF FreshPacked, ver
    <3>3. q \in fresh \ {p} /\ d \in repo[q]
      BY <1>1, <3>1, <3>2
    <3> QED
      BY <1>1, <3>3 DEF FreshPacked
  <2>3. CASE target = "tidy"
    <3>1. repo' = repo /\ fresh' = fresh
      BY <1>3, <2>3 DEF CleanUp, Tidy
    <3> QED
      BY <1>1, <2>1, <3>1, FreshFewer
  <2>4. CASE target = "neat"
    <3>1. repo' = repo /\ fresh' = fresh
      BY <1>3, <2>4 DEF CleanUp, Neat
    <3> QED
      BY <1>1, <2>1, <3>1, FreshFewer
  <2> QED
    BY <2>1, <2>2, <2>3, <2>4, BuildAssumption
<1>4. ASSUME NEW v \in Revs, Edit(p, v) PROVE FreshPacked'
  <2>1. repo' = repo /\ fresh' = fresh \ {p} /\ \A q \in Pkgs \ {p} : tree'[q] = tree[q]
    BY <1>1, <1>4 DEF Edit
  <2> SUFFICES ASSUME NEW q \in fresh', NEW d \in repo'[q], d[1] = VersionOf[q][tree'[q]]
               PROVE  tree'[q] \in d[2]
    BY DEF FreshPacked, ver
  <2>2. q \in fresh /\ d \in repo[q] /\ tree'[q] = tree[q]
    BY <1>1, <2>1
  <2> QED
    BY <1>1, <2>2 DEF FreshPacked, ver
<1> QED
  BY <1>2, <1>3, <1>4

LEMMA RebuildNext ==
  ASSUME RebuildInv, "scrub" \notin Cleaners, Failures \subseteq {"network"}, [Next]_vars
  PROVE  RebuildInv'
<1>1. HoldInv'
  BY HoldNext DEF RebuildInv
<1>2. ASSUME Step PROVE FreshPacked'
  BY <1>2, FreshStep
<1>3. ASSUME NEW p \in Pkgs,
             \/ \E goal \in Goals : Make(p, goal)
             \/ \E target \in Cleaners : CleanUp(p, target)
             \/ \E v \in Revs : Edit(p, v)
             \/ Uninstall(p)
      PROVE  FreshPacked'
  BY <1>3, FreshCommands
<1>4. ~Interrupt /\ ~DiskFull
  BY DEF Interrupt, DiskFull, Fault
<1>5. ASSUME UNCHANGED vars PROVE FreshPacked'
  <2>1. UNCHANGED <<tree, fresh, repo>>
    BY <1>5 DEF vars
  <2> QED
    BY <2>1, FreshFewer DEF RebuildInv, HoldInv
<1>6. FreshPacked'
  BY <1>2, <1>3, <1>4, <1>5, BuildAssumption DEF Next
<1> QED
  BY <1>1, <1>6 DEF RebuildInv

RebuildStep ==
  last'.outcome = "ok" /\ last.outcome = "running" /\ last.goal = "reinstall"
  /\ last.pkg \in fresh =>
    \E c \in inst'[last.pkg] : tree[last.pkg] \in c[2]

\* A command that ends with this step, and is a make reinstall, ends with upgradepkg.
LEMMA ReinstallEnds ==
  ASSUME IInv, [Next]_vars, last'.outcome = "ok", last.outcome = "running",
         last.goal = "reinstall"
  PROVE  Upgrade
<1>1. last' # last
  BY DEF IInv, TypeOK
<1>2. ASSUME stack # <<>>, Return, top.goal # "reinstall" PROVE FALSE
  BY <1>2, CommandEnds
<1>3. ~Start
  BY <1>1, <1>2 DEF Start, PackageFile
<1>4. ~DepsDone
  BY <1>1, <1>2 DEF DepsDone, PackageFile
<1>5. ~Pack
  BY <1>1, <1>2 DEF Pack
<1>6. ~Verify /\ ~Interrupt /\ ~DiskFull
  BY <1>1 DEF Verify, Interrupt, DiskFull, Abort, IInv, TypeOK
<1>7. ~InstallDep /\ ~Download /\ ~Build /\ ~BuildCustom /\ ~UNCHANGED vars
  BY <1>1 DEF InstallDep, Download, Build, BuildCustom, vars
<1>8. ASSUME NEW p \in Pkgs, NEW goal \in Goals, Make(p, goal) PROVE FALSE
  <2>1. last'.outcome = "running"
    BY <1>8 DEF Make
  <2> QED
    BY <2>1
<1>9. ASSUME NEW p \in Pkgs,
             \/ \E target \in Cleaners : CleanUp(p, target)
             \/ \E v \in Revs : Edit(p, v)
             \/ Uninstall(p)
      PROVE  FALSE
  BY <1>9, <1>1 DEF Edit, CleanUp, Uninstall
<1> QED
  BY <1>3, <1>4, <1>5, <1>6, <1>7, <1>8, <1>9, BuildAssumption DEF Next, Step

LEMMA RebuildOnly == RebuildInv /\ [Next]_vars => RebuildStep
<1> SUFFICES ASSUME RebuildInv, [Next]_vars, last'.outcome = "ok",
                    last.outcome = "running", last.goal = "reinstall",
                    last.pkg \in fresh
             PROVE  \E c \in inst'[last.pkg] : tree[last.pkg] \in c[2]
  BY DEF RebuildStep
<1> DEFINE q == last.pkg
<1>1. IInv /\ FreshPacked /\ q \in Pkgs /\ inst \in [Pkgs -> SUBSET Contents]
  BY DEF RebuildInv, HoldInv, IInv, TypeOK
<1>2. Upgrade
  BY <1>1, ReinstallEnds
<1>3. stack # <<>> /\ Return /\ top.at = "upgrade"
      /\ inst' = [inst EXCEPT ![top.pkg] = Packed(top.pkg)]
  BY <1>2 DEF Upgrade
<1>4. top.pkg = q
  BY <1>1, <1>3, CommandEnds
<1>5. inst'[q] = Packed(q) /\ Packed(q) # {}
  BY <1>1, <1>3, <1>4 DEF IInv, PackageIsThere
<1>6. PICK c \in Packed(q) : TRUE
  BY <1>5
<1>7. c \in repo[q] /\ c[1] = ver(q)
  BY <1>6 DEF Packed
<1>8. tree[q] \in c[2]
  BY <1>1, <1>7 DEF FreshPacked
<1> QED
  BY <1>5, <1>6, <1>8

\* After a make clean, and until the next edit of the source tree, a make reinstall
\* that ends well installs a package with the files of the source tree as it is,
\* whatever downloads failed on the way.  After make scrub it need not: the run
\* build_scrub shows how.
THEOREM Rebuilds ==
  ASSUME "scrub" \notin Cleaners, Failures \subseteq {"network"}
  PROVE  Spec => ForcedRebuild
<1>1. Init => RebuildInv
  BY HoldInit DEF Init, RebuildInv, FreshPacked
<1>2. RebuildInv /\ [Next]_vars => RebuildInv'
  BY RebuildNext
<1>3. RebuildInv /\ [Next]_vars => [RebuildStep]_vars
  BY RebuildOnly
<1> QED
  BY <1>1, <1>2, <1>3, PTL DEF Spec, ForcedRebuild, RebuildStep

-----------------------------------------------------------------------------
(***************************************************************************)
(* Dependencies, where those of a package do not change with its revision  *)
(* and no dependency is uninstalled.                                       *)
(***************************************************************************)

-----------------------------------------------------------------------------
(* The invariant *)

\* What a package needs and is not installed.
missing == [p \in Pkgs |-> {d \in deps(p) : inst[d] = {}}]

\* What a make has seen to, when S is being installed for it and M is missing.
Good(f, S, M) ==
  /\ f.at = "deps" => M[f.pkg] \subseteq f.left \cup S
  /\ f.at \in {"make", "pack", "upgrade"} => M[f.pkg] = {}

\* The package that stack[i] waits for.
Awaited(i) == IF i = 1 THEN {} ELSE {stack[i - 1].pkg}

MakesGood ==
  \A i \in 1 .. Len(stack) :
    /\ Good(stack[i], Awaited(i), missing)
    /\ i < Len(stack) => stack[i].goal = "install"

\* .stamp_dependencies tells the truth.
StampsTrue == \A p \in depstamp : missing[p] = {}

DepInv == IInv /\ MakesGood /\ StampsTrue

-----------------------------------------------------------------------------
(* What a step does to the makes *)

\* No step of a make takes a package away or moves the source tree.
Grows ==
  /\ tree' = tree
  /\ \A p \in Pkgs : inst[p] # {} => inst'[p] # {}

LEMMA MissingShrinks ==
  ASSUME TypeOK, Grows
  PROVE  \A p \in Pkgs : missing'[p] \subseteq missing[p]
<1>1. \A p \in Pkgs : deps(p)' = deps(p) /\ deps(p) \subseteq Pkgs
  BY Typed DEF Grows, deps
<1>2. \A p \in Pkgs : missing'[p] = {d \in deps(p)' : inst'[d] = {}}
  BY DEF missing
<1>3. \A p \in Pkgs : missing[p] = {d \in deps(p) : inst[d] = {}}
  BY DEF missing
<1> QED
  BY <1>1, <1>2, <1>3 DEF Grows

\* What a make has seen to stays seen to.
LEMMA GoodStays ==
  ASSUME NEW f \in Frames, NEW S, NEW T, NEW M, NEW N,
         \A p \in Pkgs : N[p] \subseteq M[p],
         N[f.pkg] \cap S \subseteq T, Good(f, S, M)
  PROVE  Good(f, T, N)
<1>1. f.pkg \in Pkgs
  BY DEF Frames
<1> QED
  BY <1>1 DEF Good

LEMMA ReplaceDeps ==
  ASSUME DepInv, Grows, stack # <<>>, NEW f \in Frames,
         f.pkg = top.pkg, f.goal = top.goal, Good(f, {}, missing),
         stack' = <<f>> \o Tail(stack)
  PROVE  MakesGood'
<1>1. TypeOK
  BY DEF DepInv, IInv
<1>2. /\ Len(stack') = Len(stack) /\ stack'[1] = f
      /\ \A i \in 2 .. Len(stack) : stack'[i] = stack[i]
  BY <1>1, ReplaceFrames
<1>3. Len(stack) \in Nat /\ Len(stack) > 0 /\ top = stack[1] /\ stack \in Seq(Frames)
  BY <1>1, TopType DEF TypeOK
<1>4. \A p \in Pkgs : missing'[p] \subseteq missing[p]
  BY <1>1, MissingShrinks
<1> SUFFICES ASSUME NEW i \in 1 .. Len(stack)
             PROVE  /\ Good(stack'[i], Awaited(i)', missing')
                    /\ i < Len(stack) => stack'[i].goal = "install"
  BY <1>2 DEF MakesGood
<1>5. /\ Good(stack[i], Awaited(i), missing)
      /\ i < Len(stack) => stack[i].goal = "install"
  BY DEF DepInv, MakesGood
<1>6. CASE i = 1
  <2>1. Good(f, {}, missing')
    BY <1>4, GoodStays
  <2> QED
    BY <2>1, <1>2, <1>3, <1>5, <1>6 DEF Awaited
<1>7. CASE i # 1
  <2>1. i \in 2 .. Len(stack) /\ i - 1 \in 1 .. Len(stack)
    BY <1>3, <1>7
  <2>2. stack'[i] = stack[i] /\ stack[i] \in Frames
    BY <2>1, <1>2, <1>3
  <2>3. stack'[i - 1].pkg = stack[i - 1].pkg
    <3>1. CASE i = 2
      BY <3>1, <1>2, <1>3
    <3>2. CASE i # 2
      <4>1. i - 1 \in 2 .. Len(stack)
        BY <3>2, <2>1, <1>3
      <4> QED
        BY <4>1, <1>2
    <3> QED
      BY <3>1, <3>2
  <2>4. Awaited(i) = {stack[i - 1].pkg} /\ Awaited(i)' = {stack[i - 1].pkg}
    BY <1>7, <2>3 DEF Awaited
  <2>5. Good(stack[i], Awaited(i)', missing')
    BY <2>2, <2>4, <1>4, <1>5, GoodStays
  <2> QED
    BY <2>2, <2>5, <1>5
<1> QED
  BY <1>6, <1>7

LEMMA GotoDeps ==
  ASSUME DepInv, Grows, stack # <<>>, NEW s \in Stages, Goto(s), s # "deps",
         s \in {"make", "pack", "upgrade"} => missing[top.pkg] = {}
  PROVE  MakesGood'
<1> DEFINE f == [top EXCEPT !.at = s]
<1>1. f \in Frames /\ f.pkg = top.pkg /\ f.goal = top.goal /\ f.at = s
  BY GotoType, TopType DEF DepInv, IInv, Frames
<1>2. stack' = <<f>> \o Tail(stack)
  BY DEF Goto
<1> HIDE DEF f
<1>3. Good(f, {}, missing)
  BY <1>1 DEF Good
<1> QED
  BY <1>1, <1>2, <1>3, ReplaceDeps

\* The innermost make is done: if another waits for it, the package is there.
LEMMA ReturnDeps ==
  ASSUME DepInv, Grows, stack # <<>>, Return,
         Len(stack) # 1 => inst'[top.pkg] # {}
  PROVE  MakesGood'
<1>1. TypeOK
  BY DEF DepInv, IInv
<1>2. /\ top = stack[1] /\ Len(stack) \in Nat /\ Len(stack) > 0
      /\ stack \in Seq(Frames) /\ stack' \in Seq(Frames) /\ Len(stack') = Len(stack) - 1
      /\ \A i \in 1 .. Len(stack) - 1 : stack'[i] = stack[i + 1]
  BY <1>1, TopType DEF Return, TypeOK
<1>3. \A p \in Pkgs : missing'[p] \subseteq missing[p]
  BY <1>1, MissingShrinks
<1> SUFFICES ASSUME NEW i \in 1 .. Len(stack) - 1
             PROVE  /\ Good(stack'[i], Awaited(i)', missing')
                    /\ i < Len(stack) - 1 => stack'[i].goal = "install"
  BY <1>2 DEF MakesGood
<1>4. /\ i + 1 \in 1 .. Len(stack) /\ i + 1 # 1 /\ (i + 1) - 1 = i
      /\ stack'[i] = stack[i + 1] /\ stack[i + 1] \in Frames /\ Len(stack) # 1
  BY <1>2
<1>5. /\ Good(stack[i + 1], {stack[i].pkg}, missing)
      /\ i + 1 < Len(stack) => stack[i + 1].goal = "install"
  <2>1. Awaited(i + 1) = {stack[i].pkg}
    BY <1>4 DEF Awaited
  <2> QED
    BY <2>1, <1>4 DEF DepInv, MakesGood
<1>6. CASE i = 1
  <2>1. missing'[stack[2].pkg] \cap {top.pkg} = {}
    <3>1. PICK q \in Pkgs : q = stack[2].pkg
      BY <1>4, <1>6 DEF Frames
    <3>2. missing'[q] = {d \in deps(q)' : inst'[d] = {}}
      BY DEF missing
    <3> QED
      BY <3>1, <3>2, <1>4
  <2>2. Good(stack[2], {}, missing')
    BY <2>1, <1>2, <1>3, <1>4, <1>5, <1>6, GoodStays
  <2>3. Awaited(i)' = {}
    BY <1>6 DEF Awaited
  <2> QED
    BY <2>2, <2>3, <1>2, <1>4, <1>5, <1>6
<1>7. CASE i # 1
  <2>1. i - 1 \in 1 .. Len(stack) - 1 /\ (i - 1) + 1 = i
    BY <1>2, <1>7
  <2>2. stack'[i - 1] = stack[i]
    BY <2>1, <1>2
  <2>3. Awaited(i)' = {stack[i].pkg}
    BY <2>2, <1>7 DEF Awaited
  <2>4. Good(stack[i + 1], {stack[i].pkg}, missing')
    BY <1>3, <1>4, <1>5, GoodStays
  <2> QED
    BY <2>3, <2>4, <1>2, <1>4, <1>5
<1> QED
  BY <1>6, <1>7

LEMMA NoMakes ==
  ASSUME stack' = <<>>
  PROVE  MakesGood'
  BY EmptySeq DEF MakesGood

\* A step within a make, or beside it, that leaves the makes as they are.
LEMMA SameMakes ==
  ASSUME DepInv, UNCHANGED <<tree, inst, stack>>
  PROVE  MakesGood' /\ missing' = missing
<1>1. missing' = missing
  BY DEF missing, deps
<1> QED
  BY <1>1 DEF DepInv, MakesGood, Awaited

\* .stamp_dependencies is set for nothing but what has all it needs.
LEMMA StampsStay ==
  ASSUME DepInv, Grows, \A p \in depstamp' \ depstamp : missing[p] = {},
         depstamp' \subseteq Pkgs
  PROVE  StampsTrue'
<1>1. \A p \in Pkgs : missing'[p] \subseteq missing[p]
  BY MissingShrinks DEF DepInv, IInv
<1>2. \A p \in depstamp' : missing[p] = {} /\ p \in Pkgs
  BY DEF DepInv, StampsTrue
<1>3. \A p \in depstamp' : missing'[p] = {}
  BY <1>1, <1>2
<1> QED
  BY <1>3 DEF StampsTrue

-----------------------------------------------------------------------------
(* Every step *)

LEMMA TopGood ==
  ASSUME DepInv, stack # <<>>
  PROVE  /\ TypeOK /\ top \in Frames /\ top.pkg \in Pkgs /\ Len(stack) \in Nat
         /\ Good(top, {}, missing)
         /\ Len(stack) # 1 => top.goal = "install"
<1>1. /\ TypeOK /\ top \in Frames /\ top = stack[1]
      /\ Len(stack) \in Nat /\ Len(stack) > 0
  BY TopType DEF DepInv, IInv
<1>2. /\ Good(stack[1], Awaited(1), missing)
      /\ 1 < Len(stack) => stack[1].goal = "install"
  BY <1>1 DEF DepInv, MakesGood
<1>3. Awaited(1) = {}
  BY DEF Awaited
<1>4. Good(top, {}, missing)
  <2>1. Good(top, Awaited(1), missing)
    BY <1>1, <1>2
  <2> QED
    BY <2>1, <1>3
<1>5. top.pkg \in Pkgs
  BY <1>1 DEF Frames
<1>6. Len(stack) # 1 => top.goal = "install"
  <2> DEFINE l == Len(stack)
  <2>0. l \in Nat /\ l > 0
    BY <1>1
  <2> HIDE DEF l
  <2>3. l # 1 => 1 < l
    BY <2>0
  <2>1. Len(stack) # 1 => 1 < Len(stack)
    BY <2>3 DEF l
  <2>2. 1 < Len(stack) => stack[1].goal = "install"
    BY <1>2
  <2> QED
    BY <2>1, <2>2, <1>1
<1>7. TypeOK /\ top \in Frames /\ Len(stack) \in Nat
  BY <1>1
<1> QED
  BY <1>4, <1>5, <1>6, <1>7

\* Nothing that the package database holds is taken away.
LEMMA Untouched ==
  ASSUME UNCHANGED <<tree, inst>>
  PROVE  Grows
  BY DEF Grows

LEMMA PackageFileDeps ==
  ASSUME DepInv, stack # <<>>, PackageFile, missing[top.pkg] = {}, UNCHANGED <<tree, inst>>
  PROVE  MakesGood'
<1>1. CASE Goto("make") \/ Goto("upgrade")
  BY <1>1, Untouched, GotoDeps DEF Stages
<1>2. CASE Return /\ top.goal = "build"
  BY <1>2, Untouched, TopGood, ReturnDeps
<1> QED
  BY <1>1, <1>2 DEF PackageFile

LEMMA StartDeps ==
  ASSUME DepInv, Start
  PROVE  MakesGood' /\ StampsTrue'
<1>1. /\ stack # <<>> /\ TypeOK /\ top \in Frames /\ top.pkg \in Pkgs
      /\ Grows /\ depstamp' = depstamp /\ depstamp \subseteq Pkgs
  BY TopGood, Untouched DEF Start, stamps, TypeOK
<1>2. StampsTrue'
  BY <1>1, StampsStay
<1>3. CASE Return /\ Entry(top.pkg) # {}
  <2>1. inst'[top.pkg] # {}
    BY <1>3 DEF Start, Entry
  <2> QED
    BY <2>1, <1>1, <1>2, <1>3, ReturnDeps
<1>4. CASE PackageFile /\ (deps(top.pkg) = {} \/ top.pkg \in depstamp)
  <2>1. missing[top.pkg] = {}
    BY <1>1, <1>4 DEF DepInv, StampsTrue, missing
  <2> QED
    BY <2>1, <1>1, <1>2, <1>4, PackageFileDeps DEF Start
<1>5. CASE stack' = <<[top EXCEPT !.at = "deps", !.left = deps(top.pkg)]>> \o Tail(stack)
  <2> DEFINE f == [top EXCEPT !.at = "deps", !.left = deps(top.pkg)]
  <2>1. /\ f \in Frames /\ f.pkg = top.pkg /\ f.goal = top.goal /\ f.at = "deps"
        /\ f.left = deps(top.pkg)
    BY <1>1, Typed DEF Frames, Stages
  <2>2. missing[top.pkg] \subseteq deps(top.pkg)
    BY <1>1 DEF missing
  <2>3. stack' = <<f>> \o Tail(stack)
    BY <1>5
  <2> HIDE DEF f
  <2>4. Good(f, {}, missing)
    BY <2>1, <2>2 DEF Good
  <2> QED
    BY <2>1, <2>3, <2>4, <1>1, <1>2, ReplaceDeps
<1> QED
  BY <1>3, <1>4, <1>5 DEF Start

LEMMA InstallDepDeps ==
  ASSUME DepInv, InstallDep
  PROVE  MakesGood' /\ StampsTrue'
<1>1. /\ stack # <<>> /\ TypeOK /\ top \in Frames /\ top.pkg \in Pkgs /\ top.at = "deps"
      /\ Grows /\ depstamp' = depstamp /\ depstamp \subseteq Pkgs
      /\ missing' = missing /\ Good(top, {}, missing)
      /\ Len(stack) # 1 => top.goal = "install"
  BY TopGood, Untouched DEF InstallDep, stamps, TypeOK, missing, deps
<1>2. StampsTrue'
  BY <1>1, StampsStay
<1>3. PICK d \in top.left :
        stack' = <<[pkg |-> d, goal |-> "install", at |-> "start", left |-> {}],
                   [top EXCEPT !.left = @ \ {d}]>> \o Tail(stack)
  BY DEF InstallDep
<1> DEFINE f == [top EXCEPT !.left = @ \ {d}]
           g == [pkg |-> d, goal |-> "install", at |-> "start", left |-> {}]
<1>4. /\ f \in Frames /\ f.pkg = top.pkg /\ f.goal = top.goal /\ f.at = "deps"
      /\ f.left = top.left \ {d}
      /\ g \in Frames /\ g.at = "start" /\ g.pkg = d /\ g.goal = "install"
  BY <1>1, <1>3 DEF Frames, Stages, Goals
<1>5. stack' = <<g, f>> \o Tail(stack)
  BY <1>3
<1> HIDE DEF f, g
<1>6. /\ Len(stack') = Len(stack) + 1 /\ stack'[1] = g /\ stack'[2] = f
      /\ \A i \in 3 .. Len(stack) + 1 : stack'[i] = stack[i - 1]
  BY <1>1, <1>4, <1>5, PushFrames
<1>7. Len(stack) \in Nat /\ Len(stack) > 0 /\ top = stack[1]
  BY <1>1, TopType
<1> SUFFICES ASSUME NEW i \in 1 .. Len(stack) + 1
             PROVE  /\ Good(stack'[i], Awaited(i)', missing)
                    /\ i < Len(stack) + 1 => stack'[i].goal = "install"
  BY <1>1, <1>2, <1>6 DEF MakesGood
<1>8. CASE i = 1
  BY <1>4, <1>6, <1>8 DEF Good
<1>9. CASE i = 2
  <2>1. Awaited(i)' = {d}
    BY <1>4, <1>6, <1>9 DEF Awaited
  <2>2. Good(f, {d}, missing)
    BY <1>1, <1>4 DEF Good
  <2> QED
    BY <2>1, <2>2, <1>1, <1>4, <1>6, <1>7, <1>9
<1>10. CASE i \in 3 .. Len(stack) + 1
  <2>1. /\ i - 1 \in 1 .. Len(stack) /\ i - 1 # 1
        /\ Awaited(i - 1) = {stack[(i - 1) - 1].pkg}
    BY <1>7, <1>10 DEF Awaited
  <2>2. stack'[i - 1].pkg = stack[(i - 1) - 1].pkg
    <3>1. CASE i = 3
      BY <3>1, <1>4, <1>6, <1>7
    <3>2. CASE i # 3
      <4>1. i - 1 \in 3 .. Len(stack) + 1
        BY <3>2, <1>7, <1>10
      <4> QED
        BY <4>1, <1>6
    <3> QED
      BY <3>1, <3>2
  <2>3. Awaited(i)' = Awaited(i - 1)
    BY <2>1, <2>2, <1>10 DEF Awaited
  <2>4. stack'[i] = stack[i - 1]
    BY <1>6, <1>10
  <2>5. /\ Good(stack[i - 1], Awaited(i - 1), missing)
        /\ i - 1 < Len(stack) => stack[i - 1].goal = "install"
    BY <2>1 DEF DepInv, MakesGood
  <2>6. i < Len(stack) + 1 => i - 1 < Len(stack)
    BY <1>7, <1>10
  <2> QED
    BY <2>3, <2>4, <2>5, <2>6
<1> QED
  BY <1>7, <1>8, <1>9, <1>10

LEMMA DepsDoneDeps ==
  ASSUME DepInv, DepsDone
  PROVE  MakesGood' /\ StampsTrue'
<1>1. /\ stack # <<>> /\ TypeOK /\ top.pkg \in Pkgs /\ Grows
      /\ depstamp' = depstamp \cup {top.pkg} /\ depstamp \subseteq Pkgs
  BY TopGood, Untouched DEF DepsDone, TypeOK
<1>2. missing[top.pkg] = {}
  BY <1>1, TopGood DEF Good, DepsDone
<1> QED
  BY <1>1, <1>2, PackageFileDeps, StampsStay DEF DepsDone

\* What is built, and packed, has all it needs.
LEMMA BuildDeps ==
  ASSUME DepInv, Build \/ BuildCustom
  PROVE  MakesGood' /\ StampsTrue'
<1>1. /\ stack # <<>> /\ TypeOK /\ Grows /\ Goto("pack") /\ top.at = "make"
      /\ depstamp' \subseteq depstamp /\ depstamp \subseteq Pkgs
  BY TopGood, Untouched DEF Build, BuildCustom, TypeOK, stamps
<1>2. missing[top.pkg] = {}
  BY <1>1, TopGood DEF Good
<1> QED
  BY <1>1, <1>2, GotoDeps, StampsStay DEF Stages

LEMMA PackDeps ==
  ASSUME DepInv, Pack
  PROVE  MakesGood' /\ StampsTrue'
<1>1. /\ stack # <<>> /\ TypeOK /\ Grows /\ top.at = "pack"
      /\ depstamp' = depstamp /\ depstamp \subseteq Pkgs
  BY TopGood, Untouched DEF Pack, TypeOK, stamps
<1>2. missing[top.pkg] = {}
  BY <1>1, TopGood DEF Good
<1>3. CASE Goto("upgrade")
  BY <1>1, <1>2, <1>3, GotoDeps, StampsStay DEF Stages
<1>4. CASE Return /\ top.goal = "build"
  BY <1>1, <1>4, TopGood, ReturnDeps, StampsStay
<1> QED
  BY <1>3, <1>4 DEF Pack

LEMMA UpgradeDeps ==
  ASSUME DepInv, Upgrade
  PROVE  MakesGood' /\ StampsTrue'
<1>1. /\ stack # <<>> /\ TypeOK /\ top.pkg \in Pkgs /\ Return
      /\ depstamp' = depstamp /\ depstamp \subseteq Pkgs
  BY TopGood DEF Upgrade, TypeOK, stamps
<1>2. Packed(top.pkg) # {}
  BY <1>1 DEF Upgrade, DepInv, IInv, PackageIsThere
<1>3. Grows /\ inst'[top.pkg] # {}
  BY <1>1, <1>2 DEF Grows, Upgrade, TypeOK
<1> QED
  BY <1>1, <1>3, ReturnDeps, StampsStay

\* Where a make of the same packages goes on, or stops.
LEMMA OtherDeps ==
  ASSUME DepInv, Download \/ Verify \/ Interrupt \/ DiskFull
  PROVE  MakesGood' /\ StampsTrue'
<1>1. /\ TypeOK /\ Grows /\ UNCHANGED <<tree, inst>>
      /\ depstamp' = depstamp /\ depstamp \subseteq Pkgs
  BY Untouched DEF Download, Verify, Interrupt, DiskFull, DepInv, IInv, TypeOK, stamps
<1>2. stack' = stack \/ stack' = <<>>
  BY DEF Download, Verify, Interrupt, DiskFull, Abort
<1> QED
  BY <1>1, <1>2, SameMakes, NoMakes, StampsStay

LEMMA CommandDeps ==
  ASSUME DepInv, NEW p \in Pkgs,
         \A q \in Pkgs : \A v, w \in Revs : Deps[q][v] = Deps[q][w],
         \A q \in Pkgs : \A v \in Revs : Deps[q][v] \cap Uninstalls = {},
         \/ \E goal \in Goals : Make(p, goal)
         \/ \E target \in Cleaners : CleanUp(p, target)
         \/ \E v \in Revs : Edit(p, v)
         \/ p \in Uninstalls /\ Uninstall(p)
  PROVE  MakesGood' /\ StampsTrue'
<1>1. /\ TypeOK /\ depstamp \subseteq Pkgs /\ depstamp' \subseteq depstamp
  BY DEF DepInv, IInv, TypeOK, Make, CleanUp, Clean, CleanFiles, Tidy, Neat, Scrub, Edit,
     Uninstall, stamps
<1>2. missing' = missing
  <2>1. tree \in [Pkgs -> Revs] /\ tree' \in [Pkgs -> Revs]
    <3>1. tree \in [Pkgs -> Revs]
      BY <1>1 DEF TypeOK
    <3>2. tree' = tree \/ \E v \in Revs : tree' = [tree EXCEPT ![p] = v]
      BY DEF Make, CleanUp, Edit, Uninstall
    <3> QED
      BY <3>1, <3>2
  <2>2. \A q \in Pkgs : deps(q)' = deps(q)
    BY <2>1 DEF deps
  <2>3. \A q \in Pkgs : \A d \in deps(q) : d \in Pkgs /\ d \notin Uninstalls
    BY <2>1, <1>1, Typed DEF deps
  <2>4. \A d \in Pkgs \ Uninstalls : inst'[d] = inst[d]
    BY <1>1 DEF TypeOK, Make, CleanUp, Edit, Uninstall
  <2>5. \A q \in Pkgs : {d \in deps(q)' : inst'[d] = {}} = {d \in deps(q) : inst[d] = {}}
    BY <2>2, <2>3, <2>4
  <2> QED
    BY <2>5 DEF missing
<1>3. StampsTrue'
  BY <1>1, <1>2 DEF DepInv, StampsTrue
<1>4. CASE stack' = <<>>
  BY <1>3, <1>4, NoMakes
<1>5. CASE \E goal \in Goals : Make(p, goal)
  <2>1. PICK goal \in Goals : Make(p, goal)
    BY <1>5
  <2> DEFINE f == [pkg |-> p, goal |-> goal, at |-> "start", left |-> {}]
  <2>2. f \in Frames /\ stack' = <<f>> /\ f.at = "start"
    BY <2>1 DEF Make, Frames, Stages
  <2> HIDE DEF f
  <2>3. Len(stack') = 1 /\ stack'[1] = f
    BY <2>2, SingletonProperties
  <2> QED
    BY <1>3, <2>2, <2>3 DEF MakesGood, Good
<1> QED
  BY <1>3, <1>4, <1>5 DEF CleanUp, Edit, Uninstall

LEMMA DepsNext ==
  ASSUME DepInv, [Next]_vars,
         \A q \in Pkgs : \A v, w \in Revs : Deps[q][v] = Deps[q][w],
         \A q \in Pkgs : \A v \in Revs : Deps[q][v] \cap Uninstalls = {}
  PROVE  DepInv'
<1>1. IInv'
  BY NextGood DEF DepInv
<1>2. ASSUME Step PROVE MakesGood' /\ StampsTrue'
  BY <1>2, StartDeps, InstallDepDeps, DepsDoneDeps, BuildDeps, PackDeps, UpgradeDeps,
     OtherDeps DEF Step
<1>3. ASSUME NEW p \in Pkgs,
             \/ \E goal \in Goals : Make(p, goal)
             \/ \E target \in Cleaners : CleanUp(p, target)
             \/ \E v \in Revs : Edit(p, v)
             \/ p \in Uninstalls /\ Uninstall(p)
      PROVE  MakesGood' /\ StampsTrue'
  BY <1>3, CommandDeps
<1>4. ASSUME UNCHANGED vars PROVE MakesGood' /\ StampsTrue'
  <2>1. UNCHANGED <<tree, inst, stack, depstamp>>
    BY <1>4 DEF vars, stamps
  <2> QED
    BY <2>1, SameMakes DEF DepInv, StampsTrue
<1>5. MakesGood' /\ StampsTrue'
  BY <1>2, <1>3, <1>4, OtherDeps, BuildAssumption DEF Next
<1> QED
  BY <1>1, <1>5 DEF DepInv

\* In any make, at any depth of dependencies and after any failures, a package is
\* built and packed only when all that it needs is installed.  The stamp of the
\* dependencies knows neither of a revision that adds one nor of one that was
\* uninstalled since, hence the two conditions.
THEOREM Needed ==
  ASSUME \A q \in Pkgs : \A v, w \in Revs : Deps[q][v] = Deps[q][w],
         \A q \in Pkgs : \A v \in Revs : Deps[q][v] \cap Uninstalls = {}
  PROVE  Spec => []DependenciesInstalled
<1>1. Init => DepInv
  <2> SUFFICES ASSUME Init PROVE DepInv
    OBVIOUS
  <2>1. stack = <<>> /\ depstamp = {}
    BY DEF Init
  <2> QED
    BY <2>1, InitGood, EmptySeq DEF DepInv, MakesGood, StampsTrue
<1>2. DepInv /\ [Next]_vars => DepInv'
  BY DepsNext
<1>3. DepInv => DependenciesInstalled
  <2> SUFFICES ASSUME DepInv, stack # <<>>, top.at \in {"make", "pack"}
               PROVE  \A d \in deps(top.pkg) : inst[d] # {}
    BY DEF DependenciesInstalled
  <2>1. top.pkg \in Pkgs /\ missing[top.pkg] = {}
    BY TopGood DEF Good
  <2> QED
    BY <2>1 DEF missing
<1> QED
  BY <1>1, <1>2, <1>3, PTL DEF Spec
=============================================================================
