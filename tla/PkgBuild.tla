------------------------------ MODULE PkgBuild ------------------------------
(***************************************************************************)
(* The build system of /usr/src: package.mk, package-common.mk and the     *)
(* build systems "custom" and "autoconf"/"make" (include/).                *)
(*                                                                         *)
(* A package directory keeps stamps of the work that is done, archives of  *)
(* sources and pkg_root, the tree that makepkg packs; the packages go to a *)
(* repository and are installed by upgradepkg, here one step.  The source  *)
(* tree changes between commands (a pull, a checkout, an edit): a package  *)
(* has revisions, each with the version, and so the full name, that its    *)
(* Makefile states.  The content of pkg_root and of a package is the set   *)
(* of revisions whose files it holds.                                      *)
(***************************************************************************)
EXTENDS Integers, Sequences

CONSTANTS
  Pkgs,        \* package directories
  Revs,        \* revisions of the source tree
  Versions,    \* versions
  VersionOf,   \* VersionOf[p][v]: the version that p's Makefile has at a revision
  Deps,        \* Deps[p][v]: PKG_BUILD_DEPENDS at a revision
  Custom,      \* packages with PKG_BUILDSYSTEM=custom
  CleansFirst, \* those of them whose .stamp_build begins with "make clean"
  Cleaners,    \* cleaning targets that are used
  Uninstalls,  \* packages that may be uninstalled
  Edits,       \* the changes of revision that happen, as pairs
  Failures,    \* kinds of failure: "network", "interrupt", "disk"
  MaxFailures  \* bound on the number of failures

ASSUME BuildAssumption ==
  /\ VersionOf \in [Pkgs -> [Revs -> Versions]]
  /\ Deps \in [Pkgs -> [Revs -> SUBSET Pkgs]]
  /\ CleansFirst \subseteq Custom /\ Custom \subseteq Pkgs
  /\ Cleaners \subseteq {"clean", "tidy", "neat", "scrub"}
  /\ Uninstalls \subseteq Pkgs /\ Edits \subseteq Revs \X Revs
  /\ Failures \subseteq {"network", "interrupt", "disk"}
  /\ MaxFailures \in Nat

VARIABLES
  tree,        \* tree[p]: the revision p's directory is at
  downloaded,  \* downloaded[p]: versions with a .stamp_download_*
  fetched,     \* fetched[p]: versions whose source archives are on disk
  verified,    \* verified[p]: versions with a .stamp_verify_*
  depstamp,    \* packages with a .stamp_dependencies
  built,       \* built[p]: versions with a .stamp_build_<full name>
  pkgroot,     \* pkgroot[p]: the content of pkg_root
  repo,        \* repo[p]: the packages in the repository, version and content
  inst,        \* inst[p]: what is installed, version and content
  stack,       \* the running makes, innermost first
  last,        \* the last command: its package, goal and outcome
  fresh,       \* auxiliary: packages not edited since a clean or scrub
  failures     \* number of failures so far

stamps == <<downloaded, verified, depstamp, built>>
vars == <<tree, fetched, stamps, pkgroot, repo, inst, stack, last, fresh, failures>>

Goals == {"build", "install", "reinstall"}
Stages == {"start", "deps", "make", "pack", "upgrade"}
Frames == [pkg : Pkgs, goal : Goals, at : Stages, left : SUBSET Pkgs]

ver(p) == VersionOf[p][tree[p]]
deps(p) == Deps[p][tree[p]]
Packed(p) == {c \in repo[p] : c[1] = ver(p)}
\* Seeded fault: any version of the package will do.
Entry_Any(p) == inst[p]
Entry(p) == {c \in inst[p] : c[1] = ver(p)}

top == Head(stack)
\* Seeded fault: the recipe starts the build and never packs.
Goto_Forked(stage) == stack' = <<[top EXCEPT !.at = "forked"]>> \o Tail(stack)

Goto(stage) == stack' = <<[top EXCEPT !.at = stage]>> \o Tail(stack)

\* The innermost make is done, and perhaps the command.
Return ==
  /\ stack' = Tail(stack)
  /\ last' = IF Len(stack) = 1 THEN [last EXCEPT !.outcome = "ok"] ELSE last

\* make stops at the first error, whatever the depth.
Abort == stack' = <<>> /\ last' = [last EXCEPT !.outcome = "failed"]

Fault(k) == k \in Failures /\ failures < MaxFailures /\ failures' = failures + 1

-----------------------------------------------------------------------------
(* Targets *)

\* make build, install or reinstall in p's directory.
Make(p, goal) ==
  /\ stack = <<>>
  /\ stack' = <<[pkg |-> p, goal |-> goal, at |-> "start", left |-> {}]>>
  /\ last' = [pkg |-> p, goal |-> goal, outcome |-> "running"]
  /\ UNCHANGED <<tree, fetched, stamps, pkgroot, repo, inst, fresh, failures>>

\* The target $(_PKG_FILE): the package is there, or its recipe runs.
PackageFile ==
  IF Packed(top.pkg) = {} THEN Goto("make") /\ UNCHANGED last
  ELSE IF top.goal = "build" THEN Return ELSE Goto("upgrade") /\ UNCHANGED last

\* The target install has nothing to do when the full name is in the package
\* database.  .stamp_dependencies comes before the package.
Start ==
  /\ stack # <<>> /\ top.at = "start"
  /\ LET p == top.pkg
         done == top.goal = "install" /\ Entry(p) # {}
         wants == deps(p) # {} /\ p \notin depstamp
     IN \/ done /\ Return
        \/ /\ ~done /\ wants
           /\ stack' = <<[top EXCEPT !.at = "deps", !.left = deps(p)]>> \o Tail(stack)
           /\ UNCHANGED last
        \/ ~done /\ ~wants /\ PackageFile
  /\ UNCHANGED <<tree, fetched, stamps, pkgroot, repo, inst, fresh, failures>>

\* Seeded fault: the dependencies are built and not installed.
InstallDep_Build ==
  /\ stack # <<>> /\ top.at = "deps"
  /\ \E d \in top.left :
       stack' = <<[pkg |-> d, goal |-> "build", at |-> "start", left |-> {}],
                  [top EXCEPT !.left = @ \ {d}]>> \o Tail(stack)
  /\ UNCHANGED <<tree, fetched, stamps, pkgroot, repo, inst, last, fresh, failures>>

\* .stamp_dependencies: install-<dependency> for each, then touch.
InstallDep ==
  /\ stack # <<>> /\ top.at = "deps"
  /\ \E d \in top.left :
       stack' = <<[pkg |-> d, goal |-> "install", at |-> "start", left |-> {}],
                  [top EXCEPT !.left = @ \ {d}]>> \o Tail(stack)
  /\ UNCHANGED <<tree, fetched, stamps, pkgroot, repo, inst, last, fresh, failures>>

DepsDone ==
  /\ stack # <<>> /\ top.at = "deps" /\ top.left = {}
  /\ depstamp' = depstamp \cup {top.pkg}
  /\ PackageFile
  /\ UNCHANGED <<tree, fetched, downloaded, verified, built, pkgroot, repo, inst,
                 fresh, failures>>

\* .stamp_download_*: an error of wget is ignored and the stamp is set.
Download ==
  /\ stack # <<>> /\ top.at = "make"
  /\ LET p == top.pkg IN
     /\ p \notin Custom /\ ver(p) \notin downloaded[p]
     /\ downloaded' = [downloaded EXCEPT ![p] = @ \cup {ver(p)}]
     /\ \/ fetched' = [fetched EXCEPT ![p] = @ \cup {ver(p)}] /\ UNCHANGED failures
        \/ Fault("network") /\ UNCHANGED fetched
  /\ UNCHANGED <<tree, verified, depstamp, built, pkgroot, repo, inst, stack,
                 last, fresh>>

\* Seeded fault: a failing sha3sum does not stop make.
Verify_Ignored ==
  /\ stack # <<>> /\ top.at = "make"
  /\ LET p == top.pkg IN
     /\ p \notin Custom /\ ver(p) \in downloaded[p] \ verified[p]
     /\ verified' = [verified EXCEPT ![p] = @ \cup {ver(p)}]
  /\ UNCHANGED <<tree, fetched, downloaded, depstamp, built, pkgroot, repo, inst,
                 stack, last, fresh, failures>>

\* .stamp_verify_*: sha3sum fails for archives that are not there.
Verify ==
  /\ stack # <<>> /\ top.at = "make"
  /\ LET p == top.pkg IN
     /\ p \notin Custom /\ ver(p) \in downloaded[p] \ verified[p]
     /\ IF ver(p) \in fetched[p]
        THEN verified' = [verified EXCEPT ![p] = @ \cup {ver(p)}] /\ UNCHANGED <<stack, last>>
        ELSE Abort /\ UNCHANGED verified
  /\ UNCHANGED <<tree, fetched, downloaded, depstamp, built, pkgroot, repo, inst,
                 fresh, failures>>

\* .stamp_build_* of the autoconf and make build systems: pkg_root is made anew,
\* each time the target is asked for.
Build ==
  /\ stack # <<>> /\ top.at = "make"
  /\ LET p == top.pkg IN
     /\ p \notin Custom /\ ver(p) \in verified[p]
     /\ pkgroot' = [pkgroot EXCEPT ![p] = {tree[p]}]
     /\ built' = [built EXCEPT ![p] = @ \cup {ver(p)}]
  /\ Goto("pack")
  /\ UNCHANGED <<tree, fetched, downloaded, verified, depstamp, repo, inst, last,
                 fresh, failures>>

-----------------------------------------------------------------------------
(* Cleaning targets *)

Cleared(f, p) == [f EXCEPT ![p] = {}]

\* Seeded faults: clean has tidy's pattern of stamps, or leaves the package.
CleanFiles_KeepBuilt(p) ==
  /\ downloaded' = Cleared(downloaded, p) /\ verified' = Cleared(verified, p)
  /\ depstamp' = depstamp \ {p}
  /\ fetched' = Cleared(fetched, p) /\ repo' = Cleared(repo, p)
  /\ UNCHANGED built
CleanFiles_KeepRepo(p) ==
  /\ downloaded' = Cleared(downloaded, p) /\ verified' = Cleared(verified, p)
  /\ depstamp' = depstamp \ {p} /\ built' = Cleared(built, p)
  /\ fetched' = Cleared(fetched, p) /\ UNCHANGED repo

\* What each leaves.  The pattern .stamp_*build of tidy, neat and scrub matches
\* .stamp_build and not .stamp_build_<full name>.
CleanFiles(p) ==
  /\ downloaded' = Cleared(downloaded, p) /\ verified' = Cleared(verified, p)
  /\ depstamp' = depstamp \ {p}
  /\ built' = Cleared(built, p)
  /\ fetched' = Cleared(fetched, p)
  /\ repo' = Cleared(repo, p)

Clean(p) ==
  /\ CleanFiles(p)
  /\ pkgroot' = Cleared(pkgroot, p)

Tidy(p) ==
  /\ downloaded' = Cleared(downloaded, p) /\ verified' = Cleared(verified, p)
  /\ fetched' = Cleared(fetched, p)
  /\ pkgroot' = Cleared(pkgroot, p)
  /\ UNCHANGED <<depstamp, built, repo>>

Neat(p) ==
  /\ pkgroot' = Cleared(pkgroot, p)
  /\ UNCHANGED <<stamps, fetched, repo>>

Scrub(p) ==
  /\ depstamp' = depstamp \ {p}
  /\ pkgroot' = Cleared(pkgroot, p)
  /\ repo' = Cleared(repo, p)
  /\ UNCHANGED <<downloaded, verified, built, fetched>>

CleanUp(p, target) ==
  /\ stack = <<>>
  /\ \/ target = "clean" /\ Clean(p)
     \/ target = "tidy" /\ Tidy(p)
     \/ target = "neat" /\ Neat(p)
     \/ target = "scrub" /\ Scrub(p)
  /\ fresh' = IF target \in {"clean", "scrub"} THEN fresh \cup {p} ELSE fresh
  /\ UNCHANGED <<tree, inst, stack, last, failures>>

-----------------------------------------------------------------------------
(* The custom build system, packing, installing *)

\* .stamp_build_* of the custom build system: done when the stamp is there, else
\* the package's own .stamp_build, which adds to pkg_root or, in some packages,
\* cleans the whole directory first.
BuildCustom ==
  /\ stack # <<>> /\ top.at = "make"
  /\ LET p == top.pkg IN
     /\ p \in Custom
     /\ \/ /\ ver(p) \in built[p]
           /\ UNCHANGED <<stamps, fetched, pkgroot, repo>>
        \/ /\ ver(p) \notin built[p] /\ p \notin CleansFirst
           /\ pkgroot' = [pkgroot EXCEPT ![p] = @ \cup {tree[p]}]
           /\ built' = [built EXCEPT ![p] = @ \cup {ver(p)}]
           /\ UNCHANGED <<downloaded, verified, depstamp, fetched, repo>>
        \/ /\ ver(p) \notin built[p] /\ p \in CleansFirst
           /\ downloaded' = Cleared(downloaded, p) /\ verified' = Cleared(verified, p)
           /\ depstamp' = depstamp \ {p}
           /\ fetched' = Cleared(fetched, p) /\ repo' = Cleared(repo, p)
           /\ pkgroot' = [pkgroot EXCEPT ![p] = {tree[p]}]
           /\ built' = [built EXCEPT ![p] = {ver(p)}]
  /\ Goto("pack")
  /\ UNCHANGED <<tree, inst, last, fresh, failures>>

\* makepkg packs whatever pkg_root holds.
Pack ==
  /\ stack # <<>> /\ top.at = "pack"
  /\ LET p == top.pkg IN
     repo' = [repo EXCEPT ![p] = (@ \ Packed(p)) \cup {<<ver(p), pkgroot[p]>>}]
  /\ IF top.goal = "build" THEN Return ELSE Goto("upgrade") /\ UNCHANGED last
  /\ UNCHANGED <<tree, fetched, stamps, pkgroot, inst, fresh, failures>>

\* upgradepkg -ri: the package replaces every other version of its name.
Upgrade ==
  /\ stack # <<>> /\ top.at = "upgrade"
  /\ inst' = [inst EXCEPT ![top.pkg] = Packed(top.pkg)]
  /\ Return
  /\ UNCHANGED <<tree, fetched, stamps, pkgroot, repo, fresh, failures>>

\* make uninstall.
Uninstall(p) ==
  /\ stack = <<>>
  /\ inst' = [inst EXCEPT ![p] = {}]
  /\ UNCHANGED <<tree, fetched, stamps, pkgroot, repo, stack, last, fresh, failures>>

-----------------------------------------------------------------------------
(* The environment *)

\* The source tree moves to another revision.
Edit(p, v) ==
  /\ stack = <<>>
  /\ <<tree[p], v>> \in Edits
  /\ tree' = [tree EXCEPT ![p] = v]
  /\ fresh' = fresh \ {p}
  /\ UNCHANGED <<fetched, stamps, pkgroot, repo, inst, stack, last, failures>>

\* The make is interrupted, or a compiler fails: what runs has no effect, or a
\* build has left files in pkg_root and no stamp.
Interrupt ==
  /\ stack # <<>> /\ Fault("interrupt")
  /\ \/ UNCHANGED pkgroot
     \/ /\ top.at = "make"
        /\ IF top.pkg \in Custom THEN ver(top.pkg) \notin built[top.pkg]
                               ELSE ver(top.pkg) \in verified[top.pkg]
        /\ pkgroot' = [pkgroot EXCEPT ![top.pkg] = @ \cup {tree[top.pkg]}]
  /\ Abort
  /\ UNCHANGED <<tree, fetched, stamps, repo, inst, fresh>>

\* makepkg fails on a full disk: make stops and the truncated package stays.
DiskFull ==
  /\ stack # <<>> /\ top.at = "pack" /\ Fault("disk")
  /\ repo' = [repo EXCEPT ![top.pkg] = (@ \ Packed(top.pkg)) \cup {<<ver(top.pkg), {}>>}]
  /\ Abort
  /\ UNCHANGED <<tree, fetched, stamps, pkgroot, inst, fresh>>

-----------------------------------------------------------------------------
Init ==
  /\ tree \in [Pkgs -> Revs]
  /\ downloaded = [p \in Pkgs |-> {}] /\ fetched = [p \in Pkgs |-> {}]
  /\ verified = [p \in Pkgs |-> {}] /\ depstamp = {}
  /\ built = [p \in Pkgs |-> {}] /\ pkgroot = [p \in Pkgs |-> {}]
  /\ repo = [p \in Pkgs |-> {}] /\ inst = [p \in Pkgs |-> {}]
  /\ stack = <<>> /\ fresh = {} /\ failures = 0
  /\ last \in [pkg : Pkgs, goal : {"build"}, outcome : {"failed"}]

Step ==
  \/ Start \/ InstallDep \/ DepsDone \/ Download \/ Verify \/ Build
  \/ BuildCustom \/ Pack \/ Upgrade

Next ==
  \/ Step
  \/ \E p \in Pkgs : \/ \E goal \in Goals : Make(p, goal)
                     \/ \E target \in Cleaners : CleanUp(p, target)
                     \/ \E v \in Revs : Edit(p, v)
  \/ \E p \in Uninstalls : Uninstall(p)
  \/ Interrupt \/ DiskFull

Spec == Init /\ [][Next]_vars

-----------------------------------------------------------------------------
(* Properties *)

Contents == Versions \X SUBSET Revs

TypeOK ==
  /\ tree \in [Pkgs -> Revs]
  /\ downloaded \in [Pkgs -> SUBSET Versions] /\ fetched \in [Pkgs -> SUBSET Versions]
  /\ verified \in [Pkgs -> SUBSET Versions] /\ built \in [Pkgs -> SUBSET Versions]
  /\ depstamp \subseteq Pkgs /\ fresh \subseteq Pkgs
  /\ pkgroot \in [Pkgs -> SUBSET Revs]
  /\ repo \in [Pkgs -> SUBSET Contents] /\ inst \in [Pkgs -> SUBSET Contents]
  /\ stack \in Seq(Frames)
  /\ last \in [pkg : Pkgs, goal : Goals, outcome : {"running", "ok", "failed"}]
  /\ failures \in 0 .. MaxFailures

\* No package, packed or installed, lacks the files of the version it is named for:
\* pkg_root is never packed when a stamp alone says that it was built.
PackagesHoldTheirVersion ==
  \A p \in Pkgs : \A c \in repo[p] \cup inst[p] : \E v \in c[2] : VersionOf[p][v] = c[1]

\* "make clean" or "make scrub", then "make reinstall", rebuilds: the package that
\* is installed has the files of the source tree as it is.
ForcedRebuild ==
  [][last'.outcome = "ok" /\ last.outcome = "running" /\ last.goal = "reinstall"
     /\ last.pkg \in fresh =>
       \E c \in inst'[last.pkg] : tree[last.pkg] \in c[2]]_vars

\* A package is built when the packages it needs for that are installed.
DependenciesInstalled ==
  stack # <<>> /\ top.at \in {"make", "pack"} => \A d \in deps(top.pkg) : inst[d] # {}

\* A download that failed never goes unnoticed into a package: pkg_root is built
\* from source archives that are there.
BuiltFromSources ==
  [][\A p \in Pkgs \ Custom : pkgroot'[p] \notin {{}, pkgroot[p]} =>
       VersionOf[p][tree[p]] \in fetched[p]]_vars

\* A make install or reinstall that ends well leaves exactly the version of the
\* source tree installed.
InstalledIsCurrent ==
  [][last'.outcome = "ok" /\ last.outcome = "running" /\ last.goal # "build" =>
       {c[1] : c \in inst'[last.pkg]} = {ver(last.pkg)}]_vars

=============================================================================
