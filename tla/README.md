# Fidelix, a verification project

Fidelix is a small Linux distribution that is built from its own source tree,
`/usr/src`.  Most of the repository is other people's software, as patches,
headers and kernel configurations.  What is Fidelix's own is a set of shell
scripts and makefiles: the package tools, the build system over package
directories, and the scripts that boot the machine and run its services.  One C
library is kept in the tree with its source, `base/libelf`, which every program
that reads or makes ELF files is linked with.  These are what this project
models, checks with TLC and proves about with TLAPS.

The hard parts of the scripts are not algorithms.  They are programs whose whole
state is in files, that can be stopped between any two commands, that nobody
locks, and that must find on the next call whatever the last one left.  Those of
the library are counted references, offsets, and a file that is rewritten in
place while parts of it are still wanted.

Paths below are relative to `src/`.

## The system and its parts

| Component | Where | State it keeps | Operations | Modelled by |
| --- | --- | --- | --- | --- |
| package tools | `base/pkgtools/src/sbin` | files under a root directory, `var/pkgdb` with one entry per package | `installpkg`, `removepkg`, `upgradepkg` | `PkgTools` |
| configuration files | `base/pkgtools/src/sbin/pkgtool` | `f`, `f.new`, `f.old` | `preserve-file`, `install-new-file` | `ConfigFile` |
| build system | `include/*.mk`, `include/buildsystem` | stamps, source archives, `pkg_root`, the repository of packages | `build`, `install`, `reinstall`, `uninstall`, `clean`, `tidy`, `neat`, `scrub` | `PkgBuild` |
| services | `base/system-scripts/src/init.d/common-core`, `.../service` | pid files, `/etc/rc.d/enabled` | `start`, `stop`, `restart`, `enable`, `disable`, `default` | `Service` |
| boot and shutdown | `boot/boot-scripts/src/rc.d` | the list of services each has read | `rc`, `rc.shutdown` | `Service` |
| makepkg | `base/pkgtools/src/sbin/makepkg` | none | packs `pkg_root` | step `Pack` of `PkgBuild` |
| package groups | `include/dir.mk`, `include/selection` | none of its own | recursion over directories | no |
| bootstrap | `bootstrap` | a chain of stamps | builds the first toolchain | no |
| insignia | `base/pkgtools/src/bin/insignia` | key files | generate, sign, verify | no |
| genfstab | `boot/boot-scripts/src/genfstab` | none | converts the mount table | no |
| sysconfig | `base/system-scripts/src/sysconfig*` | the menu on the screen | toggles services, host name, time zone | no |
| network scripts | `base/busybox/udhcpc.script`, `util/iptables` | addresses, rules | events of udhcpc, loading of rules | no |
| libelf | `base/libelf/src` | descriptors of ELF files and archives, the sections and headers of an object | `elf_begin`, `elf_next`, `elf_end`, ...; `elf_newscn`, `elf_getdata`, `elf_update`, ... | `ElfDesc`, `ElfUpdate` |
| images, boot loader | `images`, `scripts` | disks | straight-line disk I/O | no |
| hardening-check | `scripts/hardening-check` | none | reports on a binary | no |
| patches, headers, configurations | everywhere | - | data | no |

How they interact: a package's Makefile includes `package.mk`; its build ends in
`makepkg` and its installation in `upgradepkg`, which calls `installpkg` and
`removepkg` through the environment variable `do_upgradepkg`.  `preserve-file`
runs while a package is made and `install-new-file` from the package's
`doinst.sh`, in the middle of `upgradepkg`.  A package may bring an init script,
which `service` links into `/etc/rc.d/enabled` and which `rc` and `rc.shutdown`
run.  All communication is through files and exit statuses.  libelf stands apart:
its client calls it in one thread, and it meets the rest only through the files
it maps.

What makes each correct:

- **package tools.**  A file that an installed package provides stays, whatever
  else is installed, upgraded or removed; a file that nobody provides any more
  goes; an upgrade leaves one version; a command that ends with status 0 did what
  it promises, also when it finds the debris of an interrupted one; what is not
  the packages' is not touched.  Hard: shared files, interruptions, the packages
  set aside as `P@oldpkg`, the two roots of nested calls.
- **configuration files.**  No upgrade loses an edit the user wants to keep, and
  the new file is delivered.  Hard: the order of `doinst.sh` and of the removal
  of the old version; the gap between two renames.
- **build system.**  A package is built after its dependencies, from sources that
  were verified, and holds the files of its version; forcing a rebuild rebuilds.
  Hard: stamps that outlive what they stand for, failures in the middle, moves
  between revisions of the tree.
- **services.**  One daemon per service, known by its pid file; what is enabled
  is started at boot, in order; stop stops; boot and shutdown end.  Hard: stale pid
  files, concurrent shells, daemons that write and remove pid files on their own.
- **libelf.**  A descriptor stays as long as somebody holds it or a member of it,
  and no longer; a loop over an archive gets each member once, in order, and ends;
  what `elf_update` writes is what the client asked for, laid out without overlap,
  as `elf_update(ELF_C_NULL)` foretold.  Hard: archives within archives, closing in
  any order, sections that keep their contents in the file while they move, counts
  that do not fit their fields, system calls that fail half-way.

The hazards of this kind are listed in `PROJECT.json`, at their lines, with the
property that watches each or the reason why none does; a few narrower ones, which
no property could pass, are under the disagreements below instead.

## Modules

| Module | What it is |
| --- | --- |
| `PackageDb` | what the package tools promise of the database, abstractly |
| `PkgTools` | the three package tools, step by step |
| `MCPkgTools` | small instances of it |
| `PkgToolsProofs` | theorems about it, and that it implements `PackageDb` |
| `ConfigFile` | one configuration file through upgrades |
| `MCConfigFile` | small instances of it |
| `ConfigFileProofs` | theorems about it |
| `PkgBuild` | package directories, stamps and make |
| `MCPkgBuild` | small instances of it |
| `PkgBuildProofs` | its inductive invariants and theorems |
| `Service` | services, boot and shutdown |
| `MCService` | small instances of it |
| `ServiceProofs` | its inductive invariant and the theorem about the boot |
| `DaemonProofs` | the theorems about daemons, pid files and the order of services |
| `ElfHandles` | what descriptors of a library promise, abstractly |
| `ElfDesc` | descriptors, archives and members of libelf |
| `MCElfDesc` | a small instance of it |
| `ElfDescProofs` | its inductive invariants, and that it implements `ElfHandles` |
| `ElfUpdate` | building, laying out and writing an object |
| `MCElfUpdate` | small instances of it |
| `ElfUpdateProofs` | theorems about the layout, what `ELF_C_NULL` foretells, the shape of an object, and the loops |
| `ElfWriteProofs` | the theorem about what is written |

Operators whose names have an underscore, such as `OnlyLine_NoCount`, are seeded
faults: what a likely mistake in that piece of code would make of it.  No
specification uses them.  Each property is known to fail when the right one of
them takes the place of the operator it is named after, which shows that the
property depends on the code and that the bounds let the case happen.

### PackageDb and PkgTools

`PackageDb` says what a user may rely on: the database is a function from installed
packages to the paths that they provide; a command is refused with a status that says
so, or accepted, and then changes the database in one step (`TakeEffect`) and ends with
status 0 (`Reply`).  `PkgTools` is the scripts.

A root directory is the set of paths in it (`fs`) and its package database: the
entries that exist (`present`) and the lines of their `contents` files.  An entry
is a pair of a full name and a kind, because `installpkg -r` renames `P` to
`P@oldpkg` ("old"), and `mv` puts `P` *into* `P@oldpkg` when that is there already
("nested").  `setup` records whose `doinst.sh` has run and whose `douninst.sh` has
not.  A script is a program counter `pc` and the variables it has read: `todo`
(the paths its loop has left), `olds` (the `old_versions` of `upgradepkg`),
`caller`, `ent` and `at` (of the nested `removepkg`).

One action is one step on the disk: `Extract` and `ExtractEntry` create one path
of the archive, `WriteContents` writes the list, `Doinst`, `CheckOld`, `Douninst`,
`RmFile` and `RmDir` (one line of the list each, with the count of lines that grep
finds), `RmEntry`, `NextOld`.  Steps that only read, or that follow one another
without touching the disk, are part of the action before.  `InstallPkg`,
`RemovePkg` and `UpgradePkg` begin a command, with `-r`, `-i` and `-d` as parameters.
`Crash` stops it between two steps, or in the middle of the contents file, with
any part of the list written.  `TarEnds` and `WriteContents` may fail (the fault
"tar"), which the code does not notice.  `CreateLocal` is the administrator, who
puts a file of their own into a directory.

Two modelling decisions deserve a name.  `grep` takes a path as a regular
expression; `Hits` says which paths it matches, and nothing is assumed of that: a name
may match others and not itself, as `a[1]` does, or nothing, where it is no valid
expression.  `Countable` are the files whose own line is counted if any line is; the
properties about files that packages provide are about those, and the others are
among the disagreements below.  `torn` is auxiliary: the
entries whose removal has begun or whose archive tar could not extract; the
properties about "installed" packages except them.

### ConfigFile

The file `f` of one package, with `f.new` and `f.old`, the set `db` of installed
versions, and `NEW_FILE_ACTION` of the run.  A version in `Preserved` ships `f.new`
and runs `install-new-file`; another ships `f`.  `Upgrade` unpacks,
`InstallNewFile` and `Replace` are `doinst.sh` (two actions: REPLACE renames twice),
`RemoveOld` applies removepkg's rule to the one path of an old version.  `Edit`,
`Accept` and `Command` are the administrator, `Crash` stops a run.  `edit` is
auxiliary: the last edit, until a run with REPLACE or OVERWRITE gives it up.

### PkgBuild

A package directory is its revision (`tree`), four kinds of stamps (`downloaded`,
`verified`, `depstamp`, `built`), the archives on disk (`fetched`) and `pkg_root`
(`pkgroot`).  The content of `pkg_root`, and of a package, is the set of revisions
whose files it holds; this is what tells a stale or empty package from a good
one.  `repo` and `inst` hold packages as version and content.  `stack` is the
recursion of make: a package whose dependencies are wanted pushes an install of
each (`InstallDep`).  One action is one target: `Start`, `DepsDone`, `Download`,
`Verify`, `Build` (autoconf and make, whose `.stamp_build_%` always reruns),
`BuildCustom` (whose stamp does not), `Pack`, `Upgrade`.  make stops everything at
the first error (`Abort`).  `CleanUp` is one of the four cleaning targets, with the
files its patterns really match.  `Edit` moves a directory to another revision,
`Interrupt` and `DiskFull` are failures; a failing wget is part of `Download`.

### Service

`proc`, `term` and `late` are the processes: daemons, other programs that may
get a pid, those that have SIGTERM, those that have yet to write a pid file.  A pid that
is free is given out again, within a boot and after the next.
`pidfile`, `links`, `prio` are the files.  `sh` holds one record per shell: the
administrators' and the one of `rc`/`rc.shutdown`.  `InitScript` is `cc_start`,
`cc_stop` and `cc_restart` in the steps between which another process can run: look
(`CheckRunning`), `Spawn`, `ReadPid`, `Kill`, `RmPidFile`, `StopCmd`.  `Service` is
the command `service`; `Boot`, `RcService`, `RcLocal`, `Shutdown`, `Halt` are the two
rc scripts, which take the next link of the list they read at the start, in `ls`
or `ls -r` order.  `StartCmd` and `StopCmd` may fail.  `Die`, `Terminate`, `WritePidFile`,
`OtherProcess` and `PowerLoss` are the environment.  Files outlive `Off`; processes do not.

Two variables are auxiliary, and say what the properties leave out.  `excused` holds
the services that, since the boot, failed to start or stop, died, were commanded by an
administrator, or where a pid was mistaken: the pid file named another live process when
`cc_start` looked (`Mistaken`), or another service's script signalled the daemon.
`disturbed` holds those whose script looked at the pid file while something begun for the
service had not taken effect (`Settled`): the daemon had still to write the file, one
that had SIGTERM would still delete it, or another shell was between its own look and
the end of its command.  The scripts neither lock nor wait, so in these cases they
do go wrong, as the disagreements below describe; what is checked and proved is that
nothing else makes them go wrong.

### ElfHandles and ElfDesc

`ElfHandles` says what a client may rely on and no more: handles on things that
may lie in one another (`open`, `refs`, `up`), which are there as long as somebody
holds them or something in them, and are collected after that.

`ElfDesc` has the Elf structures (`live`, `elf` with the fields of the code), the
contents of files that are mapped or read (`images`), and `ready`, set by
`elf_version`.  Its actions are the calls: `ElfVersion`, `ElfMemory`, `ElfOpen`,
`ElfBegin` (which is `OpenObject`, `OpenMember` or `Activate`, by its third
argument), `ElfNext`, `ElfRand`, `ElfCntl`, `ElfEnd`.  A call is one step, for the
library has one thread, except `elf_end`: its loop from a member to the archive
around it is one `Release` per structure, with `ending` as the loop's variable.
Any allocation or system call may fail (`Fault`).  What parsing an object finds is
a parameter: `Kind`, `Size`, `First` and `Hdr`, the headers of the members by offset.
`StartLoop`, `LoopBegin`, `LoopNext`, `LoopEnd` and `LoopClose` are the client's loop
as `elf_next.3` prints it, with all other calls in between, also on the archive it
runs over.  `handles`, `lost` and `strays` are auxiliary: what the client holds, and
what the code leaks when it refuses an archive.

### ElfUpdate

The object under construction (`e`: header, program headers, sections with their
buffers, flags, and the contents of the file it was read from) and the file itself
(`file`), a sequence of abstract units in which headers take several.  `Begin`,
`End`, `GetEhdr`, `GetPhdr`, `NewPhdr`, `GetScn`, `NewScn`, `NewData`, `GetData`, `FdDone`
are calls; `Modify` changes data in place, and `Arrange` and `Move` are a client that
sets `ELF_F_LAYOUT` and chooses the offsets.  `UpdateNull` and `UpdateWrite` are
`elf_update`: `Resync` lays the object out, region by region (`InsertExtent`),
`Image` makes the bytes, `WriteElf` writes them, or unmaps, truncates, writes a part
and fails, or is killed.  What the object read before is gone from then on, but for its
size (`Gone`, `rawsize`).  A call works on a record `[e, how, ext, rc]`, where `how`
is "abort" when the code fails one of its own assertions: that ends the program
and is an outcome like any other.  `meant` and `meantPh` are auxiliary: what the
client wants each section to hold.

## Runs

| Run | Module | Question | Properties |
| --- | --- | --- | --- |
| `pkg_core` | `MCPkgTools` | two versions, one in two builds, and a second package that share a directory and a file, and an administrator's file; no failures | `TypeOK`, `NoOrphans`, `NothingSetAside`, `UpgradeKeepsSetup`, `LocalFilesStay`, `ActsAtOnce` |
| `pkg_crash` | `MCPkgTools` | two versions, a rebuilt archive of the same name, a symbolic link, a file whose name as a regular expression matches another file and not itself; any two interruptions | `ProvidedFilesPresent`, `SuccessMeansInstalled`, `OneVersionAfterUpgrade`, `UpgradeHasNoGap` |
| `pkg_roots` | `MCPkgTools` | two roots, and an archive that tar cannot extract | `OtherRootsUntouched` |
| `cfg_core` | `MCConfigFile` | three versions, every `NEW_FILE_ACTION`, edits, three crashes | `TypeOK`, `EditSaved`, `UpgradeDelivers`, `EditNotLost` |
| `build_core` | `MCPkgBuild` | a custom package that needs an autoconf one; two edits, clean, tidy, neat, a failed download | `TypeOK`, `PackagesHoldTheirVersion`, `ForcedRebuild` |
| `build_failing` | `MCPkgBuild` | upgrades and downgrades of the same, the custom one cleaning first, uninstalled at times; any two failures of any kind | `DependenciesInstalled`, `BuiltFromSources`, `InstalledIsCurrent` |
| `build_scrub` | `MCPkgBuild` | `make scrub`, `make reinstall` | `ForcedRebuild` is violated |
| `svc_boot` | `MCService` | boots and shutdowns with a plain service that may fail to start or stop, and a daemon that writes its pid file late and removes it on exit; an administrator makes and removes links, priorities change; pid files of the last boot, whose pids are given out again; one crash | `OrderKept`, `BootStarts`, `BootEnds`, `ShutdownEnds` |
| `svc_race` | `MCService` | two administrators stop and restart two daemons that write their pid files late, one of which removes it on exit, at any time; one crash | `TypeOK`, `OneDaemon`, `DaemonIsKnown`, `StopStops` |
| `elf_desc` | `MCElfDesc` | an archive with an inner archive, odd sizes, BSD names, empty and broken members; any calls beside the loop of `elf_next.3`, any failing | `TypeOK`, `HandlesAreCounted`, `ImagesStay`, `LoopInOrder`, `LoopEnds`, `Refines` |
| `elf_update` | `MCElfUpdate` | an object read, built or rewritten, laid out by the library or the client, with counts at the limits of their fields; the writing fails anywhere | `TypeOK`, `WrittenIsMeant`, `LibraryLayoutFits`, `NullForetells`, `RewriteKeepsFile` |
| `elf_extended` | `MCElfUpdate` | many program headers and few sections, written and read again | `SectionsAreCounted` is violated |

The scripts and tools never stop: every command ends at a prompt where another
can be given, so their runs check for deadlock.  The `elf_*` runs bound the calls
of a client and do not.

### Bounds, and why they are enough

- **PkgTools.**  The rules of the tools compare a path with the lists of the other
  entries and a name with the names of the other entries.  Two versions, one
  package beside them, one path that all share, one that only one version has and
  one directory that only the new version has give every case of the count (0, 1,
  more) for files and directories.  In `pkg_crash` one file is counted by its own
  line and one, `[l]`, by another's, which a link has.  `MaxFaults` = 2 in `pkg_crash` lets a command
  that meets debris be interrupted itself, which is what it takes to reach the
  nested entry.  In `pkg_roots` the two roots are independent but for what a
  misdirected call does, so one failure and two small versions suffice; that files are
  kept in every root, also when tar fails, is proved (`FilesAreKept`).  No run
  bounds the number of commands.
- **ConfigFile.**  Of three versions two ship the same file, so that an upgrade
  may or may not bring a change.  Two edits distinguish the last from the one
  before.  Three crashes exceed the two steps of REPLACE.
- **PkgBuild.**  Three revisions of two versions (`build_core`) have an edit with
  and one without a change of version; `build_failing` goes both ways between two.
  One dependency makes the recursion two levels deep; the rules do not depend on
  the level.  `MaxFailures` is 1 and 2.
- **Service.**  Two services for the order, two priorities so that a service can
  have two links; two pids let one daemon replace another while that one still ends, and
  let a pid of the last boot be another program's.  Of the two shells that race a third
  would do no more: what it finds is what one of them has left.  `MaxCrashes` = 1: one
  death or loss of power, at any point.  Boots and shutdowns are unbounded.  `svc_boot` has
  the order of services and `svc_race` the daemons, because the two together exceed what
  TLC can do; the theorems are about both at once.

- **ElfDesc.**  Four structures are an archive, an archive in it, a member of that,
  and one beside them: closing in every order needs no more.  `MaxCalls` = 4 calls
  beside those of the loop, which are bounded by the archive.  The instance has
  each kind of member: odd size, BSD name, archive, broken archive, empty, broken.
- **ElfUpdate.**  `PnXnum` = 2 and `LoReserve` = 4 stand for 0xffff and 0xff00, so
  that two program headers and a third section beside the first two pass the limits.  The file
  that is there has its section header table between its sections.  `MaxCalls` = 7
  is a rewriting with three changes and a second `elf_update`; from an empty object,
  a section, its data, the header and two updates.

The largest runs have 7.5 million distinct states (`svc_race`), 6.9 million (`pkg_crash`)
and 3.0 million (`elf_update`).

### What the passing runs leave open

Each of these is a parameter of the model, set so in the run for a reason:

- `pkg_crash` has no `NoOrphans` and no `NothingSetAside`: an interrupted
  installation does leave paths that nobody lists.  It has no `ActsAtOnce` either: an
  interrupted upgrade leaves both versions, an interrupted removal a part of one.
- `OtherRootsUntouched` is checked where no interruption has left `P@oldpkg` in `/`;
  with one, `installpkg -r -d ROOT` removes that entry of `/`.
- `UpgradeHasNoGap` and `SuccessMeansInstalled` hold only where tar does not fail, and
  they and `ProvidedFilesPresent` speak of files in `Countable`.
- `build_core` uses `clean`, `tidy` and `neat` but no `scrub` and no interruption,
  and the dependencies do not change with the revision (see below).
- `OneDaemon`, `DaemonIsKnown` and `StopStops` leave out the services in `disturbed`,
  `OrderKept` those in `disturbed` and `excused`, and `BootStarts` those in `excused`.
  Neither set is a parameter: both start empty at each boot and grow by the events
  described above only, and in both runs these events do happen.
- `LoopInOrder` is about a client that does not steer the same archive with
  `elf_rand` or `elf_next` in between (`whole`).  `LoopEnds` is about a client that moves
  the archive of its loop only finitely often (`Steers`).  One that calls `elf_rand` back
  in each round never ends; in the run `MaxCalls` makes every client stop, so that the run
  shows that from wherever it was left the loop ends.
- `WrittenIsMeant` excepts what the library has misread (`misread`: data that `elf_getdata`
  read after the client or `elf_update(ELF_C_NULL)` had moved the section, and the counts of
  `elf_extended`), and a second `elf_update` of a descriptor of `ELF_C_WRITE`.  It says that
  sections are aligned only where the library lays the object out.  `NullForetells` is about `ELF_C_WRITE`: see the
  disagreements below for what happens otherwise.
- The client of `ElfUpdate` does not open, or go on with, a file that is incomplete or has
  more sections than `MaxScns` (`Readable`): what `elf_update` leaves when it is
  interrupted is malformed input, which the model leaves out.

### Fairness

`Service` states fairness in `FairSpec`, used by `svc_boot`: weak fairness of
each shell's `InitScript`, and of `RcService`, `RcLocal` and `Halt`.  A shell that has
a command to run is scheduled by the kernel, and each of these actions is one
command of a sequential script that waits for nothing; the assumption behind it is
that `StartCmd` and `StopCmd` return, with success or without.  Daemons need not write or remove pid files,
need not exit on SIGTERM, and administrators need not do anything.

`ElfDesc` assumes weak fairness of `Release` (the loop of `elf_end` is sequential
code) and of `Loop` (the client that has begun the loop of `elf_next.3` goes on with
it).  No other call has to happen.  `ElfHandles` assumes that what nobody holds is
collected, which `ElfDesc` has to show.

The package tools, the build and `elf_update` make no promise that is not
conditional on their end, so their specifications are without fairness.

### Refinement

`PkgTools!Db` is `PackageDb` with what stands in the database of `/` for `db`.  A package
stands there with the list of its entry, unless its removal has begun (`torn`).  While an
archive is being unpacked its package stands with the entry that was set aside, if
any, whatever the half-made new one holds; from `WriteContents` on the versions that
`upgradepkg` has still to remove (`Superseded`) do not count.  So `WriteContents` is the
one step in which an installation or upgrade takes effect, and `Douninst` that of a
removal; `want` is what the command has still to do before that step, `asked` the command
and its operand, `status` its exit status.  TLC checks `ActsAtOnce`, that every behaviour
of `PkgTools` is one of `PackageDb`; `CommandsAreAtomic` proves it.

`ElfDesc!Handles` is `ElfHandles` with the structures somebody knows of for `open`,
the client's handles for `refs`, and the archive a member lies in for `up`.  TLC
checks `Refines`, that every behaviour of `ElfDesc` is one of `ElfHandles`, with its
liveness; `Implements` proves the safety part for every instance.

## Disagreements with the documentation

Two have a run that shows them (`PROJECT.json`, findings):

- `build_scrub`: the pattern `.stamp_*build` does not match `.stamp_build_<full name>`,
  so after `make scrub` a custom package is packed from an empty `pkg_root`.
- `elf_extended`: with `PN_XNUM` program headers or more and fewer than
  `SHN_LORESERVE` sections, `_libelf_load_extended` takes the number of sections from
  `sh_size` of section 0 (`libelf_ehdr.c:81`), where `_libelf_setshnum` did not put it:
  the library reads its own file as one without sections.

Others met while modelling have no run of their own; most of them the models
reproduce when their parameters are set so.  In the scripts:

- `installpkg -r -d ROOT` runs `removepkg` without `-d` (`installpkg:131`), so the copy
  that was set aside stays in ROOT for ever.
- `installpkg` exports `do_upgrade`, `removepkg:109` looks at `do_upgradepkg`: a
  reinstallation runs the old `douninst.sh` after the new `doinst.sh`.
- `restart` of a service whose daemon has died fails at `kill` and never starts it.
- `rmdir -p` in `removepkg_rmdir` removes parents without counting who provides
  them: an empty directory of a skeleton package goes with the last package that
  had something in it.
- `[ -d ]` follows links: a symbolic link to a directory is removed by neither
  loop of `removepkg` (`removepkg:119`); a path such as `bin/[` is no valid regular
  expression and is never removed (`removepkg:25`).
- A path such as `a[1]` matches `a1` and not itself.  An upgrade from a version with both
  to one with `a[1]` counts one line, that of `a1`, and deletes the `a[1]` that the new
  version provides (`removepkg:25-27`), where the usage text excepts files that other
  packages provide (`removepkg:50-51`).
- After a failing tar, `upgradepkg` goes on to remove the old version.
- `make tidy` after an interrupted packing leaves a custom package's build stamp
  beside a removed `pkg_root`.  `.stamp_dependencies` has no version, so the
  dependency that a revision adds is not installed before a build.
- A second REPLACE overwrites `f.old`, the user's file.  When a package *begins* to
  use `preserve-file`, `removepkg` of the old version deletes the edited `f`.
- `/run` is on the root file system, so a pid file outlives a loss of power, and a
  process that gets the pid hides the service from `rc`, which reports that it is
  already running (`common-core:63-68`); `stop` sends that process SIGTERM.
- `restart` starts the new daemon while the old one still ends.  If the old one removes its
  pid file on exit, and that is the new one's by then, nothing names the daemon that runs:
  `status` says no, `stop` says "Not Running" with status 0, `start` runs a second one.
- `stop` straight after `start` of a daemon that writes its pid file late finds no file,
  and ends with status 0 while the daemon goes on (`common-core:81`).  `start` straight after
  `start` runs a second daemon; two links of one service have `rc` do so at boot.
- When the `StopCmd` of a service fails (`common-core:84-89`, as
  `util/iptables/iptables:19` does), rc.shutdown goes on, and stops what that service needs.
- `service httpd disable` also removes the link of `lighttpd` (`EndsWith`).
- rc.shutdown runs `rc.local.shutdown`; its own comment and the README of rc.d call
  it `rc.shutdown.local` (`LocalScripts`).

In libelf, as outcomes of calls that `ElfDesc` and `ElfUpdate` have:

- On a file that was read, `elf_update(ELF_C_NULL)`, or an `elf_update` that failed,
  clears `LIBELF_F_SHDRS_LOADED` (`elf_update.c:1245`) and leaves the sections; the next
  `elf_update`, or `elf_getscn`, fails the assertion in `elf_scn.c:113`, contrary to the
  comment in `elf_scn.c:215-217`.
- A second `elf_update(ELF_C_WRITE)` on a descriptor of `ELF_C_WRITE` writes section
  headers that were never filled in; `elf_newscn` after that aborts.
- An untouched section that an earlier one pushes past the old end of the file
  cannot be written: `elf_update` returns -1.
- With `ELF_F_LAYOUT`, an `sh_size` greater than the data fails the assertion in
  `elf_update.c:1085`; `elf_getdata` of an empty section and `elf_newdata` after it lead
  to the one in `elf_update.c:821`.
- With `ELF_F_LAYOUT`, a section of a file that was read, and whose data were not, is
  written at whatever offset the client gave it: `elf_update.c:175` skips the checks of
  lines 279-285, where `elf_update.3:298-302` has `ELF_E_LAYOUT` for sections that are
  incorrectly aligned.  So `WrittenIsMeant` leaves alignment to that client.
- In a file opened `ELF_C_RDWR`, a new section with neither data nor `sh_addralign`
  makes `elf_update` fail.
- `elf_getdata` after `sh_offset` has moved returns the bytes at the new offset.
- `elf64_getphdr` of an object without program headers aborts (`libelf_phdr.c:78`).
- `elf_begin` with `ELF_C_RDWR` and a descriptor is refused, where `elf_begin.3` says
  that its activation count is incremented.
- The loop of `elf_next.3` stops at an empty member (`libelf_ar.c:280`).

By reading only, in error paths: `e_ehdr` stays set when `_libelf_ehdr` fails
(`libelf_ehdr.c:190`); an archive refused for `ELF_C_RDWR` leaves its contents mapped
(`libelf_open.c:239`, the `strays` of `ElfDesc`); an archive that cannot be parsed
leaves its structure (`libelf_ar_util.c:359`, the `lost`); after a failed write
`e_rawfile` points at what was unmapped, and the file is cut short.

## What is proved

`PkgToolsProofs`, from the assumptions named in `PkgTools` (`RootAssumption`,
`PackageAssumption`, `PathAssumption`, `ShipsAssumption`, `HitsAssumption`: directories
form a tree, an archive has the directories above its paths; of what a path matches
only that it is a set of paths), for any number of packages, roots, paths and faults:

- `TypeCorrect`: `Spec => []TypeOK`.
- `FilesAreKept`: `Spec => []ProvidedFilesPresent`.  A file in `Countable` that an installed
  package lists is on disk, after any commands, interrupted anywhere.  The property is
  not inductive: nothing in it says that the loop of `removepkg` works on an entry
  whose removal has begun, nor that what extraction claims to have created is
  there.  `RemovalInv` adds both, and that entries that do not exist have no
  lines; with `TypeOK` and `ProvidedFilesPresent` it forms `Inv`.  The heart is
  `RmFile`: if a path is deleted, `Lines` was a single line; a package that still
  lists the path contributes a line of its own, and the entry being removed
  contributes one, so they are the same entry, which is torn.  This is where
  `Countable` is needed: the name must match itself if it matches anything, and a name
  that matches others, too, is only deleted less.  `RmDir` removes directories, which the property excepts.
- `LocalFilesAreKept`: `Spec => LocalFilesStay`.  A file that no package ships is
  never deleted.  `NoLocalLines` (no list names such a file) is added to `Inv`: the
  loops of `removepkg` visit lines of the list only, by `RemovalInv`, and
  `rmdir` takes directories.

- Four theorems on upgrades, from the hypothesis that tar does not fail, whatever
  is interrupted.  `NewStays` is the invariant common to them: when a command gets
  to its removals, the new entry is complete and unmarked, and is none of the entries
  to be removed.  `NoGap`: `Spec => UpgradeHasNoGap`, for what the loops delete is found
  on one line, so not also in the new entry.  `SetupIsKept`: `Spec => []UpgradeKeepsSetup`,
  where `SetupStays` adds that a removal inside an upgrade always has `do_upgradepkg`.
  `SuccessIsReal` and `OneIsLeft`, in a single root: `Spec => []SuccessMeansInstalled`
  and `Spec => []OneVersionAfterUpgrade`.  Their invariant says where every other
  entry of the name can be at each step (`OldsSeen`): set aside, in `olds`, or being removed; and
  that a nested copy has one around it, which takes it along (`NestedInOld`).  The
  single root is needed: see `installpkg:131` above.
- `NothingIsLeftAside`, in a single root where no command is interrupted:
  `Spec => []NothingSetAside`.  The invariant `SlashTidy` says of each step of a command
  what may be set aside in `/` then: nothing, or the entry that it still has to remove.
- `CommandsAreAtomic`, in a single root without failures: `Spec => ActsAtOnce`, the
  refinement above, one lemma per step.  It rests on `NewStays`, `OldsSeen` and `SlashTidy`
  and adds `DbInv`: the only entry that is marked is the one being removed; the old versions
  are all there until their turn comes, so that no call of `removepkg` within a command
  can fail; a removal by the user is of an entry under its package's own name.
- `OtherRootsAreLeft`, where no command is interrupted, for any number of roots:
  `Spec => OtherRootsUntouched`.  It rests on `SlashTidy`, too: the removals that
  `installpkg` runs without `-d` find nothing in `/` to work on.
- `NothingIsOrphaned`, from `Tidy` (a single root, no failures, no links, names that match
  only themselves): `Spec => []NoOrphans`.  `OrphanInv` adds to `SlashTidy` that lists
  have the directories above their paths (`ListsClosed`), that an entry that is being
  unpacked lists nothing (`ListsNothingYet`), that each path is explained by a list, by
  what is being unpacked or by what the removal has not visited yet (`Explained`), and
  in which order it visits directories (`Visited`).  The conditions are
  needed: matching too much, a link in the way or an interruption leaves files behind.

`ConfigFileProofs`, from `ConfigAssumption`:

- `TypeCorrect`: `Spec => []TypeOK`, with the gap between the renames of REPLACE in
  the invariant.
- `EditsAreSaved`: if every version preserves the file, `Spec => EditSaved`.
- `KeepLosesNoEdit`: if every version preserves the file, `Spec => []EditNotLost`,
  by an invariant that adds that a run is a KEEP run as long as an edit is held.

- `UpgradesDeliver`: if every version preserves the file, `Spec => UpgradeDelivers`.
  The invariant says what each step of the upgrade finds: the new version's file at
  `f.new` until install-new-file has run, at `f` or `f.new` after that.

The hypothesis `Preserved = Releases` is what `RemoveOld` needs: all versions list
`f.new`, so the removal of an old one never touches `f`.  Without it all three are false.

`PkgBuildProofs`, from `BuildAssumption`.  `IInv` is `TypeOK` and four facts about the
makes in progress: verified archives are on disk, one version of a package is
installed at most, all makes on the stack belong to one command, and the package
that `upgradepkg` is about to install is there.

- `TypeCorrect`, and `Sources` and `Current`: `Spec => BuiltFromSources` and
  `Spec => InstalledIsCurrent`, for any packages, depth of dependencies, edits and failures
  of any kind.
- `Holds`: without `scrub`, and with failures of the network only,
  `Spec => []PackagesHoldTheirVersion`.  The property is not inductive, for a stamp may
  outlive what it stands for; `HoldInv` adds that a make that gets as far as making has
  nothing packed, that one that packs has its own revision in `pkg_root`, and that the
  build stamp of a custom package goes with a package that is packed, or is packed
  next.  Both hypotheses are needed: `build_scrub` and an interrupted
  packing are the counterexamples.
- `Rebuilds`: under the same conditions, `Spec => ForcedRebuild`.  `FreshPacked` says
  that of a package that was cleaned and not edited since, what is packed under the version
  of the source tree was packed from the source tree as it is.

- `Needed`: if dependencies do not change with the revision and no dependency is
  uninstalled, `Spec => []DependenciesInstalled`.  The invariant says of every make on the
  stack what it has still to see to: at "deps", that what is missing is either left in
  its list or what the make above it is installing; at "make" and after, that nothing
  is missing (`MakesGood`); and that the stamps of the dependencies tell the truth
  (`StampsTrue`).

`ServiceProofs`, from `ServiceAssumption`.  `IInv` is `TypeOK` with what the steps of the
init script (`ShellsOK`) and the pid files (`PidsOK`) are.

- `TypeCorrect`: `Spec => []TypeOK`.
- `Starts`: `Spec => BootStarts`, for any number of administrators, crashes and pids, which
  are given out again at will.  `BootInv` adds that no script runs while the machine is
  off, and, during the boot, that each enabled service is in the list rc has left, or being
  started, or running, or excused (`BootOK`).  That a stale pid file is no obstacle in
  itself is the step `CheckRunning`: either the process it names is there and is the
  daemon, or it is there and is not, which excuses the service, or rc starts it.

`DaemonProofs` extends it, from the same assumption: any daemons, late or removing, any
number of administrators, pids given out again.  `One`: `Spec => []OneDaemon`.
`KnownDaemon`: `Spec => []DaemonIsKnown`.  `Stops`: `Spec => StopStops`.  The invariant
`DaemonInv` says of each service that is not disturbed that it is `Sound`: one daemon goes
on, which the file names once it is written, and no other is left that will write
or delete the file (`Daemons`); one script at a time is past its look at the file, and
what it found holds (`Found`): that there is no daemon, at "spawn"; that the pid is that of
the daemon, if there is one, at "kill".  A look that finds the service `Settled` makes
`Found` true (`Spawn` and `Kill` need no more), one that does not disturbs the service.
So the three say that restarts, deaths, losses of power, stale files, pids that were given
out again and daemons that are slow do no harm by themselves, only a command that comes
before the last one has taken effect, or a signal that is meant for another service.

`Order`: `Spec => []OrderKept`, as unconditionally.  The property says of each pair of
services that the later one does not run without the first.  `OrderInv` adds to
`DaemonInv` where rc and rc.shutdown stand in their lists (`Ordered`), that what is
enabled runs when rc has ended (`UpOK`), and that their scripts only start at boot and only
stop at shutdown (`ScriptsInv`), for the services that are neither excused nor
disturbed.

`ElfDescProofs`, from `ElfDescAssumption`:

- `TypeCorrect`, `CountsAreExact` (`Spec => []HandlesAreCounted`) and `Implements`, from
  `IInv`: the counts, with what the client's loop holds (`LoopCounted`), and that lost
  structures lie in nothing and archives were parsed (`Sound`).  The work is in
  `BornSound`, `RetainSound`, `EndSound` and `ReleaseSound`: what a new member, another
  activation, a handle given back and one round of `elf_end`'s loop do to the counts,
  cardinalities of children included.
- `ContentsStay`: `Spec => []ImagesStay`, without further conditions.  Each contents that
  is mapped has one owner, and a member points into what its archive points into
  (`Inherited`).  That is not enough: a set of archives that are members of each other
  would be consistent with it.  `Rooted` excludes it (no set of descriptors is
  closed under "parent"), and takes the place of an induction over depth.  `OwnerAlone` is the step: when `elf_end` unmaps, nobody else points there.
- `MembersInOrder`: `Spec => []LoopInOrder`, for archives that are as ar(1) writes them
  (`WellLaid`: the headers are chained one behind the other, and there are no more
  members than the loop counts).  The invariant says where the archive's next header is
  between `elf_begin`, `elf_next` and `elf_end` (`Standing`) and that all headers before
  it are written down (`Reached`), whoever else opens and closes members meanwhile;
  `Readers`: archives are open for reading.

`ElfUpdateProofs`, from `ElfUpdateAssumption` (headers have a size, buffers an alignment,
files and buffers hold units, buffers none that were never written, and `None` and `Gone`
are neither headers nor contents):

- `InsertKeepsOrder` (`_libelf_insert_extent` keeps regions ascending and apart, and
  loses none) and `LibraryInserts` (a region placed behind all others after rounding
  is never refused, for any alignment and size), about any list of regions.
- `LayoutFits`: `Spec => []LibraryLayoutFits`, for every file, object and sequence of
  calls.  The inductive invariant is `LayoutInv`: the file holds units and the descriptor
  is one (`Opens`).  It needs the type of every intermediate state of a call: in `Goods`
  the regions placed so far are apart and end at `rc`, those of sections belong to
  sections that exist, and "layout" is the outcome only where the client does the
  layout; in `Readies` the object has its header, too.  One lemma for each function of
  the code (`LoadShdrsType`, `ComputeExtentsType`, `InsertType`, ..., `ImageType`) says that it
  stays there, and one for each call (`...Keeps`) that it keeps the invariant.
- `RegionsStayApart`: `Spec => []RegionsAreApart`.  In every state the regions that
  `elf_update` would write are apart and within the new image, also those that the client
  has placed, if it accepts them.
- `NullTells`: `Spec => []NullForetells`.  Laying out is idempotent: the lemmas `...Twice`
  and `...Again` say of each part of `Resync` that, done to its own result, it changes
  nothing but the headers' counts and offsets, which nothing else of it reads where the
  library does the layout; and that the image depends only on what stays the same.
- `TypeCorrect`: `Spec => []TypeOK`, with the invariant `TypeInv`: `Shaped` says which
  sections an object has between calls, whether its table is loaded, not loaded, or in
  part, and that the counts come from the file unless they were misread.  `SameShape` is
  what every part of a call but the loading keeps.

`ElfWriteProofs` extends it, from the same assumption:

- `WrittenAsMeant`: `Spec => []WrittenIsMeant`.  The property speaks of one moment, when the
  file has been written; its invariant is `MeantInv`, which says between any two calls
  what the object is, in terms of what the client means by it (`Means`).  An object without a
  header is what its file holds (`MeansFile`), or is empty.  One with a header
  (`MeansObject`) has the program headers that are meant, or finds them in the file;
  either it has all sections, or none is loaded and the file holds them.  A section is meant
  (`ScnMeant`) if its buffers join to the contents (`JoinMeant`), or if it has none and its
  old place in the file has them.  This lapses where the property excepts: once
  something was misread, or a descriptor opened with `ELF_C_WRITE` has written.
  `Alike` is the equality of contents but for filling, with the first units the same, so that
  the client may change the first unit of what it has read.
  There is a lemma for each call (`...Meant`), and for each part of `elf_update`:
  `ResyncMeant` (what is loaded, laid out and counted is still what is meant, in its place),
  `ImageMeant` (by a loop over the regions: each is written as `WriteDataForm`,
  `WriteShdrsForm` and the others give it, and nothing written later touches it, because
  regions are ascending), `FileRead` (reading that image, extended counts included, gives the
  headers and contents back), and `ConformsHolds`, the property of the file.  The conditions
  of the property are what the proof needs at the places they are about: `misread` in each
  lemma that reads, the section 0 for `PN_XNUM` program headers in `Refused`.

The loops over buffers, sections and regions are recursive functions over 0..n.  The
library's induction theorems take an operator as a parameter, which the provers cannot
instantiate; `Induction` is therefore derived from well-foundedness for a *set* of numbers.
`Recursion` shows with it that a function defined by recursion exists if its steps stay in
a set, and `LoopKeeps` that its values are in the set then.  What a loop computes is
said by its recurrence (`DataLoop`, `ShdrsLoop`, `ImageLoop`), and followed with an invariant
over 0..n where it matters (`Steps`).

### Only model-checked

- Liveness: `BootEnds`, `ShutdownEnds`, `LoopEnds`, and the fairness of `Refines`.
- Of `ElfUpdate`: `RewriteKeepsFile`.  It needs that a file which the library has laid out
  is what laying out the object read from it gives, to the unit, for every way in which
  that object may be loaded in part; `WrittenAsMeant` compares contents without filling.

## What is abstracted, and what is not modelled

- Contents of files are model values; so are names.  Printing, usage messages and
  the README a package shows are left out.
- One package command runs at a time.  The tools take no lock, and nothing in the
  code protects a command from another one, so there is no property to check.
- `upgradepkg` is one step in `PkgBuild`; makepkg is one step, `update-repo-metadata`
  is left out.  Parallel make is left out.  After an interrupted `upgradepkg`, `make
  install` finds the entry of the package and does nothing.
- `RestartCmd` and `ReloadCmd` are set by `iptables` and `ip6tables` only
  (`util/iptables/iptables:26-27`), both to the `StartCmd` of a plain service: such a restart
  is a `start`.  A `StopCmd` for a service with a pid file is only in the sample script.
  `reload` and `status` change nothing else of the model.  The loop `service all` repeats
  single commands.
- Mounting, module loading, mdev, host name: single commands of `rc` without later
  effect on the modelled state.
- libelf: the translation of data between byte orders (generated by m4 at build
  time), the `gelf_` accessors, error numbers, the symbol tables and names of
  archives, `elf_rawdata`, string tables, malformed objects (only that they are
  refused), special files, and which of several allocations in one call fails.
- Package groups (`dir.mk`) are recursion without state, and the bootstrap is a
  chain of stamps that does once what `PkgBuild` does repeatedly.  `genfstab`, the
  network scripts, `sysconfig` and `insignia` transform text or call one program; their
  behaviour is that of awk, iptables, openssl.  Images, boot loader installation and
  `hardening-check` have no state of their own.
- Nearly all lines of the repository that look like code are headers of other
  people's kernels (`util/cross-tools`), patches and generated configurations, which
  contain no behaviour of Fidelix.

## What is left

In the order of what it would add: a proof of `RewriteKeepsFile`; `PkgBuild` composed with
`PackageDb`, whose `upgradepkg` it takes as one step; archive symbol tables.
