------------------------------- MODULE ElfDesc -------------------------------
(***************************************************************************)
(* Descriptors of libelf: elf_begin, elf_memory, elf_open, elf_openmemory, *)
(* elf_next, elf_rand, elf_cntl and elf_end, over ELF files, ar(1)         *)
(* archives and their members, archives within archives, and files of no   *)
(* known format.                                                           *)
(*                                                                         *)
(* An object is what a file or a part of the client's memory holds; what   *)
(* parsing it yields is a parameter.  Offsets and sizes are those of the   *)
(* code.  The library has one thread: a call is one step, except elf_end,  *)
(* whose loop over the parents is one step per descriptor, and during      *)
(* which nothing else runs.  The error number that a failed call leaves is *)
(* left out.                                                               *)
(*                                                                         *)
(* The client makes any calls with descriptors it holds handles for, among *)
(* them the loop of elf_next.3 over the members of an archive.             *)
(***************************************************************************)
EXTENDS Integers, Sequences, FiniteSets

CONSTANTS
  Ids,       \* places for Elf structures
  Images,    \* places for the contents of a file, mapped or, failing that, read
  Fds,       \* file descriptors
  None,
  Objs,      \* objects
  FileObj,   \* FileObj[fd]: the object in the file that fd is open on
  Memory,    \* objects in the client's memory
  Kind,      \* Kind[o]: "elf", "badelf", "ar", "badar", "data", "empty", "dir"
  Size,      \* Size[o]: in bytes
  First,     \* First[o]: offset of the first member that is not special
  Hdr,       \* Hdr[o]: the member headers that can be read, by their offset:
             \* size field, length of a BSD name after the header, contents
  MaxCalls,  \* bound on the calls that do something, beside the loop's
  MaxSeen    \* bound on the members that the loop writes down

SARMAG == 8
ArHdr == 60   \* sizeof(struct ar_hdr)
Kinds == {"elf", "badelf", "ar", "badar", "data", "empty", "dir"}
Header == {h \in [len : Nat, skip : Nat, obj : Objs] : h.skip <= h.len}

ASSUME ElfDescAssumption ==
  /\ None \notin Ids /\ None \notin Images /\ None \notin Fds /\ None \notin Objs
  /\ FileObj \in [Fds -> Objs] /\ Memory \subseteq Objs
  /\ Kind \in [Objs -> Kinds] /\ Size \in [Objs -> Nat] /\ First \in [Objs -> Nat]
  /\ \A o \in Objs : /\ DOMAIN Hdr[o] \subseteq Nat \ {0}
                     /\ \A n \in DOMAIN Hdr[o] : Hdr[o][n] \in Header
  /\ IsFiniteSet(Ids) /\ MaxCalls \in Nat /\ MaxSeen \in Nat

VARIABLES
  ready,    \* elf_version has been called
  live,     \* the Elf structures that are allocated
  elf,      \* elf[d]: the structure at d
  images,   \* contents of files that are mapped or allocated
  handles,  \* auxiliary: how many handles for d the client has
  lost,     \* auxiliary: structures of archives that could not be parsed
  strays,   \* auxiliary: contents of archives refused in ELF_C_RDWR mode
  ending,   \* the descriptor at which the loop of elf_end is, or None
  loop,     \* the client's loop over an archive
  calls     \* number of the other calls that did something

memory == <<live, elf, images>>
ghosts == <<handles, lost, strays>>
vars == <<ready, memory, ghosts, ending, loop, calls>>

Elf == [kind : {"none", "elf", "ar"}, cmd : {"read", "rdwr", "write"},
        fd : Fds \cup {None}, activations : Nat, obj : Objs \cup {None},
        image : Images \cup {None}, rawfile : {"owned", "borrowed"},
        parent : Ids \cup {None}, off : Nat, size : Nat,
        nchildren : Nat, next : Nat]

Blank == [kind |-> "none", cmd |-> "read", fd |-> None, activations |-> 0,
          obj |-> None, image |-> None, rawfile |-> "borrowed", parent |-> None,
          off |-> 0, size |-> 0, nchildren |-> 0, next |-> 0]

Idle == [at |-> "idle", ar |-> None, e |-> None, cmd |-> "read",
         seen |-> <<>>, whole |-> FALSE]

Init ==
  /\ ready = FALSE /\ live = {} /\ elf = [d \in Ids |-> Blank] /\ images = {}
  /\ handles = [d \in Ids |-> 0] /\ lost = {} /\ strays = {}
  /\ ending = None /\ loop = Idle /\ calls = 0

Children(d) == {m \in live : elf[m].parent = d}

-----------------------------------------------------------------------------
(* What is common to the calls.                                            *)

\* The client may call: one thread.
Call(who) == ending = None /\ (who = "client" => calls < MaxCalls)
Count(who) == calls' = IF who = "client" THEN calls + 1 ELSE calls

\* The handles for d that the loop will give back itself.
LoopHolds(d) == (IF loop.ar = d THEN 1 ELSE 0) + (IF loop.e = d THEN 1 ELSE 0)

\* malloc gives any free place; which one makes no difference.
Place == CHOOSE d \in Ids \ live : TRUE
ImagePlace == CHOOSE i \in Images \ images : TRUE

\* The kind of the descriptor that _libelf_memory makes of o, "null" when it
\* is refused, "lost" when the structure is not even freed.
Parsed(o, reporterror) ==
  CASE Kind[o] = "elf" -> "elf"
    [] Kind[o] = "ar" -> "ar"
    [] Kind[o] = "badelf" -> IF reporterror THEN "null" ELSE "none"
    [] Kind[o] = "badar" -> IF reporterror THEN "lost" ELSE "none"
    [] OTHER -> "none"

\* Where elf_begin returns to: with d, or with None for NULL.
Return(who, d) ==
  IF who = "client" THEN UNCHANGED loop
  ELSE IF d = None THEN loop' = [loop EXCEPT !.at = "over"]
  ELSE loop' = [loop EXCEPT !.at = "next", !.e = d,
                  !.seen = IF loop.whole /\ Len(@) < MaxSeen
                           THEN Append(@, elf[loop.ar].next) ELSE @]

\* A call that returns NULL and leaves all as it was.
Refuse(who) == Return(who, None) /\ UNCHANGED <<memory, ghosts, calls>>

\* An allocation or a system call fails.
Fault(who) ==
  /\ loop' = IF who = "client" THEN loop
             ELSE [loop EXCEPT !.at = "over", !.whole = FALSE, !.seen = <<>>]
  /\ UNCHANGED <<memory, ghosts, calls>>

\* The new descriptor e at d, and the client's handle for it.
Give(who, d, e) ==
  /\ Count(who)
  /\ live' = live \cup {d}
  /\ elf' = [elf EXCEPT ![d] = e]
  /\ handles' = [handles EXCEPT ![d] = 1]
  /\ Return(who, d)

\* A descriptor that stays allocated though nobody gets it.
Lose(who, d, e) ==
  /\ Count(who)
  /\ live' = live \cup {d}
  /\ elf' = [elf EXCEPT ![d] = e]
  /\ lost' = lost \cup {d}
-----------------------------------------------------------------------------
(* Opening.                                                                *)

ElfVersion ==
  /\ ~ready /\ ending = None
  /\ ready' = TRUE
  /\ UNCHANGED <<memory, ghosts, ending, loop, calls>>

\* _libelf_allocate_elf, _libelf_memory: what a parsed object looks like.
Fresh(o, kind, sz) ==
  [Blank EXCEPT !.kind = kind, !.activations = 1, !.obj = o, !.size = sz,
                !.next = IF kind = "ar" THEN First[o] ELSE 0]

\* elf_memory, elf_openmemory
ElfMemory(o, reporterror) ==
  /\ Call("client")
  /\ LET k == Parsed(o, reporterror) IN
     \/ Fault("client")
     \/ /\ ~ready \/ Kind[o] = "empty" \/ k = "null"
        /\ Refuse("client")
     \/ /\ ready /\ Kind[o] # "empty" /\ Ids \ live # {}
        /\ \/ /\ k \in {"none", "elf", "ar"}
              /\ Give("client", Place, Fresh(o, k, Size[o]))
              /\ UNCHANGED <<images, lost, strays>>
           \/ /\ k = "lost"
              /\ Lose("client", Place, Fresh(o, "ar", Size[o]))
              /\ UNCHANGED <<images, handles, strays, loop>>
  /\ UNCHANGED <<ready, ending>>

\* The file can be read at all; one that is empty or a directory cannot.
Readable(fd) == Kind[FileObj[fd]] \notin {"empty", "dir"}

\* _libelf_open_object: a new descriptor for the file.  Mapping or reading
\* it, and the allocations, may fail.
OpenObject(fd, c, reporterror) ==
  LET o == FileObj[fd]
      k == Parsed(o, reporterror)
      opened == [Fresh(o, k, Size[o]) EXCEPT !.image = ImagePlace,
                   !.rawfile = "owned", !.fd = fd, !.cmd = c]
  IN
  \/ Fault("client")
  \/ /\ c = "write" /\ Kind[o] # "dir" /\ Ids \ live # {}
     /\ Give("client", Place,
             [Blank EXCEPT !.kind = "elf", !.activations = 1, !.fd = fd, !.cmd = c])
     /\ UNCHANGED <<images, lost, strays>>
  \/ /\ c # "write" /\ Readable(fd) /\ Ids \ live # {} /\ Images \ images # {}
     /\ \/ /\ k \in {"none", "elf", "ar"} /\ (k = "ar" => c # "rdwr")
           /\ Give("client", Place, opened)
           /\ images' = images \cup {ImagePlace}
           /\ UNCHANGED <<lost, strays>>
        \* elf_end before e_flags knows how the contents were obtained
        \/ /\ k = "ar" /\ c = "rdwr"
           /\ images' = images \cup {ImagePlace}
           /\ strays' = strays \cup {ImagePlace}
           /\ Count("client")
           /\ UNCHANGED <<live, elf, handles, lost, loop>>
        \* the contents are freed, the structure is not
        \/ /\ k = "lost"
           /\ Lose("client", Place, Fresh(o, "ar", Size[o]))
           /\ UNCHANGED <<images, handles, strays, loop>>

\* elf_open
ElfOpen(fd) ==
  /\ Call("client")
  /\ IF ready THEN OpenObject(fd, "read", FALSE) ELSE Refuse("client")
  /\ UNCHANGED <<ready, ending>>

\* The archive a counts its members.
Adopt_Uncounted(a, e) == elf' = [elf EXCEPT ![Place] = e]
Adopt(a, e) == elf' = [elf EXCEPT ![a].nchildren = @ + 1, ![Place] = e]

\* _libelf_ar_open_member: the member at a's e_next, in the contents of a.
OpenMember(who, c, a) ==
  LET n == elf[a].next
      h == Hdr[elf[a].obj][n]
      fits == /\ n # 0 /\ n \in DOMAIN Hdr[elf[a].obj]
              /\ n + ArHdr + h.len <= elf[a].size
      k == Parsed(h.obj, TRUE)
      member(kind) == [Fresh(h.obj, kind, h.len - h.skip) EXCEPT
                         !.fd = elf[a].fd, !.cmd = c, !.image = elf[a].image,
                         !.parent = a, !.off = n + ArHdr + h.skip]
  IN
  \/ /\ fits => h.len = h.skip \/ k = "null"
     /\ Refuse(who)
  \/ Fault(who)
  \/ /\ fits /\ h.len # h.skip /\ Ids \ live # {}
     /\ \/ /\ k \in {"none", "elf", "ar"}
           /\ live' = live \cup {Place}
           /\ Count(who)
           /\ Adopt(a, member(k))
           /\ handles' = [handles EXCEPT ![Place] = 1]
           /\ Return(who, Place)
           /\ UNCHANGED <<images, lost, strays>>
        \/ /\ k = "lost"
           /\ Lose(who, Place, Fresh(h.obj, "ar", h.len - h.skip))
           /\ Return(who, None)
           /\ UNCHANGED <<images, handles, strays>>

\* One more activation of an object that is not an archive.
Activate(who, a) ==
  /\ Count(who)
  /\ elf' = [elf EXCEPT ![a].activations = @ + 1]
  /\ handles' = [handles EXCEPT ![a] = @ + 1]
  /\ Return(who, a)
  /\ UNCHANGED <<live, images, lost, strays>>

\* elf_begin(fd, c, a)
ElfBegin(who, fd, c, a) ==
  /\ Call(who)
  /\ a # None => handles[a] > 0
  /\ LET given == IF c = "write" THEN None ELSE a
         refused == \/ ~ready \/ c = "null"
                    \/ given # None /\ c = "rdwr"
                    \/ given # None /\ elf[given].fd \notin {None, fd}
                    \/ given # None /\ c # elf[given].cmd
     IN
     \/ refused /\ Refuse(who)
     \/ ~refused /\ given = None /\ OpenObject(fd, c, TRUE)
     \/ /\ ~refused /\ given # None
        /\ IF elf[given].kind = "ar" THEN OpenMember(who, c, given)
                                     ELSE Activate(who, given)
  /\ UNCHANGED <<ready, ending>>
-----------------------------------------------------------------------------
(* Moving about in an archive.                                             *)

\* The offset in its archive behind the member e.
NextOffset_Odd(e) == elf[e].off + elf[e].size
NextOffset(e) == LET n == elf[e].off + elf[e].size IN n + (n % 2)

\* What elf_next(e) does to the archive, and what it returns.
MoveOn_Around(e) ==
  LET p == elf[e].parent IN
  elf' = [elf EXCEPT ![p].next =
            IF NextOffset(e) >= elf[p].size THEN First[elf[p].obj] ELSE NextOffset(e)]
MoveOn(e) ==
  LET p == elf[e].parent IN
  elf' = [elf EXCEPT ![p].next =
            IF NextOffset(e) >= elf[p].size THEN 0 ELSE NextOffset(e)]
MovedOn(e) == IF NextOffset(e) > elf[elf[e].parent].size THEN "null" ELSE "read"

\* The client steers the archive that its loop is about.
Disturbed(a) ==
  loop' = IF loop.ar = a THEN [loop EXCEPT !.whole = FALSE, !.seen = <<>>] ELSE loop

\* elf_next: an error for what is not a member
ElfNext(e) ==
  /\ Call("client") /\ Count("client")
  /\ handles[e] > 0
  /\ IF elf[e].parent = None THEN UNCHANGED <<elf, loop>>
     ELSE MoveOn(e) /\ Disturbed(elf[e].parent)
  /\ UNCHANGED <<ready, live, images, ghosts, ending>>

\* elf_rand, for offsets at which there is a header; others are refused
ElfRand(a, offset) ==
  /\ Call("client") /\ Count("client")
  /\ handles[a] > 0
  /\ IF /\ elf[a].kind = "ar" /\ offset % 2 = 0 /\ offset >= SARMAG
        /\ offset + ArHdr < elf[a].size
     THEN elf' = [elf EXCEPT ![a].next = offset] /\ Disturbed(a)
     ELSE UNCHANGED <<elf, loop>>
  /\ UNCHANGED <<ready, live, images, ghosts, ending>>

\* elf_cntl(e, ELF_C_FDDONE); ELF_C_FDREAD changes nothing
ElfCntl(e) ==
  /\ Call("client") /\ Count("client")
  /\ handles[e] > 0
  /\ elf' = [elf EXCEPT ![e].fd = IF elf[e].parent = None THEN None ELSE @]
  /\ UNCHANGED <<ready, live, images, ghosts, ending, loop>>
-----------------------------------------------------------------------------
(* Closing.                                                                *)

\* elf_end up to its loop
End(e) ==
  /\ elf' = [elf EXCEPT ![e].activations = @ - 1]
  /\ handles' = [handles EXCEPT ![e] = @ - 1]
  /\ ending' = IF elf[e].activations = 1 THEN e ELSE None
  /\ UNCHANGED <<live, images, lost, strays>>

ElfEnd(e) ==
  /\ Call("client") /\ Count("client")
  /\ handles[e] > LoopHolds(e)
  /\ End(e)
  /\ UNCHANGED <<ready, loop>>

\* One round of the loop of elf_end: an archive waits for its members.
Waits_Never(e) == FALSE
Waits(e) == elf[e].kind = "ar" /\ elf[e].nchildren > 0

\* Contents are given back with the descriptor they were obtained for.
Freed_Borrowed(e) == {elf[e].image}
Freed(e) == IF elf[e].rawfile = "owned" THEN {elf[e].image} ELSE {}

\* The descriptor p is released with its last member.
Onward_No(p) == None
Onward(p) == IF p # None /\ elf[p].activations = 0 THEN p ELSE None

Release ==
  /\ ending # None
  /\ IF Waits(ending)
     THEN /\ ending' = None
          /\ UNCHANGED <<memory, ghosts>>
     ELSE LET p == elf[ending].parent IN
          /\ images' = images \ Freed(ending)
          /\ live' = live \ {ending}
          /\ elf' = [d \in Ids |->
                       IF d = ending THEN Blank
                       ELSE IF d = p THEN [elf[d] EXCEPT !.nchildren = @ - 1]
                       ELSE elf[d]]
          /\ ending' = Onward(p)
          /\ UNCHANGED ghosts
  /\ UNCHANGED <<ready, loop, calls>>
-----------------------------------------------------------------------------
(* The loop of elf_next.3 over the members of an archive, with other calls *)
(* where it says "process `e' here".  It has its own handles for the       *)
(* archive and the member, and closes the archive in the end.              *)

StartLoop(a) ==
  /\ Call("loop") /\ Count("loop")
  /\ loop.at = "idle"
  /\ handles[a] > 0 /\ elf[a].kind = "ar"
  /\ loop' = [Idle EXCEPT !.at = "begin", !.ar = a,
                          !.whole = elf[a].next = First[elf[a].obj]]
  /\ UNCHANGED <<ready, memory, ghosts, ending>>

LoopBegin ==
  /\ loop.at = "begin"
  /\ ElfBegin("loop", elf[loop.ar].fd, loop.cmd, loop.ar)

LoopNext ==
  /\ Call("loop") /\ Count("loop")
  /\ loop.at = "next"
  /\ MoveOn(loop.e)
  /\ loop' = [loop EXCEPT !.at = "end", !.cmd = MovedOn(loop.e)]
  /\ UNCHANGED <<ready, live, images, ghosts, ending>>

LoopEnd ==
  /\ Call("loop") /\ Count("loop")
  /\ loop.at = "end"
  /\ End(loop.e)
  /\ loop' = [loop EXCEPT !.at = "begin", !.e = None]
  /\ UNCHANGED ready

LoopClose ==
  /\ Call("loop") /\ Count("loop")
  /\ loop.at = "over"
  /\ End(loop.ar)
  /\ loop' = Idle
  /\ UNCHANGED ready

Loop == LoopBegin \/ LoopNext \/ LoopEnd \/ LoopClose

Next ==
  \/ ElfVersion
  \/ \E o \in Memory, r \in BOOLEAN : ElfMemory(o, r)
  \/ \E fd \in Fds : ElfOpen(fd)
  \/ \E fd \in Fds, c \in {"null", "read", "rdwr", "write"}, a \in Ids \cup {None} :
       ElfBegin("client", fd, c, a)
  \/ \E e \in Ids : ElfNext(e) \/ ElfCntl(e) \/ ElfEnd(e) \/ StartLoop(e)
  \/ \E a \in Ids : elf[a].obj # None /\ \E n \in DOMAIN Hdr[elf[a].obj] : ElfRand(a, n)
  \/ Release
  \/ Loop

\* elf_end returns, and the client gets through its own loop.
Spec == Init /\ [][Next]_vars /\ WF_vars(Release) /\ WF_vars(Loop)
-----------------------------------------------------------------------------
(* What is checked.                                                        *)

\* Every variable keeps its type; in particular no count falls below zero.
TypeOK ==
  /\ ready \in BOOLEAN /\ live \subseteq Ids /\ elf \in [Ids -> Elf]
  /\ images \subseteq Images /\ handles \in [Ids -> Nat]
  /\ lost \subseteq live /\ strays \subseteq Images
  /\ ending \in Ids \cup {None} /\ calls \in 0..MaxCalls
  /\ loop.at \in {"idle", "begin", "next", "end", "over"}
  /\ loop.ar \in Ids \cup {None} /\ loop.e \in Ids \cup {None}
  /\ loop.cmd \in {"null", "read"} /\ loop.whole \in BOOLEAN

\* The descriptors that somebody knows of.
Known == live \ lost

\* elf_end's counts are those of the world: as many activations as handles,
\* as many children as open members, whose archive is there for as long as
\* they are; and what nobody has a handle for, nor a member of, is about to
\* be released.  So no descriptor is freed while it can be used, and none
\* is forgotten (elf_end.c, elf_begin.c, libelf_ar.c).
HandlesAreCounted ==
  /\ \A d \in Ids \ Known : handles[d] = 0
  /\ \A d \in Known :
       /\ elf[d].activations = handles[d]
       /\ elf[d].nchildren = Cardinality(Children(d))
       /\ elf[d].parent # None =>
            /\ elf[d].parent \in Known /\ elf[elf[d].parent].kind = "ar"
       /\ handles[d] = 0 => d = ending \/ Waits(d)
  /\ ending # None => ending \in Known /\ handles[ending] = 0

\* The contents that a descriptor points into are mapped as long as it is
\* open, those of a member through its archive; and each contents that is
\* mapped has one descriptor that will give it back, but for those of the
\* archives that ELF_C_RDWR was refused for (libelf_open.c, elf_end.c).
Owner(d, i) == elf[d].image = i /\ elf[d].rawfile = "owned"
ImagesStay ==
  /\ \A d \in Known : elf[d].image # None => elf[d].image \in images \ strays
  /\ \A i \in images \ strays : \E d \in Known :
       Owner(d, i) /\ \A x \in Known : Owner(x, i) => x = d

\* The loop of elf_next.3 gets the members in the order of their headers, none
\* twice and none left out, up to the first one that cannot be opened:
\* whatever else was opened and closed meanwhile (elf_next.c, libelf_ar.c).
Opens(a, n) ==
  LET h == Hdr[elf[a].obj][n] IN
  /\ n + ArHdr + h.len <= elf[a].size /\ h.len > h.skip
  /\ Parsed(h.obj, TRUE) \in {"none", "elf", "ar"}
InOrder(a) ==
  LET all == {n \in DOMAIN Hdr[elf[a].obj] : n >= First[elf[a].obj]}
      good == {n \in all : \A x \in all : x <= n => Opens(a, x)}
  IN {f \in [1..Cardinality(good) -> good] :
        \A i, j \in 1..Cardinality(good) : i < j => f[i] < f[j]}
LoopInOrder ==
  loop.at = "over" /\ loop.whole => loop.seen \in InOrder(loop.ar)

\* The client moves the archive of its loop with elf_rand, or with elf_next on
\* another member.
Steers ==
  /\ loop.ar # None /\ loop'.at = loop.at
  /\ elf'[loop.ar].next # elf[loop.ar].next

\* The loop ends, unless the client steers its archive again and again: wherever
\* elf_rand, or elf_next on a member of an earlier round, has left the place of the
\* next member, the walk from there on ends (elf_next.c).  A client that calls
\* elf_rand back in each round never ends.
LoopEnds == []<><<Steers>>_vars \/ (loop.at # "idle" ~> loop.at = "idle")

\* Descriptors behave as elf_begin.3 and elf_end.3 promise: an archive whose
\* last handle is given back stays for its open members, and is released
\* after them.
Handles == INSTANCE ElfHandles WITH
  open <- Known, refs <- handles,
  up <- [d \in Ids |-> IF d \in Known THEN elf[d].parent ELSE None]
Refines == Handles!Spec
=============================================================================
