----------------------------- MODULE ElfUpdate -----------------------------
(***************************************************************************)
(* An ELF object under construction or change: elf_getscn, elf_newscn,     *)
(* elf_newdata, elf_getdata, the new headers, and elf_update, which lays   *)
(* the object out and writes it, with the extents of elf_update.c and the  *)
(* extended numbering of sections and program headers.                     *)
(*                                                                         *)
(* A file is a sequence of units; a header takes several, the first of     *)
(* which stands for its fields.  Units are abstract: sizes and alignments  *)
(* of headers are parameters, translation to the byte order of the file is *)
(* left out, section types are those that the layout tells apart.  Each    *)
(* call is one step: the library has one thread, and what another program  *)
(* can see of the file in between is what a fault may leave.               *)
(***************************************************************************)
EXTENDS Integers, Sequences, FiniteSets

CONSTANTS
  None, Gone,
  EhdrSize, PhdrSize, ShdrSize, HdrAlign,   \* in units
  LoReserve,   \* SHN_LORESERVE
  PnXnum,      \* PN_XNUM
  Commands,    \* how elf_begin is called: "read", "rdwr", "write"
  Files,       \* what the file holds at first
  Buffers,     \* the buffers that the client adds: [align, units]
  Aligns,      \* the sh_addralign it gives to new sections
  Phnums,      \* how many program headers it asks for
  Cuts,        \* after how many units a write may end
  Offsets,     \* the offsets it places things at with ELF_F_LAYOUT
  MaxScns,     \* bound on the sections of an object
  MaxCalls     \* bound on the calls

VARIABLES
  file,    \* the units of the file
  e,       \* the descriptor, or None
  meant,   \* auxiliary: the units of each section, as the client wants them
  meantPh, \* auxiliary: the same for the program header table
  normal,  \* auxiliary: the file is what the library laid out for "meant"
  last,    \* the last call and how it ended
  calls

vars == <<file, e, meant, meantPh, normal, last, calls>>

(* Units, and the fields of the headers *)
Ehdrs == [phoff : Nat, shoff : Nat, phnum : Nat, shnum : Nat]
Shdrs == [type : {"null", "progbits", "nobits"},
          align : Nat, off : Nat, size : Nat, info : Nat]
Fill == <<"fill", 0>>
Junk == <<"junk", 0>>    \* never written to: what malloc returned
Cont == <<"cont", 0>>    \* the rest of a header
Ph(tag) == <<"ph", tag>>
Header(kind, fields, size) ==
  [k \in 1..size |-> IF k = 1 THEN <<kind, fields>> ELSE Cont]
IsUnit(u) == (u[1] = "ehdr" => u[2] \in Ehdrs) /\ (u[1] = "shdr" => u[2] \in Shdrs)
Given == Files \cup {b.units : b \in Buffers}
\* All that a file can be made of.
Unit ==
  {Fill, Junk, Cont, Ph("new"), <<"mod", 0>>}
  \cup ({"ehdr"} \X Ehdrs) \cup ({"shdr"} \X Shdrs)
  \cup UNION {{s[k] : k \in DOMAIN s} : s \in Given}

\* What is given from outside, contents and alignments of buffers, is made of
\* units, those of buffers were written by someone; the sizes are those of
\* something.
ElfUpdateAssumption ==
  /\ {EhdrSize, PhdrSize, ShdrSize, HdrAlign, LoReserve, PnXnum} \subseteq Nat \ {0}
  /\ {MaxScns, MaxCalls} \cup Aligns \cup Phnums \cup Cuts \cup Offsets \subseteq Nat
  /\ \A s \in Given :
       s \in Seq({s[k] : k \in DOMAIN s}) /\ \A k \in DOMAIN s : IsUnit(s[k])
  /\ \A b \in Buffers : b.align \in Nat \ {0} /\ \A k \in DOMAIN b.units : b.units[k] # Junk
  /\ Commands \subseteq {"read", "rdwr", "write"}
  /\ None # Gone /\ \A x \in {None, Gone} : x \notin Ehdrs /\ x \notin Seq(Unit)
ASSUME ElfUpdateAssumption

\* Seeded fault: rounds down.
RoundUp_Down(n, a) == (n \div a) * a

RoundUp(n, a) == ((n + a - 1) \div a) * a
Larger(a, b) == IF a > b THEN a ELSE b
Bytes(img, off, n) == SubSeq(img, off + 1, off + n)
Put(img, off, units) ==
  [k \in 1..Len(img) |-> IF k - off \in 1..Len(units) THEN units[k - off] ELSE img[k]]
Pad(img, from, to) == Put(img, from, [k \in 1..Larger(0, to - from) |-> Fill])
-----------------------------------------------------------------------------
(* Extents: the regions of the object, in ascending order.                 *)

Ends(x) == x.start + x.size

\* _libelf_extent_is_unused: k is the number of extents before x, and the
\* next one, if there is one, begins behind it.
IsUnused(extents, k, x) ==
  /\ \A j \in 1..k : Ends(extents[j]) <= x.start
  /\ k < Len(extents) => /\ Ends(extents[k + 1]) > x.start
                         /\ Ends(x) <= extents[k + 1].start
Fits(extents, x) == \E k \in 0..Len(extents) : IsUnused(extents, k, x)

\* _libelf_insert_extent, where it fits
InsertExtent(extents, x) ==
  LET k == CHOOSE n \in 0..Len(extents) : IsUnused(extents, n, x)
  IN [j \in 1..Len(extents) + 1 |->
        IF j <= k THEN extents[j] ELSE IF j = k + 1 THEN x ELSE extents[j - 1]]
-----------------------------------------------------------------------------
(* What the file says, read as the format has it: the reference for the    *)
(* client's expectations.                                                  *)

Top(f) == f[1][2]
Xnum(f) == Top(f).shoff # 0 /\ (Top(f).shnum = 0 \/ Top(f).phnum = PnXnum)
HeaderIn(f, i) == f[Top(f).shoff + i * ShdrSize + 1]
Shnum(f) == IF Xnum(f) /\ Top(f).shnum = 0 THEN HeaderIn(f, 0)[2].size ELSE Top(f).shnum
Phnum(f) == IF Xnum(f) /\ Top(f).phnum = PnXnum THEN HeaderIn(f, 0)[2].info ELSE Top(f).phnum

Holds(h) == h.type = "progbits" /\ h.size > 0
\* Complete, and nothing in it was left to chance.
Sound(f) ==
  /\ Len(f) >= EhdrSize /\ f[1][1] = "ehdr"
  /\ Top(f).shoff # 0 => /\ Len(f) >= Top(f).shoff + ShdrSize
                         /\ HeaderIn(f, 0)[1] = "shdr"
                         /\ Len(f) >= Top(f).shoff + Shnum(f) * ShdrSize
  /\ Shnum(f) # 0 => Top(f).shoff # 0
  /\ Phnum(f) # 0 => Len(f) >= Top(f).phoff + Phnum(f) * PhdrSize
  /\ \A i \in 1..Shnum(f) - 1 :
       LET h == HeaderIn(f, i)
       IN h[1] = "shdr" /\ (Holds(h[2]) => h[2].off + h[2].size <= Len(f))
  /\ \A k \in 1..Len(f) : f[k] # Junk
\* The client's files are complete, and have no more than MaxScns sections.
Readable(f) == Sound(f) /\ Shnum(f) <= MaxScns + 1
Contents(f) ==
  [i \in 1..Larger(0, Shnum(f) - 1) |->
     LET h == HeaderIn(f, i)[2]
     IN IF Holds(h) THEN Bytes(f, h.off, h.size) ELSE <<>>]
Phdrs(f) == Bytes(f, Top(f).phoff, Phnum(f) * PhdrSize)
\* The units other than filling
Strip(s) ==
  LET f[k \in 0..Len(s)] ==
        IF k = 0 THEN <<>> ELSE IF s[k] = Fill THEN f[k - 1] ELSE Append(f[k - 1], s[k])
  IN f[Len(s)]
Same(a, b) == Strip(a) = Strip(b)
-----------------------------------------------------------------------------
(* A call works on [e, how, ext, rc]: the descriptor, how the call fares   *)
(* ("ok", "error", "layout", "abort" for a failed assertion, "fault" for   *)
(* an access to contents that are unmapped), the extents placed so far and *)
(* where they end.  Each part is done only while all is well.              *)

Work(d) == [e |-> d, how |-> "ok", ext |-> <<>>, rc |-> 0]
Then(w, next) == IF w.how = "ok" THEN next ELSE w
Fails(w, how) == [w EXCEPT !.how = how]
With(w, d) == [w EXCEPT !.e = d]

NoEhdr == [phoff |-> 0, shoff |-> 0, phnum |-> 0, shnum |-> 0]
NoScn == [type |-> "null", align |-> 0, off |-> 0, size |-> 0, info |-> 0,
          rawoff |-> 0, ssize |-> 0, soff |-> 0, dirty |-> FALSE, data |-> <<>>]

\* The fields that are in the file.
Shdr(s) == [type |-> s.type, align |-> s.align, off |-> s.off,
            size |-> s.size, info |-> s.info]

\* A section whose header h has been read.
Loaded(h) == [NoScn EXCEPT !.type = h.type, !.align = h.align, !.off = h.off,
                !.size = h.size, !.info = h.info,
                !.rawoff = h.off, !.soff = h.off, !.ssize = h.size]

\* _libelf_allocate_scn
Allocate(d, i, s) ==
  [d EXCEPT !.scns = [j \in DOMAIN d.scns \cup {i} |-> IF j = i THEN s ELSE d.scns[j]]]

\* e_rawsize, which outlives the contents.
Rawsize(d) == IF d.raw = Gone THEN d.rawsize ELSE Len(d.raw)

\* Reading from the contents of the file, as they were when it was opened.  The
\* bytes of anything else, read as a header, are some numbers.
EhdrAt(d) ==
  IF d.raw[1][1] = "ehdr" THEN d.raw[1][2] ELSE CHOOSE h \in Ehdrs : TRUE
ShdrAt(d, off) ==
  IF d.raw[off + 1][1] = "shdr" THEN d.raw[off + 1][2] ELSE CHOOSE h \in Shdrs : TRUE

\* _libelf_load_extended: the counts are in section header 0.
LoadExtended(w) ==
  LET d == w.e
      s == Loaded(ShdrAt(d, d.ehdr.shoff))
  IN IF Len(d.raw) < d.ehdr.shoff + ShdrSize THEN Fails(w, "error")
     ELSE IF s.type # "null" THEN Fails(With(w, Allocate(d, 0, s)), "error")
     ELSE With(w, [Allocate(d, 0, s) EXCEPT
                     !.nscn = s.size,
                     !.nphdr = IF d.ehdr.phnum = PnXnum THEN s.info ELSE d.ehdr.phnum])

\* The library has the header, but other counts than the file says: the
\* auxiliary "misread" is set.
Miscounts(r) == r.how # "ok" \/ r.e.nscn # Shnum(r.e.raw)

\* _libelf_ehdr
WithEhdr(w) ==
  Then(w,
  IF ~w.e.class THEN Fails(w, "error")
  ELSE IF w.e.ehdr # None THEN w
  ELSE IF w.e.cmd = "write" THEN With(w, [w.e EXCEPT !.ehdr = NoEhdr])
  ELSE IF w.e.raw = Gone THEN Fails(w, "fault")
  ELSE IF Len(w.e.raw) < EhdrSize THEN Fails(w, "error")
  ELSE LET h == EhdrAt(w.e)
           d == [w.e EXCEPT !.ehdr = h]
           refused == h.shnum >= LoReserve \/
                      (h.shoff = 0 /\ (h.shnum # 0 \/ h.phnum = PnXnum))
           extended == h.shoff # 0 /\ (h.shnum = 0 \/ h.phnum = PnXnum)
           r == IF refused THEN Fails(With(w, d), "error")
                ELSE IF extended THEN LoadExtended(With(w, d))
                ELSE With(w, [d EXCEPT !.nphdr = h.phnum, !.nscn = h.shnum])
       IN With(r, [r.e EXCEPT !.misread = @ \/ Miscounts(r)]))

\* Seeded fault: does not load the last section.
LoadShdrs_Short(w) ==
  LET d == w.e
      off(i) == d.ehdr.shoff + i * ShdrSize
      there == DOMAIN d.scns
  IN IF off(d.nscn) > Rawsize(d) THEN Fails(w, "error")
     ELSE IF Cardinality(there) > 1 THEN Fails(w, "abort")
     ELSE IF d.raw = Gone /\ \E i \in 0..d.nscn - 2 : i \notin there THEN Fails(w, "fault")
     ELSE With(w, [d EXCEPT !.loaded = TRUE,
            !.scns = [i \in there \cup 0..d.nscn - 2 |->
                        IF i \in there THEN d.scns[i] ELSE Loaded(ShdrAt(d, off(i)))]])

\* _libelf_load_section_headers; section 0 may be there already.  What can be read
\* is of one class, so e_shentsize is ShdrSize.
LoadShdrs(w) ==
  LET d == w.e
      off(i) == d.ehdr.shoff + i * ShdrSize
      there == DOMAIN d.scns
  IN IF off(d.nscn) > Rawsize(d) THEN Fails(w, "error")
     ELSE IF Cardinality(there) > 1 THEN Fails(w, "abort")
     ELSE IF d.raw = Gone /\ \E i \in 0..d.nscn - 1 : i \notin there THEN Fails(w, "fault")
     ELSE With(w, [d EXCEPT !.loaded = TRUE,
            !.scns = [i \in there \cup 0..d.nscn - 1 |->
                        IF i \in there THEN d.scns[i] ELSE Loaded(ShdrAt(d, off(i)))]])

\* What elf_getscn, elf_newscn and elf_update do first.
WithShdrs(w) ==
  Then(w, IF w.e.cmd # "write" /\ ~w.e.loaded THEN LoadShdrs(w) ELSE w)
Opened(d) == WithShdrs(WithEhdr(Work(d)))

\* _libelf_getphdr
WithPhdr(w) ==
  LET d == w.e
      off == d.ehdr.phoff
  IN IF d.phdr # None THEN w
     ELSE IF d.raw = None \/ Rawsize(d) < off + d.nphdr * PhdrSize THEN Fails(w, "error")
     ELSE IF d.raw = Gone THEN Fails(w, "fault")
     ELSE With(w, [d EXCEPT !.phdr = Bytes(d.raw, off, d.nphdr * PhdrSize)])

\* elf_getdata(s, NULL) for section i: the buffer is read at the offset that
\* the section header has now, also if that is where the section goes to, which
\* sets "misread" too.
WithData(w, i) ==
  LET d == w.e
      s == d.scns[i]
      held == IF s.type = "nobits" THEN 0 ELSE s.size
  IN IF s.data # <<>> THEN w
     ELSE IF d.raw = None THEN Fails(w, "error")
     ELSE IF s.type = "null" \/ (s.type # "nobits" /\ s.off + s.size > Rawsize(d))
          THEN Fails(w, "error")
     ELSE IF d.raw = Gone /\ held > 0 THEN Fails(w, "fault")
     ELSE With(w, [d EXCEPT
            !.misread = @ \/ (held > 0 /\ s.off # s.rawoff),
            !.scns[i].data =
               <<[align |-> s.align, off |-> 0,
                  units |-> IF held = 0 THEN <<>> ELSE Bytes(d.raw, s.off, held)]>>])
-----------------------------------------------------------------------------
(* Layout.                                                                 *)

\* The offsets of the buffers of a section one after the other.
Placed(data) ==
  LET off[k \in 1..Len(data)] ==
        IF k = 1 THEN 0
        ELSE RoundUp(off[k - 1] + Len(data[k - 1].units), data[k].align)
  IN [k \in 1..Len(data) |-> [data[k] EXCEPT !.off = off[k]]]
BufferEnds(data) == {data[k].off + Len(data[k].units) : k \in 1..Len(data)}
MaxOf(S) == CHOOSE m \in S : \A x \in S : x <= m
Extent(data) == MaxOf({0} \cup BufferEnds(data))
AlignOf(data) == MaxOf({0} \cup {data[k].align : k \in 1..Len(data)})

\* Section i goes to where the next extent may begin.
PlaceScn(w, i, al) ==
  LET off == RoundUp(w.rc, al)
      s == w.e.scns[i]
  IN With(w, [w.e EXCEPT !.scns[i] = [s EXCEPT !.align = al, !.off = off,
                                        !.ssize = s.size, !.soff = off]])
Settle(w, i) ==
  With(w, [w.e EXCEPT !.scns[i] = [@ EXCEPT !.ssize = w.e.scns[i].size,
                                            !.soff = w.e.scns[i].off]])

PowerOfTwo(n) == n # 0 /\ \E k \in 0..n : 2^k = n

\* _libelf_compute_section_extents, once the data of a changed section is there.
\* The data is bytes: any size and offset suits their type.
LayOut(w, i, untouched) ==
  LET s == w.e.scns[i]
      al == IF s.align = 0 THEN 1 ELSE s.align
      data == Placed(s.data)
      laid == With(w, [w.e EXCEPT !.scns[i] = [s EXCEPT !.data = data, !.size = Extent(data)]])
  IN Then(w,
     IF untouched THEN (IF w.e.layout THEN Settle(w, i) ELSE PlaceScn(w, i, al))
     ELSE IF \E k \in 1..Len(s.data) : ~PowerOfTwo(s.data[k].align) THEN Fails(w, "error")
     ELSE IF ~w.e.layout THEN PlaceScn(laid, i, Larger(al, AlignOf(data)))
     ELSE IF \/ \E k \in 1..Len(s.data) : s.data[k].off % s.data[k].align # 0
             \/ AlignOf(s.data) > al \/ s.off % al # 0 \/ s.size < Extent(s.data)
          THEN Fails(w, "layout")
     ELSE Settle(w, i))

ComputeExtents(w, i) ==
  LET dataless == w.e.scns[i].data = <<>>
      dirty == w.e.scns[i].dirty
  IN LayOut(IF dataless /\ dirty /\ w.e.cmd # "write" THEN WithData(w, i) ELSE w,
            i, dataless /\ ~dirty)

\* One more extent; the object ends no earlier than it does.  Section i has
\* the extent of kind "scn" and index i.
Insert(w, kind, i, start, size) ==
  LET x == [kind |-> kind, ndx |-> i, start |-> start, size |-> size] IN
  Then(w, IF Fits(w.ext, x)
          THEN [w EXCEPT !.ext = InsertExtent(@, x), !.rc = Larger(@, start + size)]
          ELSE Fails(w, "layout"))

\* _libelf_resync_sections
InsertScn(w, i) ==
  LET s == w.e.scns[i] IN IF s.ssize = 0 THEN w ELSE Insert(w, "scn", i, s.soff, s.ssize)
ResyncScn(w, i) ==
  IF i \notin DOMAIN w.e.scns \/ w.e.scns[i].type \in {"null", "nobits"} THEN w
  ELSE InsertScn(ComputeExtents(w, i), i)
ResyncSections(w) ==
  LET upto[i \in 0..MaxScns] ==
        IF i = 0 THEN w ELSE Then(upto[i - 1], ResyncScn(upto[i - 1], i))
  IN upto[MaxScns]

\* The program header table comes behind the header.
ResyncPhdr(w) ==
  LET d == w.e
      phoff == IF d.layout THEN d.ehdr.phoff ELSE RoundUp(w.rc, HdrAlign)
      p == WithPhdr(w)      \* its failure shows when it is written
  IN Then(w,
     IF d.nphdr = 0 THEN w
     ELSE IF d.layout /\ (w.rc > phoff \/ phoff % HdrAlign # 0) THEN Fails(w, "layout")
     ELSE IF p.how = "fault" THEN p
     ELSE Insert([p EXCEPT !.how = "ok"], "phdr", 0, phoff, d.nphdr * PhdrSize))

ResyncShdr(w) ==
  LET d == w.e
      shoff == IF d.layout THEN d.ehdr.shoff ELSE RoundUp(w.rc, HdrAlign)
  IN Then(w,
     IF d.nscn = 0 THEN w
     ELSE IF shoff % HdrAlign # 0 THEN Fails(w, "layout")
     ELSE Insert(w, "shdr", 0, shoff, d.nscn * ShdrSize))

\* Seeded fault: counts the section 0 that it adds for the count of the program headers.
SetCounts_Sections(w) ==
  LET d == w.e
      xph == d.nphdr >= PnXnum
      at(kind) == {w.ext[k].start : k \in {n \in 1..Len(w.ext) : w.ext[n].kind = kind}}
      start(kind) == MaxOf({0} \cup at(kind))
  IN Then(w, With(w,
       [d EXCEPT
          !.ehdr = [phnum |-> IF xph THEN PnXnum ELSE d.nphdr, shnum |-> d.nscn,
                    phoff |-> start("phdr"), shoff |-> start("shdr")],
          !.nscn = IF xph THEN Larger(1, d.nscn) ELSE d.nscn,
          !.scns = IF xph /\ d.nscn = 0 THEN Allocate(d, 0, NoScn).scns ELSE d.scns]))

\* _libelf_setphnum, _libelf_setshnum, and the offsets in the header
SetCounts(w) ==
  LET d == w.e
      xph == d.nphdr >= PnXnum
      xsh == d.nscn >= LoReserve
      s0 == IF 0 \in DOMAIN d.scns THEN d.scns[0] ELSE NoScn
      at(kind) == {w.ext[k].start : k \in {n \in 1..Len(w.ext) : w.ext[n].kind = kind}}
      start(kind) == MaxOf({0} \cup at(kind))
  IN Then(w, With(w,
       [d EXCEPT
          !.ehdr = [phnum |-> IF xph THEN PnXnum ELSE d.nphdr,
                    shnum |-> IF xsh THEN 0 ELSE d.nscn,
                    phoff |-> IF d.layout THEN d.ehdr.phoff ELSE start("phdr"),
                    shoff |-> IF d.layout THEN d.ehdr.shoff ELSE start("shdr")],
          !.scns = IF ~xph /\ ~xsh THEN d.scns
                   ELSE Allocate(d, 0, [s0 EXCEPT !.info = IF xph THEN d.nphdr ELSE @,
                                                  !.size = IF xsh THEN d.nscn ELSE @]).scns]))

\* _libelf_resync_elf
Resync(d) ==
  LET headers == ResyncPhdr(Insert(WithEhdr(Work(d)), "ehdr", 0, 0, EhdrSize))
      sections == ResyncSections(WithShdrs(headers))
  IN SetCounts(ResyncShdr(sections))
-----------------------------------------------------------------------------
(* Writing: the image of the object is made in memory, extent by extent.   *)

\* Seeded fault: takes the contents from where the section goes to.
WriteRaw_NewOffset(w, img, s) ==
  LET d == w.e IN
  IF d.raw = Gone THEN [how |-> "fault"]
  ELSE IF d.raw = None \/ s.off + s.size > Len(d.raw) THEN [how |-> "error"]
  ELSE [how |-> "ok", end |-> s.soff + s.size,
        img |-> Put(img, s.soff, Bytes(d.raw, s.off, s.size))]

\* _libelf_write_scn: where the section's units end, and the image; it checks
\* that the section is in the file where its header says now, and reads it where
\* it was.
WriteRaw(w, img, s) ==
  LET d == w.e IN
  IF d.raw = None \/ s.off + s.size > Rawsize(d) THEN [how |-> "error"]
  ELSE IF d.raw = Gone \/ s.rawoff + s.size > Len(d.raw) THEN [how |-> "fault"]
  ELSE [how |-> "ok", end |-> s.soff + s.size,
        img |-> Put(img, s.soff, Bytes(d.raw, s.rawoff, s.size))]
WriteData(img, s) ==
  LET n == Len(s.data)
      at(k) == s.soff + s.data[k].off
      end(k) == IF k = 0 THEN s.soff ELSE at(k) + Len(s.data[k].units)
      upto[k \in 0..n] ==
        IF k = 0 THEN img
        ELSE Put(Pad(upto[k - 1], end(k - 1), at(k)), at(k), s.data[k].units)
  IN IF \E k \in 1..n : s.data[k].units = <<>> THEN [how |-> "abort"]   \* d_buf
     ELSE [how |-> "ok", end |-> end(n), img |-> upto[n]]

\* The table is written one section at a time.
WriteShdrs(d, img, x) ==
  LET upto[i \in 0..MaxScns + 1] ==
        IF i = 0 THEN img
        ELSE IF i - 1 \notin DOMAIN d.scns THEN upto[i - 1]
        ELSE Put(upto[i - 1], x.start + (i - 1) * ShdrSize,
                 Header("shdr", Shdr(d.scns[i - 1]), ShdrSize))
  IN upto[MaxScns + 1]

WriteExtent(w, img, x) ==
  CASE x.kind = "ehdr" -> [how |-> "ok", end |-> EhdrSize,
                           img |-> Put(img, 0, Header("ehdr", w.e.ehdr, EhdrSize))]
    [] x.kind = "phdr" -> LET p == WithPhdr(w) IN
                          IF p.how # "ok" THEN [how |-> p.how]
                          ELSE [how |-> "ok", end |-> Ends(x), img |-> Put(img, x.start, p.e.phdr)]
    [] x.kind = "shdr" -> [how |-> "ok", end |-> Ends(x), img |-> WriteShdrs(w.e, img, x)]
    [] OTHER -> IF w.e.scns[x.ndx].data = <<>> THEN WriteRaw(w, img, w.e.scns[x.ndx])
                ELSE WriteData(img, w.e.scns[x.ndx])

\* _libelf_write_elf up to the point where the file is touched
Image(w) ==
  LET blank == [k \in 1..w.rc |-> Junk]
      upto[n \in 0..Len(w.ext)] ==
        IF n = 0 THEN [how |-> "ok", img |-> blank, end |-> 0]
        ELSE LET p == upto[n - 1]
                 x == w.ext[n]
                 r == WriteExtent(w, Pad(p.img, p.end, x.start), x)
             IN IF p.how # "ok" THEN p
                ELSE IF r.how # "ok" THEN [p EXCEPT !.how = r.how]
                ELSE IF r.end # Ends(x) THEN [p EXCEPT !.how = "abort"] ELSE r
  IN upto[Len(w.ext)]
-----------------------------------------------------------------------------
(* The calls.                                                              *)

Init ==
  /\ file \in Files
  /\ e = None /\ meant = <<>> /\ meantPh = <<>> /\ normal = FALSE
  /\ last = [op |-> "none", how |-> "ok"] /\ calls = 0

Count == calls < MaxCalls /\ calls' = calls + 1

\* The client does not go on with a file that it has made unreadable.
Call ==
  /\ e # None /\ Count
  /\ e.ehdr = None /\ e.raw \notin {None, Gone} => Readable(e.raw)

\* How the call op ends; a failed assertion, or a fault, is the end of the
\* program.
Finish(op, w) ==
  /\ e' = IF w.how \in {"abort", "fault"} THEN None ELSE w.e
  /\ last' = [op |-> op, how |-> w.how]

\* elf_begin: the file is mapped or, failing that, read.
Begin(cmd, mapped) ==
  /\ e = None /\ Count
  /\ cmd # "write" => Readable(file)
  /\ e' = [cmd |-> cmd, fd |-> TRUE, class |-> cmd # "write", layout |-> FALSE,
           loaded |-> FALSE, ehdr |-> None, phdr |-> None, nphdr |-> 0, nscn |-> 0,
           scns |-> <<>>, raw |-> IF cmd = "write" THEN None ELSE file,
           rawsize |-> 0,
           mapped |-> mapped /\ cmd # "write", writes |-> 0, misread |-> FALSE]
  /\ meant' = IF cmd = "write" THEN <<>> ELSE Contents(file)
  /\ meantPh' = IF cmd = "write" THEN <<>> ELSE Phdrs(file)
  /\ normal' = (normal /\ cmd # "write")
  /\ last' = [op |-> "begin", how |-> "ok"]
  /\ UNCHANGED file

\* elf_end, or the end of the program
End ==
  /\ e # None /\ Count
  /\ e' = None /\ last' = [op |-> "end", how |-> "ok"]
  /\ UNCHANGED <<file, meant, meantPh, normal>>

\* gelf_getehdr, gelf_newehdr
GetEhdr ==
  /\ Call
  /\ e.ehdr = None
  /\ Finish("ehdr", WithEhdr(Work([e EXCEPT !.class = TRUE])))
  /\ UNCHANGED <<file, meant, meantPh, normal>>

\* elf32_getphdr: there has to be a program header
GetPhdr ==
  /\ Call
  /\ \E w \in {WithEhdr(Work(e))} :
     Finish("phdr", IF w.how = "ok" /\ w.e.phdr = None /\ w.e.nphdr = 0
                    THEN Fails(w, "abort") ELSE Then(w, WithPhdr(w)))
  /\ UNCHANGED <<file, meant, meantPh, normal>>

\* gelf_newphdr; the client fills the table in
NewPhdr(n) ==
  /\ Call
  /\ \E w \in {WithEhdr(Work(e))} :
     LET table == [k \in 1..n * PhdrSize |-> Ph("new")]
         new == With(w, [w.e EXCEPT !.nphdr = n, !.phdr = IF n = 0 THEN None ELSE table])
     IN IF w.how # "ok" THEN Finish("phdr", w) /\ UNCHANGED <<meantPh, normal>>
        ELSE Finish("phdr", new) /\ meantPh' = table /\ normal' = FALSE
  /\ UNCHANGED <<file, meant>>

\* elf_getscn
GetScn ==
  /\ Call
  /\ e.cmd # "write" /\ ~e.loaded
  /\ Finish("scn", Opened(e))
  /\ UNCHANGED <<file, meant, meantPh, normal>>

\* elf_newscn; the client gives the section its type and alignment
NewScn(type, align) ==
  /\ Call
  /\ \E w \in {Opened(e)} :
     LET d == w.e
         none == d.scns = <<>>
         n == IF none THEN 1 ELSE d.nscn
         base == IF none THEN Allocate(d, 0, NoScn) ELSE d
         new == [Allocate(base, n, [NoScn EXCEPT !.type = type, !.align = align,
                                                 !.dirty = TRUE])
                   EXCEPT !.nscn = n + 1]
     IN /\ n <= MaxScns
        /\ IF w.how # "ok" THEN Finish("scn", w) /\ UNCHANGED <<meant, normal>>
           ELSE IF none # (d.nscn = 0)
           THEN Finish("scn", Fails(w, "abort")) /\ UNCHANGED <<meant, normal>>
           ELSE Finish("scn", With(w, new)) /\ meant' = Append(meant, <<>>) /\ normal' = FALSE
  /\ UNCHANGED <<file, meantPh>>

\* The client changes sections of its object.
HasData(i) == i \in DOMAIN e.scns \cap DOMAIN meant /\ e.scns[i].type = "progbits"

\* elf_newdata(scn); with ELF_F_LAYOUT the client gives it an offset and
\* the section its size
NewData(i, b) ==
  /\ Call
  /\ HasData(i)
  /\ LET reads == e.raw # None /\ e.scns[i].ssize > 0 /\ e.scns[i].data = <<>>
         w == IF reads THEN WithData(Work(e), i) ELSE Work(e)
         s == w.e.scns[i]
         data == Append(s.data, [align |-> b.align, off |-> 0, units |-> b.units])
         new == [w.e EXCEPT !.scns[i] =
                   [s EXCEPT !.dirty = TRUE,
                             !.data = IF e.layout THEN Placed(data) ELSE data,
                             !.size = IF e.layout THEN Extent(Placed(data)) ELSE @]]
     IN IF w.how # "ok" THEN Finish("data", w) /\ UNCHANGED <<meant, normal>>
        ELSE /\ Finish("data", With(w, new))
             /\ meant' = [meant EXCEPT ![i] = @ \o b.units]
             /\ normal' = FALSE
  /\ UNCHANGED <<file, meantPh>>

\* elf_getdata(scn, NULL)
GetData(i) ==
  /\ Call
  /\ i \in DOMAIN e.scns /\ e.scns[i].data = <<>>
  /\ Finish("data", WithData(Work(e), i))
  /\ UNCHANGED <<file, meant, meantPh, normal>>

\* The client changes the data it was given, in place.
Modify(i) ==
  /\ Call
  /\ HasData(i)
  /\ meant[i] # <<>> /\ e.scns[i].data # <<>> /\ e.scns[i].data[1].units # <<>>
  /\ e' = [e EXCEPT !.scns[i].data[1].units[1] = <<"mod", 0>>]
  /\ meant' = [meant EXCEPT ![i][1] = <<"mod", 0>>]
  /\ normal' = FALSE /\ last' = [op |-> "data", how |-> "ok"]
  /\ UNCHANGED <<file, meantPh>>

\* elf_flagelf(ELF_C_SET, ELF_F_LAYOUT); the client places the tables, after
\* it has got them, and gives each section the size of its data
Arrange(phoff, shoff) ==
  /\ Call
  /\ ~e.layout /\ e.ehdr # None
  /\ e.nphdr = 0 \/ e.phdr # None
  /\ e.cmd = "write" \/ e.loaded
  /\ e' = [e EXCEPT !.layout = TRUE,
             !.ehdr.phoff = IF e.nphdr = 0 THEN 0 ELSE phoff,
             !.ehdr.shoff = IF e.nscn = 0 THEN 0 ELSE shoff,
             !.scns = [i \in DOMAIN e.scns |->
                LET data == Placed(e.scns[i].data) IN
                IF data = <<>> THEN e.scns[i]
                ELSE [e.scns[i] EXCEPT !.data = data, !.size = Extent(data)]]]
  /\ normal' = FALSE /\ last' = [op |-> "layout", how |-> "ok"]
  /\ UNCHANGED <<file, meant, meantPh>>

\* The client places section i.
Move(i, off) ==
  /\ Call
  /\ e.layout /\ HasData(i)
  /\ e' = [e EXCEPT !.scns[i].off = off]
  /\ normal' = FALSE /\ last' = [op |-> "layout", how |-> "ok"]
  /\ UNCHANGED <<file, meant, meantPh>>

\* elf_cntl(e, ELF_C_FDDONE)
FdDone ==
  /\ Call
  /\ e' = [e EXCEPT !.fd = FALSE] /\ last' = [op |-> "cntl", how |-> "ok"]
  /\ UNCHANGED <<file, meant, meantPh, normal>>
-----------------------------------------------------------------------------
(* elf_update.                                                             *)

\* It ends without having touched the file.
Unwritten(op, w) ==
  /\ Finish(op, With(w, [w.e EXCEPT !.loaded = FALSE]))
  /\ UNCHANGED <<file, meant, meantPh, normal>>

\* elf_update(e, ELF_C_NULL)
UpdateNull ==
  /\ Call
  /\ e.class
  /\ Unwritten("null", Resync(e))

\* Seeded fault: goes on reading what the file held before.
Written_OldRaw(d, img) ==
  [d EXCEPT !.loaded = FALSE, !.scns = <<>>, !.ehdr = None, !.phdr = None,
            !.writes = @ + 1]

\* What is left of the descriptor when the file is written.
Written(d, img) ==
  [d EXCEPT !.loaded = FALSE, !.scns = <<>>, !.ehdr = None, !.phdr = None,
            !.raw = IF d.cmd = "rdwr" THEN img ELSE None, !.writes = @ + 1]

\* It has truncated the file, and written some units; "how" is "io" if it fails, or
\* if the program is killed.  A file that is mapped is unmapped before it is
\* written; where munmap fails, the pages lie behind the end of the file.
Touched(w, units, raw, how) ==
  /\ file' = units
  /\ e' = IF how = "killed" THEN None
          ELSE [w.e EXCEPT !.loaded = FALSE, !.raw = raw,
                           !.rawsize = IF w.e.raw = None THEN 0 ELSE Rawsize(w.e)]
  /\ last' = [op |-> "write", how |-> how]
  /\ normal' = FALSE
  /\ UNCHANGED <<meant, meantPh>>

Short(img) == {n \in Cuts : n < Len(img)}

\* What the file says of the counts is what the library reads back.
CountsFit(d) == d.nphdr < PnXnum \/ d.nscn >= LoReserve

\* elf_update(e, ELF_C_WRITE), with the image r of the object
WriteElf(w, r) ==
  LET gone == IF w.e.mapped THEN Gone ELSE w.e.raw IN
  \/ /\ file' = r.img
     /\ e' = Written(w.e, r.img)
     /\ normal' = (~w.e.layout /\ CountsFit(w.e))
     /\ last' = [op |-> "write", how |-> "ok"]
     /\ UNCHANGED <<meant, meantPh>>
  \/ Unwritten("write", Fails(w, "io"))                          \* malloc, ftruncate
  \/ w.e.mapped /\ Touched(w, <<>>, Gone, "io")                  \* munmap
  \/ \E n \in Short(r.img) : Touched(w, SubSeq(r.img, 1, n), gone, "io") \* write
  \/ w.e.mapped /\ Touched(w, r.img, Gone, "io")                 \* mmap
  \/ \E n \in Short(r.img) \cup {Len(r.img)} :
       Touched(w, SubSeq(r.img, 1, n), gone, "killed")

UpdateWrite ==
  /\ Call
  /\ e.class
  /\ IF e.cmd = "read"
     THEN /\ last' = [op |-> "write", how |-> "error"]
          /\ UNCHANGED <<file, e, meant, meantPh, normal>>
     ELSE \E w \in {Resync(e)} :
          IF w.how # "ok" THEN Unwritten("write", w)
          ELSE IF ~w.e.fd THEN Unwritten("write", Fails(w, "error"))
          ELSE \E r \in {Image(w)} :
               IF r.how # "ok" THEN Unwritten("write", Fails(w, r.how))
               ELSE WriteElf(w, r)

Next ==
  \/ \E cmd \in Commands, mapped \in BOOLEAN : Begin(cmd, mapped)
  \/ End \/ GetEhdr \/ GetPhdr \/ GetScn \/ FdDone
  \/ \E n \in Phnums : NewPhdr(n)
  \/ \E type \in {"progbits", "nobits"}, align \in Aligns : NewScn(type, align)
  \/ \E i \in 0..MaxScns : GetData(i) \/ Modify(i)
  \/ \E i \in 1..MaxScns, b \in Buffers : NewData(i, b)
  \/ \E phoff, shoff \in Offsets : Arrange(phoff, shoff)
  \/ \E i \in 1..MaxScns, off \in Offsets : Move(i, off)
  \/ UpdateNull \/ UpdateWrite

Spec == Init /\ [][Next]_vars
-----------------------------------------------------------------------------
(* What is checked.                                                        *)

\* The counts and the state of the descriptor fit together.
TypeOK ==
  /\ calls \in 0..MaxCalls /\ normal \in BOOLEAN
  /\ e # None =>
       /\ e.cmd \in Commands /\ e.nscn \in Nat
       /\ ~e.misread => e.nscn <= MaxScns + 1
       /\ DOMAIN e.scns \subseteq 0..e.nscn
       /\ e.loaded => e.ehdr # None /\ 1..e.nscn - 1 \subseteq DOMAIN e.scns
       /\ e.raw = Gone => e.mapped
       /\ \A i \in DOMAIN e.scns : DOMAIN e.scns[i] = DOMAIN NoScn

\* The number of sections, without the section 0 that holds the counts.
Sections(d) == Larger(0, d.nscn - 1)

\* elf_getshdrnum(3) lets "applications uniformly process both normal ELF
\* objects, and ELF objects that use extended section numbering": an object
\* that the library has read has as many sections as its file.
SectionsAreCounted ==
  (last.op \in {"ehdr", "scn"} /\ last.how = "ok" /\ e.cmd # "write")
    => Sections(e) = Len(meant)

IsAligned(h) == h.type = "progbits" /\ h.align # 0 => h.off % h.align = 0

\* After a successful elf_update(ELF_C_WRITE) the file holds the object as the
\* client has it: every section with its contents, aligned as asked, the
\* program headers, all counts, also those that need extended numbering, and
\* no unit that the library did not write.  A descriptor opened with
\* ELF_C_WRITE can do that once; PN_XNUM program headers need a section 0,
\* the library has to have read its counts (SectionsAreCounted), and no
\* section may have been read after it was moved.  Where the client lays the
\* object out, sections that it does not change are not checked for alignment.
WrittenIsMeant ==
  (/\ last = [op |-> "write", how |-> "ok"]
   /\ e.cmd = "write" => e.writes = 1
   /\ Len(meantPh) >= PnXnum * PhdrSize => meant # <<>>
   /\ ~e.misread)
  => /\ Sound(file)
     /\ Len(Contents(file)) = Len(meant)
     /\ \A i \in 1..Len(meant) : Same(Contents(file)[i], meant[i])
     /\ Phdrs(file) = meantPh
     /\ ~e.layout => \A i \in 1..Len(meant) : IsAligned(HeaderIn(file, i)[2])

\* Where the library does the layout, nothing overlaps.
LibraryLayoutFits == last.how = "layout" => e.layout

\* elf_update(ELF_C_NULL) tells the client where everything will be, as
\* elf_update(3) has it: to lay the object out again, and then to write it,
\* gives the same file, to the unit.
NullForetells ==
  (e # None /\ e.class /\ e.cmd = "write") =>
    \A null \in {Resync(e)} : null.how = "ok" =>
      \A write \in {Resync(null.e)} : write.how = "ok" /\ Image(write) = Image(null)

\* The layout is stable: a file that the library laid out is not changed when
\* it is opened, or kept open, and written again with the same contents,
\* whatever was read in between; its counts have to be read back, see
\* SectionsAreCounted.
RewriteKeepsFile ==
  [][normal /\ e # None /\ last' = [op |-> "write", how |-> "ok"]
       /\ e.cmd = "rdwr" /\ ~e.layout => file' = file]_vars
=============================================================================
