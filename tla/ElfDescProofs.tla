--------------------------- MODULE ElfDescProofs ---------------------------
(***************************************************************************)
(* Theorems about ElfDesc, for all objects, places and bounds: its counts  *)
(* are exact, its steps are those of ElfHandles, no descriptor points into *)
(* contents that are gone, and the loop of elf_next.3 gets the members of  *)
(* an archive in their order.                                              *)
(***************************************************************************)
EXTENDS ElfDesc, TLAPS, FiniteSetTheorems

-----------------------------------------------------------------------------
(* The inductive invariant *)

\* A structure that nobody knows of belongs to no archive.
LostApart == \A d \in lost : elf[d].parent = None

\* What is an archive has been parsed from something.
ArchivesParsed == \A d \in live : elf[d].kind = "ar" => elf[d].obj \in Objs

\* The descriptors, and who holds them.
Sound ==
  /\ live \subseteq Ids /\ elf \in [Ids -> Elf] /\ handles \in [Ids -> Nat]
  /\ lost \subseteq live /\ ending \in Ids \cup {None}
  /\ HandlesAreCounted /\ LostApart /\ ArchivesParsed

\* The loop of the client keeps handles for what it uses.
LoopRecord ==
  [at : {"idle", "begin", "next", "end", "over"}, ar : Ids \cup {None},
   e : Ids \cup {None}, cmd : {"null", "read"}, seen : Seq(Nat), whole : BOOLEAN]
LoopCounted ==
  /\ loop \in LoopRecord
  /\ \A d \in Ids : handles[d] >= LoopHolds(d)
  /\ loop.at # "idle" => loop.ar \in Ids /\ elf[loop.ar].kind = "ar"
  /\ loop.at \in {"next", "end"} => loop.e \in Ids
  /\ loop.at \in {"begin", "over"} => loop.e = None

IInv == TypeOK /\ Sound /\ LoopCounted

-----------------------------------------------------------------------------
(* What the changes to the descriptors preserve *)

LEMMA BlankType == Blank \in Elf
BY DEF Blank, Elf

LEMMA FreshType ==
  ASSUME NEW o \in Objs, NEW k \in {"none", "elf", "ar"}, NEW sz \in Nat
  PROVE  /\ Fresh(o, k, sz) \in Elf
         /\ Fresh(o, k, sz).activations = 1 /\ Fresh(o, k, sz).nchildren = 0
         /\ Fresh(o, k, sz).kind = k /\ Fresh(o, k, sz).obj = o
         /\ Fresh(o, k, sz).parent = None
BY ElfDescAssumption DEF Fresh, Blank, Elf

\* What was opened fits in one of the places there are.
LEMMA FinitelyMany ==
  ASSUME live \subseteq Ids, NEW d
  PROVE  IsFiniteSet(Children(d)) /\ Cardinality(Children(d)) \in Nat
BY ElfDescAssumption, FS_Subset, FS_CardinalityType DEF Children

\* A handle is one for a descriptor that is known of.
LEMMA HeldIsKnown ==
  ASSUME Sound, NEW d \in Ids, handles[d] > 0
  PROVE  d \in Known
BY DEF Sound, HandlesAreCounted

\* A descriptor that is known of has the parent it had, and its members are
\* those it had: what changes is where archives stand, and file descriptors.
Steered ==
  /\ UNCHANGED <<live, lost, handles, ending>>
  /\ elf' \in [Ids -> Elf]
  /\ \A d \in Ids : /\ elf'[d].kind = elf[d].kind /\ elf'[d].obj = elf[d].obj
                    /\ elf'[d].activations = elf[d].activations
                    /\ elf'[d].parent = elf[d].parent
                    /\ elf'[d].nchildren = elf[d].nchildren

LEMMA SteeredSound ==
  ASSUME Sound, Steered
  PROVE  Sound'
<1>1. /\ live \subseteq Ids /\ lost \subseteq live /\ Known' = Known /\ Known \subseteq Ids
      /\ ending' = ending
  BY DEF Sound, Steered, Known
<1>2. \A d : Children(d)' = Children(d)
  BY <1>1 DEF Steered, Children
<1>3. \A d \in Ids : Waits(d)' = Waits(d)
  BY DEF Steered, Waits
<1>4. HandlesAreCounted'
  <2>1. \A d \in Ids \ Known' : handles'[d] = 0
    BY <1>1 DEF Sound, HandlesAreCounted, Steered
  <2>2. ASSUME NEW d \in Known'
        PROVE  /\ elf'[d].activations = handles'[d]
               /\ elf'[d].nchildren = Cardinality(Children(d)')
               /\ elf'[d].parent # None =>
                    /\ elf'[d].parent \in Known' /\ elf'[elf'[d].parent].kind = "ar"
               /\ handles'[d] = 0 => d = ending' \/ Waits(d)'
    BY <1>1, <1>2, <1>3, <2>2 DEF Sound, HandlesAreCounted, Steered
  <2>3. ending' # None => ending' \in Known' /\ handles'[ending'] = 0
    BY <1>1 DEF Sound, HandlesAreCounted, Steered
  <2> QED
    BY <2>1, <2>2, <2>3 DEF HandlesAreCounted
<1>5. LostApart' /\ ArchivesParsed'
  BY <1>1 DEF Sound, LostApart, ArchivesParsed, Steered
<1> QED
  BY <1>1, <1>4, <1>5 DEF Sound, Steered

\* The new descriptor x at q, a member of a if that is not None.
Born(q, x, a) ==
  /\ live' = live \cup {q} /\ lost' = lost /\ ending' = ending
  /\ handles' = [handles EXCEPT ![q] = 1]
  /\ elf' = [d \in Ids |->
               IF d = q THEN x
               ELSE IF d = a THEN [elf[d] EXCEPT !.nchildren = @ + 1] ELSE elf[d]]

\* How the children and the archives are seen after that.
LEMMA BornSound ==
  ASSUME Sound, ending = None,
         NEW q \in Ids \ live, NEW x \in Elf, NEW a \in Known \cup {None},
         x.activations = 1, x.nchildren = 0, x.parent = a,
         x.kind = "ar" => x.obj \in Objs,
         a # None => elf[a].kind = "ar",
         Born(q, x, a)
  PROVE  Sound' /\ Known' = Known \cup {q}
<1>1. /\ None \notin Ids /\ live \subseteq Ids /\ lost \subseteq live
      /\ Known' = Known \cup {q} /\ Known \subseteq Ids /\ q \notin Known
      /\ q # a /\ ending' = None
  BY ElfDescAssumption DEF Sound, Born, Known
<1>2. /\ elf'[q] = x
      /\ \A d \in Ids \ {q} :
           /\ elf'[d].kind = elf[d].kind /\ elf'[d].obj = elf[d].obj
           /\ elf'[d].activations = elf[d].activations
           /\ elf'[d].parent = elf[d].parent
           /\ elf'[d].nchildren = IF d = a THEN elf[d].nchildren + 1 ELSE elf[d].nchildren
  BY DEF Sound, Born, Elf
<1>3. elf' \in [Ids -> Elf] /\ handles' \in [Ids -> Nat]
  <2>1. a \in Ids => [elf[a] EXCEPT !.nchildren = @ + 1] \in Elf
    BY DEF Sound, Elf
  <2> QED
    BY <2>1, <1>1 DEF Sound, Born
<1>4. \A d \in Ids : Children(d)' = IF d = a THEN Children(d) \cup {q} ELSE Children(d)
  BY <1>1, <1>2 DEF Children, Born
<1>5. \A d \in live : elf[d].parent # q
  <2>1. ASSUME NEW d \in Known PROVE elf[d].parent # q
    BY <1>1, <2>1 DEF Sound, HandlesAreCounted
  <2>2. ASSUME NEW d \in lost PROVE elf[d].parent # q
    BY <1>1, <2>2 DEF Sound, LostApart
  <2> QED
    BY <2>1, <2>2 DEF Known
<1>6. Cardinality(Children(q)') = 0
  <2>1. Children(q)' = {}
    BY <1>1, <1>4, <1>5 DEF Children
  <2> QED
    BY <2>1, FS_EmptySet
<1>7. a # None => Cardinality(Children(a)') = Cardinality(Children(a)) + 1
  <2>1. q \notin Children(a) /\ IsFiniteSet(Children(a))
    BY <1>1, FinitelyMany DEF Children
  <2> QED
    BY <1>1, <1>4, <2>1, FS_AddElement
<1>8. HandlesAreCounted'
  <2>1. \A d \in Ids \ Known' : handles'[d] = 0
    BY <1>1 DEF Sound, HandlesAreCounted, Born
  <2>2. ASSUME NEW d \in Known'
        PROVE  /\ elf'[d].activations = handles'[d]
               /\ elf'[d].nchildren = Cardinality(Children(d)')
               /\ elf'[d].parent # None =>
                    /\ elf'[d].parent \in Known' /\ elf'[elf'[d].parent].kind = "ar"
               /\ handles'[d] = 0 => d = ending' \/ Waits(d)'
    <3>1. CASE d = q
      BY <1>1, <1>2, <1>6, <3>1 DEF Born, Sound
    <3>2. CASE d # q
      <4>1. d \in Known /\ d \in Ids /\ handles'[d] = handles[d]
        BY <1>1, <3>2 DEF Born, Sound
      <4>2. elf'[d].activations = handles'[d]
        BY <1>2, <3>2, <4>1 DEF Sound, HandlesAreCounted
      <4>3. elf'[d].nchildren = Cardinality(Children(d)')
        BY <1>1, <1>2, <1>4, <1>7, <3>2, <4>1 DEF Sound, HandlesAreCounted
      <4>4. elf'[d].parent # None =>
              /\ elf'[d].parent \in Known' /\ elf'[elf'[d].parent].kind = "ar"
        BY <1>1, <1>2, <3>2, <4>1 DEF Sound, HandlesAreCounted
      <4>5. handles'[d] = 0 => d = ending' \/ Waits(d)'
        <5>1. elf[d].nchildren \in Nat /\ elf'[d].nchildren \in Nat
          BY <4>1, <1>3 DEF Sound, Elf
        <5>2. Waits(d) => Waits(d)'
          BY <5>1, <1>2, <3>2, <4>1 DEF Waits
        <5>3. handles[d] = 0 => d = ending \/ Waits(d)
          BY <4>1 DEF Sound, HandlesAreCounted
        <5>4. d # None
          BY <4>1, <1>1
        <5> QED
          BY <5>2, <5>3, <5>4, <4>1
      <4> QED
        BY <4>2, <4>3, <4>4, <4>5
    <3> QED
      BY <3>1, <3>2
  <2> QED
    BY <2>1, <2>2, <1>1 DEF HandlesAreCounted
<1>9. LostApart' /\ ArchivesParsed'
  BY <1>1, <1>2 DEF Sound, LostApart, ArchivesParsed, Born
<1> QED
  BY <1>1, <1>3, <1>8, <1>9 DEF Sound, Born

\* A structure x at q that nobody gets to know of.
LEMMA LostSound ==
  ASSUME Sound, NEW q \in Ids \ live, NEW x \in Elf,
         x.parent = None, x.kind = "ar" => x.obj \in Objs,
         live' = live \cup {q}, lost' = lost \cup {q},
         elf' = [elf EXCEPT ![q] = x], UNCHANGED <<handles, ending>>
  PROVE  Sound' /\ Known' = Known
<1>1. /\ None \notin Ids /\ live \subseteq Ids /\ lost \subseteq live
      /\ Known' = Known /\ Known \subseteq Ids /\ q \notin Known
  BY ElfDescAssumption DEF Sound, Known
<1>2. elf'[q] = x /\ \A d \in Ids \ {q} : elf'[d] = elf[d]
  BY DEF Sound
<1>3. \A d \in Ids : Children(d)' = Children(d)
  BY <1>1, <1>2 DEF Children
<1>4. HandlesAreCounted'
  BY <1>1, <1>2, <1>3 DEF Sound, HandlesAreCounted, Waits
<1>5. LostApart' /\ ArchivesParsed' /\ elf' \in [Ids -> Elf]
  BY <1>1, <1>2 DEF Sound, LostApart, ArchivesParsed
<1> QED
  BY <1>1, <1>4, <1>5 DEF Sound

\* One more handle for d, and one handle less for it.
LEMMA RetainSound ==
  ASSUME Sound, ending = None, NEW d \in Ids, handles[d] > 0,
         elf' = [elf EXCEPT ![d].activations = @ + 1],
         handles' = [handles EXCEPT ![d] = @ + 1], UNCHANGED <<live, lost, ending>>
  PROVE  Sound' /\ Known' = Known
<1>1. /\ live \subseteq Ids /\ lost \subseteq live
      /\ Known' = Known /\ Known \subseteq Ids /\ d \in Known
  BY HeldIsKnown DEF Sound, Known
<1>2. elf' \in [Ids -> Elf] /\ handles' \in [Ids -> Nat]
  BY DEF Sound, Elf
<1>3. \A x \in Ids : /\ elf'[x].kind = elf[x].kind /\ elf'[x].obj = elf[x].obj
                     /\ elf'[x].parent = elf[x].parent
                     /\ elf'[x].nchildren = elf[x].nchildren
                     /\ x # d => elf'[x].activations = elf[x].activations
  BY DEF Sound, Elf
<1>4. elf'[d].activations = elf[d].activations + 1 /\ handles'[d] = handles[d] + 1
  BY DEF Sound, Elf
<1>5. \A x \in Ids : Children(x)' = Children(x) /\ Waits(x)' = Waits(x)
  BY <1>1, <1>3 DEF Children, Waits
<1>6. HandlesAreCounted'
  <2>1. \A x \in Ids \ Known' : handles'[x] = 0
    BY <1>1 DEF Sound, HandlesAreCounted
  <2>2. ASSUME NEW x \in Known'
        PROVE  /\ elf'[x].activations = handles'[x]
               /\ elf'[x].nchildren = Cardinality(Children(x)')
               /\ elf'[x].parent # None =>
                    /\ elf'[x].parent \in Known' /\ elf'[elf'[x].parent].kind = "ar"
               /\ handles'[x] = 0 => x = ending' \/ Waits(x)'
    <3>1. x \in Ids /\ x \in Known
      BY <1>1
    <3>2. elf'[x].activations = handles'[x]
      BY <1>3, <1>4, <3>1 DEF Sound, HandlesAreCounted
    <3>3. /\ elf'[x].nchildren = Cardinality(Children(x)')
          /\ elf'[x].parent # None =>
               /\ elf'[x].parent \in Known' /\ elf'[elf'[x].parent].kind = "ar"
      BY <1>1, <1>3, <1>5, <3>1 DEF Sound, HandlesAreCounted
    <3>4. handles'[x] = 0 => handles[x] = 0
      BY <1>4, <3>1 DEF Sound
    <3> QED
      BY <1>5, <3>1, <3>2, <3>3, <3>4 DEF Sound, HandlesAreCounted
  <2> QED
    BY <2>1, <2>2 DEF HandlesAreCounted
<1>7. LostApart' /\ ArchivesParsed'
  BY <1>1, <1>3 DEF Sound, LostApart, ArchivesParsed
<1> QED
  BY <1>1, <1>2, <1>6, <1>7 DEF Sound

LEMMA EndSound ==
  ASSUME Sound, ending = None, NEW e \in Ids, handles[e] > 0, End(e)
  PROVE  Sound' /\ Known' = Known
<1>1. /\ live \subseteq Ids /\ lost \subseteq live /\ None \notin Ids
      /\ Known' = Known /\ Known \subseteq Ids /\ e \in Known
  BY ElfDescAssumption, HeldIsKnown DEF Sound, Known, End
<1>2. elf[e].activations = handles[e] /\ handles[e] \in Nat
  BY <1>1 DEF Sound, HandlesAreCounted
<1>3. elf' \in [Ids -> Elf] /\ handles' \in [Ids -> Nat]
  BY <1>2 DEF Sound, Elf, End
<1>4. \A x \in Ids : /\ elf'[x].kind = elf[x].kind /\ elf'[x].obj = elf[x].obj
                     /\ elf'[x].parent = elf[x].parent
                     /\ elf'[x].nchildren = elf[x].nchildren
                     /\ x # e => elf'[x].activations = elf[x].activations
  BY DEF Sound, Elf, End
<1>5. elf'[e].activations = elf[e].activations - 1 /\ handles'[e] = handles[e] - 1
  BY DEF Sound, Elf, End
<1>6. \A x \in Ids : Children(x)' = Children(x) /\ Waits(x)' = Waits(x)
  BY <1>1, <1>4 DEF Children, Waits, End
<1>7. /\ ending' \in Ids \cup {None}
      /\ handles'[e] = 0 => ending' = e
      /\ ending' # None => ending' = e /\ handles'[e] = 0
  BY <1>1, <1>2, <1>5 DEF End
<1>8. HandlesAreCounted'
  <2>1. \A x \in Ids \ Known' : handles'[x] = 0
    BY <1>1 DEF Sound, HandlesAreCounted, End
  <2>2. ASSUME NEW x \in Known'
        PROVE  /\ elf'[x].activations = handles'[x]
               /\ elf'[x].nchildren = Cardinality(Children(x)')
               /\ elf'[x].parent # None =>
                    /\ elf'[x].parent \in Known' /\ elf'[elf'[x].parent].kind = "ar"
               /\ handles'[x] = 0 => x = ending' \/ Waits(x)'
    <3>1. x \in Ids /\ x \in Known /\ (x # e => handles'[x] = handles[x])
      BY <1>1 DEF End, Sound
    <3>2. elf'[x].activations = handles'[x]
      BY <1>2, <1>4, <1>5, <3>1 DEF Sound, HandlesAreCounted
    <3>3. /\ elf'[x].nchildren = Cardinality(Children(x)')
          /\ elf'[x].parent # None =>
               /\ elf'[x].parent \in Known' /\ elf'[elf'[x].parent].kind = "ar"
      BY <1>1, <1>4, <1>6, <3>1 DEF Sound, HandlesAreCounted
    <3>4. x # e /\ handles'[x] = 0 => Waits(x)
      BY <1>1, <3>1 DEF Sound, HandlesAreCounted
    <3> QED
      BY <1>6, <1>7, <3>1, <3>2, <3>3, <3>4
  <2>3. ending' # None => ending' \in Known' /\ handles'[ending'] = 0
    BY <1>1, <1>7
  <2> QED
    BY <2>1, <2>2, <2>3 DEF HandlesAreCounted
<1>9. LostApart' /\ ArchivesParsed'
  BY <1>1, <1>4 DEF Sound, LostApart, ArchivesParsed, End
<1> QED
  BY <1>1, <1>3, <1>7, <1>8, <1>9 DEF Sound, End

\* A descriptor whose turn it is in elf_end, and that waits for no member,
\* has none.
LEMMA NoMembersLeft ==
  ASSUME Sound, ending # None, ~Waits(ending)
  PROVE  Children(ending) = {}
<1>1. ending \in Known /\ Known \subseteq live /\ live \subseteq Ids
  BY DEF Sound, HandlesAreCounted, Known
<1>2. ASSUME NEW m \in live, elf[m].parent = ending PROVE FALSE
  <2>1. m \in Known
    BY <1>2, <1>1 DEF Sound, LostApart, Known
  <2>2. elf[ending].kind = "ar"
    BY <1>2, <2>1 DEF Sound, HandlesAreCounted
  <2>3. elf[ending].nchildren = 0
    BY <1>1, <2>2 DEF Waits, Sound, Elf
  <2>4. Cardinality(Children(ending)) = 0
    BY <1>1, <2>3 DEF Sound, HandlesAreCounted
  <2>5. Children(ending) = {}
    BY <1>1, <2>4, FinitelyMany, FS_EmptySet
  <2> QED
    BY <1>2, <2>5 DEF Children
<1> QED
  BY <1>2 DEF Children

LEMMA ReleaseSound ==
  ASSUME Sound, Release
  PROVE  Sound'
<1>1. CASE Waits(ending)
  <2>1. /\ Known' = Known /\ ending' = None /\ ending # None
        /\ UNCHANGED <<live, elf, lost, handles>>
    BY <1>1 DEF Release, Known, memory, ghosts
  <2>2. \A d \in Ids : Children(d)' = Children(d) /\ Waits(d)' = Waits(d)
    BY <2>1 DEF Children, Waits
  <2>3. HandlesAreCounted'
    <3>1. Known \subseteq Ids
      BY DEF Sound, Known
    <3> QED
      BY <1>1, <2>1, <2>2, <3>1 DEF Sound, HandlesAreCounted
  <2>4. LostApart' /\ ArchivesParsed'
    BY <2>1 DEF Sound, LostApart, ArchivesParsed
  <2> QED
    BY <2>1, <2>3, <2>4 DEF Sound
<1>2. CASE ~Waits(ending)
  <2> DEFINE e == ending
             p == elf[e].parent
  <2>1. /\ e \in Known /\ e \in Ids /\ e \notin lost /\ handles[e] = 0 /\ e # None
        /\ live \subseteq Ids /\ lost \subseteq live /\ Known \subseteq Ids
        /\ p \in Known \cup {None} /\ None \notin Ids
    BY ElfDescAssumption DEF Release, Sound, HandlesAreCounted, Known
  <2>2. Children(e) = {}
    BY <1>2, <2>1, NoMembersLeft
  <2>3. /\ live' = live \ {e} /\ lost' = lost /\ handles' = handles
        /\ elf' = [d \in Ids |->
                     IF d = e THEN Blank
                     ELSE IF d = p THEN [elf[d] EXCEPT !.nchildren = @ - 1] ELSE elf[d]]
        /\ ending' = IF p # None /\ elf[p].activations = 0 THEN p ELSE None
    BY <1>2 DEF Release, ghosts, Onward
  <2> HIDE DEF e, p
  <2>4. Known' = Known \ {e} /\ p # e
    <3>1. p # e
      BY <2>1, <2>2 DEF Children, Known, p
    <3> QED
      BY <3>1, <2>3 DEF Known
  <2>5. elf \in [Ids -> Elf]
    BY DEF Sound
  <2>6. \A d \in Ids \ {e} :
          /\ elf'[d].kind = elf[d].kind /\ elf'[d].obj = elf[d].obj
          /\ elf'[d].activations = elf[d].activations
          /\ elf'[d].parent = elf[d].parent
          /\ elf'[d].nchildren = IF d = p THEN elf[d].nchildren - 1 ELSE elf[d].nchildren
    BY <2>3, <2>5 DEF Elf
  <2>7. \A d \in Ids \ {e} : Children(d)' = Children(d) \ {e}
    BY <2>1, <2>3, <2>6 DEF Children
  <2>8. \A d \in Ids \ {e} : e \in Children(d) <=> d = p
    BY <2>1 DEF Children, p, Known
  <2>9. \A d \in Ids \ {e} : Cardinality(Children(d)') =
          IF d = p THEN Cardinality(Children(d)) - 1 ELSE Cardinality(Children(d))
    BY <2>1, <2>7, <2>8, FinitelyMany, FS_RemoveElement
  <2>10. p # None => elf[p].nchildren - 1 \in Nat
    <3>1. SUFFICES ASSUME p # None PROVE elf[p].nchildren - 1 \in Nat
      OBVIOUS
    <3>2. p \in Known /\ p \in Ids \ {e}
      BY <2>1, <2>4, <3>1
    <3>3. elf[p].nchildren = Cardinality(Children(p))
      BY <3>2 DEF Sound, HandlesAreCounted
    <3>4. Cardinality(Children(p)) # 0
      BY <2>1, <2>8, <3>2, FinitelyMany, FS_EmptySet
    <3> QED
      BY <2>1, <3>3, <3>4, FinitelyMany
  <2>11. elf' \in [Ids -> Elf]
    <3>1. p \in Ids => [elf[p] EXCEPT !.nchildren = @ - 1] \in Elf
      BY <2>1, <2>5, <2>10 DEF Elf
    <3> QED
      BY <2>3, <2>5, <3>1, BlankType
  <2>12. HandlesAreCounted'
    <3>1. \A d \in Ids \ Known' : handles'[d] = 0
      BY <2>1, <2>3, <2>4 DEF Sound, HandlesAreCounted
    <3>2. ASSUME NEW d \in Known'
          PROVE  /\ elf'[d].activations = handles'[d]
                 /\ elf'[d].nchildren = Cardinality(Children(d)')
                 /\ elf'[d].parent # None =>
                      /\ elf'[d].parent \in Known' /\ elf'[elf'[d].parent].kind = "ar"
                 /\ handles'[d] = 0 => d = ending' \/ Waits(d)'
      <4>1. d \in Known /\ d \in Ids \ {e} /\ d \in live
        BY <2>1, <2>4 DEF Known
      <4>2. elf'[d].activations = handles'[d]
        BY <2>3, <2>6, <4>1 DEF Sound, HandlesAreCounted
      <4>3. elf'[d].nchildren = Cardinality(Children(d)')
        BY <2>6, <2>9, <4>1 DEF Sound, HandlesAreCounted
      <4>4. elf'[d].parent # None =>
              /\ elf'[d].parent \in Known' /\ elf'[elf'[d].parent].kind = "ar"
        <5>1. elf[d].parent # e
          BY <2>2, <4>1 DEF Children
        <5>2. elf[d].parent # None =>
                elf[d].parent \in Known /\ elf[elf[d].parent].kind = "ar"
          BY <4>1 DEF Sound, HandlesAreCounted
        <5> QED
          BY <2>1, <2>4, <2>6, <4>1, <5>1, <5>2
      <4>5. handles'[d] = 0 => d = ending' \/ Waits(d)'
        <5>1. CASE d = p
          BY <2>1, <2>3, <4>1, <5>1 DEF Sound, HandlesAreCounted
        <5>2. CASE d # p
          <6>1. Waits(d)' = Waits(d)
            BY <2>6, <4>1, <5>2 DEF Waits
          <6> QED
            BY <2>3, <4>1, <6>1 DEF Sound, HandlesAreCounted, e
        <5> QED
          BY <5>1, <5>2
      <4> QED
        BY <4>2, <4>3, <4>4, <4>5
    <3>3. ending' # None => ending' \in Known' /\ handles'[ending'] = 0
      BY <2>1, <2>3, <2>4 DEF Sound, HandlesAreCounted
    <3> QED
      BY <3>1, <3>2, <3>3 DEF HandlesAreCounted
  <2>13. LostApart' /\ ArchivesParsed'
    BY <2>1, <2>3, <2>6 DEF Sound, LostApart, ArchivesParsed
  <2> QED
    BY <2>1, <2>3, <2>11, <2>12, <2>13 DEF Sound
<1> QED
  BY <1>1, <1>2

-----------------------------------------------------------------------------
(* What the calls change *)

\* The six things that a step may do to the descriptors.
Adding ==
  \E q \in Ids \ live, x \in Elf, a \in Known \cup {None} :
    /\ x.activations = 1 /\ x.nchildren = 0 /\ x.parent = a
    /\ x.kind = "ar" => x.obj \in Objs
    /\ a # None => elf[a].kind = "ar"
    /\ Born(q, x, a)
Losing ==
  \E q \in Ids \ live, x \in Elf :
    /\ x.parent = None /\ (x.kind = "ar" => x.obj \in Objs)
    /\ live' = live \cup {q} /\ lost' = lost \cup {q}
    /\ elf' = [elf EXCEPT ![q] = x] /\ UNCHANGED <<handles, ending>>
Retaining ==
  \E d \in Ids :
    /\ handles[d] > 0
    /\ elf' = [elf EXCEPT ![d].activations = @ + 1]
    /\ handles' = [handles EXCEPT ![d] = @ + 1] /\ UNCHANGED <<live, lost, ending>>
Dropping == \E d \in Ids : handles[d] > 0 /\ End(d)
Change ==
  \/ Steered \/ Release
  \/ ending = None /\ (Adding \/ Losing \/ Retaining \/ Dropping)

LEMMA ChangeSound ==
  ASSUME Sound, Change
  PROVE  Sound'
<1>1. CASE Steered
  BY <1>1, SteeredSound
<1>2. CASE Release
  BY <1>2, ReleaseSound
<1>3. CASE ending = None /\ Adding
  BY <1>3, BornSound DEF Adding
<1>4. CASE ending = None /\ Losing
  BY <1>4, LostSound DEF Losing
<1>5. CASE ending = None /\ Retaining
  BY <1>5, RetainSound DEF Retaining
<1>6. CASE ending = None /\ Dropping
  BY <1>6, EndSound DEF Dropping
<1> QED
  BY <1>1, <1>2, <1>3, <1>4, <1>5, <1>6 DEF Change

\* What has no count to it.
Rest ==
  /\ ready \in BOOLEAN /\ images \subseteq Images /\ strays \subseteq Images
  /\ calls \in 0..MaxCalls

LEMMA TypeParts ==
  TypeOK <=> /\ Rest
             /\ live \subseteq Ids /\ elf \in [Ids -> Elf] /\ handles \in [Ids -> Nat]
             /\ lost \subseteq live /\ ending \in Ids \cup {None}
             /\ loop.at \in {"idle", "begin", "next", "end", "over"}
             /\ loop.ar \in Ids \cup {None} /\ loop.e \in Ids \cup {None}
             /\ loop.cmd \in {"null", "read"} /\ loop.whole \in BOOLEAN
BY DEF TypeOK, Rest

\* The three parts of a step that keep the invariant.
Good == Change /\ Rest' /\ LoopCounted'

LEMMA GoodKeeps ==
  ASSUME IInv, Good
  PROVE  IInv'
<1>1. Sound' /\ LoopCounted' /\ Rest'
  BY ChangeSound DEF IInv, Good
<1>2. TypeOK'
  BY <1>1 DEF TypeOK, Sound, LoopCounted, LoopRecord, Rest
<1> QED
  BY <1>1, <1>2 DEF IInv

\* A counted call keeps to its bound.
LEMMA CountType ==
  ASSUME Rest, NEW who, Call(who), Count(who)
  PROVE  calls' \in 0..MaxCalls
BY ElfDescAssumption DEF Rest, Call, Count

\* The loop after a call that returns d, or None for NULL.
LEMMA ReturnLoop ==
  ASSUME Sound, LoopCounted, NEW who \in {"client", "loop"}, NEW d \in Ids \cup {None},
         who = "loop" => loop.at = "begin", Return(who, d),
         handles' \in [Ids -> Nat], \A x \in Ids : handles'[x] >= handles[x],
         d # None => handles'[d] >= LoopHolds(d) + 1,
         \A x \in Ids : handles[x] > 0 => elf'[x].kind = elf[x].kind
  PROVE  LoopCounted'
<1>1. /\ None \notin Ids /\ handles \in [Ids -> Nat] /\ elf \in [Ids -> Elf]
      /\ loop \in LoopRecord
  BY ElfDescAssumption DEF Sound, LoopCounted
<1>2. loop.at # "idle" => /\ loop.ar \in Ids /\ elf[loop.ar].kind = "ar"
                          /\ handles[loop.ar] > 0 /\ elf'[loop.ar].kind = "ar"
  <2>1. SUFFICES ASSUME loop.at # "idle" PROVE handles[loop.ar] > 0
    BY DEF LoopCounted
  <2>2. loop.ar \in Ids /\ LoopHolds(loop.ar) \in {1, 2}
    BY <2>1, <1>1 DEF LoopCounted, LoopHolds
  <2> QED
    BY <2>2, <1>1 DEF LoopCounted
<1>3. CASE who = "client"
  <2>1. loop' = loop
    BY <1>3 DEF Return
  <2>2. \A x \in Ids : LoopHolds(x)' = LoopHolds(x) /\ LoopHolds(x) \in Nat
    BY <2>1 DEF LoopHolds
  <2>3. \A x \in Ids : handles'[x] >= LoopHolds(x)'
    BY <1>1, <2>2 DEF LoopCounted
  <2> QED
    BY <1>1, <1>2, <2>1, <2>3 DEF LoopCounted
<1>4. CASE who = "loop" /\ d = None
  <2>1. loop' = [loop EXCEPT !.at = "over"] /\ loop.at = "begin"
    BY <1>4 DEF Return
  <2>2. loop' \in LoopRecord /\ loop'.at = "over" /\ loop'.ar = loop.ar /\ loop'.e = loop.e
    BY <1>1, <2>1 DEF LoopRecord
  <2>3. \A x \in Ids : handles'[x] >= LoopHolds(x)'
    <3>1. \A x \in Ids : LoopHolds(x)' = LoopHolds(x) /\ LoopHolds(x) \in Nat
      BY <2>2 DEF LoopHolds
    <3> QED
      BY <1>1, <3>1 DEF LoopCounted
  <2> QED
    BY <1>2, <2>1, <2>2, <2>3 DEF LoopCounted
<1>5. CASE who = "loop" /\ d # None
  <2>1. /\ loop.at = "begin" /\ loop.e = None /\ d \in Ids
        /\ loop' = [loop EXCEPT !.at = "next", !.e = d,
                      !.seen = IF loop.whole /\ Len(@) < MaxSeen
                               THEN Append(@, elf[loop.ar].next) ELSE @]
    BY <1>5 DEF Return, LoopCounted
  <2>2. elf[loop.ar].next \in Nat
    BY <1>1, <1>2, <2>1 DEF Elf
  <2> DEFINE s == IF loop.whole /\ Len(loop.seen) < MaxSeen
                  THEN Append(loop.seen, elf[loop.ar].next) ELSE loop.seen
  <2>5. s \in Seq(Nat)
    BY <1>1, <2>2 DEF LoopRecord
  <2>6. loop' = [loop EXCEPT !.at = "next", !.e = d, !.seen = s]
    BY <2>1
  <2> HIDE DEF s
  <2>3. loop' \in LoopRecord /\ loop'.at = "next" /\ loop'.ar = loop.ar /\ loop'.e = d
    BY <1>1, <2>1, <2>5, <2>6 DEF LoopRecord
  <2>4. \A x \in Ids : handles'[x] >= LoopHolds(x)'
    <3>1. \A x \in Ids : /\ x # d => LoopHolds(x)' = LoopHolds(x)
                         /\ x = d => LoopHolds(x)' = LoopHolds(x) + 1
                         /\ LoopHolds(x) \in Nat
      BY <1>1, <2>1, <2>3 DEF LoopHolds
    <3> QED
      BY <1>1, <2>1, <3>1 DEF LoopCounted
  <2> QED
    BY <1>2, <2>1, <2>3, <2>4 DEF LoopCounted
<1> QED
  BY <1>3, <1>4, <1>5

-----------------------------------------------------------------------------
(* The calls, one by one *)

Who == {"client", "loop"}

LEMMA PlaceIsFree == Ids \ live # {} => Place \in Ids \ live
BY DEF Place

LEMMA NothingSteered ==
  ASSUME Sound, UNCHANGED <<live, elf, lost, handles, ending>>
  PROVE  Steered
BY DEF Sound, Steered

LEMMA RefuseGood ==
  ASSUME IInv, NEW who \in Who, who = "loop" => loop.at = "begin",
         Refuse(who), UNCHANGED <<ready, ending>>
  PROVE  Good
<1>1. UNCHANGED <<live, elf, images, handles, lost, strays, calls>> /\ Return(who, None)
  BY DEF Refuse, memory, ghosts
<1>2. Steered
  BY <1>1, NothingSteered DEF IInv
<1>3. LoopCounted'
  <2>1. handles \in [Ids -> Nat] /\ None \notin Ids
    BY ElfDescAssumption DEF IInv, Sound
  <2>2. \A x \in Ids : handles'[x] >= handles[x] /\ elf'[x].kind = elf[x].kind
    BY <1>1, <2>1
  <2> QED
    BY <1>1, <2>1, <2>2, ReturnLoop DEF IInv, Who
<1>4. Rest'
  BY <1>1 DEF IInv, TypeOK, Rest
<1> QED
  BY <1>2, <1>3, <1>4 DEF Good, Change

LEMMA FaultGood ==
  ASSUME IInv, NEW who \in Who, who = "loop" => loop.at = "begin",
         Fault(who), UNCHANGED <<ready, ending>>
  PROVE  Good
<1>1. UNCHANGED <<live, elf, images, handles, lost, strays, calls>>
  BY DEF Fault, memory, ghosts
<1>2. Steered
  BY <1>1, NothingSteered DEF IInv
<1>3. LoopCounted'
  <2>1. CASE who = "client"
    <3>1. loop' = loop
      BY <2>1 DEF Fault
    <3> QED
      BY <1>1, <3>1 DEF IInv, LoopCounted, LoopHolds
  <2>2. CASE who = "loop"
    <3>1. loop' = [loop EXCEPT !.at = "over", !.whole = FALSE, !.seen = <<>>]
      BY <2>2 DEF Fault
    <3>2. <<>> \in Seq(Nat) /\ loop \in LoopRecord /\ loop.at = "begin"
      BY <2>2 DEF IInv, LoopCounted
    <3>3. /\ loop' \in LoopRecord /\ loop'.at = "over" /\ loop'.ar = loop.ar
          /\ loop'.e = loop.e
      BY <3>1, <3>2 DEF LoopRecord
    <3>4. \A d \in Ids : LoopHolds(d)' = LoopHolds(d)
      BY <3>3 DEF LoopHolds
    <3> QED
      BY <1>1, <3>2, <3>3, <3>4 DEF IInv, LoopCounted
  <2> QED
    BY <2>1, <2>2 DEF Who
<1>4. Rest'
  BY <1>1 DEF IInv, TypeOK, Rest
<1> QED
  BY <1>2, <1>3, <1>4 DEF Good, Change

LEMMA AddGood ==
  ASSUME IInv, NEW who \in Who, who = "loop" => loop.at = "begin", Call(who), Count(who),
         NEW q \in Ids \ live, NEW x \in Elf, NEW a \in Known \cup {None},
         x.activations = 1, x.nchildren = 0, x.parent = a,
         x.kind = "ar" => x.obj \in Objs, a # None => elf[a].kind = "ar",
         Born(q, x, a), Return(who, q),
         images' \subseteq Images, strays' \subseteq Images, ready' = ready
  PROVE  Good
<1>1. ending = None /\ Adding
  BY DEF Call, Adding
<1>2. LoopCounted'
  <2>1. /\ handles \in [Ids -> Nat] /\ handles' = [handles EXCEPT ![q] = 1]
        /\ Known \subseteq Ids /\ None \notin Ids /\ elf \in [Ids -> Elf]
    BY ElfDescAssumption DEF IInv, Sound, Born, Known
  <2>2. handles[q] = 0 /\ LoopHolds(q) = 0
    <3>1. handles[q] = 0
      BY DEF IInv, Sound, HandlesAreCounted, Known
    <3>2. LoopHolds(q) \in Nat
      BY DEF LoopHolds
    <3> QED
      BY <3>1, <3>2 DEF IInv, LoopCounted
  <2>3. \A d \in Ids : handles'[d] >= handles[d]
    BY <2>1, <2>2
  <2>4. \A d \in Ids : handles[d] > 0 => elf'[d].kind = elf[d].kind
    BY <2>1, <2>2 DEF Born, Elf
  <2>5. handles' \in [Ids -> Nat] /\ handles'[q] = LoopHolds(q) + 1
    BY <2>1, <2>2
  <2> QED
    BY <2>3, <2>4, <2>5, ReturnLoop DEF IInv, Who
<1>3. Rest'
  BY CountType DEF IInv, TypeOK, Rest
<1> QED
  BY <1>1, <1>2, <1>3 DEF Good, Change

LEMMA GiveGood ==
  ASSUME IInv, NEW who \in Who, who = "loop" => loop.at = "begin", Call(who),
         Ids \ live # {}, NEW x \in Elf,
         x.activations = 1, x.nchildren = 0, x.parent = None,
         x.kind = "ar" => x.obj \in Objs,
         Give(who, Place, x),
         images' \subseteq Images, strays' \subseteq Images, UNCHANGED <<ready, ending, lost>>
  PROVE  Good
<1>1. PICK q \in Ids \ live : q = Place
  BY PlaceIsFree
<1>2. Born(q, x, None)
  <2>1. /\ live' = live \cup {q} /\ handles' = [handles EXCEPT ![q] = 1]
        /\ elf' = [elf EXCEPT ![q] = x]
    BY <1>1 DEF Give
  <2>2. lost' = lost /\ ending' = ending
    OBVIOUS
  <2>3. elf \in [Ids -> Elf] /\ None \notin Ids
    BY ElfDescAssumption DEF IInv, Sound
  <2>4. [elf EXCEPT ![q] = x] = [d \in Ids |-> IF d = q THEN x ELSE elf[d]]
    BY <2>3
  <2>5. \A d \in Ids : d # None
    BY <2>3
  <2>6. elf' = [d \in Ids |->
                  IF d = q THEN x
                  ELSE IF d = None THEN [elf[d] EXCEPT !.nchildren = @ + 1] ELSE elf[d]]
    BY <2>1, <2>4, <2>5
  <2> QED
    BY <2>1, <2>2, <2>6 DEF Born
<1>3. Count(who) /\ Return(who, q)
  BY <1>1 DEF Give
<1> QED
  BY <1>2, <1>3, AddGood

LEMMA LoseGood ==
  ASSUME IInv, NEW who \in Who, who = "loop" => loop.at = "begin", Call(who),
         Ids \ live # {}, NEW x \in Elf,
         x.parent = None, x.kind = "ar" => x.obj \in Objs,
         Lose(who, Place, x), Return(who, None),
         UNCHANGED <<ready, ending, images, handles, strays>>
  PROVE  Good
<1>1. PICK q \in Ids \ live : q = Place
  BY PlaceIsFree
<1>2. ending = None /\ Losing
  BY <1>1 DEF Lose, Losing, Call
<1>3. LoopCounted'
  <2>1. handles \in [Ids -> Nat] /\ elf \in [Ids -> Elf] /\ None \notin Ids
    BY ElfDescAssumption DEF IInv, Sound
  <2>2. handles[q] = 0
    BY DEF IInv, Sound, HandlesAreCounted, Known
  <2>3. \A d \in Ids : handles'[d] >= handles[d]
    BY <2>1
  <2>4. \A d \in Ids : handles[d] > 0 => elf'[d].kind = elf[d].kind
    BY <1>1, <2>1, <2>2 DEF Lose
  <2>5. handles' \in [Ids -> Nat]
    BY <2>1
  <2> QED
    BY <2>1, <2>3, <2>4, <2>5, ReturnLoop DEF IInv, Who
<1>4. Rest'
  BY CountType DEF Lose, IInv, TypeOK, Rest
<1> QED
  BY <1>2, <1>3, <1>4 DEF Good, Change

LEMMA ElfMemoryGood ==
  ASSUME IInv, NEW o \in Memory, NEW r \in BOOLEAN, ElfMemory(o, r)
  PROVE  Good
<1>1. /\ Call("client") /\ UNCHANGED <<ready, ending>> /\ "client" \in Who
      /\ o \in Objs /\ Size[o] \in Nat
  BY ElfDescAssumption DEF ElfMemory, Who
<1> DEFINE k == Parsed(o, r)
<1>2. CASE Fault("client")
  BY <1>1, <1>2, FaultGood
<1>3. CASE Refuse("client")
  BY <1>1, <1>3, RefuseGood
<1>4. CASE /\ Ids \ live # {} /\ k \in {"none", "elf", "ar"}
           /\ Give("client", Place, Fresh(o, k, Size[o])) /\ UNCHANGED <<images, lost, strays>>
  <2>1. images' \subseteq Images /\ strays' \subseteq Images
    BY <1>4 DEF IInv, TypeOK
  <2> QED
    BY <1>1, <1>4, <2>1, FreshType, GiveGood
<1>5. CASE /\ Ids \ live # {} /\ k = "lost" /\ Lose("client", Place, Fresh(o, "ar", Size[o]))
           /\ UNCHANGED <<images, handles, strays, loop>>
  <2>1. Return("client", None)
    BY <1>5 DEF Return
  <2> QED
    BY <1>1, <1>5, <2>1, FreshType, LoseGood
<1> QED
  BY <1>2, <1>3, <1>4, <1>5 DEF ElfMemory

LEMMA OpenObjectGood ==
  ASSUME IInv, Call("client"), NEW fd \in Fds, NEW c \in {"read", "rdwr", "write"},
         NEW r \in BOOLEAN, OpenObject(fd, c, r), UNCHANGED <<ready, ending>>
  PROVE  Good
<1> DEFINE o == FileObj[fd]
           k == Parsed(o, r)
           opened == [Fresh(o, k, Size[o]) EXCEPT !.image = ImagePlace,
                        !.rawfile = "owned", !.fd = fd, !.cmd = c]
<1>1. "client" \in Who /\ o \in Objs /\ Size[o] \in Nat
  BY ElfDescAssumption DEF Who
<1>2. CASE Fault("client")
  BY <1>1, <1>2, FaultGood
<1>3. CASE /\ Ids \ live # {}
           /\ Give("client", Place,
                   [Blank EXCEPT !.kind = "elf", !.activations = 1, !.fd = fd, !.cmd = c])
           /\ UNCHANGED <<images, lost, strays>>
  <2> DEFINE x == [Blank EXCEPT !.kind = "elf", !.activations = 1, !.fd = fd, !.cmd = c]
  <2>1. /\ x \in Elf /\ x.activations = 1 /\ x.nchildren = 0 /\ x.parent = None
        /\ x.kind = "elf"
    BY DEF Blank, Elf
  <2>2. images' \subseteq Images /\ strays' \subseteq Images
    BY <1>3 DEF IInv, TypeOK
  <2> HIDE DEF x
  <2> QED
    BY <1>1, <1>3, <2>1, <2>2, GiveGood DEF x
<1>4. CASE /\ Ids \ live # {} /\ Images \ images # {} /\ k \in {"none", "elf", "ar"}
           /\ Give("client", Place, opened)
           /\ images' = images \cup {ImagePlace} /\ UNCHANGED <<lost, strays>>
  <2>1. ImagePlace \in Images
    BY <1>4 DEF ImagePlace
  <2>2. /\ opened \in Elf /\ opened.activations = 1 /\ opened.nchildren = 0
        /\ opened.parent = None /\ opened.obj = o
    <3> DEFINE f == Fresh(o, k, Size[o])
    <3>1. /\ f \in Elf /\ f.activations = 1 /\ f.nchildren = 0 /\ f.parent = None
          /\ f.obj = o
      BY <1>1, <1>4, FreshType
    <3>2. opened = [f EXCEPT !.image = ImagePlace, !.rawfile = "owned", !.fd = fd, !.cmd = c]
      OBVIOUS
    <3> HIDE DEF f, o, k, opened
    <3>3. /\ opened.activations = f.activations /\ opened.nchildren = f.nchildren
          /\ opened.parent = f.parent /\ opened.obj = f.obj
      BY <3>1, <3>2 DEF Elf
    <3>4. opened \in Elf
      BY <2>1, <3>1, <3>2 DEF Elf
    <3> QED
      BY <3>1, <3>3, <3>4
  <2>3. images' \subseteq Images /\ strays' \subseteq Images
    BY <1>4, <2>1 DEF IInv, TypeOK
  <2> HIDE DEF opened
  <2> QED
    BY <1>1, <1>4, <2>2, <2>3, GiveGood
<1>5. CASE /\ Images \ images # {}
           /\ images' = images \cup {ImagePlace} /\ strays' = strays \cup {ImagePlace}
           /\ Count("client") /\ UNCHANGED <<live, elf, handles, lost, loop>>
  <2>1. ImagePlace \in Images
    BY <1>5 DEF ImagePlace
  <2>2. Rest'
    BY <1>5, <2>1, CountType DEF IInv, TypeOK, Rest
  <2>3. Steered
    BY <1>5, NothingSteered DEF IInv
  <2>4. LoopCounted'
    BY <1>5 DEF IInv, LoopCounted, LoopHolds
  <2> QED
    BY <2>2, <2>3, <2>4 DEF Good, Change
<1>6. CASE /\ Ids \ live # {} /\ Lose("client", Place, Fresh(o, "ar", Size[o]))
           /\ UNCHANGED <<images, handles, strays, loop>>
  <2>1. Return("client", None)
    BY <1>6 DEF Return
  <2> QED
    BY <1>1, <1>6, <2>1, FreshType, LoseGood
<1> QED
  BY <1>2, <1>3, <1>4, <1>5, <1>6 DEF OpenObject

LEMMA OpenMemberGood ==
  ASSUME IInv, NEW who \in Who, who = "loop" => loop.at = "begin", Call(who),
         NEW c \in {"read", "rdwr", "write"}, NEW a \in Ids, handles[a] > 0,
         elf[a].kind = "ar", OpenMember(who, c, a), UNCHANGED <<ready, ending>>
  PROVE  Good
<1> DEFINE n == elf[a].next
           h == Hdr[elf[a].obj][n]
           fits == /\ n # 0 /\ n \in DOMAIN Hdr[elf[a].obj]
                   /\ n + ArHdr + h.len <= elf[a].size
           k == Parsed(h.obj, TRUE)
           member == [Fresh(h.obj, k, h.len - h.skip) EXCEPT
                         !.fd = elf[a].fd, !.cmd = c, !.image = elf[a].image,
                         !.parent = a, !.off = n + ArHdr + h.skip]
<1>1. /\ a \in Known /\ elf[a] \in Elf /\ elf[a].obj \in Objs /\ n \in Nat
      /\ a \in Ids /\ (a # Place \/ Ids \ live = {})
  <2>1. Sound
    BY DEF IInv
  <2>2. a \in Known /\ a \in live /\ a \in Ids
    BY <2>1, HeldIsKnown DEF Known
  <2>3. elf[a] \in Elf
    BY <2>1 DEF Sound
  <2>4. elf[a].obj \in Objs
    BY <2>1, <2>2 DEF Sound, ArchivesParsed
  <2>5. n \in Nat
    BY <2>3 DEF Elf
  <2> QED
    BY <2>2, <2>3, <2>4, <2>5, PlaceIsFree
<1>2. fits => h \in Header /\ h.obj \in Objs /\ h.len - h.skip \in Nat /\ h.skip \in Nat
  <2> SUFFICES ASSUME fits
               PROVE  h \in Header /\ h.obj \in Objs /\ h.len - h.skip \in Nat /\ h.skip \in Nat
    OBVIOUS
  <2>1. \A m \in DOMAIN Hdr[elf[a].obj] : Hdr[elf[a].obj][m] \in Header
    BY <1>1, ElfDescAssumption
  <2>2. h \in Header
    BY <2>1
  <2>3. h.obj \in Objs /\ h.len \in Nat /\ h.skip \in Nat /\ h.skip <= h.len
    BY <2>2 DEF Header
  <2> HIDE DEF h
  <2> QED
    BY <2>2, <2>3
<1>3. CASE Refuse(who)
  BY <1>3, RefuseGood
<1>4. CASE Fault(who)
  BY <1>4, FaultGood
<1>5. CASE /\ fits /\ Ids \ live # {} /\ k \in {"none", "elf", "ar"}
           /\ live' = live \cup {Place} /\ Count(who) /\ Adopt(a, member)
           /\ handles' = [handles EXCEPT ![Place] = 1] /\ Return(who, Place)
           /\ UNCHANGED <<images, lost, strays>>
  <2>1. PICK q \in Ids \ live : q = Place
    BY <1>5, PlaceIsFree
  <2>2. /\ member \in Elf /\ member.activations = 1 /\ member.nchildren = 0
        /\ member.parent = a /\ member.obj = h.obj
    <3> DEFINE f == Fresh(h.obj, k, h.len - h.skip)
    <3>3. /\ h.obj \in Objs /\ h.len - h.skip \in Nat /\ h.skip \in Nat
          /\ k \in {"none", "elf", "ar"} /\ n \in Nat
      BY <1>1, <1>2, <1>5
    <3>4. elf[a].fd \in Fds \cup {None} /\ elf[a].image \in Images \cup {None}
      BY <1>1 DEF Elf
    <3> HIDE DEF n, h, k
    <3>1. f \in Elf /\ f.activations = 1 /\ f.nchildren = 0 /\ f.obj = h.obj
      BY <3>3, FreshType
    <3>2. /\ elf[a].fd \in Fds \cup {None} /\ elf[a].image \in Images \cup {None}
          /\ n + ArHdr + h.skip \in Nat
      BY <3>3, <3>4 DEF ArHdr
    <3> HIDE DEF f
    <3> QED
      BY <1>1, <3>1, <3>2 DEF Elf, f
  <2> HIDE DEF member
  <2>3. Born(q, member, a)
    <3>1. elf' = [elf EXCEPT ![a].nchildren = @ + 1, ![q] = member]
      BY <1>5, <2>1 DEF Adopt
    <3>2. a # q /\ a \in Ids /\ q \in Ids /\ elf \in [Ids -> Elf]
      BY <1>1, <2>1 DEF IInv, Sound, Known
    <3>3. elf' = [d \in Ids |->
                    IF d = q THEN member
                    ELSE IF d = a THEN [elf[d] EXCEPT !.nchildren = @ + 1] ELSE elf[d]]
      BY <3>1, <3>2
    <3>4. lost' = lost /\ ending' = ending
      BY <1>5
    <3>5. live' = live \cup {q} /\ handles' = [handles EXCEPT ![q] = 1]
      BY <1>5, <2>1
    <3> QED
      BY <3>3, <3>4, <3>5 DEF Born
  <2>4. images' \subseteq Images /\ strays' \subseteq Images
    BY <1>5 DEF IInv, TypeOK
  <2> QED
    BY <1>1, <1>2, <1>5, <2>1, <2>2, <2>3, <2>4, AddGood
<1>6. CASE /\ fits /\ Ids \ live # {} /\ Lose(who, Place, Fresh(h.obj, "ar", h.len - h.skip))
           /\ Return(who, None) /\ UNCHANGED <<images, handles, strays>>
  <2> DEFINE f == Fresh(h.obj, "ar", h.len - h.skip)
  <2>1. h.obj \in Objs /\ h.len - h.skip \in Nat
    BY <1>2, <1>6
  <2> HIDE DEF h
  <2>2. f \in Elf /\ f.parent = None /\ f.obj \in Objs
    BY <2>1, FreshType
  <2>3. Ids \ live # {} /\ Lose(who, Place, f)
    BY <1>6
  <2>4. Return(who, None) /\ UNCHANGED <<ready, ending, images, handles, strays>>
    BY <1>6
  <2> HIDE DEF f
  <2> QED
    BY <2>2, <2>3, <2>4, LoseGood
<1> QED
  BY <1>3, <1>4, <1>5, <1>6 DEF OpenMember

LEMMA ActivateGood ==
  ASSUME IInv, NEW who \in Who, who = "loop" => loop.at = "begin", Call(who),
         NEW a \in Ids, handles[a] > 0, Activate(who, a), UNCHANGED <<ready, ending>>
  PROVE  Good
<1>1. /\ elf' = [elf EXCEPT ![a].activations = @ + 1]
      /\ handles' = [handles EXCEPT ![a] = @ + 1] /\ Return(who, a) /\ Count(who)
      /\ UNCHANGED <<live, images, lost, strays>>
  BY DEF Activate
<1>2. ending = None /\ Retaining
  BY <1>1 DEF Call, Retaining
<1>3. LoopCounted'
  <2>1. handles \in [Ids -> Nat] /\ elf \in [Ids -> Elf]
    BY DEF IInv, Sound
  <2>2. handles' \in [Ids -> Nat] /\ \A d \in Ids : handles'[d] >= handles[d]
    BY <1>1, <2>1
  <2>3. \A d \in Ids : elf'[d].kind = elf[d].kind
    BY <1>1, <2>1 DEF Elf
  <2>4. handles'[a] >= LoopHolds(a) + 1
    <3>1. LoopHolds(a) \in Nat /\ handles[a] >= LoopHolds(a)
      BY DEF LoopHolds, IInv, LoopCounted
    <3> QED
      BY <1>1, <2>1, <3>1
  <2> QED
    BY <1>1, <2>2, <2>3, <2>4, ReturnLoop DEF IInv, Who
<1>4. Rest'
  BY <1>1, CountType DEF IInv, TypeOK, Rest
<1> QED
  BY <1>2, <1>3, <1>4 DEF Good, Change

LEMMA ElfBeginGood ==
  ASSUME IInv, NEW fd, NEW c \in {"null", "read", "rdwr", "write"}, NEW a \in Ids \cup {None},
         NEW who \in Who,
         who = "client" => fd \in Fds,
         who = "loop" => loop.at = "begin" /\ a # None /\ c # "write",
         ElfBegin(who, fd, c, a)
  PROVE  Good
<1> DEFINE given == IF c = "write" THEN None ELSE a
           refused == \/ ~ready \/ c = "null"
                      \/ given # None /\ c = "rdwr"
                      \/ given # None /\ elf[given].fd \notin {None, fd}
                      \/ given # None /\ c # elf[given].cmd
<1>1. /\ Call(who) /\ UNCHANGED <<ready, ending>> /\ (a # None => handles[a] > 0)
      /\ given \in Ids \cup {None} /\ (given # None => handles[given] > 0)
  BY DEF ElfBegin
<1>2. CASE Refuse(who)
  BY <1>1, <1>2, RefuseGood
<1>3. CASE ~refused /\ given = None /\ OpenObject(fd, c, TRUE)
  <2>1. who = "client" /\ c \in {"read", "rdwr", "write"}
    BY <1>3 DEF Who
  <2> QED
    BY <1>1, <1>3, <2>1, OpenObjectGood
<1>4. CASE ~refused /\ given # None /\ elf[given].kind = "ar" /\ OpenMember(who, c, given)
  <2>1. c \in {"read", "rdwr", "write"} /\ given \in Ids
    BY <1>1, <1>4
  <2> QED
    BY <1>1, <1>4, <2>1, OpenMemberGood
<1>5. CASE ~refused /\ given # None /\ Activate(who, given)
  BY <1>1, <1>5, ActivateGood
<1> QED
  BY <1>2, <1>3, <1>4, <1>5 DEF ElfBegin

\* The offset at which an archive stands is all that these calls change.
LEMMA MoveSteers ==
  ASSUME IInv, NEW p, NEW n \in Nat, elf' = [elf EXCEPT ![p].next = n],
         UNCHANGED <<live, lost, handles, ending>>
  PROVE  Steered
<1>1. elf \in [Ids -> Elf]
  BY DEF IInv, Sound
<1>2. CASE p \in Ids
  <2>1. [elf[p] EXCEPT !.next = n] \in Elf
    BY <1>1, <1>2 DEF Elf
  <2>2. elf' = [elf EXCEPT ![p] = [elf[p] EXCEPT !.next = n]]
    BY <1>1, <1>2
  <2>3. elf' \in [Ids -> Elf]
    BY <1>1, <2>1, <2>2
  <2>4. \A d \in Ids : elf'[d] = IF d = p THEN [elf[p] EXCEPT !.next = n] ELSE elf[d]
    BY <1>1, <2>2
  <2> QED
    BY <1>1, <1>2, <2>3, <2>4 DEF Steered, Elf
<1>3. CASE p \notin Ids
  BY <1>1, <1>3 DEF Steered
<1> QED
  BY <1>2, <1>3

LEMMA SteeredLoop ==
  ASSUME IInv, Steered, loop' \in LoopRecord, loop'.at = loop.at,
         loop'.ar = loop.ar, loop'.e = loop.e
  PROVE  LoopCounted'
<1>1. \A d \in Ids : LoopHolds(d)' = LoopHolds(d)
  BY DEF LoopHolds
<1> QED
  BY <1>1 DEF IInv, LoopCounted, Steered

LEMMA DisturbedLoop ==
  ASSUME IInv, NEW a, Disturbed(a) \/ UNCHANGED loop
  PROVE  /\ loop' \in LoopRecord /\ loop'.at = loop.at
         /\ loop'.ar = loop.ar /\ loop'.e = loop.e
<1>1. loop \in LoopRecord /\ <<>> \in Seq(Nat)
  BY DEF IInv, LoopCounted
<1> QED
  BY <1>1 DEF Disturbed, LoopRecord

LEMMA NextOffsetType ==
  ASSUME IInv, NEW e \in Ids
  PROVE  NextOffset(e) \in Nat
<1>1. elf[e].off \in Nat /\ elf[e].size \in Nat
  BY DEF IInv, Sound, Elf
<1> QED
  BY <1>1 DEF NextOffset

LEMMA MoveOnSteers ==
  ASSUME IInv, NEW e \in Ids, MoveOn(e), UNCHANGED <<live, lost, handles, ending>>
  PROVE  Steered
<1> DEFINE p == elf[e].parent
           n == IF NextOffset(e) >= elf[p].size THEN 0 ELSE NextOffset(e)
<1>1. n \in Nat /\ elf' = [elf EXCEPT ![p].next = n]
  BY NextOffsetType DEF MoveOn
<1> HIDE DEF n, p
<1> QED
  BY <1>1, MoveSteers

LEMMA ElfNextGood ==
  ASSUME IInv, NEW e \in Ids, ElfNext(e)
  PROVE  Good
<1>1. /\ Call("client") /\ Count("client")
      /\ UNCHANGED <<ready, live, images, handles, lost, strays, ending>>
  BY DEF ElfNext, ghosts
<1>2. Steered
  <2>1. CASE UNCHANGED elf
    BY <1>1, <2>1, NothingSteered DEF IInv
  <2>2. CASE MoveOn(e)
    BY <1>1, <2>2, MoveOnSteers
  <2> QED
    BY <2>1, <2>2 DEF ElfNext
<1>3. LoopCounted'
  BY <1>2, DisturbedLoop, SteeredLoop DEF ElfNext
<1>4. Rest'
  BY <1>1, CountType DEF IInv, TypeOK, Rest
<1> QED
  BY <1>2, <1>3, <1>4 DEF Good, Change

LEMMA ElfRandGood ==
  ASSUME IInv, NEW a \in Ids, NEW n \in Nat, ElfRand(a, n)
  PROVE  Good
<1>1. /\ Call("client") /\ Count("client")
      /\ UNCHANGED <<ready, live, images, handles, lost, strays, ending>>
  BY DEF ElfRand, ghosts
<1>2. Steered
  <2>1. CASE UNCHANGED elf
    BY <1>1, <2>1, NothingSteered DEF IInv
  <2>2. CASE elf' = [elf EXCEPT ![a].next = n]
    BY <1>1, <2>2, MoveSteers
  <2> QED
    BY <2>1, <2>2 DEF ElfRand
<1>3. LoopCounted'
  BY <1>2, DisturbedLoop, SteeredLoop DEF ElfRand
<1>4. Rest'
  BY <1>1, CountType DEF IInv, TypeOK, Rest
<1> QED
  BY <1>2, <1>3, <1>4 DEF Good, Change

LEMMA ElfCntlGood ==
  ASSUME IInv, NEW e \in Ids, ElfCntl(e)
  PROVE  Good
<1>1. /\ Call("client") /\ Count("client")
      /\ UNCHANGED <<ready, live, images, handles, lost, strays, ending, loop>>
  BY DEF ElfCntl, ghosts
<1>2. Steered
  BY <1>1 DEF ElfCntl, IInv, Sound, Steered, Elf
<1>3. LoopCounted'
  BY <1>1, <1>2, DisturbedLoop, SteeredLoop
<1>4. Rest'
  BY <1>1, CountType DEF IInv, TypeOK, Rest
<1> QED
  BY <1>2, <1>3, <1>4 DEF Good, Change

LEMMA EndFrame ==
  ASSUME IInv, NEW e \in Ids, handles[e] > 0, End(e), ending = None,
         calls' \in 0..MaxCalls, ready' = ready, LoopCounted'
  PROVE  Good
<1>1. Dropping
  BY DEF Dropping
<1>2. Rest'
  BY DEF IInv, TypeOK, Rest, End
<1> QED
  BY <1>1, <1>2 DEF Good, Change

LEMMA EndKeepsKinds ==
  ASSUME IInv, NEW e \in Ids, End(e)
  PROVE  /\ \A d \in Ids : elf'[d].kind = elf[d].kind
         /\ \A d \in Ids : handles'[d] = IF d = e THEN handles[d] - 1 ELSE handles[d]
BY DEF IInv, Sound, End, Elf

LEMMA ElfEndGood ==
  ASSUME IInv, NEW e \in Ids, ElfEnd(e)
  PROVE  Good
<1>1. /\ Call("client") /\ Count("client") /\ handles[e] > LoopHolds(e) /\ End(e)
      /\ ready' = ready /\ loop' = loop /\ ending = None
  BY DEF ElfEnd, Call
<1>2. \A d \in Ids : LoopHolds(d)' = LoopHolds(d) /\ LoopHolds(d) \in Nat /\ handles[d] \in Nat
  BY <1>1 DEF LoopHolds, IInv, Sound
<1>3. LoopCounted'
  BY <1>1, <1>2, EndKeepsKinds DEF IInv, LoopCounted
<1>4. calls' \in 0..MaxCalls
  BY <1>1, CountType DEF IInv, TypeOK, Rest
<1> QED
  BY <1>1, <1>2, <1>3, <1>4, EndFrame

LEMMA LoopEndGood ==
  ASSUME IInv, LoopEnd
  PROVE  Good
<1> DEFINE m == loop.e
<1>1. /\ Call("loop") /\ Count("loop") /\ End(m) /\ loop.at = "end" /\ ready' = ready
      /\ loop' = [loop EXCEPT !.at = "begin", !.e = None] /\ ending = None
  BY DEF LoopEnd, Call
<1>2. m \in Ids /\ loop \in LoopRecord /\ None \notin Ids
  BY <1>1, ElfDescAssumption DEF IInv, LoopCounted
<1>3. loop' \in LoopRecord /\ loop'.at = "begin" /\ loop'.ar = loop.ar /\ loop'.e = None
  BY <1>1, <1>2 DEF LoopRecord
<1>4. \A d \in Ids : /\ LoopHolds(d) = LoopHolds(d)' + (IF d = m THEN 1 ELSE 0)
                     /\ LoopHolds(d)' \in Nat /\ handles[d] \in Nat
                     /\ handles[d] >= LoopHolds(d)
  BY <1>2, <1>3 DEF LoopHolds, IInv, Sound, LoopCounted
<1>5. handles[m] > 0
  BY <1>2, <1>4
<1>6. LoopCounted'
  <2>1. \A d \in Ids : handles'[d] >= LoopHolds(d)'
    BY <1>1, <1>2, <1>4, EndKeepsKinds
  <2>2. loop.ar \in Ids /\ elf'[loop.ar].kind = "ar"
    BY <1>1, <1>2, EndKeepsKinds DEF IInv, LoopCounted
  <2> QED
    BY <1>3, <2>1, <2>2 DEF LoopCounted
<1>7. calls' \in 0..MaxCalls
  BY <1>1, CountType DEF IInv, TypeOK, Rest
<1> HIDE DEF m
<1> QED
  BY <1>1, <1>2, <1>5, <1>6, <1>7, EndFrame

LEMMA LoopCloseGood ==
  ASSUME IInv, LoopClose
  PROVE  Good
<1> DEFINE m == loop.ar
<1>1. /\ Call("loop") /\ Count("loop") /\ End(m) /\ loop.at = "over" /\ ready' = ready
      /\ loop' = Idle /\ ending = None
  BY DEF LoopClose, Call
<1>2. m \in Ids /\ None \notin Ids /\ loop.e = None
  BY <1>1, ElfDescAssumption DEF IInv, LoopCounted
<1>3. \A d \in Ids : LoopHolds(d)' = 0 /\ handles[d] \in Nat /\ handles[d] >= LoopHolds(d)
  BY <1>1, <1>2 DEF LoopHolds, Idle, IInv, Sound, LoopCounted
<1>4. handles[m] > 0
  <2>1. LoopHolds(m) = 1
    BY <1>2 DEF LoopHolds
  <2> QED
    BY <1>2, <1>3, <2>1
<1>5. LoopCounted'
  <2>1. \A d \in Ids : handles'[d] >= LoopHolds(d)'
    BY <1>1, <1>2, <1>3, <1>4, EndKeepsKinds
  <2>2. loop' \in LoopRecord /\ loop'.at = "idle"
    BY <1>1 DEF Idle, LoopRecord
  <2> QED
    BY <2>1, <2>2 DEF LoopCounted
<1>6. calls' \in 0..MaxCalls
  BY <1>1, CountType DEF IInv, TypeOK, Rest
<1> HIDE DEF m
<1> QED
  BY <1>1, <1>2, <1>4, <1>5, <1>6, EndFrame

LEMMA LoopNextGood ==
  ASSUME IInv, LoopNext
  PROVE  Good
<1>1. /\ Call("loop") /\ Count("loop") /\ MoveOn(loop.e) /\ loop.at = "next"
      /\ loop' = [loop EXCEPT !.at = "end", !.cmd = MovedOn(loop.e)]
      /\ UNCHANGED <<ready, live, images, handles, lost, strays, ending>>
  BY DEF LoopNext, ghosts
<1>2. loop.e \in Ids /\ loop \in LoopRecord /\ MovedOn(loop.e) \in {"null", "read"}
  BY <1>1 DEF IInv, LoopCounted, MovedOn
<1>3. Steered
  BY <1>1, <1>2, MoveOnSteers
<1>4. loop' \in LoopRecord /\ loop'.at = "end" /\ loop'.ar = loop.ar /\ loop'.e = loop.e
  BY <1>1, <1>2 DEF LoopRecord
<1>5. LoopCounted'
  <2>1. \A d \in Ids : LoopHolds(d)' = LoopHolds(d)
    BY <1>4 DEF LoopHolds
  <2> QED
    BY <1>1, <1>3, <1>4, <2>1 DEF IInv, LoopCounted, Steered
<1>6. Rest'
  BY <1>1, CountType DEF IInv, TypeOK, Rest
<1> QED
  BY <1>3, <1>5, <1>6 DEF Good, Change

LEMMA StartLoopGood ==
  ASSUME IInv, NEW a \in Ids, StartLoop(a)
  PROVE  Good
<1>1. /\ Call("loop") /\ Count("loop") /\ handles[a] > 0 /\ elf[a].kind = "ar"
      /\ loop' = [Idle EXCEPT !.at = "begin", !.ar = a,
                               !.whole = elf[a].next = First[elf[a].obj]]
      /\ UNCHANGED <<ready, live, elf, images, handles, lost, strays, ending>>
  BY DEF StartLoop, memory, ghosts
<1>2. Steered
  BY <1>1, NothingSteered DEF IInv
<1>3. LoopCounted'
  <2>1. /\ loop' \in LoopRecord /\ loop'.at = "begin" /\ loop'.ar = a /\ loop'.e = None
        /\ None \notin Ids /\ handles \in [Ids -> Nat]
    <3> DEFINE b == elf[a].next = First[elf[a].obj]
    <3>1. b \in BOOLEAN /\ <<>> \in Seq(Nat)
      OBVIOUS
    <3>2. loop' = [Idle EXCEPT !.at = "begin", !.ar = a, !.whole = b]
      BY <1>1
    <3> HIDE DEF b
    <3>3. loop' = [at |-> "begin", ar |-> a, e |-> None, cmd |-> "read",
                   seen |-> <<>>, whole |-> b]
      BY <3>2 DEF Idle
    <3> QED
      BY <3>1, <3>3, ElfDescAssumption DEF LoopRecord, IInv, Sound
  <2>2. \A d \in Ids : LoopHolds(d)' = IF d = a THEN 1 ELSE 0
    BY <2>1 DEF LoopHolds
  <2>3. \A d \in Ids : handles'[d] >= LoopHolds(d)'
    BY <1>1, <2>1, <2>2
  <2> QED
    BY <1>1, <2>1, <2>3 DEF LoopCounted
<1>4. Rest'
  BY <1>1, CountType DEF IInv, TypeOK, Rest
<1> QED
  BY <1>2, <1>3, <1>4 DEF Good, Change

LEMMA ReleaseGood ==
  ASSUME IInv, Release
  PROVE  Good
<1>1. UNCHANGED <<ready, handles, lost, strays, loop, calls>>
  BY DEF Release, ghosts
<1>2. images' \subseteq images
  BY DEF Release, memory
<1>3. LoopCounted'
  <2>1. \A d \in Ids : LoopHolds(d)' = LoopHolds(d)
    BY <1>1 DEF LoopHolds
  <2>2. ASSUME loop.at # "idle" PROVE elf'[loop.ar].kind = "ar"
    <3>1. /\ loop.ar \in Ids /\ None \notin Ids /\ elf[loop.ar].kind = "ar"
          /\ LoopHolds(loop.ar) \in {1, 2} /\ handles[loop.ar] >= LoopHolds(loop.ar)
      BY <2>2, ElfDescAssumption DEF IInv, LoopCounted, LoopHolds
    <3>2. loop.ar # ending /\ elf[loop.ar] \in Elf
      BY <3>1 DEF Release, IInv, Sound, HandlesAreCounted
    <3> QED
      BY <3>1, <3>2 DEF Release, memory, Elf
  <2> QED
    BY <1>1, <2>1, <2>2 DEF IInv, LoopCounted
<1>4. Rest'
  BY <1>1, <1>2 DEF IInv, TypeOK, Rest
<1> QED
  BY <1>3, <1>4 DEF Good, Change

-----------------------------------------------------------------------------
(* The invariant holds *)

LEMMA InitInvariant == Init => IInv
<1> SUFFICES ASSUME Init PROVE IInv
  OBVIOUS
<1>1. Sound
  BY BlankType DEF Init, Sound, HandlesAreCounted, LostApart, ArchivesParsed, Known
<1>2. LoopCounted
  <2>1. loop \in LoopRecord /\ loop.at = "idle" /\ loop.ar = None /\ loop.e = None
    BY DEF Init, Idle, LoopRecord
  <2>2. \A d \in Ids : LoopHolds(d) = 0
    BY <2>1, ElfDescAssumption DEF LoopHolds
  <2> QED
    BY <2>1, <2>2 DEF Init, LoopCounted
<1>3. Rest
  <2>1. 0 \in 0 .. MaxCalls
    BY ElfDescAssumption
  <2> QED
    BY <2>1, Zenon DEF Init, Rest
<1>4. TypeOK
  BY <1>1, <1>2, <1>3 DEF TypeOK, Rest, Sound, LoopCounted, LoopRecord
<1> QED
  BY <1>1, <1>2, <1>4 DEF IInv

LEMMA NextGood ==
  ASSUME IInv, Next
  PROVE  Good
<1>1. CASE ElfVersion
  <2>1. /\ UNCHANGED <<live, elf, images, handles, lost, strays, ending, loop, calls>>
        /\ ready' = TRUE
    BY <1>1 DEF ElfVersion, memory, ghosts
  <2>2. Steered
    BY <2>1, NothingSteered DEF IInv
  <2>3. LoopCounted'
    BY <2>1, <2>2, DisturbedLoop, SteeredLoop
  <2>4. Rest'
    BY <2>1 DEF IInv, TypeOK, Rest
  <2> QED
    BY <2>2, <2>3, <2>4 DEF Good, Change
<1>2. CASE \E o \in Memory, r \in BOOLEAN : ElfMemory(o, r)
  BY <1>2, ElfMemoryGood
<1>3. ASSUME NEW fd \in Fds, ElfOpen(fd) PROVE Good
  <2>1. Call("client") /\ UNCHANGED <<ready, ending>>
    BY <1>3 DEF ElfOpen
  <2>2. CASE OpenObject(fd, "read", FALSE)
    BY <2>1, <2>2, OpenObjectGood
  <2>3. CASE Refuse("client")
    BY <2>1, <2>3, RefuseGood DEF Who
  <2> QED
    BY <1>3, <2>2, <2>3 DEF ElfOpen
<1>4. CASE \E fd \in Fds, c \in {"null", "read", "rdwr", "write"}, a \in Ids \cup {None} :
             ElfBegin("client", fd, c, a)
  BY <1>4, ElfBeginGood DEF Who
<1>5. CASE \E e \in Ids : ElfNext(e) \/ ElfCntl(e) \/ ElfEnd(e) \/ StartLoop(e)
  BY <1>5, ElfNextGood, ElfCntlGood, ElfEndGood, StartLoopGood
<1>6. ASSUME NEW a \in Ids, elf[a].obj # None,
             NEW n \in DOMAIN Hdr[elf[a].obj], ElfRand(a, n)
      PROVE  Good
  <2>1. elf[a].obj \in Objs
    BY <1>6 DEF IInv, Sound, Elf
  <2>2. n \in Nat
    BY <2>1, ElfDescAssumption
  <2> QED
    BY <1>6, <2>2, ElfRandGood
<1>7. CASE Release
  BY <1>7, ReleaseGood
<1>8. CASE LoopBegin
  <2>1. /\ loop.at = "begin" /\ ElfBegin("loop", elf[loop.ar].fd, loop.cmd, loop.ar)
        /\ loop.ar \in Ids /\ None \notin Ids /\ loop.cmd \in {"null", "read"}
    BY <1>8, ElfDescAssumption DEF LoopBegin, IInv, LoopCounted, LoopRecord
  <2> QED
    BY <2>1, ElfBeginGood DEF Who
<1>9. CASE LoopNext \/ LoopEnd \/ LoopClose
  BY <1>9, LoopNextGood, LoopEndGood, LoopCloseGood
<1> QED
  BY <1>1, <1>2, <1>3, <1>4, <1>5, <1>6, <1>7, <1>8, <1>9 DEF Next, Loop

LEMMA InvariantHolds == Spec => []IInv
<1>1. ASSUME IInv, [Next]_vars PROVE IInv'
  <2>1. CASE Next
    BY <1>1, <2>1, NextGood, GoodKeeps
  <2>2. CASE UNCHANGED vars
    <3>1. UNCHANGED <<ready, live, elf, images, handles, lost, strays, ending, loop, calls>>
      BY <2>2 DEF vars, memory, ghosts
    <3>2. Good
      <4>1. Steered
        BY <1>1, <3>1, NothingSteered DEF IInv
      <4> QED
        BY <1>1, <3>1, <4>1, DisturbedLoop, SteeredLoop DEF Good, Change, IInv, TypeOK, Rest
    <3> QED
      BY <1>1, <3>2, GoodKeeps
  <2> QED
    BY <1>1, <2>1, <2>2
<1> QED
  BY InitInvariant, <1>1, PTL DEF Spec

\* Whatever sequence of calls the client makes, on whatever objects, and
\* whichever of them fail, the structures of elf_begin.c and elf_end.c keep
\* their types; no count falls below zero.
THEOREM TypeCorrect == Spec => []TypeOK
BY InvariantHolds, PTL DEF IInv

\* elf_end's counts are exact after any calls and failures: a descriptor has
\* as many activations as the client has handles for it, an archive as many
\* children as it has open members, and none is released while it has either.
THEOREM CountsAreExact == Spec => []HandlesAreCounted
BY InvariantHolds, PTL DEF IInv, Sound

-----------------------------------------------------------------------------
(* The descriptors implement ElfHandles *)

\* What ElfHandles sees of the archives that members belong to.
Up == [d \in Ids |-> IF d \in Known THEN elf[d].parent ELSE None]

LEMMA ChangeImplements ==
  ASSUME Sound, Change
  PROVE  \/ Known' = Known /\ handles' = handles /\ Up' = Up
         \/ \E d \in Ids : Handles!Retain(d) \/ Handles!Drop(d) \/ Handles!Collect(d)
         \/ \E d \in Ids, p \in Ids \cup {None} : Handles!Open(d, p)
<1>1. /\ Known \subseteq Ids /\ Known \subseteq live /\ elf \in [Ids -> Elf]
      /\ handles \in [Ids -> Nat] /\ None \notin Ids
  BY ElfDescAssumption DEF Sound, Known
<1>2. CASE Steered
  <2>1. Known' = Known /\ handles' = handles
    BY <1>2 DEF Steered, Known
  <2>2. Up' = Up
    BY <1>1, <1>2, <2>1 DEF Steered, Up
  <2> QED
    BY <2>1, <2>2
<1>3. CASE Release /\ Waits(ending)
  <2>1. UNCHANGED <<live, elf, lost, handles>>
    BY <1>3 DEF Release, memory, ghosts
  <2> QED
    BY <2>1 DEF Known, Up
<1>4. CASE Release /\ ~Waits(ending)
  <2>0. ending \in Known /\ handles[ending] = 0 /\ Children(ending) = {}
    BY <1>4, NoMembersLeft DEF Release, Sound, HandlesAreCounted
  <2>1. PICK d \in Ids : d = ending /\ d \in Known /\ handles[d] = 0 /\ Children(d) = {}
    BY <1>1, <2>0
  <2>2. live' = live \ {d} /\ lost' = lost /\ handles' = handles
    BY <1>4, <2>1 DEF Release, ghosts
  <2>3. \A x \in Ids \ {d} : elf'[x].parent = elf[x].parent
    BY <1>1, <1>4, <2>1 DEF Release, Elf
  <2>4. Known' = Known \ {d}
    BY <2>1, <2>2 DEF Known
  <2>5. Up' = [Up EXCEPT ![d] = None]
    BY <1>1, <2>1, <2>3, <2>4 DEF Up
  <2>6. {m \in Known : Up[m] = d} = {}
    BY <1>1, <2>1 DEF Up, Children
  <2>7. Handles!Collect(d)
    BY <2>1, <2>2, <2>4, <2>5, <2>6 DEF Handles!Collect, Handles!Members, Up
  <2> QED
    BY <2>1, <2>7
<1>5. CASE ending = None /\ Adding
  <2>1. PICK q \in Ids \ live, x \in Elf, a \in Known \cup {None} :
          x.parent = a /\ Born(q, x, a)
    BY <1>5 DEF Adding
  <2>2. /\ Known' = Known \cup {q} /\ q \notin Known /\ q # a
        /\ handles' = [handles EXCEPT ![q] = 1]
    BY <1>1, <2>1 DEF Born, Known, Sound
  <2>3. elf'[q].parent = a /\ \A d \in Ids \ {q} : elf'[d].parent = elf[d].parent
    BY <1>1, <2>1 DEF Born, Elf
  <2>4. Up' = [Up EXCEPT ![q] = a]
    BY <1>1, <2>1, <2>2, <2>3 DEF Up
  <2>5. Handles!Open(q, a)
    BY <2>1, <2>2, <2>4 DEF Handles!Open, Up
  <2> QED
    BY <1>1, <2>1, <2>5
<1>6. CASE ending = None /\ Losing
  <2>1. PICK q \in Ids \ live, x \in Elf :
          /\ live' = live \cup {q} /\ lost' = lost \cup {q}
          /\ elf' = [elf EXCEPT ![q] = x] /\ handles' = handles
    BY <1>6 DEF Losing
  <2>2. Known' = Known
    BY <2>1 DEF Known, Sound
  <2>3. Up' = Up
    BY <1>1, <2>1, <2>2 DEF Up
  <2> QED
    BY <2>1, <2>2, <2>3
<1>7. CASE ending = None /\ Retaining
  <2>1. PICK d \in Ids :
          /\ handles[d] > 0 /\ elf' = [elf EXCEPT ![d].activations = @ + 1]
          /\ handles' = [handles EXCEPT ![d] = @ + 1] /\ UNCHANGED <<live, lost>>
    BY <1>7 DEF Retaining
  <2>2. d \in Known /\ Known' = Known
    BY <2>1, HeldIsKnown DEF Known
  <2>3. Up' = Up
    BY <1>1, <2>1, <2>2 DEF Up, Elf
  <2>4. Handles!Retain(d)
    BY <2>1, <2>2, <2>3 DEF Handles!Retain, Up
  <2> QED
    BY <2>4
<1>8. CASE ending = None /\ Dropping
  <2>1. PICK d \in Ids : handles[d] > 0 /\ End(d)
    BY <1>8 DEF Dropping
  <2>2. d \in Known /\ Known' = Known /\ handles' = [handles EXCEPT ![d] = @ - 1]
    BY <2>1, HeldIsKnown DEF Known, End
  <2>3. Up' = Up
    BY <1>1, <2>1, <2>2 DEF Up, Elf, End
  <2>4. Handles!Drop(d)
    BY <2>1, <2>2, <2>3 DEF Handles!Drop, Up
  <2> QED
    BY <2>4
<1> QED
  BY <1>2, <1>3, <1>4, <1>5, <1>6, <1>7, <1>8 DEF Change

\* The calls of ElfDesc, seen through the descriptors that somebody knows of,
\* the handles for them and the archives they belong to, are the steps of
\* ElfHandles: elf_begin and elf_end keep what elf_begin.3 and elf_end.3
\* promise of activations.  That what is owed is released in the end is left
\* to the run that checks Refines.
THEOREM Implements == Spec => Handles!Init /\ [][Handles!Next]_(Handles!hvars)
<1>1. Init => Handles!Init
  BY DEF Init, Known, Handles!Init
<1>2. ASSUME IInv, [Next]_vars PROVE [Handles!Next]_(Handles!hvars)
  <2>1. CASE Next
    <3>1. Sound /\ Change
      BY <1>2, <2>1, NextGood DEF IInv, Good
    <3>2. CASE Known' = Known /\ handles' = handles /\ Up' = Up
      BY <3>2 DEF Handles!hvars, Up
    <3>3. CASE \/ \E d \in Ids : Handles!Retain(d) \/ Handles!Drop(d) \/ Handles!Collect(d)
               \/ \E d \in Ids, p \in Ids \cup {None} : Handles!Open(d, p)
      BY <3>3 DEF Handles!Next
    <3> QED
      BY <3>1, <3>2, <3>3, ChangeImplements
  <2>2. CASE UNCHANGED vars
    BY <2>2 DEF vars, memory, ghosts, Known, Handles!hvars
  <2> QED
    BY <1>2, <2>1, <2>2
<1> QED
  BY InvariantHolds, <1>1, <1>2, PTL DEF Spec

-----------------------------------------------------------------------------
(* Contents *)

\* No descriptors have only each other for archives: whatever is taken of
\* them, one is a member of nothing among them.
Rooted ==
  \A S \in SUBSET Known : S # {} => \E x \in S : elf[x].parent \notin S

\* A member points into what its archive points into, and does not own it; a
\* descriptor that is not a member owns what it points into.
Inherited ==
  /\ strays \subseteq images
  /\ \A d \in Known : elf[d].parent # None =>
       elf[d].rawfile = "borrowed" /\ elf[d].image = elf[elf[d].parent].image
  /\ \A d \in Known : elf[d].parent = None =>
       (elf[d].image # None <=> elf[d].rawfile = "owned")

ImagesInv == Rooted /\ Inherited /\ ImagesStay

\* Where a descriptor points, and whose that is, stays.
KeepsLooks(d) ==
  /\ elf'[d].image = elf[d].image /\ elf'[d].rawfile = elf[d].rawfile
  /\ elf'[d].parent = elf[d].parent

\* A step that opens nothing and releases nothing.
Still ==
  /\ Known' = Known /\ \A d \in Known : KeepsLooks(d)
  /\ strays' \subseteq images' /\ images' \ strays' = images \ strays

\* A step that opens q: a file, with contents i of its own, a piece of memory
\* or a file to write, or a member of the archive a.
Opened(q) ==
  /\ q \notin Known /\ Known' = Known \cup {q} /\ strays' = strays
  /\ \A d \in Known : KeepsLooks(d)
  /\ \/ \E i \in Images \ images :
          /\ elf'[q].image = i /\ elf'[q].rawfile = "owned" /\ elf'[q].parent = None
          /\ images' = images \cup {i}
     \/ /\ elf'[q].image = None /\ elf'[q].rawfile = "borrowed" /\ elf'[q].parent = None
        /\ images' = images
     \/ \E a \in Known :
          /\ elf'[q].image = elf[a].image /\ elf'[q].rawfile = "borrowed"
          /\ elf'[q].parent = a /\ images' = images

LEMMA StillImages ==
  ASSUME IInv, ImagesInv, Still
  PROVE  ImagesInv'
<1>1. \A d \in Known : elf[d].parent # None => elf[d].parent \in Known
  BY DEF IInv, Sound, HandlesAreCounted
<1>2. Rooted'
  BY DEF ImagesInv, Rooted, Still, KeepsLooks
<1>3. Inherited'
  BY <1>1 DEF ImagesInv, Inherited, Still, KeepsLooks
<1>4. ImagesStay'
  <2>1. \A d \in Known : \A i : Owner(d, i)' <=> Owner(d, i)
    BY DEF Owner, Still, KeepsLooks
  <2> QED
    BY <2>1 DEF ImagesInv, ImagesStay, Still, KeepsLooks
<1> QED
  BY <1>2, <1>3, <1>4 DEF ImagesInv

LEMMA OpenedRooted ==
  ASSUME IInv, Rooted, NEW q \in Ids, Opened(q)
  PROVE  Rooted'
<1>1. /\ \A d \in Known : elf[d].parent # None => elf[d].parent \in Known
      /\ Known \subseteq Ids /\ None \notin Ids /\ q \notin Known
  BY ElfDescAssumption DEF IInv, Sound, HandlesAreCounted, Known, Opened
<1>2. elf'[q].parent # q
  BY <1>1 DEF Opened
<1>3. SUFFICES ASSUME NEW S \in SUBSET (Known \cup {q}), S # {}
               PROVE  \E x \in S : elf'[x].parent \notin S
  BY DEF Rooted, Opened
<1>4. CASE S = {q}
  BY <1>2, <1>4
<1>5. CASE S # {q}
  <2>1. S \ {q} \in SUBSET Known /\ S \ {q} # {}
    BY <1>3, <1>5
  <2>2. PICK x \in S \ {q} : elf[x].parent \notin S \ {q}
    BY <2>1 DEF Rooted
  <2>3. x \in Known /\ elf[x].parent # q /\ elf'[x].parent = elf[x].parent
    BY <1>1, <2>1 DEF Opened, KeepsLooks
  <2> QED
    BY <2>2, <2>3
<1> QED
  BY <1>4, <1>5

LEMMA OpenedInherited ==
  ASSUME IInv, Inherited, NEW q \in Ids, Opened(q)
  PROVE  Inherited'
<1>1. /\ \A d \in Known : elf[d].parent # None => elf[d].parent \in Known
      /\ Known \subseteq Ids /\ None \notin Ids /\ None \notin Images /\ q \notin Known
  BY ElfDescAssumption DEF IInv, Sound, HandlesAreCounted, Known, Opened
<1>2. strays' \subseteq images'
  BY DEF Inherited, Opened
<1>3. ASSUME NEW d \in Known
      PROVE  /\ elf'[d].parent # None =>
                  elf'[d].rawfile = "borrowed" /\ elf'[d].image = elf'[elf'[d].parent].image
             /\ elf'[d].parent = None =>
                  (elf'[d].image # None <=> elf'[d].rawfile = "owned")
  BY <1>1, <1>3 DEF Inherited, Opened, KeepsLooks
<1>4. /\ elf'[q].parent # None =>
           elf'[q].rawfile = "borrowed" /\ elf'[q].image = elf'[elf'[q].parent].image
      /\ elf'[q].parent = None =>
           (elf'[q].image # None <=> elf'[q].rawfile = "owned")
  BY <1>1 DEF Opened, KeepsLooks
<1>5. Known' = Known \cup {q}
  BY DEF Opened
<1> QED
  BY <1>2, <1>3, <1>4, <1>5 DEF Inherited

LEMMA OpenedStay ==
  ASSUME IInv, Inherited, ImagesStay, NEW q \in Ids, Opened(q)
  PROVE  ImagesStay'
<1>1. q \notin Known /\ Known' = Known \cup {q} /\ None \notin Images /\ strays \subseteq images
  BY ElfDescAssumption DEF Opened, Inherited
<1>2. \A d \in Known : elf'[d].image = elf[d].image
  BY DEF Opened, KeepsLooks
<1>3. \A d \in Known : \A i : Owner(d, i)' <=> Owner(d, i)
  BY DEF Owner, Opened, KeepsLooks
<1>4. CASE \E i \in Images \ images :
             /\ elf'[q].image = i /\ elf'[q].rawfile = "owned"
             /\ images' = images \cup {i}
  <2>1. PICK i \in Images \ images :
          elf'[q].image = i /\ elf'[q].rawfile = "owned" /\ images' = images \cup {i}
    BY <1>4
  <2>2. images' \ strays' = (images \ strays) \cup {i} /\ i \notin images \ strays
    BY <1>1, <2>1 DEF Opened
  <2>3. \A d \in Known : ~Owner(d, i)
    <3>1. \A d \in Known : elf[d].image # i
      BY <1>1, <2>1 DEF ImagesStay
    <3> QED
      BY <3>1 DEF Owner
  <2>4. \A j : Owner(q, j)' <=> j = i
    BY <2>1 DEF Owner
  <2>5. \A d \in Known' : elf'[d].image # None => elf'[d].image \in images' \ strays'
    BY <1>1, <1>2, <2>1, <2>2 DEF ImagesStay
  <2>6. ASSUME NEW j \in images' \ strays'
        PROVE  \E d \in Known' : Owner(d, j)' /\ \A x \in Known' : Owner(x, j)' => x = d
    BY <1>1, <1>3, <2>2, <2>3, <2>4, <2>6 DEF ImagesStay
  <2> QED
    BY <2>5, <2>6 DEF ImagesStay
<1>5. CASE /\ images' = images /\ elf'[q].rawfile = "borrowed"
           /\ elf'[q].image = None \/ \E a \in Known : elf'[q].image = elf[a].image
  <2>1. \A j : ~Owner(q, j)'
    BY <1>5 DEF Owner
  <2>2. images' \ strays' = images \ strays
    BY <1>5 DEF Opened
  <2>3. \A d \in Known' : elf'[d].image # None => elf'[d].image \in images' \ strays'
    BY <1>1, <1>2, <1>5, <2>2 DEF ImagesStay
  <2>4. ASSUME NEW j \in images' \ strays'
        PROVE  \E d \in Known' : Owner(d, j)' /\ \A x \in Known' : Owner(x, j)' => x = d
    BY <1>1, <1>3, <2>1, <2>2, <2>4 DEF ImagesStay
  <2> QED
    BY <2>3, <2>4 DEF ImagesStay
<1> QED
  BY <1>4, <1>5 DEF Opened

LEMMA OpenedImages ==
  ASSUME IInv, ImagesInv, NEW q \in Ids, Opened(q)
  PROVE  ImagesInv'
BY OpenedRooted, OpenedInherited, OpenedStay DEF ImagesInv

\* Who points into the contents that e owns is e or a member of something that
\* does: so when e has no member left, nobody else points there.
LEMMA OwnerAlone ==
  ASSUME IInv, ImagesInv, NEW e \in Known, elf[e].rawfile = "owned",
         \A m \in Known : elf[m].parent # e,
         NEW x \in Known, elf[x].image = elf[e].image, elf[x].image # None
  PROVE  x = e
<1> DEFINE S == {d \in Known \ {e} : elf[d].image = elf[e].image}
<1>1. SUFFICES ASSUME x # e PROVE FALSE
  OBVIOUS
<1>2. S # {} /\ S \in SUBSET Known
  BY <1>1
<1>3. PICK d \in S : elf[d].parent \notin S
  BY <1>2 DEF ImagesInv, Rooted
<1>4. CASE elf[d].parent = None
  <2>1. elf[e].image \in images \ strays /\ Owner(e, elf[e].image) /\ Owner(d, elf[e].image)
    BY <1>3, <1>4 DEF ImagesInv, Inherited, ImagesStay, Owner
  <2> QED
    BY <1>3, <2>1 DEF ImagesInv, ImagesStay
<1>5. CASE elf[d].parent # None
  <2>1. elf[d].parent \in Known /\ elf[elf[d].parent].image = elf[d].image
    BY <1>3, <1>5 DEF ImagesInv, Inherited, IInv, Sound, HandlesAreCounted
  <2> QED
    BY <1>3, <2>1
<1> QED
  BY <1>4, <1>5

LEMMA ReleaseImages ==
  ASSUME IInv, ImagesInv, Release
  PROVE  ImagesInv'
<1>1. CASE Waits(ending)
  <2>1. UNCHANGED <<live, elf, images, lost, strays>>
    BY <1>1 DEF Release, memory, ghosts
  <2> QED
    BY <2>1, StillImages DEF Still, KeepsLooks, Known, ImagesInv, Inherited
<1>2. CASE ~Waits(ending)
  <2> DEFINE e == ending
             p == elf[e].parent
  <2>1. /\ e \in Known /\ Known \subseteq Ids /\ Known \subseteq live /\ elf \in [Ids -> Elf]
        /\ None \notin Images
        /\ \A d \in Known : elf[d].parent # None => elf[d].parent \in Known
    BY ElfDescAssumption DEF Release, IInv, Sound, HandlesAreCounted, Known
  <2>2. \A m \in Known : elf[m].parent # e
    BY <1>2, <2>1, NoMembersLeft DEF Release, IInv, Children
  <2>3. /\ live' = live \ {e} /\ UNCHANGED <<lost, strays>> /\ images' = images \ Freed(e)
        /\ elf' = [d \in Ids |->
                     IF d = e THEN Blank
                     ELSE IF d = p THEN [elf[d] EXCEPT !.nchildren = @ - 1] ELSE elf[d]]
    BY <1>2 DEF Release, ghosts
  <2> HIDE DEF e, p
  <2>4. Known' = Known \ {e}
    BY <2>3 DEF Known
  <2>5. \A d \in Known \ {e} : KeepsLooks(d)
    BY <2>1, <2>3 DEF KeepsLooks, Elf
  <2>6. Rooted'
    BY <2>4, <2>5 DEF ImagesInv, Rooted, KeepsLooks
  <2>7. \A i \in Freed(e) : i = None \/ i \notin strays
    BY <2>1 DEF Freed, ImagesInv, ImagesStay
  <2>8. Inherited'
    <3>1. strays' \subseteq images'
      <4>1. strays \subseteq images /\ None \notin images
        BY <2>1 DEF ImagesInv, Inherited, IInv, TypeOK
      <4> QED
        BY <2>3, <2>7, <4>1
    <3>2. ASSUME NEW d \in Known \ {e}
          PROVE  /\ elf'[d].parent # None =>
                      /\ elf'[d].rawfile = "borrowed"
                      /\ elf'[d].image = elf'[elf'[d].parent].image
                 /\ elf'[d].parent = None =>
                      (elf'[d].image # None <=> elf'[d].rawfile = "owned")
      BY <2>1, <2>2, <2>5, <3>2 DEF ImagesInv, Inherited, KeepsLooks
    <3> QED
      BY <2>4, <3>1, <3>2 DEF Inherited
  <2>9. ImagesStay'
    <3>1. ASSUME NEW d \in Known \ {e}, elf[d].image # None
          PROVE  elf[d].image \notin Freed(e)
      BY <2>1, <2>2, <3>1, OwnerAlone DEF Freed
    <3>2. \A d \in Known' : elf'[d].image # None => elf'[d].image \in images' \ strays'
      BY <2>3, <2>4, <2>5, <3>1 DEF ImagesInv, ImagesStay, KeepsLooks
    <3>3. \A d \in Known \ {e} : \A i : Owner(d, i)' <=> Owner(d, i)
      BY <2>5 DEF Owner, KeepsLooks
    <3>4. ASSUME NEW i \in images' \ strays'
          PROVE  \E d \in Known' : Owner(d, i)' /\ \A x \in Known' : Owner(x, i)' => x = d
      <4>1. i \in images \ strays /\ i \notin Freed(e)
        BY <2>3, <3>4
      <4>2. PICK d \in Known : Owner(d, i) /\ \A x \in Known : Owner(x, i) => x = d
        BY <4>1 DEF ImagesInv, ImagesStay
      <4>3. d # e
        BY <4>1, <4>2 DEF Freed, Owner
      <4> QED
        BY <2>4, <3>3, <4>2, <4>3
    <3> QED
      BY <3>2, <3>4 DEF ImagesStay
  <2> QED
    BY <2>6, <2>8, <2>9 DEF ImagesInv
<1> QED
  BY <1>1, <1>2

\* Each call does one of these.
Imaging == Still \/ (\E q \in Ids : Opened(q)) \/ Release

LEMMA KeptStill ==
  ASSUME IInv, Inherited, \A d \in Ids : KeepsLooks(d),
         UNCHANGED <<live, images, lost, strays>>
  PROVE  Imaging
<1>1. Known \subseteq Ids /\ Known' = Known
  BY DEF IInv, Sound, Known
<1> QED
  BY <1>1 DEF Imaging, Still, Inherited

LEMMA SameStill ==
  ASSUME IInv, Inherited, UNCHANGED <<memory, ghosts>>
  PROVE  Imaging
BY KeptStill DEF memory, ghosts, KeepsLooks

LEMMA GiveOpens ==
  ASSUME IInv, Ids \ live # {}, NEW who, NEW x \in Elf, x.parent = None,
         Give(who, Place, x), UNCHANGED <<lost, strays>>,
         \/ /\ x.image = None /\ x.rawfile = "borrowed" /\ images' = images
         \/ \E i \in Images \ images :
              /\ x.image = i /\ x.rawfile = "owned" /\ images' = images \cup {i}
  PROVE  Imaging
<1>1. PICK q \in Ids \ live : q = Place
  BY PlaceIsFree
<1>2. /\ live' = live \cup {q} /\ elf' = [elf EXCEPT ![q] = x] /\ elf \in [Ids -> Elf]
      /\ lost \subseteq live /\ live \subseteq Ids
  BY <1>1 DEF Give, IInv, Sound
<1>3. q \notin Known /\ Known' = Known \cup {q}
  BY <1>1, <1>2 DEF Known
<1>4. elf'[q] = x /\ \A d \in Known : KeepsLooks(d)
  BY <1>2, <1>3 DEF KeepsLooks, Known
<1>5. Opened(q)
  BY <1>3, <1>4 DEF Opened
<1> QED
  BY <1>5 DEF Imaging

LEMMA LoseStill ==
  ASSUME IInv, Inherited, Ids \ live # {}, NEW who, NEW x \in Elf,
         Lose(who, Place, x), UNCHANGED <<images, strays>>
  PROVE  Imaging
<1>1. PICK q \in Ids \ live : q = Place
  BY PlaceIsFree
<1>2. /\ live' = live \cup {q} /\ lost' = lost \cup {q} /\ elf' = [elf EXCEPT ![q] = x]
      /\ elf \in [Ids -> Elf] /\ lost \subseteq live /\ live \subseteq Ids
  BY <1>1 DEF Lose, IInv, Sound
<1>3. q \notin Known /\ Known' = Known /\ Known \subseteq Ids \ {q}
  BY <1>1, <1>2 DEF Known
<1>4. \A d \in Known : KeepsLooks(d)
  <2>1. \A d \in Ids \ {q} : elf'[d] = elf[d]
    BY <1>2
  <2> QED
    BY <1>3, <2>1 DEF KeepsLooks
<1> QED
  BY <1>3, <1>4 DEF Imaging, Still, Inherited

LEMMA ElfMemoryImages ==
  ASSUME IInv, Inherited, NEW o \in Memory, NEW r \in BOOLEAN, ElfMemory(o, r)
  PROVE  Imaging
<1> DEFINE k == Parsed(o, r)
<1>1. o \in Objs /\ Size[o] \in Nat
  BY ElfDescAssumption
<1>2. CASE Fault("client") \/ Refuse("client")
  BY <1>2, SameStill DEF Fault, Refuse, memory, ghosts
<1>3. CASE /\ Ids \ live # {} /\ k \in {"none", "elf", "ar"}
           /\ Give("client", Place, Fresh(o, k, Size[o])) /\ UNCHANGED <<images, lost, strays>>
  <2> DEFINE x == Fresh(o, k, Size[o])
  <2>1. x \in Elf /\ x.parent = None
    BY <1>1, <1>3, FreshType
  <2>2. x.image = None /\ x.rawfile = "borrowed"
    <3> HIDE DEF k
    <3> QED
      BY DEF Fresh, Blank
  <2> HIDE DEF x
  <2> QED
    BY <1>3, <2>1, <2>2, GiveOpens DEF x
<1>4. CASE /\ Ids \ live # {} /\ Lose("client", Place, Fresh(o, "ar", Size[o]))
           /\ UNCHANGED <<images, handles, strays, loop>>
  BY <1>1, <1>4, FreshType, LoseStill
<1> QED
  BY <1>2, <1>3, <1>4 DEF ElfMemory

LEMMA OpenObjectImages ==
  ASSUME IInv, Inherited, NEW fd \in Fds, NEW c \in {"read", "rdwr", "write"},
         NEW r \in BOOLEAN, OpenObject(fd, c, r)
  PROVE  Imaging
<1> DEFINE o == FileObj[fd]
           k == Parsed(o, r)
           f == Fresh(o, k, Size[o])
           opened == [f EXCEPT !.image = ImagePlace, !.rawfile = "owned", !.fd = fd, !.cmd = c]
           w == [Blank EXCEPT !.kind = "elf", !.activations = 1, !.fd = fd, !.cmd = c]
<1>1. o \in Objs /\ Size[o] \in Nat
  BY ElfDescAssumption
<1>2. CASE Fault("client")
  BY <1>2, SameStill DEF Fault
<1>3. CASE /\ Ids \ live # {} /\ Give("client", Place, w) /\ UNCHANGED <<images, lost, strays>>
  <2>1. w \in Elf /\ w.parent = None /\ w.image = None /\ w.rawfile = "borrowed"
    BY DEF Blank, Elf
  <2> HIDE DEF w
  <2> QED
    BY <1>3, <2>1, GiveOpens
<1>4. CASE /\ Ids \ live # {} /\ Images \ images # {} /\ k \in {"none", "elf", "ar"}
           /\ Give("client", Place, opened)
           /\ images' = images \cup {ImagePlace} /\ UNCHANGED <<lost, strays>>
  <2>1. ImagePlace \in Images \ images
    BY <1>4 DEF ImagePlace
  <2>2. f \in Elf /\ f.parent = None
    BY <1>1, <1>4, FreshType
  <2> HIDE DEF f
  <2>3. /\ opened \in Elf /\ opened.parent = None /\ opened.image = ImagePlace
        /\ opened.rawfile = "owned"
    BY <2>1, <2>2 DEF Elf
  <2> HIDE DEF opened
  <2> QED
    BY <1>4, <2>1, <2>3, GiveOpens
<1>5. CASE /\ Images \ images # {} /\ images' = images \cup {ImagePlace}
           /\ strays' = strays \cup {ImagePlace} /\ UNCHANGED <<live, elf, lost>>
  <2>1. ImagePlace \notin images
    BY <1>5 DEF ImagePlace
  <2>2. /\ Known' = Known /\ (\A d \in Known : KeepsLooks(d))
        /\ strays' \subseteq images' /\ images' \ strays' = images \ strays
    BY <1>5, <2>1 DEF Known, KeepsLooks, Inherited
  <2> QED
    BY <2>2 DEF Imaging, Still
<1>6. CASE /\ Ids \ live # {} /\ Lose("client", Place, Fresh(o, "ar", Size[o]))
           /\ UNCHANGED <<images, handles, strays, loop>>
  BY <1>1, <1>6, FreshType, LoseStill
<1> QED
  BY <1>2, <1>3, <1>4, <1>5, <1>6 DEF OpenObject

LEMMA OpenMemberImages ==
  ASSUME IInv, Inherited, NEW who, NEW c \in {"read", "rdwr", "write"},
         NEW a \in Ids, handles[a] > 0, elf[a].kind = "ar", OpenMember(who, c, a)
  PROVE  Imaging
<1> DEFINE n == elf[a].next
           h == Hdr[elf[a].obj][n]
           fits == /\ n # 0 /\ n \in DOMAIN Hdr[elf[a].obj]
                   /\ n + ArHdr + h.len <= elf[a].size
           k == Parsed(h.obj, TRUE)
           f == Fresh(h.obj, k, h.len - h.skip)
           member == [f EXCEPT
                         !.fd = elf[a].fd, !.cmd = c, !.image = elf[a].image,
                         !.parent = a, !.off = n + ArHdr + h.skip]
<1>1. /\ a \in Known /\ a \in live /\ elf \in [Ids -> Elf] /\ elf[a].obj \in Objs
      /\ live \subseteq Ids /\ lost \subseteq live
  BY HeldIsKnown DEF IInv, Sound, Known, ArchivesParsed
<1>2. CASE Refuse(who) \/ Fault(who)
  BY <1>2, SameStill DEF Refuse, Fault
<1>3. CASE /\ Ids \ live # {} /\ live' = live \cup {Place} /\ Adopt(a, member)
           /\ UNCHANGED <<images, lost, strays>>
  <2>1. PICK q \in Ids \ live : q = Place
    BY <1>3, PlaceIsFree
  <2>2. f.rawfile = "borrowed" /\ DOMAIN f = DOMAIN Blank
    BY DEF Fresh, Blank
  <2> HIDE DEF f
  <2>3. member.rawfile = "borrowed" /\ member.parent = a /\ member.image = elf[a].image
    BY <2>2 DEF Blank
  <2> HIDE DEF member
  <2>4. elf' = [elf EXCEPT ![a].nchildren = @ + 1, ![q] = member] /\ q # a
    BY <1>1, <1>3, <2>1 DEF Adopt
  <2>5. elf'[q] = member /\ \A d \in Ids \ {q} : KeepsLooks(d)
    BY <1>1, <2>1, <2>4 DEF KeepsLooks, Elf
  <2>6. q \notin Known /\ Known' = Known \cup {q} /\ Known \subseteq Ids
    BY <1>1, <1>3, <2>1 DEF Known
  <2>7. Opened(q)
    BY <1>1, <1>3, <2>3, <2>5, <2>6 DEF Opened
  <2> QED
    BY <2>1, <2>7 DEF Imaging
<1>4. CASE /\ fits /\ Ids \ live # {} /\ Lose(who, Place, Fresh(h.obj, "ar", h.len - h.skip))
           /\ UNCHANGED <<images, handles, strays>>
  <2>1. h \in Header
    BY <1>1, <1>4, ElfDescAssumption
  <2>2. h.obj \in Objs /\ h.len - h.skip \in Nat
    BY <2>1 DEF Header
  <2> HIDE DEF h
  <2>3. Fresh(h.obj, "ar", h.len - h.skip) \in Elf
    BY <2>2, FreshType
  <2> QED
    BY <1>4, <2>3, LoseStill
<1> QED
  BY <1>2, <1>3, <1>4 DEF OpenMember

LEMMA ElfBeginImages ==
  ASSUME IInv, Inherited, NEW who \in Who, NEW fd,
         NEW c \in {"null", "read", "rdwr", "write"},
         NEW a \in Ids \cup {None}, who = "client" => fd \in Fds,
         who = "loop" => a # None /\ c # "write", ElfBegin(who, fd, c, a)
  PROVE  Imaging
<1> DEFINE given == IF c = "write" THEN None ELSE a
           refused == \/ ~ready \/ c = "null"
                      \/ given # None /\ c = "rdwr"
                      \/ given # None /\ elf[given].fd \notin {None, fd}
                      \/ given # None /\ c # elf[given].cmd
<1>1. given \in Ids \cup {None} /\ (given # None => handles[given] > 0)
  BY DEF ElfBegin
<1>2. CASE Refuse(who)
  BY <1>2, SameStill DEF Refuse
<1>3. CASE ~refused /\ given = None /\ OpenObject(fd, c, TRUE)
  <2>1. fd \in Fds /\ c \in {"read", "rdwr", "write"}
    BY <1>3 DEF Who
  <2> QED
    BY <1>3, <2>1, OpenObjectImages
<1>4. CASE ~refused /\ given # None /\ elf[given].kind = "ar" /\ OpenMember(who, c, given)
  <2>1. c \in {"read", "rdwr", "write"} /\ given \in Ids
    BY <1>1, <1>4
  <2> QED
    BY <1>1, <1>4, <2>1, OpenMemberImages
<1>5. CASE Activate(who, given)
  <2>1. UNCHANGED <<live, images, lost, strays>> /\ \A d \in Ids : KeepsLooks(d)
    BY <1>5 DEF Activate, KeepsLooks, IInv, Sound, Elf
  <2> QED
    BY <2>1, KeptStill
<1> QED
  BY <1>2, <1>3, <1>4, <1>5 DEF ElfBegin

\* What moves an archive, or counts a handle less, keeps where all point.
LEMMA StepKeeps ==
  ASSUME IInv, Inherited, UNCHANGED <<live, images, lost, strays>>,
         \/ UNCHANGED elf
         \/ \E p, n : elf' = [elf EXCEPT ![p].next = n]
         \/ \E p, n : elf' = [elf EXCEPT ![p].activations = n]
         \/ \E p, n : elf' = [elf EXCEPT ![p].fd = n]
  PROVE  Imaging
<1>1. elf \in [Ids -> Elf]
  BY DEF IInv, Sound
<1>2. \A d \in Ids : KeepsLooks(d)
  BY <1>1 DEF KeepsLooks, Elf
<1> QED
  BY <1>2, KeptStill

LEMMA NextImages ==
  ASSUME IInv, Inherited, Next
  PROVE  Imaging
<1>1. CASE ElfVersion \/ \E a \in Ids : StartLoop(a)
  BY <1>1, SameStill DEF ElfVersion, StartLoop
<1>2. CASE \E o \in Memory, r \in BOOLEAN : ElfMemory(o, r)
  BY <1>2, ElfMemoryImages
<1>3. CASE \E fd \in Fds : ElfOpen(fd)
  BY <1>3, OpenObjectImages, SameStill DEF ElfOpen, Refuse
<1>4. CASE \E fd \in Fds, c \in {"null", "read", "rdwr", "write"}, a \in Ids \cup {None} :
             ElfBegin("client", fd, c, a)
  BY <1>4, ElfBeginImages DEF Who
<1>5. CASE \E e \in Ids : ElfNext(e)
  BY <1>5, StepKeeps DEF ElfNext, MoveOn, ghosts
<1>6. CASE \E e \in Ids : ElfCntl(e)
  BY <1>6, StepKeeps DEF ElfCntl, ghosts
<1>7. CASE (\E e \in Ids : ElfEnd(e)) \/ LoopEnd \/ LoopClose
  <2>1. PICK e : End(e)
    BY <1>7 DEF ElfEnd, LoopEnd, LoopClose
  <2>2. UNCHANGED <<live, images, lost, strays>> /\ elf' = [elf EXCEPT ![e].activations = @ - 1]
    BY <2>1 DEF End
  <2> QED
    BY <2>2, StepKeeps
<1>8. CASE \E a \in Ids : \E n : ElfRand(a, n)
  BY <1>8, StepKeeps DEF ElfRand, ghosts
<1>9. CASE Release
  BY <1>9 DEF Imaging
<1>10. CASE LoopBegin
  <2>1. /\ ElfBegin("loop", elf[loop.ar].fd, loop.cmd, loop.ar)
        /\ loop.ar \in Ids /\ None \notin Ids /\ loop.cmd \in {"null", "read"}
    BY <1>10, ElfDescAssumption DEF LoopBegin, IInv, LoopCounted, LoopRecord
  <2> QED
    BY <2>1, ElfBeginImages DEF Who
<1>11. CASE LoopNext
  BY <1>11, StepKeeps DEF LoopNext, MoveOn, ghosts
<1> QED
  BY <1>1, <1>2, <1>3, <1>4, <1>5, <1>6, <1>7, <1>8, <1>9, <1>10, <1>11 DEF Next, Loop

\* Whatever files, members and pieces of memory are opened and closed, in
\* whatever order and with whatever failures, no descriptor points into
\* contents that elf_end has given back, and each contents that is mapped has
\* exactly one descriptor that will give it back, but for those that the
\* refusal of an archive in ELF_C_RDWR mode leaves behind.  The induction is
\* about Rooted, too: without it an archive could be a member of itself.
THEOREM ContentsStay == Spec => []ImagesStay
<1>1. Init => ImagesInv
  BY DEF Init, ImagesInv, Rooted, Inherited, ImagesStay, Known
<1>2. ASSUME IInv, ImagesInv, [Next]_vars PROVE ImagesInv'
  <2>1. CASE Next
    BY <1>2, <2>1, NextImages, StillImages, OpenedImages, ReleaseImages DEF Imaging, ImagesInv
  <2>2. CASE UNCHANGED vars
    BY <1>2, <2>2, StillImages
       DEF vars, memory, ghosts, Still, KeepsLooks, Known, ImagesInv, Inherited
  <2> QED
    BY <1>2, <2>1, <2>2
<1>3. ImagesInv => ImagesStay
  BY DEF ImagesInv
<1> QED
  BY InvariantHolds, <1>1, <1>2, <1>3, PTL DEF Spec

-----------------------------------------------------------------------------
(* The order of the members that the loop gets *)

\* The member headers of o from the first that is not special on; where the
\* one behind that at n is; and those whose member can be opened at all.
Headers(o) == {n \in DOMAIN Hdr[o] : n >= First[o]}
Behind(o, n) == LET m == n + ArHdr + Hdr[o][n].len IN m + (m % 2)
Members(o) ==
  {n \in Headers(o) : /\ Hdr[o][n].len > Hdr[o][n].skip
                      /\ Parsed(Hdr[o][n].obj, TRUE) \in {"none", "elf", "ar"}}

\* An archive is as ar(1) writes it: one member behind the other.  And the loop
\* can write all of them down.
WellLaid ==
  \A o \in Objs :
    /\ Headers(o) # {} => First[o] \in Headers(o)
    /\ \A n, x \in Headers(o) : n < x => Behind(o, n) \in Headers(o) /\ Behind(o, n) <= x
    /\ IsFiniteSet(Members(o)) /\ Cardinality(Members(o)) <= MaxSeen

\* Archives are read, and there are descriptors only after elf_version.
Readers ==
  /\ \A d \in Known : elf[d].kind = "ar" => elf[d].cmd = "read"
  /\ Known # {} => ready

\* The loop has written the header x down.
Done(x) == \E j \in 1..Len(loop.seen) : loop.seen[j] = x

\* The archive a of the loop stands at n, with all done that is before it;
\* 0 stands for its end.
Reached(a, n) ==
  LET all == Headers(elf[a].obj) IN
  /\ n = 0 => \A x \in all : Done(x) \/ x >= elf[a].size
  /\ n # 0 => /\ n >= First[elf[a].obj]
              /\ \A j \in 1..Len(loop.seen) : loop.seen[j] < n
              /\ \A x \in all : x < n => Done(x)
              /\ (\E x \in all : x >= n) => n \in all

\* What the loop has written down, and where it is.
Orderly ==
  LET a == loop.ar
      all == Headers(elf[a].obj)
      s == loop.seen
  IN /\ \A j \in 1..Len(s) : s[j] \in all /\ Opens(a, s[j])
     /\ \A i, j \in 1..Len(s) : i < j => s[i] < s[j]
     /\ \A j \in 1..Len(s), x \in all : x <= s[j] => Done(x)
Standing ==
  LET a == loop.ar
      o == elf[a].obj
      s == loop.seen
  IN /\ loop.at \in {"begin", "end"} =>
          Reached(a, elf[a].next) /\ (loop.cmd = "null" => elf[a].next = 0)
     /\ loop.at = "next" =>
          /\ s # <<>> /\ elf[loop.e].parent = a
          /\ NextOffset(loop.e) = Behind(o, s[Len(s)])
     /\ loop.at = "over" =>
          \A x \in Headers(o) : Done(x) \/ \E y \in Headers(o) : y <= x /\ ~Opens(a, y)
LoopInv == loop.whole /\ loop.at # "idle" => Orderly /\ Standing

LEMMA HeaderType ==
  ASSUME NEW o \in Objs, NEW n \in Headers(o)
  PROVE  /\ n \in Nat \ {0} /\ n \in DOMAIN Hdr[o] /\ n >= First[o] /\ First[o] \in Nat
         /\ Hdr[o][n].len \in Nat /\ Hdr[o][n].skip \in Nat /\ Hdr[o][n].obj \in Objs
         /\ Hdr[o][n].skip <= Hdr[o][n].len
<1>1. n \in DOMAIN Hdr[o] /\ n >= First[o]
  BY DEF Headers
<1>2. First[o] \in Nat /\ n \in Nat \ {0} /\ Hdr[o][n] \in Header
  BY <1>1, ElfDescAssumption
<1> QED
  BY <1>1, <1>2 DEF Header

LEMMA BehindType ==
  ASSUME NEW o \in Objs, NEW n \in Headers(o)
  PROVE  Behind(o, n) \in Nat /\ Behind(o, n) > n
<1>1. n \in Nat /\ Hdr[o][n].len \in Nat
  BY HeaderType
<1> DEFINE m == n + ArHdr + Hdr[o][n].len
<1>2. m \in Nat /\ m > n
  BY <1>1 DEF ArHdr
<1>3. m % 2 \in 0..1
  BY <1>2
<1> QED
  BY <1>1, <1>2, <1>3 DEF Behind

\* The archive of the loop, whatever it is doing.
LEMMA LoopArchive ==
  ASSUME IInv, loop.at # "idle"
  PROVE  /\ loop.ar \in Known /\ loop.ar \in Ids /\ handles[loop.ar] > 0
         /\ elf[loop.ar] \in Elf /\ elf[loop.ar].kind = "ar"
         /\ elf[loop.ar].obj \in Objs /\ elf[loop.ar].size \in Nat
         /\ elf[loop.ar].next \in Nat /\ loop.seen \in Seq(Nat)
         /\ loop.e # None => loop.e \in Ids /\ handles[loop.e] > 0
<1>1. /\ loop.ar \in Ids /\ elf[loop.ar].kind = "ar" /\ None \notin Ids
      /\ loop.seen \in Seq(Nat) /\ loop.e \in Ids \cup {None}
      /\ handles \in [Ids -> Nat] /\ \A d \in Ids : handles[d] >= LoopHolds(d)
  BY ElfDescAssumption DEF IInv, LoopCounted, LoopRecord, Sound
<1>2. LoopHolds(loop.ar) \in {1, 2}
  BY <1>1 DEF LoopHolds
<1>3. handles[loop.ar] > 0
  BY <1>1, <1>2
<1>4. loop.ar \in Known /\ loop.ar \in live
  BY <1>1, <1>3, HeldIsKnown DEF IInv, Known
<1>5. elf[loop.ar] \in Elf /\ elf[loop.ar].obj \in Objs
  BY <1>1, <1>4 DEF IInv, Sound, ArchivesParsed
<1>6. loop.e # None => loop.e \in Ids /\ handles[loop.e] > 0
  <2>1. loop.e # None => LoopHolds(loop.e) \in {1, 2}
    BY <1>1 DEF LoopHolds
  <2> QED
    BY <1>1, <2>1
<1> QED
  BY <1>1, <1>3, <1>4, <1>5, <1>6 DEF Elf

LEMMA OpensMembers ==
  ASSUME NEW o \in Objs, NEW a, elf[a].obj = o, NEW n \in Headers(o), Opens(a, n)
  PROVE  n \in Members(o)
BY DEF Opens, Members

LEMMA IntervalCount ==
  ASSUME NEW n \in Nat
  PROVE  IsFiniteSet(1..n) /\ Cardinality(1..n) = n
<1>1. 1 \in Int /\ n \in Int
  OBVIOUS
<1>2. IsFiniteSet(1..n) /\ Cardinality(1..n) = IF 1 > n THEN 0 ELSE n - 1 + 1
  BY <1>1, FS_Interval
<1> QED
  BY <1>2

\* An ascending sequence in a finite set is no longer than that is large.
LEMMA AscendingFits ==
  ASSUME NEW S, IsFiniteSet(S), NEW s \in Seq(Nat), \A j \in 1..Len(s) : s[j] \in S,
         \A i, j \in 1..Len(s) : i < j => s[i] < s[j]
  PROVE  Len(s) <= Cardinality(S)
<1>1. Len(s) \in Nat /\ s \in [1..Len(s) -> S]
  OBVIOUS
<1>2. \A i, j \in 1..Len(s) : s[i] = s[j] => i = j
  <2> SUFFICES ASSUME NEW i \in 1..Len(s), NEW j \in 1..Len(s), s[i] = s[j], i # j
               PROVE  FALSE
    OBVIOUS
  <2>1. s[i] \in Nat /\ s[j] \in Nat
    OBVIOUS
  <2>2. i < j \/ j < i
    OBVIOUS
  <2> QED
    BY <2>1, <2>2
<1>3. s \in Injection(1..Len(s), S)
  BY <1>1, <1>2 DEF Injection, IsInjective
<1>4. IsFiniteSet(1..Len(s)) /\ Cardinality(1..Len(s)) = Len(s)
  BY <1>1, IntervalCount
<1> QED
  BY <1>3, <1>4, FS_Injection

\* The values of an ascending sequence are as many as it is long.
LEMMA AscendingCounts ==
  ASSUME NEW S, NEW s \in Seq(Nat), \A j \in 1..Len(s) : s[j] \in S,
         \A x \in S : \E j \in 1..Len(s) : s[j] = x,
         \A i, j \in 1..Len(s) : i < j => s[i] < s[j]
  PROVE  Cardinality(S) = Len(s)
<1>1. Len(s) \in Nat /\ s \in [1..Len(s) -> S]
  OBVIOUS
<1>2. \A i, j \in 1..Len(s) : s[i] = s[j] => i = j
  <2> SUFFICES ASSUME NEW i \in 1..Len(s), NEW j \in 1..Len(s), s[i] = s[j], i # j
               PROVE  FALSE
    OBVIOUS
  <2>1. s[i] \in Nat /\ s[j] \in Nat
    OBVIOUS
  <2>2. i < j \/ j < i
    OBVIOUS
  <2> QED
    BY <2>1, <2>2
<1>3. s \in Bijection(1..Len(s), S)
  BY <1>1, <1>2 DEF Bijection, Injection, Surjection, IsInjective
<1>4. ExistsBijection(1..Len(s), S)
  BY <1>3 DEF ExistsBijection
<1>5. IsFiniteSet(1..Len(s)) /\ Cardinality(1..Len(s)) = Len(s)
  BY <1>1, IntervalCount
<1> QED
  BY <1>4, <1>5, FS_Bijection

LEMMA OrderlyIsInOrder ==
  ASSUME IInv, LoopInv
  PROVE  LoopInOrder
<1> SUFFICES ASSUME loop.at = "over", loop.whole PROVE loop.seen \in InOrder(loop.ar)
  BY DEF LoopInOrder
<1> DEFINE a == loop.ar
           o == elf[a].obj
           s == loop.seen
           all == {n \in DOMAIN Hdr[o] : n >= First[o]}
           good == {n \in all : \A x \in all : x <= n => Opens(a, x)}
<1>1. o \in Objs /\ s \in Seq(Nat) /\ Orderly /\ Standing
  BY LoopArchive DEF LoopInv
<1>2. all = Headers(o)
  BY DEF Headers
<1>3. \A j \in 1..Len(s) : s[j] \in good
  BY <1>1, <1>2 DEF Orderly, Done
<1>4. \A x \in good : \E j \in 1..Len(s) : s[j] = x
  BY <1>1, <1>2 DEF Standing, Done
<1>5. \A i, j \in 1..Len(s) : i < j => s[i] < s[j]
  BY <1>1 DEF Orderly
<1> HIDE DEF good
<1>6. Cardinality(good) = Len(s)
  BY <1>1, <1>3, <1>4, <1>5, AscendingCounts
<1>7. s \in [1..Cardinality(good) -> good]
  BY <1>1, <1>3, <1>6
<1> HIDE DEF s
<1>8. s \in {f \in [1..Cardinality(good) -> good] :
               \A i, j \in 1..Cardinality(good) : i < j => f[i] < f[j]}
  BY <1>5, <1>6, <1>7
<1> QED
  BY <1>8 DEF InOrder, good, s

\* What the loop sees of a descriptor stays; and that of all that are held.
Same(d) ==
  /\ elf'[d].kind = elf[d].kind /\ elf'[d].obj = elf[d].obj
  /\ elf'[d].size = elf[d].size /\ elf'[d].off = elf[d].off
  /\ elf'[d].parent = elf[d].parent /\ elf'[d].cmd = elf[d].cmd
Stands(d) == Same(d) /\ elf'[d].next = elf[d].next
Held == \A d \in Ids : handles[d] > 0 => Stands(d)

\* What the loop has reached is reached when nothing of it changes.
LEMMA LoopUnmoved ==
  ASSUME IInv, LoopInv, \A d \in Ids : handles[d] > 0 => Same(d),
         loop.at # "idle" => Stands(loop.ar), loop' = loop
  PROVE  LoopInv'
<1> SUFFICES ASSUME loop.whole, loop.at # "idle" PROVE Orderly' /\ Standing'
  BY DEF LoopInv
<1> DEFINE a == loop.ar
<1>1. /\ Orderly /\ Standing /\ elf'[a].obj = elf[a].obj /\ elf'[a].size = elf[a].size
      /\ elf'[a].next = elf[a].next
  BY LoopArchive DEF LoopInv, Same, Stands
<1>2. \A x : Done(x)' <=> Done(x)
  BY DEF Done
<1>3. \A n : Reached(a, n)' <=> Reached(a, n)
  BY <1>1, <1>2 DEF Reached
<1>4. \A n : Opens(a, n)' <=> Opens(a, n)
  BY <1>1 DEF Opens
<1>5. Orderly'
  BY <1>1, <1>2, <1>4 DEF Orderly
<1>6. loop.at = "next" =>
        elf'[loop.e].parent = elf[loop.e].parent /\ NextOffset(loop.e)' = NextOffset(loop.e)
  <2>1. loop.at = "next" => loop.e \in Ids /\ loop.e # None
    BY ElfDescAssumption DEF IInv, LoopCounted
  <2> QED
    BY <2>1, LoopArchive DEF Same, NextOffset
<1>7. Standing'
  BY <1>1, <1>2, <1>3, <1>4, <1>6 DEF Standing
<1> QED
  BY <1>5, <1>7

LEMMA LoopHeld ==
  ASSUME IInv, LoopInv, Held, loop' = loop
  PROVE  LoopInv'
BY LoopUnmoved, LoopArchive DEF Held, Stands

\* When the client has steered the archive of the loop, there is nothing to keep.
LEMMA LoopBroken ==
  ASSUME loop'.whole = FALSE
  PROVE  LoopInv'
BY DEF LoopInv

LEMMA SameReaders ==
  ASSUME Readers, Known' \subseteq Known, \A d \in Known' : Same(d), ready => ready'
  PROVE  Readers'
BY DEF Readers, Same

LEMMA GiveHeld ==
  ASSUME IInv, Readers, ready, ready', Ids \ live # {}, NEW who, NEW x \in Elf,
         x.kind = "ar" => x.cmd = "read", Give(who, Place, x), lost' = lost
  PROVE  Readers' /\ Held
<1>1. PICK q \in Ids \ live : q = Place
  BY PlaceIsFree
<1>2. /\ live' = live \cup {q} /\ elf' = [elf EXCEPT ![q] = x] /\ elf \in [Ids -> Elf]
      /\ lost \subseteq live /\ live \subseteq Ids
  BY <1>1 DEF Give, IInv, Sound
<1>3. q \notin Known /\ Known' = Known \cup {q} /\ Known \subseteq Ids
  BY <1>1, <1>2 DEF Known
<1>4. elf'[q] = x /\ \A d \in Ids \ {q} : elf'[d] = elf[d]
  BY <1>2
<1>5. handles[q] = 0
  BY <1>3 DEF IInv, Sound, HandlesAreCounted
<1>6. Readers'
  BY <1>3, <1>4 DEF Readers
<1>7. Held
  BY <1>4, <1>5 DEF Held, Same, Stands
<1> QED
  BY <1>6, <1>7

LEMMA LoseHeld ==
  ASSUME IInv, Readers, ready, ready', Ids \ live # {}, NEW who, NEW x \in Elf,
         Lose(who, Place, x)
  PROVE  Readers' /\ Held
<1>1. PICK q \in Ids \ live : q = Place
  BY PlaceIsFree
<1>2. /\ live' = live \cup {q} /\ lost' = lost \cup {q} /\ elf' = [elf EXCEPT ![q] = x]
      /\ elf \in [Ids -> Elf] /\ lost \subseteq live /\ live \subseteq Ids
  BY <1>1 DEF Lose, IInv, Sound
<1>3. q \notin Known /\ Known' = Known /\ Known \subseteq Ids \ {q}
  BY <1>1, <1>2 DEF Known
<1>4. \A d \in Ids \ {q} : elf'[d] = elf[d]
  BY <1>2
<1>5. handles[q] = 0
  BY <1>3 DEF IInv, Sound, HandlesAreCounted
<1>6. Readers'
  BY <1>3, <1>4 DEF Readers
<1>7. Held
  BY <1>4, <1>5 DEF Held, Same, Stands
<1> QED
  BY <1>6, <1>7

\* What changes nothing of the descriptors but counts and file descriptors.
LEMMA KeptHeld ==
  ASSUME IInv, Readers, ready => ready', UNCHANGED <<live, lost>>, \A d \in Ids : Stands(d)
  PROVE  Readers' /\ Held
<1>1. Known' = Known /\ Known \subseteq Ids
  BY DEF Known, IInv, Sound
<1> QED
  BY <1>1, SameReaders DEF Held, Stands

LEMMA UnchangedHeld ==
  ASSUME IInv, Readers, ready => ready', UNCHANGED memory, UNCHANGED lost
  PROVE  Readers' /\ Held
BY KeptHeld DEF memory, Same, Stands

LEMMA ElfMemoryLoop ==
  ASSUME IInv, Readers, NEW o \in Memory, NEW r \in BOOLEAN, ElfMemory(o, r)
  PROVE  Readers' /\ Held /\ loop' = loop
<1> DEFINE k == Parsed(o, r)
<1>1. o \in Objs /\ Size[o] \in Nat /\ ready' = ready
  BY ElfDescAssumption DEF ElfMemory
<1>2. CASE Fault("client") \/ Refuse("client")
  BY <1>1, <1>2, UnchangedHeld DEF Fault, Refuse, Return, ghosts
<1>3. CASE /\ ready /\ Ids \ live # {} /\ k \in {"none", "elf", "ar"}
           /\ Give("client", Place, Fresh(o, k, Size[o])) /\ UNCHANGED <<images, lost, strays>>
  <2> DEFINE x == Fresh(o, k, Size[o])
  <2>1. x \in Elf
    BY <1>1, <1>3, FreshType
  <2>2. x.cmd = "read"
    <3> HIDE DEF k
    <3> QED
      BY DEF Fresh, Blank
  <2>3. loop' = loop
    BY <1>3 DEF Give, Return
  <2> HIDE DEF x
  <2> QED
    BY <1>1, <1>3, <2>1, <2>2, <2>3, GiveHeld DEF x
<1>4. CASE /\ ready /\ Ids \ live # {} /\ Lose("client", Place, Fresh(o, "ar", Size[o]))
           /\ UNCHANGED <<images, handles, strays, loop>>
  BY <1>1, <1>4, FreshType, LoseHeld
<1> QED
  BY <1>2, <1>3, <1>4 DEF ElfMemory

LEMMA OpenObjectLoop ==
  ASSUME IInv, Readers, ready, ready', NEW fd \in Fds, NEW c \in {"read", "rdwr", "write"},
         NEW r \in BOOLEAN, OpenObject(fd, c, r)
  PROVE  Readers' /\ Held /\ loop' = loop
<1> DEFINE o == FileObj[fd]
           k == Parsed(o, r)
           f == Fresh(o, k, Size[o])
           opened == [f EXCEPT !.image = ImagePlace, !.rawfile = "owned", !.fd = fd, !.cmd = c]
           w == [Blank EXCEPT !.kind = "elf", !.activations = 1, !.fd = fd, !.cmd = c]
<1>1. o \in Objs /\ Size[o] \in Nat
  BY ElfDescAssumption
<1>2. CASE Fault("client")
  BY <1>2, UnchangedHeld DEF Fault, ghosts
<1>3. CASE /\ Ids \ live # {} /\ Give("client", Place, w) /\ UNCHANGED <<images, lost, strays>>
  <2>1. w \in Elf /\ w.kind = "elf"
    BY DEF Blank, Elf
  <2> HIDE DEF w
  <2>2. Readers' /\ Held
    BY <1>3, <2>1, GiveHeld
  <2>3. loop' = loop
    BY <1>3 DEF Give, Return
  <2> QED
    BY <2>2, <2>3
<1>4. CASE /\ Ids \ live # {} /\ Images \ images # {} /\ k \in {"none", "elf", "ar"}
           /\ (k = "ar" => c # "rdwr") /\ c # "write" /\ Give("client", Place, opened)
           /\ images' = images \cup {ImagePlace} /\ UNCHANGED <<lost, strays>>
  <2>1. ImagePlace \in Images \ images
    BY <1>4 DEF ImagePlace
  <2>2. f \in Elf /\ f.kind = k
    BY <1>1, <1>4, FreshType
  <2>5. k = "ar" => c = "read"
    BY <1>4
  <2> HIDE DEF f, k
  <2>3. opened \in Elf /\ opened.kind = k /\ opened.cmd = c
    BY <2>1, <2>2 DEF Elf
  <2> HIDE DEF opened
  <2>4. loop' = loop
    BY <1>4 DEF Give, Return
  <2>6. Readers' /\ Held
    BY <1>4, <2>3, <2>5, GiveHeld
  <2> QED
    BY <2>4, <2>6
<1>5. CASE UNCHANGED <<live, elf, lost, loop>>
  BY <1>5, KeptHeld DEF Same, Stands
<1>6. CASE /\ Ids \ live # {} /\ Lose("client", Place, Fresh(o, "ar", Size[o]))
           /\ UNCHANGED <<images, handles, strays, loop>>
  BY <1>1, <1>6, FreshType, LoseHeld
<1> QED
  BY <1>2, <1>3, <1>4, <1>5, <1>6 DEF OpenObject

\* The new member at q, of the archive a: what it is, and what stays.
Entered(q, c, a) ==
  LET n == elf[a].next
      h == Hdr[elf[a].obj][n]
  IN /\ live' = live \cup {q} /\ UNCHANGED lost
     /\ elf'[q].cmd = c /\ elf'[q].parent = a
     /\ elf'[q].off = n + ArHdr + h.skip /\ elf'[q].size = h.len - h.skip
     /\ \A d \in Ids \ {q} : Stands(d)

LEMMA EnteredHeld ==
  ASSUME IInv, Readers, ready, ready', NEW q \in Ids \ live, NEW a, Entered(q, "read", a)
  PROVE  Readers' /\ Held
<1>1. lost \subseteq live /\ live \subseteq Ids
  BY DEF IInv, Sound
<1>2. q \notin Known /\ Known' = Known \cup {q} /\ Known \subseteq Ids \ {q}
  BY <1>1 DEF Entered, Known
<1>3. handles[q] = 0
  BY <1>2 DEF IInv, Sound, HandlesAreCounted
<1>4. Readers'
  BY <1>2 DEF Readers, Entered, Same, Stands
<1>5. Held
  BY <1>3 DEF Entered, Held
<1> QED
  BY <1>4, <1>5

\* Where elf_begin leads that opens a member.
NoMember(a) ==
  LET n == elf[a].next
      h == Hdr[elf[a].obj][n]
  IN \/ n = 0 \/ n \notin DOMAIN Hdr[elf[a].obj]
     \/ n + ArHdr + h.len > elf[a].size \/ h.len = h.skip
     \/ Parsed(h.obj, TRUE) \notin {"none", "elf", "ar"}

LEMMA OpenMemberLoop ==
  ASSUME IInv, Readers, ready, ready', NEW who \in Who, NEW a \in Ids, handles[a] > 0,
         elf[a].kind = "ar", OpenMember(who, "read", a)
  PROVE  /\ Readers' /\ Held
         /\ \/ Fault(who)
            \/ NoMember(a) /\ Return(who, None)
            \/ /\ elf[a].next # 0 /\ ~NoMember(a)
               /\ \E q \in Ids \ live : Entered(q, "read", a) /\ Return(who, q)
<1> DEFINE n == elf[a].next
           h == Hdr[elf[a].obj][n]
           fits == /\ n # 0 /\ n \in DOMAIN Hdr[elf[a].obj]
                   /\ n + ArHdr + h.len <= elf[a].size
           k == Parsed(h.obj, TRUE)
           f == Fresh(h.obj, k, h.len - h.skip)
           member == [f EXCEPT
                         !.fd = elf[a].fd, !.cmd = "read", !.image = elf[a].image,
                         !.parent = a, !.off = n + ArHdr + h.skip]
<1>1. /\ a \in Known /\ a \in live /\ elf \in [Ids -> Elf] /\ elf[a].obj \in Objs
      /\ live \subseteq Ids /\ lost \subseteq live /\ elf[a] \in Elf
      /\ n \in Nat /\ elf[a].size \in Nat
  BY HeldIsKnown DEF IInv, Sound, Known, ArchivesParsed, Elf
<1>2. n \in DOMAIN Hdr[elf[a].obj] =>
        h.obj \in Objs /\ h.len \in Nat /\ h.skip \in Nat /\ h.len - h.skip \in Nat
  <2> SUFFICES ASSUME n \in DOMAIN Hdr[elf[a].obj]
               PROVE  h.obj \in Objs /\ h.len \in Nat /\ h.skip \in Nat /\ h.len - h.skip \in Nat
    OBVIOUS
  <2>1. h \in Header
    BY <1>1, ElfDescAssumption
  <2> HIDE DEF h
  <2> QED
    BY <2>1 DEF Header
<1>3. CASE /\ fits => h.len = h.skip \/ k = "null"
           /\ Refuse(who)
  <2>1. NoMember(a)
    <3>1. n = 0 \/ n \notin DOMAIN Hdr[elf[a].obj] \/ h.len = h.skip \/ k = "null" \/ ~fits
      BY <1>3
    <3>2. ASSUME n \in DOMAIN Hdr[elf[a].obj], ~(n + ArHdr + h.len <= elf[a].size)
          PROVE  n + ArHdr + h.len > elf[a].size
      <4>1. h.len \in Nat
        BY <1>2, <3>2
      <4> HIDE DEF n, h
      <4> QED
        BY <1>1, <3>2, <4>1 DEF ArHdr
    <3> QED
      BY <3>1, <3>2 DEF NoMember
  <2> QED
    BY <1>3, <2>1, UnchangedHeld DEF Refuse, ghosts
<1>4. CASE Fault(who)
  BY <1>4, UnchangedHeld DEF Fault, ghosts
<1>5. CASE /\ fits /\ h.len # h.skip /\ Ids \ live # {} /\ k \in {"none", "elf", "ar"}
           /\ live' = live \cup {Place} /\ Adopt(a, member) /\ Return(who, Place)
           /\ UNCHANGED <<images, lost, strays>>
  <2>1. PICK q \in Ids \ live : q = Place
    BY <1>5, PlaceIsFree
  <2>2. DOMAIN f = DOMAIN Blank /\ f.size = h.len - h.skip
    <3> HIDE DEF k, h
    <3> QED
      BY DEF Fresh, Blank
  <2>8. ~NoMember(a) /\ n # 0
    <3>1. ~(n + ArHdr + h.len > elf[a].size)
      <4>1. h.len \in Nat /\ n + ArHdr + h.len <= elf[a].size
        BY <1>2, <1>5
      <4> HIDE DEF n, h
      <4> QED
        BY <1>1, <4>1 DEF ArHdr
    <3> QED
      BY <1>5, <3>1 DEF NoMember
  <2> HIDE DEF f
  <2>3. /\ member.cmd = "read" /\ member.parent = a /\ member.off = n + ArHdr + h.skip
        /\ member.size = h.len - h.skip
    <3> DEFINE sz == h.len - h.skip
               off == n + ArHdr + h.skip
    <3>1. f.size = sz
      BY <2>2
    <3> HIDE DEF sz, off
    <3>2. member = [f EXCEPT !.fd = elf[a].fd, !.cmd = "read", !.image = elf[a].image,
                             !.parent = a, !.off = off]
      BY DEF off
    <3> HIDE DEF member
    <3>3. /\ member.cmd = "read" /\ member.parent = a /\ member.off = off
          /\ member.size = f.size
      BY <2>2, <3>2 DEF Blank
    <3> QED
      BY <3>1, <3>3 DEF sz, off
  <2> HIDE DEF member
  <2>4. elf' = [elf EXCEPT ![a].nchildren = @ + 1, ![q] = member] /\ q # a
    BY <1>1, <1>5, <2>1 DEF Adopt
  <2>5. elf'[q] = member /\ \A d \in Ids \ {q} : Stands(d)
    BY <1>1, <2>1, <2>4 DEF Same, Stands, Elf
  <2>6. Entered(q, "read", a)
    BY <1>5, <2>1, <2>3, <2>5 DEF Entered
  <2>7. Readers' /\ Held
    BY <2>6, EnteredHeld
  <2> QED
    BY <1>5, <2>1, <2>6, <2>7, <2>8
<1>6. CASE /\ fits /\ Ids \ live # {} /\ k = "lost"
           /\ Lose(who, Place, Fresh(h.obj, "ar", h.len - h.skip)) /\ Return(who, None)
           /\ UNCHANGED <<images, handles, strays>>
  <2>1. h.obj \in Objs /\ h.len - h.skip \in Nat
    BY <1>2, <1>6
  <2>4. NoMember(a)
    BY <1>6 DEF NoMember
  <2> HIDE DEF h
  <2>2. Fresh(h.obj, "ar", h.len - h.skip) \in Elf
    BY <2>1, FreshType
  <2>3. Readers' /\ Held
    BY <1>6, <2>2, LoseHeld
  <2> QED
    BY <1>6, <2>3, <2>4
<1> QED
  BY <1>3, <1>4, <1>5, <1>6 DEF OpenMember

LEMMA MoveHeld ==
  ASSUME IInv, Readers, NEW p, NEW n, elf' = [elf EXCEPT ![p].next = n],
         UNCHANGED <<ready, live, lost>>
  PROVE  /\ Readers' /\ \A d \in Ids : Same(d)
         /\ \A d \in Ids : d # p => Stands(d)
         /\ p \in Ids => elf'[p].next = n
<1>1. elf \in [Ids -> Elf] /\ Known' = Known /\ Known \subseteq Ids
  BY DEF IInv, Sound, Known
<1>2. \A d \in Ids : Same(d) /\ (d # p => Stands(d)) /\ (d = p => elf'[d].next = n)
  BY <1>1 DEF Same, Stands, Elf
<1> QED
  BY <1>1, <1>2, SameReaders

\* The client steers an archive: if it is that of the loop, the loop does not
\* go through all of it.
LEMMA SteerLoop ==
  ASSUME IInv, Readers, LoopInv, NEW p, NEW n, elf' = [elf EXCEPT ![p].next = n],
         Disturbed(p), UNCHANGED <<ready, live, lost>>
  PROVE  Readers' /\ LoopInv'
<1>1. Readers' /\ (\A d \in Ids : Same(d)) /\ \A d \in Ids : d # p => Stands(d)
  BY MoveHeld
<1>2. CASE loop.ar = p
  <2>1. loop \in LoopRecord
    BY DEF IInv, LoopCounted
  <2>2. loop'.whole = FALSE
    BY <1>2, <2>1 DEF Disturbed, LoopRecord
  <2> QED
    BY <1>1, <2>2, LoopBroken
<1>3. CASE loop.ar # p
  BY <1>1, <1>3, LoopUnmoved, LoopArchive DEF Disturbed
<1> QED
  BY <1>1, <1>2, <1>3

LEMMA EndHeld ==
  ASSUME IInv, Readers, NEW x \in Ids, End(x), ready' = ready
  PROVE  Readers' /\ Held
<1>1. \A d \in Ids : Stands(d)
  BY DEF End, Same, Stands, IInv, Sound, Elf
<1> QED
  BY <1>1, KeptHeld DEF End

LEMMA ReleaseLoop ==
  ASSUME IInv, Readers, Release
  PROVE  Readers' /\ Held /\ loop' = loop
<1>1. loop' = loop /\ ready' = ready
  BY DEF Release
<1>2. CASE Waits(ending)
  BY <1>1, <1>2, UnchangedHeld DEF Release, ghosts
<1>3. CASE ~Waits(ending)
  <2>1. /\ ending \in Known /\ handles[ending] = 0 /\ Known \subseteq Ids
        /\ elf \in [Ids -> Elf]
    BY DEF Release, IInv, Sound, HandlesAreCounted, Known
  <2>2. live' = live \ {ending} /\ lost' = lost
    BY <1>3 DEF Release, ghosts
  <2>3. \A d \in Ids \ {ending} : Stands(d)
    BY <1>3, <2>1 DEF Release, Same, Stands, Elf
  <2>4. Known' = Known \ {ending}
    BY <2>2 DEF Known
  <2>5. Readers'
    BY <1>1, <2>1, <2>3, <2>4, SameReaders DEF Stands
  <2> QED
    BY <1>1, <2>1, <2>3, <2>5 DEF Held
<1> QED
  BY <1>2, <1>3

LEMMA ClientBeginLoop ==
  ASSUME IInv, Readers, NEW fd \in Fds, NEW c \in {"null", "read", "rdwr", "write"},
         NEW a \in Ids \cup {None}, ElfBegin("client", fd, c, a)
  PROVE  Readers' /\ Held /\ loop' = loop
<1> DEFINE given == IF c = "write" THEN None ELSE a
           refused == \/ ~ready \/ c = "null"
                      \/ given # None /\ c = "rdwr"
                      \/ given # None /\ elf[given].fd \notin {None, fd}
                      \/ given # None /\ c # elf[given].cmd
<1>1. /\ given \in Ids \cup {None} /\ (given # None => handles[given] > 0)
      /\ ready' = ready
  BY DEF ElfBegin
<1>2. CASE Refuse("client")
  BY <1>1, <1>2, UnchangedHeld DEF Refuse, Return, ghosts
<1>3. CASE ~refused /\ given = None /\ OpenObject(fd, c, TRUE)
  <2>1. ready /\ c \in {"read", "rdwr", "write"}
    BY <1>3
  <2> QED
    BY <1>1, <1>3, <2>1, OpenObjectLoop
<1>4. CASE ~refused /\ given # None /\ elf[given].kind = "ar" /\ OpenMember("client", c, given)
  <2>1. ready /\ given \in Ids /\ c = "read" /\ "client" \in Who
    BY <1>1, <1>4 DEF Who
  <2>2. Readers' /\ Held
    BY <1>1, <1>4, <2>1, OpenMemberLoop
  <2>3. loop' = loop
    BY <1>4 DEF OpenMember, Refuse, Fault, Return
  <2> QED
    BY <2>2, <2>3
<1>5. CASE Activate("client", given)
  <2>1. UNCHANGED <<live, lost>> /\ (\A d \in Ids : Stands(d)) /\ loop' = loop
    BY <1>5 DEF Activate, Return, Same, Stands, IInv, Sound, Elf
  <2> QED
    BY <1>1, <2>1, KeptHeld
<1> QED
  BY <1>2, <1>3, <1>4, <1>5 DEF ElfBegin

\* Where the next member cannot be opened, all are done that come before it.
LEMMA NothingIsLeft ==
  ASSUME IInv, LoopInv, loop.whole, loop.at = "begin", NoMember(loop.ar)
  PROVE  \A x \in Headers(elf[loop.ar].obj) :
            Done(x) \/ \E y \in Headers(elf[loop.ar].obj) : y <= x /\ ~Opens(loop.ar, y)
<1> DEFINE a == loop.ar
           o == elf[a].obj
           n == elf[a].next
<1>1. o \in Objs /\ n \in Nat /\ elf[a].size \in Nat /\ Reached(a, n)
  BY LoopArchive DEF LoopInv, Standing
<1> SUFFICES ASSUME NEW x \in Headers(o), ~Done(x)
             PROVE  \E y \in Headers(o) : y <= x /\ ~Opens(a, y)
  OBVIOUS
<1>2. x \in Nat /\ Hdr[o][x].len \in Nat
  BY <1>1, HeaderType
<1>3. CASE n = 0
  <2>1. x >= elf[a].size
    BY <1>1, <1>3 DEF Reached
  <2>2. ~(x + ArHdr + Hdr[o][x].len <= elf[a].size)
    <3> HIDE DEF o, a
    <3> QED
      BY <1>1, <1>2, <2>1 DEF ArHdr
  <2>3. ~Opens(a, x)
    BY <2>2 DEF Opens
  <2> QED
    BY <1>2, <2>3
<1>4. CASE n # 0
  <2>1. ~(x < n)
    BY <1>1, <1>4 DEF Reached
  <2>2. n \in Headers(o) /\ n <= x
    BY <1>1, <1>2, <1>4, <2>1 DEF Reached
  <2>3. n \in DOMAIN Hdr[o] /\ Hdr[o][n].len \in Nat /\ Hdr[o][n].skip \in Nat
    BY <1>1, <2>2, HeaderType
  <2>4. n + ArHdr + Hdr[o][n].len \in Nat
    <3> HIDE DEF o, n
    <3> QED
      BY <1>1, <2>3 DEF ArHdr
  <2>5. ~Opens(a, n)
    <3> DEFINE h == Hdr[o][n]
               m == n + ArHdr + h.len
               k == Parsed(h.obj, TRUE) \in {"none", "elf", "ar"}
               sz == elf[a].size
    <3>1. m > sz \/ h.len = h.skip \/ ~k
      BY <1>4, <2>3 DEF NoMember
    <3>2. Opens(a, n) =>
            m <= sz /\ h.len > h.skip /\ k
      BY DEF Opens
    <3>3. m \in Nat /\ h.len \in Nat /\ h.skip \in Nat /\ sz \in Nat
      BY <1>1, <2>3, <2>4
    <3> HIDE DEF h, m, k, sz
    <3> QED
      BY <3>1, <3>2, <3>3
  <2> QED
    BY <2>2, <2>5
<1> QED
  BY <1>3, <1>4

\* The loop ends where it got NULL for the next member.
LEMMA LoopOver ==
  ASSUME IInv, LoopInv, Held, loop.at = "begin", NoMember(loop.ar), Return("loop", None)
  PROVE  LoopInv'
<1>1. loop' = [loop EXCEPT !.at = "over"] /\ loop \in LoopRecord
  BY DEF Return, IInv, LoopCounted
<1>2. /\ loop'.at = "over" /\ loop'.ar = loop.ar /\ loop'.seen = loop.seen
      /\ loop'.whole = loop.whole
  BY <1>1 DEF LoopRecord
<1> SUFFICES ASSUME loop.whole PROVE Orderly' /\ Standing'
  BY <1>2 DEF LoopInv
<1> DEFINE a == loop.ar
<1>3. Orderly /\ elf'[a].obj = elf[a].obj /\ elf'[a].size = elf[a].size
  BY LoopArchive DEF LoopInv, Held, Same, Stands
<1>4. (\A x : Done(x)' <=> Done(x)) /\ \A n : Opens(loop.ar, n)' <=> Opens(loop.ar, n)
  BY <1>2, <1>3 DEF Done, Opens
<1>5. Orderly'
  BY <1>2, <1>3, <1>4 DEF Orderly
<1>6. \A x \in Headers(elf[a].obj) : Done(x) \/ \E y \in Headers(elf[a].obj) : y <= x /\ ~Opens(a, y)
  BY NothingIsLeft
<1>7. Standing'
  BY <1>2, <1>3, <1>4, <1>6 DEF Standing
<1> QED
  BY <1>5, <1>7

\* It writes down the next member, that at which the archive stands.
LEMMA LoopGoesOn ==
  ASSUME IInv, WellLaid, LoopInv, Held, loop.at = "begin", ~NoMember(loop.ar),
         NEW q \in Ids \ live, Entered(q, "read", loop.ar), Return("loop", q)
  PROVE  LoopInv'
<1> DEFINE a == loop.ar
           o == elf[a].obj
           s == loop.seen
           n == elf[a].next
           h == Hdr[o][n]
           t == Append(s, n)
<1>1. loop \in LoopRecord /\ q # None
  BY ElfDescAssumption DEF IInv, LoopCounted
<1>2. /\ loop'.at = "next" /\ loop'.ar = loop.ar /\ loop'.e = q /\ loop'.whole = loop.whole
      /\ loop'.seen = IF loop.whole /\ Len(s) < MaxSeen THEN t ELSE s
  BY <1>1 DEF Return, LoopRecord
<1> SUFFICES ASSUME loop.whole PROVE Orderly' /\ Standing'
  BY <1>2 DEF LoopInv
<1>3. /\ Orderly /\ Reached(a, n) /\ elf'[a].obj = o /\ elf'[a].size = elf[a].size
      /\ o \in Objs /\ n \in Nat /\ n # 0 /\ s \in Seq(Nat)
  BY LoopArchive DEF LoopInv, Standing, Held, Same, Stands, NoMember
<1>4. n \in Headers(o)
  BY <1>3 DEF Reached, NoMember, Headers
<1>5. h.len \in Nat /\ h.skip \in Nat /\ h.skip <= h.len
  BY <1>3, <1>4, HeaderType
<1>6. Opens(a, n)
  <2>1. ~(n + ArHdr + h.len > elf[a].size) => n + ArHdr + h.len <= elf[a].size
    <3>1. elf[a].size \in Nat
      BY LoopArchive
    <3> HIDE DEF h, n, a
    <3> QED
      BY <1>3, <1>5, <3>1 DEF ArHdr
  <2>2. h.len # h.skip => h.len > h.skip
    <3> HIDE DEF h
    <3> QED
      BY <1>5
  <2> QED
    BY <2>1, <2>2 DEF NoMember, Opens
<1>7. /\ t \in Seq(Nat) /\ Len(t) = Len(s) + 1 /\ t[Len(s) + 1] = n /\ Len(s) \in Nat
      /\ \A j \in 1..Len(s) : t[j] = s[j]
      /\ \A j \in 1..Len(t) : j \in 1..Len(s) \/ j = Len(s) + 1
  <2> HIDE DEF s, n
  <2> QED
    BY <1>3
<1> HIDE DEF t
<1>8. \A i, j \in 1..Len(t) : i < j => t[i] < t[j]
  <2> SUFFICES ASSUME NEW i \in 1..Len(t), NEW j \in 1..Len(t), i < j PROVE t[i] < t[j]
    OBVIOUS
  <2>1. i \in 1..Len(s)
    BY <1>7
  <2>2. CASE j \in 1..Len(s)
    BY <1>3, <1>7, <2>1, <2>2 DEF Orderly
  <2>3. CASE j = Len(s) + 1
    BY <1>3, <1>7, <2>1, <2>3 DEF Reached
  <2> QED
    BY <1>7, <2>2, <2>3
<1>9. \A j \in 1..Len(t) : t[j] \in Headers(o) /\ Opens(a, t[j])
  BY <1>3, <1>4, <1>6, <1>7 DEF Orderly
<1>10. Len(s) < MaxSeen
  <2>1. \A j \in 1..Len(t) : t[j] \in Members(o)
    BY <1>3, <1>9, OpensMembers
  <2>2. IsFiniteSet(Members(o)) /\ Cardinality(Members(o)) <= MaxSeen
    BY <1>3 DEF WellLaid
  <2>3. Len(t) <= Cardinality(Members(o)) /\ Cardinality(Members(o)) \in Nat
    BY <1>7, <1>8, <2>1, <2>2, AscendingFits, FS_CardinalityType
  <2>4. MaxSeen \in Nat
    BY ElfDescAssumption
  <2> DEFINE m == Cardinality(Members(o))
             l == Len(s)
  <2>5. l + 1 <= m /\ m <= MaxSeen /\ l \in Nat /\ m \in Nat
    BY <1>7, <2>2, <2>3
  <2> HIDE DEF m, l
  <2>6. l < MaxSeen
    BY <2>4, <2>5
  <2> QED
    BY <2>6 DEF l
<1>11. loop'.seen = t
  BY <1>2, <1>10
<1>12. /\ \A x : Done(x)' <=> Done(x) \/ x = n
       /\ \A m : Opens(loop.ar, m)' <=> Opens(loop.ar, m)
  <2>1. ASSUME NEW x PROVE Done(x)' <=> Done(x) \/ x = n
    <3>1. ASSUME Done(x) PROVE Done(x)'
      <4>1. PICK j \in 1..Len(s) : s[j] = x
        BY <3>1 DEF Done
      <4>2. j \in 1..Len(t) /\ t[j] = x
        BY <1>7, <4>1
      <4> QED
        BY <1>11, <4>2 DEF Done
    <3>2. ASSUME x = n PROVE Done(x)'
      <4>1. Len(t) \in 1..Len(t) /\ t[Len(t)] = n
        BY <1>7
      <4> QED
        BY <1>11, <3>2, <4>1 DEF Done
    <3>3. ASSUME Done(x)' PROVE Done(x) \/ x = n
      BY <1>7, <1>11, <3>3 DEF Done
    <3> QED
      BY <3>1, <3>2, <3>3
  <2>2. \A m : Opens(loop.ar, m)' <=> Opens(loop.ar, m)
    BY <1>2, <1>3 DEF Opens
  <2> QED
    BY <2>1, <2>2
<1>13. Orderly'
  <2>1. ASSUME NEW j \in 1..Len(t), NEW x \in Headers(o), x <= t[j]
        PROVE  Done(x)'
    <3>1. CASE j \in 1..Len(s)
      BY <1>3, <1>7, <1>12, <2>1, <3>1 DEF Orderly
    <3>2. CASE j = Len(s) + 1
      <4>1. x \in Nat /\ x <= n
        BY <1>3, <1>7, <2>1, <3>2, HeaderType
      <4> QED
        BY <1>3, <1>12, <4>1 DEF Reached
    <3> QED
      BY <1>7, <3>1, <3>2
  <2> QED
    BY <1>2, <1>3, <1>8, <1>9, <1>11, <1>12, <2>1 DEF Orderly
<1>14. Standing'
  <2>1. t # <<>> /\ t[Len(t)] = n
    BY <1>7
  <2>2. elf'[q].parent = a /\ elf'[q].off = n + ArHdr + h.skip /\ elf'[q].size = h.len - h.skip
    BY DEF Entered
  <2>3. n + ArHdr + h.skip + (h.len - h.skip) = n + ArHdr + h.len
    <3> HIDE DEF h, n
    <3> QED
      BY <1>3, <1>5 DEF ArHdr
  <2>4. NextOffset(q)' = Behind(o, n)
    <3> DEFINE m == n + ArHdr + h.skip + (h.len - h.skip)
    <3>1. elf'[q].off + elf'[q].size = m /\ m = n + ArHdr + h.len
      BY <2>2, <2>3
    <3> HIDE DEF m
    <3> QED
      BY <3>1 DEF NextOffset, Behind
  <2> QED
    BY <1>2, <1>3, <1>11, <2>1, <2>2, <2>4 DEF Standing
<1> QED
  BY <1>13, <1>14

LEMMA LoopBeginOrder ==
  ASSUME IInv, WellLaid, Readers, LoopInv, LoopBegin
  PROVE  Readers' /\ LoopInv'
<1> DEFINE a == loop.ar
           c == loop.cmd
<1>1. /\ loop.at = "begin" /\ ElfBegin("loop", elf[a].fd, c, a) /\ c \in {"null", "read"}
      /\ a \in Known /\ a \in Ids /\ a # None /\ handles[a] > 0 /\ elf[a].kind = "ar"
      /\ ready' = ready
  BY LoopArchive, ElfDescAssumption DEF LoopBegin, IInv, LoopCounted, LoopRecord, ElfBegin
<1>2. ready /\ elf[a].cmd = "read"
  BY <1>1 DEF Readers
<1>3. CASE c = "null" /\ Refuse("loop")
  <2>1. Readers' /\ Held /\ Return("loop", None)
    BY <1>2, <1>3, <1>1, UnchangedHeld DEF Refuse, ghosts
  <2>2. CASE loop.whole
    <3>1. elf[a].next = 0
      BY <1>1, <1>3, <2>2 DEF LoopInv, Standing
    <3> QED
      BY <1>1, <2>1, <3>1, LoopOver DEF NoMember
  <2>3. CASE ~loop.whole
    <3>1. loop'.whole = loop.whole
      BY <2>1 DEF Return, IInv, LoopCounted, LoopRecord
    <3> QED
      BY <2>1, <2>3, <3>1 DEF LoopInv
  <2> QED
    BY <2>2, <2>3
<1>4. CASE c = "read" /\ OpenMember("loop", "read", a)
  <2>1. "loop" \in Who
    BY DEF Who
  <2>2. /\ Readers' /\ Held
        /\ \/ Fault("loop")
           \/ NoMember(a) /\ Return("loop", None)
           \/ ~NoMember(a) /\ \E q \in Ids \ live : Entered(q, "read", a) /\ Return("loop", q)
    BY <1>1, <1>2, <1>4, <2>1, OpenMemberLoop
  <2>3. CASE Fault("loop")
    <3>1. loop'.whole = FALSE
      BY <2>3 DEF Fault, IInv, LoopCounted, LoopRecord
    <3> QED
      BY <2>2, <3>1, LoopBroken
  <2> QED
    BY <1>1, <2>2, <2>3, LoopOver, LoopGoesOn
<1> QED
  BY <1>1, <1>2, <1>3, <1>4 DEF ElfBegin

LEMMA LoopNextOrder ==
  ASSUME IInv, WellLaid, Readers, LoopInv, LoopNext
  PROVE  Readers' /\ LoopInv'
<1> DEFINE a == loop.ar
           o == elf[a].obj
           s == loop.seen
           N == NextOffset(loop.e)
           p == elf[loop.e].parent
           n == IF N >= elf[p].size THEN 0 ELSE N
<1>1. /\ loop.at = "next" /\ elf' = [elf EXCEPT ![p].next = n]
      /\ loop' = [loop EXCEPT !.at = "end", !.cmd = MovedOn(loop.e)]
      /\ UNCHANGED <<ready, live, lost>> /\ loop \in LoopRecord
  BY DEF LoopNext, MoveOn, ghosts, IInv, LoopCounted
<1> HIDE DEF n
<1>2. /\ loop'.at = "end" /\ loop'.ar = loop.ar /\ loop'.seen = s /\ loop'.whole = loop.whole
      /\ loop'.cmd = MovedOn(loop.e)
  BY <1>1 DEF LoopRecord
<1>3. /\ Readers' /\ \A d \in Ids : Same(d)
      /\ p \in Ids => elf'[p].next = n
  BY <1>1, MoveHeld
<1> SUFFICES ASSUME loop.whole PROVE Orderly' /\ Standing'
  BY <1>2, <1>3 DEF LoopInv
<1>4. /\ Orderly /\ s # <<>> /\ p = a /\ N = Behind(o, s[Len(s)])
      /\ a \in Ids /\ o \in Objs /\ elf[a].size \in Nat /\ s \in Seq(Nat)
      /\ elf'[a].obj = o /\ elf'[a].size = elf[a].size
  BY <1>1, <1>3, LoopArchive DEF LoopInv, Standing, Same
<1>5. elf'[a].next = n /\ n = IF N >= elf[a].size THEN 0 ELSE N
  BY <1>3, <1>4 DEF n
<1>6. (\A x : Done(x)' <=> Done(x)) /\ \A m : Opens(loop.ar, m)' <=> Opens(loop.ar, m)
  BY <1>2, <1>4 DEF Done, Opens
<1>7. Orderly'
  BY <1>2, <1>4, <1>6 DEF Orderly
<1> DEFINE z == s[Len(s)]
<1>8. Len(s) \in 1..Len(s) /\ z \in Nat
  BY <1>4
<1>9. z \in Headers(o) /\ \A j \in 1..Len(s) : s[j] <= z
  <2>1. z \in Headers(o)
    BY <1>4, <1>8 DEF Orderly
  <2>2. ASSUME NEW j \in 1..Len(s) PROVE s[j] <= z
    <3>1. j = Len(s) \/ j < Len(s)
      BY <1>4
    <3>2. s[j] \in Nat
      BY <1>4
    <3> QED
      BY <1>4, <1>8, <3>1, <3>2 DEF Orderly
  <2> QED
    BY <2>1, <2>2
<1>10. N \in Nat /\ N > z /\ z >= First[o] /\ First[o] \in Nat
  BY <1>4, <1>9, BehindType, HeaderType
<1>11. \A x \in Headers(o) :
         x \in Nat /\ (x <= z => Done(x)) /\ (x > z => N \in Headers(o) /\ N <= x)
  BY <1>4, <1>8, <1>9, HeaderType DEF Orderly, WellLaid
<1> HIDE DEF N, z, p
<1>12. Reached(a, n)
  <2>1. CASE N >= elf[a].size
    <3>1. n = 0
      BY <1>5, <2>1
    <3>2. \A x \in Headers(o) : Done(x) \/ x >= elf[a].size
      BY <1>4, <1>8, <1>10, <1>11, <2>1
    <3> QED
      BY <3>1, <3>2 DEF Reached
  <2>2. CASE ~(N >= elf[a].size)
    <3>1. n = N /\ n # 0
      BY <1>5, <1>8, <1>10, <2>2
    <3>2. n >= First[o] /\ \A j \in 1..Len(s) : s[j] < n
      <4>1. \A j \in 1..Len(s) : s[j] \in Nat
        BY <1>4
      <4> QED
        BY <1>8, <1>9, <1>10, <3>1, <4>1
    <3>3. \A x \in Headers(o) : x < n => Done(x)
      BY <1>8, <1>10, <1>11, <3>1
    <3>4. (\E x \in Headers(o) : x >= n) => n \in Headers(o)
      BY <1>8, <1>10, <1>11, <3>1
    <3> QED
      BY <3>1, <3>2, <3>3, <3>4 DEF Reached
  <2> QED
    BY <2>1, <2>2
<1>13. \A m : Reached(loop.ar, m)' <=> Reached(loop.ar, m)
  BY <1>2, <1>4, <1>6 DEF Reached
<1>14. MovedOn(loop.e) = "null" => n = 0
  <2>1. MovedOn(loop.e) = "null" => N > elf[a].size
    BY <1>4 DEF MovedOn, N, p
  <2> QED
    BY <1>4, <1>5, <1>10, <2>1
<1>15. Reached(loop.ar, elf[loop.ar].next)'
  BY <1>2, <1>5, <1>12, <1>13
<1> QED
  BY <1>2, <1>5, <1>7, <1>14, <1>15 DEF Standing

LEMMA LoopEndOrder ==
  ASSUME IInv, Readers, LoopInv, LoopEnd
  PROVE  Readers' /\ LoopInv'
<1>1. /\ loop.at = "end" /\ End(loop.e) /\ ready' = ready /\ loop \in LoopRecord
      /\ loop' = [loop EXCEPT !.at = "begin", !.e = None] /\ loop.e \in Ids
  BY DEF LoopEnd, IInv, LoopCounted
<1>2. /\ loop'.at = "begin" /\ loop'.ar = loop.ar /\ loop'.seen = loop.seen
      /\ loop'.whole = loop.whole /\ loop'.cmd = loop.cmd
  BY <1>1 DEF LoopRecord
<1>3. Readers' /\ Held
  BY <1>1, EndHeld
<1> SUFFICES ASSUME loop.whole PROVE Orderly' /\ Standing'
  BY <1>2, <1>3 DEF LoopInv
<1> DEFINE a == loop.ar
<1>4. /\ Orderly /\ elf'[a].obj = elf[a].obj /\ elf'[a].size = elf[a].size
      /\ Reached(a, elf[a].next) /\ (loop.cmd = "null" => elf[a].next = 0)
      /\ elf'[a].next = elf[a].next
  BY <1>1, <1>3, LoopArchive DEF LoopInv, Standing, Held, Same, Stands
<1>5. (\A x : Done(x)' <=> Done(x)) /\ \A n : Opens(loop.ar, n)' <=> Opens(loop.ar, n)
  BY <1>2, <1>4 DEF Done, Opens
<1>6. \A m : Reached(loop.ar, m)' <=> Reached(loop.ar, m)
  BY <1>2, <1>4, <1>5 DEF Reached
<1>7. Orderly'
  BY <1>2, <1>4, <1>5 DEF Orderly
<1>8. Standing'
  BY <1>2, <1>4, <1>6 DEF Standing
<1> QED
  BY <1>7, <1>8

LEMMA StartLoopOrder ==
  ASSUME IInv, WellLaid, Readers, LoopInv, NEW a \in Ids, StartLoop(a)
  PROVE  Readers' /\ LoopInv'
<1> DEFINE o == elf[a].obj
           b == elf[a].next = First[o]
<1>1. /\ handles[a] > 0 /\ elf[a].kind = "ar"
      /\ loop' = [Idle EXCEPT !.at = "begin", !.ar = a, !.whole = b]
      /\ UNCHANGED <<ready, live, elf, lost>>
  BY DEF StartLoop, memory, ghosts
<1>2. Readers'
  BY <1>1, KeptHeld DEF Same, Stands
<1>3. o \in Objs /\ First[o] \in Nat
  <2>1. a \in live
    BY <1>1, HeldIsKnown DEF IInv, Known
  <2> QED
    BY <1>1, <2>1, ElfDescAssumption DEF IInv, Sound, ArchivesParsed
<1> HIDE DEF b
<1>4. /\ loop'.at = "begin" /\ loop'.ar = a /\ loop'.seen = <<>> /\ loop'.whole = b
      /\ loop'.cmd = "read"
  BY <1>1 DEF Idle
<1> SUFFICES ASSUME b PROVE Orderly' /\ Standing'
  BY <1>2, <1>4 DEF LoopInv
<1>5. elf[a].next = First[o]
  BY DEF b
<1>6. Orderly'
  BY <1>4 DEF Orderly
<1>7. Reached(a, First[o])'
  <2>1. \A x \in Headers(o) : x \in Nat \ {0} /\ x >= First[o]
    BY <1>3, HeaderType
  <2>2. Headers(o) # {} => First[o] \in Headers(o)
    BY <1>3 DEF WellLaid
  <2>3. o' = o /\ First[o] = 0 => Headers(o) = {}
    BY <1>1, <2>1, <2>2
  <2> QED
    BY <1>1, <1>3, <1>4, <2>1, <2>2, <2>3 DEF Reached
<1>8. Standing'
  BY <1>1, <1>4, <1>5, <1>7 DEF Standing
<1> QED
  BY <1>6, <1>8

LEMMA NextOrder ==
  ASSUME IInv, WellLaid, Readers, LoopInv, Next
  PROVE  Readers' /\ LoopInv'
<1>1. CASE ElfVersion
  BY <1>1, UnchangedHeld, LoopHeld DEF ElfVersion, ghosts
<1>2. CASE \E o \in Memory, r \in BOOLEAN : ElfMemory(o, r)
  BY <1>2, ElfMemoryLoop, LoopHeld
<1>3. ASSUME NEW fd \in Fds, ElfOpen(fd) PROVE Readers' /\ LoopInv'
  <2>1. ready' = ready
    BY <1>3 DEF ElfOpen
  <2>2. CASE ready /\ OpenObject(fd, "read", FALSE)
    BY <2>1, <2>2, OpenObjectLoop, LoopHeld
  <2>3. CASE Refuse("client")
    BY <2>1, <2>3, UnchangedHeld, LoopHeld DEF Refuse, Return, ghosts
  <2> QED
    BY <1>3, <2>2, <2>3 DEF ElfOpen
<1>4. CASE \E fd \in Fds, c \in {"null", "read", "rdwr", "write"}, a \in Ids \cup {None} :
             ElfBegin("client", fd, c, a)
  BY <1>4, ClientBeginLoop, LoopHeld
<1>5. ASSUME NEW x \in Ids, ElfNext(x) PROVE Readers' /\ LoopInv'
  <2>1. UNCHANGED <<ready, live, lost>>
    BY <1>5 DEF ElfNext, ghosts
  <2>2. CASE UNCHANGED <<elf, loop>>
    BY <2>1, <2>2, KeptHeld, LoopHeld DEF Same, Stands
  <2>3. CASE MoveOn(x) /\ Disturbed(elf[x].parent)
    BY <2>1, <2>3, SteerLoop DEF MoveOn
  <2> QED
    BY <1>5, <2>2, <2>3 DEF ElfNext
<1>6. ASSUME NEW x \in Ids, ElfCntl(x) PROVE Readers' /\ LoopInv'
  <2>1. UNCHANGED <<ready, live, lost, loop>> /\ \A d \in Ids : Stands(d)
    BY <1>6 DEF ElfCntl, ghosts, Same, Stands, IInv, Sound, Elf
  <2> QED
    BY <2>1, KeptHeld, LoopHeld
<1>7. ASSUME NEW x \in Ids, ElfEnd(x) PROVE Readers' /\ LoopInv'
  BY <1>7, EndHeld, LoopHeld DEF ElfEnd
<1>8. ASSUME NEW a, NEW n, ElfRand(a, n) PROVE Readers' /\ LoopInv'
  <2>1. UNCHANGED <<ready, live, lost>>
    BY <1>8 DEF ElfRand, ghosts
  <2>2. CASE UNCHANGED <<elf, loop>>
    BY <2>1, <2>2, KeptHeld, LoopHeld DEF Same, Stands
  <2>3. CASE elf' = [elf EXCEPT ![a].next = n] /\ Disturbed(a)
    BY <2>1, <2>3, SteerLoop
  <2> QED
    BY <1>8, <2>2, <2>3 DEF ElfRand
<1>9. CASE Release
  BY <1>9, ReleaseLoop, LoopHeld
<1>10. CASE LoopBegin \/ LoopNext \/ LoopEnd
  BY <1>10, LoopBeginOrder, LoopNextOrder, LoopEndOrder
<1>11. CASE LoopClose
  <2>1. End(loop.ar) /\ ready' = ready /\ loop' = Idle /\ loop.at # "idle"
    BY <1>11 DEF LoopClose
  <2>2. Readers'
    BY <2>1, EndHeld, LoopArchive
  <2>3. LoopInv'
    BY <2>1 DEF LoopInv, Idle
  <2> QED
    BY <2>2, <2>3
<1>12. CASE \E a \in Ids : StartLoop(a)
  BY <1>12, StartLoopOrder
<1> QED
  BY <1>1, <1>2, <1>3, <1>4, <1>5, <1>6, <1>7, <1>8, <1>9, <1>10, <1>11, <1>12 DEF Next, Loop

\* In archives that are as ar(1) writes them, the loop of elf_next.3 gets the
\* members in the order of their headers, none twice and none left out, up to
\* the first that cannot be opened, whatever else is opened and closed
\* meanwhile, members of the same archive among it.  The invariant says where
\* the archive stands between elf_begin, elf_next and elf_end, and that all
\* headers before that are written down.
THEOREM MembersInOrder ==
  ASSUME WellLaid
  PROVE  Spec => []LoopInOrder
<1>1. Init => Readers /\ LoopInv
  BY DEF Init, Readers, LoopInv, Known, Idle
<1>2. ASSUME IInv, Readers, LoopInv, [Next]_vars PROVE Readers' /\ LoopInv'
  <2>1. CASE Next
    BY <1>2, <2>1, NextOrder
  <2>2. CASE UNCHANGED vars
    BY <1>2, <2>2, UnchangedHeld, LoopHeld DEF vars, memory, ghosts
  <2> QED
    BY <1>2, <2>1, <2>2
<1>3. IInv /\ LoopInv => LoopInOrder
  BY OrderlyIsInOrder
<1> DEFINE R == Readers /\ LoopInv
<1>4. IInv /\ R /\ [Next]_vars => R'
  BY <1>2
<1> QED
  BY InvariantHolds, <1>1, <1>3, <1>4, PTL DEF Spec
=============================================================================
