--------------------------- MODULE ElfUpdateProofs ---------------------------
(***************************************************************************)
(* The layout of elf_update.c: the list of extents, for lists and regions  *)
(* of any size; and, for any file and any calls, that the library accepts  *)
(* its own layout (LayoutFits), that nothing it places overlaps            *)
(* (RegionsStayApart), that ELF_C_NULL tells what ELF_C_WRITE does         *)
(* (NullTells), and the shape that an object has between calls             *)
(* (TypeCorrect).  The loops of the code are recursive functions           *)
(* over 0..n: Recursion shows that such a function exists, LoopKeeps what  *)
(* all its values are; both rest on Induction over the numbers, which is   *)
(* stated for a set.  The lemmas are in the order of the code: what units  *)
(* and headers are read, the sections, the layout, the image, the calls;   *)
(* then laying out again, and the shape.                                   *)
(***************************************************************************)
EXTENDS ElfUpdate, TLAPS, WellFoundedInduction, FiniteSetTheorems

Extents == [kind : {"ehdr", "phdr", "shdr", "scn"}, ndx : Nat, start : Nat, size : Nat]

\* Each extent ends before the next ones begin.
Ascending(extents) ==
  \A j, k \in 1..Len(extents) : j < k => Ends(extents[j]) <= extents[k].start

\* What _libelf_extent_is_unused is relied on for: the regions before the place it
\* finds end before the new one begins, and those behind it begin where it has ended.
LEMMA UnusedPlace ==
  ASSUME NEW extents \in Seq(Extents), Ascending(extents), NEW x \in Extents,
         NEW k \in 0..Len(extents), IsUnused(extents, k, x)
  PROVE  /\ \A j \in 1..k : Ends(extents[j]) <= x.start
         /\ \A j \in k + 1..Len(extents) : Ends(x) <= extents[j].start
<1>1. \A j \in 1..k : Ends(extents[j]) <= x.start
  BY DEF IsUnused
<1>2. ASSUME NEW j \in k + 1..Len(extents)
      PROVE  Ends(x) <= extents[j].start
  <2>1. /\ k \in Nat /\ Len(extents) \in Nat /\ k < Len(extents) /\ j \in 1..Len(extents)
        /\ k + 1 \in 1..Len(extents)
    BY <1>2
  <2>2. /\ extents[k + 1] \in Extents /\ extents[j] \in Extents
    BY <2>1
  <2>3. /\ Ends(x) \in Nat /\ extents[k + 1].start \in Nat /\ extents[k + 1].size \in Nat
        /\ extents[j].start \in Nat
    <3>1. x.start \in Nat /\ x.size \in Nat
      BY DEF Extents
    <3>2. extents[k + 1].start \in Nat /\ extents[k + 1].size \in Nat
      BY <2>2 DEF Extents
    <3>3. extents[j].start \in Nat
      BY <2>2 DEF Extents
    <3> QED
      BY <3>1, <3>2, <3>3 DEF Ends
  <2>4. Ends(x) <= extents[k + 1].start
    BY <2>1 DEF IsUnused
  <2>5. j = k + 1 \/ Ends(extents[k + 1]) <= extents[j].start
    BY <1>2, <2>1 DEF Ascending
  <2> QED
    BY <2>3, <2>4, <2>5 DEF Ends
<1> QED
  BY <1>1, <1>2

\* _libelf_insert_extent keeps the list in order: wherever regions are inserted, in
\* whatever order, two of them never overlap, so that the image can be written from
\* the first to the last and the gaps between them filled.
THEOREM InsertKeepsOrder ==
  ASSUME NEW extents \in Seq(Extents), Ascending(extents),
         NEW x \in Extents, Fits(extents, x)
  PROVE  /\ InsertExtent(extents, x) \in Seq(Extents)
         /\ Ascending(InsertExtent(extents, x))
         /\ \A j \in 1..Len(extents) :
              \E k \in 1..Len(InsertExtent(extents, x)) :
                InsertExtent(extents, x)[k] = extents[j]
         /\ \E k \in 1..Len(InsertExtent(extents, x)) : InsertExtent(extents, x)[k] = x
<1> DEFINE k == CHOOSE n \in 0..Len(extents) : IsUnused(extents, n, x)
           n == Len(extents)
           new == InsertExtent(extents, x)
<1>1. k \in 0..n /\ IsUnused(extents, k, x) /\ n \in Nat
  BY DEF Fits
<1>2. /\ \A j \in 1..k : Ends(extents[j]) <= x.start
      /\ \A j \in k + 1..n : Ends(x) <= extents[j].start
  BY <1>1, UnusedPlace
<1>3. new = [j \in 1..n + 1 |->
               IF j <= k THEN extents[j] ELSE IF j = k + 1 THEN x ELSE extents[j - 1]]
  BY DEF InsertExtent
<1> HIDE DEF k, new
<1>4. \A j \in 1..n : extents[j] \in Extents
  OBVIOUS
<1>5. /\ \A j \in 1..k : new[j] = extents[j]
      /\ new[k + 1] = x
      /\ \A j \in k + 2..n + 1 : new[j] = extents[j - 1] /\ j - 1 \in k + 1..n
  BY <1>1, <1>3
<1>6. new \in Seq(Extents) /\ Len(new) = n + 1
  <2>1. \A j \in 1..n + 1 : new[j] \in Extents
    BY <1>1, <1>4, <1>5
  <2> QED
    BY <1>1, <1>3, <2>1
<1>7. Ascending(new)
  <2> SUFFICES ASSUME NEW i \in 1..n + 1, NEW j \in 1..n + 1, i < j
               PROVE  Ends(new[i]) <= new[j].start
    BY <1>6 DEF Ascending
  <2>1. CASE j <= k
    BY <2>1, <1>1, <1>5 DEF Ascending
  <2>2. CASE j = k + 1
    BY <2>2, <1>1, <1>2, <1>5
  <2>3. CASE i = k + 1
    BY <2>3, <1>1, <1>2, <1>5
  <2>4. CASE i <= k /\ j > k + 1
    BY <2>4, <1>1, <1>5 DEF Ascending
  <2>5. CASE i > k + 1
    <3>1. i - 1 \in 1..n /\ j - 1 \in 1..n /\ i - 1 < j - 1
      BY <2>5, <1>1
    <3>2. new[i] = extents[i - 1] /\ new[j] = extents[j - 1]
      BY <2>5, <1>1, <1>5
    <3> QED
      BY <3>1, <3>2 DEF Ascending
  <2>6. i \in Int /\ j \in Int /\ k \in Int
    BY <1>1
  <2> QED
    BY <2>1, <2>2, <2>3, <2>4, <2>5, <2>6
<1>8. ASSUME NEW j \in 1..n PROVE \E i \in 1..n + 1 : new[i] = extents[j]
  <2>1. CASE j <= k
    BY <2>1, <1>1, <1>5
  <2>2. CASE j > k
    <3>1. j + 1 \in k + 2..n + 1 /\ (j + 1) - 1 = j /\ j + 1 \in 1..n + 1
      BY <2>2, <1>1
    <3> QED
      BY <3>1, <1>5
  <2> QED
    BY <1>1, <2>1, <2>2
<1>9. \E i \in 1..n + 1 : new[i] = x
  BY <1>1, <1>5
<1> QED
  BY <1>6, <1>7, <1>8, <1>9 DEF new

\* roundup goes up, by less than the alignment, to a multiple of it.
LEMMA RoundUpProperties ==
  ASSUME NEW n \in Nat, NEW a \in Nat \ {0}
  PROVE  /\ RoundUp(n, a) \in Nat /\ RoundUp(n, a) >= n /\ RoundUp(n, a) < n + a
         /\ \E m \in Int : RoundUp(n, a) = m * a
<1> DEFINE q == (n + a - 1) \div a
           r == (n + a - 1) % a
<1>1. /\ n + a - 1 \in Nat /\ q \in Int /\ r \in 0..a - 1
      /\ n + a - 1 = a * q + r
  OBVIOUS
<1>2. RoundUp(n, a) = q * a
  BY DEF RoundUp
<1> HIDE DEF q, r
<1>3. a * q = q * a /\ a * q = n + a - 1 - r
  BY <1>1
<1> QED
  BY <1>1, <1>2, <1>3

\* Where the library does the layout, it puts each region at or behind the end of
\* all those that it has placed: that is never refused, for any alignment and size,
\* and the next region finds the same.
THEOREM LibraryInserts ==
  ASSUME NEW d, NEW extents \in Seq(Extents), NEW rc \in Nat, Ascending(extents),
         \A j \in 1..Len(extents) : Ends(extents[j]) <= rc,
         NEW kind \in {"ehdr", "phdr", "shdr", "scn"}, NEW i \in Nat,
         NEW al \in Nat \ {0}, NEW size \in Nat,
         NEW w, w = [e |-> d, how |-> "ok", ext |-> extents, rc |-> rc],
         NEW v, v = Insert(w, kind, i, RoundUp(rc, al), size)
  PROVE  /\ v.how = "ok" /\ v.rc \in Nat
         /\ v.ext \in Seq(Extents) /\ Ascending(v.ext)
         /\ \A j \in 1..Len(v.ext) : Ends(v.ext[j]) <= v.rc
<1> DEFINE start == RoundUp(rc, al)
           x == [kind |-> kind, ndx |-> i, start |-> start, size |-> size]
           new == InsertExtent(extents, x)
<1>1. start \in Nat /\ start >= rc
  BY RoundUpProperties
<1> HIDE DEF start
<1>2. x \in Extents /\ x.start = start /\ Ends(x) = start + size
  BY <1>1 DEF Extents, Ends
<1>3. ASSUME NEW j \in 1..Len(extents)
      PROVE  extents[j] \in Extents /\ Ends(extents[j]) \in Nat
  <2>1. extents[j] \in Extents
    OBVIOUS
  <2>2. extents[j].start \in Nat /\ extents[j].size \in Nat
    BY <2>1 DEF Extents
  <2> QED
    BY <2>1, <2>2 DEF Ends
<1>4. Fits(extents, x)
  <2>1. IsUnused(extents, Len(extents), x)
    BY <1>1, <1>2, <1>3 DEF IsUnused
  <2> QED
    BY <2>1 DEF Fits
<1>5. w.how = "ok" /\ w.ext = extents /\ w.rc = rc
  OBVIOUS
<1>6. v = [w EXCEPT !.ext = new, !.rc = Larger(rc, start + size)]
  BY <1>4, <1>5 DEF Insert, Then, start
<1>7. v.how = "ok" /\ v.ext = new /\ v.rc = Larger(rc, start + size)
  BY <1>6
<1>8. v.rc \in Nat /\ v.rc = start + size
  BY <1>1, <1>7 DEF Larger
<1>9. new \in Seq(Extents) /\ Ascending(new)
  BY <1>2, <1>4, InsertKeepsOrder
<1>10. ASSUME NEW j \in 1..Len(new) PROVE Ends(new[j]) <= v.rc
  <2> DEFINE k == CHOOSE n \in 0..Len(extents) : IsUnused(extents, n, x)
  <2>1. k \in 0..Len(extents)
    BY <1>4 DEF Fits
  <2>2. new = [m \in 1..Len(extents) + 1 |->
                IF m <= k THEN extents[m] ELSE IF m = k + 1 THEN x ELSE extents[m - 1]]
    BY DEF InsertExtent
  <2> HIDE DEF k, new, x
  <2>3. j \in 1..Len(extents) + 1
    BY <2>2, <1>9
  <2>4. new[j] = x \/ \E m \in 1..Len(extents) : new[j] = extents[m]
    <3>1. CASE j <= k
      BY <2>1, <2>2, <2>3, <3>1
    <3>2. CASE j = k + 1
      BY <2>1, <2>2, <2>3, <3>2
    <3>3. CASE j > k + 1
      <4>1. j - 1 \in 1..Len(extents)
        BY <2>1, <2>3, <3>3
      <4> QED
        BY <4>1, <2>1, <2>2, <2>3, <3>3
    <3> QED
      BY <2>1, <2>3, <3>1, <3>2, <3>3
  <2> QED
    BY <2>4, <1>1, <1>2, <1>3, <1>8
<1> QED
  BY <1>7, <1>8, <1>9, <1>10
-----------------------------------------------------------------------------
(* Induction *)

\* Induction over the numbers, about the set of those for which a fact holds.
LEMMA Induction ==
  ASSUME NEW S, 0 \in S, \A n \in Nat : n \in S => n + 1 \in S
  PROVE  Nat \subseteq S
<1> DEFINE R == OpToRel(<, Nat)
           T == Nat \ S
<1>1. IsWellFoundedOn(R, Nat)
  BY NatLessThanWellFounded
<1>2. \A x, y \in Nat : x < y => <<x, y>> \in R
  BY DEF OpToRel
<1>3. SUFFICES ASSUME T # {} PROVE FALSE
  OBVIOUS
<1>4. PICK x \in T : \A y \in T : ~ (<<y, x>> \in R)
  <2> HIDE DEF R, T
  <2>1. T \subseteq Nat
    BY DEF T
  <2> QED
    BY <1>1, <1>3, <2>1, WFMin
<1>5. x # 0 /\ x - 1 \in Nat /\ x \in Nat /\ x - 1 < x
  OBVIOUS
<1>6. x - 1 \in T
  BY <1>5
<1> HIDE DEF R, T
<1> QED
  BY <1>2, <1>4, <1>5, <1>6

\* Of finitely many numbers there is a greatest.
LEMMA Greatest ==
  ASSUME NEW n \in Nat, NEW f, \A k \in 1..n : f[k] \in Nat,
         NEW V, V = {0} \cup {f[k] : k \in 1..n}
  PROVE  MaxOf(V) \in Nat /\ \A k \in 1..n : f[k] <= MaxOf(V)
<1> DEFINE V0(m) == {0} \cup {f[k] : k \in 1..m}
           S == {m \in Nat : m <= n => \E x \in V0(m) : \A y \in V0(m) : y <= x}
<1>1. 0 \in S
  OBVIOUS
<1>2. ASSUME NEW m \in Nat, m \in S PROVE m + 1 \in S
  <2> SUFFICES ASSUME m + 1 <= n
               PROVE  \E x \in V0(m + 1) : \A y \in V0(m + 1) : y <= x
    OBVIOUS
  <2>1. PICK x \in V0(m) : \A y \in V0(m) : y <= x
    BY <1>2
  <2>2. V0(m + 1) = V0(m) \cup {f[m + 1]}
    OBVIOUS
  <2>3. f[m + 1] \in Nat /\ V0(m) \subseteq Nat
    OBVIOUS
  <2> HIDE DEF V0
  <2>4. CASE x <= f[m + 1]
    BY <2>1, <2>2, <2>3, <2>4
  <2>5. CASE x > f[m + 1]
    BY <2>1, <2>2, <2>3, <2>5
  <2> QED
    BY <2>1, <2>3, <2>4, <2>5
<1>3. n \in S
  <2> HIDE DEF S
  <2> QED
    BY <1>1, <1>2, Induction
<1>4. \E x \in V : \A y \in V : y <= x
  BY <1>3
<1>5. MaxOf(V) \in V /\ \A y \in V : y <= MaxOf(V)
  BY <1>4 DEF MaxOf
<1> QED
  BY <1>5

\* A function that is defined by recursion over 0..n, whose values stay in V, exists.
IsStep(F, n, V) == F \in [V \X (1..n) -> V]
IsRun(g, n, V, x, F) ==
  g \in [0..n -> V] /\ g[0] = x /\ \A i \in 1..n : g[i] = F[<<g[i - 1], i>>]

LEMMA Recursion ==
  ASSUME NEW n \in Nat, NEW V, NEW x \in V, NEW F, IsStep(F, n, V)
  PROVE  \E g : IsRun(g, n, V, x, F)
<1> DEFINE Upto(g, m) == g[0] = x /\ \A i \in 1..m : g[i] = F[<<g[i - 1], i>>]
           S == {m \in Nat : m <= n => \E g \in [0..m -> V] : Upto(g, m)}
<1>0. F \in [V \X (1..n) -> V]
  BY DEF IsStep
<1>1. 0 \in S
  <2>1. [i \in 0..0 |-> x] \in [0..0 -> V] /\ Upto([i \in 0..0 |-> x], 0)
    OBVIOUS
  <2> QED
    BY <2>1
<1>2. ASSUME NEW m \in Nat, m \in S PROVE m + 1 \in S
  <2> SUFFICES ASSUME m + 1 <= n
               PROVE  \E g \in [0..m + 1 -> V] : Upto(g, m + 1)
    OBVIOUS
  <2>1. PICK g \in [0..m -> V] : Upto(g, m)
    BY <1>2
  <2> DEFINE h == [i \in 0..m + 1 |-> IF i = m + 1 THEN F[<<g[m], m + 1>>] ELSE g[i]]
  <2>2. m + 1 \in 1..n /\ g[m] \in V
    OBVIOUS
  <2>3. F[<<g[m], m + 1>>] \in V
    BY <1>0, <2>2
  <2>4. h \in [0..m + 1 -> V]
    BY <2>3
  <2>5. \A i \in 1..m + 1 : h[i] = F[<<h[i - 1], i>>]
    <3> SUFFICES ASSUME NEW i \in 1..m + 1 PROVE h[i] = F[<<h[i - 1], i>>]
      OBVIOUS
    <3>1. CASE i = m + 1
      <4>1. i - 1 = m /\ m \in 0..m + 1 /\ m # m + 1 /\ i \in 0..m + 1
        BY <3>1
      <4>2. h[i] = F[<<g[m], m + 1>>] /\ h[m] = g[m]
        BY <3>1, <4>1
      <4> HIDE DEF h
      <4> QED
        BY <3>1, <4>1, <4>2
    <3>2. CASE i # m + 1
      <4>1. i \in 1..m /\ i - 1 \in 0..m /\ i \in 0..m /\ i - 1 # m + 1
        BY <3>2
      <4>2. h[i] = g[i] /\ h[i - 1] = g[i - 1]
        BY <4>1
      <4> HIDE DEF h
      <4> QED
        BY <2>1, <4>1, <4>2
    <3> QED
      BY <3>1, <3>2
  <2>6. h[0] = x
    BY <2>1
  <2> HIDE DEF h
  <2> QED
    BY <2>4, <2>5, <2>6
<1>3. n \in S
  <2> HIDE DEF S
  <2> QED
    BY <1>1, <1>2, Induction
<1> QED
  BY <1>3 DEF IsRun

\* What each step of a loop keeps.
LEMMA LoopKeeps ==
  ASSUME NEW n \in Nat, NEW V, NEW f, f[0] \in V,
         \A i \in 1..n : f[i - 1] \in V => f[i] \in V
  PROVE  \A i \in 0..n : f[i] \in V
<1> DEFINE S == {m \in Nat : m <= n => f[m] \in V}
<1>1. 0 \in S
  OBVIOUS
<1>2. ASSUME NEW m \in Nat, m \in S PROVE m + 1 \in S
  <2> SUFFICES ASSUME m + 1 <= n PROVE f[m + 1] \in V
    OBVIOUS
  <2>1. m + 1 \in 1..n /\ (m + 1) - 1 = m /\ f[m] \in V
    BY <1>2
  <2> QED
    BY <2>1
<1>3. Nat \subseteq S
  <2> HIDE DEF S
  <2> QED
    BY <1>1, <1>2, Induction
<1> QED
  BY <1>3

\* What holds at first, and after each step that it held before, holds all along.
LEMMA Steps ==
  ASSUME NEW n \in Nat, NEW S, 0 \in S, \A i \in 1..n : i - 1 \in S => i \in S
  PROVE  0..n \subseteq S
<1> DEFINE f == [i \in Nat |-> i]
<1>1. f[0] \in S
  OBVIOUS
<1>2. \A i \in 1..n : f[i - 1] \in S => f[i] \in S
  OBVIOUS
<1>3. \A i \in 0..n : f[i] \in S
  <2> HIDE DEF f
  <2> QED
    BY <1>1, <1>2, LoopKeeps
<1> QED
  BY <1>3
-----------------------------------------------------------------------------
(* Units, and what is made of them *)

\* The sizes are numbers.
LEMMA Sizes ==
  /\ EhdrSize \in Nat /\ EhdrSize > 0 /\ PhdrSize \in Nat /\ ShdrSize \in Nat /\ ShdrSize > 0
  /\ HdrAlign \in Nat \ {0} /\ LoReserve \in Nat /\ PnXnum \in Nat
  /\ MaxScns \in Nat /\ MaxCalls \in Nat
BY ElfUpdateAssumption DEF ElfUpdateAssumption

LEMMA NoneIsNothing ==
  /\ None \notin Ehdrs /\ None # Gone /\ None \notin Seq(Unit) /\ Gone \notin Seq(Unit)
BY ElfUpdateAssumption DEF ElfUpdateAssumption

LEMMA UnitType == \A u \in Unit : IsUnit(u)
<1>1. IsUnit(Fill) /\ IsUnit(Junk) /\ IsUnit(Cont) /\ IsUnit(Ph("new")) /\ IsUnit(<<"mod", 0>>)
  BY DEF IsUnit, Fill, Junk, Cont, Ph
<1>2. ASSUME NEW u \in {"ehdr"} \X Ehdrs PROVE IsUnit(u)
  BY DEF IsUnit
<1>3. ASSUME NEW u \in {"shdr"} \X Shdrs PROVE IsUnit(u)
  BY DEF IsUnit
<1>4. \A s \in Given : \A k \in DOMAIN s : IsUnit(s[k])
  BY ElfUpdateAssumption DEF ElfUpdateAssumption, Given
<1> QED
  BY <1>1, <1>2, <1>3, <1>4 DEF Unit

LEMMA GivenType == \A s \in Given : s \in Seq(Unit)
<1> SUFFICES ASSUME NEW s \in Given PROVE s \in Seq(Unit)
  OBVIOUS
<1>1. s \in Seq({s[k] : k \in DOMAIN s})
  BY ElfUpdateAssumption DEF ElfUpdateAssumption, Given
<1>2. {s[k] : k \in DOMAIN s} \subseteq Unit
  BY DEF Unit
<1> DEFINE U == {s[k] : k \in DOMAIN s}
<1> HIDE DEF U
<1>3. ASSUME s \in Seq(U), U \subseteq Unit PROVE s \in Seq(Unit)
  BY <1>3
<1> QED
  BY <1>1, <1>2, <1>3 DEF U

LEMMA BytesType ==
  ASSUME NEW img \in Seq(Unit), NEW off \in Nat, NEW n \in Nat, off + n <= Len(img)
  PROVE  Bytes(img, off, n) \in Seq(Unit) /\ Len(Bytes(img, off, n)) = n
<1>1. \A k \in off + 1..off + n : img[k] \in Unit
  OBVIOUS
<1>2. Bytes(img, off, n) = [k \in 1..n |-> img[k + off]]
  BY DEF Bytes
<1>3. \A k \in 1..n : img[k + off] \in Unit
  BY <1>1
<1> QED
  BY <1>2, <1>3

LEMMA PutType ==
  ASSUME NEW img \in Seq(Unit), NEW units \in Seq(Unit), NEW off \in Int
  PROVE  Put(img, off, units) \in Seq(Unit) /\ Len(Put(img, off, units)) = Len(img)
<1>1. \A k \in 1..Len(img) :
        (IF k - off \in 1..Len(units) THEN units[k - off] ELSE img[k]) \in Unit
  OBVIOUS
<1> QED
  BY <1>1 DEF Put

LEMMA PadType ==
  ASSUME NEW img \in Seq(Unit), NEW from \in Int, NEW to \in Int
  PROVE  Pad(img, from, to) \in Seq(Unit) /\ Len(Pad(img, from, to)) = Len(img)
<1>1. Larger(0, to - from) \in Nat
  BY DEF Larger
<1>2. Fill \in Unit
  BY DEF Unit
<1>3. [k \in 1..Larger(0, to - from) |-> Fill] \in Seq(Unit)
  BY <1>1, <1>2
<1> QED
  BY <1>3, PutType DEF Pad

LEMMA HeaderType ==
  ASSUME NEW kind, NEW fields, <<kind, fields>> \in Unit, NEW size \in Nat
  PROVE  Header(kind, fields, size) \in Seq(Unit)
<1>1. Cont \in Unit
  BY DEF Unit
<1> QED
  BY <1>1 DEF Header

\* What is read as a header is one.
LEMMA HeadersRead ==
  ASSUME NEW d, d.raw \in Seq(Unit)
  PROVE  /\ Len(d.raw) > 0 => EhdrAt(d) \in Ehdrs
         /\ \A off \in Nat : off < Len(d.raw) => ShdrAt(d, off) \in Shdrs
<1>1. (CHOOSE h \in Ehdrs : TRUE) \in Ehdrs
  <2>1. [phoff |-> 0, shoff |-> 0, phnum |-> 0, shnum |-> 0] \in Ehdrs
    BY DEF Ehdrs
  <2> QED
    BY <2>1
<1>2. (CHOOSE h \in Shdrs : TRUE) \in Shdrs
  <2>1. [type |-> "null", align |-> 0, off |-> 0, size |-> 0, info |-> 0] \in Shdrs
    BY DEF Shdrs
  <2> QED
    BY <2>1
<1>3. \A k \in 1..Len(d.raw) : IsUnit(d.raw[k])
  BY UnitType
<1>4. Len(d.raw) > 0 => EhdrAt(d) \in Ehdrs
  BY <1>1, <1>3 DEF EhdrAt, IsUnit
<1>5. ASSUME NEW off \in Nat, off < Len(d.raw) PROVE ShdrAt(d, off) \in Shdrs
  <2>1. off + 1 \in 1..Len(d.raw)
    BY <1>5
  <2> QED
    BY <2>1, <1>2, <1>3 DEF ShdrAt, IsUnit
<1> QED
  BY <1>4, <1>5
-----------------------------------------------------------------------------
(* The types of descriptors and of the state of a call *)

Kinds == {"null", "progbits", "nobits"}
Datum == [align : Nat, off : Nat, units : Seq(Unit)]
\* The first buffer of a section may be one that was read, whose alignment is not
\* checked; the others are the client's.
DataLists == {data \in Seq(Datum) : \A k \in 2..Len(data) : data[k].align # 0}
Scns == [type : Kinds, align : Nat, off : Nat, size : Nat, info : Nat, rawoff : Nat,
         ssize : Nat, soff : Nat, dirty : BOOLEAN, data : DataLists]

Tables == UNION {[S -> Scns] : S \in SUBSET Nat}
Descs ==
  [cmd : Commands, fd : BOOLEAN, class : BOOLEAN, layout : BOOLEAN, loaded : BOOLEAN,
   ehdr : Ehdrs \cup {None}, phdr : Seq(Unit) \cup {None}, nphdr : Nat, nscn : Nat,
   scns : Tables, raw : Seq(Unit) \cup {None, Gone}, rawsize : Nat,
   mapped : BOOLEAN, writes : Nat, misread : BOOLEAN]

Opens ==
  {d \in Descs : IF d.cmd = "write" THEN d.raw = None /\ ~d.mapped
                 ELSE d.raw \in Seq(Unit) \cup {Gone}}
\* What is left alone of the file it is open on.
LEMMA SameFile ==
  ASSUME NEW d \in Opens, NEW b \in Descs, b.cmd = d.cmd, b.raw = d.raw, b.mapped = d.mapped
  PROVE  b \in Opens
BY DEF Opens

Works ==
  [e : Opens, how : {"ok", "error", "layout", "abort", "fault"}, ext : Seq(Extents), rc : Nat]

\* The extents placed so far do not overlap, and the object ends behind them; those of
\* sections are of sections that there are; the layout is refused to nobody but the
\* client; and the descriptor is still open for c.
Goods(c) ==
  {w \in Works :
     /\ w.e.cmd = c
     /\ Ascending(w.ext)
     /\ \A j \in 1..Len(w.ext) : Ends(w.ext[j]) <= w.rc
     /\ \A j \in 1..Len(w.ext) : w.ext[j].kind = "scn" => w.ext[j].ndx \in DOMAIN w.e.scns
     /\ w.how = "layout" => w.e.layout}

LEMMA TableType ==
  ASSUME NEW t
  PROVE  t \in Tables <=> /\ DOMAIN t \subseteq Nat /\ t = [i \in DOMAIN t |-> t[i]]
                          /\ \A i \in DOMAIN t : t[i] \in Scns
<1>1. ASSUME t \in Tables
      PROVE  /\ DOMAIN t \subseteq Nat /\ t = [i \in DOMAIN t |-> t[i]]
             /\ \A i \in DOMAIN t : t[i] \in Scns
  <2>1. PICK S \in SUBSET Nat : t \in [S -> Scns]
    BY <1>1 DEF Tables
  <2> QED
    BY <2>1
<1>2. ASSUME /\ DOMAIN t \subseteq Nat /\ t = [i \in DOMAIN t |-> t[i]]
             /\ \A i \in DOMAIN t : t[i] \in Scns
      PROVE  t \in Tables
  <2>1. t \in [DOMAIN t -> Scns] /\ DOMAIN t \in SUBSET Nat
    BY <1>2
  <2> QED
    BY <2>1 DEF Tables
<1> QED
  BY <1>1, <1>2

LEMMA NoTable == <<>> \in Tables /\ DOMAIN <<>> = {}
<1>1. DOMAIN <<>> = {}
  OBVIOUS
<1>2. <<>> = [i \in DOMAIN <<>> |-> <<>>[i]]
  BY <1>1
<1> QED
  BY <1>1, <1>2, TableType

LEMMA NoData == <<>> \in DataLists
BY DEF DataLists

LEMMA LoadedType ==
  /\ NoScn \in Scns
  /\ \A h \in Shdrs : Loaded(h) \in Scns
<1>1. NoScn \in Scns
  BY NoData DEF NoScn, Scns, Kinds
<1>2. ASSUME NEW h \in Shdrs PROVE Loaded(h) \in Scns
  <2>1. /\ h.type \in Kinds /\ h.align \in Nat /\ h.off \in Nat /\ h.size \in Nat
        /\ h.info \in Nat
    BY DEF Shdrs, Kinds
  <2> QED
    BY <1>1, <2>1 DEF Loaded, Scns
<1> QED
  BY <1>1, <1>2

\* Another section, or another state of a section.
LEMMA ScnsType ==
  ASSUME NEW d \in Opens, NEW i \in Nat, NEW s \in Scns
  PROVE  /\ [j \in DOMAIN d.scns \cup {i} |-> IF j = i THEN s ELSE d.scns[j]] \in Tables
         /\ i \in DOMAIN d.scns => [d.scns EXCEPT ![i] = s] \in Tables
<1> DEFINE t == [j \in DOMAIN d.scns \cup {i} |-> IF j = i THEN s ELSE d.scns[j]]
<1>1. d.scns \in Tables
  BY DEF Opens, Descs
<1>2. DOMAIN d.scns \subseteq Nat /\ \A j \in DOMAIN d.scns : d.scns[j] \in Scns
  BY <1>1, TableType
<1>3. t \in Tables
  BY <1>2, TableType
<1>4. ASSUME i \in DOMAIN d.scns PROVE [d.scns EXCEPT ![i] = s] \in Tables
  <2>1. d.scns = [j \in DOMAIN d.scns |-> d.scns[j]]
    BY <1>1, TableType
  <2>2. [d.scns EXCEPT ![i] = s] = t
    BY <1>4, <2>1
  <2> QED
    BY <1>3, <2>2
<1> QED
  BY <1>3, <1>4

LEMMA ScnOf ==
  ASSUME NEW d \in Opens, NEW i \in DOMAIN d.scns
  PROVE  i \in Nat /\ d.scns[i] \in Scns
BY TableType DEF Opens, Descs
\* Works whose object has got its header, if all is well.
Readies(c) == {w \in Goods(c) : w.how = "ok" => w.e.ehdr \in Ehdrs}

LEMMA WorkType == \A d \in Opens : Work(d) \in Goods(d.cmd) /\ Work(d).e = d /\ Work(d).how = "ok"
<1>1. <<>> \in Seq(Extents) /\ Len(<<>>) = 0
  OBVIOUS
<1>2. Ascending(<<>>)
  BY <1>1 DEF Ascending
<1> QED
  BY <1>1, <1>2 DEF Work, Goods, Works

LEMMA WorkFields ==
  ASSUME NEW c, NEW w \in Goods(c)
  PROVE  /\ w.e \in Opens /\ w.ext \in Seq(Extents) /\ w.rc \in Nat /\ Len(w.ext) \in Nat
         /\ w.e.cmd = c /\ w.how \in {"ok", "error", "layout", "abort", "fault"}
BY DEF Goods, Works

\* The descriptor in another state.
LEMMA WithType ==
  ASSUME NEW c, NEW w \in Goods(c), NEW d \in Opens,
         DOMAIN w.e.scns \subseteq DOMAIN d.scns, d.layout = w.e.layout, d.cmd = w.e.cmd
  PROVE  /\ With(w, d) \in Goods(c) /\ With(w, d).e = d /\ With(w, d).how = w.how
         /\ With(w, d).ext = w.ext /\ With(w, d).rc = w.rc
<1>1. w \in Works
  BY DEF Goods
<1>2. /\ With(w, d) \in Works /\ With(w, d).e = d /\ With(w, d).how = w.how
      /\ With(w, d).ext = w.ext /\ With(w, d).rc = w.rc
  BY <1>1 DEF With, Works
<1> QED
  BY <1>2 DEF Goods

LEMMA FailsType ==
  ASSUME NEW c, NEW w \in Goods(c), NEW how \in {"ok", "error", "layout", "abort", "fault"},
         how = "layout" => w.e.layout
  PROVE  /\ Fails(w, how) \in Goods(c) /\ Fails(w, how).e = w.e /\ Fails(w, how).how = how
         /\ how # "ok" => Fails(w, how) \in Readies(c)
<1>1. w \in Works
  BY DEF Goods
<1>2. /\ Fails(w, how) \in Works /\ Fails(w, how).e = w.e /\ Fails(w, how).how = how
      /\ Fails(w, how).ext = w.ext /\ Fails(w, how).rc = w.rc
  BY <1>1 DEF Fails, Works
<1>3. Fails(w, how) \in Goods(c)
  BY <1>2 DEF Goods
<1> QED
  BY <1>2, <1>3 DEF Readies

LEMMA AllocateType ==
  ASSUME NEW d \in Opens, NEW i \in Nat, NEW s \in Scns
  PROVE  /\ Allocate(d, i, s) \in Opens
         /\ Allocate(d, i, s).scns \in Tables
         /\ DOMAIN Allocate(d, i, s).scns = DOMAIN d.scns \cup {i}
         /\ Allocate(d, i, s).layout = d.layout /\ Allocate(d, i, s).ehdr = d.ehdr
         /\ Allocate(d, i, s).cmd = d.cmd /\ Allocate(d, i, s).raw = d.raw
<1>1. d \in Descs
  BY DEF Opens
<1> DEFINE t == [j \in DOMAIN d.scns \cup {i} |-> IF j = i THEN s ELSE d.scns[j]]
<1>2. t \in Tables /\ DOMAIN t = DOMAIN d.scns \cup {i}
  BY ScnsType
<1>3. Allocate(d, i, s) = [d EXCEPT !.scns = t]
  BY DEF Allocate
<1> HIDE DEF t
<1>4. Allocate(d, i, s) \in Descs
  BY <1>1, <1>2, <1>3 DEF Descs
<1>5. /\ Allocate(d, i, s).scns = t /\ Allocate(d, i, s).layout = d.layout
      /\ Allocate(d, i, s).ehdr = d.ehdr
      /\ Allocate(d, i, s).cmd = d.cmd /\ Allocate(d, i, s).raw = d.raw
      /\ Allocate(d, i, s).mapped = d.mapped
  BY <1>1, <1>3 DEF Descs
<1>6. Allocate(d, i, s) \in Opens
  BY <1>4, <1>5, SameFile
<1> QED
  BY <1>2, <1>3, <1>5, <1>6

\* Reading the counts from section header 0.
LEMMA LoadExtendedType ==
  ASSUME NEW c, NEW w \in Goods(c), w.how = "ok", w.e.ehdr \in Ehdrs, w.e.raw \in Seq(Unit)
  PROVE  LoadExtended(w) \in Readies(c)
<1> DEFINE d == w.e
           s == Loaded(ShdrAt(d, d.ehdr.shoff))
           a == Allocate(d, 0, s)
<1>1. d \in Opens /\ d.ehdr.shoff \in Nat /\ d.ehdr.phnum \in Nat
  BY WorkFields DEF Ehdrs
<1>2. CASE Len(d.raw) < d.ehdr.shoff + ShdrSize
  BY <1>2, FailsType DEF LoadExtended
<1>3. CASE ~(Len(d.raw) < d.ehdr.shoff + ShdrSize)
  <2>1. s \in Scns
    <3>1. d.ehdr.shoff < Len(d.raw) /\ Len(d.raw) \in Nat
      BY <1>1, <1>3, Sizes
    <3>2. ShdrAt(d, d.ehdr.shoff) \in Shdrs
      BY <3>1, <1>1, HeadersRead
    <3> QED
      BY <3>2, LoadedType
  <2>2. /\ a \in Opens /\ a.layout = d.layout /\ a.cmd = d.cmd /\ a.ehdr = d.ehdr
        /\ DOMAIN d.scns \subseteq DOMAIN a.scns
    <3> HIDE DEF s, d
    <3> QED
      BY <2>1, <1>1, AllocateType
  <2>3. /\ With(w, a) \in Goods(c)
        /\ Fails(With(w, a), "error") \in Readies(c)
    BY <2>2, WithType, FailsType
  <2> DEFINE b == [a EXCEPT !.nscn = s.size,
                            !.nphdr = IF d.ehdr.phnum = PnXnum THEN s.info ELSE d.ehdr.phnum]
  <2>4. /\ b \in Opens /\ b.layout = d.layout /\ b.cmd = d.cmd /\ b.ehdr = d.ehdr /\ b.scns = a.scns
    <3>1. s.size \in Nat /\ s.info \in Nat
      BY <2>1 DEF Scns
    <3> HIDE DEF a, s, d
    <3> QED
      BY <2>2, <3>1, <1>1 DEF Opens, Descs
  <2>5. With(w, b) \in Goods(c) /\ With(w, b).e = b
    <3> HIDE DEF b, a
    <3> QED
      BY <2>2, <2>4, WithType
  <2>6. With(w, b) \in Readies(c)
    BY <2>4, <2>5 DEF Readies
  <2> QED
    BY <1>3, <2>3, <2>6 DEF LoadExtended
<1> QED
  BY <1>2, <1>3

LEMMA ThenType ==
  ASSUME NEW c, NEW w \in Goods(c), NEW n
  PROVE  /\ (w.how = "ok" => n \in Goods(c)) => Then(w, n) \in Goods(c)
         /\ (w.how = "ok" => n \in Readies(c)) => Then(w, n) \in Readies(c)
BY DEF Then, Readies

\* A note of what has been miscounted
LEMMA MiscountsType ==
  ASSUME NEW c, NEW r \in Readies(c), NEW m
  PROVE  With(r, [r.e EXCEPT !.misread = @ \/ m]) \in Readies(c)
<1> DEFINE d == r.e
           b == [d EXCEPT !.misread = d.misread \/ m]
<1>1. r \in Goods(c) /\ d \in Opens /\ d \in Descs
  BY WorkFields DEF Readies, Opens
<1>2. (d.misread \/ m) \in BOOLEAN
  OBVIOUS
<1>3. /\ b \in Descs /\ b.layout = d.layout /\ b.cmd = d.cmd /\ b.ehdr = d.ehdr
      /\ b.raw = d.raw /\ b.mapped = d.mapped /\ b.scns = d.scns
  <2> DEFINE x == d.misread \/ m
  <2>1. x \in BOOLEAN
    OBVIOUS
  <2> HIDE DEF x, d
  <2>2. [d EXCEPT !.misread = x] \in Descs
    BY <1>1, <2>1 DEF Descs
  <2>3. LET f == [d EXCEPT !.misread = x] IN
        /\ f.layout = d.layout /\ f.cmd = d.cmd /\ f.ehdr = d.ehdr
        /\ f.raw = d.raw /\ f.mapped = d.mapped /\ f.scns = d.scns
    BY <1>1 DEF Descs
  <2> QED
    BY <2>2, <2>3 DEF x
<1>4. b \in Opens
  BY <1>1, <1>3, SameFile
<1>5. b = [r.e EXCEPT !.misread = @ \/ m]
  OBVIOUS
<1> HIDE DEF b
<1>6. With(r, b) \in Goods(c) /\ With(r, b).e = b /\ With(r, b).how = r.how
  BY <1>1, <1>3, <1>4, WithType
<1> QED
  BY <1>3, <1>5, <1>6 DEF Readies

LEMMA WithEhdrType ==
  ASSUME NEW c, NEW w \in Goods(c)
  PROVE  WithEhdr(w) \in Readies(c)
<1> DEFINE d == w.e
           h == EhdrAt(d)
           a == [d EXCEPT !.ehdr = h]
           b == [a EXCEPT !.nphdr = h.phnum, !.nscn = h.shnum]
           z == [d EXCEPT !.ehdr = NoEhdr]
<1>1. d \in Opens /\ d.cmd = c
  BY WorkFields
<1>2. SUFFICES ASSUME w.how = "ok" PROVE WithEhdr(w) \in Readies(c)
  BY ThenType DEF WithEhdr
<1>3. \A how \in {"error", "fault"} : Fails(w, how) \in Readies(c)
  BY FailsType
<1>4. CASE ~d.class
  BY <1>2, <1>3, <1>4 DEF WithEhdr, Then
<1>5. CASE d.class /\ d.ehdr # None
  <2>1. w \in Readies(c)
    BY <1>1, <1>5 DEF Readies, Opens, Descs
  <2> QED
    BY <1>2, <1>5, <2>1 DEF WithEhdr, Then
<1>6. CASE d.class /\ d.ehdr = None /\ d.cmd = "write"
  <2>1. NoEhdr \in Ehdrs
    BY DEF NoEhdr, Ehdrs
  <2>2. /\ z \in Opens /\ z.layout = d.layout /\ z.cmd = d.cmd /\ z.scns = d.scns
        /\ z.ehdr = NoEhdr
    <3> HIDE DEF d
    <3> QED
      BY <1>1, <2>1 DEF Opens, Descs
  <2>3. With(w, z) \in Goods(c) /\ With(w, z).e = z
    <3> HIDE DEF z
    <3> QED
      BY <2>2, WithType
  <2>4. With(w, z) \in Readies(c)
    BY <2>1, <2>2, <2>3 DEF Readies
  <2> QED
    BY <1>2, <1>6, <2>4 DEF WithEhdr, Then
<1>7. CASE /\ d.class /\ d.ehdr = None /\ d.cmd # "write"
           /\ d.raw = Gone \/ Len(d.raw) < EhdrSize
  BY <1>2, <1>3, <1>7 DEF WithEhdr, Then
<1>8. CASE /\ d.class /\ d.ehdr = None /\ d.cmd # "write" /\ d.raw # Gone
           /\ ~(Len(d.raw) < EhdrSize)
  <2>1. d.raw \in Seq(Unit) /\ Len(d.raw) > 0
    BY <1>1, <1>8, Sizes DEF Opens
  <2>2. h \in Ehdrs
    BY <2>1, HeadersRead
  <2> HIDE DEF h
  <2>3. /\ a \in Opens /\ a.layout = d.layout /\ a.cmd = d.cmd /\ a.scns = d.scns
        /\ a.ehdr = h /\ a.raw = d.raw
    <3> HIDE DEF d
    <3> QED
      BY <1>1, <2>2 DEF Opens, Descs
  <2>4. /\ b \in Opens /\ b.layout = d.layout /\ b.cmd = d.cmd /\ b.scns = d.scns
        /\ b.ehdr = h
    <3>1. h.phnum \in Nat /\ h.shnum \in Nat
      BY <2>2 DEF Ehdrs
    <3> HIDE DEF d, a
    <3> QED
      BY <2>3, <3>1 DEF Opens, Descs
  <2>5. /\ With(w, a) \in Goods(c) /\ With(w, a).e = a /\ With(w, a).how = "ok"
        /\ With(w, b) \in Goods(c) /\ With(w, b).e = b
    <3> HIDE DEF a, b
    <3> QED
      BY <1>2, <2>3, <2>4, WithType
  <2>6. With(w, b) \in Readies(c)
    BY <2>2, <2>4, <2>5 DEF Readies
  <2>7. Fails(With(w, a), "error") \in Readies(c)
    BY <2>5, FailsType
  <2>8. LoadExtended(With(w, a)) \in Readies(c)
    BY <2>1, <2>2, <2>3, <2>5, LoadExtendedType
  <2>9. PICK r \in {Fails(With(w, a), "error"), LoadExtended(With(w, a)), With(w, b)} :
          WithEhdr(w) = With(r, [r.e EXCEPT !.misread = @ \/ Miscounts(r)])
    BY <1>2, <1>8 DEF WithEhdr, Then, h
  <2> HIDE DEF a, b
  <2>10. r \in Readies(c)
    BY <2>6, <2>7, <2>8
  <2> QED
    BY <2>9, <2>10, MiscountsType
<1> QED
  BY <1>4, <1>5, <1>6, <1>7, <1>8

\* Of n things of one size that fit, each does.
LEMMA TableFits ==
  ASSUME NEW size \in Nat, NEW n \in Nat, NEW i \in Nat, i < n
  PROVE  i * size \in Nat /\ n * size \in Nat /\ i * size + size <= n * size
<1>1. n * size = i * size + (n - i) * size
  OBVIOUS
<1>2. (n - i) * size >= size
  <2>1. n - i - 1 \in Nat /\ (n - i - 1) * size \in Nat
    OBVIOUS
  <2>2. (n - i) * size = (n - i - 1) * size + size
    OBVIOUS
  <2> QED
    BY <2>1, <2>2
<1> QED
  BY <1>1, <1>2

LEMMA LoadShdrsType ==
  ASSUME NEW c, NEW w \in Readies(c), w.how = "ok", c # "write"
  PROVE  LoadShdrs(w) \in Readies(c)
<1> DEFINE d == w.e
           off(i) == d.ehdr.shoff + i * ShdrSize
           there == DOMAIN d.scns
           t == [i \in there \cup 0..d.nscn - 1 |->
                   IF i \in there THEN d.scns[i] ELSE Loaded(ShdrAt(d, off(i)))]
           b == [d EXCEPT !.loaded = TRUE, !.scns = t]
<1>1. d \in Opens /\ d.cmd = c /\ d.ehdr \in Ehdrs /\ w \in Goods(c) /\ d.nscn \in Nat
  BY WorkFields DEF Readies, Opens, Descs
<1>2. \A how \in {"error", "fault", "abort"} : Fails(w, how) \in Readies(c)
  BY <1>1, FailsType
<1> DEFINE unread == \E i \in 0..d.nscn - 1 : i \notin there
<1>3. CASE off(d.nscn) > Rawsize(d) \/ Cardinality(there) > 1 \/ (d.raw = Gone /\ unread)
  BY <1>2, <1>3 DEF LoadShdrs
<1>4. CASE /\ ~(off(d.nscn) > Rawsize(d)) /\ ~(Cardinality(there) > 1)
           /\ ~(d.raw = Gone /\ unread)
  <2>2. ASSUME NEW i \in 0..d.nscn - 1, i \notin there
        PROVE  Loaded(ShdrAt(d, off(i))) \in Scns
    <3>0. d.raw # Gone /\ Rawsize(d) = Len(d.raw)
      BY <1>4, <2>2 DEF Rawsize
    <3> HIDE DEF unread
    <3>a. d.raw \in Seq(Unit) /\ d.ehdr.shoff \in Nat
      BY <1>1, <3>0 DEF Opens, Ehdrs
    <3>1. /\ i * ShdrSize \in Nat /\ d.nscn * ShdrSize \in Nat
          /\ i * ShdrSize + ShdrSize <= d.nscn * ShdrSize
      <4>1. d.nscn \in Nat /\ i \in Nat /\ i < d.nscn /\ ShdrSize \in Nat
        BY <1>1, Sizes
      <4> HIDE DEF d
      <4> QED
        BY <4>1, TableFits
    <3>2. off(i) \in Nat /\ off(i) < Len(d.raw)
      <4> DEFINE x == i * ShdrSize
                 y == d.nscn * ShdrSize
      <4>1. x \in Nat /\ y \in Nat /\ x + ShdrSize <= y
        BY <3>1
      <4>2. d.ehdr.shoff + y <= Len(d.raw) /\ off(i) = d.ehdr.shoff + x /\ Len(d.raw) \in Nat
        <5>1. Len(d.raw) \in Nat
          BY <3>a
        <5>2. off(d.nscn) = d.ehdr.shoff + y /\ off(i) = d.ehdr.shoff + x
          OBVIOUS
        <5>3. ~(d.ehdr.shoff + y > Len(d.raw))
          BY <1>4, <3>0, <5>2
        <5> HIDE DEF y, x, d, off
        <5> QED
          BY <3>a, <4>1, <5>1, <5>2, <5>3
      <4> HIDE DEF x, y, d, off
      <4> QED
        BY <3>a, <4>1, <4>2, Sizes
    <3> HIDE DEF off
    <3>3. ShdrAt(d, off(i)) \in Shdrs
      BY <3>a, <3>2, HeadersRead
    <3> QED
      BY <3>3, LoadedType
  <2> HIDE DEF unread
  <2>3. t \in Tables /\ there \subseteq DOMAIN t
    <3>1. there \subseteq Nat /\ \A i \in there : d.scns[i] \in Scns
      BY <1>1, ScnOf
    <3> HIDE DEF d, off, there
    <3>2. DOMAIN t = there \cup 0..d.nscn - 1 /\ DOMAIN t \subseteq Nat
      <4>1. DOMAIN t = there \cup 0..d.nscn - 1
        OBVIOUS
      <4>2. 0..d.nscn - 1 \subseteq Nat
        BY <1>1
      <4> QED
        BY <3>1, <4>1, <4>2
    <3>3. \A i \in DOMAIN t : t[i] \in Scns
      BY <2>2, <3>1
    <3>4. t = [i \in DOMAIN t |-> t[i]]
      OBVIOUS
    <3> HIDE DEF t
    <3> QED
      BY <3>2, <3>3, <3>4, TableType
  <2>4. /\ b \in Opens /\ b.layout = d.layout /\ b.cmd = d.cmd /\ b.ehdr = d.ehdr
        /\ there \subseteq DOMAIN b.scns
    <3> HIDE DEF d, t, there
    <3>1. d \in Descs
      BY <1>1 DEF Opens
    <3>2. /\ b \in Descs /\ b.layout = d.layout /\ b.cmd = d.cmd /\ b.ehdr = d.ehdr
          /\ b.raw = d.raw /\ b.mapped = d.mapped /\ b.scns = t
      BY <2>3, <3>1 DEF Descs
    <3> HIDE DEF b
    <3> QED
      BY <1>1, <2>3, <3>2, SameFile
  <2>5. With(w, b) \in Readies(c)
    <3> HIDE DEF b
    <3>1. With(w, b) \in Goods(c) /\ With(w, b).e = b
      BY <1>1, <2>4, WithType
    <3> QED
      BY <3>1, <1>1, <2>4 DEF Readies
  <2> QED
    BY <1>4, <2>5 DEF LoadShdrs, unread
<1> QED
  BY <1>3, <1>4

LEMMA OpenedType ==
  /\ \A c : \A w \in Readies(c) : WithShdrs(w) \in Readies(c)
  /\ \A d \in Opens : Opened(d) \in Readies(d.cmd)
<1>1. ASSUME NEW c, NEW w \in Readies(c) PROVE WithShdrs(w) \in Readies(c)
  <2>1. w \in Goods(c) /\ w.e.cmd = c
    BY WorkFields DEF Readies
  <2> QED
    BY <2>1, LoadShdrsType, ThenType DEF WithShdrs
<1> QED
  BY <1>1, WorkType, WithEhdrType DEF Opened

LEMMA WithPhdrType ==
  ASSUME NEW c, NEW w \in Readies(c), w.how = "ok"
  PROVE  /\ WithPhdr(w) \in Readies(c) /\ WithPhdr(w).e.ehdr = w.e.ehdr
         /\ WithPhdr(w).how \in {"ok", "error", "fault"}
         /\ WithPhdr(w).how = "ok" => WithPhdr(w).e.phdr \in Seq(Unit)
<1> DEFINE d == w.e
           n == d.nphdr * PhdrSize
           b == [d EXCEPT !.phdr = Bytes(d.raw, d.ehdr.phoff, n)]
<1>1. d \in Opens /\ d.ehdr \in Ehdrs /\ w \in Goods(c) /\ d.nphdr \in Nat
  BY WorkFields DEF Readies, Opens, Descs
<1>2. \A how \in {"error", "fault"} :
        /\ Fails(w, how) \in Readies(c) /\ Fails(w, how).e = d /\ Fails(w, how).how = how
  BY <1>1, FailsType
<1>3. CASE d.phdr # None
  <2>1. d.phdr \in Seq(Unit)
    BY <1>1, <1>3 DEF Opens, Descs
  <2> QED
    BY <1>3, <2>1 DEF WithPhdr
<1>4. CASE d.phdr = None /\ (d.raw \in {Gone, None} \/ Rawsize(d) < d.ehdr.phoff + n)
  BY <1>2, <1>4 DEF WithPhdr
<1>5. CASE d.phdr = None /\ d.raw \notin {Gone, None} /\ ~(Rawsize(d) < d.ehdr.phoff + n)
  <2>1. d.raw \in Seq(Unit) /\ d.ehdr.phoff \in Nat
    BY <1>1, <1>5 DEF Opens, Descs, Ehdrs
  <2>2. n \in Nat
    BY <1>1, Sizes
  <2>3. Bytes(d.raw, d.ehdr.phoff, n) \in Seq(Unit)
    <3>1. Rawsize(d) = Len(d.raw)
      BY <1>5 DEF Rawsize
    <3> HIDE DEF d, n
    <3>2. d.ehdr.phoff + n <= Len(d.raw)
      BY <1>5, <2>1, <2>2, <3>1
    <3> QED
      BY <2>1, <2>2, <3>2, BytesType
  <2>4. /\ b \in Opens /\ b.layout = d.layout /\ b.cmd = d.cmd /\ b.ehdr = d.ehdr
        /\ b.scns = d.scns /\ b.phdr \in Seq(Unit)
    <3> HIDE DEF d, n
    <3> QED
      BY <1>1, <2>3 DEF Opens, Descs
  <2>5. With(w, b) \in Goods(c) /\ With(w, b).e = b /\ With(w, b).how = "ok"
    <3> HIDE DEF b
    <3> QED
      BY <1>1, <2>4, WithType
  <2>6. With(w, b) \in Readies(c)
    BY <1>1, <2>4, <2>5 DEF Readies
  <2>7. WithPhdr(w) = With(w, b)
    BY <1>5 DEF WithPhdr
  <2> HIDE DEF b
  <2> QED
    BY <2>4, <2>5, <2>6, <2>7
<1> QED
  BY <1>3, <1>4, <1>5

\* A section in another state.
Section(d, i, s, m) == [d EXCEPT !.misread = m, !.scns = [d.scns EXCEPT ![i] = s]]

LEMMA SectionType ==
  ASSUME NEW c, NEW w \in Goods(c), NEW i \in DOMAIN w.e.scns, NEW s \in Scns,
         NEW m \in BOOLEAN,
         NEW b, b = Section(w.e, i, s, m)
  PROVE  /\ b \in Opens /\ b.ehdr = w.e.ehdr /\ b.layout = w.e.layout /\ b.cmd = w.e.cmd
         /\ DOMAIN b.scns = DOMAIN w.e.scns /\ b.scns[i] = s
         /\ \A j \in DOMAIN w.e.scns \ {i} : b.scns[j] = w.e.scns[j]
         /\ With(w, b) \in Goods(c) /\ With(w, b).e = b /\ With(w, b).how = w.how
         /\ With(w, b).ext = w.ext /\ With(w, b).rc = w.rc
<1>1. w.e \in Opens
  BY WorkFields
<1>2. [w.e.scns EXCEPT ![i] = s] \in Tables
  BY <1>1, ScnOf, ScnsType
<1> DEFINE t == [w.e.scns EXCEPT ![i] = s]
<1>3. DOMAIN t = DOMAIN w.e.scns
  OBVIOUS
<1>4. t[i] = s /\ \A j \in DOMAIN w.e.scns \ {i} : t[j] = w.e.scns[j]
  BY <1>1, TableType DEF Opens, Descs
<1> HIDE DEF t
<1>5. /\ b \in Opens /\ b.ehdr = w.e.ehdr /\ b.layout = w.e.layout /\ b.cmd = w.e.cmd
      /\ b.scns = t
  BY <1>1, <1>2 DEF Opens, Descs, t, Section
<1>6. /\ With(w, b) \in Goods(c) /\ With(w, b).e = b /\ With(w, b).how = w.how
      /\ With(w, b).ext = w.ext /\ With(w, b).rc = w.rc
  <2>1. DOMAIN w.e.scns \subseteq DOMAIN b.scns /\ b \in Opens
    BY <1>3, <1>5
  <2> QED
    BY ONLY <2>1, <1>5, WithType, w \in Goods(c)
<1> QED
  BY <1>3, <1>4, <1>5, <1>6

\* What a part of a call leaves of the object.
Keeps(w, p) == p.e.ehdr = w.e.ehdr /\ DOMAIN p.e.scns = DOMAIN w.e.scns

LEMMA WithDataType ==
  ASSUME NEW c, NEW w \in Goods(c), w.how = "ok", NEW i \in DOMAIN w.e.scns
  PROVE  WithData(w, i) \in Goods(c) /\ Keeps(w, WithData(w, i))
<1> DEFINE d == w.e
           s == d.scns[i]
           held == IF s.type = "nobits" THEN 0 ELSE s.size
           units == IF held = 0 THEN <<>> ELSE Bytes(d.raw, s.off, held)
           data == <<[align |-> s.align, off |-> 0, units |-> units]>>
           m == d.misread \/ (held > 0 /\ s.off # s.rawoff)
           z == [s EXCEPT !.data = data]
           b == [d EXCEPT !.misread = m, !.scns = [d.scns EXCEPT ![i] = z]]
<1>1. d \in Opens /\ s \in Scns
  BY WorkFields, ScnOf
<1>2. \A how \in {"error", "fault"} :
        Fails(w, how) \in Goods(c) /\ Keeps(w, Fails(w, how))
  BY FailsType DEF Keeps
<1> DEFINE beyond == s.type # "nobits" /\ s.off + s.size > Rawsize(d)
<1>3. CASE \/ s.data # <<>> \/ d.raw = None \/ s.type = "null" \/ beyond
           \/ d.raw = Gone /\ held > 0
  BY <1>2, <1>3 DEF WithData, Keeps
<1>4. CASE /\ s.data = <<>> /\ d.raw # None /\ s.type # "null" /\ ~beyond
           /\ ~(d.raw = Gone /\ held > 0)
  <2>1. s.off \in Nat /\ s.size \in Nat /\ s.align \in Nat
    BY <1>1 DEF Scns
  <2>2. held \in Nat
    BY <2>1
  <2>3. units \in Seq(Unit)
    <3>1. CASE held = 0
      BY <3>1
    <3>2. CASE held # 0
      <4>1. d.raw # Gone /\ s.type # "nobits" /\ held = s.size
        BY <1>4, <2>2, <3>2
      <4>2. d.raw \in Seq(Unit)
        BY <1>1, <1>4, <4>1 DEF Opens, Descs
      <4>3. ~(s.off + held > Len(d.raw))
        BY <1>4, <4>1 DEF Rawsize
      <4>4. units = Bytes(d.raw, s.off, held)
        BY <3>2
      <4> HIDE DEF d, s, held, units
      <4>5. s.off + held <= Len(d.raw)
        BY <2>1, <2>2, <4>2, <4>3
      <4> QED
        BY <2>1, <2>2, <4>2, <4>4, <4>5, BytesType
    <3> QED
      BY <3>1, <3>2
  <2>4. data \in DataLists
    <3> DEFINE x == [align |-> s.align, off |-> 0, units |-> units]
    <3>1. x \in Datum
      <4> HIDE DEF units
      <4> QED
        BY <2>1, <2>3 DEF Datum
    <3> HIDE DEF x
    <3>2. <<x>> \in Seq(Datum) /\ Len(<<x>>) = 1
      BY <3>1
    <3>3. data = <<x>>
      BY DEF x
    <3> HIDE DEF data
    <3> QED
      BY <3>2, <3>3 DEF DataLists
  <2> HIDE DEF data
  <2>5. z \in Scns
    <3> HIDE DEF s
    <3> QED
      BY <1>1, <2>4 DEF Scns
  <2>6. m \in BOOLEAN
    BY <1>1 DEF Opens, Descs
  <2>7. WithData(w, i) = With(w, b)
    BY <1>4 DEF WithData, data
  <2> HIDE DEF z, m
  <2>8. /\ With(w, b) \in Goods(c) /\ With(w, b).e = b
        /\ b.ehdr = d.ehdr /\ DOMAIN b.scns = DOMAIN d.scns
    <3>1. b = Section(w.e, i, z, m)
      BY DEF Section
    <3> HIDE DEF b
    <3> QED
      BY ONLY <2>5, <2>6, <3>1, SectionType, w \in Goods(c), i \in DOMAIN w.e.scns
  <2> HIDE DEF b
  <2> QED
    BY <2>7, <2>8 DEF Keeps
<1> QED
  BY <1>3, <1>4
-----------------------------------------------------------------------------
(* The layout *)

LEMMA PlacedType ==
  ASSUME NEW data \in DataLists
  PROVE  /\ Placed(data) \in DataLists /\ Len(Placed(data)) = Len(data)
         /\ \A k \in 1..Len(data) : /\ Placed(data)[k].align = data[k].align
                                    /\ Placed(data)[k].units = data[k].units
         /\ \A k \in 1..Len(data) :
              Placed(data)[k].off =
                IF k = 1 THEN 0
                ELSE RoundUp(Placed(data)[k - 1].off + Len(data[k - 1].units), data[k].align)
<1> DEFINE n == Len(data)
           step(v, k) == IF k = 1 THEN 0
                         ELSE RoundUp(v + Len(data[k - 1].units), data[k].align)
<1>1. /\ n \in Nat /\ data \in Seq(Datum)
      /\ \A k \in 1..n : data[k] \in Datum
      /\ \A k \in 2..n : data[k].align # 0
  BY DEF DataLists
<1>2. ASSUME NEW v \in Nat, NEW k \in 1..n PROVE step(v, k) \in Nat
  <2>1. CASE k = 1
    BY <2>1
  <2>2. CASE k # 1
    <3>1. k \in 2..n /\ k - 1 \in 1..n
      BY <1>1, <2>2
    <3>2. data[k].align \in Nat \ {0}
      BY <3>1, <1>1 DEF Datum
    <3>3. data[k - 1].units \in Seq(Unit)
      BY <3>1, <1>1 DEF Datum
    <3>4. v + Len(data[k - 1].units) \in Nat
      BY <3>3
    <3> QED
      BY <2>2, <3>2, <3>4, RoundUpProperties
  <2> QED
    BY <2>1, <2>2
<1> HIDE DEF n
<1>3. \E off : off = [k \in 1..n |-> step(off[k - 1], k)]
  <2> DEFINE F == [p \in Nat \X (1..n) |-> step(p[1], p[2])]
  <2>1. IsStep(F, n, Nat)
    <3> HIDE DEF step
    <3> QED
      BY <1>2 DEF IsStep
  <2>2. PICK g : IsRun(g, n, Nat, 0, F)
    <3>1. n \in Nat /\ 0 \in Nat
      BY <1>1
    <3> HIDE DEF F
    <3> QED
      BY ONLY <2>1, <3>1, Recursion
  <2> DEFINE off == [k \in 1..n |-> g[k]]
  <2>3. ASSUME NEW k \in 1..n PROVE off[k] = step(off[k - 1], k)
    <3>1. g[k] = step(g[k - 1], k)
      <4>1. <<g[k - 1], k>> \in Nat \X (1..n)
        BY <1>1, <2>2 DEF IsRun
      <4> HIDE DEF step
      <4> QED
        BY <2>2, <4>1 DEF IsRun
    <3>2. CASE k = 1
      BY <3>1, <3>2, <2>2 DEF IsRun
    <3>3. CASE k # 1
      <4>1. k - 1 \in 1..n
        BY <1>1, <3>3
      <4>2. off[k - 1] = g[k - 1] /\ off[k] = g[k]
        BY <4>1
      <4> HIDE DEF step, off
      <4> QED
        BY <3>1, <4>2
    <3> QED
      BY <3>2, <3>3
  <2>4. off = [k \in 1..n |-> off[k]]
    OBVIOUS
  <2> HIDE DEF off, step
  <2>5. off = [k \in 1..n |-> step(off[k - 1], k)]
    BY <2>3, <2>4
  <2> QED
    BY <2>5
<1> DEFINE off[k \in 1..n] ==
             IF k = 1 THEN 0 ELSE RoundUp(off[k - 1] + Len(data[k - 1].units), data[k].align)
<1>4. off = [k \in 1..n |-> step(off[k - 1], k)]
  BY <1>3
<1>5. Placed(data) = [k \in 1..n |-> [data[k] EXCEPT !.off = off[k]]]
  BY DEF Placed, n
<1> HIDE DEF off
<1>6. \A k \in 1..n : off[k] \in Nat
  <2> DEFINE h == [k \in 0..n |-> IF k = 0 THEN 0 ELSE off[k]]
  <2>1. h[0] \in Nat
    BY <1>1
  <2>2. ASSUME NEW k \in 1..n, h[k - 1] \in Nat PROVE h[k] \in Nat
    <3>1. h[k] = off[k] /\ off[k] = step(off[k - 1], k)
      BY <1>1, <1>4
    <3>2. CASE k = 1
      BY <3>1, <3>2
    <3>3. CASE k # 1
      <4>1. h[k - 1] = off[k - 1]
        BY <1>1, <3>3
      <4> HIDE DEF h, step
      <4> QED
        BY <3>1, <4>1, <2>2, <1>2
    <3> QED
      BY <3>2, <3>3
  <2>3. \A k \in 0..n : h[k] \in Nat
    <3> HIDE DEF h
    <3> QED
      BY <1>1, <2>1, <2>2, LoopKeeps
  <2>4. \A k \in 1..n : off[k] = h[k] /\ k \in 0..n
    BY <1>1
  <2> HIDE DEF h
  <2> QED
    BY <2>3, <2>4
<1>7. ASSUME NEW k \in 1..n
      PROVE  /\ [data[k] EXCEPT !.off = off[k]] \in Datum
             /\ [data[k] EXCEPT !.off = off[k]].align = data[k].align
             /\ [data[k] EXCEPT !.off = off[k]].units = data[k].units
             /\ [data[k] EXCEPT !.off = off[k]].off = off[k]
  BY <1>1, <1>6 DEF Datum
<1>8. Placed(data) \in Seq(Datum) /\ Len(Placed(data)) = n
  BY <1>1, <1>5, <1>7
<1>9. \A k \in 1..n : /\ Placed(data)[k].align = data[k].align
                      /\ Placed(data)[k].units = data[k].units
  BY <1>5, <1>7
<1>10. \A k \in 2..n : k \in 1..n
  BY <1>1
<1>11. Placed(data) \in DataLists
  BY <1>1, <1>8, <1>9, <1>10 DEF DataLists
<1>12. \A k \in 1..n : Placed(data)[k].off = off[k]
  BY <1>5, <1>7
<1>13. ASSUME NEW k \in 1..n
       PROVE  Placed(data)[k].off =
                IF k = 1 THEN 0
                ELSE RoundUp(Placed(data)[k - 1].off + Len(data[k - 1].units), data[k].align)
  <2>1. off[k] = step(off[k - 1], k)
    BY <1>4
  <2>2. k # 1 => k - 1 \in 1..n
    BY <1>1
  <2> QED
    BY <2>1, <2>2, <1>12
<1> QED
  BY <1>8, <1>9, <1>11, <1>13 DEF n

LEMMA ExtentType ==
  ASSUME NEW data \in DataLists
  PROVE  Extent(data) \in Nat /\ AlignOf(data) \in Nat
<1> DEFINE n == Len(data)
           f == [k \in 1..n |-> data[k].off + Len(data[k].units)]
           a == [k \in 1..n |-> data[k].align]
<1>1. n \in Nat /\ \A k \in 1..n : data[k] \in Datum
  BY DEF DataLists
<1>2. \A k \in 1..n : f[k] \in Nat /\ a[k] \in Nat
  BY <1>1 DEF Datum
<1>3. BufferEnds(data) = {f[k] : k \in 1..n} /\ {data[k].align : k \in 1..n} = {a[k] : k \in 1..n}
  BY DEF BufferEnds
<1> HIDE DEF n, f, a
<1>4. MaxOf({0} \cup {f[k] : k \in 1..n}) \in Nat /\ MaxOf({0} \cup {a[k] : k \in 1..n}) \in Nat
  BY <1>1, <1>2, Greatest
<1> QED
  BY <1>3, <1>4 DEF Extent, AlignOf, n

LEMMA SectionForm ==
  ASSUME NEW d \in Opens, NEW i \in DOMAIN d.scns, NEW s
  PROVE  [d EXCEPT !.scns[i] = s] = Section(d, i, s, d.misread) /\ d.misread \in BOOLEAN
BY DEF Opens, Descs, Section

\* Where the library does the layout, section i goes behind all that is placed.
Placeable(v, i) == v.how = "ok" /\ ~v.e.layout => v.e.scns[i].soff >= v.rc

LEMMA PlaceScnType ==
  ASSUME NEW c, NEW w \in Goods(c), NEW i \in DOMAIN w.e.scns, NEW al \in Nat \ {0}
  PROVE  /\ PlaceScn(w, i, al) \in Goods(c) /\ Keeps(w, PlaceScn(w, i, al))
         /\ Placeable(PlaceScn(w, i, al), i)
<1> DEFINE off == RoundUp(w.rc, al)
           s == w.e.scns[i]
           z == [s EXCEPT !.align = al, !.off = off, !.ssize = s.size, !.soff = off]
           b == Section(w.e, i, z, w.e.misread)
<1>1. w.e \in Opens /\ w.rc \in Nat /\ s \in Scns
  BY WorkFields, ScnOf
<1>2. off \in Nat /\ off >= w.rc
  BY <1>1, RoundUpProperties
<1>3. PlaceScn(w, i, al) = With(w, b) /\ w.e.misread \in BOOLEAN
  BY <1>1, SectionForm DEF PlaceScn
<1> HIDE DEF off
<1>4. z \in Scns /\ z.soff = off
  <2> HIDE DEF s
  <2> QED
    BY <1>1, <1>2 DEF Scns
<1> HIDE DEF z, b
<1>5. /\ With(w, b) \in Goods(c) /\ With(w, b).e = b /\ b.ehdr = w.e.ehdr
      /\ DOMAIN b.scns = DOMAIN w.e.scns /\ b.scns[i] = z /\ With(w, b).rc = w.rc
  BY <1>3, <1>4, SectionType DEF b
<1> QED
  BY <1>2, <1>3, <1>4, <1>5 DEF Keeps, Placeable

LEMMA SettleType ==
  ASSUME NEW c, NEW w \in Goods(c), NEW i \in DOMAIN w.e.scns, w.e.layout
  PROVE  /\ Settle(w, i) \in Goods(c) /\ Keeps(w, Settle(w, i))
         /\ Placeable(Settle(w, i), i)
<1> DEFINE s == w.e.scns[i]
           z == [s EXCEPT !.ssize = s.size, !.soff = s.off]
           b == Section(w.e, i, z, w.e.misread)
<1>1. w.e \in Opens /\ s \in Scns
  BY WorkFields, ScnOf
<1>2. Settle(w, i) = With(w, b) /\ w.e.misread \in BOOLEAN
  BY <1>1, SectionForm DEF Settle
<1>3. z \in Scns
  <2> HIDE DEF s
  <2> QED
    BY <1>1 DEF Scns
<1> HIDE DEF z, b
<1>4. /\ With(w, b) \in Goods(c) /\ With(w, b).e = b /\ b.ehdr = w.e.ehdr
      /\ DOMAIN b.scns = DOMAIN w.e.scns
  BY <1>2, <1>3, SectionType DEF b
<1>5. b.layout = w.e.layout
  BY <1>1 DEF b, Section, Opens, Descs
<1> QED
  BY <1>2, <1>4, <1>5 DEF Keeps, Placeable

LEMMA LayOutType ==
  ASSUME NEW c, NEW w \in Goods(c), NEW i \in DOMAIN w.e.scns, NEW untouched \in BOOLEAN
  PROVE  /\ LayOut(w, i, untouched) \in Goods(c) /\ Keeps(w, LayOut(w, i, untouched))
         /\ Placeable(LayOut(w, i, untouched), i)
<1> DEFINE v == LayOut(w, i, untouched)
           s == w.e.scns[i]
           al == IF s.align = 0 THEN 1 ELSE s.align
           data == Placed(s.data)
           z == [s EXCEPT !.data = data, !.size = Extent(data)]
           b == Section(w.e, i, z, w.e.misread)
<1>1. w.e \in Opens /\ s \in Scns /\ w.e.layout \in BOOLEAN
  BY WorkFields, ScnOf DEF Opens, Descs
<1>2. s.data \in DataLists /\ s.align \in Nat
  BY <1>1 DEF Scns
<1>3. al \in Nat \ {0}
  BY <1>2
<1>4. data \in DataLists /\ Extent(data) \in Nat /\ AlignOf(data) \in Nat
  BY <1>2, PlacedType, ExtentType
<1>5. Larger(al, AlignOf(data)) \in Nat \ {0}
  <2> HIDE DEF al, data
  <2> QED
    BY <1>3, <1>4 DEF Larger
<1>6. CASE w.how # "ok"
  <2>1. v = w
    BY <1>6 DEF LayOut, Then
  <2> HIDE DEF v
  <2> QED
    BY <1>6, <2>1 DEF Keeps, Placeable, v
<1>7. CASE w.how = "ok" /\ untouched
  <2>1. v = IF w.e.layout THEN Settle(w, i) ELSE PlaceScn(w, i, al)
    BY <1>7 DEF LayOut, Then
  <2> HIDE DEF v, al
  <2> QED
    BY <2>1, <1>1, <1>3, SettleType, PlaceScnType DEF v
<1>8. CASE w.how = "ok" /\ ~untouched
  <2>1. With(w, b) \in Goods(c) /\ With(w, b).e = b /\ Keeps(w, With(w, b))
    <3>1. z \in Scns
      <4> HIDE DEF s, data
      <4> QED
        BY <1>1, <1>4 DEF Scns
    <3>2. w.e.misread \in BOOLEAN
      BY <1>1, SectionForm
    <3> HIDE DEF z
    <3>3. /\ With(w, b) \in Goods(c) /\ With(w, b).e = b /\ b.ehdr = w.e.ehdr
          /\ DOMAIN b.scns = DOMAIN w.e.scns
      BY <3>1, <3>2, SectionType
    <3> HIDE DEF b
    <3> QED
      BY <3>3 DEF Keeps
  <2> DEFINE unaligned == \E k \in 1..Len(s.data) : ~PowerOfTwo(s.data[k].align)
  <2>2. CASE unaligned
    <3>1. v = Fails(w, "error")
      BY <1>8, <2>2 DEF LayOut, Then
    <3> HIDE DEF v
    <3> QED
      BY <3>1, FailsType DEF Keeps, Placeable, v
  <2>3. CASE ~unaligned /\ ~w.e.layout
    <3>1. With(w, [w.e EXCEPT !.scns[i] = z]) = With(w, b)
      BY <1>1, SectionForm
    <3>2. v = PlaceScn(With(w, b), i, Larger(al, AlignOf(data)))
      BY <1>8, <2>3, <3>1 DEF LayOut, Then
    <3> HIDE DEF v, al, b, data
    <3>3. i \in DOMAIN With(w, b).e.scns
      BY <2>1 DEF Keeps
    <3>4. /\ v \in Goods(c) /\ Keeps(With(w, b), v) /\ Placeable(v, i)
      BY <2>1, <3>2, <3>3, <1>5, PlaceScnType
    <3> QED
      BY <2>1, <3>4 DEF Keeps, v
  <2>4. CASE ~unaligned /\ w.e.layout
    <3>1. v \in {Fails(w, "layout"), Settle(w, i)}
      <4> DEFINE misplaced ==
            \/ \E k \in 1..Len(s.data) : s.data[k].off % s.data[k].align # 0
            \/ AlignOf(s.data) > al \/ s.off % al # 0 \/ s.size < Extent(s.data)
      <4>1. v = IF misplaced THEN Fails(w, "layout") ELSE Settle(w, i)
        BY <1>8, <2>4 DEF LayOut, Then
      <4> HIDE DEF misplaced, v
      <4> QED
        BY <4>1
    <3> HIDE DEF v
    <3>2. v = Fails(w, "layout") => v \in Goods(c) /\ Keeps(w, v) /\ Placeable(v, i)
      BY <2>4, FailsType DEF Keeps, Placeable
    <3>3. v = Settle(w, i) => v \in Goods(c) /\ Keeps(w, v) /\ Placeable(v, i)
      BY <2>4, SettleType
    <3> QED
      BY <3>1, <3>2, <3>3 DEF v
  <2> QED
    BY <2>2, <2>3, <2>4
<1> QED
  BY <1>6, <1>7, <1>8

LEMMA ComputeExtentsType ==
  ASSUME NEW c, NEW w \in Goods(c), w.how = "ok", NEW i \in DOMAIN w.e.scns
  PROVE  /\ ComputeExtents(w, i) \in Goods(c) /\ Keeps(w, ComputeExtents(w, i))
         /\ Placeable(ComputeExtents(w, i), i)
<1> DEFINE dataless == w.e.scns[i].data = <<>>
           dirty == w.e.scns[i].dirty
           v == IF dataless /\ dirty /\ w.e.cmd # "write" THEN WithData(w, i) ELSE w
           untouched == dataless /\ ~dirty
<1>1. v \in Goods(c) /\ Keeps(w, v)
  BY WithDataType DEF Keeps
<1>2. ComputeExtents(w, i) = LayOut(v, i, untouched) /\ untouched \in BOOLEAN
  BY DEF ComputeExtents
<1> HIDE DEF v, untouched
<1>3. i \in DOMAIN v.e.scns
  BY <1>1 DEF Keeps
<1> QED
  BY <1>1, <1>2, <1>3, LayOutType DEF Keeps

\* What the list of extents holds once one more is in it.
LEMMA InsertedType ==
  ASSUME NEW extents \in Seq(Extents), NEW x \in Extents, Fits(extents, x),
         NEW new, new = InsertExtent(extents, x)
  PROVE  /\ new \in Seq(Extents)
         /\ \A j \in 1..Len(new) : new[j] = x \/ \E m \in 1..Len(extents) : new[j] = extents[m]
<1> DEFINE k == CHOOSE n \in 0..Len(extents) : IsUnused(extents, n, x)
           n == Len(extents)
<1>1. k \in 0..n /\ n \in Nat
  BY DEF Fits
<1>2. new = [j \in 1..n + 1 |->
               IF j <= k THEN extents[j] ELSE IF j = k + 1 THEN x ELSE extents[j - 1]]
  BY DEF InsertExtent
<1> HIDE DEF k, n
<1>3. ASSUME NEW j \in 1..n + 1
      PROVE  new[j] = x \/ \E m \in 1..n : new[j] = extents[m]
  <2>1. CASE j <= k
    BY <1>1, <1>2, <2>1
  <2>2. CASE j = k + 1
    BY <1>1, <1>2, <2>2
  <2>3. CASE j > k + 1
    <3>1. j - 1 \in 1..n
      BY <1>1, <2>3
    <3> QED
      BY <3>1, <1>1, <1>2, <2>3
  <2> QED
    BY <1>1, <2>1, <2>2, <2>3
<1>4. \A m \in 1..n : extents[m] \in Extents
  BY DEF n
<1>5. \A j \in 1..n + 1 : new[j] \in Extents
  BY <1>3, <1>4
<1>6. new \in Seq(Extents) /\ Len(new) = n + 1
  <2>1. DOMAIN new = 1..n + 1 /\ new = [j \in 1..n + 1 |-> new[j]]
    BY <1>2
  <2> QED
    BY ONLY <1>1, <1>5, <2>1
<1> QED
  BY <1>3, <1>6 DEF n

LEMMA InsertType ==
  ASSUME NEW c, NEW w \in Goods(c), NEW kind \in {"ehdr", "phdr", "shdr", "scn"},
         NEW i \in Nat, NEW start \in Nat, NEW size \in Nat,
         w.how = "ok" /\ ~w.e.layout => start >= w.rc,
         kind = "scn" => i \in DOMAIN w.e.scns
  PROVE  Insert(w, kind, i, start, size) \in Goods(c) /\ Insert(w, kind, i, start, size).e = w.e
<1> DEFINE v == Insert(w, kind, i, start, size)
           x == [kind |-> kind, ndx |-> i, start |-> start, size |-> size]
           new == InsertExtent(w.ext, x)
           rc == Larger(w.rc, start + size)
<1>1. /\ w.ext \in Seq(Extents) /\ w.rc \in Nat /\ w \in Works /\ Len(w.ext) \in Nat
      /\ Ascending(w.ext)
      /\ \A j \in 1..Len(w.ext) : Ends(w.ext[j]) <= w.rc
      /\ \A j \in 1..Len(w.ext) : w.ext[j].kind = "scn" => w.ext[j].ndx \in DOMAIN w.e.scns
  BY WorkFields DEF Goods
<1>2. /\ x \in Extents /\ Ends(x) = start + size /\ x.start = start /\ x.kind = kind
      /\ x.ndx = i
  BY DEF Extents, Ends
<1>3. ASSUME NEW j \in 1..Len(w.ext) PROVE Ends(w.ext[j]) \in Nat
  <2>1. w.ext[j] \in Extents
    BY <1>1
  <2>2. w.ext[j].start \in Nat /\ w.ext[j].size \in Nat
    BY <2>1 DEF Extents
  <2> QED
    BY <2>2 DEF Ends
<1>4. rc \in Nat /\ rc >= w.rc /\ rc >= start + size
  BY <1>1 DEF Larger
<1> HIDE DEF x, rc
<1>5. CASE w.how # "ok"
  BY <1>5 DEF Insert, Then
<1>6. CASE w.how = "ok" /\ ~Fits(w.ext, x)
  <2>1. w.e.layout
    <3> SUFFICES ASSUME ~w.e.layout PROVE FALSE
      OBVIOUS
    <3>1. start >= w.rc
      BY <1>6
    <3>2. \A j \in 1..Len(w.ext) : Ends(w.ext[j]) <= x.start
      BY <1>1, <1>2, <1>3, <3>1
    <3>3. IsUnused(w.ext, Len(w.ext), x)
      BY <1>1, <3>2 DEF IsUnused
    <3> QED
      BY <1>1, <1>6, <3>3 DEF Fits
  <2>2. v = Fails(w, "layout")
    BY <1>6 DEF Insert, Then, x
  <2> QED
    BY <2>1, <2>2, FailsType
<1>7. CASE w.how = "ok" /\ Fits(w.ext, x)
  <2>1. v = [w EXCEPT !.ext = new, !.rc = rc]
    BY <1>7 DEF Insert, Then, x, rc
  <2>2. /\ new \in Seq(Extents)
        /\ \A j \in 1..Len(new) : new[j] = x \/ \E m \in 1..Len(w.ext) : new[j] = w.ext[m]
    BY <1>1, <1>2, <1>7, InsertedType
  <2>6. Ascending(new)
    BY <1>1, <1>2, <1>7, InsertKeepsOrder
  <2> HIDE DEF new
  <2>3. v \in Works /\ v.e = w.e /\ v.ext = new /\ v.rc = rc /\ v.how = "ok"
    BY <1>1, <1>4, <1>7, <2>1, <2>2 DEF Works
  <2>4. ASSUME NEW j \in 1..Len(new)
        PROVE  Ends(new[j]) <= rc /\ (new[j].kind = "scn" => new[j].ndx \in DOMAIN w.e.scns)
    <3>1. CASE new[j] = x
      BY <3>1, <1>2, <1>4
    <3>2. ASSUME NEW m \in 1..Len(w.ext), new[j] = w.ext[m]
          PROVE  Ends(new[j]) <= rc /\ (new[j].kind = "scn" => new[j].ndx \in DOMAIN w.e.scns)
      BY <3>2, <1>1, <1>3, <1>4
    <3> QED
      BY <2>2, <3>1, <3>2
  <2>5. w.e.cmd = c
    BY WorkFields
  <2> HIDE DEF v
  <2> QED
    BY <2>3, <2>4, <2>5, <2>6 DEF Goods, v
<1> QED
  BY <1>5, <1>6, <1>7

LEMMA ResyncScnType ==
  ASSUME NEW c, NEW w \in Readies(c), NEW i \in Nat, w.how = "ok"
  PROVE  ResyncScn(w, i) \in Readies(c)
<1>1. w \in Goods(c) /\ w.e \in Opens
  BY WorkFields DEF Readies
<1>2. CASE i \notin DOMAIN w.e.scns \/ w.e.scns[i].type \in {"null", "nobits"}
  BY <1>2 DEF ResyncScn
<1>3. CASE i \in DOMAIN w.e.scns /\ ~(w.e.scns[i].type \in {"null", "nobits"})
  <2> DEFINE v == ComputeExtents(w, i)
             soff == v.e.scns[i].soff
             ssize == v.e.scns[i].ssize
  <2>1. v \in Goods(c) /\ Keeps(w, v) /\ Placeable(v, i)
    BY <1>1, <1>3, ComputeExtentsType
  <2> HIDE DEF v
  <2>2. v.e \in Opens /\ i \in DOMAIN v.e.scns
    BY <2>1, <1>3, WorkFields DEF Keeps
  <2>3. soff \in Nat /\ ssize \in Nat
    BY <2>2, ScnOf DEF Scns
  <2>4. v.how = "ok" /\ ~v.e.layout => soff >= v.rc
    BY <2>1 DEF Placeable
  <2> HIDE DEF soff, ssize
  <2>5. /\ Insert(v, "scn", i, soff, ssize) \in Goods(c)
        /\ Insert(v, "scn", i, soff, ssize).e = v.e
    BY <2>1, <2>2, <2>3, <2>4, InsertType
  <2>6. v \in Readies(c)
    <3>1. v.how = "ok" => v.e.ehdr \in Ehdrs
      BY <2>1 DEF Readies, Keeps
    <3> QED
      BY <2>1, <3>1 DEF Readies
  <2>7. Insert(v, "scn", i, soff, ssize) \in Readies(c)
    BY <2>1, <2>5 DEF Readies, Keeps
  <2> QED
    BY <1>3, <2>6, <2>7 DEF ResyncScn, InsertScn, v, soff, ssize
<1> QED
  BY <1>2, <1>3

\* One section after the other.
IsLoop(f, w, c) ==
  /\ f[0] = w
  /\ \A i \in 1..MaxScns : f[i] = Then(f[i - 1], ResyncScn(f[i - 1], i))
  /\ \A i \in 0..MaxScns : f[i] \in Readies(c)

LEMMA SectionsLoop ==
  ASSUME NEW c, NEW w \in Readies(c)
  PROVE  \E f : IsLoop(f, w, c) /\ ResyncSections(w) = f[MaxScns]
<1> DEFINE V == Readies(c)
           step(v, i) == Then(v, ResyncScn(v, i))
           F == [p \in V \X (1..MaxScns) |-> step(p[1], p[2])]
<1>1. ASSUME NEW v \in V, NEW i \in 1..MaxScns PROVE step(v, i) \in V
  <2>1. v \in Goods(c) /\ i \in Nat
    BY Sizes DEF Readies
  <2> QED
    BY <2>1, ResyncScnType, ThenType
<1>2. IsStep(F, MaxScns, V)
  <2> HIDE DEF step, V
  <2> QED
    BY <1>1 DEF IsStep
<1>3. PICK g : IsRun(g, MaxScns, V, w, F)
  <2> HIDE DEF F, V
  <2>1. w \in V
    BY DEF V
  <2> QED
    BY ONLY <1>2, <2>1, Sizes, Recursion
<1>4. g = [i \in 0..MaxScns |-> IF i = 0 THEN w ELSE Then(g[i - 1], ResyncScn(g[i - 1], i))]
  <2>1. ASSUME NEW i \in 1..MaxScns PROVE g[i] = step(g[i - 1], i)
    <3>1. <<g[i - 1], i>> \in V \X (1..MaxScns)
      <4> HIDE DEF V
      <4> QED
        BY <1>3, Sizes DEF IsRun
    <3> HIDE DEF step, V
    <3> QED
      BY <1>3, <3>1 DEF IsRun
  <2>2. g = [i \in 0..MaxScns |-> g[i]] /\ g[0] = w
    BY <1>3 DEF IsRun
  <2>3. \A i \in 0..MaxScns : i = 0 \/ i \in 1..MaxScns
    BY Sizes
  <2>4. \A i \in 0..MaxScns :
          g[i] = IF i = 0 THEN w ELSE Then(g[i - 1], ResyncScn(g[i - 1], i))
    BY <2>1, <2>2, <2>3
  <2> QED
    BY ONLY <2>2, <2>4
<1> DEFINE upto[i \in 0..MaxScns] ==
             IF i = 0 THEN w ELSE Then(upto[i - 1], ResyncScn(upto[i - 1], i))
<1>5. upto = [i \in 0..MaxScns |->
                IF i = 0 THEN w ELSE Then(upto[i - 1], ResyncScn(upto[i - 1], i))]
  <2>1. \E f : f = [i \in 0..MaxScns |->
                      IF i = 0 THEN w ELSE Then(f[i - 1], ResyncScn(f[i - 1], i))]
    BY <1>4
  <2> QED
    BY <2>1
<1>6. ResyncSections(w) = upto[MaxScns]
  BY DEF ResyncSections
<1> HIDE DEF upto, V, step
<1>7. upto[0] \in V
  BY <1>5, Sizes DEF V
<1>8. ASSUME NEW i \in 1..MaxScns, upto[i - 1] \in V PROVE upto[i] \in V
  <2>1. upto[i] = step(upto[i - 1], i)
    BY <1>5, Sizes DEF step
  <2> QED
    BY <1>1, <1>8, <2>1
<1>9. \A i \in 0..MaxScns : upto[i] \in V
  BY ONLY <1>7, <1>8, Sizes, LoopKeeps
<1>10. upto[0] = w /\ \A i \in 1..MaxScns : upto[i] = Then(upto[i - 1], ResyncScn(upto[i - 1], i))
  BY <1>5, Sizes
<1>11. IsLoop(upto, w, c)
  BY <1>9, <1>10 DEF IsLoop, V
<1> QED
  BY <1>6, <1>11

LEMMA ResyncSectionsType ==
  ASSUME NEW c, NEW w \in Readies(c)
  PROVE  ResyncSections(w) \in Readies(c)
<1>1. PICK f : IsLoop(f, w, c) /\ ResyncSections(w) = f[MaxScns]
  BY SectionsLoop
<1> QED
  BY <1>1, Sizes DEF IsLoop

\* Getting a header places nothing.
LEMMA HeadersPlaceNothing ==
  ASSUME NEW c, NEW w \in Goods(c)
  PROVE  /\ WithEhdr(w).rc = w.rc
         /\ WithPhdr(w).rc = w.rc /\ WithPhdr(w).e.layout = w.e.layout
         /\ WithPhdr(w).e.scns = w.e.scns
<1>1. w \in Works /\ w.e \in Descs
  BY WorkFields DEF Goods, Opens
<1>2. \A how : Fails(w, how).rc = w.rc /\ Fails(w, how).e = w.e
  BY <1>1 DEF Fails, Works
<1>3. \A d : /\ With(w, d).rc = w.rc /\ With(w, d).e = d
             /\ \A how : Fails(With(w, d), how).rc = w.rc /\ With(With(w, d), how).rc = w.rc
  BY <1>1 DEF Fails, With, Works
<1>4. ASSUME NEW d PROVE LoadExtended(With(w, d)).rc = w.rc
  <2> DEFINE v == With(w, d)
             a == Allocate(d, 0, Loaded(ShdrAt(d, d.ehdr.shoff)))
  <2>1. v.e = d
    BY <1>3
  <2>2. \/ LoadExtended(v) = Fails(v, "error")
        \/ LoadExtended(v) = Fails(With(v, a), "error")
        \/ \E b : LoadExtended(v) = With(v, b)
    <3> HIDE DEF v
    <3> QED
      BY <2>1 DEF LoadExtended
  <2>3. /\ Fails(v, "error").rc = w.rc /\ Fails(With(v, a), "error").rc = w.rc
        /\ \A b : With(v, b).rc = w.rc
    <3> HIDE DEF a
    <3> QED
      BY <1>1 DEF With, Fails, Works
  <2> HIDE DEF v, a
  <2> QED
    BY <2>2, <2>3 DEF v
<1>5. WithEhdr(w).rc = w.rc
  <2>1. CASE WithEhdr(w) \in {w, Fails(w, "error"), Fails(w, "fault"),
                             With(w, [w.e EXCEPT !.ehdr = NoEhdr])}
    BY <2>1, <1>2, <1>3
  <2>2. ASSUME NEW d, NEW r \in {Fails(With(w, d), "error"), LoadExtended(With(w, d))}
                               \cup {With(w, b) : b \in {[d EXCEPT !.nphdr = EhdrAt(w.e).phnum,
                                                                 !.nscn = EhdrAt(w.e).shnum]}},
               NEW b, WithEhdr(w) = With(r, b)
        PROVE  WithEhdr(w).rc = w.rc
    <3>1. r.rc = w.rc
      BY <1>3, <1>4
    <3>2. "rc" \in DOMAIN r
      BY <1>1 DEF Fails, With, LoadExtended, Works
    <3> QED
      BY <2>2, <3>1, <3>2 DEF With
  <2> QED
    BY <2>1, <2>2 DEF WithEhdr, Then
<1>6. \A b : [w.e EXCEPT !.phdr = b].layout = w.e.layout /\ [w.e EXCEPT !.phdr = b].scns = w.e.scns
  BY <1>1 DEF Descs
<1>7. ASSUME NEW b
      PROVE  /\ With(w, [w.e EXCEPT !.phdr = b]).rc = w.rc
             /\ With(w, [w.e EXCEPT !.phdr = b]).e.layout = w.e.layout
             /\ With(w, [w.e EXCEPT !.phdr = b]).e.scns = w.e.scns
  <2> DEFINE a == [w.e EXCEPT !.phdr = b]
  <2>1. a.layout = w.e.layout /\ a.scns = w.e.scns
    BY <1>6
  <2> HIDE DEF a
  <2>2. /\ With(w, a).rc = w.rc /\ With(w, a).e.layout = w.e.layout
        /\ With(w, a).e.scns = w.e.scns
    BY <1>3, <2>1
  <2> QED
    BY <2>2 DEF a
<1>8. WithPhdr(w).rc = w.rc /\ WithPhdr(w).e.layout = w.e.layout /\ WithPhdr(w).e.scns = w.e.scns
  BY <1>2, <1>7 DEF WithPhdr
<1> QED
  BY <1>5, <1>8

\* The tables go behind all that is placed, where the library does the layout, and
\* are aligned.
LEMMA TableOffset ==
  ASSUME NEW rc \in Nat
  PROVE  /\ RoundUp(rc, HdrAlign) \in Nat /\ RoundUp(rc, HdrAlign) >= rc
         /\ RoundUp(rc, HdrAlign) % HdrAlign = 0
<1>1. HdrAlign \in Nat \ {0}
  BY Sizes
<1>2. RoundUp(rc, HdrAlign) \in Nat /\ RoundUp(rc, HdrAlign) >= rc
  BY <1>1, RoundUpProperties
<1>3. PICK m \in Int : RoundUp(rc, HdrAlign) = m * HdrAlign
  BY <1>1, RoundUpProperties
<1>4. (m * HdrAlign) % HdrAlign = 0
  BY <1>1
<1> QED
  BY <1>2, <1>3, <1>4

LEMMA ResyncPhdrType ==
  ASSUME NEW c, NEW w \in Readies(c)
  PROVE  ResyncPhdr(w) \in Readies(c)
<1>1. w \in Goods(c) /\ w.e \in Opens /\ w.rc \in Nat
  BY WorkFields DEF Readies
<1> DEFINE d == w.e
           phoff == IF d.layout THEN d.ehdr.phoff ELSE RoundUp(w.rc, HdrAlign)
           size == d.nphdr * PhdrSize
           p == WithPhdr(w)
           q == Fails(p, "ok")
<1>2. SUFFICES ASSUME w.how = "ok" PROVE ResyncPhdr(w) \in Readies(c)
  BY <1>1, ThenType DEF ResyncPhdr
<1>3. /\ p \in Readies(c) /\ p \in Goods(c) /\ p.e.ehdr = d.ehdr /\ d.ehdr \in Ehdrs
      /\ p.rc = w.rc /\ p.e.layout = d.layout
  BY <1>1, <1>2, WithPhdrType, HeadersPlaceNothing DEF Readies
<1>4. phoff \in Nat /\ size \in Nat /\ (~d.layout => phoff >= w.rc)
  <2>1. d.nphdr \in Nat /\ d.ehdr.phoff \in Nat
    BY <1>1, <1>3 DEF Opens, Descs, Ehdrs
  <2> QED
    BY <1>1, <2>1, TableOffset, Sizes
<1>5. CASE d.nphdr = 0
  BY <1>2, <1>5 DEF ResyncPhdr, Then
<1>6. CASE d.nphdr # 0 /\ d.layout /\ (w.rc > phoff \/ phoff % HdrAlign # 0)
  <2>1. ResyncPhdr(w) = Fails(w, "layout")
    BY <1>2, <1>6 DEF ResyncPhdr, Then
  <2> QED
    BY <1>1, <1>6, <2>1, FailsType
<1>7. CASE d.nphdr # 0 /\ ~(d.layout /\ (w.rc > phoff \/ phoff % HdrAlign # 0))
  <2>1. CASE p.how = "fault"
    <3>1. ResyncPhdr(w) = p
      BY <1>2, <1>7, <2>1 DEF ResyncPhdr, Then
    <3> QED
      BY <1>3, <3>1
  <2>2. CASE p.how # "fault"
    <3>1. ResyncPhdr(w) = Insert(q, "phdr", 0, phoff, size)
      BY <1>2, <1>7, <2>2 DEF ResyncPhdr, Then, Fails
    <3> HIDE DEF p
    <3>2. q \in Goods(c) /\ q.e = p.e
      BY <1>3, FailsType
    <3>3. q.rc = w.rc
      <4>1. p \in Works
        BY <1>3 DEF Goods
      <4> QED
        BY <1>3, <4>1 DEF Works, Fails
    <3> HIDE DEF q, phoff, size, d
    <3>4. q.e.layout = d.layout
      BY <1>3, <3>2
    <3>5. Insert(q, "phdr", 0, phoff, size) \in Goods(c)
          /\ Insert(q, "phdr", 0, phoff, size).e = q.e
      BY <1>4, <3>2, <3>3, <3>4, InsertType
    <3> QED
      BY <1>3, <3>1, <3>2, <3>5 DEF Readies
  <2> QED
    BY <2>1, <2>2
<1> QED
  BY <1>5, <1>6, <1>7

LEMMA ResyncShdrType ==
  ASSUME NEW c, NEW w \in Readies(c)
  PROVE  ResyncShdr(w) \in Readies(c)
<1>1. w \in Goods(c) /\ w.e \in Opens /\ w.rc \in Nat
  BY WorkFields DEF Readies
<1> DEFINE d == w.e
           shoff == IF d.layout THEN d.ehdr.shoff ELSE RoundUp(w.rc, HdrAlign)
           size == d.nscn * ShdrSize
<1>2. SUFFICES ASSUME w.how = "ok" PROVE ResyncShdr(w) \in Readies(c)
  BY <1>1, ThenType DEF ResyncShdr
<1>3. d.ehdr \in Ehdrs
  BY <1>2 DEF Readies
<1>4. /\ shoff \in Nat /\ size \in Nat
      /\ ~d.layout => shoff >= w.rc /\ shoff % HdrAlign = 0
  <2>1. d.nscn \in Nat /\ d.ehdr.shoff \in Nat
    BY <1>1, <1>3 DEF Opens, Descs, Ehdrs
  <2> QED
    BY <1>1, <2>1, TableOffset, Sizes
<1>5. CASE d.nscn = 0
  BY <1>2, <1>5 DEF ResyncShdr, Then
<1>6. CASE d.nscn # 0 /\ shoff % HdrAlign # 0
  <2>1. ResyncShdr(w) = Fails(w, "layout") /\ d.layout
    <3>1. d.layout
      BY <1>4, <1>6
    <3> QED
      BY <1>2, <1>6, <3>1 DEF ResyncShdr, Then
  <2> QED
    BY <1>1, <2>1, FailsType
<1>7. CASE d.nscn # 0 /\ shoff % HdrAlign = 0
  <2>1. ResyncShdr(w) = Insert(w, "shdr", 0, shoff, size)
    BY <1>2, <1>7 DEF ResyncShdr, Then
  <2> HIDE DEF shoff, size
  <2>2. Insert(w, "shdr", 0, shoff, size) \in Goods(c) /\ Insert(w, "shdr", 0, shoff, size).e = w.e
    BY <1>1, <1>4, InsertType
  <2> QED
    BY <1>3, <2>1, <2>2 DEF Readies
<1> QED
  BY <1>5, <1>6, <1>7

\* Where the last table of a kind goes.
LEMMA StartType ==
  ASSUME NEW ext \in Seq(Extents), NEW kind
  PROVE  MaxOf({0} \cup {ext[k].start : k \in {n \in 1..Len(ext) : ext[n].kind = kind}}) \in Nat
<1> DEFINE n == Len(ext)
           f == [k \in 1..n |-> IF ext[k].kind = kind THEN ext[k].start ELSE 0]
           at == {ext[k].start : k \in {m \in 1..Len(ext) : ext[m].kind = kind}}
<1>1. n \in Nat /\ \A k \in 1..n : ext[k] \in Extents
  OBVIOUS
<1>2. \A k \in 1..n : f[k] \in Nat
  BY <1>1 DEF Extents
<1>3. {0} \cup at = {0} \cup {f[k] : k \in 1..n}
  OBVIOUS
<1> HIDE DEF n, f, at
<1>4. MaxOf({0} \cup at) \in Nat
  BY <1>1, <1>2, <1>3, Greatest
<1> QED
  BY <1>4 DEF at

LEMMA SetCountsType ==
  ASSUME NEW c, NEW w \in Readies(c)
  PROVE  SetCounts(w) \in Readies(c)
<1>1. w \in Goods(c) /\ w.e \in Opens /\ w.ext \in Seq(Extents)
  BY WorkFields DEF Readies
<1> DEFINE d == w.e
           xph == d.nphdr >= PnXnum
           xsh == d.nscn >= LoReserve
           s0 == IF 0 \in DOMAIN d.scns THEN d.scns[0] ELSE NoScn
           at(kind) == {w.ext[k].start : k \in {n \in 1..Len(w.ext) : w.ext[n].kind = kind}}
           start(kind) == MaxOf({0} \cup at(kind))
           h == [phnum |-> IF xph THEN PnXnum ELSE d.nphdr,
                 shnum |-> IF xsh THEN 0 ELSE d.nscn,
                 phoff |-> IF d.layout THEN d.ehdr.phoff ELSE start("phdr"),
                 shoff |-> IF d.layout THEN d.ehdr.shoff ELSE start("shdr")]
           s == [s0 EXCEPT !.info = IF xph THEN d.nphdr ELSE @,
                           !.size = IF xsh THEN d.nscn ELSE @]
           t == IF ~xph /\ ~xsh THEN d.scns ELSE Allocate(d, 0, s).scns
           b == [d EXCEPT !.ehdr = h, !.scns = t]
<1>2. SetCounts(w) = Then(w, With(w, b))
  BY DEF SetCounts
<1>3. SUFFICES ASSUME w.how = "ok" PROVE With(w, b) \in Readies(c)
  BY <1>1, <1>2, ThenType
<1>4. /\ d.ehdr.phoff \in Nat /\ d.ehdr.shoff \in Nat /\ d.nphdr \in Nat /\ d.nscn \in Nat
      /\ d.scns \in Tables
  BY <1>1, <1>3 DEF Readies, Ehdrs, Opens, Descs
<1>5. h \in Ehdrs
  <2>1. start("phdr") \in Nat /\ start("shdr") \in Nat
    BY <1>1, StartType
  <2> HIDE DEF start, d
  <2> QED
    BY <1>4, <2>1, Sizes DEF Ehdrs
<1> HIDE DEF h
<1>6. s \in Scns
  <2>1. s0 \in Scns
    BY <1>1, ScnOf, LoadedType
  <2> HIDE DEF s0, d
  <2> QED
    BY <1>4, <2>1 DEF Scns
<1>7. t \in Tables /\ DOMAIN d.scns \subseteq DOMAIN t
  <2> DEFINE a == Allocate(d, 0, s)
  <2>1. a.scns \in Tables /\ DOMAIN a.scns = DOMAIN d.scns \cup {0}
    <3>1. d \in Opens
      BY <1>1
    <3> HIDE DEF s, d
    <3> QED
      BY <3>1, <1>6, AllocateType
  <2> HIDE DEF a
  <2>2. t = IF ~xph /\ ~xsh THEN d.scns ELSE a.scns
    BY DEF a
  <2> HIDE DEF t
  <2> QED
    BY <1>4, <2>1, <2>2
<1> HIDE DEF t
<1>8. /\ b \in Opens /\ b.layout = d.layout /\ b.cmd = d.cmd /\ b.ehdr = h /\ b.scns = t
  <2>1. d \in Descs /\ d \in Opens
    BY <1>1 DEF Opens
  <2> HIDE DEF d
  <2>2. /\ b \in Descs /\ b.layout = d.layout /\ b.cmd = d.cmd /\ b.ehdr = h /\ b.scns = t
        /\ b.raw = d.raw /\ b.mapped = d.mapped
    BY <1>5, <1>7, <2>1 DEF Descs
  <2> HIDE DEF b
  <2> QED
    BY <2>1, <2>2, SameFile
<1> HIDE DEF b
<1>9. With(w, b) \in Goods(c) /\ With(w, b).e = b
  BY <1>1, <1>7, <1>8, WithType
<1> QED
  BY <1>5, <1>8, <1>9 DEF Readies

\* What elf_update(ELF_C_NULL) gives.
LEMMA ResyncType ==
  ASSUME NEW d \in Opens
  PROVE  Resync(d) \in Readies(d.cmd)
<1> DEFINE c == d.cmd
           w == WithEhdr(Work(d))
           v == Insert(w, "ehdr", 0, 0, EhdrSize)
<1>1. w \in Readies(c) /\ w \in Goods(c) /\ w.rc = 0
  <2>1. Work(d) \in Goods(c) /\ Work(d).rc = 0
    BY WorkType DEF Work
  <2> QED
    BY <2>1, WithEhdrType, HeadersPlaceNothing DEF Readies
<1>2. v \in Readies(c)
  <2> HIDE DEF w
  <2>1. v \in Goods(c) /\ v.e = w.e
    BY <1>1, Sizes, InsertType
  <2>2. w.how # "ok" => v.how # "ok"
    BY DEF Insert, Then
  <2> HIDE DEF v
  <2> QED
    BY <1>1, <2>1, <2>2 DEF Readies
<1>3. ResyncPhdr(v) \in Readies(c)
  <2> HIDE DEF v
  <2> QED
    BY <1>2, ResyncPhdrType
<1>4. ResyncSections(WithShdrs(ResyncPhdr(v))) \in Readies(c)
  <2> HIDE DEF v
  <2> QED
    BY <1>3, OpenedType, ResyncSectionsType
<1>5. SetCounts(ResyncShdr(ResyncSections(WithShdrs(ResyncPhdr(v))))) \in Readies(c)
  <2> HIDE DEF v
  <2> QED
    BY <1>4, ResyncShdrType, SetCountsType
<1> QED
  BY <1>5 DEF Resync
-----------------------------------------------------------------------------
(* The image *)

\* What writing an extent may give.
Images == [how : {"ok"}, img : Seq(Unit), end : Nat]
Wrote(r) == r \in Images \/ r.how \in {"error", "fault", "abort"}

LEMMA WriteRawType ==
  ASSUME NEW c, NEW w \in Readies(c), NEW img \in Seq(Unit), NEW s \in Scns
  PROVE  Wrote(WriteRaw(w, img, s))
<1> DEFINE d == w.e
<1>1. d \in Opens
  BY WorkFields DEF Readies
<1>2. CASE \/ d.raw \in {Gone, None} \/ s.off + s.size > Rawsize(d)
           \/ s.rawoff + s.size > Len(d.raw)
  BY <1>2 DEF WriteRaw, Wrote
<1>3. CASE /\ d.raw \notin {Gone, None} /\ ~(s.off + s.size > Rawsize(d))
           /\ ~(s.rawoff + s.size > Len(d.raw))
  <2> DEFINE units == Bytes(d.raw, s.rawoff, s.size)
             to == Put(img, s.soff, units)
  <2>1. /\ d.raw \in Seq(Unit) /\ s.rawoff \in Nat /\ s.size \in Nat /\ s.soff \in Nat
    BY <1>1, <1>3 DEF Opens, Descs, Scns
  <2>2. units \in Seq(Unit)
    <3>1. s.rawoff + s.size <= Len(d.raw)
      BY <1>3, <2>1
    <3> HIDE DEF d
    <3> QED
      BY <2>1, <3>1, BytesType
  <2>3. to \in Seq(Unit)
    <3> HIDE DEF units
    <3>1. s.soff \in Int
      BY <2>1
    <3> QED
      BY <2>2, <3>1, PutType
  <2>4. WriteRaw(w, img, s) = [how |-> "ok", end |-> s.soff + s.size, img |-> to]
    BY <1>3 DEF WriteRaw
  <2> HIDE DEF to
  <2> QED
    BY <2>1, <2>3, <2>4 DEF Wrote, Images
<1> QED
  BY <1>2, <1>3

\* One buffer after the other, padded.
BufferAt(s, k) == s.soff + s.data[k].off
BufferEnd(s, k) == IF k = 0 THEN s.soff ELSE BufferAt(s, k) + Len(s.data[k].units)
DataLoop(f, img, s) ==
  /\ f[0] = img /\ \A k \in 0..Len(s.data) : f[k] \in Seq(Unit)
  /\ \A k \in 1..Len(s.data) :
       f[k] = Put(Pad(f[k - 1], BufferEnd(s, k - 1), BufferAt(s, k)),
                  BufferAt(s, k), s.data[k].units)

LEMMA WriteDataForm ==
  ASSUME NEW img \in Seq(Unit), NEW s \in Scns
  PROVE  /\ \A k \in 0..Len(s.data) : BufferEnd(s, k) \in Nat
         /\ \A k \in 1..Len(s.data) : BufferAt(s, k) \in Nat
         /\ \E f : /\ DataLoop(f, img, s)
                  /\ WriteData(img, s) =
                       IF \E k \in 1..Len(s.data) : s.data[k].units = <<>> THEN [how |-> "abort"]
                       ELSE [how |-> "ok", end |-> BufferEnd(s, Len(s.data)), img |-> f[Len(s.data)]]
<1> DEFINE n == Len(s.data)
           at(k) == s.soff + s.data[k].off
           end(k) == IF k = 0 THEN s.soff ELSE at(k) + Len(s.data[k].units)
           V == Seq(Unit)
           step(v, k) == Put(Pad(v, end(k - 1), at(k)), at(k), s.data[k].units)
           F == [p \in V \X (1..n) |-> step(p[1], p[2])]
<1>1. /\ n \in Nat /\ s.soff \in Nat
      /\ \A k \in 1..n : s.data[k].off \in Nat /\ s.data[k].units \in Seq(Unit)
  <2>1. s.data \in DataLists /\ s.soff \in Nat
    BY DEF Scns
  <2>2. n \in Nat /\ \A k \in 1..n : s.data[k] \in Datum
    BY <2>1 DEF DataLists
  <2> QED
    BY <2>1, <2>2 DEF Datum
<1>2. \A k \in 1..n : at(k) \in Nat
  BY <1>1
<1>3. \A k \in 0..n : end(k) \in Nat
  BY <1>1, <1>2
<1> HIDE DEF n, at, end
<1>4. ASSUME NEW v \in V, NEW k \in 1..n PROVE step(v, k) \in V
  <2>1. at(k) \in Int /\ end(k - 1) \in Int
    BY <1>1, <1>2, <1>3
  <2>2. Pad(v, end(k - 1), at(k)) \in Seq(Unit)
    BY <2>1, PadType
  <2> QED
    BY <1>1, <2>1, <2>2, PutType
<1>5. IsStep(F, n, V)
  <2> HIDE DEF step, V
  <2> QED
    BY <1>4 DEF IsStep
<1>6. PICK g : IsRun(g, n, V, img, F)
  <2> HIDE DEF F, V
  <2>1. img \in V
    BY DEF V
  <2> QED
    BY ONLY <1>1, <1>5, <2>1, Recursion
<1>7. g = [k \in 0..n |-> IF k = 0 THEN img
                          ELSE Put(Pad(g[k - 1], end(k - 1), at(k)), at(k), s.data[k].units)]
  <2>1. ASSUME NEW k \in 1..n PROVE g[k] = step(g[k - 1], k)
    <3>1. <<g[k - 1], k>> \in V \X (1..n)
      <4> HIDE DEF V
      <4> QED
        BY <1>1, <1>6 DEF IsRun
    <3> HIDE DEF step, V
    <3> QED
      BY <1>6, <3>1 DEF IsRun
  <2>2. g = [k \in 0..n |-> g[k]] /\ g[0] = img
    BY <1>6 DEF IsRun
  <2>3. \A k \in 0..n : k = 0 \/ k \in 1..n
    BY <1>1
  <2>4. \A k \in 0..n :
          g[k] = IF k = 0 THEN img
                 ELSE Put(Pad(g[k - 1], end(k - 1), at(k)), at(k), s.data[k].units)
    BY <2>1, <2>2, <2>3
  <2> QED
    BY ONLY <2>2, <2>4
<1> DEFINE upto[k \in 0..n] ==
             IF k = 0 THEN img
             ELSE Put(Pad(upto[k - 1], end(k - 1), at(k)), at(k), s.data[k].units)
<1>8. upto = [k \in 0..n |-> IF k = 0 THEN img
                ELSE Put(Pad(upto[k - 1], end(k - 1), at(k)), at(k), s.data[k].units)]
  <2>1. \E f : f = [k \in 0..n |-> IF k = 0 THEN img
                      ELSE Put(Pad(f[k - 1], end(k - 1), at(k)), at(k), s.data[k].units)]
    BY <1>7
  <2> QED
    BY <2>1
<1>9. WriteData(img, s) = IF \E k \in 1..n : s.data[k].units = <<>> THEN [how |-> "abort"]
                          ELSE [how |-> "ok", end |-> end(n), img |-> upto[n]]
  BY DEF WriteData, n, at, end
<1> HIDE DEF upto, V, step
<1>10. upto[0] \in V
  BY <1>1, <1>8 DEF V
<1>11. ASSUME NEW k \in 1..n, upto[k - 1] \in V PROVE upto[k] \in V
  <2>1. upto[k] = step(upto[k - 1], k)
    BY <1>1, <1>8 DEF step
  <2> QED
    BY <1>4, <1>11, <2>1
<1>12. \A k \in 0..n : upto[k] \in V
  BY ONLY <1>1, <1>10, <1>11, LoopKeeps
<1>13. ASSUME NEW k \in 1..n
       PROVE  upto[k] = Put(Pad(upto[k - 1], end(k - 1), at(k)), at(k), s.data[k].units)
  BY <1>1, <1>8
<1>14. upto[0] = img
  BY <1>1, <1>8
<1>15. (\A k : at(k) = BufferAt(s, k)) /\ (\A k : end(k) = BufferEnd(s, k))
  BY DEF at, end, BufferAt, BufferEnd
<1>16. DataLoop(upto, img, s)
  BY <1>12, <1>13, <1>14, <1>15 DEF DataLoop, V, n
<1> QED
  BY <1>2, <1>3, <1>9, <1>15, <1>16 DEF n

LEMMA WriteDataType ==
  ASSUME NEW img \in Seq(Unit), NEW s \in Scns
  PROVE  Wrote(WriteData(img, s))
<1>1. PICK f : /\ DataLoop(f, img, s)
               /\ WriteData(img, s) =
                    IF \E k \in 1..Len(s.data) : s.data[k].units = <<>> THEN [how |-> "abort"]
                    ELSE [how |-> "ok", end |-> BufferEnd(s, Len(s.data)), img |-> f[Len(s.data)]]
  BY WriteDataForm
<1>2. Len(s.data) \in 0..Len(s.data)
  BY DEF Scns, DataLists
<1>3. BufferEnd(s, Len(s.data)) \in Nat /\ f[Len(s.data)] \in Seq(Unit)
  BY <1>1, <1>2, WriteDataForm DEF DataLoop
<1> QED
  BY <1>1, <1>3 DEF Wrote, Images

\* The section headers, one after the other.
ShdrsLoop(f, d, img, x) ==
  /\ f[0] = img /\ \A i \in 0..MaxScns + 1 : f[i] \in Seq(Unit)
  /\ \A i \in 1..MaxScns + 1 :
       f[i] = IF i - 1 \notin DOMAIN d.scns THEN f[i - 1]
              ELSE Put(f[i - 1], x.start + (i - 1) * ShdrSize,
                       Header("shdr", Shdr(d.scns[i - 1]), ShdrSize))

LEMMA WriteShdrsForm ==
  ASSUME NEW d \in Opens, NEW img \in Seq(Unit), NEW x \in Extents
  PROVE  /\ \A i \in DOMAIN d.scns : Header("shdr", Shdr(d.scns[i]), ShdrSize) \in Seq(Unit)
         /\ \E f : ShdrsLoop(f, d, img, x) /\ WriteShdrs(d, img, x) = f[MaxScns + 1]
<1> DEFINE n == MaxScns + 1
           V == Seq(Unit)
           head(i) == Header("shdr", Shdr(d.scns[i - 1]), ShdrSize)
           step(v, i) == IF i - 1 \notin DOMAIN d.scns THEN v
                         ELSE Put(v, x.start + (i - 1) * ShdrSize, head(i))
           F == [p \in V \X (1..n) |-> step(p[1], p[2])]
<1>1. n \in Nat /\ \A i \in 0..n : i = 0 \/ i \in 1..n
  BY Sizes
<1> HIDE DEF n
<1>11. ASSUME NEW i \in DOMAIN d.scns
       PROVE  Header("shdr", Shdr(d.scns[i]), ShdrSize) \in Seq(Unit)
  <2> DEFINE s == d.scns[i]
  <2>2. s \in Scns
    BY ScnOf
  <2>3. Shdr(s) \in Shdrs
    <3> HIDE DEF s
    <3> QED
      BY <2>2 DEF Shdr, Shdrs, Scns, Kinds
  <2>4. <<"shdr", Shdr(s)>> \in Unit
    <3> HIDE DEF s
    <3> QED
      BY <2>3 DEF Unit
  <2> QED
    BY <2>4, Sizes, HeaderType
<1>2. ASSUME NEW v \in V, NEW i \in 1..n PROVE step(v, i) \in V
  <2>1. SUFFICES ASSUME i - 1 \in DOMAIN d.scns
                 PROVE  Put(v, x.start + (i - 1) * ShdrSize, head(i)) \in V
    OBVIOUS
  <2>5. head(i) \in Seq(Unit)
    BY <1>11, <2>1
  <2>6. x.start + (i - 1) * ShdrSize \in Int
    <3>1. x.start \in Nat /\ i - 1 \in Int
      BY <1>1 DEF Extents
    <3> QED
      BY <3>1, Sizes
  <2> HIDE DEF head
  <2> QED
    BY <2>5, <2>6, PutType
<1>3. IsStep(F, n, V)
  <2> HIDE DEF step, V
  <2> QED
    BY <1>2 DEF IsStep
<1>4. PICK g : IsRun(g, n, V, img, F)
  <2> HIDE DEF F, V
  <2>1. img \in V
    BY DEF V
  <2> QED
    BY ONLY <1>1, <1>3, <2>1, Recursion
<1>5. g = [i \in 0..n |-> IF i = 0 THEN img ELSE step(g[i - 1], i)]
  <2>1. ASSUME NEW i \in 1..n PROVE g[i] = step(g[i - 1], i)
    <3>1. <<g[i - 1], i>> \in V \X (1..n)
      <4> HIDE DEF V
      <4> QED
        BY <1>1, <1>4 DEF IsRun
    <3> HIDE DEF step, V
    <3> QED
      BY <1>4, <3>1 DEF IsRun
  <2>2. g = [i \in 0..n |-> g[i]] /\ g[0] = img
    BY <1>4 DEF IsRun
  <2>3. \A i \in 0..n : g[i] = IF i = 0 THEN img ELSE step(g[i - 1], i)
    <3> HIDE DEF step
    <3> QED
      BY <1>1, <2>1, <2>2
  <2> HIDE DEF step
  <2> QED
    BY ONLY <2>2, <2>3
<1> DEFINE upto[i \in 0..n] ==
        IF i = 0 THEN img
        ELSE IF i - 1 \notin DOMAIN d.scns THEN upto[i - 1]
        ELSE Put(upto[i - 1], x.start + (i - 1) * ShdrSize, head(i))
<1>6. upto = [i \in 0..n |-> IF i = 0 THEN img ELSE step(upto[i - 1], i)]
  <2>1. \E f : f = [i \in 0..n |-> IF i = 0 THEN img ELSE step(f[i - 1], i)]
    BY <1>5
  <2> QED
    BY <2>1
<1>7. WriteShdrs(d, img, x) = upto[n]
  BY DEF WriteShdrs, n
<1> HIDE DEF upto, V, step
<1>8. upto[0] \in V
  BY <1>1, <1>6 DEF V
<1>9. ASSUME NEW i \in 1..n, upto[i - 1] \in V PROVE upto[i] \in V
  <2>1. upto[i] = step(upto[i - 1], i)
    BY <1>1, <1>6
  <2> QED
    BY <1>2, <1>9, <2>1
<1>10. \A i \in 0..n : upto[i] \in V
  BY ONLY <1>1, <1>8, <1>9, LoopKeeps
<1>12. \A i \in 1..n : upto[i] = step(upto[i - 1], i)
  BY <1>1, <1>6
<1>13. upto[0] = img
  BY <1>1, <1>6
<1>14. ShdrsLoop(upto, d, img, x)
  BY <1>10, <1>12, <1>13 DEF ShdrsLoop, V, n, step
<1> QED
  BY <1>7, <1>11, <1>14 DEF n

LEMMA WriteShdrsType ==
  ASSUME NEW d \in Opens, NEW img \in Seq(Unit), NEW x \in Extents
  PROVE  WriteShdrs(d, img, x) \in Seq(Unit)
<1>1. PICK f : ShdrsLoop(f, d, img, x) /\ WriteShdrs(d, img, x) = f[MaxScns + 1]
  BY WriteShdrsForm
<1> QED
  BY <1>1, Sizes DEF ShdrsLoop

LEMMA WriteExtentType ==
  ASSUME NEW c, NEW w \in Readies(c), w.how = "ok", NEW img \in Seq(Unit),
         NEW x \in Extents, x.kind = "scn" => x.ndx \in DOMAIN w.e.scns
  PROVE  Wrote(WriteExtent(w, img, x))
<1>1. w.e \in Opens /\ w.e.ehdr \in Ehdrs
  BY WorkFields DEF Readies
<1>2. /\ x.kind \in {"ehdr", "phdr", "shdr", "scn"} /\ x.start \in Nat /\ x.size \in Nat
      /\ Ends(x) \in Nat
  BY DEF Extents, Ends
<1>3. CASE x.kind = "ehdr"
  <2> DEFINE to == Put(img, 0, Header("ehdr", w.e.ehdr, EhdrSize))
  <2>1. <<"ehdr", w.e.ehdr>> \in Unit
    BY <1>1 DEF Unit
  <2>2. Header("ehdr", w.e.ehdr, EhdrSize) \in Seq(Unit)
    BY <2>1, Sizes, HeaderType
  <2>3. to \in Seq(Unit)
    BY <2>2, PutType
  <2>4. WriteExtent(w, img, x) = [how |-> "ok", end |-> EhdrSize, img |-> to]
    BY <1>3 DEF WriteExtent
  <2> HIDE DEF to
  <2> QED
    BY <2>3, <2>4, Sizes DEF Wrote, Images
<1>4. CASE x.kind = "phdr"
  <2> DEFINE p == WithPhdr(w)
             to == Put(img, x.start, p.e.phdr)
  <2>1. p.how \in {"ok", "error", "fault"} /\ (p.how = "ok" => p.e.phdr \in Seq(Unit))
    BY WithPhdrType
  <2>2. WriteExtent(w, img, x) = IF p.how # "ok" THEN [how |-> p.how]
                                 ELSE [how |-> "ok", end |-> Ends(x), img |-> to]
    BY <1>4 DEF WriteExtent
  <2>3. p.how = "ok" => to \in Seq(Unit)
    <3> HIDE DEF p
    <3>1. x.start \in Int
      BY <1>2
    <3> QED
      BY <2>1, <3>1, PutType
  <2> HIDE DEF to, p
  <2> QED
    BY <1>2, <2>1, <2>2, <2>3 DEF Wrote, Images
<1>5. CASE x.kind = "shdr"
  <2>1. WriteExtent(w, img, x) = [how |-> "ok", end |-> Ends(x), img |-> WriteShdrs(w.e, img, x)]
    BY <1>5 DEF WriteExtent
  <2>2. WriteShdrs(w.e, img, x) \in Seq(Unit)
    BY <1>1, WriteShdrsType
  <2> QED
    BY <1>2, <2>1, <2>2 DEF Wrote, Images
<1>6. CASE x.kind = "scn"
  <2> DEFINE s == w.e.scns[x.ndx]
  <2>1. s \in Scns
    BY <1>1, <1>6, ScnOf
  <2>2. WriteExtent(w, img, x) = IF s.data = <<>> THEN WriteRaw(w, img, s) ELSE WriteData(img, s)
    BY <1>6 DEF WriteExtent
  <2> HIDE DEF s
  <2> QED
    BY <2>1, <2>2, WriteRawType, WriteDataType
<1> QED
  BY <1>2, <1>3, <1>4, <1>5, <1>6

\* One extent after the other.
Blank(n) == [k \in 1..n |-> Junk]
WroteAfter(p, x, r) ==
  IF p.how # "ok" THEN p
  ELSE IF r.how # "ok" THEN [p EXCEPT !.how = r.how]
  ELSE IF r.end # Ends(x) THEN [p EXCEPT !.how = "abort"] ELSE r
ImageStates == [how : {"ok", "error", "fault", "abort"}, img : Seq(Unit), end : Nat]
ImageLoop(f, w) ==
  /\ f[0] = [how |-> "ok", img |-> Blank(w.rc), end |-> 0]
  /\ \A k \in 0..Len(w.ext) : f[k] \in ImageStates
  /\ \A k \in 1..Len(w.ext) :
       f[k] = WroteAfter(f[k - 1], w.ext[k],
                WriteExtent(w, Pad(f[k - 1].img, f[k - 1].end, w.ext[k].start), w.ext[k]))

LEMMA ImageForm ==
  ASSUME NEW c, NEW w \in Readies(c), w.how = "ok"
  PROVE  \E f : ImageLoop(f, w) /\ Image(w) = f[Len(w.ext)]
<1> DEFINE n == Len(w.ext)
           blank == [k \in 1..w.rc |-> Junk]
           start == [how |-> "ok", img |-> blank, end |-> 0]
           V == [how : {"ok", "error", "fault", "abort"}, img : Seq(Unit), end : Nat]
           wrote(p, x) == WriteExtent(w, Pad(p.img, p.end, x.start), x)
           after(p, x, r) == IF p.how # "ok" THEN p
                             ELSE IF r.how # "ok" THEN [p EXCEPT !.how = r.how]
                             ELSE IF r.end # Ends(x) THEN [p EXCEPT !.how = "abort"] ELSE r
           step(p, k) == after(p, w.ext[k], wrote(p, w.ext[k]))
           F == [p \in V \X (1..n) |-> step(p[1], p[2])]
<1>1. /\ n \in Nat /\ w.rc \in Nat
      /\ \A k \in 0..n : k = 0 \/ k \in 1..n
      /\ \A k \in 1..n : w.ext[k] \in Extents
  BY WorkFields DEF Readies
<1>2. \A k \in 1..n : w.ext[k].kind = "scn" => w.ext[k].ndx \in DOMAIN w.e.scns
  BY DEF Readies, Goods
<1>3. start \in V
  <2>1. Junk \in Unit
    BY DEF Unit
  <2>2. blank \in Seq(Unit)
    BY <1>1, <2>1
  <2> HIDE DEF blank
  <2> QED
    BY <2>2
<1> HIDE DEF n, start
<1>4. ASSUME NEW p \in V, NEW k \in 1..n PROVE step(p, k) \in V
  <2> DEFINE x == w.ext[k]
             r == wrote(p, x)
  <2>1. x \in Extents /\ (x.kind = "scn" => x.ndx \in DOMAIN w.e.scns)
    BY <1>1, <1>2
  <2> HIDE DEF x
  <2>2. Pad(p.img, p.end, x.start) \in Seq(Unit)
    <3>1. p.img \in Seq(Unit) /\ p.end \in Int /\ x.start \in Int
      BY <2>1 DEF Extents
    <3> QED
      BY <3>1, PadType
  <2>3. Wrote(r)
    <3> DEFINE img == Pad(p.img, p.end, x.start)
    <3>1. img \in Seq(Unit)
      BY <2>2
    <3> HIDE DEF img
    <3>2. Wrote(WriteExtent(w, img, x))
      BY <2>1, <3>1, WriteExtentType
    <3> QED
      BY <3>2 DEF img
  <2> HIDE DEF r
  <2>4. after(p, x, r) \in V
    BY <2>3 DEF Wrote, Images
  <2> QED
    BY <2>4 DEF x, r
<1>5. IsStep(F, n, V)
  <2> HIDE DEF step, V
  <2> QED
    BY <1>4 DEF IsStep
<1>6. PICK g : IsRun(g, n, V, start, F)
  <2> HIDE DEF F, V
  <2>1. n \in Nat
    BY <1>1
  <2> QED
    BY ONLY <1>3, <1>5, <2>1, Recursion
<1>7. g = [k \in 0..n |-> IF k = 0 THEN start ELSE step(g[k - 1], k)]
  <2>1. ASSUME NEW k \in 1..n PROVE g[k] = step(g[k - 1], k)
    <3>1. k - 1 \in 0..n
      BY <1>1
    <3> HIDE DEF step, V
    <3>2. <<g[k - 1], k>> \in V \X (1..n)
      BY <1>6, <3>1 DEF IsRun
    <3> QED
      BY <1>6, <3>2 DEF IsRun
  <2>2. g = [k \in 0..n |-> g[k]] /\ g[0] = start
    BY <1>6 DEF IsRun
  <2>3. \A k \in 0..n : g[k] = IF k = 0 THEN start ELSE step(g[k - 1], k)
    <3> HIDE DEF step
    <3> QED
      BY <1>1, <2>1, <2>2
  <2> HIDE DEF step
  <2> QED
    BY ONLY <2>2, <2>3
<1> DEFINE upto[k \in 0..n] ==
        IF k = 0 THEN [how |-> "ok", img |-> blank, end |-> 0]
        ELSE LET p == upto[k - 1]
                 x == w.ext[k]
                 r == WriteExtent(w, Pad(p.img, p.end, x.start), x)
             IN IF p.how # "ok" THEN p
                ELSE IF r.how # "ok" THEN [p EXCEPT !.how = r.how]
                ELSE IF r.end # Ends(x) THEN [p EXCEPT !.how = "abort"] ELSE r
<1>8. upto = [k \in 0..n |-> IF k = 0 THEN start ELSE step(upto[k - 1], k)]
  <2>1. \E f : f = [k \in 0..n |-> IF k = 0 THEN start ELSE step(f[k - 1], k)]
    BY <1>7
  <2> QED
    BY <2>1 DEF start
<1>9. Image(w) = upto[n]
  BY DEF Image, n
<1> HIDE DEF upto, V, step
<1>10. upto[0] \in V
  BY <1>1, <1>3, <1>8
<1>11. ASSUME NEW k \in 1..n, upto[k - 1] \in V PROVE upto[k] \in V
  <2>1. upto[k] = step(upto[k - 1], k)
    BY <1>1, <1>8
  <2> QED
    BY <1>4, <1>11, <2>1
<1>12. \A k \in 0..n : upto[k] \in V
  BY ONLY <1>1, <1>10, <1>11, LoopKeeps
<1>13. ASSUME NEW k \in 1..n
       PROVE  upto[k] = WroteAfter(upto[k - 1], w.ext[k],
                WriteExtent(w, Pad(upto[k - 1].img, upto[k - 1].end, w.ext[k].start), w.ext[k]))
  <2>1. upto[k] = step(upto[k - 1], k)
    BY <1>1, <1>8
  <2> QED
    BY <2>1 DEF step, WroteAfter
<1>14. upto[0] = [how |-> "ok", img |-> Blank(w.rc), end |-> 0]
  <2>1. upto[0] = start
    BY <1>1, <1>8
  <2> QED
    BY <2>1 DEF start, Blank
<1>15. ImageLoop(upto, w)
  BY <1>12, <1>13, <1>14 DEF ImageLoop, ImageStates, V, n
<1> QED
  BY <1>9, <1>15 DEF n

LEMMA ImageType ==
  ASSUME NEW c, NEW w \in Readies(c), w.how = "ok"
  PROVE  /\ Image(w).how \in {"ok", "error", "fault", "abort"}
         /\ Image(w).img \in Seq(Unit)
<1>1. PICK f : ImageLoop(f, w) /\ Image(w) = f[Len(w.ext)]
  BY ImageForm
<1>2. Len(w.ext) \in 0..Len(w.ext)
  BY WorkFields DEF Readies
<1>3. Image(w) \in ImageStates
  BY <1>1, <1>2 DEF ImageLoop
<1> QED
  BY <1>3 DEF ImageStates
-----------------------------------------------------------------------------
(* The calls *)

\* The descriptor is one, and the layout is refused to nobody but the client.
LayoutInv ==
  /\ file \in Seq(Unit)
  /\ e # None => e \in Opens
  /\ LibraryLayoutFits

\* How a call ends.
LEMMA FinishKeeps ==
  ASSUME NEW op, NEW w, w.e \in Opens, w.how = "layout" => w.e.layout, Finish(op, w)
  PROVE  (e' # None => e' \in Opens) /\ (last'.how = "layout" => e'.layout)
<1>1. last'.how = w.how
  BY DEF Finish
<1>2. w.how \in {"abort", "fault"} => e' = None
  BY DEF Finish
<1>3. w.how \notin {"abort", "fault"} => e' = w.e
  BY DEF Finish
<1> QED
  BY <1>1, <1>2, <1>3

\* The same for a call that does not write.
LEMMA CallKeeps ==
  ASSUME LayoutInv, NEW op, NEW c, NEW w \in Goods(c), Finish(op, w), UNCHANGED file
  PROVE  LayoutInv'
<1>1. w.e \in Opens /\ (w.how = "layout" => w.e.layout)
  BY WorkFields DEF Goods
<1>2. (e' # None => e' \in Opens) /\ (last'.how = "layout" => e'.layout)
  BY <1>1, FinishKeeps
<1> QED
  BY <1>2 DEF LayoutInv, LibraryLayoutFits

\* The same for a step that leaves another descriptor.
LEMMA StepKeeps ==
  ASSUME LayoutInv, e' \in Opens, last'.how # "layout", UNCHANGED file
  PROVE  LayoutInv'
BY DEF LayoutInv, LibraryLayoutFits

LEMMA BeginKeeps ==
  ASSUME LayoutInv, NEW cmd \in Commands, NEW mapped \in BOOLEAN, Begin(cmd, mapped)
  PROVE  LayoutInv'
<1> DEFINE raw == IF cmd = "write" THEN None ELSE file
           m == mapped /\ cmd # "write"
<1>1. /\ raw \in Seq(Unit) \cup {None, Gone}
      /\ IF cmd = "write" THEN raw = None /\ ~m ELSE raw \in Seq(Unit)
  BY DEF LayoutInv
<1>2. m \in BOOLEAN /\ (cmd # "write") \in BOOLEAN
  OBVIOUS
<1>3. e' = [cmd |-> cmd, fd |-> TRUE, class |-> cmd # "write", layout |-> FALSE,
            loaded |-> FALSE, ehdr |-> None, phdr |-> None, nphdr |-> 0, nscn |-> 0,
            scns |-> <<>>, raw |-> raw, rawsize |-> 0, mapped |-> m, writes |-> 0,
            misread |-> FALSE]
  BY DEF Begin
<1> HIDE DEF raw, m
<1>4. e' \in Descs
  BY <1>1, <1>2, <1>3, NoTable DEF Descs
<1>5. e' \in Opens
  BY <1>1, <1>3, <1>4 DEF Opens
<1> QED
  BY <1>5, StepKeeps DEF Begin

LEMMA EndKeeps == LayoutInv /\ End => LayoutInv'
BY DEF End, LayoutInv, LibraryLayoutFits

LEMMA GetEhdrKeeps == LayoutInv /\ GetEhdr => LayoutInv'
<1> SUFFICES ASSUME LayoutInv, GetEhdr PROVE LayoutInv'
  OBVIOUS
<1> DEFINE d == [e EXCEPT !.class = TRUE]
<1>1. e \in Opens
  BY DEF GetEhdr, Call, LayoutInv
<1>2. d \in Opens
  BY <1>1 DEF Opens, Descs
<1> HIDE DEF d
<1>3. WithEhdr(Work(d)) \in Goods(d.cmd)
  BY <1>2, WorkType, WithEhdrType DEF Readies
<1> QED
  BY <1>3, CallKeeps DEF GetEhdr, d

LEMMA GetPhdrKeeps == LayoutInv /\ GetPhdr => LayoutInv'
<1> SUFFICES ASSUME LayoutInv, GetPhdr PROVE LayoutInv'
  OBVIOUS
<1> DEFINE w == WithEhdr(Work(e))
           v == IF w.how = "ok" /\ w.e.phdr = None /\ w.e.nphdr = 0
                THEN Fails(w, "abort") ELSE Then(w, WithPhdr(w))
<1>1. e \in Opens
  BY DEF GetPhdr, Call, LayoutInv
<1>2. w \in Readies(e.cmd) /\ w \in Goods(e.cmd)
  BY <1>1, WorkType, WithEhdrType DEF Readies
<1>3. v \in Goods(e.cmd)
  <2> HIDE DEF w
  <2>1. w.how = "ok" => WithPhdr(w) \in Goods(e.cmd)
    BY <1>2, WithPhdrType DEF Readies
  <2> QED
    BY <1>2, <2>1, FailsType, ThenType
<1>4. Finish("phdr", v) /\ UNCHANGED file
  BY DEF GetPhdr
<1> HIDE DEF v
<1> QED
  BY <1>3, <1>4, CallKeeps

LEMMA NewPhdrKeeps ==
  ASSUME LayoutInv, NEW n \in Phnums, NewPhdr(n)
  PROVE  LayoutInv'
<1> DEFINE w == WithEhdr(Work(e))
           table == [k \in 1..n * PhdrSize |-> Ph("new")]
           d == [w.e EXCEPT !.nphdr = n, !.phdr = IF n = 0 THEN None ELSE table]
<1>1. e \in Opens
  BY DEF NewPhdr, Call, LayoutInv
<1>2. w \in Goods(e.cmd) /\ w.e \in Opens
  BY <1>1, WorkType, WithEhdrType, WorkFields DEF Readies
<1>3. (Finish("phdr", w) \/ Finish("phdr", With(w, d))) /\ UNCHANGED file
  BY DEF NewPhdr
<1> HIDE DEF w
<1>4. n \in Nat /\ n * PhdrSize \in Nat
  BY Sizes, ElfUpdateAssumption DEF ElfUpdateAssumption
<1>5. table \in Seq(Unit)
  <2>1. Ph("new") \in Unit
    BY DEF Unit
  <2> QED
    BY <1>4, <2>1
<1> HIDE DEF table
<1>6. d \in Opens /\ d.scns = w.e.scns /\ d.layout = w.e.layout /\ d.cmd = w.e.cmd
  BY <1>2, <1>4, <1>5 DEF Opens, Descs
<1> HIDE DEF d
<1>7. With(w, d) \in Goods(e.cmd)
  BY <1>2, <1>6, WithType
<1> QED
  BY <1>2, <1>3, <1>7, CallKeeps

LEMMA GetScnKeeps == LayoutInv /\ GetScn => LayoutInv'
<1> SUFFICES ASSUME LayoutInv, GetScn PROVE LayoutInv'
  OBVIOUS
<1>1. e \in Opens
  BY DEF GetScn, Call, LayoutInv
<1>2. Opened(e) \in Goods(e.cmd)
  BY <1>1, OpenedType DEF Readies
<1> QED
  BY <1>2, CallKeeps DEF GetScn

LEMMA FdDoneKeeps == LayoutInv /\ FdDone => LayoutInv'
<1> SUFFICES ASSUME LayoutInv, FdDone PROVE LayoutInv'
  OBVIOUS
<1>1. e \in Opens
  BY DEF FdDone, Call, LayoutInv
<1>2. e' = [e EXCEPT !.fd = FALSE]
  BY DEF FdDone
<1>3. e' \in Opens
  BY <1>1, <1>2 DEF Opens, Descs
<1> QED
  BY <1>3, StepKeeps DEF FdDone

LEMMA NewScnKeeps ==
  ASSUME LayoutInv, NEW type \in {"progbits", "nobits"}, NEW align \in Aligns,
         NewScn(type, align)
  PROVE  LayoutInv'
<1> DEFINE w == Opened(e)
           d == w.e
           none == d.scns = <<>>
           n == IF none THEN 1 ELSE d.nscn
           s == [NoScn EXCEPT !.type = type, !.align = align, !.dirty = TRUE]
           base == IF none THEN Allocate(d, 0, NoScn) ELSE d
           a == Allocate(base, n, s)
           new == [a EXCEPT !.nscn = n + 1]
<1>1. e \in Opens
  BY DEF NewScn, Call, LayoutInv
<1>2. w \in Goods(e.cmd) /\ d \in Opens
  BY <1>1, OpenedType, WorkFields DEF Readies
<1>3. /\ Finish("scn", w) \/ Finish("scn", Fails(w, "abort")) \/ Finish("scn", With(w, new))
      /\ UNCHANGED file
  BY DEF NewScn
<1> HIDE DEF w
<1>4. n \in Nat
  BY <1>2 DEF Opens, Descs
<1>5. s \in Scns
  <2>1. align \in Nat
    BY ElfUpdateAssumption DEF ElfUpdateAssumption
  <2> QED
    BY <2>1, LoadedType DEF Scns, Kinds
<1>6. /\ base \in Opens /\ base.layout = d.layout /\ base.cmd = d.cmd
      /\ DOMAIN d.scns \subseteq DOMAIN base.scns
  <2> DEFINE z == Allocate(d, 0, NoScn)
  <2> HIDE DEF d
  <2>1. d \in Opens /\ NoScn \in Scns
    BY <1>2, LoadedType DEF d
  <2>2. /\ z \in Opens /\ z.layout = d.layout /\ z.cmd = d.cmd
        /\ DOMAIN d.scns \subseteq DOMAIN z.scns
    BY <2>1, AllocateType
  <2> HIDE DEF z
  <2>3. base = IF none THEN z ELSE d
    BY DEF z
  <2> HIDE DEF none, base
  <2> QED
    BY <2>1, <2>2, <2>3
<1> HIDE DEF base, s, n
<1>7. /\ a \in Opens /\ a.layout = d.layout /\ a.cmd = d.cmd
      /\ DOMAIN d.scns \subseteq DOMAIN a.scns
  <2> HIDE DEF d
  <2> QED
    BY <1>4, <1>5, <1>6, AllocateType
<1> HIDE DEF a
<1>8. /\ new \in Opens /\ new.layout = d.layout /\ new.cmd = d.cmd /\ new.scns = a.scns
  <2>1. a \in Descs /\ n + 1 \in Nat
    BY <1>4, <1>7 DEF Opens
  <2>2. /\ new \in Descs /\ new.layout = a.layout /\ new.cmd = a.cmd /\ new.scns = a.scns
        /\ new.raw = a.raw /\ new.mapped = a.mapped
    BY <2>1 DEF Descs
  <2> HIDE DEF new
  <2> QED
    BY <1>7, <2>2, SameFile
<1> HIDE DEF new
<1>9. With(w, new) \in Goods(e.cmd)
  BY <1>2, <1>7, <1>8, WithType
<1>10. Fails(w, "abort") \in Goods(e.cmd)
  BY <1>2, FailsType
<1> QED
  BY <1>2, <1>3, <1>9, <1>10, CallKeeps

LEMMA NewDataKeeps ==
  ASSUME LayoutInv, NEW i \in 1..MaxScns, NEW b \in Buffers, NewData(i, b)
  PROVE  LayoutInv'
<1> DEFINE reads == e.raw # None /\ e.scns[i].ssize > 0 /\ e.scns[i].data = <<>>
           w == IF reads THEN WithData(Work(e), i) ELSE Work(e)
           s == w.e.scns[i]
           datum == [align |-> b.align, off |-> 0, units |-> b.units]
           data == Append(s.data, datum)
           z == [s EXCEPT !.dirty = TRUE,
                          !.data = IF e.layout THEN Placed(data) ELSE data,
                          !.size = IF e.layout THEN Extent(Placed(data)) ELSE @]
           new == Section(w.e, i, z, w.e.misread)
<1>1. e \in Opens /\ i \in DOMAIN e.scns
  BY DEF NewData, Call, HasData, LayoutInv
<1>2. w \in Goods(e.cmd) /\ Keeps(Work(e), w)
  <2>1. Work(e) \in Goods(e.cmd) /\ Work(e).e = e /\ Work(e).how = "ok"
    BY <1>1, WorkType
  <2>2. WithData(Work(e), i) \in Goods(e.cmd) /\ Keeps(Work(e), WithData(Work(e), i))
    BY <1>1, <2>1, WithDataType
  <2> QED
    BY <2>1, <2>2 DEF Keeps
<1>3. i \in DOMAIN w.e.scns /\ w.e \in Opens
  <2> HIDE DEF w
  <2> QED
    BY <1>1, <1>2, WorkType, WorkFields DEF Keeps
<1>4. (Finish("data", w) \/ Finish("data", With(w, [w.e EXCEPT !.scns[i] = z]))) /\ UNCHANGED file
  BY DEF NewData
<1> HIDE DEF w
<1>5. [w.e EXCEPT !.scns[i] = z] = new /\ w.e.misread \in BOOLEAN
  BY <1>3, SectionForm
<1>6. s \in Scns
  BY <1>3, ScnOf
<1>7. data \in DataLists
  <2>1. b.align \in Nat \ {0} /\ b.units \in Seq(Unit)
    BY GivenType, ElfUpdateAssumption DEF ElfUpdateAssumption, Given
  <2>2. datum \in Datum /\ datum.align # 0
    BY <2>1 DEF Datum
  <2> HIDE DEF datum, s
  <2>3. s.data \in Seq(Datum) /\ \A k \in 2..Len(s.data) : s.data[k].align # 0
    BY <1>6 DEF Scns, DataLists
  <2>4. data \in Seq(Datum) /\ \A k \in 2..Len(data) : data[k].align # 0
    BY <2>2, <2>3
  <2> QED
    BY <2>4 DEF DataLists
<1> HIDE DEF data
<1>8. Placed(data) \in DataLists /\ Extent(Placed(data)) \in Nat
  BY <1>7, PlacedType, ExtentType
<1>9. z \in Scns
  <2> HIDE DEF s
  <2> QED
    BY <1>6, <1>7, <1>8 DEF Scns
<1> HIDE DEF z
<1>10. With(w, new) \in Goods(e.cmd)
  BY <1>2, <1>3, <1>5, <1>9, SectionType
<1> HIDE DEF new
<1> QED
  BY <1>2, <1>4, <1>5, <1>10, CallKeeps

LEMMA GetDataKeeps ==
  ASSUME LayoutInv, NEW i \in 0..MaxScns, GetData(i)
  PROVE  LayoutInv'
<1>1. e \in Opens /\ i \in DOMAIN e.scns
  BY DEF GetData, Call, LayoutInv
<1>2. Work(e) \in Goods(e.cmd) /\ Work(e).e = e /\ Work(e).how = "ok"
  BY <1>1, WorkType
<1>3. WithData(Work(e), i) \in Goods(e.cmd)
  BY <1>1, <1>2, WithDataType
<1> QED
  BY <1>3, CallKeeps DEF GetData

\* The client changes a section of the descriptor.
LEMMA SectionKeeps ==
  ASSUME LayoutInv, e # None, NEW i \in DOMAIN e.scns, NEW s \in Scns,
         e' = [e EXCEPT !.scns[i] = s], last'.how # "layout", UNCHANGED file
  PROVE  LayoutInv'
<1>1. e \in Opens
  BY DEF LayoutInv
<1>2. e' = Section(e, i, s, e.misread) /\ e.misread \in BOOLEAN
  BY <1>1, SectionForm
<1>3. Work(e) \in Goods(e.cmd) /\ Work(e).e = e
  BY <1>1, WorkType
<1>4. e' \in Opens
  BY <1>2, <1>3, SectionType
<1> QED
  BY <1>4, StepKeeps

LEMMA ModifyKeeps ==
  ASSUME LayoutInv, NEW i \in 0..MaxScns, Modify(i)
  PROVE  LayoutInv'
<1> DEFINE s == e.scns[i]
           units == [s.data[1].units EXCEPT ![1] = <<"mod", 0>>]
           datum == [s.data[1] EXCEPT !.units = units]
           data == [s.data EXCEPT ![1] = datum]
           z == [s EXCEPT !.data = data]
<1>1. e \in Opens /\ i \in DOMAIN e.scns /\ e # None
  BY DEF Modify, Call, HasData, LayoutInv
<1>2. s \in Scns
  BY <1>1, ScnOf
<1>3. s.data \in DataLists /\ s.data # <<>> /\ s.data[1].units # <<>>
  BY <1>2 DEF Modify, Scns
<1>4. e' = [e EXCEPT !.scns[i] = z]
  BY DEF Modify
<1> HIDE DEF s
<1>5. Len(s.data) \in Nat /\ Len(s.data) >= 1 /\ s.data \in Seq(Datum)
  BY <1>3 DEF DataLists
<1>6. s.data[1] \in Datum
  BY <1>5
<1>7. units \in Seq(Unit)
  <2> DEFINE old == s.data[1].units
             new == <<"mod", 0>>
  <2>1. new \in Unit
    BY DEF Unit
  <2>2. old \in Seq(Unit)
    BY <1>6 DEF Datum
  <2> HIDE DEF old, new
  <2>3. [old EXCEPT ![1] = new] \in Seq(Unit)
    <3>1. [old EXCEPT ![1] = new] = [k \in 1..Len(old) |-> IF k = 1 THEN new ELSE old[k]]
      BY <2>2
    <3>2. Len(old) \in Nat /\ \A k \in 1..Len(old) : (IF k = 1 THEN new ELSE old[k]) \in Unit
      BY <2>1, <2>2
    <3>3. [k \in 1..Len(old) |-> IF k = 1 THEN new ELSE old[k]] \in Seq(Unit)
      BY ONLY <3>2
    <3> QED
      BY ONLY <3>1, <3>3
  <2> QED
    BY <2>3 DEF old, new
<1> HIDE DEF units
<1>8. datum \in Datum /\ datum.align = s.data[1].align
  BY <1>6, <1>7 DEF Datum
<1> HIDE DEF datum
<1>9. data \in DataLists
  BY <1>3, <1>5, <1>8 DEF DataLists
<1> HIDE DEF data
<1>10. z \in Scns
  BY <1>2, <1>9 DEF Scns
<1> HIDE DEF z
<1> QED
  BY <1>1, <1>4, <1>10, SectionKeeps DEF Modify

LEMMA MoveKeeps ==
  ASSUME LayoutInv, NEW i \in 1..MaxScns, NEW off \in Offsets, Move(i, off)
  PROVE  LayoutInv'
<1> DEFINE s == e.scns[i]
           z == [s EXCEPT !.off = off]
<1>1. e \in Opens /\ i \in DOMAIN e.scns /\ e # None
  BY DEF Move, Call, HasData, LayoutInv
<1>2. s \in Scns /\ off \in Nat
  BY <1>1, ScnOf, ElfUpdateAssumption DEF ElfUpdateAssumption
<1>3. e' = [e EXCEPT !.scns[i] = z]
  BY DEF Move
<1> HIDE DEF s
<1>4. z \in Scns
  BY <1>2 DEF Scns
<1> HIDE DEF z
<1> QED
  BY <1>1, <1>3, <1>4, SectionKeeps DEF Move

LEMMA ArrangeKeeps ==
  ASSUME LayoutInv, NEW phoff \in Offsets, NEW shoff \in Offsets, Arrange(phoff, shoff)
  PROVE  LayoutInv'
<1> DEFINE after(s) == LET data == Placed(s.data) IN
                       IF data = <<>> THEN s ELSE [s EXCEPT !.data = data, !.size = Extent(data)]
           h == [e.ehdr EXCEPT !.phoff = IF e.nphdr = 0 THEN 0 ELSE phoff,
                               !.shoff = IF e.nscn = 0 THEN 0 ELSE shoff]
           t == [i \in DOMAIN e.scns |-> after(e.scns[i])]
<1>1. e \in Opens /\ e.ehdr \in Ehdrs
  BY DEF Arrange, Call, LayoutInv, Opens, Descs
<1>2. ASSUME NEW s \in Scns PROVE after(s) \in Scns
  <2> DEFINE data == Placed(s.data)
  <2>1. s.data \in DataLists
    BY DEF Scns
  <2>2. data \in DataLists /\ Extent(data) \in Nat
    BY <2>1, PlacedType, ExtentType
  <2> HIDE DEF data
  <2>3. [s EXCEPT !.data = data, !.size = Extent(data)] \in Scns
    BY <2>2 DEF Scns
  <2> QED
    BY <2>3 DEF data
<1>3. t \in Tables
  <2> HIDE DEF after
  <2> QED
    BY <1>1, <1>2, ScnOf, TableType DEF Opens, Descs
<1>4. h \in Ehdrs
  <2>1. phoff \in Nat /\ shoff \in Nat
    BY ElfUpdateAssumption DEF ElfUpdateAssumption
  <2> QED
    BY <1>1, <2>1 DEF Ehdrs
<1>5. e' = [e EXCEPT !.layout = TRUE, !.ehdr = h, !.scns = t]
  BY <1>1 DEF Arrange, Opens, Descs
<1> HIDE DEF h, t
<1>6. e' \in Opens
  BY <1>1, <1>3, <1>4, <1>5 DEF Opens, Descs
<1> QED
  BY <1>6, StepKeeps DEF Arrange

\* elf_update leaves the file as it is.
LEMMA UnwrittenKeeps ==
  ASSUME LayoutInv, NEW op, NEW w, w.e \in Opens, w.how = "layout" => w.e.layout,
         w = [e |-> w.e, how |-> w.how, ext |-> w.ext, rc |-> w.rc],
         Unwritten(op, w)
  PROVE  LayoutInv'
<1> DEFINE d == [w.e EXCEPT !.loaded = FALSE]
           v == With(w, d)
<1>1. d \in Opens /\ d.layout = w.e.layout
  BY DEF Opens, Descs
<1>2. Finish(op, v) /\ UNCHANGED file
  BY DEF Unwritten
<1> HIDE DEF d
<1>3. v.e = d /\ v.how = w.how
  BY DEF With
<1> HIDE DEF v
<1>4. (e' # None => e' \in Opens) /\ (last'.how = "layout" => e'.layout)
  BY <1>1, <1>2, <1>3, FinishKeeps
<1> QED
  BY <1>2, <1>4 DEF LayoutInv, LibraryLayoutFits

LEMMA WorkForm ==
  ASSUME NEW c, NEW w \in Goods(c)
  PROVE  /\ w = [e |-> w.e, how |-> w.how, ext |-> w.ext, rc |-> w.rc]
         /\ w.how = "layout" => w.e.layout
         /\ \A how : Fails(w, how) = [e |-> w.e, how |-> how, ext |-> w.ext, rc |-> w.rc]
BY DEF Goods, Works, Fails

LEMMA UpdateNullKeeps == LayoutInv /\ UpdateNull => LayoutInv'
<1> SUFFICES ASSUME LayoutInv, UpdateNull PROVE LayoutInv'
  OBVIOUS
<1> DEFINE w == Resync(e)
<1>1. e \in Opens
  BY DEF UpdateNull, Call, LayoutInv
<1>2. w \in Goods(e.cmd)
  BY <1>1, ResyncType DEF Readies
<1>3. Unwritten("null", w)
  BY DEF UpdateNull
<1> HIDE DEF w
<1>4. /\ w.e \in Opens /\ (w.how = "layout" => w.e.layout)
      /\ w = [e |-> w.e, how |-> w.how, ext |-> w.ext, rc |-> w.rc]
  BY <1>2, WorkFields, WorkForm
<1> QED
  BY <1>3, <1>4, UnwrittenKeeps

\* elf_update writes the file, or a part of it.
LEMMA TouchedKeeps ==
  ASSUME NEW w, w.e \in Opens, NEW units \in Seq(Unit), NEW raw \in Seq(Unit) \cup {None, Gone},
         IF w.e.cmd = "write" THEN raw = None ELSE raw \in Seq(Unit) \cup {Gone},
         NEW how \in {"io", "killed"}, Touched(w, units, raw, how)
  PROVE  LayoutInv'
<1> DEFINE size == IF w.e.raw = None THEN 0 ELSE Rawsize(w.e)
           d == [w.e EXCEPT !.loaded = FALSE, !.raw = raw, !.rawsize = size]
<1>0. size \in Nat
  BY DEF Opens, Descs, Rawsize
<1> HIDE DEF size
<1>1. d \in Opens
  BY <1>0 DEF Opens, Descs
<1> USE DEF size
<1>2. file' = units /\ e' = (IF how = "killed" THEN None ELSE d) /\ last'.how = how
  BY DEF Touched
<1> HIDE DEF d
<1> QED
  BY <1>1, <1>2 DEF LayoutInv, LibraryLayoutFits

LEMMA CutType ==
  ASSUME NEW img \in Seq(Unit), NEW n \in Nat, n <= Len(img)
  PROVE  SubSeq(img, 1, n) \in Seq(Unit)
<1>1. SubSeq(img, 1, n) = Bytes(img, 0, n)
  BY DEF Bytes
<1> QED
  BY <1>1, BytesType

LEMMA WriteElfKeeps ==
  ASSUME LayoutInv, NEW w \in Goods(e.cmd), e \in Opens, e.cmd # "read",
         NEW r, r.img \in Seq(Unit), WriteElf(w, r)
  PROVE  LayoutInv'
<1> DEFINE gone == IF w.e.mapped THEN Gone ELSE w.e.raw
           img == r.img
<1>1. w.e \in Opens /\ w.e.cmd = e.cmd
  BY WorkFields
<1>2. /\ w.e.raw \in Seq(Unit) \cup {None, Gone}
      /\ IF w.e.cmd = "write" THEN w.e.raw = None /\ ~w.e.mapped
         ELSE w.e.raw \in Seq(Unit) \cup {Gone}
      /\ w.e.cmd \in {"rdwr", "write"}
  BY <1>1, ElfUpdateAssumption DEF Opens, Descs, ElfUpdateAssumption
<1>3. /\ gone \in Seq(Unit) \cup {None, Gone}
      /\ IF w.e.cmd = "write" THEN gone = None ELSE gone \in Seq(Unit) \cup {Gone}
  BY <1>2
<1>4. Len(img) \in Nat /\ \A n \in Short(img) : n \in Nat /\ n <= Len(img)
  BY ElfUpdateAssumption DEF ElfUpdateAssumption, Short
<1>5. /\ SubSeq(img, 1, Len(img)) \in Seq(Unit)
      /\ \A n \in Short(img) : SubSeq(img, 1, n) \in Seq(Unit)
  BY <1>4, CutType
<1>6. \/ file' = img /\ e' = Written(w.e, img) /\ last'.how = "ok"
      \/ Unwritten("write", Fails(w, "io"))
      \/ w.e.mapped /\ Touched(w, <<>>, Gone, "io")
      \/ \E n \in Short(img) : Touched(w, SubSeq(img, 1, n), gone, "io")
      \/ w.e.mapped /\ Touched(w, img, Gone, "io")
      \/ \E n \in Short(img) \cup {Len(img)} : Touched(w, SubSeq(img, 1, n), gone, "killed")
  BY DEF WriteElf
<1> HIDE DEF gone, img
<1>7. img \in Seq(Unit) /\ <<>> \in Seq(Unit)
  BY DEF img
<1>8. CASE file' = img /\ e' = Written(w.e, img) /\ last'.how = "ok"
  <2>1. Written(w.e, img) \in Opens
    <3> DEFINE raw == IF w.e.cmd = "rdwr" THEN img ELSE None
    <3>1. /\ raw \in Seq(Unit) \cup {None, Gone}
          /\ IF w.e.cmd = "write" THEN raw = None ELSE raw \in Seq(Unit) \cup {Gone}
      BY <1>2, <1>7
    <3> HIDE DEF raw
    <3> DEFINE d == w.e
               b == [d EXCEPT !.loaded = FALSE, !.scns = <<>>, !.ehdr = None,
                       !.phdr = None, !.raw = raw, !.writes = @ + 1]
    <3>2. Written(w.e, img) = b
      BY DEF Written, raw
    <3>3. d \in Descs /\ d.writes + 1 \in Nat /\ (d.cmd = "write" => ~d.mapped)
      BY <1>1 DEF Opens, Descs
    <3> HIDE DEF d
    <3>4. b \in Descs /\ b.raw = raw /\ b.cmd = d.cmd /\ b.mapped = d.mapped
      BY <3>1, <3>3, NoTable DEF Descs
    <3> HIDE DEF b
    <3> QED
      BY <3>1, <3>2, <3>3, <3>4 DEF Opens, d
  <2> QED
    BY <1>7, <1>8, <2>1 DEF LayoutInv, LibraryLayoutFits
<1>9. CASE Unwritten("write", Fails(w, "io"))
  <2> DEFINE v == Fails(w, "io")
  <2>1. v = [e |-> w.e, how |-> "io", ext |-> w.ext, rc |-> w.rc]
    BY WorkForm
  <2>2. v.e = w.e /\ v.how = "io" /\ v = [e |-> v.e, how |-> v.how, ext |-> v.ext, rc |-> v.rc]
    BY <2>1
  <2> HIDE DEF v
  <2>3. Unwritten("write", v)
    BY <1>9 DEF v
  <2> QED
    BY <1>1, <2>2, <2>3, UnwrittenKeeps
<1>10. CASE w.e.mapped /\ Touched(w, <<>>, Gone, "io")
  BY <1>1, <1>2, <1>7, <1>10, TouchedKeeps
<1>11. ASSUME NEW n \in Short(img), Touched(w, SubSeq(img, 1, n), gone, "io")
       PROVE  LayoutInv'
  BY <1>1, <1>3, <1>5, <1>11, TouchedKeeps
<1>12. CASE w.e.mapped /\ Touched(w, img, Gone, "io")
  BY <1>1, <1>2, <1>7, <1>12, TouchedKeeps
<1>13. ASSUME NEW n \in Short(img) \cup {Len(img)}, Touched(w, SubSeq(img, 1, n), gone, "killed")
       PROVE  LayoutInv'
  BY <1>1, <1>3, <1>5, <1>13, TouchedKeeps
<1> QED
  BY <1>6, <1>8, <1>9, <1>10, <1>11, <1>12, <1>13

LEMMA UpdateWriteKeeps == LayoutInv /\ UpdateWrite => LayoutInv'
<1> SUFFICES ASSUME LayoutInv, UpdateWrite PROVE LayoutInv'
  OBVIOUS
<1>1. e \in Opens
  BY DEF UpdateWrite, Call, LayoutInv
<1>2. CASE e.cmd = "read"
  <2>1. UNCHANGED <<file, e>> /\ last'.how = "error"
    BY <1>2 DEF UpdateWrite
  <2> QED
    BY <1>1, <2>1, StepKeeps
<1>3. CASE e.cmd # "read"
  <2> DEFINE w == Resync(e)
             r == Image(w)
  <2>1. w \in Readies(e.cmd) /\ w \in Goods(e.cmd)
    BY <1>1, ResyncType DEF Readies
  <2>2. /\ w.e \in Opens /\ (w.how = "layout" => w.e.layout)
        /\ w = [e |-> w.e, how |-> w.how, ext |-> w.ext, rc |-> w.rc]
    <3> HIDE DEF w
    <3> QED
      BY <2>1, WorkFields, WorkForm
  <2>3. \/ Unwritten("write", w)
        \/ w.how = "ok" /\ Unwritten("write", Fails(w, "error"))
        \/ w.how = "ok" /\ r.how # "ok" /\ Unwritten("write", Fails(w, r.how))
        \/ w.how = "ok" /\ r.how = "ok" /\ WriteElf(w, r)
    BY <1>3 DEF UpdateWrite
  <2> HIDE DEF w
  <2>4. w.how = "ok" => r.how \in {"ok", "error", "fault", "abort"} /\ r.img \in Seq(Unit)
    BY <2>1, ImageType
  <2> HIDE DEF r
  <2>5. CASE Unwritten("write", w)
    BY <2>2, <2>5, UnwrittenKeeps
  <2>6. ASSUME NEW how \in {"error", "fault", "abort"}, Unwritten("write", Fails(w, how))
        PROVE  LayoutInv'
    <3> DEFINE v == Fails(w, how)
    <3>1. v = [e |-> w.e, how |-> how, ext |-> w.ext, rc |-> w.rc]
      BY <2>1, WorkForm
    <3>2. v.e = w.e /\ v.how = how /\ v = [e |-> v.e, how |-> v.how, ext |-> v.ext, rc |-> v.rc]
      BY <3>1
    <3> HIDE DEF v
    <3>3. Unwritten("write", v)
      BY <2>6 DEF v
    <3> QED
      BY <2>2, <3>2, <3>3, UnwrittenKeeps
  <2>7. CASE w.how = "ok" /\ r.how = "ok" /\ WriteElf(w, r)
    BY <1>1, <1>3, <2>1, <2>4, <2>7, WriteElfKeeps
  <2> QED
    BY <2>3, <2>4, <2>5, <2>6, <2>7
<1> QED
  BY <1>2, <1>3
-----------------------------------------------------------------------------
\* What every call finds, whatever the file held, whatever the client did before, and
\* whatever failed.
LEMMA Invariance == Spec => []LayoutInv
<1>1. Init => LayoutInv
  <2> SUFFICES ASSUME Init PROVE LayoutInv
    OBVIOUS
  <2>1. file \in Given /\ e = None /\ last.how = "ok"
    BY DEF Init, Given
  <2> QED
    BY <2>1, GivenType DEF LayoutInv, LibraryLayoutFits
<1>2. LayoutInv /\ [Next]_vars => LayoutInv'
  <2> SUFFICES ASSUME LayoutInv, [Next]_vars PROVE LayoutInv'
    OBVIOUS
  <2>1. CASE UNCHANGED vars
    BY <2>1 DEF vars, LayoutInv, LibraryLayoutFits
  <2>2. CASE Next
    BY <2>2, BeginKeeps, EndKeeps, GetEhdrKeeps, GetPhdrKeeps, GetScnKeeps, FdDoneKeeps,
       NewPhdrKeeps, NewScnKeeps, GetDataKeeps, ModifyKeeps, NewDataKeeps, ArrangeKeeps,
       MoveKeeps, UpdateNullKeeps, UpdateWriteKeeps DEF Next
  <2> QED
    BY <2>1, <2>2
<1> QED
  BY <1>1, <1>2, PTL DEF Spec

\* Where the library does the layout, elf_update never refuses it: whatever the file
\* held, whatever the client did before, and whatever failed.  Only what the client
\* has placed itself may be refused.
THEOREM LayoutFits == Spec => []LibraryLayoutFits
<1>1. LayoutInv => LibraryLayoutFits
  BY DEF LayoutInv
<1> QED
  BY <1>1, Invariance, PTL

\* Whenever elf_update lays the object out, or accepts the layout of the client, no
\* two of its regions overlap, and the file ends behind all of them.
RegionsAreApart ==
  e # None =>
    \A w \in {Resync(e)} : w.how = "ok" =>
      /\ Ascending(w.ext)
      /\ \A j \in 1..Len(w.ext) : Ends(w.ext[j]) <= w.rc

\* _libelf_write_elf writes one extent after the other and fills the gaps between them:
\* in no state, for no file and no calls before, does one of them reach into another
\* one, or behind the end of the new image.
THEOREM RegionsStayApart == Spec => []RegionsAreApart
<1>1. LayoutInv => RegionsAreApart
  <2> SUFFICES ASSUME LayoutInv, e # None
               PROVE  /\ Ascending(Resync(e).ext)
                      /\ \A j \in 1..Len(Resync(e).ext) : Ends(Resync(e).ext[j]) <= Resync(e).rc
    BY DEF RegionsAreApart
  <2>1. e \in Opens
    BY DEF LayoutInv
  <2>2. Resync(e) \in Goods(e.cmd)
    BY <2>1, ResyncType DEF Readies
  <2> QED
    BY <2>2 DEF Goods
<1> QED
  BY <1>1, Invariance, PTL
-----------------------------------------------------------------------------
(* What a section is laid out to *)

AlignFor(s) == IF s.align = 0 THEN 1 ELSE s.align
Fitted(s) == [s EXCEPT !.data = Placed(s.data), !.size = Extent(Placed(s.data))]
Moved(s, rc, al) ==
  [s EXCEPT !.align = al, !.off = RoundUp(rc, al), !.ssize = s.size, !.soff = RoundUp(rc, al)]
Kept(s) == [s EXCEPT !.ssize = s.size, !.soff = s.off]
Unaligned(s) == \E k \in 1..Len(s.data) : ~PowerOfTwo(s.data[k].align)
Misplaced(s) ==
  \/ \E k \in 1..Len(s.data) : s.data[k].off % s.data[k].align # 0
  \/ AlignOf(s.data) > AlignFor(s) \/ s.off % AlignFor(s) # 0 \/ s.size < Extent(s.data)
LaidOut(layout, rc, s, untouched) ==
  IF layout THEN Kept(s)
  ELSE IF untouched THEN Moved(s, rc, AlignFor(s))
  ELSE Moved(Fitted(s), rc, Larger(AlignFor(s), AlignOf(Placed(s.data))))

LEMMA LaidOutType ==
  ASSUME NEW layout \in BOOLEAN, NEW rc \in Nat, NEW s \in Scns, NEW untouched \in BOOLEAN
  PROVE  /\ AlignFor(s) \in Nat \ {0}
         /\ Fitted(s) \in Scns /\ Fitted(s).data = Placed(s.data)
         /\ Fitted(s).size = Extent(Placed(s.data)) /\ Fitted(s).align = s.align
         /\ Larger(AlignFor(s), AlignOf(Placed(s.data))) \in Nat \ {0}
         /\ Kept(s) \in Scns
         /\ \A al \in Nat \ {0} : Moved(s, rc, al) \in Scns
         /\ LaidOut(layout, rc, s, untouched) \in Scns
<1>1. s.data \in DataLists /\ s.align \in Nat /\ s.off \in Nat /\ s.size \in Nat
  BY DEF Scns
<1>2. AlignFor(s) \in Nat \ {0}
  BY <1>1 DEF AlignFor
<1>3. /\ Placed(s.data) \in DataLists /\ Extent(Placed(s.data)) \in Nat
      /\ AlignOf(Placed(s.data)) \in Nat
  BY <1>1, PlacedType, ExtentType
<1>4. /\ Fitted(s) \in Scns /\ Fitted(s).data = Placed(s.data)
      /\ Fitted(s).size = Extent(Placed(s.data)) /\ Fitted(s).align = s.align
  <2> DEFINE data == Placed(s.data)
             x == Extent(data)
  <2> HIDE DEF data, x
  <2>1. data \in DataLists /\ x \in Nat
    BY <1>3 DEF data, x
  <2>2. LET f == [s EXCEPT !.data = data, !.size = x] IN
        f \in Scns /\ f.data = data /\ f.size = x /\ f.align = s.align
    BY <2>1 DEF Scns
  <2> QED
    BY <2>2 DEF Fitted, data, x
<1>5. Larger(AlignFor(s), AlignOf(Placed(s.data))) \in Nat \ {0}
  BY <1>2, <1>3 DEF Larger
<1>6. Kept(s) \in Scns
  BY DEF Kept, Scns
<1>7. ASSUME NEW z \in Scns, NEW al \in Nat \ {0} PROVE Moved(z, rc, al) \in Scns
  <2> DEFINE off == RoundUp(rc, al)
  <2>1. off \in Nat
    BY RoundUpProperties
  <2> HIDE DEF off
  <2>2. [z EXCEPT !.align = al, !.off = off, !.ssize = z.size, !.soff = off] \in Scns
    BY <2>1 DEF Scns
  <2> QED
    BY <2>2 DEF Moved, off
<1>8. LaidOut(layout, rc, s, untouched) \in Scns
  BY <1>2, <1>4, <1>5, <1>6, <1>7 DEF LaidOut
<1> QED
  BY <1>2, <1>4, <1>5, <1>6, <1>7, <1>8

\* The whole of it: a section is refused, or laid out.
LEMMA LayOutGives ==
  ASSUME NEW c, NEW w \in Goods(c), w.how = "ok", NEW i \in DOMAIN w.e.scns,
         NEW untouched \in BOOLEAN,
         NEW s, s = w.e.scns[i]
  PROVE  LayOut(w, i, untouched) =
           IF ~untouched /\ Unaligned(s) THEN Fails(w, "error")
           ELSE IF ~untouched /\ w.e.layout /\ Misplaced(s) THEN Fails(w, "layout")
           ELSE With(w, Section(w.e, i, LaidOut(w.e.layout, w.rc, s, untouched), w.e.misread))
<1> DEFINE v == LayOut(w, i, untouched)
           data == Placed(s.data)
           z == [s EXCEPT !.data = data, !.size = Extent(data)]
           b == Section(w.e, i, z, w.e.misread)
           al == AlignFor(s)
<1>1. w.e \in Opens /\ s \in Scns /\ w.e.layout \in BOOLEAN /\ w.e.misread \in BOOLEAN
  BY WorkFields, ScnOf DEF Opens, Descs
<1>2. \A x : [w.e EXCEPT !.scns[i] = x] = Section(w.e, i, x, w.e.misread)
  BY <1>1, SectionForm
<1>3. ASSUME NEW y \in Goods(c), NEW a, y.rc = w.rc, i \in DOMAIN y.e.scns, NEW x, x = y.e.scns[i]
      PROVE  PlaceScn(y, i, a) = With(y, Section(y.e, i, Moved(x, w.rc, a), y.e.misread))
  <2>1. y.e \in Opens
    BY WorkFields
  <2>2. \A q : [y.e EXCEPT !.scns[i] = q] = Section(y.e, i, q, y.e.misread)
    BY <1>3, <2>1, SectionForm
  <2> QED
    BY <1>3, <2>2 DEF PlaceScn, Moved
<1>4. Settle(w, i) = With(w, Section(w.e, i, Kept(s), w.e.misread))
  BY <1>2 DEF Settle, Kept
<1>5. CASE untouched
  <2>1. v = IF w.e.layout THEN Settle(w, i) ELSE PlaceScn(w, i, al)
    BY <1>5 DEF LayOut, Then, AlignFor
  <2> QED
    BY <1>3, <1>4, <1>5, <2>1 DEF LaidOut
<1>6. CASE ~untouched /\ Unaligned(s)
  BY <1>6 DEF LayOut, Then, Unaligned
<1>7. CASE ~untouched /\ ~Unaligned(s) /\ w.e.layout
  <2>1. v = IF Misplaced(s) THEN Fails(w, "layout") ELSE Settle(w, i)
    BY <1>7 DEF LayOut, Then, AlignFor, Misplaced, Unaligned
  <2> HIDE DEF v
  <2> QED
    BY <1>4, <1>7, <2>1 DEF LaidOut, v
<1>8. CASE ~untouched /\ ~Unaligned(s) /\ ~w.e.layout
  <2> DEFINE y == With(w, b)
             a == Larger(al, AlignOf(data))
  <2>1. v = PlaceScn(y, i, a)
    <3>1. y = With(w, [w.e EXCEPT !.scns[i] = z])
      BY <1>2
    <3> QED
      BY <1>8, <3>1 DEF LayOut, Then, AlignFor, Unaligned
  <2>2. z = Fitted(s) /\ z \in Scns
    BY <1>1, LaidOutType DEF Fitted
  <2> HIDE DEF z
  <2>3. /\ y \in Goods(c) /\ y.e = b /\ y.rc = w.rc /\ i \in DOMAIN y.e.scns /\ y.e.scns[i] = z
    BY <1>1, <2>2, SectionType
  <2> HIDE DEF y, v
  <2>4. v = With(y, Section(b, i, Moved(z, w.rc, a), b.misread))
    BY <1>3, <2>1, <2>3
  <2>5. With(y, Section(b, i, Moved(z, w.rc, a), b.misread))
          = With(w, Section(w.e, i, Moved(z, w.rc, a), w.e.misread))
    <3> DEFINE m == Moved(z, w.rc, a)
    <3> HIDE DEF m
    <3>1. b.misread = w.e.misread
      BY <1>1 DEF Section, Opens, Descs
    <3>2. Section(b, i, m, w.e.misread) = Section(w.e, i, m, w.e.misread)
      <4>1. /\ w.e \in Descs /\ w.e.scns \in Tables
        BY <1>1 DEF Opens, Descs
      <4>2. b.scns = [w.e.scns EXCEPT ![i] = z]
        BY <4>1 DEF Section, Descs
      <4>3. w.e.scns = [j \in DOMAIN w.e.scns |-> w.e.scns[j]]
        BY <4>1, TableType
      <4>4. [b.scns EXCEPT ![i] = m] = [w.e.scns EXCEPT ![i] = m]
        BY <4>2, <4>3
      <4> DEFINE t == [w.e.scns EXCEPT ![i] = m]
                 u == [w.e.scns EXCEPT ![i] = z]
                 mis == w.e.misread
      <4> HIDE DEF t, u, mis
      <4>5. [[w.e EXCEPT !.misread = mis, !.scns = u] EXCEPT !.misread = mis, !.scns = t]
              = [w.e EXCEPT !.misread = mis, !.scns = t]
        BY <4>1 DEF Descs
      <4>6. b = [w.e EXCEPT !.misread = mis, !.scns = u]
        BY DEF Section, u, mis
      <4> HIDE DEF b
      <4> QED
        BY <4>4, <4>5, <4>6 DEF Section, t, u, mis
    <3>3. y = With(w, b)
      BY DEF y
    <3> HIDE DEF b
    <3>4. \A x : With(With(w, b), x) = With(w, x)
      BY DEF With
    <3> QED
      BY <3>1, <3>2, <3>3, <3>4 DEF m
  <2>6. LaidOut(w.e.layout, w.rc, s, untouched) = Moved(z, w.rc, a)
    BY <1>8, <2>2 DEF LaidOut
  <2> QED
    BY <1>8, <2>4, <2>5, <2>6 DEF v
<1> QED
  BY <1>5, <1>6, <1>7, <1>8
-----------------------------------------------------------------------------
(* A section that is laid out stays where it is *)

LEMMA PlacedTwice ==
  ASSUME NEW data \in DataLists
  PROVE  Placed(Placed(data)) = Placed(data)
<1> DEFINE p == Placed(data)
           q == Placed(p)
           n == Len(data)
<1>1. /\ p \in DataLists /\ Len(p) = n
      /\ \A k \in 1..n :
           p[k].off = IF k = 1 THEN 0
                      ELSE RoundUp(p[k - 1].off + Len(p[k - 1].units), p[k].align)
  <2>1. /\ p \in DataLists /\ Len(p) = n
        /\ \A k \in 1..n : p[k].align = data[k].align /\ p[k].units = data[k].units
        /\ \A k \in 1..n : p[k].off = IF k = 1 THEN 0
                                      ELSE RoundUp(p[k - 1].off + Len(data[k - 1].units), data[k].align)
    BY PlacedType
  <2>2. n \in Nat /\ \A k \in 1..n : k # 1 => k - 1 \in 1..n
    BY DEF DataLists
  <2> HIDE DEF p, n
  <2> QED
    BY <2>1, <2>2
<1>2. /\ q \in DataLists /\ Len(q) = n
      /\ \A k \in 1..n : q[k].align = p[k].align /\ q[k].units = p[k].units
      /\ \A k \in 1..n : q[k].off = IF k = 1 THEN 0
                                    ELSE RoundUp(q[k - 1].off + Len(p[k - 1].units), p[k].align)
  <2> HIDE DEF p, n
  <2> QED
    BY <1>1, PlacedType
<1>3. n \in Nat
  BY DEF DataLists
<1> HIDE DEF p, q, n
<1> DEFINE V == {"same"}
           f == [k \in 0..n |-> IF k = 0 \/ q[k].off = p[k].off THEN "same" ELSE "other"]
<1>4. \A k \in 0..n : k = 0 \/ q[k].off = p[k].off
  <2>0. \A k \in 0..n : f[k] \in V <=> (k = 0 \/ q[k].off = p[k].off)
    OBVIOUS
  <2> HIDE DEF f, V
  <2>1. f[0] \in V
    BY <1>3, <2>0
  <2>2. ASSUME NEW k \in 1..n, f[k - 1] \in V PROVE f[k] \in V
    <3>1. CASE k = 1
      <4>1. q[k].off = p[k].off /\ k \in 0..n
        BY <1>1, <1>2, <1>3, <3>1
      <4> QED
        BY <2>0, <4>1
    <3>2. CASE k # 1
      <4>1. k - 1 \in 1..n /\ k - 1 \in 0..n /\ k - 1 # 0 /\ k \in 0..n
        BY <1>3, <3>2
      <4>2. q[k - 1].off = p[k - 1].off
        BY <2>0, <4>1, <2>2
      <4>3. q[k].off = p[k].off
        BY <1>1, <1>2, <3>2, <4>2
      <4> QED
        BY <2>0, <4>1, <4>3
    <3> QED
      BY <3>1, <3>2
  <2>3. \A k \in 0..n : f[k] \in V
    BY ONLY <1>3, <2>1, <2>2, LoopKeeps
  <2> QED
    BY <2>0, <2>3
<1>5. ASSUME NEW k \in 1..n PROVE q[k] = p[k]
  <2>1. q[k] \in Datum /\ p[k] \in Datum
    BY <1>1, <1>2 DEF DataLists
  <2>2. q[k].off = p[k].off
    BY <1>3, <1>4
  <2>3. \A x \in Datum : x = [align |-> x.align, off |-> x.off, units |-> x.units]
    BY DEF Datum
  <2>4. q[k].align = p[k].align /\ q[k].units = p[k].units
    BY <1>2
  <2> QED
    BY ONLY <2>1, <2>2, <2>3, <2>4
<1>6. p \in Seq(Datum) /\ q \in Seq(Datum)
  BY <1>1, <1>2 DEF DataLists
<1>7. p = [k \in 1..n |-> p[k]] /\ q = [k \in 1..n |-> q[k]]
  BY <1>1, <1>2, <1>6
<1>8. q = p
  BY ONLY <1>5, <1>7
<1> QED
  BY <1>8 DEF p, q

LEMMA LaidOutTwice ==
  ASSUME NEW layout \in BOOLEAN, NEW rc \in Nat, NEW s \in Scns, NEW untouched \in BOOLEAN,
         NEW z, z = LaidOut(layout, rc, s, untouched)
  PROVE  /\ LaidOut(layout, rc, z, untouched) = z
         /\ z.type = s.type /\ z.dirty = s.dirty /\ (z.data = <<>> <=> s.data = <<>>)
         /\ ~untouched => (Unaligned(z) <=> Unaligned(s))
         /\ layout => (Misplaced(z) <=> Misplaced(s))
<1>1. /\ s.data \in DataLists /\ s.align \in Nat /\ s.off \in Nat /\ s.size \in Nat
  BY DEF Scns
<1>2. /\ AlignFor(s) \in Nat \ {0} /\ Fitted(s) \in Scns /\ Fitted(s).data = Placed(s.data)
      /\ Fitted(s).size = Extent(Placed(s.data)) /\ Fitted(s).align = s.align
      /\ Larger(AlignFor(s), AlignOf(Placed(s.data))) \in Nat \ {0}
  BY LaidOutType
<1>3. ASSUME NEW y \in Scns, NEW al \in Nat \ {0}
      PROVE  /\ Moved(Moved(y, rc, al), rc, al) = Moved(y, rc, al)
             /\ Moved(y, rc, al) \in Scns
             /\ Moved(y, rc, al).data = y.data /\ Moved(y, rc, al).size = y.size
             /\ Moved(y, rc, al).type = y.type /\ Moved(y, rc, al).dirty = y.dirty
             /\ Moved(y, rc, al).align = al
  <2> DEFINE off == RoundUp(rc, al)
             size == y.size
             m == [y EXCEPT !.align = al, !.off = off, !.ssize = size, !.soff = off]
  <2>0. Moved(y, rc, al) \in Scns
    BY LaidOutType
  <2> HIDE DEF off
  <2>1. /\ [m EXCEPT !.align = al, !.off = off, !.ssize = m.size, !.soff = off] = m
        /\ m.data = y.data /\ m.size = y.size /\ m.type = y.type /\ m.dirty = y.dirty /\ m.align = al
    BY DEF Scns
  <2>2. Moved(y, rc, al) = m
    BY DEF Moved, off
  <2>3. Moved(m, rc, al) = [m EXCEPT !.align = al, !.off = off, !.ssize = m.size, !.soff = off]
    BY DEF Moved, off
  <2> HIDE DEF m
  <2> QED
    BY <2>0, <2>1, <2>2, <2>3
<1>4. CASE layout
  <2>1. z = Kept(s)
    BY <1>4 DEF LaidOut
  <2>2. /\ Kept(z) = z /\ z.type = s.type /\ z.dirty = s.dirty /\ z.data = s.data
        /\ z.align = s.align /\ z.off = s.off /\ z.size = s.size
    BY <2>1 DEF Kept, Scns
  <2> QED
    BY <1>4, <2>2 DEF LaidOut, Unaligned, Misplaced, AlignFor
<1>5. CASE ~layout /\ untouched
  <2> DEFINE al == AlignFor(s)
  <2>1. z = Moved(s, rc, al)
    BY <1>5 DEF LaidOut
  <2>2. al \in Nat \ {0}
    BY <1>2
  <2> HIDE DEF al
  <2>3. /\ Moved(z, rc, al) = z /\ z.data = s.data /\ z.type = s.type /\ z.dirty = s.dirty
        /\ z.align = al
    BY <1>3, <2>1, <2>2
  <2>4. AlignFor(z) = al
    BY <2>2, <2>3 DEF AlignFor
  <2> QED
    BY <1>5, <2>3, <2>4 DEF LaidOut
<1>6. CASE ~layout /\ ~untouched
  <2> DEFINE y == Fitted(s)
             p == Placed(s.data)
             x == AlignOf(p)
             al == Larger(AlignFor(s), x)
             ext == Extent(p)
  <2>1. z = Moved(y, rc, al)
    BY <1>6 DEF LaidOut
  <2>2. /\ al \in Nat \ {0} /\ y \in Scns /\ y.data = p /\ y.size = ext
    BY <1>2
  <2>3. p \in DataLists /\ Placed(p) = p /\ Len(p) = Len(s.data)
        /\ \A k \in 1..Len(s.data) : p[k].align = s.data[k].align
    BY <1>1, PlacedType, PlacedTwice
  <2>4. x \in Nat /\ AlignFor(s) \in Nat
    <3> HIDE DEF p
    <3> QED
      BY <1>2, <2>3, ExtentType
  <2>5. al >= x
    BY <2>4 DEF Larger
  <2>6. y.type = s.type /\ y.dirty = s.dirty
    <3> HIDE DEF p, ext
    <3>1. y = [s EXCEPT !.data = p, !.size = ext]
      BY DEF Fitted, p, ext
    <3> HIDE DEF y
    <3> QED
      BY <3>1 DEF Scns
  <2> HIDE DEF al, y, p, ext
  <2>7. /\ Moved(z, rc, al) = z /\ z.data = p /\ z.type = s.type /\ z.dirty = s.dirty
        /\ z.align = al /\ z.size = ext /\ z \in Scns
    BY <1>3, <2>1, <2>2, <2>6
  <2>8. AlignFor(z) = al
    BY <2>2, <2>7 DEF AlignFor
  <2>9. Placed(z.data) = p
    BY <2>3, <2>7
  <2>10. Fitted(z) = z
    <3>1. [z EXCEPT !.data = p, !.size = ext] = z
      BY <2>7 DEF Scns
    <3>2. Extent(p) = ext
      BY DEF ext, p
    <3> QED
      BY <2>9, <3>1, <3>2 DEF Fitted
  <2>11. Larger(AlignFor(z), AlignOf(Placed(z.data))) = al
    <3>1. AlignOf(Placed(z.data)) = x
      BY <2>9 DEF x
    <3> HIDE DEF x
    <3> QED
      BY <2>2, <2>4, <2>5, <2>8, <3>1 DEF Larger
  <2>12. LaidOut(layout, rc, z, untouched) = z
    BY <1>6, <2>7, <2>10, <2>11 DEF LaidOut
  <2>13. Unaligned(z) <=> Unaligned(s)
    BY <2>3, <2>7 DEF Unaligned
  <2>14. z.data = <<>> <=> s.data = <<>>
    <3>1. p \in Seq(Datum) /\ s.data \in Seq(Datum)
      BY <1>1, <2>3 DEF DataLists
    <3> QED
      BY <2>3, <2>7, <3>1
  <2> QED
    BY <1>6, <2>7, <2>12, <2>13, <2>14
<1> QED
  BY <1>4, <1>5, <1>6
-----------------------------------------------------------------------------
(* An object that is laid out, laid out again *)

\* Where an extent goes does not depend on what else the descriptor says.
LEMMA InsertFrame ==
  ASSUME NEW w \in Works, NEW kind, NEW i, NEW start, NEW size
  PROVE  /\ Insert(w, kind, i, start, size).e = w.e
         /\ w.how # "ok" => Insert(w, kind, i, start, size) = w
         /\ \A d : Insert(With(w, d), kind, i, start, size)
                     = With(Insert(w, kind, i, start, size), d)
<1> DEFINE x == [kind |-> kind, ndx |-> i, start |-> start, size |-> size]
           v == [w EXCEPT !.ext = InsertExtent(@, x), !.rc = Larger(@, start + size)]
<1>1. ASSUME NEW d
      PROVE  Insert(With(w, d), kind, i, start, size)
               = With(Insert(w, kind, i, start, size), d)
  <2> DEFINE u == With(w, d)
             new == InsertExtent(w.ext, x)
             rc == Larger(w.rc, start + size)
  <2>1. /\ u.how = w.how /\ u.ext = w.ext /\ u.rc = w.rc
        /\ \A p, q : With([w EXCEPT !.ext = p, !.rc = q], d) = [u EXCEPT !.ext = p, !.rc = q]
        /\ With(Fails(w, "layout"), d) = Fails(u, "layout")
    BY DEF With, Works, Fails
  <2>2. Insert(u, kind, i, start, size)
          = Then(u, IF Fits(w.ext, x) THEN [u EXCEPT !.ext = new, !.rc = rc]
                    ELSE Fails(u, "layout"))
    <3> HIDE DEF u
    <3> QED
      BY <2>1 DEF Insert
  <2>3. Insert(w, kind, i, start, size)
          = Then(w, IF Fits(w.ext, x) THEN [w EXCEPT !.ext = new, !.rc = rc]
                    ELSE Fails(w, "layout"))
    BY DEF Insert
  <2> HIDE DEF u, v, x, new, rc
  <2>4. With(w, d) = u
    BY DEF u
  <2> DEFINE wide == [w EXCEPT !.ext = new, !.rc = rc]
             wideu == [u EXCEPT !.ext = new, !.rc = rc]
  <2>5. With(wide, d) = wideu
    BY <2>1
  <2> HIDE DEF wide, wideu
  <2>6. /\ Insert(u, kind, i, start, size)
             = IF u.how = "ok" THEN IF Fits(w.ext, x) THEN wideu ELSE Fails(u, "layout") ELSE u
        /\ Insert(w, kind, i, start, size)
             = IF w.how = "ok" THEN IF Fits(w.ext, x) THEN wide ELSE Fails(w, "layout") ELSE w
    BY <2>2, <2>3 DEF Then, wide, wideu
  <2> QED
    BY <2>1, <2>4, <2>5, <2>6
<1>2. Insert(w, kind, i, start, size).e = w.e
  <2> DEFINE new == InsertExtent(w.ext, x)
             rc == Larger(w.rc, start + size)
  <2>1. Insert(w, kind, i, start, size)
          = Then(w, IF Fits(w.ext, x) THEN [w EXCEPT !.ext = new, !.rc = rc]
                    ELSE Fails(w, "layout"))
    BY DEF Insert
  <2> HIDE DEF x, new, rc
  <2>2. [w EXCEPT !.ext = new, !.rc = rc].e = w.e /\ Fails(w, "layout").e = w.e
    BY DEF Works, Fails
  <2> QED
    BY <2>1, <2>2 DEF Then
<1>3. w.how # "ok" => Insert(w, kind, i, start, size) = w
  BY DEF Insert, Then
<1> QED
  BY <1>1, <1>2, <1>3

LEMMA InsertScnFrame ==
  ASSUME NEW w \in Works, NEW i
  PROVE  /\ InsertScn(w, i).e = w.e
         /\ w.how # "ok" => InsertScn(w, i) = w
         /\ \A d : d.scns[i] = w.e.scns[i] => InsertScn(With(w, d), i) = With(InsertScn(w, i), d)
<1> DEFINE s == w.e.scns[i]
           soff == s.soff
           ssize == s.ssize
           v == Insert(w, "scn", i, soff, ssize)
<1>1. /\ v.e = w.e /\ (w.how # "ok" => v = w)
      /\ \A d : Insert(With(w, d), "scn", i, soff, ssize) = With(v, d)
  <2> HIDE DEF soff, ssize
  <2> QED
    BY InsertFrame
<1>2. InsertScn(w, i) = IF ssize = 0 THEN w ELSE v
  BY DEF InsertScn
<1>3. ASSUME NEW d, d.scns[i] = s
      PROVE  InsertScn(With(w, d), i)
               = IF ssize = 0 THEN With(w, d) ELSE Insert(With(w, d), "scn", i, soff, ssize)
  <2>1. With(w, d).e = d
    BY DEF With, Works
  <2> QED
    BY <1>3, <2>1 DEF InsertScn
<1> HIDE DEF v, soff, ssize
<1> QED
  BY <1>1, <1>2, <1>3

\* The same object but for its sections; a misreading is not forgotten.
OnlySections(d, b) ==
  /\ b.ehdr = d.ehdr /\ b.layout = d.layout /\ b.cmd = d.cmd /\ b.class = d.class
  /\ b.nphdr = d.nphdr /\ b.nscn = d.nscn /\ b.phdr = d.phdr
  /\ b.fd = d.fd /\ b.loaded = d.loaded /\ b.writes = d.writes
  /\ b.raw = d.raw /\ b.rawsize = d.rawsize /\ b.mapped = d.mapped
  /\ (d.misread => b.misread)
  /\ DOMAIN b.scns = DOMAIN d.scns

LEMMA SectionFrame ==
  ASSUME NEW d \in Opens, NEW i \in DOMAIN d.scns, NEW s, NEW m, d.misread => m,
         NEW b, b = Section(d, i, s, m)
  PROVE  /\ OnlySections(d, b) /\ b.scns[i] = s /\ b.misread = m
         /\ \A j \in DOMAIN d.scns \ {i} : b.scns[j] = d.scns[j]
         /\ s = d.scns[i] /\ m = d.misread => b = d
<1>1. d \in Descs /\ d.scns \in Tables
  BY DEF Opens, Descs
<1> DEFINE t == [d.scns EXCEPT ![i] = s]
<1>2. /\ DOMAIN t = DOMAIN d.scns /\ t[i] = s
      /\ \A j \in DOMAIN d.scns \ {i} : t[j] = d.scns[j]
      /\ s = d.scns[i] => t = d.scns
  <2>1. d.scns = [j \in DOMAIN d.scns |-> d.scns[j]]
    BY <1>1, TableType
  <2> QED
    BY <2>1
<1>3. b = [d EXCEPT !.misread = m, !.scns = t]
  BY DEF Section
<1> HIDE DEF t
<1>4. /\ b.ehdr = d.ehdr /\ b.layout = d.layout /\ b.cmd = d.cmd /\ b.class = d.class
      /\ b.nphdr = d.nphdr /\ b.nscn = d.nscn /\ b.phdr = d.phdr /\ b.scns = t
      /\ b.fd = d.fd /\ b.loaded = d.loaded /\ b.writes = d.writes
      /\ b.raw = d.raw /\ b.rawsize = d.rawsize /\ b.mapped = d.mapped /\ b.misread = m
  BY <1>1, <1>3 DEF Descs
<1>5. t = d.scns /\ m = d.misread => b = d
  <2>1. [d EXCEPT !.misread = d.misread, !.scns = d.scns] = d
    BY <1>1 DEF Descs
  <2> QED
    BY <1>3, <2>1
<1> QED
  BY <1>2, <1>4, <1>5 DEF OnlySections

\* A section that is placed once, and again.
LEMMA PlacedAgain ==
  ASSUME NEW w \in Readies("write"), w.how = "ok", NEW i \in Nat,
         NEW v, v = ResyncScn(w, i), v.how = "ok"
  PROVE  /\ OnlySections(w.e, v.e)
         /\ \A j \in DOMAIN w.e.scns \ {i} : v.e.scns[j] = w.e.scns[j]
         /\ \A d \in Opens :
              (/\ d.cmd = "write" /\ d.layout = w.e.layout
               /\ DOMAIN w.e.scns \subseteq DOMAIN d.scns
               /\ IF i \in DOMAIN w.e.scns THEN d.scns[i] = v.e.scns[i]
                  ELSE i \notin DOMAIN d.scns)
              => ResyncScn(With(w, d), i) = With(v, d)
<1>1. w \in Goods("write") /\ w.e \in Opens /\ w \in Works /\ w.e.cmd = "write"
      /\ w.rc \in Nat /\ w.e.layout \in BOOLEAN
  BY WorkFields DEF Readies, Goods, Opens, Descs
<1>2. ASSUME NEW d \in Opens, d.cmd = "write", d.layout = w.e.layout,
             DOMAIN w.e.scns \subseteq DOMAIN d.scns
      PROVE  /\ With(w, d) \in Goods("write") /\ With(w, d).e = d /\ With(w, d).how = "ok"
             /\ With(w, d).rc = w.rc
  BY <1>1, <1>2, WithType
<1>3. CASE i \notin DOMAIN w.e.scns
  <2>1. v = w
    BY <1>3 DEF ResyncScn
  <2>2. \A d \in Opens :
          (/\ d.cmd = "write" /\ d.layout = w.e.layout
           /\ DOMAIN w.e.scns \subseteq DOMAIN d.scns /\ i \notin DOMAIN d.scns)
          => ResyncScn(With(w, d), i) = With(v, d)
    BY <1>2, <2>1 DEF ResyncScn
  <2> QED
    BY <1>3, <2>1, <2>2 DEF OnlySections
<1>4. CASE i \in DOMAIN w.e.scns /\ w.e.scns[i].type \in {"null", "nobits"}
  <2>1. v = w
    BY <1>4 DEF ResyncScn
  <2>2. \A d \in Opens :
          (/\ d.cmd = "write" /\ d.layout = w.e.layout
           /\ DOMAIN w.e.scns \subseteq DOMAIN d.scns /\ d.scns[i] = v.e.scns[i])
          => ResyncScn(With(w, d), i) = With(v, d)
    BY <1>2, <1>4, <2>1 DEF ResyncScn
  <2> QED
    BY <1>4, <2>1, <2>2 DEF OnlySections
<1>5. CASE i \in DOMAIN w.e.scns /\ ~(w.e.scns[i].type \in {"null", "nobits"})
  <2> DEFINE s == w.e.scns[i]
             u == s.data = <<>> /\ ~s.dirty
             lay == w.e.layout
             z == LaidOut(lay, w.rc, s, u)
             a == Section(w.e, i, z, w.e.misread)
             x == LayOut(w, i, u)
  <2>1. s \in Scns /\ u \in BOOLEAN /\ lay \in BOOLEAN /\ w.e.misread \in BOOLEAN
    BY <1>1, <1>5, ScnOf DEF Opens, Descs
  <2>2. v = InsertScn(x, i)
    <3>1. ComputeExtents(w, i) = x
      BY <1>1 DEF ComputeExtents
    <3> HIDE DEF x
    <3> QED
      BY <1>5, <3>1 DEF ResyncScn
  <2>3. x = IF ~u /\ Unaligned(s) THEN Fails(w, "error")
            ELSE IF ~u /\ lay /\ Misplaced(s) THEN Fails(w, "layout")
            ELSE With(w, a)
    <3> DEFINE t == s
    <3>0. t = w.e.scns[i]
      OBVIOUS
    <3> HIDE DEF u
    <3> QED
      BY ONLY LayOutGives, <1>1, <1>5, <2>1, w.how = "ok"
  <2>4. z \in Scns
    <3> HIDE DEF s, u
    <3> QED
      BY <1>1, <2>1, LaidOutType
  <2>5. /\ LaidOut(lay, w.rc, z, u) = z
        /\ z.type = s.type /\ z.dirty = s.dirty /\ (z.data = <<>> <=> s.data = <<>>)
        /\ ~u => (Unaligned(z) <=> Unaligned(s))
        /\ lay => (Misplaced(z) <=> Misplaced(s))
    <3> HIDE DEF s, u, lay
    <3> QED
      BY ONLY <1>1, <2>1, LaidOutTwice DEF z
  <2> HIDE DEF x, z
  <2>6. x \in Works
    <3>1. x \in Goods("write")
      <4>1. ComputeExtents(w, i) = x
        BY <1>1 DEF ComputeExtents, x
      <4> QED
        BY <1>1, <1>5, <4>1, ComputeExtentsType
    <3> QED
      BY <3>1 DEF Goods
  <2>7. x.how = "ok" /\ v.e = x.e
    BY <2>2, <2>6, InsertScnFrame
  <2>8. ~(~u /\ Unaligned(s)) /\ ~(~u /\ lay /\ Misplaced(s)) /\ x = With(w, a)
    <3>1. Fails(w, "error").how # "ok" /\ Fails(w, "layout").how # "ok"
      BY <1>1 DEF Fails, Works
    <3> HIDE DEF u, s, a
    <3> QED
      BY <2>3, <2>7, <3>1
  <2>9. /\ x.e = a /\ OnlySections(w.e, a) /\ a.scns[i] = z
        /\ \A j \in DOMAIN w.e.scns \ {i} : a.scns[j] = w.e.scns[j]
    <3>1. With(w, a).e = a
      BY <1>1 DEF With, Works
    <3>2. a = Section(w.e, i, z, w.e.misread)
      OBVIOUS
    <3> HIDE DEF a, s, u, lay
    <3>3. /\ OnlySections(w.e, a) /\ a.scns[i] = z
          /\ \A j \in DOMAIN w.e.scns \ {i} : a.scns[j] = w.e.scns[j]
      BY ONLY SectionFrame, <1>1, <1>5, <3>2
    <3> QED
      BY <2>8, <3>1, <3>3
  <2> HIDE DEF a
  <2>10. ASSUME NEW d \in Opens, d.cmd = "write", d.layout = w.e.layout,
                DOMAIN w.e.scns \subseteq DOMAIN d.scns, d.scns[i] = v.e.scns[i]
         PROVE  ResyncScn(With(w, d), i) = With(v, d)
    <3> DEFINE y == With(w, d)
    <3>1. y \in Goods("write") /\ y.e = d /\ y.how = "ok" /\ y.rc = w.rc
      BY <1>2, <2>10
    <3>2. d.scns[i] = z /\ i \in DOMAIN d.scns
      BY <1>5, <2>7, <2>9, <2>10
    <3>3. y = With(x, d) /\ With(y, d) = y
      BY <1>1, <2>8 DEF With, Works
    <3> HIDE DEF y
    <3>4. ResyncScn(y, i) = InsertScn(ComputeExtents(y, i), i)
      BY <1>5, <2>5, <3>1, <3>2 DEF ResyncScn
    <3>5. ComputeExtents(y, i) = LayOut(y, i, u)
      <4>1. (d.scns[i].data = <<>> /\ ~d.scns[i].dirty) = u
        BY <2>5, <3>2
      <4> HIDE DEF u
      <4> QED
        BY <2>10, <3>1, <4>1 DEF ComputeExtents
    <3>6. LayOut(y, i, u) = y
      <4> HIDE DEF u, s
      <4>1. i \in DOMAIN y.e.scns /\ z = y.e.scns[i] /\ y.e.layout = lay /\ d.misread \in BOOLEAN
        BY <2>10, <3>1, <3>2 DEF Opens, Descs
      <4>2. LayOut(y, i, u) =
              IF ~u /\ Unaligned(z) THEN Fails(y, "error")
              ELSE IF ~u /\ y.e.layout /\ Misplaced(z) THEN Fails(y, "layout")
              ELSE With(y, Section(y.e, i, LaidOut(y.e.layout, y.rc, z, u), y.e.misread))
        BY ONLY LayOutGives, <2>1, <3>1, <4>1
      <4>3. LayOut(y, i, u) = With(y, Section(d, i, z, d.misread))
        BY <2>5, <2>8, <3>1, <4>1, <4>2
      <4>4. Section(d, i, z, d.misread) = d
        BY <2>10, <3>2, SectionFrame
      <4> QED
        BY <3>3, <4>3, <4>4
    <3>7. InsertScn(y, i) = With(InsertScn(x, i), d)
      <4>1. d.scns[i] = x.e.scns[i]
        BY <2>9, <3>2
      <4> QED
        BY <2>6, <3>3, <4>1, InsertScnFrame
    <3> QED
      BY <2>2, <3>4, <3>5, <3>6, <3>7 DEF y
  <2> QED
    BY <1>5, <2>7, <2>9, <2>10
<1> QED
  BY <1>3, <1>4, <1>5
-----------------------------------------------------------------------------
\* All sections that are placed: each step leaves the other sections alone.
AllPlaced(f, w, v) ==
  /\ \A i \in 0..MaxScns : f[i].how = "ok" /\ OnlySections(w.e, f[i].e)
  /\ \A i \in 1..MaxScns :
       /\ f[i] = ResyncScn(f[i - 1], i)
       /\ OnlySections(f[i - 1].e, f[i].e)
       /\ i \in DOMAIN w.e.scns => v.e.scns[i] = f[i].e.scns[i]

LEMMA PlacedSections ==
  ASSUME NEW w \in Readies("write"), NEW f, IsLoop(f, w, "write"),
         NEW v, v = f[MaxScns], v.how = "ok"
  PROVE  AllPlaced(f, w, v)
<1>1. v = f[MaxScns]
  OBVIOUS
<1>2. /\ f[0] = w /\ \A i \in 1..MaxScns : f[i] = Then(f[i - 1], ResyncScn(f[i - 1], i))
      /\ \A i \in 0..MaxScns : f[i] \in Readies("write")
  BY DEF IsLoop
<1>3. MaxScns \in Nat
  BY Sizes
\* No step has failed.
<1>7. \A i \in 0..MaxScns : f[i].how = "ok"
  <2> SUFFICES ASSUME NEW i \in 0..MaxScns, f[i].how # "ok" PROVE FALSE
    OBVIOUS
  <2> DEFINE S == {m \in Nat : i + m <= MaxScns => f[i + m].how # "ok"}
  <2>1. 0 \in S
    BY <1>3
  <2>2. ASSUME NEW m \in Nat, m \in S PROVE m + 1 \in S
    <3> SUFFICES ASSUME i + m + 1 <= MaxScns PROVE f[i + m + 1].how # "ok"
      OBVIOUS
    <3>1. f[i + m].how # "ok"
      BY <2>2, <1>3
    <3>2. i + m + 1 \in 1..MaxScns /\ i + m + 1 - 1 = i + m
      BY <1>3
    <3>3. f[i + m + 1] = Then(f[i + m], ResyncScn(f[i + m], i + m + 1))
      BY <1>2, <3>2
    <3> QED
      BY <3>1, <3>3 DEF Then
  <2>3. MaxScns - i \in S
    <3>1. MaxScns - i \in Nat
      BY <1>3
    <3> HIDE DEF S
    <3> QED
      BY <2>1, <2>2, <3>1, Induction
  <2>4. i + (MaxScns - i) = MaxScns
    BY <1>3
  <2>5. f[MaxScns].how # "ok"
    BY <2>3, <2>4, <1>3
  <2> QED
    BY <2>5, <1>1
<1>8. ASSUME NEW i \in 1..MaxScns
      PROVE  /\ f[i] = ResyncScn(f[i - 1], i) /\ f[i].how = "ok"
             /\ f[i - 1] \in Readies("write") /\ f[i - 1].how = "ok" /\ i \in Nat
             /\ OnlySections(f[i - 1].e, f[i].e)
             /\ \A j \in DOMAIN f[i - 1].e.scns \ {i} : f[i].e.scns[j] = f[i - 1].e.scns[j]
  <2>1. i - 1 \in 0..MaxScns /\ i \in 0..MaxScns /\ i \in Nat
    BY <1>3
  <2>2. /\ f[i] = ResyncScn(f[i - 1], i) /\ f[i].how = "ok"
        /\ f[i - 1] \in Readies("write") /\ f[i - 1].how = "ok"
    BY <1>2, <1>7, <2>1 DEF Then
  <2> QED
    BY ONLY <2>1, <2>2, PlacedAgain
\* What a step leaves alone
<1>9. \A i \in 0..MaxScns : OnlySections(w.e, f[i].e)
  <2> DEFINE S == {m \in Nat : m <= MaxScns => OnlySections(w.e, f[m].e)}
  <2>1. 0 \in S
    BY <1>2 DEF OnlySections
  <2>2. ASSUME NEW m \in Nat, m \in S PROVE m + 1 \in S
    <3> SUFFICES ASSUME m + 1 <= MaxScns PROVE OnlySections(w.e, f[m + 1].e)
      OBVIOUS
    <3>1. m + 1 \in 1..MaxScns /\ m + 1 - 1 = m /\ OnlySections(w.e, f[m].e)
      BY <2>2, <1>3
    <3>2. OnlySections(f[m].e, f[m + 1].e)
      BY <1>8, <3>1
    <3> QED
      BY <3>1, <3>2 DEF OnlySections
  <2>3. Nat \subseteq S
    <3> HIDE DEF S
    <3> QED
      BY <2>1, <2>2, Induction
  <2> QED
    BY <2>3
<1>10. ASSUME NEW i \in 1..MaxScns, i \in DOMAIN w.e.scns PROVE v.e.scns[i] = f[i].e.scns[i]
  <2> DEFINE S == {m \in Nat : i + m <= MaxScns => f[i + m].e.scns[i] = f[i].e.scns[i]}
  <2>1. 0 \in S
    BY <1>3
  <2>2. ASSUME NEW m \in Nat, m \in S PROVE m + 1 \in S
    <3> SUFFICES ASSUME i + m + 1 <= MaxScns PROVE f[i + m + 1].e.scns[i] = f[i].e.scns[i]
      OBVIOUS
    <3> DEFINE k == i + m + 1
    <3>1. k \in 1..MaxScns /\ k - 1 = i + m /\ k # i /\ i + m \in 0..MaxScns
      BY <1>3
    <3>2. f[i + m].e.scns[i] = f[i].e.scns[i]
      BY <2>2, <1>3
    <3> HIDE DEF k
    <3>3. i \in DOMAIN f[i + m].e.scns
      BY <1>9, <1>10, <3>1 DEF OnlySections
    <3>4. f[k].e.scns[i] = f[k - 1].e.scns[i]
      BY <1>8, <3>1, <3>3
    <3> QED
      BY <3>1, <3>2, <3>4 DEF k
  <2>3. MaxScns - i \in S
    <3>1. MaxScns - i \in Nat
      BY <1>3
    <3> HIDE DEF S
    <3> QED
      BY <2>1, <2>2, <3>1, Induction
  <2>4. i + (MaxScns - i) = MaxScns
    BY <1>3
  <2> QED
    BY <2>3, <2>4, <1>1, <1>3
<1> QED
  BY <1>7, <1>8, <1>9, <1>10 DEF AllPlaced

\* All that are placed once, and again
LEMMA PlacedAllAgain ==
  ASSUME NEW w \in Readies("write"), w.how = "ok",
         NEW v, v = ResyncSections(w), v.how = "ok",
         NEW d \in Opens, d.cmd = "write", d.layout = w.e.layout, d.ehdr \in Ehdrs,
         DOMAIN w.e.scns \subseteq DOMAIN d.scns, DOMAIN d.scns \subseteq DOMAIN w.e.scns \cup {0},
         \A i \in DOMAIN w.e.scns \ {0} : d.scns[i] = v.e.scns[i]
  PROVE  ResyncSections(With(w, d)) = With(v, d)
<1>1. PICK f : IsLoop(f, w, "write") /\ v = f[MaxScns]
  BY SectionsLoop
<1>2. /\ f[0] = w /\ \A i \in 1..MaxScns : f[i] = Then(f[i - 1], ResyncScn(f[i - 1], i))
      /\ \A i \in 0..MaxScns : f[i] \in Readies("write")
  BY <1>1 DEF IsLoop
<1>3. MaxScns \in Nat /\ w \in Goods("write") /\ w.e \in Opens /\ w.e.cmd = "write"
  BY Sizes, WorkFields DEF Readies
<1>4. With(w, d) \in Readies("write")
  <2>1. With(w, d) \in Goods("write") /\ With(w, d).e = d
    BY <1>3, WithType
  <2> QED
    BY <2>1 DEF Readies
<1>5. PICK g : IsLoop(g, With(w, d), "write") /\ ResyncSections(With(w, d)) = g[MaxScns]
  BY <1>4, SectionsLoop
<1>6. g[0] = With(w, d) /\ \A i \in 1..MaxScns : g[i] = Then(g[i - 1], ResyncScn(g[i - 1], i))
  BY <1>5 DEF IsLoop
<1>7. AllPlaced(f, w, v)
  BY <1>1, PlacedSections
<1>8. \A i \in 0..MaxScns : f[i].how = "ok" /\ OnlySections(w.e, f[i].e)
  BY <1>7 DEF AllPlaced
<1>9. ASSUME NEW i \in 1..MaxScns
      PROVE  /\ f[i] = ResyncScn(f[i - 1], i) /\ OnlySections(f[i - 1].e, f[i].e)
             /\ i \in DOMAIN w.e.scns => v.e.scns[i] = f[i].e.scns[i]
  BY <1>7 DEF AllPlaced
\* The second time it goes as the first time.
<1>11. ASSUME NEW m \in Nat, m <= MaxScns => g[m] = With(f[m], d), m + 1 <= MaxScns
       PROVE  g[m + 1] = With(f[m + 1], d)
  <2> DEFINE i == m + 1
             x == f[m]
             y == f[i]
  <2>1. i \in 1..MaxScns /\ i - 1 = m /\ m \in 0..MaxScns /\ i # 0 /\ i \in Nat /\ m <= MaxScns
        /\ i \in 0..MaxScns
    BY <1>3, <1>11
  <2> HIDE DEF i
  <2>2. g[m] = With(x, d) /\ g[i] = Then(g[m], ResyncScn(g[m], i))
    BY <1>6, <1>11, <2>1
  <2>3. /\ y = ResyncScn(x, i) /\ y.how = "ok" /\ x \in Readies("write") /\ x.how = "ok"
        /\ OnlySections(x.e, y.e)
    <3>1. y = ResyncScn(x, i) /\ OnlySections(x.e, y.e)
      BY <1>9, <2>1
    <3>2. x.how = "ok" /\ y.how = "ok"
      BY <1>8, <2>1
    <3>3. x \in Readies("write")
      BY <1>2, <2>1
    <3> QED
      BY <3>1, <3>2, <3>3
  <2>4. OnlySections(w.e, x.e)
    BY <1>8, <2>1
  <2>5. d.layout = x.e.layout /\ DOMAIN x.e.scns = DOMAIN w.e.scns
    BY <2>4 DEF OnlySections
  <2>6. i \in DOMAIN x.e.scns => d.scns[i] = y.e.scns[i]
    BY <1>9, <2>1, <2>5
  <2>7. i \notin DOMAIN x.e.scns => i \notin DOMAIN d.scns
    BY <2>1, <2>5
  <2> HIDE DEF x, y
  <2>8. ResyncScn(With(x, d), i) = With(y, d)
    <3>1. DOMAIN x.e.scns \subseteq DOMAIN d.scns
      BY <2>5
    <3>2. \A b \in Opens :
              (/\ b.cmd = "write" /\ b.layout = x.e.layout
               /\ DOMAIN x.e.scns \subseteq DOMAIN b.scns
               /\ IF i \in DOMAIN x.e.scns THEN b.scns[i] = y.e.scns[i]
                  ELSE i \notin DOMAIN b.scns)
              => ResyncScn(With(x, b), i) = With(y, b)
      BY ONLY PlacedAgain, <2>1, <2>3
    <3> QED
      BY ONLY <2>5, <2>6, <2>7, <3>1, <3>2, d \in Opens, d.cmd = "write"
  <2>9. With(x, d).how = "ok"
    <3>1. x \in Works
      BY <2>3 DEF Readies, Goods
    <3> QED
      BY <2>3, <3>1 DEF With, Works
  <2>10. g[i] = With(f[i], d)
    BY <2>2, <2>8, <2>9 DEF Then, y
  <2> QED
    BY <2>10 DEF i
<1>12. g[MaxScns] = With(f[MaxScns], d)
  <2> DEFINE S == {m \in Nat : m <= MaxScns => g[m] = With(f[m], d)}
  <2>1. 0 \in S
    BY <1>2, <1>6
  <2>2. ASSUME NEW m \in Nat, m \in S PROVE m + 1 \in S
    BY <1>11, <2>2
  <2>3. Nat \subseteq S
    <3> HIDE DEF S
    <3> QED
      BY <2>1, <2>2, Induction
  <2> QED
    BY <1>3, <2>3
<1>13. \A i \in DOMAIN w.e.scns : i \in Nat
  BY <1>3, ScnOf
<1> QED
  BY <1>1, <1>5, <1>12

\* The tables too.
LEMMA TablesAgain ==
  ASSUME NEW w \in Readies("write"),
         NEW d, d.layout = w.e.layout, d.nphdr = w.e.nphdr, d.nscn = w.e.nscn, d.phdr = w.e.phdr,
         d.raw = None,
         w.e.layout => d.ehdr.phoff = w.e.ehdr.phoff /\ d.ehdr.shoff = w.e.ehdr.shoff
  PROVE  /\ ResyncPhdr(w).e = w.e /\ ResyncPhdr(With(w, d)) = With(ResyncPhdr(w), d)
         /\ ResyncShdr(w).e = w.e /\ ResyncShdr(With(w, d)) = With(ResyncShdr(w), d)
<1>1. w \in Works /\ w.e \in Opens /\ w.e.raw = None /\ w \in Goods("write")
  BY WorkFields DEF Readies, Goods, Opens
<1> DEFINE u == With(w, d)
           phoff == IF w.e.layout THEN w.e.ehdr.phoff ELSE RoundUp(w.rc, HdrAlign)
           shoff == IF w.e.layout THEN w.e.ehdr.shoff ELSE RoundUp(w.rc, HdrAlign)
           psize == w.e.nphdr * PhdrSize
           ssize == w.e.nscn * ShdrSize
           p == Insert(w, "phdr", 0, phoff, psize)
           s == Insert(w, "shdr", 0, shoff, ssize)
<1>2. /\ u.e = d /\ u.how = w.how /\ u.rc = w.rc
      /\ With(Fails(w, "layout"), d) = Fails(u, "layout") /\ Fails(w, "layout").e = w.e
  BY <1>1 DEF With, Fails, Works
<1>3. /\ p.e = w.e /\ Insert(u, "phdr", 0, phoff, psize) = With(p, d)
      /\ s.e = w.e /\ Insert(u, "shdr", 0, shoff, ssize) = With(s, d)
  <2> HIDE DEF phoff, shoff, psize, ssize
  <2> QED
    BY <1>1, InsertFrame
\* That the table cannot be read shows when it is written.
<1>4. ASSUME NEW x \in {w, u}, x.how = "ok"
      PROVE  WithPhdr(x).how # "fault" /\ [WithPhdr(x) EXCEPT !.how = "ok"] = x
  <2>1. WithPhdr(x) \in {x, Fails(x, "error")}
    <3>1. x.e.raw = None
      BY <1>1, <1>2
    <3> QED
      BY <3>1 DEF WithPhdr
  <2>2. /\ [x EXCEPT !.how = "ok"] = x /\ [Fails(x, "error") EXCEPT !.how = "ok"] = x
        /\ Fails(x, "error").how = "error"
    <3>1. x \in [e : {x.e}, how : {"ok"}, ext : Seq(Extents), rc : Nat]
      BY <1>1, <1>4 DEF With, Works
    <3> QED
      BY <3>1 DEF Fails
  <2> QED
    BY <1>4, <2>1, <2>2
<1> HIDE DEF u, p, s
<1>5. ResyncPhdr(w) =
        IF w.how # "ok" \/ w.e.nphdr = 0 THEN w
        ELSE IF w.e.layout /\ (w.rc > phoff \/ phoff % HdrAlign # 0) THEN Fails(w, "layout") ELSE p
  BY <1>4 DEF ResyncPhdr, Then, p
<1>6. ResyncPhdr(u) =
        IF w.how # "ok" \/ w.e.nphdr = 0 THEN u
        ELSE IF w.e.layout /\ (w.rc > phoff \/ phoff % HdrAlign # 0) THEN Fails(u, "layout")
        ELSE Insert(u, "phdr", 0, phoff, psize)
  BY <1>2, <1>4 DEF ResyncPhdr, Then
<1>7. ResyncShdr(w) =
        IF w.how # "ok" \/ w.e.nscn = 0 THEN w
        ELSE IF shoff % HdrAlign # 0 THEN Fails(w, "layout") ELSE s
  BY DEF ResyncShdr, Then, s
<1>8. ResyncShdr(u) =
        IF w.how # "ok" \/ w.e.nscn = 0 THEN u
        ELSE IF shoff % HdrAlign # 0 THEN Fails(u, "layout")
        ELSE Insert(u, "shdr", 0, shoff, ssize)
  BY <1>2 DEF ResyncShdr, Then
<1>9. With(w, d) = u
  BY DEF u
<1> HIDE DEF phoff, shoff, psize, ssize
<1> QED
  BY <1>2, <1>3, <1>5, <1>6, <1>7, <1>8, <1>9
-----------------------------------------------------------------------------
\* What the counts are set to, in parts.
TableStart(w, kind) ==
  MaxOf({0} \cup {w.ext[k].start : k \in {n \in 1..Len(w.ext) : w.ext[n].kind = kind}})
CountsIn(w, d) ==
  [phnum |-> IF d.nphdr >= PnXnum THEN PnXnum ELSE d.nphdr,
   shnum |-> IF d.nscn >= LoReserve THEN 0 ELSE d.nscn,
   phoff |-> IF d.layout THEN d.ehdr.phoff ELSE TableStart(w, "phdr"),
   shoff |-> IF d.layout THEN d.ehdr.shoff ELSE TableStart(w, "shdr")]
Zeroth(d) == IF 0 \in DOMAIN d.scns THEN d.scns[0] ELSE NoScn
CountsInZeroth(d) ==
  [Zeroth(d) EXCEPT !.info = IF d.nphdr >= PnXnum THEN d.nphdr ELSE @,
                    !.size = IF d.nscn >= LoReserve THEN d.nscn ELSE @]
Extended(d) == d.nphdr >= PnXnum \/ d.nscn >= LoReserve
Counted(w, d) ==
  [d EXCEPT !.ehdr = CountsIn(w, d),
            !.scns = IF Extended(d) THEN Allocate(d, 0, CountsInZeroth(d)).scns ELSE d.scns]

LEMMA SetCountsForm == \A w : SetCounts(w) = Then(w, With(w, Counted(w, w.e)))
<1> SUFFICES ASSUME NEW w PROVE SetCounts(w) = Then(w, With(w, Counted(w, w.e)))
  OBVIOUS
<1> DEFINE d == w.e
<1>1. /\ CountsIn(w, d) = [phnum |-> IF d.nphdr >= PnXnum THEN PnXnum ELSE d.nphdr,
                           shnum |-> IF d.nscn >= LoReserve THEN 0 ELSE d.nscn,
                           phoff |-> IF d.layout THEN d.ehdr.phoff ELSE TableStart(w, "phdr"),
                           shoff |-> IF d.layout THEN d.ehdr.shoff ELSE TableStart(w, "shdr")]
      /\ ~Extended(d) <=> ~(d.nphdr >= PnXnum) /\ ~(d.nscn >= LoReserve)
  BY DEF CountsIn, Extended
<1>2. CountsInZeroth(d) = [(IF 0 \in DOMAIN d.scns THEN d.scns[0] ELSE NoScn)
                             EXCEPT !.info = IF d.nphdr >= PnXnum THEN d.nphdr ELSE @,
                                    !.size = IF d.nscn >= LoReserve THEN d.nscn ELSE @]
  BY DEF CountsInZeroth, Zeroth
<1> QED
  BY <1>1, <1>2, Zenon DEF SetCounts, Counted, TableStart, Extended

LEMMA CountedForm ==
  ASSUME NEW d \in Opens, d.ehdr \in Ehdrs, NEW w, NEW b, b = Counted(w, d)
  PROVE  /\ b.layout = d.layout /\ b.cmd = d.cmd /\ b.class = d.class
         /\ b.raw = d.raw /\ b.rawsize = d.rawsize
         /\ b.nphdr = d.nphdr /\ b.nscn = d.nscn /\ b.phdr = d.phdr
         /\ d.layout => b.ehdr.phoff = d.ehdr.phoff /\ b.ehdr.shoff = d.ehdr.shoff
         /\ DOMAIN d.scns \subseteq DOMAIN b.scns /\ DOMAIN b.scns \subseteq DOMAIN d.scns \cup {0}
         /\ \A i \in DOMAIN d.scns \ {0} : b.scns[i] = d.scns[i]
         /\ \A v : v.ext = w.ext => Counted(v, b) = b
<1> DEFINE h == CountsIn(w, d)
           s == CountsInZeroth(d)
           t == IF Extended(d) THEN Allocate(d, 0, s).scns ELSE d.scns
<1>1. d \in Descs /\ d.scns \in Tables /\ Zeroth(d) \in Scns /\ d.nphdr \in Nat /\ d.nscn \in Nat
  BY ScnOf, LoadedType DEF Zeroth, Opens, Descs
<1>2. /\ t = [j \in DOMAIN t |-> t[j]]
      /\ DOMAIN d.scns \subseteq DOMAIN t /\ DOMAIN t \subseteq DOMAIN d.scns \cup {0}
      /\ \A i \in DOMAIN d.scns \ {0} : t[i] = d.scns[i]
      /\ Extended(d) => 0 \in DOMAIN t /\ t[0] = s
  <2> DEFINE a == [j \in DOMAIN d.scns \cup {0} |-> IF j = 0 THEN s ELSE d.scns[j]]
  <2>1. Allocate(d, 0, s).scns = a
    <3> HIDE DEF a
    <3>1. Allocate(d, 0, s) = [d EXCEPT !.scns = a]
      BY DEF Allocate, a
    <3> QED
      BY <1>1, <3>1 DEF Descs
  <2>2. d.scns = [j \in DOMAIN d.scns |-> d.scns[j]]
    BY <1>1, TableType
  <2> HIDE DEF s
  <2>3. CASE Extended(d)
    <3>1. t = a
      BY <2>1, <2>3 DEF s
    <3> HIDE DEF t
    <3> QED
      BY <3>1
  <2>4. CASE ~Extended(d)
    <3>1. t = d.scns
      BY <2>4
    <3> HIDE DEF t
    <3> QED
      BY <2>2, <2>4, <3>1
  <2> QED
    BY <2>3, <2>4
<1>3. b = [d EXCEPT !.ehdr = h, !.scns = t]
  BY DEF Counted
<1> HIDE DEF h, t
<1>4. /\ b.layout = d.layout /\ b.cmd = d.cmd /\ b.class = d.class
         /\ b.raw = d.raw /\ b.rawsize = d.rawsize
      /\ b.nphdr = d.nphdr /\ b.nscn = d.nscn /\ b.phdr = d.phdr
      /\ b.ehdr = h /\ b.scns = t
      /\ [b EXCEPT !.ehdr = h, !.scns = t] = b
  BY <1>1, <1>3 DEF Descs
<1> HIDE DEF s
<1>5. d.layout => h.phoff = d.ehdr.phoff /\ h.shoff = d.ehdr.shoff
  BY DEF h, CountsIn
<1>7. Extended(b) = Extended(d)
  BY <1>4 DEF Extended
<1>8. Extended(d) => CountsInZeroth(b) = s
  <2> SUFFICES ASSUME Extended(d) PROVE CountsInZeroth(b) = s
    OBVIOUS
  <2> DEFINE z == Zeroth(d)
             info == IF d.nphdr >= PnXnum THEN d.nphdr ELSE z.info
             size == IF d.nscn >= LoReserve THEN d.nscn ELSE z.size
             x == [z EXCEPT !.info = info, !.size = size]
  <2>1. s = x
    BY DEF s, CountsInZeroth
  <2>2. Zeroth(b) = x
    BY <1>2, <1>4, <2>1 DEF Zeroth
  <2>3. CountsInZeroth(b) = [x EXCEPT !.info = IF d.nphdr >= PnXnum THEN d.nphdr ELSE x.info,
                                      !.size = IF d.nscn >= LoReserve THEN d.nscn ELSE x.size]
    <3> HIDE DEF x
    <3> QED
      BY <1>4, <2>2 DEF CountsInZeroth
  <2>4. /\ (IF d.nphdr >= PnXnum THEN d.nphdr ELSE x.info) = info
        /\ (IF d.nscn >= LoReserve THEN d.nscn ELSE x.size) = size
    <3> HIDE DEF z
    <3>1. z \in Scns
      BY <1>1 DEF z
    <3> QED
      BY <3>1 DEF Scns
  <2>5. [x EXCEPT !.info = info, !.size = size] = x
    <3> HIDE DEF z, info, size
    <3>1. z \in Scns
      BY <1>1 DEF z
    <3> QED
      BY <3>1 DEF Scns
  <2> HIDE DEF x, info, size
  <2> QED
    BY <2>1, <2>3, <2>4, <2>5
<1>9. Extended(d) => Allocate(b, 0, s).scns = t
  <2> SUFFICES ASSUME Extended(d) PROVE Allocate(b, 0, s).scns = t
    OBVIOUS
  <2> DEFINE a == [j \in DOMAIN t \cup {0} |-> IF j = 0 THEN s ELSE t[j]]
  <2>1. a = t
    BY <1>2
  <2>2. Allocate(b, 0, s) = [b EXCEPT !.scns = a]
    BY <1>4 DEF Allocate
  <2> HIDE DEF a
  <2>3. [b EXCEPT !.scns = t].scns = t
    BY <1>1, <1>3 DEF Descs
  <2> QED
    BY <2>1, <2>2, <2>3
<1>10. ASSUME NEW v, v.ext = w.ext PROVE Counted(v, b) = b
  <2>0. CountsIn(v, b) = h
    <3>1. \A kind : TableStart(v, kind) = TableStart(w, kind)
      BY <1>10 DEF TableStart
    <3>2. (IF d.layout THEN h.phoff ELSE TableStart(w, "phdr"))
            = (IF d.layout THEN d.ehdr.phoff ELSE TableStart(w, "phdr"))
      BY <1>5
    <3>3. (IF d.layout THEN h.shoff ELSE TableStart(w, "shdr"))
            = (IF d.layout THEN d.ehdr.shoff ELSE TableStart(w, "shdr"))
      BY <1>5
    <3>4. CountsIn(v, b) = [phnum |-> IF d.nphdr >= PnXnum THEN PnXnum ELSE d.nphdr,
                            shnum |-> IF d.nscn >= LoReserve THEN 0 ELSE d.nscn,
                            phoff |-> IF d.layout THEN h.phoff ELSE TableStart(w, "phdr"),
                            shoff |-> IF d.layout THEN h.shoff ELSE TableStart(w, "shdr")]
      BY <1>4, <3>1 DEF CountsIn
    <3> QED
      BY <3>2, <3>3, <3>4 DEF h, CountsIn
  <2>1. Counted(v, b) = [b EXCEPT !.ehdr = CountsIn(v, b),
                          !.scns = IF Extended(b) THEN Allocate(b, 0, CountsInZeroth(b)).scns
                                   ELSE b.scns]
    BY DEF Counted
  <2>2. (IF Extended(b) THEN Allocate(b, 0, CountsInZeroth(b)).scns ELSE b.scns) = t
    BY <1>4, <1>7, <1>8, <1>9
  <2> QED
    BY <1>4, <2>0, <2>1, <2>2
<1> QED
  BY <1>2, <1>4, <1>5, <1>10

LEMMA WithWork == \A x, y : With(Work(x), y) = Work(y) /\ Work(x).rc = 0 /\ Work(x).e = x
BY DEF With, Work

\* An object under construction that is laid out stays as it is when it is laid out again.
LEMMA LaidOutForGood ==
  ASSUME NEW d \in Opens, d.cmd = "write", d.class,
         NEW r, r = Resync(d), r.how = "ok"
  PROVE  Resync(r.e) = r
<1> DEFINE w == WithEhdr(Work(d))
           a == Insert(w, "ehdr", 0, 0, EhdrSize)
           p == ResyncPhdr(a)
           s == ResyncSections(p)
           t == ResyncShdr(s)
<1>1. /\ w \in Readies("write") /\ w \in Works /\ w.how = "ok" /\ w.e.class
      /\ w.e.cmd = "write" /\ w.rc = 0
  <2>1. Work(d) \in Goods("write") /\ Work(d).e = d /\ Work(d).how = "ok"
    BY WorkType
  <2>2. w \in Readies("write") /\ w \in Works /\ w.e.cmd = "write"
    BY <2>1, WithEhdrType, WorkFields DEF Readies, Goods
  <2> DEFINE z == [d EXCEPT !.ehdr = NoEhdr]
  <2>3. w = Work(d) \/ w = With(Work(d), z)
    BY <2>1 DEF WithEhdr, Then
  <2>4. z.class
    BY DEF Opens, Descs
  <2>5. \A b : With(Work(d), b) = Work(b) /\ Work(b).rc = 0 /\ Work(b).e = b /\ Work(b).how = "ok"
    BY WithWork DEF Work
  <2> HIDE DEF w, z
  <2> QED
    BY <2>1, <2>2, <2>3, <2>4, <2>5
<1>2. Work(r.e) = With(w, r.e)
  <2>1. w = Work(d) \/ \E b : w = With(Work(d), b)
    BY WorkType DEF WithEhdr, Then
  <2>2. w = Work(d) \/ \E b : w = Work(b)
    BY <2>1, WithWork
  <2> HIDE DEF w
  <2> QED
    BY <2>2, WithWork
<1> HIDE DEF w
<1>3. /\ a \in Readies("write") /\ a.e = w.e
      /\ Insert(With(w, r.e), "ehdr", 0, 0, EhdrSize) = With(a, r.e)
  <2>1. a \in Goods("write") /\ a.e = w.e
    <3>1. w \in Goods("write") /\ 0 >= w.rc /\ EhdrSize \in Nat
      BY <1>1, Sizes DEF Readies
    <3> QED
      BY ONLY <3>1, InsertType
  <2>2. Insert(With(w, r.e), "ehdr", 0, 0, EhdrSize) = With(a, r.e)
    BY <1>1, InsertFrame
  <2> QED
    BY <1>1, <2>1, <2>2 DEF Readies
<1> HIDE DEF a
<1>4. p \in Readies("write")
  BY <1>3, ResyncPhdrType
<1> HIDE DEF p
<1>5. /\ WithShdrs(p) = p /\ WithShdrs(With(p, r.e)) = With(p, r.e)
  <2>1. p.e.cmd = "write" /\ p \in Works
    BY <1>4, WorkFields DEF Readies, Goods
  <2>2. r.e.cmd = "write"
    BY ResyncType, WorkFields DEF Readies
  <2>3. With(p, r.e).e = r.e
    BY <2>1 DEF With, Works
  <2> QED
    BY <2>1, <2>2, <2>3 DEF WithShdrs, Then
<1>6. s \in Readies("write")
  BY <1>4, ResyncSectionsType
<1> HIDE DEF s
<1>7. t \in Readies("write")
  BY <1>6, ResyncShdrType
<1> HIDE DEF t
<1>8. r = SetCounts(t)
  BY <1>5 DEF Resync, w, a, p, s, t
<1>9. t.how = "ok" /\ r = With(t, Counted(t, t.e)) /\ t \in Works /\ r.e = Counted(t, t.e)
  <2>1. r = Then(t, With(t, Counted(t, t.e)))
    BY <1>8, SetCountsForm
  <2>2. t.how = "ok"
    BY <2>1 DEF Then
  <2>3. t \in Works
    BY <1>7 DEF Readies, Goods
  <2> QED
    BY <2>1, <2>2, <2>3 DEF Then, With, Works
<1>10. /\ s.how = "ok" /\ p.how = "ok" /\ t.e = s.e
  <2>1. t.e = s.e /\ (s.how # "ok" => t = s)
    <3>1. s \in Works /\ s.e \in Opens /\ s.e.raw = None /\ s.e.layout \in BOOLEAN
      BY <1>6, WorkFields DEF Readies, Goods, Opens, Descs
    <3>2. ResyncShdr(s).e = s.e
      BY <1>6, <3>1, TablesAgain
    <3> QED
      BY <3>2 DEF t, ResyncShdr, Then
  <2>2. s.how = "ok"
    BY <1>9, <2>1
  <2>3. p.how = "ok"
    <3> SUFFICES ASSUME p.how # "ok" PROVE FALSE
      OBVIOUS
    <3>1. PICK f : IsLoop(f, p, "write") /\ s = f[MaxScns]
      BY <1>4, SectionsLoop DEF s
    <3> DEFINE V == {f[0]}
    <3>2. f[0] \in V
      OBVIOUS
    <3>3. ASSUME NEW i \in 1..MaxScns, f[i - 1] \in V PROVE f[i] \in V
      BY <3>1, <3>3 DEF IsLoop, Then
    <3>4. f[MaxScns] \in V
      <4> HIDE DEF V
      <4>1. \A i \in 0..MaxScns : f[i] \in V
        BY ONLY <3>2, <3>3, Sizes, LoopKeeps
      <4> QED
        BY <4>1, Sizes
    <3> QED
      BY <2>2, <3>1, <3>4 DEF IsLoop
  <2> QED
    BY <2>1, <2>2, <2>3
<1>11. OnlySections(p.e, s.e)
  <2>1. PICK f : IsLoop(f, p, "write") /\ s = f[MaxScns]
    BY <1>4, SectionsLoop DEF s
  <2>2. MaxScns \in 0..MaxScns
    BY Sizes
  <2>3. AllPlaced(f, p, s)
    BY <1>4, <1>10, <2>1, PlacedSections
  <2> QED
    BY <2>1, <2>2, <2>3 DEF AllPlaced
<1>12. p.e = w.e
  <2>1. a.e.raw = None
    BY <1>3, WorkFields DEF Readies, Opens
  <2> QED
    BY <1>3, <2>1, TablesAgain DEF p
<1> DEFINE d1 == r.e
<1>13. /\ d1 \in Opens /\ d1.ehdr \in Ehdrs /\ d1.cmd = "write" /\ d1.raw = None
  <2>1. r \in Readies("write")
    BY ResyncType
  <2> QED
    BY <2>1, WorkFields DEF Readies, Opens
<1>14. /\ s.e \in Opens /\ s.e.ehdr \in Ehdrs
  BY <1>6, <1>10, WorkFields DEF Readies
<1>15. d1 = Counted(t, s.e)
  BY <1>9, <1>10
<1> HIDE DEF d1
<1>16. /\ d1.layout = s.e.layout /\ d1.class = s.e.class
       /\ d1.nphdr = s.e.nphdr /\ d1.nscn = s.e.nscn /\ d1.phdr = s.e.phdr
       /\ s.e.layout => d1.ehdr.phoff = s.e.ehdr.phoff /\ d1.ehdr.shoff = s.e.ehdr.shoff
       /\ DOMAIN s.e.scns \subseteq DOMAIN d1.scns /\ DOMAIN d1.scns \subseteq DOMAIN s.e.scns \cup {0}
       /\ \A i \in DOMAIN s.e.scns \ {0} : d1.scns[i] = s.e.scns[i]
       /\ \A v : v.ext = t.ext => Counted(v, d1) = d1
  <2> DEFINE o == s.e
  <2> HIDE DEF o
  <2>1. /\ d1.layout = o.layout /\ d1.class = o.class
        /\ d1.nphdr = o.nphdr /\ d1.nscn = o.nscn /\ d1.phdr = o.phdr
        /\ o.layout => d1.ehdr.phoff = o.ehdr.phoff /\ d1.ehdr.shoff = o.ehdr.shoff
        /\ DOMAIN o.scns \subseteq DOMAIN d1.scns /\ DOMAIN d1.scns \subseteq DOMAIN o.scns \cup {0}
        /\ \A i \in DOMAIN o.scns \ {0} : d1.scns[i] = o.scns[i]
        /\ \A v : v.ext = t.ext => Counted(v, d1) = d1
    <3>1. o \in Opens /\ o.ehdr \in Ehdrs /\ d1 = Counted(t, o)
      BY <1>14, <1>15 DEF o
    <3> QED
      BY ONLY <3>1, CountedForm
  <2> QED
    BY <2>1 DEF o
<1>17. /\ d1.layout = p.e.layout /\ d1.nphdr = p.e.nphdr /\ d1.nscn = p.e.nscn
       /\ d1.phdr = p.e.phdr /\ d1.class
       /\ p.e.layout => d1.ehdr.phoff = p.e.ehdr.phoff /\ d1.ehdr.shoff = p.e.ehdr.shoff
       /\ DOMAIN s.e.scns = DOMAIN p.e.scns
  BY <1>1, <1>11, <1>12, <1>16 DEF OnlySections
\* The second time
<1>18. WithEhdr(Work(d1)) = Work(d1)
  <2>1. d1.ehdr # None
    BY <1>13, NoneIsNothing
  <2> QED
    BY <1>13, <1>17, <2>1, WorkType DEF WithEhdr, Then
<1>19. Insert(WithEhdr(Work(d1)), "ehdr", 0, 0, EhdrSize) = With(a, d1)
  BY <1>2, <1>3, <1>18 DEF d1
<1>20. ResyncPhdr(With(a, d1)) = With(p, d1)
  BY ONLY <1>3, <1>12, <1>13, <1>17, TablesAgain DEF p
<1>21. ResyncSections(With(p, d1)) = With(s, d1)
  <2>1. \A i \in DOMAIN p.e.scns \ {0} : d1.scns[i] = s.e.scns[i]
    BY <1>16, <1>17
  <2>2. DOMAIN p.e.scns \subseteq DOMAIN d1.scns /\ DOMAIN d1.scns \subseteq DOMAIN p.e.scns \cup {0}
    BY <1>16, <1>17
  <2> QED
    BY ONLY <1>4, <1>10, <1>13, <1>17, <2>1, <2>2, PlacedAllAgain DEF s
<1>22. ResyncShdr(With(s, d1)) = With(t, d1)
  BY ONLY <1>6, <1>13, <1>16, TablesAgain DEF t
<1>23. SetCounts(With(t, d1)) = r
  <2> DEFINE v == With(t, d1)
  <2>1. v = r /\ v.e = d1 /\ v.how = "ok" /\ v.ext = t.ext /\ With(v, d1) = v
    BY <1>9 DEF With, Works, d1
  <2> HIDE DEF v
  <2>2. SetCounts(v) = With(v, Counted(v, d1))
    BY <2>1, SetCountsForm DEF Then
  <2> QED
    BY <1>16, <2>1, <2>2 DEF v
<1> QED
  BY <1>5, <1>19, <1>20, <1>21, <1>22, <1>23 DEF Resync, d1

\* elf_update(ELF_C_NULL) tells the client of an object under construction where everything
\* will be (elf_update.c, _libelf_resync_elf): laid out again, it stays as it is.
THEOREM NullTells == Spec => []NullForetells
<1>1. LayoutInv => NullForetells
  <2> SUFFICES ASSUME LayoutInv, e # None, e.class, e.cmd = "write",
                      NEW null, null = Resync(e), null.how = "ok"
               PROVE  \A write \in {Resync(null.e)} : write.how = "ok" /\ Image(write) = Image(null)
    BY DEF NullForetells
  <2>1. e \in Opens
    BY DEF LayoutInv
  <2>2. Resync(null.e) = null
    BY <2>1, LaidOutForGood
  <2> QED
    BY <2>2
<1> QED
  BY <1>1, Invariance, PTL
-----------------------------------------------------------------------------
(* What reading and laying out does to a section *)

\* A section with its data from the file, and whether they are those of another
Held(s) == IF s.type = "nobits" THEN 0 ELSE s.size
Astray(s) == Held(s) > 0 /\ s.off # s.rawoff
BytesOf(s, raw) == IF Held(s) = 0 THEN <<>> ELSE Bytes(raw, s.off, Held(s))
Within(s, raw) == Held(s) > 0 => raw \in Seq(Unit) /\ s.off + Held(s) <= Len(raw)
Filled(s, raw) ==
  [s EXCEPT !.data = <<[align |-> s.align, off |-> 0, units |-> BytesOf(s, raw)]>>]

\* Section i of d may be seen as s, with the note m.
SeenAs(d, i, s, m) ==
  \/ s = d.scns[i] /\ m = d.misread
  \/ /\ d.raw # None /\ d.scns[i].data = <<>> /\ d.scns[i].type # "null"
     /\ Within(d.scns[i], d.raw)
     /\ s = Filled(d.scns[i], d.raw) /\ m = (d.misread \/ Astray(d.scns[i]))

LEMMA FailsForm ==
  ASSUME NEW w \in Works, NEW how
  PROVE  /\ Fails(w, how).e = w.e /\ Fails(w, how).how = how
         /\ Fails(w, how).ext = w.ext /\ Fails(w, how).rc = w.rc
BY DEF Fails, Works

LEMMA FilledType ==
  ASSUME NEW s \in Scns, NEW raw, Within(s, raw)
  PROVE  /\ Filled(s, raw) \in Scns
         /\ Filled(s, raw).data = <<[align |-> s.align, off |-> 0, units |-> BytesOf(s, raw)]>>
         /\ Filled(s, raw).type = s.type /\ Filled(s, raw).dirty = s.dirty
         /\ Filled(s, raw).align = s.align /\ Filled(s, raw).off = s.off
         /\ Filled(s, raw).data # <<>> /\ BytesOf(s, raw) \in Seq(Unit)
         /\ Filled(s, raw).size = s.size /\ Filled(s, raw).ssize = s.ssize
         /\ Filled(s, raw).rawoff = s.rawoff
<1> DEFINE units == BytesOf(s, raw)
           x == [align |-> s.align, off |-> 0, units |-> units]
           data == <<x>>
<1>1. s.off \in Nat /\ s.align \in Nat /\ Held(s) \in Nat
  BY DEF Scns, Held
<1>2. units \in Seq(Unit)
  <2> DEFINE h == Held(s)
             o == s.off
  <2>1. h \in Nat /\ o \in Nat /\ (h > 0 => raw \in Seq(Unit) /\ o + h <= Len(raw))
    BY <1>1 DEF Within
  <2>2. units = IF h = 0 THEN <<>> ELSE Bytes(raw, o, h)
    BY DEF BytesOf
  <2> HIDE DEF h, o, units
  <2>3. h > 0 => Bytes(raw, o, h) \in Seq(Unit)
    BY <2>1, BytesType
  <2> QED
    BY <2>1, <2>2, <2>3
<1> HIDE DEF units
<1>3. x \in Datum
  BY <1>1, <1>2 DEF Datum
<1> HIDE DEF x
<1>4. data \in DataLists /\ data # <<>>
  <2>1. data \in Seq(Datum) /\ Len(data) = 1
    BY <1>3
  <2> QED
    BY <2>1 DEF DataLists
<1> HIDE DEF data
<1>5. Filled(s, raw) = [s EXCEPT !.data = data]
  BY DEF Filled, data, x, units
<1> QED
  BY <1>2, <1>4, <1>5 DEF Scns, data, x, units

LEMMA SeenType ==
  ASSUME NEW d \in Opens, NEW i \in DOMAIN d.scns, NEW s, NEW m, SeenAs(d, i, s, m)
  PROVE  /\ s \in Scns /\ m \in BOOLEAN /\ (d.misread => m)
         /\ s.type = d.scns[i].type /\ s.dirty = d.scns[i].dirty
         /\ s.align = d.scns[i].align /\ s.off = d.scns[i].off
         /\ s.size = d.scns[i].size /\ s.ssize = d.scns[i].ssize
<1> DEFINE z == d.scns[i]
<1>1. z \in Scns /\ d.misread \in BOOLEAN
  BY ScnOf DEF Opens, Descs
<1>2. SeenAs(d, i, s, m) = \/ s = z /\ m = d.misread
                           \/ /\ d.raw # None /\ z.data = <<>> /\ z.type # "null"
                              /\ Within(z, d.raw)
                              /\ s = Filled(z, d.raw) /\ m = (d.misread \/ Astray(z))
  BY DEF SeenAs
<1>3. (d.misread \/ Astray(z)) \in BOOLEAN
  BY DEF Astray
<1> HIDE DEF z
<1>4. s = z \/ (Within(z, d.raw) /\ s = Filled(z, d.raw))
  BY <1>2
<1>5. /\ s \in Scns /\ s.type = z.type /\ s.dirty = z.dirty /\ s.align = z.align
      /\ s.off = z.off /\ s.size = z.size /\ s.ssize = z.ssize
  <2> DEFINE raw == d.raw
  <2>1. CASE s = z
    BY <1>1, <2>1
  <2>2. CASE Within(z, raw) /\ s = Filled(z, raw)
    <3> HIDE DEF raw
    <3> QED
      BY <1>1, <2>2, FilledType
  <2> QED
    BY <1>4, <2>1, <2>2
<1>6. m \in BOOLEAN /\ (d.misread => m)
  BY <1>1, <1>2, <1>3
<1> QED
  BY <1>5, <1>6 DEF z

LEMMA WithDataGives ==
  ASSUME NEW c, NEW w \in Goods(c), w.how = "ok", NEW i \in DOMAIN w.e.scns,
         NEW v, v = WithData(w, i)
  PROVE  \/ v.how \in {"error", "fault"} /\ v = Fails(w, v.how)
         \/ /\ v.how = "ok"
            /\ \E s, m : /\ SeenAs(w.e, i, s, m) /\ s.data # <<>>
                         /\ v = With(w, Section(w.e, i, s, m))
<1> DEFINE d == w.e
           z == d.scns[i]
           held == IF z.type = "nobits" THEN 0 ELSE z.size
           m == d.misread \/ (held > 0 /\ z.off # z.rawoff)
           units == IF held = 0 THEN <<>> ELSE Bytes(d.raw, z.off, held)
           data == <<[align |-> z.align, off |-> 0, units |-> units]>>
           beyond == z.type # "nobits" /\ z.off + z.size > Rawsize(d)
           f == [z EXCEPT !.data = data]
<1>1. w \in Works /\ d \in Opens /\ z \in Scns /\ d.misread \in BOOLEAN
  BY WorkFields, ScnOf DEF Goods, Opens, Descs
<1>2. \A how : Fails(w, how).how = how
  BY <1>1, FailsForm
<1>3. CASE z.data # <<>>
  <2>1. v = w
    BY <1>3 DEF WithData
  <2>2. Section(d, i, z, d.misread) = d /\ With(w, d) = w
    BY <1>1, SectionFrame DEF With, Works
  <2>3. SeenAs(d, i, z, d.misread)
    BY DEF SeenAs
  <2> QED
    BY <1>3, <2>1, <2>2, <2>3
<1>4. CASE /\ z.data = <<>>
           /\ d.raw = None \/ z.type = "null" \/ beyond \/ (d.raw = Gone /\ held > 0)
  <2>1. v \in {Fails(w, "error"), Fails(w, "fault")}
    BY <1>4 DEF WithData
  <2> QED
    BY <1>2, <2>1
<1>5. CASE /\ z.data = <<>> /\ d.raw # None /\ z.type # "null" /\ ~beyond
           /\ ~(d.raw = Gone /\ held > 0)
  <2>1. Within(z, d.raw)
    <3> SUFFICES ASSUME held > 0 PROVE d.raw \in Seq(Unit) /\ z.off + held <= Len(d.raw)
      BY DEF Within, Held
    <3>1. d.raw \in Seq(Unit) /\ Rawsize(d) = Len(d.raw)
      BY <1>1, <1>5 DEF Opens, Descs, Rawsize
    <3>2. z.off \in Nat /\ z.size \in Nat /\ Len(d.raw) \in Nat
      BY <1>1, <3>1 DEF Scns
    <3>3. held = z.size /\ z.type # "nobits"
      OBVIOUS
    <3> QED
      BY <1>5, <3>1, <3>2, <3>3
  <2>2. v = With(w, [d EXCEPT !.misread = m, !.scns[i].data = data])
    BY <1>5 DEF WithData
  <2>3. [d EXCEPT !.misread = m, !.scns[i].data = data] = Section(d, i, f, m)
    <3> HIDE DEF m, data
    <3> QED
      BY DEF Section
  <2>4. f = Filled(z, d.raw) /\ m = (d.misread \/ Astray(z)) /\ held = Held(z)
    BY DEF Filled, Astray, Held, BytesOf
  <2>5. SeenAs(d, i, f, m)
    BY <1>5, <2>1, <2>4 DEF SeenAs
  <2>6. f.data # <<>>
    <3> HIDE DEF f, z, d
    <3> QED
      BY <1>1, <2>1, <2>4, FilledType
  <2>7. v.how = "ok"
    BY <1>1, <2>2 DEF With, Works
  <2> DEFINE new == [d EXCEPT !.misread = m, !.scns[i].data = data]
  <2>8. v = With(w, new) /\ new = Section(d, i, f, m)
    BY <2>2, <2>3
  <2> HIDE DEF new, f, m
  <2> QED
    BY <2>5, <2>6, <2>7, <2>8
<1> QED
  BY <1>3, <1>4, <1>5

LEMMA SectionTwice ==
  ASSUME NEW d \in Opens, NEW i \in DOMAIN d.scns, NEW s, NEW m, NEW z, NEW q
  PROVE  Section(Section(d, i, s, m), i, z, q) = Section(d, i, z, q)
<1>1. d \in Descs /\ d.scns \in Tables
  BY DEF Opens, Descs
<1> DEFINE t == [d.scns EXCEPT ![i] = s]
           u == [d.scns EXCEPT ![i] = z]
           b == Section(d, i, s, m)
<1>2. [t EXCEPT ![i] = z] = u
  <2>1. d.scns = [j \in DOMAIN d.scns |-> d.scns[j]]
    BY <1>1, TableType
  <2> QED
    BY <2>1
<1>3. b = [d EXCEPT !.misread = m, !.scns = t]
  BY DEF Section
<1> HIDE DEF t, u
<1>4. b.scns = t
  BY <1>1, <1>3 DEF Descs
<1>5. [b EXCEPT !.misread = q, !.scns = u] = [d EXCEPT !.misread = q, !.scns = u]
  BY <1>1, <1>3 DEF Descs
<1> HIDE DEF b
<1>6. Section(b, i, z, q) = [b EXCEPT !.misread = q, !.scns = u]
  BY <1>2, <1>4 DEF Section
<1> QED
  BY <1>5, <1>6 DEF Section, b, u

\* One more extent, or none
Grown(w, v, x) ==
  /\ Fits(w.ext, x) /\ v.ext = InsertExtent(w.ext, x) /\ v.rc = Larger(w.rc, x.start + x.size)

LEMMA InsertGives ==
  ASSUME NEW w \in Works, w.how = "ok", NEW kind, NEW i, NEW start, NEW size,
         NEW x, x = [kind |-> kind, ndx |-> i, start |-> start, size |-> size],
         NEW v, v = Insert(w, kind, i, start, size)
  PROVE  v.e = w.e /\ IF v.how = "ok" THEN Grown(w, v, x) ELSE v.how = "layout"
<1>1. v.e = w.e
  BY InsertFrame
<1>2. CASE Fits(w.ext, x)
  <2> DEFINE new == InsertExtent(w.ext, x)
             rc == Larger(w.rc, start + size)
  <2>1. v = [w EXCEPT !.ext = new, !.rc = rc]
    BY <1>2 DEF Insert, Then
  <2>2. x.start = start /\ x.size = size
    OBVIOUS
  <2> HIDE DEF new, rc
  <2>3. v.ext = new /\ v.rc = rc /\ v.how = "ok"
    BY <2>1 DEF Works
  <2> QED
    BY <1>1, <1>2, <2>2, <2>3 DEF Grown, new, rc
<1>3. CASE ~Fits(w.ext, x)
  <2>1. v = Fails(w, "layout")
    BY <1>3 DEF Insert, Then
  <2> QED
    BY <1>1, <2>1, FailsForm
<1> QED
  BY <1>2, <1>3

\* All of it: how section i fares in the layout.
Fares(w, v, i, s, m, u) ==
  LET z == LaidOut(w.e.layout, w.rc, s, u)
      x == [kind |-> "scn", ndx |-> i, start |-> z.soff, size |-> z.ssize]
  IN IF v.how = "ok"
     THEN /\ v.e = Section(w.e, i, z, m) /\ (~u => ~Unaligned(s))
          /\ ~u /\ w.e.layout => ~Misplaced(s)
          /\ u \/ s.data # <<>> \/ w.e.cmd = "write"
          /\ IF z.ssize = 0 THEN v.ext = w.ext /\ v.rc = w.rc ELSE Grown(w, v, x)
     ELSE v.e \in {Section(w.e, i, s, m), Section(w.e, i, z, m)}

LEMMA ResyncScnGives ==
  ASSUME NEW c, NEW w \in Readies(c), w.how = "ok", NEW i \in DOMAIN w.e.scns,
         w.e.scns[i].type \notin {"null", "nobits"},
         NEW v, v = ResyncScn(w, i),
         NEW u, u = (w.e.scns[i].data = <<>> /\ ~w.e.scns[i].dirty)
  PROVE  \E s, m : SeenAs(w.e, i, s, m) /\ Fares(w, v, i, s, m, u)
<1> DEFINE d == w.e
           o == d.scns[i]
           needs == o.data = <<>> /\ o.dirty /\ d.cmd # "write"
           y == IF needs THEN WithData(w, i) ELSE w
           x == LayOut(y, i, u)
<1>1. w \in Goods(c) /\ w \in Works /\ d \in Opens /\ o \in Scns /\ u \in BOOLEAN
      /\ d.misread \in BOOLEAN /\ d.layout \in BOOLEAN /\ w.rc \in Nat
  BY WorkFields, ScnOf DEF Readies, Goods, Opens, Descs
<1>2. v = InsertScn(x, i)
  <2>1. ComputeExtents(w, i) = x
    BY DEF ComputeExtents
  <2> HIDE DEF x
  <2> QED
    BY <2>1 DEF ResyncScn
\* As it is seen
<1>3. \/ y.how \in {"error", "fault"} /\ y = Fails(w, y.how)
      \/ /\ y.how = "ok"
         /\ \E s, m : /\ SeenAs(d, i, s, m) /\ (s.data # <<>> \/ ~needs)
                      /\ y = With(w, Section(d, i, s, m))
  <2>1. CASE needs
    <3>1. y = WithData(w, i)
      BY <2>1
    <3> HIDE DEF y, needs
    <3>2. \/ y.how \in {"error", "fault"} /\ y = Fails(w, y.how)
          \/ /\ y.how = "ok"
             /\ \E s, m : SeenAs(w.e, i, s, m) /\ s.data # <<>> /\ y = With(w, Section(w.e, i, s, m))
      BY <1>1, <3>1, WithDataGives
    <3> QED
      BY <3>2
  <2>2. CASE ~needs
    <3>1. y = w /\ SeenAs(d, i, o, d.misread)
      BY <2>2 DEF SeenAs
    <3>2. Section(d, i, o, d.misread) = d /\ With(w, d) = w
      BY <1>1, SectionFrame DEF With, Works
    <3> HIDE DEF y, needs
    <3> QED
      BY <2>2, <3>1, <3>2
  <2> QED
    BY <2>1, <2>2
<1> HIDE DEF y
<1>4. CASE y.how \in {"error", "fault"} /\ y = Fails(w, y.how)
  <2>1. x = y
    BY <1>4 DEF LayOut, Then
  <2>2. y \in Works
    BY <1>1, <1>4 DEF Fails, Works
  <2>3. v = y
    BY <1>2, <1>4, <2>1, <2>2, InsertScnFrame
  <2>4. v.how # "ok" /\ v.e = d
    BY <1>1, <1>4, <2>3, FailsForm
  <2>5. SeenAs(d, i, o, d.misread) /\ Section(d, i, o, d.misread) = d
    BY <1>1, SectionFrame DEF SeenAs
  <2>6. Fares(w, v, i, o, d.misread, u)
    BY <2>4, <2>5 DEF Fares
  <2> QED
    BY <2>5, <2>6
<1>5. CASE /\ y.how = "ok"
           /\ \E s, m : /\ SeenAs(d, i, s, m) /\ (s.data # <<>> \/ ~needs)
                        /\ y = With(w, Section(d, i, s, m))
  <2>1. PICK s, m : /\ SeenAs(d, i, s, m) /\ (s.data # <<>> \/ ~needs)
                    /\ y = With(w, Section(d, i, s, m))
    BY <1>5
  <2> DEFINE b == Section(d, i, s, m)
             z == LaidOut(d.layout, w.rc, s, u)
             a == Section(d, i, z, m)
  <2>2. s \in Scns /\ m \in BOOLEAN /\ (d.misread => m)
    <3> HIDE DEF d
    <3> QED
      BY <1>1, <2>1, SeenType DEF d
  <2>3. /\ y \in Goods(c) /\ y.e = b /\ y.rc = w.rc /\ y.ext = w.ext
        /\ b \in Opens /\ i \in DOMAIN b.scns /\ b.scns[i] = s
        /\ b.layout = d.layout /\ b.misread = m
    <3>1. /\ b \in Opens /\ DOMAIN b.scns = DOMAIN w.e.scns /\ b.scns[i] = s
          /\ With(w, b) \in Goods(c) /\ With(w, b).e = b
          /\ With(w, b).ext = w.ext /\ With(w, b).rc = w.rc /\ b.layout = w.e.layout
      <4>1. b = Section(w.e, i, s, m)
        OBVIOUS
      <4> HIDE DEF b, d
      <4> QED
        BY ONLY <1>1, <2>2, <4>1, SectionType, i \in DOMAIN w.e.scns
    <3>2. b.misread = m
      BY <1>1, <2>2, SectionFrame
    <3> QED
      BY <2>1, <3>1, <3>2
  <2>4. x = IF ~u /\ Unaligned(s) THEN Fails(y, "error")
            ELSE IF ~u /\ y.e.layout /\ Misplaced(s) THEN Fails(y, "layout")
            ELSE With(y, Section(y.e, i, LaidOut(y.e.layout, y.rc, s, u), y.e.misread))
    <3> HIDE DEF b
    <3>1. i \in DOMAIN y.e.scns /\ s = y.e.scns[i]
      BY <2>3
    <3> QED
      BY ONLY <1>1, <1>5, <2>3, <3>1, LayOutGives DEF x
  <2>5. Section(b, i, z, m) = a
    BY <1>1, SectionTwice
  <2>6. y \in Works /\ x \in Works
    <3>1. y \in Works
      BY <2>3 DEF Goods
    <3>2. x \in Goods(c)
      <4> HIDE DEF b
      <4> QED
        BY <1>1, <2>3, LayOutType
    <3> QED
      BY <3>1, <3>2 DEF Goods
  <2> HIDE DEF a, b, z
  <2>7. x = IF ~u /\ Unaligned(s) THEN Fails(y, "error")
            ELSE IF ~u /\ d.layout /\ Misplaced(s) THEN Fails(y, "layout")
            ELSE With(y, a)
    BY <2>3, <2>4, <2>5 DEF z
  <2> HIDE DEF x
  <2>8. CASE x.how # "ok"
    <3>1. v = x /\ x.e = y.e
      <4>1. With(y, a).how = "ok"
        BY <1>5, <2>6 DEF With, Works
      <4> QED
        <5>1. Fails(y, "error").e = y.e /\ Fails(y, "layout").e = y.e
          BY ONLY <2>6, FailsForm
        <5>2. x.e = y.e
          BY ONLY <2>7, <2>8, <4>1, <5>1
        <5>3. InsertScn(x, i) = x
          BY ONLY <2>6, <2>8, InsertScnFrame
        <5> QED
          BY <1>2, <5>2, <5>3
    <3>2. Fares(w, v, i, s, m, u)
      BY <2>3, <2>8, <3>1 DEF Fares, b
    <3> QED
      BY <2>1, <3>2
  <2>9. CASE x.how = "ok"
    <3>1. x = With(y, a) /\ (~u => ~Unaligned(s)) /\ (~u /\ d.layout => ~Misplaced(s))
      <4>1. Fails(y, "error").how # "ok" /\ Fails(y, "layout").how # "ok"
        BY <2>6, FailsForm
      <4> QED
        BY <2>7, <2>9, <4>1
    <3>2. x.e = a /\ x.ext = w.ext /\ x.rc = w.rc
      BY <2>3, <2>6, <3>1 DEF With, Works
    <3>3. a.scns[i] = z
      BY <1>1, <2>2, SectionFrame DEF a
    <3>4. v.e = a
      BY <1>2, <2>6, <3>2, InsertScnFrame
    <3>5. u \/ s.data # <<>> \/ d.cmd = "write"
      <4>1. needs \/ d.cmd = "write" \/ u \/ o.data # <<>>
        OBVIOUS
      <4>2. o.data # <<>> => s = o
        BY <2>1 DEF SeenAs
      <4> QED
        BY <2>1, <4>1, <4>2
    <3> DEFINE soff == z.soff
               ssize == z.ssize
               ndx == [kind |-> "scn", ndx |-> i, start |-> soff, size |-> ssize]
    <3>6. v = IF ssize = 0 THEN x ELSE Insert(x, "scn", i, soff, ssize)
      BY <1>2, <3>2, <3>3 DEF InsertScn
    <3>7. IF v.how = "ok"
          THEN IF ssize = 0 THEN v.ext = w.ext /\ v.rc = w.rc ELSE Grown(w, v, ndx)
          ELSE TRUE
      <4> HIDE DEF soff, ssize
      <4>1. CASE ssize = 0
        BY <3>2, <3>6, <4>1
      <4>2. CASE ssize # 0
        <5>1. IF v.how = "ok" THEN Grown(x, v, ndx) ELSE v.how = "layout"
          BY <2>6, <2>9, <3>6, <4>2, InsertGives
        <5> QED
          BY <3>2, <4>2, <5>1 DEF Grown
      <4> QED
        BY <4>1, <4>2
    <3>8. Fares(w, v, i, s, m, u)
      <4>1. z = LaidOut(w.e.layout, w.rc, s, u) /\ a = Section(w.e, i, z, m)
        BY DEF z, a
      <4> QED
        BY <3>1, <3>4, <3>5, <3>7, <4>1 DEF Fares
    <3> QED
      BY <2>1, <3>8
  <2> QED
    BY <2>8, <2>9
<1> QED
  BY <1>3, <1>4, <1>5
-----------------------------------------------------------------------------
(* What reading the headers does to a descriptor *)

\* What is left alone when the header is read.
SameButHeader(d, b) ==
  /\ b.cmd = d.cmd /\ b.class = d.class /\ b.layout = d.layout /\ b.loaded = d.loaded
  /\ b.phdr = d.phdr /\ b.raw = d.raw /\ b.mapped = d.mapped /\ b.writes = d.writes
  /\ (d.misread => b.misread) /\ b.fd = d.fd
  /\ DOMAIN d.scns \subseteq DOMAIN b.scns /\ DOMAIN b.scns \subseteq DOMAIN d.scns \cup {0}

\* The counts that are in section header 0.
CountsOf(d) ==
  LET h == ShdrAt(d, d.ehdr.shoff)
  IN [nscn |-> h.size, nphdr |-> IF d.ehdr.phnum = PnXnum THEN h.info ELSE d.ehdr.phnum]

LEMMA LoadExtendedGives ==
  ASSUME NEW c, NEW w \in Goods(c), w.how = "ok", w.e.ehdr \in Ehdrs, w.e.raw \in Seq(Unit),
         NEW v, v = LoadExtended(w)
  PROVE  /\ SameButHeader(w.e, v.e) /\ v.e.ehdr = w.e.ehdr
         /\ v.how = "ok" => v.e.nscn = CountsOf(w.e).nscn /\ v.e.nphdr = CountsOf(w.e).nphdr
         /\ v.how # "ok" => v.e.nscn = w.e.nscn
<1> DEFINE d == w.e
           x == ShdrAt(d, d.ehdr.shoff)
           s == Loaded(x)
           a == Allocate(d, 0, s)
           n == IF d.ehdr.phnum = PnXnum THEN s.info ELSE d.ehdr.phnum
           b == [a EXCEPT !.nscn = s.size, !.nphdr = n]
<1>1. d \in Opens /\ d.ehdr.shoff \in Nat /\ d.ehdr.phnum \in Nat /\ w \in Works
  BY WorkFields DEF Goods, Ehdrs
<1>2. \A y \in {d, a} : (With(w, y).e = y /\ With(w, y) \in Works) \/ y = a
  BY <1>1 DEF With, Works
<1>3. CASE Len(d.raw) < d.ehdr.shoff + ShdrSize
  <2>1. v = Fails(w, "error")
    BY <1>3 DEF LoadExtended
  <2>2. v.e = d /\ v.how = "error"
    BY <1>1, <2>1, FailsForm
  <2> QED
    BY <2>2 DEF SameButHeader
<1>4. CASE ~(Len(d.raw) < d.ehdr.shoff + ShdrSize)
  <2>1. x \in Shdrs /\ s \in Scns
    <3>1. d.ehdr.shoff < Len(d.raw) /\ Len(d.raw) \in Nat
      BY <1>1, <1>4, Sizes
    <3>2. x \in Shdrs
      BY <3>1, <1>1, HeadersRead
    <3> QED
      BY <3>2, LoadedType
  <2>2. s.size = x.size /\ s.info = x.info
    <3> HIDE DEF x
    <3> QED
      BY DEF Loaded, NoScn
  <2>3. /\ a \in Opens /\ a = [d EXCEPT !.scns = a.scns] /\ DOMAIN a.scns = DOMAIN d.scns \cup {0}
        /\ a.ehdr = d.ehdr /\ SameButHeader(d, a) /\ a.nscn = d.nscn
    <3> HIDE DEF s, d
    <3>1. a \in Opens /\ DOMAIN a.scns = DOMAIN d.scns \cup {0} /\ a.ehdr = d.ehdr
      BY <1>1, <2>1, AllocateType
    <3> DEFINE t == [j \in DOMAIN d.scns \cup {0} |-> IF j = 0 THEN s ELSE d.scns[j]]
    <3>2. a = [d EXCEPT !.scns = t]
      BY DEF Allocate
    <3> HIDE DEF t, a
    <3>3. /\ a.cmd = d.cmd /\ a.class = d.class /\ a.layout = d.layout /\ a.loaded = d.loaded
          /\ a.phdr = d.phdr /\ a.raw = d.raw /\ a.mapped = d.mapped /\ a.writes = d.writes
          /\ a.misread = d.misread /\ a.fd = d.fd /\ a.scns = t /\ a.nscn = d.nscn
      BY <1>1, <3>2 DEF Opens, Descs
    <3> QED
      BY <3>1, <3>2, <3>3 DEF SameButHeader
  <2> HIDE DEF a
  <2>4. /\ SameButHeader(d, b) /\ b.ehdr = d.ehdr /\ b.nscn = s.size /\ b.nphdr = n
    <3>1. a \in Descs
      BY <2>3 DEF Opens
    <3> HIDE DEF d, s, n
    <3>2. /\ b.cmd = a.cmd /\ b.class = a.class /\ b.layout = a.layout /\ b.loaded = a.loaded
          /\ b.phdr = a.phdr /\ b.raw = a.raw /\ b.mapped = a.mapped /\ b.writes = a.writes
          /\ b.misread = a.misread /\ b.fd = a.fd /\ b.scns = a.scns /\ b.ehdr = a.ehdr
          /\ b.nscn = s.size /\ b.nphdr = n
      BY <3>1 DEF Descs
    <3> HIDE DEF b
    <3> QED
      BY <2>3, <3>2 DEF SameButHeader
  <2>5. v = IF s.type # "null" THEN Fails(With(w, a), "error") ELSE With(w, b)
    BY <1>4 DEF LoadExtended, a
  <2> HIDE DEF b, s
  <2>6. With(w, a).e = a /\ With(w, b).e = b /\ With(w, a) \in Works /\ With(w, b).how = "ok"
    BY <1>1, <2>3 DEF With, Works
  <2>7. Fails(With(w, a), "error").e = a /\ Fails(With(w, a), "error").how = "error"
    BY <2>6, FailsForm
  <2>8. CASE s.type # "null"
    <3>1. v.e = a /\ v.how = "error"
      BY <2>5, <2>7, <2>8
    <3> QED
      BY <2>3, <3>1
  <2>9. CASE s.type = "null"
    <3>1. v.e = b /\ v.how = "ok"
      BY <2>5, <2>6, <2>9
    <3>2. b.nscn = CountsOf(d).nscn /\ b.nphdr = CountsOf(d).nphdr
      BY <2>2, <2>4 DEF CountsOf
    <3> QED
      BY <2>4, <3>1, <3>2
  <2> QED
    BY <2>8, <2>9
<1> QED
  BY <1>3, <1>4

\* How the header is seen in d: it was there, it is a new one, or it is read.
HeaderSeen(d, v) ==
  \/ v.e = d /\ (v.how = "ok" => d.ehdr # None)
  \/ /\ d.ehdr = None /\ d.class /\ d.cmd = "write"
     /\ v.how = "ok" /\ v.e = [d EXCEPT !.ehdr = NoEhdr]
  \/ /\ d.ehdr = None /\ d.class /\ d.cmd # "write"
     /\ d.raw \in Seq(Unit) /\ Len(d.raw) >= EhdrSize
     /\ SameButHeader(d, v.e) /\ v.e.ehdr = EhdrAt(d) /\ v.e.ehdr \in Ehdrs
     /\ ~v.e.misread =>
          /\ v.how = "ok" /\ v.e.nscn = Shnum(d.raw)
          /\ Sound(d.raw) => /\ v.e.ehdr = Top(d.raw) /\ v.e.nphdr = Phnum(d.raw)
                             /\ ~(Top(d.raw).shoff = 0 /\ Top(d.raw).phnum = PnXnum)

LEMMA EhdrGives ==
  ASSUME NEW c, NEW w \in Goods(c), w.how = "ok", NEW v, v = WithEhdr(w)
  PROVE  HeaderSeen(w.e, v)
<1> DEFINE d == w.e
           h == EhdrAt(d)
           a == [d EXCEPT !.ehdr = h]
           b == [a EXCEPT !.nphdr = h.phnum, !.nscn = h.shnum]
<1>1. d \in Opens /\ d.cmd = c /\ w \in Works
  BY WorkFields DEF Goods
<1>2. CASE ~d.class \/ d.ehdr # None
  <2>1. v = IF ~d.class THEN Fails(w, "error") ELSE w
    BY <1>2 DEF WithEhdr, Then
  <2>2. Fails(w, "error").e = d /\ Fails(w, "error").how = "error"
    BY <1>1, FailsForm
  <2> QED
    BY <1>2, <2>1, <2>2 DEF HeaderSeen
<1>3. CASE d.class /\ d.ehdr = None /\ d.cmd = "write"
  <2>1. v = With(w, [d EXCEPT !.ehdr = NoEhdr])
    BY <1>3 DEF WithEhdr, Then
  <2>2. \A y : With(w, y).e = y /\ With(w, y).how = "ok"
    BY <1>1 DEF With, Works
  <2> QED
    BY <1>3, <2>1, <2>2 DEF HeaderSeen
<1>4. CASE /\ d.class /\ d.ehdr = None /\ d.cmd # "write"
           /\ d.raw = Gone \/ Len(d.raw) < EhdrSize
  <2>1. v \in {Fails(w, "fault"), Fails(w, "error")}
    BY <1>4 DEF WithEhdr, Then
  <2> QED
    BY <1>1, <2>1, FailsForm DEF HeaderSeen
<1>5. CASE /\ d.class /\ d.ehdr = None /\ d.cmd # "write" /\ d.raw # Gone
           /\ ~(Len(d.raw) < EhdrSize)
  <2>1. d.raw \in Seq(Unit) /\ Len(d.raw) > 0 /\ Len(d.raw) >= EhdrSize
    BY <1>1, <1>5, Sizes DEF Opens
  <2>2. h \in Ehdrs
    BY <2>1, HeadersRead
  <2>3. Sound(d.raw) => h = Top(d.raw)
    BY DEF Sound, EhdrAt, Top
  <2> HIDE DEF h
  <2> DEFINE refused == h.shnum >= LoReserve \/
                        (h.shoff = 0 /\ (h.shnum # 0 \/ h.phnum = PnXnum))
             extended == h.shoff # 0 /\ (h.shnum = 0 \/ h.phnum = PnXnum)
             r == IF refused THEN Fails(With(w, a), "error")
                  ELSE IF extended THEN LoadExtended(With(w, a)) ELSE With(w, b)
  <2>4. v = With(r, [r.e EXCEPT !.misread = @ \/ Miscounts(r)])
    BY <1>5 DEF WithEhdr, Then, h
  <2>5. /\ a \in Opens /\ SameButHeader(d, a) /\ a.ehdr = h /\ a.raw = d.raw
        /\ a.layout = d.layout /\ a.cmd = d.cmd /\ a.scns = d.scns /\ a.misread = d.misread
    <3> HIDE DEF d
    <3> QED
      BY <1>1, <2>2 DEF Opens, Descs, SameButHeader
  <2>6. /\ b \in Opens /\ SameButHeader(d, b) /\ b.ehdr = h /\ b.raw = d.raw
        /\ b.nphdr = h.phnum /\ b.nscn = h.shnum
        /\ b.layout = d.layout /\ b.cmd = d.cmd /\ b.scns = d.scns
    <3>1. h.phnum \in Nat /\ h.shnum \in Nat
      BY <2>2 DEF Ehdrs
    <3>2. /\ b \in Opens /\ b.cmd = a.cmd /\ b.class = a.class /\ b.layout = a.layout
          /\ b.loaded = a.loaded /\ b.phdr = a.phdr /\ b.raw = a.raw /\ b.mapped = a.mapped
          /\ b.writes = a.writes /\ b.misread = a.misread /\ b.fd = a.fd /\ b.scns = a.scns
          /\ b.ehdr = a.ehdr /\ b.nphdr = h.phnum /\ b.nscn = h.shnum
      <4> HIDE DEF a
      <4> QED
        BY <2>5, <3>1 DEF Opens, Descs
    <3> HIDE DEF a, b
    <3> QED
      BY <2>5, <3>2 DEF SameButHeader
  <2>7. /\ With(w, a) \in Goods(c) /\ With(w, a).e = a /\ With(w, a).how = "ok"
        /\ With(w, b) \in Goods(c) /\ With(w, b).e = b /\ With(w, b).how = "ok"
        /\ With(w, a) \in Works
    <3> HIDE DEF a, b
    <3> QED
      BY <2>5, <2>6, WithType DEF Goods
  <2> HIDE DEF a, b, d
  <2>8. Fails(With(w, a), "error").e = a /\ Fails(With(w, a), "error").how = "error"
    BY <2>7, FailsForm
  <2> DEFINE x == LoadExtended(With(w, a))
  <2>9. /\ SameButHeader(a, x.e) /\ x.e.ehdr = h /\ x \in Readies(c)
        /\ x.how = "ok" => x.e.nscn = CountsOf(a).nscn /\ x.e.nphdr = CountsOf(a).nphdr
    BY <2>1, <2>2, <2>5, <2>7, LoadExtendedType, LoadExtendedGives
  <2>10. CountsOf(a) = [nscn |-> ShdrAt(d, h.shoff).size,
                        nphdr |-> IF h.phnum = PnXnum THEN ShdrAt(d, h.shoff).info ELSE h.phnum]
    BY <2>5 DEF CountsOf, ShdrAt
  <2> HIDE DEF x
  <2>11. /\ r \in Goods(c) /\ SameButHeader(d, r.e) /\ r.e.ehdr = h
         /\ refused => r.how = "error"
         /\ ~refused /\ extended /\ r.how = "ok" =>
              r.e.nphdr = IF h.phnum = PnXnum THEN ShdrAt(d, h.shoff).info ELSE h.phnum
         /\ ~refused /\ ~extended => r.e.nphdr = h.phnum
    <3>1. CASE refused
      <4>1. r = Fails(With(w, a), "error")
        BY <3>1
      <4> HIDE DEF refused, r
      <4>2. r \in Goods(c)
        BY <2>7, <4>1, FailsType
      <4> QED
        BY <2>5, <2>8, <3>1, <4>1, <4>2
    <3>2. CASE ~refused /\ extended
      <4>1. r = x
        BY <3>2 DEF x
      <4>2. SameButHeader(d, x.e)
        BY <2>5, <2>9 DEF SameButHeader
      <4> HIDE DEF refused, extended, r
      <4> QED
        BY <2>9, <2>10, <3>2, <4>1, <4>2 DEF Readies
    <3>3. CASE ~refused /\ ~extended
      <4>1. r = With(w, b)
        BY <3>3
      <4> HIDE DEF refused, extended, r
      <4> QED
        BY <2>6, <2>7, <3>3, <4>1
    <3> QED
      BY <3>1, <3>2, <3>3
  <2> HIDE DEF r
  <2> DEFINE m == r.e.misread \/ Miscounts(r)
             z == [r.e EXCEPT !.misread = m]
  <2>12. r \in Works /\ r.e \in Descs /\ m \in BOOLEAN
    <3>1. r.e \in Opens
      BY <2>11, WorkFields
    <3> QED
      BY <2>11, <3>1 DEF Goods, Opens
  <2> HIDE DEF m
  <2>13. /\ (r.e.misread => m) => z.ehdr = r.e.ehdr /\ SameButHeader(r.e, z)
         /\ z.misread = m /\ z.nscn = r.e.nscn /\ z.nphdr = r.e.nphdr /\ z.ehdr = r.e.ehdr
         /\ z.raw = r.e.raw
    BY <2>12 DEF Descs, SameButHeader
  <2>14. v.e = z /\ v.how = r.how
    BY <2>4, <2>12 DEF With, Works, m
  <2> HIDE DEF z
  <2>15. SameButHeader(d, z) /\ z.ehdr = h
    BY <2>11, <2>13 DEF SameButHeader, m
  <2>16. ~m => r.how = "ok" /\ r.e.nscn = Shnum(d.raw) /\ ~refused
    BY <2>11 DEF m, Miscounts, SameButHeader
  <2>17. ASSUME ~m, Sound(d.raw)
         PROVE  /\ h = Top(d.raw) /\ r.e.nphdr = Phnum(d.raw)
                /\ ~(Top(d.raw).shoff = 0 /\ Top(d.raw).phnum = PnXnum)
    <3>1. h = Top(d.raw) /\ r.how = "ok" /\ ~refused
      BY <2>3, <2>16, <2>17
    <3>2. Xnum(d.raw) = extended
      BY <3>1 DEF Xnum
    <3>3. extended => ShdrAt(d, h.shoff) = HeaderIn(d.raw, 0)[2]
      <4> SUFFICES ASSUME extended PROVE ShdrAt(d, h.shoff) = HeaderIn(d.raw, 0)[2]
        OBVIOUS
      <4>1. HeaderIn(d.raw, 0)[1] = "shdr"
        BY <2>17, <3>1 DEF Sound
      <4>2. HeaderIn(d.raw, 0) = d.raw[h.shoff + 1]
        BY <3>1, <2>2, Sizes DEF HeaderIn, Ehdrs
      <4> QED
        BY <4>1, <4>2 DEF ShdrAt
    <3>4. r.e.nphdr = Phnum(d.raw)
      BY <2>11, <3>1, <3>2, <3>3 DEF Phnum
    <3> QED
      BY <3>1, <3>4
  <2>18. d.ehdr = None /\ d.class /\ d.cmd # "write"
    BY <1>5 DEF d
  <2> HIDE DEF refused, extended
  <2>19. HeaderSeen(d, v)
    BY <2>1, <2>2, <2>13, <2>14, <2>15, <2>16, <2>17, <2>18 DEF HeaderSeen, h
  <2> QED
    BY <2>19 DEF d
<1> QED
  BY <1>2, <1>3, <1>4, <1>5
\* How the section headers are read.
ShdrsSeen(w, v) ==
  \/ v.how # "ok" /\ v.e = w.e
  \/ v = w /\ (w.e.cmd = "write" \/ w.e.loaded)
  \/ /\ w.e.cmd # "write" /\ ~w.e.loaded /\ v.how = "ok" /\ v.ext = w.ext /\ v.rc = w.rc
     /\ Cardinality(DOMAIN w.e.scns) <= 1
     /\ \E t : /\ DOMAIN t = DOMAIN w.e.scns \cup 0..w.e.nscn - 1
               /\ \A i \in DOMAIN w.e.scns : t[i] = w.e.scns[i]
               /\ \A i \in 0..w.e.nscn - 1 \ DOMAIN w.e.scns :
                    t[i] = Loaded(ShdrAt(w.e, w.e.ehdr.shoff + i * ShdrSize))
               /\ v.e = [w.e EXCEPT !.loaded = TRUE, !.scns = t]

LEMMA ShdrsGives ==
  ASSUME NEW w \in Works, w.how = "ok", w.e.cmd # "write" => Cardinality(DOMAIN w.e.scns) \in Nat,
         NEW v, v = WithShdrs(w)
  PROVE  ShdrsSeen(w, v)
<1> DEFINE d == w.e
           off(i) == d.ehdr.shoff + i * ShdrSize
           there == DOMAIN d.scns
           t == [i \in there \cup 0..d.nscn - 1 |->
                   IF i \in there THEN d.scns[i] ELSE Loaded(ShdrAt(d, off(i)))]
           b == [d EXCEPT !.loaded = TRUE, !.scns = t]
<1>1. CASE d.cmd = "write" \/ d.loaded
  <2>1. v = w
    BY <1>1 DEF WithShdrs, Then
  <2> QED
    BY <1>1, <2>1 DEF ShdrsSeen
<1>2. CASE d.cmd # "write" /\ ~d.loaded
  <2>1. v = LoadShdrs(w)
    BY <1>2 DEF WithShdrs, Then
  <2> DEFINE unread == \E i \in 0..d.nscn - 1 : i \notin there
  <2>2. CASE off(d.nscn) > Rawsize(d) \/ Cardinality(there) > 1 \/ (d.raw = Gone /\ unread)
    <3>1. v \in {Fails(w, "fault"), Fails(w, "error"), Fails(w, "abort")}
      BY <2>1, <2>2 DEF LoadShdrs
    <3>2. v.e = d /\ v.how # "ok"
      BY <3>1, FailsForm
    <3> QED
      BY <3>2 DEF ShdrsSeen
  <2>3. CASE /\ ~(off(d.nscn) > Rawsize(d)) /\ ~(Cardinality(there) > 1)
             /\ ~(d.raw = Gone /\ unread)
    <3>1. v = With(w, b)
      BY <2>1, <2>3 DEF LoadShdrs
    <3>2. Cardinality(there) <= 1
      BY <1>2, <2>3
    <3>3. /\ DOMAIN t = DOMAIN d.scns \cup 0..d.nscn - 1
          /\ \A i \in DOMAIN d.scns : t[i] = d.scns[i]
          /\ \A i \in 0..d.nscn - 1 \ DOMAIN d.scns : t[i] = Loaded(ShdrAt(d, off(i)))
      OBVIOUS
    <3> HIDE DEF t, b
    <3>4. v.e = b /\ v.how = "ok" /\ v.ext = w.ext /\ v.rc = w.rc
      BY <3>1 DEF With, Works
    <3>5. b = [d EXCEPT !.loaded = TRUE, !.scns = t]
      BY DEF b
    <3> QED
      BY <1>2, <3>2, <3>3, <3>4, <3>5 DEF ShdrsSeen
  <2> QED
    BY <2>2, <2>3
<1> QED
  BY <1>1, <1>2

LEMMA CardinalityOfIndices ==
  ASSUME NEW n \in Nat, NEW S, S \subseteq 0..n
  PROVE  Cardinality(S) \in Nat /\ (0 \in S /\ 1 \in S => Cardinality(S) > 1)
<1>1. IsFiniteSet(0..n)
  BY FS_Interval
<1>2. IsFiniteSet(S)
  BY <1>1, FS_Subset
<1>3. Cardinality(S) \in Nat
  BY <1>2, FS_CardinalityType
<1>4. ASSUME 0 \in S, 1 \in S PROVE Cardinality(S) > 1
  <2>1. 0..1 \subseteq S /\ Cardinality(0..1) = 2
    <3>1. 0..1 = {0, 1}
      OBVIOUS
    <3>2. Cardinality(0..1) = IF 0 > 1 THEN 0 ELSE 1 - 0 + 1
      BY FS_Interval, 0 \in Int, 1 \in Int
    <3> QED
      BY <1>4, <3>1, <3>2
  <2>2. Cardinality(0..1) <= Cardinality(S)
    BY <1>2, <2>1, FS_Subset
  <2> QED
    BY <1>3, <2>1, <2>2
<1> QED
  BY <1>3, <1>4

\* Sections are counted by the object, but for the section 0 that holds the counts; an
\* object without header has none; all that are in the file are there once they are
\* loaded.
Shaped(d) ==
  /\ DOMAIN d.scns \subseteq {0} \cup 1..d.nscn - 1
  /\ d.ehdr = None => DOMAIN d.scns = {} /\ ~d.loaded
  /\ d.loaded => 0..d.nscn - 1 \subseteq DOMAIN d.scns
  /\ ~d.misread => d.nscn <= MaxScns + 1
  /\ d.raw = Gone => d.mapped

\* What does not change the shape of an object
SameShape(d, b) ==
  /\ b.nscn = d.nscn /\ b.raw = d.raw /\ b.mapped = d.mapped
  /\ (b.loaded => d.loaded) /\ (d.misread => b.misread)
  /\ DOMAIN d.scns \subseteq DOMAIN b.scns /\ DOMAIN b.scns \subseteq DOMAIN d.scns \cup {0}
  /\ b.ehdr = None => d.ehdr = None /\ DOMAIN b.scns = DOMAIN d.scns

LEMMA SameShapeShaped ==
  /\ \A d, b : Shaped(d) /\ SameShape(d, b) => Shaped(b)
  /\ \A d, b, a : SameShape(d, b) /\ SameShape(b, a) => SameShape(d, a)
  /\ \A d, b : OnlySections(d, b) => SameShape(d, b)
<1>1. ASSUME NEW d, NEW b, Shaped(d), SameShape(d, b) PROVE Shaped(b)
  BY <1>1 DEF Shaped, SameShape
<1>2. ASSUME NEW d, NEW b, NEW a, SameShape(d, b), SameShape(b, a) PROVE SameShape(d, a)
  BY <1>2 DEF SameShape
<1>3. ASSUME NEW d, NEW b, OnlySections(d, b) PROVE SameShape(d, b)
  BY <1>3 DEF SameShape, OnlySections
<1> QED
  BY <1>1, <1>2, <1>3

\* The file can be read, if it is still to be.
CanRead(d) == d.ehdr = None /\ d.raw \notin {None, Gone} => Readable(d.raw)

LEMMA EhdrShapes ==
  ASSUME NEW c, NEW w \in Goods(c), w.how = "ok", NEW d, d = w.e, Shaped(d), CanRead(d),
         NEW v, v = WithEhdr(w)
  PROVE  Shaped(v.e)
<1>1. HeaderSeen(d, v)
  BY EhdrGives
<1>2. d \in Opens /\ v \in Readies(c)
  BY WorkFields, WithEhdrType
<1>3. v.e \in Descs /\ v.e \in Opens /\ d \in Descs
  BY <1>2, WorkFields DEF Readies, Opens
<1>4. CASE v.e = d
  BY <1>4
<1>5. CASE d.ehdr = None /\ v.e = [d EXCEPT !.ehdr = NoEhdr]
  <2>1. SameShape(d, v.e)
    <3>1. /\ v.e.nscn = d.nscn /\ v.e.raw = d.raw /\ v.e.mapped = d.mapped /\ v.e.loaded = d.loaded
          /\ v.e.misread = d.misread /\ v.e.scns = d.scns
      BY <1>3, <1>5 DEF Descs
    <3> QED
      BY <1>5, <3>1 DEF SameShape
  <2> QED
    BY <2>1, SameShapeShaped
<1>6. CASE /\ d.ehdr = None /\ d.raw \in Seq(Unit)
           /\ SameButHeader(d, v.e) /\ v.e.ehdr \in Ehdrs
           /\ ~v.e.misread => v.e.nscn = Shnum(d.raw)
  <2>1. ~v.e.misread => v.e.nscn <= MaxScns + 1
    <3>1. d.raw \notin {None, Gone} => Readable(d.raw)
      BY <1>6 DEF CanRead
    <3>2. d.raw \notin {None, Gone}
      BY <1>6, NoneIsNothing
    <3> QED
      BY <1>6, <3>1, <3>2 DEF Readable
  <2>2. DOMAIN d.scns = {} /\ ~d.loaded /\ (d.raw = Gone => d.mapped)
    BY <1>6 DEF Shaped
  <2>3. v.e.ehdr # None
    BY <1>6, NoneIsNothing
  <2> QED
    BY <1>6, <2>1, <2>2, <2>3 DEF Shaped, SameButHeader
<1> QED
  BY <1>1, <1>4, <1>5, <1>6 DEF HeaderSeen

LEMMA ShdrsShape ==
  ASSUME NEW c, NEW w \in Readies(c), NEW d, d = w.e, Shaped(d), NEW v, v = WithShdrs(w)
  PROVE  Shaped(v.e)
<1>1. w \in Works /\ d \in Opens /\ d \in Descs /\ d.nscn \in Nat
  BY WorkFields DEF Readies, Goods, Opens, Descs
<1>2. CASE w.how # "ok"
  <2>1. v = w
    BY <1>2 DEF WithShdrs, Then
  <2> QED
    BY <2>1
<1>3. CASE w.how = "ok"
  <2>1. DOMAIN d.scns \subseteq 0..d.nscn
    BY <1>1 DEF Shaped
  <2>2. ShdrsSeen(w, v)
    BY <1>1, <1>3, <2>1, ShdrsGives, CardinalityOfIndices
  <2>3. d.ehdr # None
    BY <1>3, NoneIsNothing DEF Readies
  <2>4. CASE v.e = d
    BY <2>4
  <2>5. ASSUME NEW t, DOMAIN t = DOMAIN d.scns \cup 0..d.nscn - 1,
               v.e = [d EXCEPT !.loaded = TRUE, !.scns = t]
        PROVE  Shaped(v.e)
    <3>1. /\ v.e.nscn = d.nscn /\ v.e.raw = d.raw /\ v.e.mapped = d.mapped
          /\ v.e.misread = d.misread /\ v.e.scns = t /\ v.e.ehdr = d.ehdr
      BY <1>1, <2>5 DEF Descs
    <3>2. DOMAIN t \subseteq {0} \cup 1..d.nscn - 1
      BY <1>1, <2>5 DEF Shaped
    <3> QED
      BY <2>3, <2>5, <3>1, <3>2 DEF Shaped
  <2>6. CASE v = w
    BY <2>6
  <2> QED
    BY <2>2, <2>4, <2>5, <2>6 DEF ShdrsSeen
<1> QED
  BY <1>2, <1>3

\* What reading the program headers does.
PhdrSeen(d, v) ==
  \/ v.e = d /\ (v.how = "ok" => d.phdr # None)
  \/ /\ v.how = "ok" /\ d.phdr = None /\ d.raw \in Seq(Unit)
     /\ d.ehdr.phoff + d.nphdr * PhdrSize <= Len(d.raw)
     /\ v.e = [d EXCEPT !.phdr = Bytes(d.raw, d.ehdr.phoff, d.nphdr * PhdrSize)]

LEMMA PhdrGives ==
  ASSUME NEW c, NEW w \in Readies(c), w.how = "ok"
  PROVE  PhdrSeen(w.e, WithPhdr(w)) /\ WithPhdr(w).ext = w.ext /\ WithPhdr(w).rc = w.rc
<1> DEFINE d == w.e
           n == d.nphdr * PhdrSize
           v == WithPhdr(w)
           b == [d EXCEPT !.phdr = Bytes(d.raw, d.ehdr.phoff, n)]
<1>1. d \in Opens /\ d.ehdr.phoff \in Nat /\ w \in Works /\ n \in Nat
  BY WorkFields, Sizes DEF Readies, Goods, Opens, Descs, Ehdrs
<1>2. \A how : Fails(w, how).e = d /\ Fails(w, how).how = how /\ Fails(w, how).ext = w.ext
               /\ Fails(w, how).rc = w.rc
  BY <1>1, FailsForm
<1>3. CASE d.phdr # None
  BY <1>3 DEF WithPhdr, PhdrSeen
<1>4. CASE d.phdr = None /\ (d.raw \in {Gone, None} \/ Rawsize(d) < d.ehdr.phoff + n)
  <2>1. v \in {Fails(w, "fault"), Fails(w, "error")}
    BY <1>4 DEF WithPhdr
  <2> HIDE DEF v
  <2> QED
    BY <1>2, <2>1 DEF PhdrSeen, v
<1>5. CASE d.phdr = None /\ d.raw \notin {Gone, None} /\ ~(Rawsize(d) < d.ehdr.phoff + n)
  <2>1. v = With(w, b)
    BY <1>5 DEF WithPhdr
  <2>2. d.raw \in Seq(Unit)
    BY <1>1, <1>5 DEF Opens, Descs
  <2>3. d.ehdr.phoff + n <= Len(d.raw)
    <3>1. Rawsize(d) = Len(d.raw)
      BY <1>5 DEF Rawsize
    <3> QED
      BY <1>1, <1>5, <2>2, <3>1
  <2> HIDE DEF v, b, n
  <2>4. v.e = b /\ v.how = "ok" /\ v.ext = w.ext /\ v.rc = w.rc
    BY <1>1, <2>1 DEF With, Works
  <2> QED
    BY <1>5, <2>2, <2>3, <2>4 DEF PhdrSeen, v, b, n
<1> QED
  BY <1>3, <1>4, <1>5
-----------------------------------------------------------------------------
(* The shape of the object *)

LEMMA OnlySectionsTwice ==
  /\ \A d : OnlySections(d, d)
  /\ \A d, b, a : OnlySections(d, b) /\ OnlySections(b, a) => OnlySections(d, a)
BY DEF OnlySections

LEMMA ResyncScnFrame ==
  ASSUME NEW c, NEW w \in Readies(c), w.how = "ok", NEW i \in Nat
  PROVE  OnlySections(w.e, ResyncScn(w, i).e)
<1> DEFINE d == w.e
           v == ResyncScn(w, i)
<1>1. CASE i \notin DOMAIN d.scns \/ d.scns[i].type \in {"null", "nobits"}
  BY <1>1 DEF ResyncScn, OnlySections
<1>2. CASE i \in DOMAIN d.scns /\ d.scns[i].type \notin {"null", "nobits"}
  <2> DEFINE u == d.scns[i].data = <<>> /\ ~d.scns[i].dirty
  <2>1. \E s, m : SeenAs(d, i, s, m) /\ Fares(w, v, i, s, m, u)
    <3> HIDE DEF v
    <3> QED
      BY <1>2, ResyncScnGives DEF v
  <2>2. PICK s, m : SeenAs(d, i, s, m) /\ Fares(w, v, i, s, m, u)
    BY <2>1
  <2> DEFINE z == LaidOut(d.layout, w.rc, s, u)
  <2>3. v.e \in {Section(d, i, s, m), Section(d, i, z, m)}
    BY <2>2 DEF Fares
  <2>4. d \in Opens /\ (d.misread => m)
    <3>1. d \in Opens
      BY WorkFields DEF Readies
    <3> QED
      BY <1>2, <2>2, <3>1, SeenType
  <2> HIDE DEF z, v, d
  <2>5. \A y : OnlySections(d, Section(d, i, y, m))
    BY <1>2, <2>4, SectionFrame
  <2> QED
    BY <2>3, <2>5 DEF v, d
<1> QED
  BY <1>1, <1>2

LEMMA SectionsShape ==
  ASSUME NEW c, NEW w \in Readies(c)
  PROVE  OnlySections(w.e, ResyncSections(w).e)
<1>1. PICK f : IsLoop(f, w, c) /\ ResyncSections(w) = f[MaxScns]
  BY SectionsLoop
<1>2. OnlySections(w.e, f[0].e)
  BY <1>1 DEF IsLoop, OnlySections
<1>3. ASSUME NEW i \in 1..MaxScns, OnlySections(w.e, f[i - 1].e)
      PROVE  OnlySections(w.e, f[i].e)
  <2> DEFINE p == f[i - 1]
  <2>1. p \in Readies(c) /\ f[i] = Then(p, ResyncScn(p, i))
    BY <1>1, Sizes DEF IsLoop
  <2> HIDE DEF p
  <2>2. CASE p.how # "ok"
    BY <1>3, <2>1, <2>2 DEF Then, p
  <2>3. CASE p.how = "ok"
    <3>1. OnlySections(p.e, ResyncScn(p, i).e)
      BY <2>1, <2>3, ResyncScnFrame, Sizes
    <3> QED
      BY <1>3, <2>1, <2>3, <3>1, OnlySectionsTwice DEF Then, p
  <2> QED
    BY <2>2, <2>3
<1> DEFINE S == {i \in 0..MaxScns : OnlySections(w.e, f[i].e)}
<1>4. 0 \in S /\ \A i \in 1..MaxScns : i - 1 \in S => i \in S
  BY <1>2, <1>3, Sizes
<1>5. 0..MaxScns \subseteq S
  <2> HIDE DEF S
  <2> QED
    BY <1>4, Sizes, Steps
<1> QED
  BY <1>1, <1>5, Sizes
\* The tables, as they are placed.
LEMMA ResyncPhdrGives ==
  ASSUME NEW c, NEW w \in Readies(c), NEW v, v = ResyncPhdr(w)
  PROVE  /\ v.e = w.e \/ (w.how = "ok" /\ PhdrSeen(w.e, WithPhdr(w)) /\ v.e = WithPhdr(w).e)
         /\ v.how = "ok" =>
              /\ w.how = "ok"
              /\ IF w.e.nphdr = 0 THEN v = w
                 ELSE /\ PhdrSeen(w.e, WithPhdr(w)) /\ v.e = WithPhdr(w).e
                      /\ \E start \in Nat :
                           /\ w.e.layout => start = w.e.ehdr.phoff
                           /\ Grown(w, v, [kind |-> "phdr", ndx |-> 0, start |-> start,
                                           size |-> w.e.nphdr * PhdrSize])
<1> DEFINE d == w.e
           phoff == IF d.layout THEN d.ehdr.phoff ELSE RoundUp(w.rc, HdrAlign)
           size == d.nphdr * PhdrSize
           p == WithPhdr(w)
           q == Fails(p, "ok")
           u == Insert(q, "phdr", 0, phoff, size)
           x == [kind |-> "phdr", ndx |-> 0, start |-> phoff, size |-> size]
<1>1. CASE w.how # "ok"
  <2>1. v = w
    BY <1>1 DEF ResyncPhdr, Then
  <2> QED
    BY <1>1, <2>1
<1>2. CASE w.how = "ok"
  <2>1. /\ PhdrSeen(d, p) /\ p.ext = w.ext /\ p.rc = w.rc /\ p \in Works
        /\ w \in Works
    <3>1. p \in Readies(c)
      BY <1>2, WithPhdrType
    <3> QED
      BY <1>2, <3>1, PhdrGives DEF Readies, Goods
  <2>2. v = IF d.nphdr = 0 THEN w
            ELSE IF d.layout /\ (w.rc > phoff \/ phoff % HdrAlign # 0) THEN Fails(w, "layout")
            ELSE IF p.how = "fault" THEN p ELSE u
    BY <1>2 DEF ResyncPhdr, Then, Fails
  <2>3. /\ q.e = p.e /\ q.how = "ok" /\ q.ext = w.ext /\ q.rc = w.rc /\ q \in Works
    <3> HIDE DEF p
    <3> QED
      BY <2>1 DEF Fails, Works
  <2>4. phoff \in Nat /\ (d.layout => phoff = d.ehdr.phoff)
    <3>1. w.rc \in Nat /\ d.ehdr \in Ehdrs
      BY <1>2 DEF Readies, Goods, Works
    <3>2. RoundUp(w.rc, HdrAlign) \in Nat
      BY <3>1, TableOffset
    <3> QED
      BY <3>1, <3>2 DEF Ehdrs
  <2> HIDE DEF phoff, size, q
  <2>5. u.e = q.e /\ (u.how = "ok" => Grown(q, u, x))
    BY <2>3, InsertGives
  <2>6. u.how = "ok" => Grown(w, u, x)
    BY <2>3, <2>5 DEF Grown
  <2>7. /\ Fails(w, "layout").e = w.e /\ Fails(w, "layout").how = "layout"
    BY <2>1, FailsForm
  <2>8. x = [kind |-> "phdr", ndx |-> 0, start |-> phoff, size |-> w.e.nphdr * PhdrSize]
    BY DEF size
  <2> HIDE DEF u, p, x
  <2>9. CASE v = u /\ d.nphdr # 0
    <3>1. v.e = p.e
      BY <2>3, <2>5, <2>9
    <3>2. v.how = "ok" => Grown(w, v, x)
      BY <2>6, <2>9
    <3>3. PhdrSeen(w.e, WithPhdr(w)) /\ v.e = WithPhdr(w).e
      BY <2>1, <3>1 DEF p
    <3> QED
      BY <1>2, <2>4, <2>8, <2>9, <3>2, <3>3
  <2>10. CASE v = p /\ p.how = "fault"
    <3>1. PhdrSeen(w.e, WithPhdr(w)) /\ v.e = WithPhdr(w).e /\ v.how # "ok"
      BY <2>1, <2>10 DEF p
    <3> QED
      BY <1>2, <3>1
  <2>11. CASE v = w /\ d.nphdr = 0
    BY <1>2, <2>11
  <2>12. CASE v = Fails(w, "layout")
    BY <2>7, <2>12
  <2> QED
    BY <2>2, <2>9, <2>10, <2>11, <2>12
<1> QED
  BY <1>1, <1>2

LEMMA ResyncShdrGives ==
  ASSUME NEW c, NEW w \in Readies(c), NEW v, v = ResyncShdr(w)
  PROVE  /\ v.e = w.e
         /\ v.how = "ok" =>
              /\ w.how = "ok"
              /\ IF w.e.nscn = 0 THEN v = w
                 ELSE \E start \in Nat :
                        /\ w.e.layout => start = w.e.ehdr.shoff
                        /\ Grown(w, v, [kind |-> "shdr", ndx |-> 0, start |-> start,
                                        size |-> w.e.nscn * ShdrSize])
<1> DEFINE d == w.e
           shoff == IF d.layout THEN d.ehdr.shoff ELSE RoundUp(w.rc, HdrAlign)
           size == d.nscn * ShdrSize
           u == Insert(w, "shdr", 0, shoff, size)
           x == [kind |-> "shdr", ndx |-> 0, start |-> shoff, size |-> size]
<1>1. CASE w.how # "ok"
  <2>1. v = w
    BY <1>1 DEF ResyncShdr, Then
  <2> QED
    BY <1>1, <2>1
<1>2. CASE w.how = "ok"
  <2>1. w \in Works
    BY DEF Readies, Goods
  <2>2. v = IF d.nscn = 0 THEN w
            ELSE IF shoff % HdrAlign # 0 THEN Fails(w, "layout") ELSE u
    BY <1>2 DEF ResyncShdr, Then
  <2>3. shoff \in Nat /\ (d.layout => shoff = d.ehdr.shoff)
    <3>1. w.rc \in Nat /\ d.ehdr \in Ehdrs
      BY <1>2 DEF Readies, Goods, Works
    <3>2. RoundUp(w.rc, HdrAlign) \in Nat
      BY <3>1, TableOffset
    <3> QED
      BY <3>1, <3>2 DEF Ehdrs
  <2> HIDE DEF shoff, size
  <2>4. u.e = w.e /\ (u.how = "ok" => Grown(w, u, x))
    BY <1>2, <2>1, InsertGives
  <2>5. /\ Fails(w, "layout").e = w.e /\ Fails(w, "layout").how = "layout"
    BY <2>1, FailsForm
  <2>6. x = [kind |-> "shdr", ndx |-> 0, start |-> shoff, size |-> w.e.nscn * ShdrSize]
    BY DEF size
  <2> HIDE DEF u, x
  <2> QED
    BY <1>2, <2>2, <2>3, <2>4, <2>5, <2>6
<1> QED
  BY <1>1, <1>2

LEMMA PhdrShape ==
  ASSUME NEW d \in Opens, NEW v, PhdrSeen(d, v)
  PROVE  SameShape(d, v.e) /\ v.e.scns = d.scns
<1>1. CASE v.e = d
  BY <1>1 DEF SameShape
<1>2. ASSUME NEW x, v.e = [d EXCEPT !.phdr = x] PROVE SameShape(d, v.e) /\ v.e.scns = d.scns
  <2>1. d \in Descs
    BY DEF Opens
  <2>2. /\ v.e.nscn = d.nscn /\ v.e.raw = d.raw /\ v.e.mapped = d.mapped
        /\ v.e.loaded = d.loaded /\ v.e.misread = d.misread /\ v.e.scns = d.scns
        /\ v.e.ehdr = d.ehdr
    BY <1>2, <2>1 DEF Descs
  <2> QED
    BY <2>2 DEF SameShape
<1> QED
  BY <1>1, <1>2 DEF PhdrSeen

LEMMA CountsShape ==
  ASSUME NEW c, NEW w \in Readies(c)
  PROVE  SameShape(w.e, SetCounts(w).e)
<1> DEFINE d == w.e
           b == Counted(w, d)
<1>1. w \in Works /\ d \in Opens /\ d \in Descs
  BY WorkFields DEF Readies, Goods, Opens
<1>2. SetCounts(w) = Then(w, With(w, b))
  BY SetCountsForm
<1>3. CASE w.how # "ok"
  BY <1>2, <1>3 DEF Then, SameShape
<1>4. CASE w.how = "ok"
  <2>1. SetCounts(w).e = b
    BY <1>1, <1>2, <1>4 DEF Then, With, Works
  <2>2. d.ehdr \in Ehdrs
    BY <1>4 DEF Readies
  <2>3. /\ b.raw = d.raw /\ b.nscn = d.nscn
        /\ DOMAIN d.scns \subseteq DOMAIN b.scns /\ DOMAIN b.scns \subseteq DOMAIN d.scns \cup {0}
    <3> HIDE DEF b, d
    <3> QED
      BY <1>1, <2>2, CountedForm DEF b
  <2>4. b.mapped = d.mapped /\ b.loaded = d.loaded /\ b.misread = d.misread
    BY <1>1 DEF Descs, Counted
  <2>5. b.ehdr # None
    <3>1. SetCounts(w) \in Readies(c) /\ SetCounts(w).how = "ok"
      <4>1. SetCounts(w).how = "ok"
        BY <1>1, <1>2, <1>4 DEF Then, With, Works
      <4> QED
        BY <4>1, SetCountsType
    <3> QED
      BY <2>1, <3>1, NoneIsNothing DEF Readies
  <2> HIDE DEF b, d
  <2>6. SameShape(d, b)
    BY <2>3, <2>4, <2>5 DEF SameShape
  <2> QED
    BY <2>1, <2>6 DEF d
<1> QED
  BY <1>3, <1>4

LEMMA ResyncShape ==
  ASSUME NEW d \in Opens, Shaped(d), CanRead(d)
  PROVE  Shaped(Resync(d).e)
<1> DEFINE c == d.cmd
           w == WithEhdr(Work(d))
           a == Insert(w, "ehdr", 0, 0, EhdrSize)
           p == ResyncPhdr(a)
           q == WithShdrs(p)
           s == ResyncSections(q)
           t == ResyncShdr(s)
<1>1. w \in Readies(c) /\ w \in Goods(c) /\ w \in Works /\ w.rc = 0 /\ Shaped(w.e)
  <2>1. Work(d) \in Goods(c) /\ Work(d).rc = 0 /\ Work(d).e = d /\ Work(d).how = "ok"
    BY WorkType DEF Work
  <2>2. w \in Readies(c) /\ w.rc = 0
    BY <2>1, WithEhdrType, HeadersPlaceNothing
  <2>3. Shaped(w.e)
    BY <2>1, EhdrShapes
  <2> QED
    BY <2>2, <2>3 DEF Readies, Goods
<1> HIDE DEF w
<1>2. a \in Readies(c) /\ a.e = w.e /\ a \in Goods(c)
  <2>1. a \in Goods(c) /\ a.e = w.e
    BY <1>1, Sizes, InsertType
  <2>2. w.how # "ok" => a.how # "ok"
    BY DEF Insert, Then
  <2> HIDE DEF a
  <2> QED
    BY <1>1, <2>1, <2>2 DEF Readies
<1> HIDE DEF a
<1>3. p \in Readies(c) /\ Shaped(p.e)
  <2>1. p \in Readies(c)
    BY <1>2, ResyncPhdrType
  <2>2. p.e = a.e \/ (PhdrSeen(a.e, WithPhdr(a)) /\ p.e = WithPhdr(a).e)
    BY <1>2, ResyncPhdrGives
  <2>3. a.e \in Opens
    BY <1>2, WorkFields
  <2>4. p.e = a.e \/ SameShape(a.e, p.e)
    BY <2>2, <2>3, PhdrShape
  <2> HIDE DEF p
  <2> QED
    BY <1>1, <1>2, <2>1, <2>4, SameShapeShaped
<1> HIDE DEF p
<1>4. q \in Readies(c) /\ Shaped(q.e)
  BY <1>3, OpenedType, ShdrsShape
<1> HIDE DEF q
<1>5. s \in Readies(c) /\ Shaped(s.e)
  BY <1>4, ResyncSectionsType, SectionsShape, SameShapeShaped
<1> HIDE DEF s
<1>6. t \in Readies(c) /\ Shaped(t.e)
  BY <1>5, ResyncShdrType, ResyncShdrGives
<1> HIDE DEF t
<1>7. Shaped(SetCounts(t).e)
  BY <1>6, CountsShape, SameShapeShaped
<1>8. Resync(d) = SetCounts(t)
  BY DEF Resync, t, s, q, p, a, w
<1> QED
  BY <1>7, <1>8
TypeInv ==
  /\ calls \in 0..MaxCalls /\ normal \in BOOLEAN
  /\ e # None => Shaped(e)

\* What the client finds when it calls.
LEMMA CallFinds ==
  ASSUME LayoutInv, TypeInv, Call
  PROVE  /\ e # None /\ e \in Opens /\ e \in Descs /\ Shaped(e) /\ CanRead(e)
         /\ calls' \in 0..MaxCalls
<1>1. calls' \in 0..MaxCalls
  BY Sizes DEF Call, Count, TypeInv
<1> QED
  BY <1>1 DEF LayoutInv, TypeInv, Call, CanRead, Opens

\* How a call ends.
LEMMA FinishShape ==
  ASSUME NEW op, NEW w, Shaped(w.e), Finish(op, w),
         calls' \in 0..MaxCalls, normal' \in BOOLEAN
  PROVE  TypeInv'
BY DEF Finish, TypeInv, Shaped

LEMMA NewHeader ==
  ASSUME NEW d \in Opens, Shaped(d), CanRead(d), NEW w, w = WithEhdr(Work(d))
  PROVE  /\ w \in Readies(d.cmd) /\ Shaped(w.e) /\ w.e \in Descs /\ w.e \in Opens
         /\ w \in Works
<1>1. Work(d) \in Goods(d.cmd) /\ Work(d).e = d /\ Work(d).how = "ok"
  BY WorkType
<1>2. w \in Readies(d.cmd)
  BY <1>1, WithEhdrType
<1> QED
  BY <1>1, <1>2, EhdrShapes, WorkFields DEF Readies, Goods, Opens

LEMMA GetEhdrShape ==
  ASSUME LayoutInv, TypeInv, GetEhdr PROVE TypeInv'
<1> DEFINE d == [e EXCEPT !.class = TRUE]
           w == WithEhdr(Work(d))
<1>1. /\ e \in Opens /\ e \in Descs /\ Shaped(e) /\ CanRead(e) /\ calls' \in 0..MaxCalls
  BY CallFinds DEF GetEhdr
<1>2. d \in Opens /\ Shaped(d) /\ CanRead(d)
  BY <1>1 DEF Opens, Descs, Shaped, CanRead
<1> HIDE DEF d
<1>3. Shaped(w.e)
  BY <1>2, NewHeader
<1>4. Finish("ehdr", w) /\ normal' = normal
  BY DEF GetEhdr, d
<1> HIDE DEF w
<1> QED
  BY <1>1, <1>3, <1>4, FinishShape DEF TypeInv

LEMMA GetPhdrShape ==
  ASSUME LayoutInv, TypeInv, GetPhdr PROVE TypeInv'
<1> DEFINE w == WithEhdr(Work(e))
           p == WithPhdr(w)
           v == IF w.how = "ok" /\ w.e.phdr = None /\ w.e.nphdr = 0
                THEN Fails(w, "abort") ELSE Then(w, p)
<1>1. /\ e \in Opens /\ Shaped(e) /\ CanRead(e) /\ calls' \in 0..MaxCalls
  BY CallFinds DEF GetPhdr
<1>2. w \in Readies(e.cmd) /\ Shaped(w.e) /\ w.e \in Opens /\ w \in Works
  BY <1>1, NewHeader
<1>3. Finish("phdr", v) /\ normal' = normal
  BY DEF GetPhdr
<1> HIDE DEF w
<1>4. w.how = "ok" => Shaped(p.e)
  BY <1>2, PhdrGives, PhdrShape, SameShapeShaped
<1> HIDE DEF p
<1>5. Shaped(v.e)
  BY <1>2, <1>4, FailsForm DEF Then
<1> HIDE DEF v
<1> QED
  BY <1>1, <1>3, <1>5, FinishShape DEF TypeInv

LEMMA NewPhdrShape ==
  ASSUME LayoutInv, TypeInv, NEW n \in Phnums, NewPhdr(n) PROVE TypeInv'
<1> DEFINE w == WithEhdr(Work(e))
           table == [k \in 1..n * PhdrSize |-> Ph("new")]
           x == IF n = 0 THEN None ELSE table
           d == w.e
           b == [d EXCEPT !.nphdr = n, !.phdr = x]
<1>1. /\ e \in Opens /\ Shaped(e) /\ CanRead(e) /\ calls' \in 0..MaxCalls
  BY CallFinds DEF NewPhdr
<1>2. w \in Readies(e.cmd) /\ Shaped(d) /\ d \in Descs /\ w \in Works
  BY <1>1, NewHeader
<1>3. \/ Finish("phdr", w) /\ normal' = normal
      \/ Finish("phdr", With(w, b)) /\ normal' = FALSE
  BY DEF NewPhdr
<1> HIDE DEF w, x
<1>4. With(w, b).e = b
  BY <1>2 DEF With, Works
<1> HIDE DEF d
<1>5. /\ b.nscn = d.nscn /\ b.raw = d.raw /\ b.mapped = d.mapped /\ b.loaded = d.loaded
      /\ b.misread = d.misread /\ b.scns = d.scns /\ b.ehdr = d.ehdr
  BY <1>2 DEF Descs
<1> HIDE DEF b
<1>6. Shaped(b)
  BY <1>2, <1>5 DEF Shaped
<1> QED
  BY <1>1, <1>2, <1>3, <1>4, <1>6, FinishShape DEF TypeInv, d

LEMMA OpenedShape ==
  ASSUME NEW d \in Opens, Shaped(d), CanRead(d), NEW w, w = Opened(d)
  PROVE  w \in Readies(d.cmd) /\ Shaped(w.e) /\ w.e \in Descs /\ w.e \in Opens /\ w \in Works
<1>1. w \in Readies(d.cmd)
  BY OpenedType
<1>2. Shaped(w.e)
  <2> DEFINE u == WithEhdr(Work(d))
  <2>1. u \in Readies(d.cmd) /\ Shaped(u.e)
    BY NewHeader
  <2>2. w = WithShdrs(u)
    BY DEF Opened
  <2> HIDE DEF u
  <2> QED
    BY <2>1, <2>2, ShdrsShape
<1> QED
  BY <1>1, <1>2, WorkFields DEF Readies, Goods, Opens

LEMMA GetScnShape ==
  ASSUME LayoutInv, TypeInv, GetScn PROVE TypeInv'
<1>1. /\ e \in Opens /\ Shaped(e) /\ CanRead(e) /\ calls' \in 0..MaxCalls
  BY CallFinds DEF GetScn
<1>2. Finish("scn", Opened(e)) /\ normal' = normal
  BY DEF GetScn
<1>3. Shaped(Opened(e).e)
  BY <1>1, OpenedShape
<1> QED
  BY <1>1, <1>2, <1>3, FinishShape DEF TypeInv

\* A section more.
LEMMA AllocateForm ==
  ASSUME NEW d \in Descs, NEW i, NEW s, NEW b, b = Allocate(d, i, s)
  PROVE  /\ b.nscn = d.nscn /\ b.raw = d.raw /\ b.rawsize = d.rawsize
         /\ b.mapped = d.mapped /\ b.loaded = d.loaded
         /\ b.misread = d.misread /\ b.ehdr = d.ehdr /\ b.phdr = d.phdr /\ b.nphdr = d.nphdr
         /\ b.cmd = d.cmd /\ b.layout = d.layout /\ b.writes = d.writes
         /\ DOMAIN b.scns = DOMAIN d.scns \cup {i} /\ b.scns[i] = s
         /\ \A j \in DOMAIN d.scns : j # i => b.scns[j] = d.scns[j]
<1> DEFINE t == [j \in DOMAIN d.scns \cup {i} |-> IF j = i THEN s ELSE d.scns[j]]
<1>1. b = [d EXCEPT !.scns = t]
  BY DEF Allocate
<1>2. /\ DOMAIN t = DOMAIN d.scns \cup {i} /\ t[i] = s
      /\ \A j \in DOMAIN d.scns : j # i => t[j] = d.scns[j]
  OBVIOUS
<1> HIDE DEF t
<1>3. /\ b.nscn = d.nscn /\ b.raw = d.raw /\ b.rawsize = d.rawsize
 /\ b.mapped = d.mapped /\ b.loaded = d.loaded
      /\ b.misread = d.misread /\ b.ehdr = d.ehdr /\ b.phdr = d.phdr /\ b.nphdr = d.nphdr
      /\ b.cmd = d.cmd /\ b.layout = d.layout /\ b.writes = d.writes /\ b.scns = t
  BY <1>1 DEF Descs
<1> QED
  BY <1>2, <1>3

\* The object with another section, with the number n, and what it is without.
NewSection(d, n, s) ==
  LET base == IF d.scns = <<>> THEN Allocate(d, 0, NoScn) ELSE d
  IN [Allocate(base, n, s) EXCEPT !.nscn = n + 1]

LEMMA NewSectionForm ==
  ASSUME NEW d \in Opens, NEW n \in Nat, n > 0, NEW s \in Scns,
         NEW b, b = NewSection(d, n, s)
  PROVE  /\ b.raw = d.raw /\ b.rawsize = d.rawsize
         /\ b.mapped = d.mapped /\ b.loaded = d.loaded
         /\ b.misread = d.misread /\ b.ehdr = d.ehdr /\ b.phdr = d.phdr /\ b.nphdr = d.nphdr
         /\ b.cmd = d.cmd /\ b.layout = d.layout /\ b.writes = d.writes
         /\ DOMAIN b.scns = DOMAIN d.scns \cup {n} \cup (IF d.scns = <<>> THEN {0} ELSE {})
         /\ b.nscn = n + 1 /\ b.scns[n] = s
         /\ \A j \in DOMAIN d.scns : j # n => b.scns[j] = d.scns[j]
<1> DEFINE z == Allocate(d, 0, NoScn)
           base == IF d.scns = <<>> THEN z ELSE d
           a == Allocate(base, n, s)
<1>1. d \in Descs /\ NoScn \in Scns /\ z \in Opens
  BY LoadedType, AllocateType DEF Opens
<1>2. /\ base.nscn = d.nscn /\ base.raw = d.raw /\ base.rawsize = d.rawsize
 /\ base.mapped = d.mapped
      /\ base.loaded = d.loaded /\ base.misread = d.misread /\ base.ehdr = d.ehdr
      /\ base.phdr = d.phdr /\ base.nphdr = d.nphdr /\ base.cmd = d.cmd
      /\ base.layout = d.layout /\ base.writes = d.writes /\ base \in Opens
      /\ DOMAIN base.scns = DOMAIN d.scns \cup (IF d.scns = <<>> THEN {0} ELSE {})
      /\ \A j \in DOMAIN d.scns : base.scns[j] = d.scns[j]
  <2>1. CASE d.scns = <<>>
    <3>1. base = z /\ DOMAIN d.scns = {}
      BY <2>1, NoTable
    <3> HIDE DEF base, z
    <3>2. z = Allocate(d, 0, NoScn)
      BY DEF z
    <3> QED
      BY <1>1, <2>1, <3>1, <3>2, AllocateForm
  <2>2. CASE d.scns # <<>>
    <3>1. base = d
      BY <2>2
    <3> HIDE DEF base
    <3> QED
      BY <1>1, <2>2, <3>1
  <2> QED
    BY <2>1, <2>2
<1>3. b = [a EXCEPT !.nscn = n + 1]
  BY DEF NewSection
<1> HIDE DEF base
<1>4. /\ a \in Descs
      /\ a.raw = base.raw /\ a.rawsize = base.rawsize
      /\ a.mapped = base.mapped /\ a.loaded = base.loaded
      /\ a.misread = base.misread /\ a.ehdr = base.ehdr /\ a.phdr = base.phdr
      /\ a.nphdr = base.nphdr /\ a.cmd = base.cmd /\ a.layout = base.layout
      /\ a.writes = base.writes
      /\ DOMAIN a.scns = DOMAIN base.scns \cup {n} /\ a.scns[n] = s
      /\ \A j \in DOMAIN base.scns : j # n => a.scns[j] = base.scns[j]
  <2>1. base \in Descs /\ a \in Descs
    BY <1>2, AllocateType DEF Opens
  <2> QED
    BY <2>1, AllocateForm
<1> HIDE DEF a
<1>5. /\ b.raw = a.raw /\ b.rawsize = a.rawsize
 /\ b.mapped = a.mapped /\ b.loaded = a.loaded
      /\ b.misread = a.misread /\ b.ehdr = a.ehdr /\ b.phdr = a.phdr
      /\ b.nphdr = a.nphdr /\ b.cmd = a.cmd /\ b.layout = a.layout
      /\ b.writes = a.writes /\ b.scns = a.scns /\ b.nscn = n + 1
  BY <1>3, <1>4 DEF Descs
<1> QED
  BY <1>2, <1>4, <1>5

LEMMA NewScnShape ==
  ASSUME LayoutInv, TypeInv, NEW type \in {"progbits", "nobits"}, NEW align \in Aligns,
         NewScn(type, align)
  PROVE  TypeInv'
<1> DEFINE w == Opened(e)
           d == w.e
           none == d.scns = <<>>
           n == IF none THEN 1 ELSE d.nscn
           s == [NoScn EXCEPT !.type = type, !.align = align, !.dirty = TRUE]
           new == NewSection(d, n, s)
<1>1. /\ e \in Opens /\ Shaped(e) /\ CanRead(e) /\ calls' \in 0..MaxCalls
  BY CallFinds DEF NewScn
<1>2. w \in Readies(e.cmd) /\ Shaped(d) /\ d \in Descs /\ w \in Works /\ d \in Opens
  BY <1>1, OpenedShape
<1>3. n <= MaxScns /\ (\/ Finish("scn", w) /\ normal' = normal
                       \/ Finish("scn", Fails(w, "abort")) /\ normal' = normal
                       \/ /\ w.how = "ok" /\ none = (d.nscn = 0)
                          /\ Finish("scn", With(w, new)) /\ normal' = FALSE)
  BY DEF NewScn, NewSection
<1> HIDE DEF w
<1>4. /\ Fails(w, "abort").e = d /\ With(w, new).e = new
  BY <1>2 DEF With, Fails, Works
<1>5. ASSUME w.how = "ok", none = (d.nscn = 0) PROVE Shaped(new)
  <2>1. n \in Nat /\ n > 0 /\ s \in Scns
    <3>1. s \in Scns
      BY LoadedType, ElfUpdateAssumption DEF Scns, Kinds, ElfUpdateAssumption
    <3>2. d.nscn \in Nat
      BY <1>2 DEF Descs
    <3> QED
      BY <1>5, <3>1, <3>2
  <2> DEFINE z == new
  <2> HIDE DEF s
  <2>2. /\ z.raw = d.raw /\ z.mapped = d.mapped /\ z.loaded = d.loaded
        /\ z.misread = d.misread /\ z.ehdr = d.ehdr /\ z.nscn = n + 1
        /\ DOMAIN z.scns = DOMAIN d.scns \cup {n} \cup (IF d.scns = <<>> THEN {0} ELSE {})
    <3> HIDE DEF n, d
    <3> QED
      BY <1>2, <2>1, NewSectionForm
  <2> HIDE DEF new, z
  <2>3. d.ehdr # None
    BY <1>2, <1>5, NoneIsNothing DEF Readies
  <2>4. DOMAIN z.scns \subseteq {0} \cup 1..z.nscn - 1
    BY <1>2, <2>1, <2>2 DEF Shaped, Descs
  <2>5. z.loaded => 0..z.nscn - 1 \subseteq DOMAIN z.scns
    <3>1. CASE none
      <4>1. n = 1 /\ DOMAIN z.scns = {0, 1}
        BY <3>1, <2>2, NoTable
      <4> QED
        BY <2>2, <4>1
    <3>2. CASE ~none
      <4>1. n = d.nscn /\ DOMAIN z.scns = DOMAIN d.scns \cup {n}
        BY <3>2, <2>2
      <4> QED
        BY <1>2, <2>1, <2>2, <4>1 DEF Shaped
    <3> QED
      BY <3>1, <3>2
  <2>6. Shaped(z)
    BY <1>2, <1>3, <2>1, <2>2, <2>3, <2>4, <2>5, Sizes DEF Shaped
  <2> QED
    BY <2>6 DEF z
<1> DEFINE wa == Fails(w, "abort")
           wn == With(w, new)
<1> HIDE DEF new, d, n, s, none
<1>6. \/ Finish("scn", w) /\ normal' = normal
      \/ Finish("scn", wa) /\ normal' = normal
      \/ /\ w.how = "ok" /\ none = (d.nscn = 0)
         /\ Finish("scn", wn) /\ normal' = FALSE
  BY <1>3
<1>7. wa.e = d /\ wn.e = new /\ d = w.e
  BY <1>4 DEF d
<1> HIDE DEF wa, wn
<1>8. normal' \in BOOLEAN
  BY <1>6 DEF TypeInv
<1>9. CASE Finish("scn", w)
  BY <1>1, <1>2, <1>7, <1>8, <1>9, FinishShape
<1>10. CASE Finish("scn", wa)
  BY <1>1, <1>2, <1>7, <1>8, <1>10, FinishShape
<1>11. CASE w.how = "ok" /\ none = (d.nscn = 0) /\ Finish("scn", wn)
  BY <1>1, <1>5, <1>7, <1>8, <1>11, FinishShape
<1> QED
  BY <1>6, <1>9, <1>10, <1>11
\* One section of the descriptor has changed.
LEMMA SectionShape ==
  ASSUME LayoutInv, TypeInv, NEW i \in DOMAIN e.scns, NEW s, e # None,
         e' = [e EXCEPT !.scns[i] = s],
         calls' \in 0..MaxCalls, normal' \in BOOLEAN
  PROVE  TypeInv'
<1>1. e \in Opens /\ Shaped(e)
  BY DEF LayoutInv, TypeInv
<1>2. e' = Section(e, i, s, e.misread) /\ e.misread \in BOOLEAN
  BY <1>1, SectionForm
<1>3. OnlySections(e, e')
  BY <1>1, <1>2, SectionFrame
<1>4. Shaped(e')
  BY <1>1, <1>3, SameShapeShaped
<1> QED
  BY <1>4 DEF TypeInv, Shaped

LEMMA ModifyShape ==
  ASSUME LayoutInv, TypeInv, NEW i \in 0..MaxScns, Modify(i) PROVE TypeInv'
<1> DEFINE s == e.scns[i]
           units == [s.data[1].units EXCEPT ![1] = <<"mod", 0>>]
           datum == [s.data[1] EXCEPT !.units = units]
           data == [s.data EXCEPT ![1] = datum]
           z == [s EXCEPT !.data = data]
<1>1. i \in DOMAIN e.scns /\ e # None /\ calls' \in 0..MaxCalls /\ normal' \in BOOLEAN
  BY CallFinds DEF Modify, HasData
<1>2. e' = [e EXCEPT !.scns[i] = z]
  BY DEF Modify
<1> HIDE DEF z
<1> QED
  BY <1>1, <1>2, SectionShape

LEMMA MoveShape ==
  ASSUME LayoutInv, TypeInv, NEW i \in 1..MaxScns, NEW off \in Offsets, Move(i, off)
  PROVE  TypeInv'
<1> DEFINE s == e.scns[i]
           z == [s EXCEPT !.off = off]
<1>1. i \in DOMAIN e.scns /\ e # None /\ calls' \in 0..MaxCalls /\ normal' \in BOOLEAN
  BY CallFinds DEF Move, HasData
<1>2. e' = [e EXCEPT !.scns[i] = z]
  BY DEF Move
<1> HIDE DEF z
<1> QED
  BY <1>1, <1>2, SectionShape

\* The data of a section has been read, or not.
LEMMA WithDataShape ==
  ASSUME NEW d \in Opens, Shaped(d), NEW i \in DOMAIN d.scns, NEW v, v = WithData(Work(d), i)
  PROVE  /\ OnlySections(d, v.e) /\ Shaped(v.e) /\ v.e \in Opens /\ i \in DOMAIN v.e.scns
         /\ v \in Goods(d.cmd)
<1>1. Work(d) \in Goods(d.cmd) /\ Work(d).e = d /\ Work(d).how = "ok" /\ d \in Descs
  BY WorkType DEF Opens
<1> DEFINE w == Work(d)
<1> HIDE DEF w
<1>2. v \in Goods(d.cmd)
  BY <1>1, WithDataType DEF w
<1>3. \/ v.how \in {"error", "fault"} /\ v = Fails(w, v.how)
      \/ \E s, m : SeenAs(d, i, s, m) /\ v = With(w, Section(d, i, s, m))
  BY <1>1, WithDataGives DEF w
<1>4. w.e = d /\ w \in Works
  BY <1>1 DEF w, Goods
<1>5. OnlySections(d, v.e)
  <2>1. CASE v = Fails(w, v.how)
    <3>1. v.e = d
      BY <1>4, <2>1, FailsForm
    <3> QED
      BY <3>1 DEF OnlySections
  <2>2. ASSUME NEW s, NEW m, SeenAs(d, i, s, m), v = With(w, Section(d, i, s, m))
        PROVE  OnlySections(d, v.e)
    <3>1. v.e = Section(d, i, s, m)
      BY <1>4, <2>2 DEF With, Works
    <3>2. d.misread => m
      BY <2>2 DEF SeenAs
    <3> QED
      BY <3>1, <3>2, SectionFrame
  <2> QED
    BY <1>3, <2>1, <2>2
<1> HIDE DEF w
<1>6. v.e \in Opens
  BY <1>2, WorkFields
<1>7. Shaped(v.e)
  BY <1>5, SameShapeShaped
<1>8. DOMAIN v.e.scns = DOMAIN d.scns
  BY <1>5 DEF OnlySections
<1> QED
  BY <1>2, <1>5, <1>6, <1>7, <1>8

LEMMA GetDataShape ==
  ASSUME LayoutInv, TypeInv, NEW i \in 0..MaxScns, GetData(i) PROVE TypeInv'
<1> DEFINE v == WithData(Work(e), i)
<1>1. /\ e \in Opens /\ Shaped(e) /\ i \in DOMAIN e.scns /\ calls' \in 0..MaxCalls
      /\ normal' \in BOOLEAN
  BY CallFinds DEF GetData, TypeInv
<1>2. Finish("data", v)
  BY DEF GetData
<1> HIDE DEF v
<1>3. Shaped(v.e)
  BY <1>1, WithDataShape DEF v
<1> QED
  BY <1>1, <1>2, <1>3, FinishShape

LEMMA NewDataShape ==
  ASSUME LayoutInv, TypeInv, NEW i \in 1..MaxScns, NEW b \in Buffers, NewData(i, b)
  PROVE  TypeInv'
<1> DEFINE reads == e.raw # None /\ e.scns[i].ssize > 0 /\ e.scns[i].data = <<>>
           w == IF reads THEN WithData(Work(e), i) ELSE Work(e)
           s == w.e.scns[i]
           datum == [align |-> b.align, off |-> 0, units |-> b.units]
           data == Append(s.data, datum)
           z == [s EXCEPT !.dirty = TRUE,
                          !.data = IF e.layout THEN Placed(data) ELSE data,
                          !.size = IF e.layout THEN Extent(Placed(data)) ELSE @]
           new == [w.e EXCEPT !.scns[i] = z]
           wn == With(w, new)
<1>1. /\ e \in Opens /\ Shaped(e) /\ i \in DOMAIN e.scns /\ calls' \in 0..MaxCalls
      /\ normal \in BOOLEAN
  BY CallFinds DEF NewData, HasData, TypeInv
<1>2. \/ Finish("data", w) /\ normal' = normal
      \/ Finish("data", wn) /\ normal' = FALSE
  BY DEF NewData
<1> HIDE DEF z
<1>3. w \in Goods(e.cmd) /\ Shaped(w.e) /\ w.e \in Opens /\ i \in DOMAIN w.e.scns
  <2>1. Work(e) \in Goods(e.cmd) /\ Work(e).e = e
    BY <1>1, WorkType
  <2> DEFINE v == WithData(Work(e), i)
  <2>2. v \in Goods(e.cmd) /\ Shaped(v.e) /\ v.e \in Opens /\ i \in DOMAIN v.e.scns
    BY <1>1, WithDataShape
  <2> HIDE DEF v
  <2>3. w = IF reads THEN v ELSE Work(e)
    BY DEF v
  <2> HIDE DEF w, reads
  <2> QED
    BY <1>1, <2>1, <2>2, <2>3
<1> HIDE DEF w
<1> DEFINE d == w.e
<1>4. wn.e = new
  BY <1>3 DEF With, Goods, Works
<1>5. Shaped(new)
  <2>1. new = Section(d, i, z, d.misread) /\ d.misread \in BOOLEAN
    BY <1>3, SectionForm
  <2> HIDE DEF d, new
  <2>2. OnlySections(d, new)
    BY <1>3, <2>1, SectionFrame DEF d
  <2> QED
    BY <1>3, <2>2, SameShapeShaped DEF d
<1> HIDE DEF new, wn, d
<1>6. normal' \in BOOLEAN
  BY <1>1, <1>2
<1>7. CASE Finish("data", w)
  BY <1>1, <1>3, <1>6, <1>7, FinishShape
<1>8. CASE Finish("data", wn)
  BY <1>1, <1>4, <1>5, <1>6, <1>8, FinishShape
<1> QED
  BY <1>2, <1>7, <1>8

LEMMA ArrangeShape ==
  ASSUME LayoutInv, TypeInv, NEW phoff \in Offsets, NEW shoff \in Offsets, Arrange(phoff, shoff)
  PROVE  TypeInv'
<1> DEFINE after(s) == LET data == Placed(s.data) IN
                       IF data = <<>> THEN s ELSE [s EXCEPT !.data = data, !.size = Extent(data)]
           h == [e.ehdr EXCEPT !.phoff = IF e.nphdr = 0 THEN 0 ELSE phoff,
                               !.shoff = IF e.nscn = 0 THEN 0 ELSE shoff]
           t == [i \in DOMAIN e.scns |-> after(e.scns[i])]
<1>1. /\ e \in Opens /\ Shaped(e) /\ calls' \in 0..MaxCalls /\ normal' \in BOOLEAN
  BY CallFinds DEF Arrange
<1>5. e \in Opens /\ e.ehdr \in Ehdrs
  BY DEF Arrange, Call, LayoutInv, Opens, Descs
<1>2. e' = [e EXCEPT !.layout = TRUE, !.ehdr = h, !.scns = t]
  BY <1>5 DEF Arrange, Opens, Descs
<1>3. DOMAIN t = DOMAIN e.scns
  OBVIOUS
<1>6. h \in Ehdrs
  <2>1. phoff \in Nat /\ shoff \in Nat
    BY ElfUpdateAssumption DEF ElfUpdateAssumption
  <2> QED
    BY <1>5, <2>1 DEF Ehdrs
<1> HIDE DEF h, t
<1>4. SameShape(e, e')
  BY <1>2, <1>3, <1>5, <1>6, NoneIsNothing DEF SameShape, Opens, Descs
<1> QED
  BY <1>1, <1>4, SameShapeShaped DEF TypeInv

LEMMA FdDoneShape == ASSUME LayoutInv, TypeInv, FdDone PROVE TypeInv'
<1>1. /\ e \in Opens /\ Shaped(e) /\ calls' \in 0..MaxCalls /\ normal' = normal
  BY CallFinds DEF FdDone
<1>2. e' = [e EXCEPT !.fd = FALSE]
  BY DEF FdDone
<1>3. SameShape(e, e')
  BY <1>1, <1>2 DEF SameShape, Opens, Descs
<1> QED
  BY <1>1, <1>3, SameShapeShaped DEF TypeInv

LEMMA BeginShape ==
  ASSUME LayoutInv, TypeInv, NEW cmd \in Commands, NEW mapped \in BOOLEAN, Begin(cmd, mapped)
  PROVE  TypeInv'
<1>1. calls' \in 0..MaxCalls /\ normal' \in BOOLEAN
  BY Sizes DEF Begin, Count, TypeInv
<1>2. Shaped(e')
  BY NoTable, NoneIsNothing, Sizes DEF Begin, Shaped, LayoutInv
<1> QED
  BY <1>1, <1>2 DEF TypeInv

LEMMA EndShape == ASSUME TypeInv, End PROVE TypeInv'
BY Sizes DEF End, Count, TypeInv

\* elf_update, which forgets that it has loaded the sections
LEMMA UnloadedShape ==
  ASSUME NEW d \in Opens, Shaped(d), NEW b, b = [d EXCEPT !.loaded = FALSE]
  PROVE  Shaped(b)
<1>1. SameShape(d, b)
  BY DEF Opens, Descs, SameShape
<1> QED
  BY <1>1, SameShapeShaped

LEMMA UnwrittenShape ==
  ASSUME TypeInv, NEW w, w.e \in Opens, Shaped(w.e), NEW op, Unwritten(op, w),
         w = [e |-> w.e, how |-> w.how, ext |-> w.ext, rc |-> w.rc], calls' \in 0..MaxCalls
  PROVE  TypeInv'
<1> DEFINE d == [w.e EXCEPT !.loaded = FALSE]
           v == With(w, d)
<1>1. Finish(op, v) /\ normal' \in BOOLEAN
  BY DEF Unwritten, TypeInv
<1>2. Shaped(d)
  BY UnloadedShape
<1> HIDE DEF d
<1>3. v.e = d
  BY DEF With
<1> HIDE DEF v
<1> QED
  BY <1>1, <1>2, <1>3, FinishShape

LEMMA UpdateNullShape == ASSUME LayoutInv, TypeInv, UpdateNull PROVE TypeInv'
<1> DEFINE w == Resync(e)
<1>1. e \in Opens /\ Shaped(e) /\ CanRead(e) /\ calls' \in 0..MaxCalls
  BY CallFinds DEF UpdateNull
<1>2. w \in Goods(e.cmd) /\ Shaped(w.e)
  BY <1>1, ResyncType, ResyncShape DEF Readies
<1>3. Unwritten("null", w)
  BY DEF UpdateNull
<1> HIDE DEF w
<1>4. w.e \in Opens /\ w = [e |-> w.e, how |-> w.how, ext |-> w.ext, rc |-> w.rc]
  BY <1>2, WorkFields, WorkForm
<1> QED
  BY <1>1, <1>2, <1>3, <1>4, UnwrittenShape

LEMMA TouchedShape ==
  ASSUME NEW w, w.e \in Opens, Shaped(w.e), NEW units, NEW raw, raw = Gone => w.e.mapped,
         NEW how \in {"io", "killed"}, Touched(w, units, raw, how), calls' \in 0..MaxCalls
  PROVE  TypeInv'
<1> DEFINE size == IF w.e.raw = None THEN 0 ELSE Rawsize(w.e)
           d == [w.e EXCEPT !.loaded = FALSE, !.raw = raw, !.rawsize = size]
<1>1. Shaped(d)
  <2> HIDE DEF size
  <2> QED
    BY DEF Opens, Descs, Shaped
<1>2. e' = (IF how = "killed" THEN None ELSE d) /\ normal' = FALSE
  BY DEF Touched
<1> HIDE DEF d
<1> QED
  BY <1>1, <1>2 DEF TypeInv

LEMMA WriteElfShape ==
  ASSUME TypeInv, e \in Opens, NEW w \in Goods(e.cmd), Shaped(w.e),
         NEW r, r.img \in Seq(Unit), WriteElf(w, r), calls' \in 0..MaxCalls
  PROVE  TypeInv'
<1> DEFINE gone == IF w.e.mapped THEN Gone ELSE w.e.raw
           img == r.img
<1>1. w.e \in Opens
  BY WorkFields
<1>2. (gone = Gone => w.e.mapped) /\ (w.e.raw = Gone => w.e.mapped)
  BY DEF Shaped
<1>6. \/ e' = Written(w.e, img) /\ normal' \in BOOLEAN
      \/ Unwritten("write", Fails(w, "io"))
      \/ w.e.mapped /\ Touched(w, <<>>, Gone, "io")
      \/ \E n \in Short(img) : Touched(w, SubSeq(img, 1, n), gone, "io")
      \/ w.e.mapped /\ Touched(w, img, Gone, "io")
      \/ \E n \in Short(img) \cup {Len(img)} : Touched(w, SubSeq(img, 1, n), gone, "killed")
  <2>1. (~w.e.layout /\ CountsFit(w.e)) \in BOOLEAN
    OBVIOUS
  <2> QED
    BY <2>1 DEF WriteElf
<1>7. img \in Seq(Unit)
  OBVIOUS
<1> HIDE DEF gone, img
<1>8. CASE e' = Written(w.e, img) /\ normal' \in BOOLEAN
  <2> DEFINE raw == IF w.e.cmd = "rdwr" THEN img ELSE None
             d == w.e
             b == [d EXCEPT !.loaded = FALSE, !.scns = <<>>, !.ehdr = None,
                     !.phdr = None, !.raw = raw, !.writes = @ + 1]
  <2>1. raw # Gone
    BY <1>7, NoneIsNothing
  <2>2. e' = b
    BY <1>8 DEF Written
  <2> HIDE DEF raw
  <2>3. Shaped(b)
    BY <1>1, <2>1, NoTable DEF Shaped, Opens, Descs
  <2> QED
    BY <1>8, <2>2, <2>3 DEF TypeInv
<1>9. CASE Unwritten("write", Fails(w, "io"))
  <2> DEFINE v == Fails(w, "io")
  <2>1. v = [e |-> w.e, how |-> "io", ext |-> w.ext, rc |-> w.rc]
    BY WorkForm
  <2>2. v.e = w.e /\ v = [e |-> v.e, how |-> v.how, ext |-> v.ext, rc |-> v.rc]
    BY <2>1
  <2> HIDE DEF v
  <2>3. Unwritten("write", v)
    BY <1>9 DEF v
  <2> QED
    BY <1>1, <2>2, <2>3, UnwrittenShape
<1>10. ASSUME NEW units, NEW raw, raw = Gone => w.e.mapped, NEW how \in {"io", "killed"},
              Touched(w, units, raw, how)
       PROVE  TypeInv'
  BY <1>1, <1>10, TouchedShape
<1> QED
  BY <1>2, <1>6, <1>8, <1>9, <1>10

LEMMA UpdateWriteShape == ASSUME LayoutInv, TypeInv, UpdateWrite PROVE TypeInv'
<1>1. e \in Opens /\ Shaped(e) /\ CanRead(e) /\ calls' \in 0..MaxCalls
  BY CallFinds DEF UpdateWrite
<1>2. CASE e.cmd = "read"
  BY <1>1, <1>2 DEF UpdateWrite, TypeInv
<1>3. CASE e.cmd # "read"
  <2> DEFINE w == Resync(e)
             r == Image(w)
  <2>1. w \in Readies(e.cmd) /\ w \in Goods(e.cmd) /\ Shaped(w.e)
    BY <1>1, ResyncType, ResyncShape DEF Readies
  <2>2. w.e \in Opens /\ w = [e |-> w.e, how |-> w.how, ext |-> w.ext, rc |-> w.rc]
    <3> HIDE DEF w
    <3> QED
      BY <2>1, WorkFields, WorkForm
  <2>3. \/ Unwritten("write", w)
        \/ \E how : Unwritten("write", Fails(w, how))
        \/ w.how = "ok" /\ r.how = "ok" /\ WriteElf(w, r)
    BY <1>3 DEF UpdateWrite
  <2> HIDE DEF w
  <2>4. w.how = "ok" => r.img \in Seq(Unit)
    BY <2>1, ImageType
  <2> HIDE DEF r
  <2>5. CASE Unwritten("write", w)
    BY <1>1, <2>1, <2>2, <2>5, UnwrittenShape
  <2>6. ASSUME NEW how, Unwritten("write", Fails(w, how)) PROVE TypeInv'
    <3> DEFINE v == Fails(w, how)
    <3>1. v = [e |-> w.e, how |-> how, ext |-> w.ext, rc |-> w.rc]
      BY <2>1, WorkForm
    <3>2. v.e = w.e /\ v = [e |-> v.e, how |-> v.how, ext |-> v.ext, rc |-> v.rc]
      BY <3>1
    <3> HIDE DEF v
    <3>3. Unwritten("write", v)
      BY <2>6 DEF v
    <3> QED
      BY <1>1, <2>1, <2>2, <3>2, <3>3, UnwrittenShape
  <2>7. CASE w.how = "ok" /\ r.how = "ok" /\ WriteElf(w, r)
    BY <1>1, <2>1, <2>4, <2>7, WriteElfShape
  <2> QED
    BY <2>3, <2>5, <2>6, <2>7
<1> QED
  BY <1>2, <1>3

LEMMA TypeStep == ASSUME LayoutInv, TypeInv, [Next]_vars PROVE TypeInv'
<1>1. CASE UNCHANGED vars
  BY <1>1 DEF vars, TypeInv, Shaped
<1>2. CASE Next
  <2>1. CASE \E cmd \in Commands, mapped \in BOOLEAN : Begin(cmd, mapped)
    BY <2>1, BeginShape
  <2>2. CASE End \/ GetEhdr \/ GetPhdr \/ GetScn \/ FdDone
    BY <2>2, EndShape, GetEhdrShape, GetPhdrShape, GetScnShape, FdDoneShape
  <2>3. CASE \E n \in Phnums : NewPhdr(n)
    BY <2>3, NewPhdrShape
  <2>4. CASE \E type \in {"progbits", "nobits"}, align \in Aligns : NewScn(type, align)
    BY <2>4, NewScnShape
  <2>5. CASE \E i \in 0..MaxScns : GetData(i) \/ Modify(i)
    BY <2>5, GetDataShape, ModifyShape
  <2>6. CASE \E i \in 1..MaxScns, b \in Buffers : NewData(i, b)
    BY <2>6, NewDataShape
  <2>7. CASE \E phoff, shoff \in Offsets : Arrange(phoff, shoff)
    BY <2>7, ArrangeShape
  <2>8. CASE \E i \in 1..MaxScns, off \in Offsets : Move(i, off)
    BY <2>8, MoveShape
  <2>9. CASE UpdateNull \/ UpdateWrite
    BY <2>9, UpdateNullShape, UpdateWriteShape
  <2> QED
    BY <1>2, <2>1, <2>2, <2>3, <2>4, <2>5, <2>6, <2>7, <2>8, <2>9 DEF Next
<1> QED
  BY <1>1, <1>2

\* The counts of an object and what is there of it fit together, in whatever order
\* the calls come: the section header table that is loaded has an entry for every
\* section but the one being added, an object that was read, and not misread, has no
\* more sections than the bound, nothing is unmapped that was not mapped.
THEOREM TypeCorrect == Spec => []TypeOK
<1>1. Init => TypeInv
  <2>1. 0 \in 0..MaxCalls /\ FALSE \in BOOLEAN
    BY ElfUpdateAssumption DEF ElfUpdateAssumption
  <2> QED
    BY <2>1 DEF Init, TypeInv
<1>2. LayoutInv /\ TypeInv /\ [Next]_vars => TypeInv'
  BY TypeStep
<1>3. LayoutInv /\ TypeInv => TypeOK
  <2> SUFFICES ASSUME LayoutInv, TypeInv PROVE TypeOK
    OBVIOUS
  <2>1. CASE e = None
    BY <2>1 DEF TypeInv, TypeOK
  <2>2. CASE e # None
    <3>1. e \in Opens /\ e \in Descs /\ Shaped(e)
      BY <2>2 DEF LayoutInv, TypeInv, Opens
    <3>2. e.cmd \in Commands /\ e.nscn \in Nat
      BY <3>1 DEF Descs
    <3>3. \A i \in DOMAIN e.scns : DOMAIN e.scns[i] = DOMAIN NoScn
      <4>1. \A s \in Scns : DOMAIN s = DOMAIN NoScn
        BY DEF Scns, NoScn
      <4> QED
        BY <3>1, <4>1, ScnOf
    <3>4. /\ ~e.misread => e.nscn <= MaxScns + 1
          /\ DOMAIN e.scns \subseteq 0..e.nscn
          /\ e.loaded => e.ehdr # None /\ 1..e.nscn - 1 \subseteq DOMAIN e.scns
          /\ e.raw = Gone => e.mapped
      BY <3>1, <3>2 DEF Shaped
    <3> QED
      BY <2>2, <3>2, <3>3, <3>4 DEF TypeInv, TypeOK
  <2> QED
    BY <2>1, <2>2
<1> QED
  BY <1>1, <1>2, <1>3, Invariance, PTL DEF Spec
=============================================================================
