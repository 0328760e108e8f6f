--------------------------- MODULE ElfWriteProofs ---------------------------
(***************************************************************************)
(* That elf_update writes what the client means (WrittenAsMeant), for any  *)
(* file, any calls and any failures.  Means says what an object is in      *)
(* terms of what the client means by it, before and after each part of it  *)
(* is read; Conforms says what a file is in the same terms.  The lemmas    *)
(* are in this order: filling and contents, one section, the parts of      *)
(* elf_update, the image that is written, what is read back from it, the   *)
(* calls of the client.                                                    *)
(***************************************************************************)
EXTENDS ElfUpdateProofs

-----------------------------------------------------------------------------
(* Units without the filling between them *)

Unfilled(u) == IF u = Fill THEN <<>> ELSE <<u>>
StripRun(s, f) ==
  /\ f[0] = <<>>
  /\ \A k \in 1..Len(s) : f[k] = f[k - 1] \o Unfilled(s[k])
  /\ \A k \in 0..Len(s) : f[k] \in Seq(Unit)

LEMMA Joins ==
  /\ \A a, b \in Seq(Unit) : a \o b \in Seq(Unit)
  /\ \A a, b, c \in Seq(Unit) : (a \o b) \o c = a \o (b \o c)
  /\ \A a \in Seq(Unit) : a \o <<>> = a /\ <<>> \o a = a
  /\ \A a, b, c \in Seq(Unit) : a \o b = a \o c => b = c
  /\ \A u \in Unit : Unfilled(u) \in Seq(Unit)
  /\ \A a \in Seq(Unit), u \in Unit : Append(a, u) = a \o <<u>>
  /\ <<>> \in Seq(Unit)
<1>1. ASSUME NEW a \in Seq(Unit), NEW b \in Seq(Unit), NEW c \in Seq(Unit), a \o b = a \o c
      PROVE  b = c
  <2>1. Len(a \o b) = Len(a) + Len(b) /\ Len(a \o c) = Len(a) + Len(c)
    OBVIOUS
  <2>2. Len(b) = Len(c) /\ Len(a) \in Nat /\ Len(b) \in Nat
    BY <1>1, <2>1
  <2>3. ASSUME NEW k \in 1..Len(b) PROVE b[k] = c[k]
    <3>1. (a \o b)[Len(a) + k] = b[k] /\ (a \o c)[Len(a) + k] = c[k]
      BY <2>2
    <3> QED
      BY <1>1, <3>1
  <2> QED
    BY <2>2, <2>3
<1>2. \A u \in Unit : Unfilled(u) \in Seq(Unit)
  BY DEF Unfilled
<1>3. \A a \in Seq(Unit), u \in Unit : Append(a, u) = a \o <<u>>
  OBVIOUS
<1>4. \A a, b, c \in Seq(Unit) : (a \o b) \o c = a \o (b \o c)
  OBVIOUS
<1>5. \A a \in Seq(Unit) : a \o <<>> = a /\ <<>> \o a = a
  OBVIOUS
<1>6. (\A a, b \in Seq(Unit) : a \o b \in Seq(Unit)) /\ <<>> \in Seq(Unit)
  OBVIOUS
<1> QED
  BY <1>1, <1>2, <1>3, <1>4, <1>5, <1>6

LEMMA StripForm ==
  ASSUME NEW s \in Seq(Unit)
  PROVE  \E f : StripRun(s, f) /\ Strip(s) = f[Len(s)]
<1> DEFINE n == Len(s)
           V == Seq(Unit)
           step(v, k) == IF s[k] = Fill THEN v ELSE Append(v, s[k])
           F == [p \in V \X (1..n) |-> step(p[1], p[2])]
<1>1. n \in Nat /\ \A k \in 1..n : s[k] \in Unit
  OBVIOUS
<1> HIDE DEF n
<1>2. ASSUME NEW v \in V, NEW k \in 1..n PROVE step(v, k) \in V
  BY <1>1
<1>3. IsStep(F, n, V)
  <2> HIDE DEF step, V
  <2> QED
    BY <1>2 DEF IsStep
<1>4. PICK g : IsRun(g, n, V, <<>>, F)
  <2> HIDE DEF F, V
  <2>1. <<>> \in V
    BY DEF V
  <2> QED
    BY ONLY <1>1, <1>3, <2>1, Recursion
<1>5. g = [k \in 0..n |-> IF k = 0 THEN <<>> ELSE step(g[k - 1], k)]
  <2>1. ASSUME NEW k \in 1..n PROVE g[k] = step(g[k - 1], k)
    <3>1. <<g[k - 1], k>> \in V \X (1..n)
      <4> HIDE DEF V
      <4> QED
        BY <1>1, <1>4 DEF IsRun
    <3> HIDE DEF step, V
    <3> QED
      BY <1>4, <3>1 DEF IsRun
  <2> HIDE DEF step
  <2>2. g = [k \in 0..n |-> g[k]] /\ g[0] = <<>>
    BY <1>4 DEF IsRun
  <2>3. \A k \in 0..n : k = 0 \/ k \in 1..n
    BY <1>1
  <2>4. \A k \in 0..n : g[k] = IF k = 0 THEN <<>> ELSE step(g[k - 1], k)
    BY <2>1, <2>2, <2>3
  <2> QED
    BY ONLY <2>2, <2>4
<1> DEFINE f[k \in 0..n] == IF k = 0 THEN <<>> ELSE step(f[k - 1], k)
<1>7. Strip(s) = f[n]
  BY DEF Strip, n
<1> HIDE DEF step
<1>6. f = [k \in 0..n |-> IF k = 0 THEN <<>> ELSE step(f[k - 1], k)]
  <2>1. \E h : h = [k \in 0..n |-> IF k = 0 THEN <<>> ELSE step(h[k - 1], k)]
    BY <1>5
  <2> QED
    BY <2>1
<1> HIDE DEF f, V
<1>8. f[0] = <<>>
  BY <1>1, <1>6
<1>9. f[0] \in V
  BY <1>8 DEF V
<1>10. ASSUME NEW k \in 1..n PROVE f[k] = step(f[k - 1], k)
  BY <1>1, <1>6
<1>11. \A k \in 1..n : f[k - 1] \in V => f[k] \in V
  BY <1>2, <1>10
<1>12. \A k \in 0..n : f[k] \in V
  BY ONLY <1>1, <1>9, <1>11, LoopKeeps
<1>13. ASSUME NEW k \in 1..n PROVE f[k] = f[k - 1] \o Unfilled(s[k])
  <2>1. f[k - 1] \in Seq(Unit) /\ s[k] \in Unit
    BY <1>1, <1>12 DEF V
  <2> QED
    BY <1>10, <2>1, Joins DEF Unfilled, step
<1>14. StripRun(s, f)
  BY <1>8, <1>12, <1>13 DEF StripRun, V, n
<1> QED
  BY <1>7, <1>14 DEF n

\* One part behind the other
LEMMA StripJoin ==
  ASSUME NEW a \in Seq(Unit), NEW b \in Seq(Unit)
  PROVE  /\ a \o b \in Seq(Unit) /\ Strip(a) \in Seq(Unit)
         /\ Strip(a \o b) = Strip(a) \o Strip(b)
<1> DEFINE c == a \o b
           m == Len(a)
           n == Len(b)
<1>1. /\ c \in Seq(Unit) /\ m \in Nat /\ n \in Nat /\ Len(c) = m + n
      /\ \A k \in 1..m : c[k] = a[k]
      /\ \A k \in 1..n : c[m + k] = b[k] /\ m + k \in 1..m + n /\ m + k - 1 = m + (k - 1)
  OBVIOUS
<1>2. PICK f : StripRun(a, f) /\ Strip(a) = f[m]
  BY StripForm
<1>3. PICK g : StripRun(b, g) /\ Strip(b) = g[n]
  BY StripForm
<1>4. PICK h : StripRun(c, h) /\ Strip(c) = h[Len(c)]
  BY <1>1, StripForm
<1>11. m \in Nat /\ n \in Nat
  OBVIOUS
<1> HIDE DEF c, m, n
<1>5. \A k \in 0..m : h[k] = f[k]
  <2>1. h[0] = f[0]
    BY <1>2, <1>4 DEF StripRun
  <2>2. ASSUME NEW k \in 1..m, h[k - 1] = f[k - 1] PROVE h[k] = f[k]
    <3>1. k \in 1..Len(c) /\ k \in 1..Len(a) /\ c[k] = a[k]
      BY <1>1 DEF m
    <3>2. h[k] = h[k - 1] \o Unfilled(c[k])
      BY <1>4, <3>1 DEF StripRun
    <3>3. f[k] = f[k - 1] \o Unfilled(a[k])
      BY <1>2, <3>1 DEF StripRun
    <3> QED
      BY ONLY <2>2, <3>1, <3>2, <3>3
  <2> DEFINE S == {k \in 0..m : h[k] = f[k]}
  <2>3. 0 \in S /\ \A k \in 1..m : k - 1 \in S => k \in S
    BY <1>11, <2>1, <2>2
  <2>4. 0..m \subseteq S
    <3> HIDE DEF S
    <3> QED
      BY ONLY <1>11, <2>3, Steps
  <2> QED
    BY <2>4
<1>6. h[m] = f[m] /\ f[m] \in Seq(Unit)
  BY <1>1, <1>2, <1>5 DEF StripRun, m
<1> DEFINE H == [k \in 0..n |-> h[m + k]]
           G == [k \in 0..n |-> f[m] \o g[k]]
<1>7. H[n] = G[n]
  <2>1. H[0] = G[0]
    <3>1. m + 0 = m /\ 0 \in 0..n
      BY ONLY <1>11
    <3>2. H[0] = h[m + 0] /\ G[0] = f[m] \o g[0]
      BY ONLY <3>1
    <3>3. g[0] = <<>>
      <4> HIDE DEF H, G
      <4> QED
        BY <1>3 DEF StripRun
    <3>4. f[m] \o <<>> = f[m]
      <4> HIDE DEF H, G
      <4> QED
        BY <1>6, Joins
    <3>5. f[m] \o g[0] = f[m]
      BY ONLY <3>3, <3>4
    <3>6. H[0] = h[m]
      BY ONLY <3>1, <3>2
    <3> HIDE DEF H, G
    <3> QED
      BY ONLY <1>6, <3>2, <3>5, <3>6
  <2>2. ASSUME NEW k \in 1..n, H[k - 1] = G[k - 1] PROVE H[k] = G[k]
    <3>1. m + k \in 1..Len(c) /\ k \in 1..Len(b) /\ c[m + k] = b[k] /\ m + k - 1 = m + (k - 1)
      BY <1>1 DEF n
    <3>2. g[k] = g[k - 1] \o Unfilled(b[k])
      BY <1>3, <3>1 DEF StripRun
    <3>5. k - 1 \in 0..Len(b) /\ b[k] \in Unit
      BY <3>1
    <3>6. g[k - 1] \in Seq(Unit) /\ Unfilled(b[k]) \in Seq(Unit)
      BY <1>3, <3>5, Joins DEF StripRun
    <3>9. PICK j : j = m + k
      OBVIOUS
    <3>3. h[j] = h[j - 1] \o Unfilled(c[j])
      <4>1. \A i \in 1..Len(c) : h[i] = h[i - 1] \o Unfilled(c[i])
        BY <1>4 DEF StripRun
      <4>2. j \in 1..Len(c)
        BY ONLY <3>1, <3>9
      <4> QED
        BY ONLY <4>1, <4>2
    <3>4. (f[m] \o g[k - 1]) \o Unfilled(b[k]) = f[m] \o (g[k - 1] \o Unfilled(b[k]))
      <4> HIDE DEF H, G
      <4>1. \A x, y, z \in Seq(Unit) : (x \o y) \o z = x \o (y \o z)
        BY Joins
      <4> QED
        BY ONLY <1>6, <3>6, <4>1
    <3>7. k \in 0..n /\ k - 1 \in 0..n
      BY <1>1
    <3>8. /\ H[k] = h[j] /\ H[k - 1] = h[j - 1]
          /\ G[k] = f[m] \o g[k] /\ G[k - 1] = f[m] \o g[k - 1]
      <4>1. k - 1 \in Int /\ m + (k - 1) = j - 1 /\ m + k = j
        BY <1>11, <3>9
      <4>2. H[k] = h[m + k] /\ H[k - 1] = h[m + (k - 1)]
        BY ONLY <3>7
      <4>3. G[k] = f[m] \o g[k] /\ G[k - 1] = f[m] \o g[k - 1]
        BY ONLY <3>7
      <4> HIDE DEF H, G
      <4> QED
        BY ONLY <4>1, <4>2, <4>3
    <3>10. c[j] = b[k]
      BY ONLY <3>1, <3>9
    <3> HIDE DEF H, G
    <3> QED
      BY ONLY <2>2, <3>2, <3>3, <3>4, <3>8, <3>10
  <2>3. \A k \in 0..n : H[k] = G[k]
    <3> DEFINE S == {k \in 0..n : H[k] = G[k]}
    <3> HIDE DEF H, G
    <3>1. 0 \in S /\ \A k \in 1..n : k - 1 \in S => k \in S
      BY <1>11, <2>1, <2>2
    <3>2. 0..n \subseteq S
      <4> HIDE DEF S
      <4> QED
        BY ONLY <1>11, <3>1, Steps
    <3> QED
      BY <3>2
  <2>4. n \in 0..n
    BY <1>1
  <2> QED
    BY ONLY <2>3, <2>4
<1>9. H[n] = h[m + n] /\ G[n] = f[m] \o g[n]
  <2>1. n \in 0..n
    BY ONLY <1>11
  <2> QED
    BY ONLY <2>1
<1> HIDE DEF H, G
<1>8. Strip(c) = Strip(a) \o Strip(b)
  BY ONLY <1>1, <1>2, <1>3, <1>4, <1>7, <1>9
<1> QED
  BY <1>1, <1>2, <1>6, <1>8 DEF c

LEMMA StripShort ==
  /\ Strip(<<>>) = <<>>
  /\ \A u \in Unit : Strip(<<u>>) = IF u = Fill THEN <<>> ELSE <<u>>
<1>1. <<>> \in Seq(Unit) /\ Len(<<>>) = 0
  OBVIOUS
<1>2. Strip(<<>>) = <<>>
  BY <1>1, StripForm DEF StripRun
<1>3. ASSUME NEW u \in Unit PROVE Strip(<<u>>) = IF u = Fill THEN <<>> ELSE <<u>>
  <2> DEFINE s == <<u>>
  <2>1. s \in Seq(Unit) /\ Len(s) = 1 /\ s[1] = u
    OBVIOUS
  <2> HIDE DEF s
  <2>2. PICK f : StripRun(s, f) /\ Strip(s) = f[Len(s)]
    BY <2>1, StripForm
  <2>3. f[1] = f[1 - 1] \o Unfilled(s[1])
    BY <2>1, <2>2 DEF StripRun
  <2>4. f[0] = <<>> /\ <<>> \o Unfilled(u) = Unfilled(u) /\ 1 - 1 = 0
    BY <2>2, Joins DEF StripRun
  <2> QED
    BY <2>1, <2>2, <2>3, <2>4 DEF s, Unfilled
<1> QED
  BY <1>2, <1>3

LEMMA StripFill ==
  ASSUME NEW s \in Seq(Unit), \A k \in 1..Len(s) : s[k] = Fill
  PROVE  Strip(s) = <<>>
<1>1. PICK f : StripRun(s, f) /\ Strip(s) = f[Len(s)]
  BY StripForm
<1>2. Len(s) \in Nat
  OBVIOUS
<1>3. 0 \in {k \in Int : f[k] = <<>>}
  BY <1>1 DEF StripRun
<1>4. ASSUME NEW k \in 1..Len(s), k - 1 \in {j \in Int : f[j] = <<>>}
      PROVE  k \in {j \in Int : f[j] = <<>>}
  <2>1. f[k] = f[k - 1] \o Unfilled(s[k]) /\ Unfilled(s[k]) = <<>>
    BY <1>1 DEF StripRun, Unfilled
  <2>2. f[k - 1] = <<>> /\ <<>> \o <<>> = <<>> /\ k \in Int
    BY <1>4, Joins
  <2> QED
    BY <2>1, <2>2
<1>5. 0..Len(s) \subseteq {k \in Int : f[k] = <<>>}
  BY ONLY <1>2, <1>3, <1>4, Steps
<1> QED
  BY <1>1, <1>2, <1>5

\* Two contents that differ in filling only, and begin in the same way
Alike(a, b) == Same(a, b) /\ (a = <<>> <=> b = <<>>) /\ (a # <<>> => a[1] = b[1])

LEMMA AlikeProperties ==
  /\ \A a : Alike(a, a)
  /\ \A a, b, c : Alike(a, b) /\ Alike(b, c) => Alike(a, c)
  /\ \A b : Alike(<<>>, b) => b = <<>>
<1>1. ASSUME NEW a PROVE Alike(a, a)
  BY DEF Alike, Same
<1>2. ASSUME NEW a, NEW b, NEW c, Alike(a, b), Alike(b, c) PROVE Alike(a, c)
  <2>1. Same(a, c)
    BY <1>2 DEF Alike, Same
  <2>2. (a = <<>> <=> c = <<>>) /\ (a # <<>> => a[1] = c[1])
    BY <1>2 DEF Alike
  <2> QED
    BY <2>1, <2>2 DEF Alike
<1>3. ASSUME NEW b, Alike(<<>>, b) PROVE b = <<>>
  BY <1>3 DEF Alike
<1> QED
  BY <1>1, <1>2, <1>3

LEMMA AlikeJoin ==
  ASSUME NEW a \in Seq(Unit), NEW b \in Seq(Unit), NEW s \in Seq(Unit), Alike(a, b)
  PROVE  Alike(a \o s, b \o s)
<1>1. Same(a \o s, b \o s)
  <2>1. Strip(a \o s) = Strip(a) \o Strip(s) /\ Strip(b \o s) = Strip(b) \o Strip(s)
    BY ONLY StripJoin, a \in Seq(Unit), b \in Seq(Unit), s \in Seq(Unit)
  <2>2. Strip(a) = Strip(b)
    BY DEF Alike, Same
  <2>3. Strip(a \o s) = Strip(b \o s)
    BY ONLY <2>1, <2>2
  <2> QED
    BY <2>3 DEF Same
<1>2. (a = <<>> <=> b = <<>>) /\ (a # <<>> => a[1] = b[1])
  BY DEF Alike
<1>3. CASE a = <<>>
  <2>1. a = b
    BY <1>2, <1>3
  <2> QED
    BY <2>1, AlikeProperties
<1>4. CASE a # <<>>
  <2>1. a \o s # <<>> /\ b \o s # <<>> /\ (a \o s)[1] = a[1] /\ (b \o s)[1] = b[1]
    BY <1>2, <1>4
  <2> QED
    BY <1>1, <1>2, <1>4, <2>1 DEF Alike
<1> QED
  BY <1>3, <1>4

\* The client changes the first unit.
LEMMA AlikeModified ==
  ASSUME NEW a \in Seq(Unit), NEW b \in Seq(Unit), Alike(a, b), a # <<>>, NEW u \in Unit
  PROVE  Alike([a EXCEPT ![1] = u], [b EXCEPT ![1] = u])
<1> DEFINE x == Tail(a)
           y == Tail(b)
<1>1. b # <<>> /\ a[1] = b[1] /\ Strip(a) = Strip(b) /\ a[1] \in Unit
  BY DEF Alike, Same
<1>2. /\ x \in Seq(Unit) /\ y \in Seq(Unit) /\ <<a[1]>> \in Seq(Unit) /\ <<u>> \in Seq(Unit)
      /\ a = <<a[1]>> \o x /\ b = <<a[1]>> \o y
  BY <1>1
<1>3. [a EXCEPT ![1] = u] = <<u>> \o x /\ [b EXCEPT ![1] = u] = <<u>> \o y
  BY <1>1
<1> HIDE DEF x, y
<1>4. Strip(x) = Strip(y)
  <2> DEFINE p == Strip(<<a[1]>>)
             q == Strip(x)
             r == Strip(y)
  <2>1. p \o q = p \o r
    <3>1. Strip(<<a[1]>> \o x) = p \o q /\ Strip(<<a[1]>> \o y) = p \o r
      BY ONLY <1>2, StripJoin
    <3> HIDE DEF p, q, r
    <3> QED
      BY ONLY <1>1, <1>2, <3>1
  <2>2. p \in Seq(Unit) /\ q \in Seq(Unit) /\ r \in Seq(Unit)
    BY ONLY <1>2, StripJoin
  <2> HIDE DEF p, q, r
  <2>3. q = r
    BY <2>1, <2>2, Joins
  <2> QED
    BY <2>3 DEF q, r
<1>5. Strip(<<u>> \o x) = Strip(<<u>> \o y)
  <2>1. Strip(<<u>> \o x) = Strip(<<u>>) \o Strip(x) /\ Strip(<<u>> \o y) = Strip(<<u>>) \o Strip(y)
    BY ONLY <1>2, StripJoin
  <2> QED
    BY ONLY <1>4, <2>1
<1>6. /\ <<u>> \o x # <<>> /\ <<u>> \o y # <<>>
      /\ (<<u>> \o x)[1] = u /\ (<<u>> \o y)[1] = u
  BY <1>2
<1> QED
  BY <1>3, <1>5, <1>6 DEF Alike, Same

-----------------------------------------------------------------------------
(* What is where in an image *)

\* Nothing of it was left to chance.
Clean(s) == \A k \in 1..Len(s) : s[k] # Junk

LEMMA BytesGive ==
  ASSUME NEW img \in Seq(Unit), NEW off \in Nat, NEW n \in Nat, off + n <= Len(img),
         NEW b, b = Bytes(img, off, n)
  PROVE  /\ b \in Seq(Unit) /\ n = Len(b)
         /\ \A k \in 1..n : b[k] = img[off + k] /\ off + k \in 1..Len(img)
<1>1. b \in Seq(Unit) /\ n = Len(b)
  BY BytesType
<1>2. b = [k \in 1..n |-> img[k + off]]
  BY DEF Bytes
<1>3. \A k \in 1..n : k + off = off + k /\ off + k \in 1..Len(img)
  OBVIOUS
<1> QED
  BY <1>1, <1>2, <1>3

LEMMA BytesForm ==
  \A img \in Seq(Unit), off, n \in Nat :
    off + n <= Len(img) =>
      /\ Bytes(img, off, n) \in Seq(Unit) /\ n = Len(Bytes(img, off, n))
      /\ \A k \in 1..n : Bytes(img, off, n)[k] = img[off + k]
BY BytesGive

\* Two sequences that agree everywhere
LEMMA SameUnits ==
  ASSUME NEW a \in Seq(Unit), NEW b \in Seq(Unit), Len(a) = Len(b),
         \A k \in 1..Len(a) : a[k] = b[k]
  PROVE  a = b
OBVIOUS

\* A region that has not been written to
LEMMA BytesSame ==
  ASSUME NEW img \in Seq(Unit), NEW to \in Seq(Unit), Len(to) = Len(img),
         NEW off \in Nat, NEW n \in Nat, off + n <= Len(img),
         \A k \in 1..Len(img) : off < k /\ k <= off + n => to[k] = img[k]
  PROVE  Bytes(to, off, n) = Bytes(img, off, n)
<1> DEFINE a == Bytes(img, off, n)
           b == Bytes(to, off, n)
<1>1. /\ a \in Seq(Unit) /\ n = Len(a)
      /\ \A k \in 1..n : a[k] = img[off + k] /\ off + k \in 1..Len(img)
  BY BytesGive
<1>2. b \in Seq(Unit) /\ n = Len(b) /\ \A k \in 1..n : b[k] = to[off + k]
  BY BytesGive
<1>3. \A k \in 1..n : to[off + k] = img[off + k]
  BY <1>1
<1> HIDE DEF a, b
<1>4. \A k \in 1..n : a[k] = b[k]
  BY <1>1, <1>2, <1>3
<1>5. a = b
  BY <1>1, <1>2, <1>4, SameUnits
<1> QED
  BY <1>5 DEF a, b

LEMMA PutGives ==
  ASSUME NEW img \in Seq(Unit), NEW off \in Nat, NEW u \in Seq(Unit),
         NEW to, to = Put(img, off, u)
  PROVE  /\ to \in Seq(Unit) /\ Len(to) = Len(img)
         /\ \A k \in 1..Len(img) :
              /\ k <= off \/ k > off + Len(u) => to[k] = img[k]
              /\ off < k /\ k <= off + Len(u) => to[k] = u[k - off]
         /\ off + Len(u) <= Len(img) => Bytes(to, off, Len(u)) = u
<1>1. to \in Seq(Unit) /\ Len(to) = Len(img)
  <2>1. off \in Int
    OBVIOUS
  <2> QED
    BY <2>1, PutType
<1>2. to = [k \in 1..Len(img) |-> IF k - off \in 1..Len(u) THEN u[k - off] ELSE img[k]]
  BY DEF Put
<1>3. ASSUME NEW k \in 1..Len(img)
      PROVE  /\ k <= off \/ k > off + Len(u) => to[k] = img[k]
             /\ off < k /\ k <= off + Len(u) => to[k] = u[k - off]
  <2>1. Len(u) \in Nat /\ Len(img) \in Nat
    OBVIOUS
  <2>2. k - off \in 1..Len(u) <=> off < k /\ k <= off + Len(u)
    BY <2>1
  <2> QED
    BY <1>2, <2>1, <2>2
<1>4. ASSUME off + Len(u) <= Len(img) PROVE Bytes(to, off, Len(u)) = u
  <2> DEFINE n == Len(u)
             b == Bytes(to, off, n)
  <2>1. b \in Seq(Unit) /\ n = Len(b) /\ \A k \in 1..n : b[k] = to[off + k]
    <3>1. n \in Nat /\ off + n <= Len(to)
      BY <1>1, <1>4
    <3>2. to \in Seq(Unit) /\ off \in Nat /\ b = Bytes(to, off, n)
      BY <1>1
    <3> HIDE DEF n, b
    <3> QED
      <4>1. /\ Bytes(to, off, n) \in Seq(Unit) /\ n = Len(Bytes(to, off, n))
            /\ \A k \in 1..n : Bytes(to, off, n)[k] = to[off + k]
        BY ONLY <3>1, <3>2, BytesForm
      <4> QED
        BY ONLY <3>2, <4>1
  <2>2. ASSUME NEW k \in 1..n PROVE b[k] = u[k]
    <3>1. off + k \in 1..Len(img) /\ off < off + k /\ off + k <= off + n /\ (off + k) - off = k
      BY <1>4
    <3>2. to[off + k] = u[(off + k) - off]
      BY <1>3, <3>1
    <3> HIDE DEF b
    <3> QED
      BY <2>1, <3>1, <3>2
  <2> HIDE DEF b
  <2>3. b = u
    BY <2>1, <2>2, SameUnits
  <2> QED
    BY <2>3 DEF b
<1> QED
  BY <1>1, <1>3, <1>4

Filling(n) == [k \in 1..n |-> Fill]
LEMMA FillingType ==
  ASSUME NEW n \in Nat
  PROVE  /\ Filling(n) \in Seq(Unit) /\ Len(Filling(n)) = n /\ Strip(Filling(n)) = <<>>
         /\ Clean(Filling(n))
<1>1. Fill \in Unit /\ Fill # Junk
  BY DEF Unit, Fill, Junk
<1>2. Filling(n) \in Seq(Unit) /\ Len(Filling(n)) = n /\ \A k \in 1..n : Filling(n)[k] = Fill
  BY <1>1 DEF Filling
<1> QED
  BY <1>1, <1>2, StripFill DEF Clean

LEMMA PadGives ==
  ASSUME NEW img \in Seq(Unit), NEW from \in Nat, NEW upto \in Nat, from <= upto,
         NEW to, to = Pad(img, from, upto)
  PROVE  /\ to \in Seq(Unit) /\ Len(to) = Len(img)
         /\ \A k \in 1..Len(img) :
              /\ k <= from \/ k > upto => to[k] = img[k]
              /\ from < k /\ k <= upto => to[k] = Fill
<1> DEFINE n == upto - from
           u == Filling(n)
<1>1. n \in Nat /\ from + n = upto /\ Larger(0, upto - from) = n
  BY DEF Larger
<1>2. to = Put(img, from, u)
  BY <1>1 DEF Pad, Filling
<1>3. u \in Seq(Unit) /\ Len(u) = n /\ \A k \in 1..n : u[k] = Fill
  BY <1>1, FillingType DEF Filling
<1> HIDE DEF u, n
<1>4. /\ to \in Seq(Unit) /\ Len(to) = Len(img)
      /\ \A k \in 1..Len(img) :
           /\ k <= from \/ k > from + Len(u) => to[k] = img[k]
           /\ from < k /\ k <= from + Len(u) => to[k] = u[k - from]
  <2>1. img \in Seq(Unit) /\ from \in Nat /\ u \in Seq(Unit)
    BY <1>3
  <2> QED
    BY ONLY <1>2, <2>1, PutGives
<1>5. \A k \in 1..Len(img) : from < k /\ k <= upto => k - from \in 1..n
  BY <1>1
<1> QED
  BY <1>1, <1>3, <1>4, <1>5

LEMMA TwoParts ==
  ASSUME NEW a \in Seq(Unit), NEW b \in Seq(Unit), NEW g, g = a \o b,
         NEW m, m = Len(a), NEW n, n = Len(b)
  PROVE  /\ g \in Seq(Unit) /\ m + n = Len(g) /\ m \in Nat /\ n \in Nat
         /\ \A k \in 1..m : g[k] = a[k]
         /\ \A k \in 1..n : g[m + k] = b[k]
OBVIOUS

LEMMA ThreeParts ==
  ASSUME NEW a \in Seq(Unit), NEW b \in Seq(Unit), NEW u \in Seq(Unit),
         NEW c, c = (a \o b) \o u,
         NEW n1, n1 = Len(a), NEW n2, n2 = Len(b), NEW m, m = Len(u)
  PROVE  /\ c \in Seq(Unit) /\ n1 + n2 + m = Len(c)
         /\ \A k \in 1..n1 : c[k] = a[k]
         /\ \A k \in 1..n2 : c[n1 + k] = b[k]
         /\ \A k \in 1..m : c[n1 + n2 + k] = u[k]
<1> DEFINE g == a \o b
<1>1. /\ g \in Seq(Unit) /\ n1 + n2 = Len(g) /\ n1 \in Nat /\ n2 \in Nat
      /\ \A k \in 1..n1 : g[k] = a[k]
      /\ \A k \in 1..n2 : g[n1 + k] = b[k]
  BY TwoParts
<1> DEFINE n == n1 + n2
<1>2. c = g \o u /\ n = Len(g)
  BY <1>1
<1> HIDE DEF g, n
<1>3. /\ c \in Seq(Unit) /\ n + m = Len(c)
      /\ \A k \in 1..n : c[k] = g[k]
      /\ \A k \in 1..m : c[n + k] = u[k]
  BY <1>1, <1>2, TwoParts
<1>4. (\A k \in 1..n1 : k \in 1..n) /\ (\A k \in 1..n2 : n1 + k \in 1..n)
  BY <1>1 DEF n
<1> QED
  BY <1>1, <1>3, <1>4 DEF n

\* The next buffer, behind the filling
Behind(img, s0, e0, at, u, to) ==
  /\ img \in Seq(Unit) /\ s0 \in Nat /\ e0 \in Nat /\ at \in Nat /\ u \in Seq(Unit)
  /\ s0 <= e0 /\ e0 <= at /\ at + Len(u) <= Len(img)
  /\ to = Put(Pad(img, e0, at), at, u)

LEMMA PutAfter ==
  ASSUME NEW img, NEW s0, NEW e0, NEW at, NEW u, NEW to, Behind(img, s0, e0, at, u, to)
  PROVE  /\ to \in Seq(Unit) /\ Len(to) = Len(img)
         /\ \A k \in 1..Len(img) : k <= e0 => to[k] = img[k]
         /\ Bytes(to, s0, at + Len(u) - s0)
              = (Bytes(img, s0, e0 - s0) \o Filling(at - e0)) \o u
<1> USE DEF Behind
<1> DEFINE mid == Pad(img, e0, at)
           m == Len(u)
           n1 == e0 - s0
           n2 == at - e0
           a == Bytes(img, s0, n1)
           f == Filling(n2)
           b == Bytes(to, s0, at + m - s0)
           c == (a \o f) \o u
<1>1. /\ m \in Nat /\ n1 \in Nat /\ n2 \in Nat /\ at + m - s0 \in Nat
      /\ s0 + n1 = e0 /\ e0 + n2 = at /\ s0 + (at + m - s0) = at + m
      /\ at + m - s0 = n1 + n2 + m /\ s0 + n1 <= Len(img) /\ Len(img) \in Nat
  OBVIOUS
<1>2. /\ mid \in Seq(Unit) /\ Len(mid) = Len(img)
      /\ \A k \in 1..Len(img) : /\ k <= e0 \/ k > at => mid[k] = img[k]
                                /\ e0 < k /\ k <= at => mid[k] = Fill
  BY PadGives
<1> HIDE DEF mid
<1>3. /\ to \in Seq(Unit) /\ Len(to) = Len(mid)
      /\ \A k \in 1..Len(mid) : /\ k <= at \/ k > at + m => to[k] = mid[k]
                                /\ at < k /\ k <= at + m => to[k] = u[k - at]
  BY <1>2, PutGives DEF mid
<1>4. /\ a \in Seq(Unit) /\ n1 = Len(a) /\ \A k \in 1..n1 : a[k] = img[s0 + k]
  <2> HIDE DEF n1
  <2> QED
    BY ONLY <1>1, img \in Seq(Unit), s0 \in Nat, BytesGive DEF a
<1>5. f \in Seq(Unit) /\ n2 = Len(f) /\ \A k \in 1..n2 : f[k] = Fill
  BY <1>1, FillingType DEF Filling
<1>6. /\ b \in Seq(Unit) /\ at + m - s0 = Len(b)
      /\ \A k \in 1..at + m - s0 : b[k] = to[s0 + k]
  <2>1. at + m - s0 \in Nat /\ s0 + (at + m - s0) <= Len(to) /\ to \in Seq(Unit)
    BY <1>1, <1>2, <1>3
  <2>2. \A n \in Nat : s0 + n <= Len(to) =>
          /\ Bytes(to, s0, n) \in Seq(Unit) /\ n = Len(Bytes(to, s0, n))
          /\ \A k \in 1..n : Bytes(to, s0, n)[k] = to[s0 + k]
    BY ONLY <2>1, s0 \in Nat, BytesForm
  <2> QED
    BY ONLY <2>1, <2>2
<1> HIDE DEF a, f, b, n1, n2, m
<1>7. /\ c \in Seq(Unit) /\ n1 + n2 + m = Len(c)
      /\ \A k \in 1..n1 : c[k] = a[k]
      /\ \A k \in 1..n2 : c[n1 + k] = f[k]
      /\ \A k \in 1..m : c[n1 + n2 + k] = u[k]
  <2>1. u \in Seq(Unit) /\ m = Len(u) /\ c = (a \o f) \o u
    BY DEF m
  <2> HIDE DEF c
  <2> QED
    BY ONLY <1>4, <1>5, <2>1, ThreeParts
<1> HIDE DEF c
<1>8. ASSUME NEW k \in 1..n1 + n2 + m PROVE b[k] = c[k]
  <2>1. k \in Int /\ s0 + k \in 1..Len(img) /\ k \in 1..at + m - s0
    <3>1. at + m <= Len(img)
      BY DEF m
    <3>2. s0 \in Int /\ at \in Int /\ s0 >= 0 /\ k \in Int /\ k >= 1 /\ k <= n1 + n2 + m
      BY <1>1
    <3>3. k <= at + m - s0
      BY ONLY <1>1, <3>2
    <3> QED
      BY ONLY <1>1, <3>1, <3>2, <3>3
  <2>2. b[k] = to[s0 + k]
    BY <1>6, <2>1
  <2>3. CASE k <= n1
    <3>1. s0 + k <= e0 /\ s0 + k <= at /\ k \in 1..n1
      BY <1>1, <2>1, <2>3
    <3>2. to[s0 + k] = img[s0 + k]
      BY <1>2, <1>3, <2>1, <3>1
    <3> QED
      BY <1>4, <1>7, <2>2, <3>1, <3>2
  <2>4. CASE n1 < k /\ k <= n1 + n2
    <3> DEFINE j == k - n1
    <3>1. j \in 1..n2 /\ n1 + j = k /\ s0 + k <= at /\ e0 < s0 + k
      BY <1>1, <2>1, <2>4
    <3> HIDE DEF j
    <3>2. to[s0 + k] = Fill
      BY <1>2, <1>3, <2>1, <3>1
    <3>3. c[n1 + j] = Fill
      BY <1>5, <1>7, <3>1
    <3> QED
      BY <2>2, <3>1, <3>2, <3>3
  <2>5. CASE n1 + n2 < k
    <3> DEFINE j == k - (n1 + n2)
    <3>1. j \in 1..m /\ n1 + n2 + j = k /\ s0 + k <= at + m /\ at < s0 + k /\ (s0 + k) - at = j
      BY <1>1, <2>1, <2>5
    <3> HIDE DEF j
    <3>2. to[s0 + k] = u[(s0 + k) - at]
      BY <1>2, <1>3, <2>1, <3>1
    <3>3. c[n1 + n2 + j] = u[j]
      BY <1>7, <3>1
    <3> QED
      BY <2>2, <3>1, <3>2, <3>3
  <2> QED
    BY <1>1, <2>1, <2>3, <2>4, <2>5
<1>9. b = c
  BY <1>1, <1>6, <1>7, <1>8, SameUnits
<1>10. \A k \in 1..Len(img) : k <= e0 => to[k] = img[k]
  BY <1>1, <1>2, <1>3
<1> QED
  BY <1>2, <1>3, <1>9, <1>10 DEF b, c, a, f, n1, n2, m

-----------------------------------------------------------------------------
(* The buffers of a section, as they are written *)

LEMMA EmptyOne ==
  /\ \A s \in Seq(Unit) : 0 = Len(s) => s = <<>>
  /\ \A s \in Seq(Unit) : s # <<>> => Len(s) > 0
  /\ Clean(<<>>) /\ Len(<<>>) = 0
<1>1. \A s \in Seq(Unit) : 0 = Len(s) => s = <<>>
  OBVIOUS
<1>2. \A s \in Seq(Unit) : s # <<>> => Len(s) > 0
  OBVIOUS
<1>3. Len(<<>>) = 0
  OBVIOUS
<1>4. Clean(<<>>)
  BY <1>3 DEF Clean
<1> QED
  BY <1>1, <1>2, <1>3, <1>4

LEMMA CleanParts ==
  ASSUME NEW a \in Seq(Unit), NEW b \in Seq(Unit), Clean(a), Clean(b)
  PROVE  Clean(a \o b)
<1> DEFINE g == a \o b
           m == Len(a)
           n == Len(b)
<1>1. /\ m + n = Len(g) /\ m \in Nat /\ n \in Nat
      /\ \A k \in 1..m : g[k] = a[k]
      /\ \A k \in 1..n : g[m + k] = b[k]
  BY TwoParts
<1>2. (\A k \in 1..m : a[k] # Junk) /\ (\A k \in 1..n : b[k] # Junk)
  BY DEF Clean
<1> HIDE DEF g, m, n
<1>3. ASSUME NEW k \in 1..m + n PROVE g[k] # Junk
  <2>1. CASE k <= m
    BY <1>1, <1>2, <2>1
  <2>2. CASE k > m
    <3>1. k - m \in 1..n /\ m + (k - m) = k
      BY <1>1, <2>2
    <3> QED
      BY <1>1, <1>2, <3>1
  <2> QED
    BY <1>1, <2>1, <2>2
<1> QED
  BY <1>1, <1>3 DEF Clean, g

\* Filling behind contents that are not empty
LEMMA AlikeFilled ==
  ASSUME NEW a \in Seq(Unit), NEW b \in Seq(Unit), Alike(a, b),
         NEW n \in Nat, n = 0 \/ a # <<>>
  PROVE  Alike(a \o Filling(n), b)
<1> DEFINE f == Filling(n)
           c == a \o f
<1>1. f \in Seq(Unit) /\ n = Len(f) /\ Strip(f) = <<>>
  BY FillingType
<1> HIDE DEF f
<1>2. Strip(c) = Strip(a) \o Strip(f) /\ Strip(a) \in Seq(Unit)
  BY <1>1, StripJoin
<1>3. Strip(a) \o <<>> = Strip(a)
  BY <1>2, Joins
<1>4. Strip(c) = Strip(a)
  BY ONLY <1>1, <1>2, <1>3
<1>5. CASE n = 0
  <2>1. f = <<>>
    <3>1. 0 = Len(f)
      BY <1>1, <1>5
    <3> QED
      BY ONLY <1>1, <3>1, EmptyOne
  <2>2. c = a
    BY <2>1, Joins
  <2> QED
    BY <2>2 DEF f
<1>6. CASE a # <<>>
  <2>1. c # <<>> /\ c[1] = a[1]
    BY <1>1, <1>6
  <2> HIDE DEF c
  <2>2. Alike(c, b)
    BY <1>4, <1>6, <2>1 DEF Alike, Same
  <2> QED
    BY <2>2 DEF c, f
<1> QED
  BY <1>5, <1>6

LEMMA ExtentCovers ==
  ASSUME NEW data \in DataLists
  PROVE  \A k \in 1..Len(data) : data[k].off + Len(data[k].units) <= Extent(data)
<1> DEFINE n == Len(data)
           f == [k \in 1..n |-> data[k].off + Len(data[k].units)]
<1>1. n \in Nat /\ \A k \in 1..n : data[k] \in Datum
  BY DEF DataLists
<1>2. \A k \in 1..n : f[k] \in Nat
  BY <1>1 DEF Datum
<1>3. BufferEnds(data) = {f[k] : k \in 1..n}
  BY DEF BufferEnds
<1>4. \A k \in 1..n : f[k] = data[k].off + Len(data[k].units)
  OBVIOUS
<1> HIDE DEF n, f
<1>5. \A k \in 1..n : f[k] <= MaxOf({0} \cup {f[j] : j \in 1..n})
  BY <1>1, <1>2, Greatest
<1> QED
  BY <1>3, <1>4, <1>5 DEF Extent, n

\* Buffers that are placed one behind the other
LEMMA BuffersInOrder ==
  ASSUME NEW s \in Scns, Placed(s.data) = s.data,
         NEW n, n = Len(s.data)
  PROVE  /\ n \in Nat /\ \A k \in 1..n : s.data[k] \in Datum /\ s.data[k].units \in Seq(Unit)
         /\ s.soff \in Nat /\ BufferEnd(s, 0) = s.soff
         /\ \A k \in 1..n :
              /\ BufferEnd(s, k - 1) \in Nat /\ BufferAt(s, k) \in Nat
              /\ s.soff <= BufferEnd(s, k - 1) /\ BufferEnd(s, k - 1) <= BufferAt(s, k)
              /\ BufferEnd(s, k) = BufferAt(s, k) + Len(s.data[k].units)
              /\ BufferEnd(s, k) <= s.soff + Extent(s.data)
              /\ k = 1 => BufferAt(s, k) = s.soff
              /\ k # 1 => /\ k - 1 \in 1..n
                          /\ BufferEnd(s, k - 1) = BufferAt(s, k - 1) + Len(s.data[k - 1].units)
<1> DEFINE data == s.data
           off(k) == data[k].off
           len(k) == Len(data[k].units)
<1>1. data \in DataLists /\ s.soff \in Nat /\ Placed(data) = data
  BY DEF Scns
<1>2. /\ n \in Nat /\ \A k \in 1..n : data[k] \in Datum
      /\ \A k \in 2..n : data[k].align # 0
  BY <1>1 DEF DataLists
<1>3. \A k \in 1..n : /\ off(k) \in Nat /\ data[k].align \in Nat
                      /\ data[k].units \in Seq(Unit) /\ len(k) \in Nat
  BY <1>2 DEF Datum
<1> HIDE DEF data
<1>4. \A k \in 1..n : off(k) = IF k = 1 THEN 0 ELSE RoundUp(off(k - 1) + len(k - 1), data[k].align)
  <2>1. \A k \in 1..Len(data) :
          Placed(data)[k].off =
            IF k = 1 THEN 0
            ELSE RoundUp(Placed(data)[k - 1].off + Len(data[k - 1].units), data[k].align)
    BY ONLY <1>1, PlacedType
  <2> QED
    BY <1>1, <2>1 DEF data
<1>5. \A k \in 1..n : off(k) + len(k) <= Extent(data) /\ Extent(data) \in Nat
  BY <1>1, ExtentCovers, ExtentType DEF data
<1> HIDE DEF off, len
<1>6. ASSUME NEW k \in 1..n, k # 1
      PROVE  k - 1 \in 1..n /\ off(k - 1) + len(k - 1) <= off(k)
  <2>1. k - 1 \in 1..n /\ k \in 2..n
    BY <1>2, <1>6
  <2> DEFINE a == data[k].align
             e0 == off(k - 1) + len(k - 1)
  <2>2. a \in Nat \ {0} /\ e0 \in Nat
    BY <1>2, <1>3, <2>1
  <2>3. off(k) = RoundUp(e0, a)
    BY <1>4, <1>6
  <2> HIDE DEF a, e0
  <2>4. off(k) >= e0 /\ off(k) \in Nat
    BY ONLY <2>2, <2>3, RoundUpProperties
  <2> QED
    BY <2>1, <2>2, <2>4 DEF e0
<1>7. off(1) = 0 \/ n = 0
  BY <1>2, <1>4
<1> DEFINE p == s.soff
           at(k) == BufferAt(s, k)
           end(k) == BufferEnd(s, k)
<1>8. \A k \in 1..n : at(k) = p + off(k) /\ end(k) = p + off(k) + len(k)
  BY <1>1, <1>2, <1>3 DEF BufferAt, BufferEnd, data, off, len
<1>9. end(0) = p /\ p \in Nat
  BY <1>1 DEF BufferEnd
<1> HIDE DEF p, at, end
<1>10. ASSUME NEW k \in 1..n
       PROVE  /\ end(k - 1) \in Nat /\ at(k) \in Nat
              /\ p <= end(k - 1) /\ end(k - 1) <= at(k)
              /\ end(k) = at(k) + len(k)
              /\ end(k) <= p + Extent(data)
              /\ k = 1 => at(k) = p
              /\ k # 1 => k - 1 \in 1..n /\ end(k - 1) = at(k - 1) + len(k - 1)
  <2>1. off(k) \in Nat /\ len(k) \in Nat
    BY <1>3
  <2>2. CASE k = 1
    <3>1. k - 1 = 0 /\ off(k) = 0
      BY <1>2, <1>7, <2>2
    <3> QED
      BY <1>5, <1>8, <1>9, <2>1, <2>2, <3>1
  <2>3. CASE k # 1
    <3>1. /\ k - 1 \in 1..n /\ off(k - 1) + len(k - 1) <= off(k)
          /\ off(k - 1) \in Nat /\ len(k - 1) \in Nat
      BY <1>3, <1>6, <2>3
    <3>2. end(k - 1) = p + off(k - 1) + len(k - 1) /\ at(k - 1) = p + off(k - 1)
      BY <1>8, <3>1
    <3>3. at(k) = p + off(k) /\ end(k) = p + off(k) + len(k)
      BY <1>8
    <3>4. off(k) + len(k) <= Extent(data) /\ Extent(data) \in Nat
      BY <1>5
    <3> QED
      BY ONLY <1>9, <2>1, <2>3, <3>1, <3>2, <3>3, <3>4
  <2> QED
    BY <2>2, <2>3
<1> QED
  BY <1>1, <1>2, <1>3, <1>9, <1>10 DEF data, len, p, at, end

\* The contents of the buffers, joined
Joined(data, g) ==
  /\ g[0] = <<>> /\ \A k \in 0..Len(data) : g[k] \in Seq(Unit)
  /\ \A k \in 1..Len(data) : g[k] = g[k - 1] \o data[k].units

\* Writing a section leaves what is in front of it alone, and gives its contents.
LEMMA DataWritten ==
  ASSUME NEW img \in Seq(Unit), NEW s \in Scns, Placed(s.data) = s.data,
         NEW n, n = Len(s.data), NEW soff, soff = s.soff,
         soff + Extent(s.data) <= Len(img),
         \A k \in 1..n : s.data[k].units # <<>> /\ Clean(s.data[k].units),
         NEW f, DataLoop(f, img, s), NEW g, Joined(s.data, g)
  PROVE  /\ f[n] \in Seq(Unit) /\ Len(f[n]) = Len(img)
         /\ \A k \in 1..Len(img) : k <= soff => f[n][k] = img[k]
         /\ Alike(Bytes(f[n], soff, BufferEnd(s, n) - soff), g[n])
         /\ Clean(Bytes(f[n], soff, BufferEnd(s, n) - soff))
<1> DEFINE u(k) == s.data[k].units
           at(k) == BufferAt(s, k)
           end(k) == BufferEnd(s, k)
           b(k) == Bytes(f[k], soff, end(k) - soff)
           P(k) == /\ f[k] \in Seq(Unit) /\ Len(f[k]) = Len(img)
                   /\ \A j \in 1..Len(img) : j <= soff => f[k][j] = img[j]
                   /\ b(k) \in Seq(Unit) /\ Alike(b(k), g[k]) /\ Clean(b(k))
<1>1. /\ n \in Nat /\ soff \in Nat /\ end(0) = soff /\ Extent(s.data) \in Nat
      /\ \A k \in 1..n :
           /\ u(k) \in Seq(Unit) /\ end(k - 1) \in Nat /\ at(k) \in Nat
           /\ soff <= end(k - 1) /\ end(k - 1) <= at(k) /\ end(k) = at(k) + Len(u(k))
           /\ end(k) <= soff + Extent(s.data)
           /\ k = 1 => at(k) = soff
           /\ k # 1 => k - 1 \in 1..n /\ end(k - 1) = at(k - 1) + Len(u(k - 1))
  <2>1. Extent(s.data) \in Nat
    BY ExtentType DEF Scns
  <2> QED
    BY <2>1, BuffersInOrder
<1>2. /\ f[0] = img /\ \A k \in 0..n : f[k] \in Seq(Unit)
      /\ \A k \in 1..n : f[k] = Put(Pad(f[k - 1], end(k - 1), at(k)), at(k), u(k))
  BY DEF DataLoop
<1>3. /\ g[0] = <<>> /\ \A k \in 0..n : g[k] \in Seq(Unit)
      /\ \A k \in 1..n : g[k] = g[k - 1] \o u(k)
  BY DEF Joined
<1>4. \A k \in 1..n : u(k) # <<>> /\ Clean(u(k))
  OBVIOUS
<1>14. soff + Extent(s.data) <= Len(img) /\ Len(img) \in Nat
  OBVIOUS
<1> HIDE DEF u, at, end
<1>5. P(0)
  <2>1. end(0) - soff = 0 /\ soff + 0 <= Len(img)
    BY <1>1
  <2>2. b(0) = Bytes(img, soff, 0)
    BY <1>2, <2>1
  <2>3. Bytes(img, soff, 0) \in Seq(Unit) /\ 0 = Len(Bytes(img, soff, 0))
    BY <1>1, <2>1, BytesForm
  <2>4. b(0) = <<>>
    BY <2>2, <2>3
  <2> HIDE DEF b
  <2>5. Clean(b(0)) /\ b(0) \in Seq(Unit)
    BY <2>4, EmptyOne, Joins
  <2> QED
    BY <1>2, <1>3, <2>4, <2>5, AlikeProperties
<1>6. ASSUME NEW k \in 1..n, P(k - 1) PROVE P(k)
  <2> DEFINE v == f[k - 1]
             to == f[k]
             e0 == end(k - 1)
             a0 == at(k)
             w == u(k)
             x == b(k - 1)
             y == g[k - 1]
             m == a0 - e0
  <2>1. /\ v \in Seq(Unit) /\ Len(v) = Len(img) /\ e0 \in Nat /\ a0 \in Nat /\ w \in Seq(Unit)
        /\ soff <= e0 /\ e0 <= a0 /\ a0 + Len(w) <= Len(v) /\ soff \in Nat
        /\ to = Put(Pad(v, e0, a0), a0, w) /\ end(k) = a0 + Len(w)
    BY <1>1, <1>2, <1>6, <1>14
  <2>2. y \in Seq(Unit) /\ g[k] = y \o w
    BY <1>1, <1>3
  <2>3. x \in Seq(Unit) /\ Alike(x, y) /\ Clean(x) /\ x = Bytes(v, soff, e0 - soff)
    BY <1>6
  <2>4. \A j \in 1..Len(img) : j <= soff => v[j] = img[j]
    BY <1>6
  <2>5. m = 0 \/ x # <<>>
    <3>1. CASE k = 1
      BY <1>1, <3>1
    <3>2. CASE k # 1
      <4>1. PICK j \in 1..n : j = k - 1
        BY <1>1, <3>2
      <4>2. e0 = at(j) + Len(u(j)) /\ e0 \in Nat
        BY <1>1, <3>2, <4>1
      <4>3. soff <= end(j - 1) /\ end(j - 1) <= at(j) /\ at(j) \in Nat /\ end(j - 1) \in Nat
        BY <1>1
      <4>5. Len(u(j)) > 0 /\ Len(u(j)) \in Nat
        BY <1>1, <1>4, EmptyOne
      <4>6. Len(w) \in Nat /\ e0 <= Len(v)
        BY <2>1
      <4> HIDE DEF e0, v
      <4>8. soff \in Nat /\ Len(v) \in Nat /\ end(j - 1) \in Nat /\ at(j) \in Nat
        BY <1>1, <2>1, <4>3
      <4>7. e0 - soff > 0 /\ e0 - soff \in Nat /\ soff + (e0 - soff) <= Len(v)
        BY ONLY <4>2, <4>3, <4>5, <4>6, <4>8
      <4>4. x \in Seq(Unit) /\ e0 - soff = Len(x)
        <5> DEFINE r == e0 - soff
        <5>1. r \in Nat /\ soff + r <= Len(v) /\ v \in Seq(Unit) /\ soff \in Nat
              /\ x = Bytes(v, soff, r)
          BY ONLY <2>1, <2>3, <4>7
        <5> HIDE DEF r
        <5>2. Bytes(v, soff, r) \in Seq(Unit) /\ r = Len(Bytes(v, soff, r))
          BY ONLY <5>1, BytesForm
        <5>3. x \in Seq(Unit) /\ r = Len(x)
          BY ONLY <5>1, <5>2
        <5> QED
          BY <5>3 DEF r
      <4> HIDE DEF x
      <4> QED
        BY ONLY <4>7, <4>4, EmptyOne
    <3> QED
      BY <3>1, <3>2
  <2>6. Clean(w)
    BY <1>4
  <2>7. m \in Nat
    BY <2>1
  <2>14. b(k) = Bytes(to, soff, a0 + Len(w) - soff)
    BY <2>1
  <2> HIDE DEF v, to, e0, a0, w, x, y, m, b
  <2>8. /\ to \in Seq(Unit) /\ Len(to) = Len(v)
        /\ \A j \in 1..Len(v) : j <= e0 => to[j] = v[j]
        /\ Bytes(to, soff, a0 + Len(w) - soff) = (x \o Filling(m)) \o w
    <3>0. Behind(v, soff, e0, a0, w, to)
      BY <2>1 DEF Behind
    <3>1. Bytes(to, soff, a0 + Len(w) - soff)
            = (Bytes(v, soff, e0 - soff) \o Filling(a0 - e0)) \o w
      BY ONLY <3>0, PutAfter
    <3>2. /\ to \in Seq(Unit) /\ Len(to) = Len(v)
          /\ \A j \in 1..Len(v) : j <= e0 => to[j] = v[j]
      BY ONLY <3>0, PutAfter
    <3> QED
      BY ONLY <2>3, <3>1, <3>2 DEF m
  <2>9. Filling(m) \in Seq(Unit) /\ Clean(Filling(m))
    BY <2>7, FillingType
  <2>10. x \o Filling(m) \in Seq(Unit) /\ Clean(x \o Filling(m))
    BY <2>3, <2>9, CleanParts
  <2>11. Alike(x \o Filling(m), y)
    BY <2>2, <2>3, <2>5, <2>7, AlikeFilled
  <2>12. /\ (x \o Filling(m)) \o w \in Seq(Unit) /\ Clean((x \o Filling(m)) \o w)
         /\ Alike((x \o Filling(m)) \o w, y \o w)
    <3> DEFINE z == x \o Filling(m)
    <3>1. z \in Seq(Unit) /\ Clean(z) /\ Alike(z, y)
      BY <2>10, <2>11
    <3> HIDE DEF z
    <3>2. z \o w \in Seq(Unit) /\ Clean(z \o w) /\ Alike(z \o w, y \o w)
      BY <2>1, <2>2, <2>6, <3>1, CleanParts, AlikeJoin, Joins
    <3> QED
      BY <3>2 DEF z
  <2>13. b(k) \in Seq(Unit) /\ Clean(b(k)) /\ Alike(b(k), g[k])
    BY ONLY <2>2, <2>8, <2>12, <2>14
  <2>15. \A j \in 1..Len(img) : j <= soff => to[j] = img[j]
    <3> SUFFICES ASSUME NEW j \in 1..Len(img), j <= soff PROVE to[j] = img[j]
      OBVIOUS
    <3>1. j \in 1..Len(v) /\ j <= e0
      BY <2>1
    <3> QED
      BY <2>4, <2>8, <3>1
  <2> QED
    BY <2>1, <2>8, <2>13, <2>15 DEF to
<1>7. P(n)
  <2> DEFINE S == {k \in 0..n : P(k)}
  <2> HIDE DEF P
  <2>1. 0 \in S /\ \A k \in 1..n : k - 1 \in S => k \in S
    BY <1>1, <1>5, <1>6
  <2>2. 0..n \subseteq S
    <3> HIDE DEF S
    <3>1. n \in Nat
      BY <1>1
    <3> QED
      BY ONLY <2>1, <3>1, Steps
  <2> QED
    BY <1>1, <2>2
<1> QED
  BY <1>7 DEF end

-----------------------------------------------------------------------------
(* Writing an image from its beginning to its end *)

\* "to" is img up to "from", and from there to "upto" all of it has been written.
Prolongs(img, to, from, upto) ==
  /\ img \in Seq(Unit) /\ to \in Seq(Unit) /\ Len(to) = Len(img)
  /\ from \in Nat /\ upto \in Nat /\ from <= upto
  /\ \A k \in 1..Len(img) : k <= from => to[k] = img[k]
  /\ \A k \in 1..Len(img) : from < k /\ k <= upto => to[k] # Junk

LEMMA ProlongsTwice ==
  ASSUME NEW a, NEW b, NEW c, NEW i, NEW j, NEW k, Prolongs(a, b, i, j), Prolongs(b, c, j, k)
  PROVE  Prolongs(a, c, i, k)
<1>1. /\ a \in Seq(Unit) /\ c \in Seq(Unit) /\ Len(b) = Len(a) /\ Len(c) = Len(b)
      /\ i \in Nat /\ j \in Nat /\ k \in Nat /\ i <= j /\ j <= k
      /\ \A m \in 1..Len(a) : m <= i => b[m] = a[m]
      /\ \A m \in 1..Len(a) : i < m /\ m <= j => b[m] # Junk
      /\ \A m \in 1..Len(b) : m <= j => c[m] = b[m]
      /\ \A m \in 1..Len(b) : j < m /\ m <= k => c[m] # Junk
  BY DEF Prolongs
<1>2. ASSUME NEW m \in 1..Len(a)
      PROVE  (m <= i => c[m] = a[m]) /\ (i < m /\ m <= k => c[m] # Junk)
  <2>1. m \in Int
    OBVIOUS
  <2>2. CASE m <= i
    BY <1>1, <2>1, <2>2
  <2>3. CASE i < m /\ m <= j
    BY <1>1, <2>1, <2>3
  <2>4. CASE j < m
    BY <1>1, <2>1, <2>4
  <2> QED
    BY <1>1, <2>1, <2>2, <2>3, <2>4
<1> QED
  BY <1>1, <1>2 DEF Prolongs

\* What has been written stays.
Region(img, off, n) == img \in Seq(Unit) /\ off \in Nat /\ n \in Nat /\ off + n <= Len(img)

LEMMA ProlongsKeeps ==
  ASSUME NEW img, NEW to, NEW from, NEW upto, Prolongs(img, to, from, upto),
         NEW off, NEW n, Region(img, off, n), off + n <= from
  PROVE  Region(to, off, n) /\ Bytes(to, off, n) = Bytes(img, off, n)
<1>1. /\ img \in Seq(Unit) /\ to \in Seq(Unit) /\ Len(to) = Len(img)
      /\ off \in Nat /\ n \in Nat /\ off + n <= Len(img) /\ from \in Nat
  BY DEF Prolongs, Region
<1>2. \A k \in 1..Len(img) : off < k /\ k <= off + n => to[k] = img[k]
  <2>1. \A k \in 1..Len(img) : k <= from => to[k] = img[k]
    BY DEF Prolongs
  <2>2. \A k \in 1..Len(img) : k <= off + n => k <= from
    BY <1>1
  <2> QED
    BY <2>1, <2>2
<1>3. Bytes(to, off, n) = Bytes(img, off, n)
  BY ONLY <1>1, <1>2, BytesSame
<1> QED
  BY <1>1, <1>3 DEF Region

LEMMA RegionGives ==
  ASSUME NEW img, NEW off, NEW n, Region(img, off, n), NEW b, b = Bytes(img, off, n)
  PROVE  /\ b \in Seq(Unit) /\ n = Len(b)
         /\ \A k \in 1..n : b[k] = img[off + k] /\ off + k \in 1..Len(img)
BY BytesGive DEF Region

LEMMA PadProlongs ==
  ASSUME NEW img \in Seq(Unit), NEW from \in Nat, NEW upto \in Nat, from <= upto
  PROVE  Prolongs(img, Pad(img, from, upto), from, upto)
<1> DEFINE to == Pad(img, from, upto)
<1>1. /\ to \in Seq(Unit) /\ Len(to) = Len(img)
      /\ \A k \in 1..Len(img) :
           /\ k <= from \/ k > upto => to[k] = img[k]
           /\ from < k /\ k <= upto => to[k] = Fill
  BY PadGives
<1>2. Fill # Junk
  BY DEF Fill, Junk
<1> HIDE DEF to
<1>3. Prolongs(img, to, from, upto)
  BY <1>1, <1>2 DEF Prolongs
<1> QED
  BY <1>3 DEF to

Fitting(img, off, u) ==
  /\ img \in Seq(Unit) /\ off \in Nat /\ u \in Seq(Unit) /\ off + Len(u) <= Len(img)

LEMMA PutProlongs ==
  ASSUME NEW img, NEW off, NEW u, Fitting(img, off, u), Clean(u)
  PROVE  /\ Prolongs(img, Put(img, off, u), off, off + Len(u))
         /\ Region(Put(img, off, u), off, Len(u))
         /\ Bytes(Put(img, off, u), off, Len(u)) = u
<1> DEFINE to == Put(img, off, u)
           n == Len(u)
<1>0. img \in Seq(Unit) /\ off \in Nat /\ u \in Seq(Unit) /\ off + n <= Len(img) /\ n \in Nat
  BY DEF Fitting
<1>1. /\ to \in Seq(Unit) /\ Len(to) = Len(img)
      /\ \A k \in 1..Len(img) :
           /\ k <= off \/ k > off + n => to[k] = img[k]
           /\ off < k /\ k <= off + n => to[k] = u[k - off]
      /\ Bytes(to, off, n) = u
  <2>1. to = Put(img, off, u)
    OBVIOUS
  <2> HIDE DEF to
  <2>2. /\ to \in Seq(Unit) /\ Len(to) = Len(img)
        /\ \A k \in 1..Len(img) :
             /\ k <= off \/ k > off + Len(u) => to[k] = img[k]
             /\ off < k /\ k <= off + Len(u) => to[k] = u[k - off]
        /\ off + Len(u) <= Len(img) => Bytes(to, off, Len(u)) = u
    BY ONLY <1>0, <2>1, PutGives
  <2> QED
    BY <1>0, <2>2
<1>2. \A k \in 1..n : u[k] # Junk
  BY DEF Clean
<1> HIDE DEF to, n
<1>3. \A k \in 1..Len(img) : off < k /\ k <= off + n => to[k] # Junk
  <2> SUFFICES ASSUME NEW k \in 1..Len(img), off < k, k <= off + n PROVE to[k] # Junk
    OBVIOUS
  <2>1. k - off \in 1..n
    BY <1>0
  <2> QED
    BY <1>1, <1>2, <2>1
<1>4. Prolongs(img, to, off, off + n) /\ Region(to, off, n)
  BY <1>0, <1>1, <1>3 DEF Prolongs, Region
<1> QED
  BY <1>1, <1>4 DEF to, n

LEMMA HeaderClean ==
  ASSUME NEW kind, NEW fields, <<kind, fields>> \in Unit, kind # "junk", NEW size \in Nat
  PROVE  /\ Header(kind, fields, size) \in Seq(Unit) /\ size = Len(Header(kind, fields, size))
         /\ Clean(Header(kind, fields, size))
         /\ size > 0 => Header(kind, fields, size)[1] = <<kind, fields>>
<1>1. Cont # Junk /\ <<kind, fields>> # Junk
  BY DEF Cont, Junk
<1>2. Header(kind, fields, size) \in Seq(Unit)
  BY HeaderType
<1> QED
  BY <1>1, <1>2 DEF Header, Clean

-----------------------------------------------------------------------------
(* The table of the section headers, as it is written *)

LEMMA Multiples ==
  ASSUME NEW s \in Nat
  PROVE  /\ \A i \in Nat : i * s \in Nat /\ (i + 1) * s = i * s + s
         /\ \A i, j \in Nat : i <= j => i * s <= j * s
<1>1. \A i \in Nat : i * s \in Nat /\ (i + 1) * s = i * s + s
  OBVIOUS
<1>2. ASSUME NEW i \in Nat, NEW j \in Nat, i <= j PROVE i * s <= j * s
  <2>1. PICK m \in Nat : j = i + m
    <3>1. j - i \in Nat /\ j = i + (j - i)
      BY <1>2
    <3> QED
      BY <3>1
  <2>2. j * s = i * s + m * s /\ m * s \in Nat /\ i * s \in Nat
    BY <2>1
  <2> QED
    BY <2>2
<1> QED
  BY <1>1, <1>2

ShdrAtIndex(x, i) == x.start + i * ShdrSize

\* Header i of the table x is in f.
HeaderThere(d, x, f, i) ==
  /\ Region(f, ShdrAtIndex(x, i), ShdrSize)
  /\ Bytes(f, ShdrAtIndex(x, i), ShdrSize) = Header("shdr", Shdr(d.scns[i]), ShdrSize)

LEMMA Positions ==
  ASSUME NEW x \in Extents, NEW n \in Nat, x.size = n * ShdrSize
  PROVE  /\ ShdrAtIndex(x, 0) = x.start /\ ShdrAtIndex(x, n) = Ends(x)
         /\ \A i \in Nat : /\ ShdrAtIndex(x, i) \in Nat
                           /\ ShdrAtIndex(x, i + 1) = ShdrAtIndex(x, i) + ShdrSize
         /\ \A i, j \in Nat : i <= j => ShdrAtIndex(x, i) <= ShdrAtIndex(x, j)
<1>1. ShdrSize \in Nat /\ x.start \in Nat
  BY Sizes DEF Extents
<1>2. /\ \A i \in Nat : i * ShdrSize \in Nat /\ (i + 1) * ShdrSize = i * ShdrSize + ShdrSize
      /\ \A i, j \in Nat : i <= j => i * ShdrSize <= j * ShdrSize
  BY <1>1, Multiples
<1>3. 0 * ShdrSize = 0
  BY <1>1
<1>4. ASSUME NEW i \in Nat
      PROVE  /\ ShdrAtIndex(x, i) \in Nat
             /\ ShdrAtIndex(x, i + 1) = ShdrAtIndex(x, i) + ShdrSize
  <2>1. i * ShdrSize \in Nat /\ (i + 1) * ShdrSize = i * ShdrSize + ShdrSize
    BY <1>2
  <2> QED
    BY <1>1, <2>1 DEF ShdrAtIndex
<1>5. ASSUME NEW i \in Nat, NEW j \in Nat, i <= j PROVE ShdrAtIndex(x, i) <= ShdrAtIndex(x, j)
  <2>1. i * ShdrSize <= j * ShdrSize /\ i * ShdrSize \in Nat /\ j * ShdrSize \in Nat
    BY <1>2, <1>5
  <2> QED
    BY <1>1, <2>1 DEF ShdrAtIndex
<1>6. ShdrAtIndex(x, 0) = x.start /\ ShdrAtIndex(x, n) = Ends(x)
  BY <1>1, <1>3 DEF ShdrAtIndex, Ends
<1> QED
  BY <1>4, <1>5, <1>6

LEMMA HeaderKeeps ==
  ASSUME NEW d, NEW x, NEW f, NEW g, NEW i, NEW from, NEW upto, HeaderThere(d, x, f, i),
         Prolongs(f, g, from, upto), ShdrAtIndex(x, i) + ShdrSize <= from
  PROVE  HeaderThere(d, x, g, i)
<1> DEFINE off == ShdrAtIndex(x, i)
<1>1. Region(f, off, ShdrSize) /\ off + ShdrSize <= from
  BY DEF HeaderThere
<1> HIDE DEF off
<1>2. Region(g, off, ShdrSize) /\ Bytes(g, off, ShdrSize) = Bytes(f, off, ShdrSize)
  BY <1>1, ProlongsKeeps
<1> QED
  BY <1>2 DEF off, HeaderThere

\* The table has a header for each section.
TableFilled(d, n) ==
  /\ n = d.nscn /\ n \in Nat /\ n <= MaxScns + 1 /\ DOMAIN d.scns = 0..n - 1

LEMMA ShdrsWritten ==
  ASSUME NEW d \in Opens, NEW img \in Seq(Unit), NEW x \in Extents, NEW n, TableFilled(d, n),
         x.size = n * ShdrSize, Ends(x) <= Len(img), NEW to, to = WriteShdrs(d, img, x)
  PROVE  Prolongs(img, to, x.start, Ends(x)) /\ \A i \in 0..n - 1 : HeaderThere(d, x, to, i)
<1> DEFINE pos(i) == ShdrAtIndex(x, i)
           head(i) == Header("shdr", Shdr(d.scns[i]), ShdrSize)
<1>1. /\ n \in Nat /\ n <= MaxScns + 1 /\ DOMAIN d.scns = 0..n - 1 /\ MaxScns \in Nat
      /\ ShdrSize \in Nat
  BY Sizes DEF TableFilled
<1>2. /\ pos(0) = x.start /\ pos(n) = Ends(x)
      /\ \A i \in Nat : pos(i) \in Nat /\ pos(i + 1) = pos(i) + ShdrSize
      /\ \A i, j \in Nat : i <= j => pos(i) <= pos(j)
  BY <1>1, Positions
<1>3. PICK f : ShdrsLoop(f, d, img, x) /\ to = f[MaxScns + 1]
  BY WriteShdrsForm
<1>4. ASSUME NEW i \in 0..n - 1
      PROVE  head(i) \in Seq(Unit) /\ ShdrSize = Len(head(i)) /\ Clean(head(i))
  <2>1. d.scns[i] \in Scns
    BY <1>1, ScnOf
  <2>2. Shdr(d.scns[i]) \in Shdrs
    BY <2>1 DEF Shdr, Shdrs, Scns, Kinds
  <2>3. <<"shdr", Shdr(d.scns[i])>> \in Unit
    BY <2>2 DEF Unit
  <2> QED
    BY <1>1, <2>3, HeaderClean
<1>5. /\ f[0] = img /\ \A i \in 0..MaxScns + 1 : f[i] \in Seq(Unit)
      /\ \A i \in 1..MaxScns + 1 :
           f[i] = IF i - 1 \notin 0..n - 1 THEN f[i - 1] ELSE Put(f[i - 1], pos(i - 1), head(i - 1))
  BY <1>1, <1>3 DEF ShdrsLoop, ShdrAtIndex
<1>6. pos(n) <= Len(img) /\ Len(img) \in Nat
  BY <1>2
<1> DEFINE P(i) == /\ Prolongs(img, f[i], pos(0), pos(i))
                   /\ \A j \in 0..i - 1 : HeaderThere(d, x, f[i], j)
<1> HIDE DEF head, pos
<1>7. P(0)
  <2>1. f[0] = img /\ pos(0) \in Nat /\ 0..0 - 1 = {}
    BY <1>2, <1>5
  <2>2. \A k \in 1..Len(img) : ~(pos(0) < k /\ k <= pos(0))
    BY <2>1
  <2>3. Prolongs(img, img, pos(0), pos(0))
    BY <2>1, <2>2 DEF Prolongs
  <2> QED
    BY <2>1, <2>3
<1>8. ASSUME NEW i \in 1..n, P(i - 1) PROVE P(i)
  <2>1. PICK j \in 0..n - 1 : j = i - 1
    BY <1>1
  <2> DEFINE v == f[j]
             h == head(j)
             off == pos(j)
             g == f[i]
  <2>2. h \in Seq(Unit) /\ ShdrSize = Len(h) /\ Clean(h)
    BY <1>4
  <2>3. g = Put(v, off, h)
    BY <1>1, <1>5, <2>1
  <2>4. /\ j \in Nat /\ i = j + 1 /\ off \in Nat /\ pos(i) = off + ShdrSize /\ pos(i) <= pos(n)
        /\ \A m \in 0..j - 1 : m \in Nat /\ pos(m) + ShdrSize <= off
        /\ \A m \in 0..i - 1 : m = j \/ m \in 0..j - 1
    <3>1. j \in Nat /\ i = j + 1 /\ i <= n /\ i \in Nat
      BY <1>1, <2>1
    <3>2. ASSUME NEW m \in 0..j - 1 PROVE m \in Nat /\ pos(m) + ShdrSize <= off
      <4>1. m \in Nat /\ m + 1 \in Nat /\ m + 1 <= j
        BY <3>1
      <4>2. pos(m + 1) = pos(m) + ShdrSize /\ pos(m + 1) <= pos(j)
        BY <1>2, <3>1, <4>1
      <4> QED
        BY <4>1, <4>2
    <3>3. off \in Nat /\ pos(j + 1) = off + ShdrSize /\ pos(i) <= pos(n)
      BY <1>1, <1>2, <3>1
    <3> QED
      BY <3>1, <3>2, <3>3
  <2>5. Prolongs(img, v, pos(0), off) /\ \A m \in 0..j - 1 : HeaderThere(d, x, v, m)
    BY <1>8, <2>1
  <2>6. v \in Seq(Unit) /\ Len(v) = Len(img)
    BY <2>5 DEF Prolongs
  <2>11. off = ShdrAtIndex(x, j) /\ h = Header("shdr", Shdr(d.scns[j]), ShdrSize)
         /\ \A m : pos(m) = ShdrAtIndex(x, m)
    BY DEF pos, head
  <2> HIDE DEF v, h, off, g
  <2>7. Fitting(v, off, h)
    <3>0. n \in Nat /\ i \in Nat
      BY <1>1
    <3>1. pos(n) \in Nat /\ pos(i) \in Nat
      BY ONLY <1>2, <3>0
    <3>3. off + ShdrSize <= Len(img) /\ off \in Nat
      <4>1. off \in Nat /\ pos(i) = off + ShdrSize /\ pos(i) <= pos(n)
        BY <2>4
      <4> QED
        BY ONLY <1>6, <3>1, <4>1
    <3>2. off + Len(h) <= Len(v) /\ off \in Nat
      BY ONLY <2>2, <2>6, <3>3
    <3> QED
      BY <2>2, <2>6, <3>2 DEF Fitting
  <2>8. Prolongs(v, g, off, pos(i)) /\ Region(g, off, ShdrSize) /\ Bytes(g, off, ShdrSize) = h
    BY <2>2, <2>3, <2>4, <2>7, PutProlongs
  <2>9. Prolongs(img, g, pos(0), pos(i))
    BY <2>5, <2>8, ProlongsTwice
  <2>10. ASSUME NEW m \in 0..i - 1 PROVE HeaderThere(d, x, g, m)
    <3>1. CASE m = j
      BY <2>8, <2>11, <3>1 DEF HeaderThere
    <3>2. CASE m \in 0..j - 1
      <4>1. HeaderThere(d, x, v, m) /\ ShdrAtIndex(x, m) + ShdrSize <= off
        BY <2>4, <2>5, <2>11, <3>2
      <4> QED
        BY <2>8, <4>1, HeaderKeeps
    <3> QED
      BY <2>4, <3>1, <3>2
  <2> QED
    BY <2>9, <2>10 DEF g
<1>9. P(n)
  <2> DEFINE S == {i \in 0..n : P(i)}
  <2> HIDE DEF P
  <2>1. 0 \in S /\ \A i \in 1..n : i - 1 \in S => i \in S
    BY <1>1, <1>7, <1>8
  <2>2. 0..n \subseteq S
    <3> HIDE DEF S
    <3> QED
      BY ONLY <1>1, <2>1, Steps
  <2> QED
    BY <1>1, <2>2
<1>10. f[MaxScns + 1] = f[n]
  <2> DEFINE S == {i \in 0..MaxScns + 1 : i >= n => f[i] = f[n]}
             m == MaxScns + 1
  <2>1. 0 \in S
    BY <1>1
  <2>2. ASSUME NEW i \in 1..m, i - 1 \in S PROVE i \in S
    <3>1. CASE i <= n
      BY <1>1, <3>1
    <3>2. CASE i > n
      <4>1. i - 1 \notin 0..n - 1 /\ i - 1 >= n
        BY <1>1, <3>2
      <4>2. f[i] = f[i - 1]
        BY <1>5, <4>1
      <4> QED
        BY <2>2, <4>1, <4>2
    <3> QED
      BY <1>1, <3>1, <3>2
  <2>3. 0..m \subseteq S
    <3>1. m \in Nat
      BY <1>1
    <3> HIDE DEF S, m
    <3> QED
      BY ONLY <2>1, <2>2, <3>1, Steps
  <2>4. m \in 0..m /\ m >= n
    BY <1>1
  <2>5. m \in S
    BY <2>3, <2>4
  <2> QED
    BY <2>4, <2>5
<1> QED
  BY <1>2, <1>3, <1>9, <1>10 DEF pos

-----------------------------------------------------------------------------
(* One extent, as it is written *)

\* What section s of d has to be written, if it is b.
ContentsThere(d, s, b) ==
  IF s.data = <<>> THEN Region(d.raw, s.rawoff, s.size) /\ b = Bytes(d.raw, s.rawoff, s.size)
  ELSE \E g : Joined(s.data, g) /\ Alike(b, g[Len(s.data)])

\* The file f holds what is at the extent x.
RightAt(d, x, f) ==
  /\ Region(f, x.start, x.size)
  /\ x.kind = "ehdr" => /\ x.start = 0 /\ x.size = EhdrSize
                        /\ Bytes(f, x.start, x.size) = Header("ehdr", d.ehdr, EhdrSize)
  /\ x.kind = "phdr" => Bytes(f, x.start, x.size) = d.phdr
  /\ x.kind = "shdr" => \A i \in 0..d.nscn - 1 : HeaderThere(d, x, f, i)
  /\ x.kind = "scn" => ContentsThere(d, d.scns[x.ndx], Bytes(f, x.start, x.size))

\* The extent x is that of something which can be written.
HasPhdrs(d, x) == d.phdr \in Seq(Unit) /\ Clean(d.phdr) /\ x.size = Len(d.phdr)
HasScn(d, s, x) ==
  /\ s \in Scns /\ s.soff = x.start /\ s.size = x.size
  /\ s.data = <<>> => (d.raw \in Seq(Unit) => Clean(d.raw))
  /\ s.data # <<>> => /\ Placed(s.data) = s.data /\ Extent(s.data) <= s.size
                      /\ \A k \in 1..Len(s.data) : Clean(s.data[k].units)
Stands(d, x) ==
  /\ x.kind = "ehdr" => x.start = 0 /\ x.size = EhdrSize
  /\ x.kind = "phdr" => HasPhdrs(d, x)
  /\ x.kind = "shdr" => TableFilled(d, d.nscn) /\ x.size = d.nscn * ShdrSize
  /\ x.kind = "scn" => x.ndx \in DOMAIN d.scns /\ HasScn(d, d.scns[x.ndx], x)

LEMMA RightKeeps ==
  ASSUME NEW d \in Opens, NEW x \in Extents, NEW f, NEW g, NEW from, NEW upto, RightAt(d, x, f),
         x.kind = "shdr" => x.size = d.nscn * ShdrSize,
         Prolongs(f, g, from, upto), Ends(x) <= from
  PROVE  RightAt(d, x, g)
<1>1. Region(f, x.start, x.size) /\ x.start + x.size <= from
  BY DEF RightAt, Ends
<1>2. Region(g, x.start, x.size) /\ Bytes(g, x.start, x.size) = Bytes(f, x.start, x.size)
  BY <1>1, ProlongsKeeps
<1>3. ASSUME x.kind = "shdr", NEW i \in 0..d.nscn - 1 PROVE HeaderThere(d, x, g, i)
  <2>1. HeaderThere(d, x, f, i)
    BY <1>3 DEF RightAt
  <2>2. d.nscn \in Nat /\ i \in Nat /\ i + 1 \in Nat /\ i + 1 <= d.nscn
    BY <1>3 DEF Opens, Descs
  <2> DEFINE n == d.nscn
  <2>3. n \in Nat /\ x.size = n * ShdrSize
    BY <1>3, <2>2
  <2> HIDE DEF n
  <2>4. /\ ShdrAtIndex(x, n) = Ends(x)
        /\ \A j \in Nat : /\ ShdrAtIndex(x, j) \in Nat
                          /\ ShdrAtIndex(x, j + 1) = ShdrAtIndex(x, j) + ShdrSize
        /\ \A j, k \in Nat : j <= k => ShdrAtIndex(x, j) <= ShdrAtIndex(x, k)
    BY <2>3, Positions
  <2>5. ShdrAtIndex(x, i + 1) <= ShdrAtIndex(x, n)
    BY <2>2, <2>3, <2>4 DEF n
  <2>6. ShdrAtIndex(x, i) + ShdrSize <= from
    <3>1. from \in Nat /\ ShdrAtIndex(x, i) \in Nat /\ ShdrSize \in Nat
      BY <2>2, <2>4, Sizes DEF Prolongs
    <3>2. ShdrAtIndex(x, i + 1) = ShdrAtIndex(x, i) + ShdrSize
      BY <2>2, <2>4
    <3>3. ShdrAtIndex(x, n) = Ends(x) /\ Ends(x) \in Nat /\ Ends(x) <= from
      BY <2>3, <2>4
    <3> QED
      BY ONLY <2>5, <3>1, <3>2, <3>3
  <2> QED
    BY <2>1, <2>6, HeaderKeeps
<1>4. /\ x.kind = "ehdr" => /\ x.start = 0 /\ x.size = EhdrSize
                        /\ Bytes(f, x.start, x.size) = Header("ehdr", d.ehdr, EhdrSize)
      /\ x.kind = "phdr" => Bytes(f, x.start, x.size) = d.phdr
      /\ x.kind = "scn" => ContentsThere(d, d.scns[x.ndx], Bytes(f, x.start, x.size))
  BY DEF RightAt
<1> QED
  BY <1>2, <1>3, <1>4 DEF RightAt

\* The contents of the buffers can be joined.
LEMMA JoinedExists ==
  ASSUME NEW data \in DataLists
  PROVE  \E g : Joined(data, g)
<1> DEFINE n == Len(data)
           V == Seq(Unit)
           F == [p \in V \X (1..n) |-> p[1] \o data[p[2]].units]
<1>1. n \in Nat /\ \A k \in 1..n : data[k].units \in Seq(Unit)
  <2>1. n \in Nat /\ \A k \in 1..n : data[k] \in Datum
    BY DEF DataLists
  <2> QED
    BY <2>1 DEF Datum
<1>2. ASSUME NEW v \in V, NEW k \in 1..n PROVE v \o data[k].units \in V
  BY <1>1, Joins
<1>3. IsStep(F, n, V)
  BY <1>2 DEF IsStep
<1>4. <<>> \in V
  BY Joins
<1>5. PICK g : IsRun(g, n, V, <<>>, F)
  <2> HIDE DEF F, V, n
  <2> QED
    BY ONLY <1>1, <1>3, <1>4, Recursion
<1>6. ASSUME NEW k \in 1..n PROVE g[k] = g[k - 1] \o data[k].units
  <2>1. k - 1 \in 0..n
    BY <1>1
  <2> HIDE DEF V
  <2>2. <<g[k - 1], k>> \in V \X (1..n)
    BY <1>5, <2>1 DEF IsRun
  <2> QED
    BY <1>5, <2>2 DEF IsRun
<1> QED
  BY <1>5, <1>6 DEF IsRun, Joined

\* A section whose contents are in the file that was opened
LEMMA RawWritten ==
  ASSUME NEW c, NEW w \in Readies(c), NEW img \in Seq(Unit), NEW x \in Extents,
         NEW d, d = w.e, NEW s, HasScn(d, s, x), s.data = <<>>, Ends(x) <= Len(img),
         NEW r, r = WriteRaw(w, img, s), r.how = "ok"
  PROVE  /\ Prolongs(img, r.img, x.start, Ends(x))
         /\ ContentsThere(d, s, Bytes(r.img, x.start, x.size))
<1> DEFINE off == s.rawoff
           n == s.size
           u == Bytes(d.raw, off, n)
<1>1. /\ d \in Opens /\ s \in Scns /\ s.soff = x.start /\ n = x.size /\ off \in Nat /\ n \in Nat
      /\ x.start \in Nat
  BY WorkFields DEF Readies, HasScn, Scns, Extents
<1>2. /\ d.raw \notin {Gone, None} /\ ~(off + n > Len(d.raw))
      /\ r.img = Put(img, s.soff, u)
  BY DEF WriteRaw
<1>3. d.raw \in Seq(Unit) /\ Clean(d.raw)
  BY <1>1, <1>2 DEF Opens, Descs, HasScn
<1>4. Region(d.raw, off, n)
  <2>1. Len(d.raw) \in Nat /\ off + n <= Len(d.raw)
    BY <1>1, <1>2, <1>3
  <2> QED
    BY <1>1, <1>3, <2>1 DEF Region
<1> HIDE DEF off, n
<1>5. u \in Seq(Unit) /\ n = Len(u) /\ \A k \in 1..n : u[k] = d.raw[off + k] /\ off + k \in 1..Len(d.raw)
  BY <1>4, RegionGives
<1>6. Clean(u)
  BY <1>3, <1>5 DEF Clean
<1> HIDE DEF u
<1>7. Fitting(img, x.start, u)
  <2>1. x.start + n <= Len(img)
    BY <1>1 DEF Ends
  <2> QED
    BY <1>1, <1>5, <2>1 DEF Fitting
<1>8. r.img = Put(img, x.start, u)
  BY <1>1, <1>2
<1>9. /\ Prolongs(img, r.img, x.start, x.start + n) /\ Bytes(r.img, x.start, n) = u
  BY <1>5, <1>6, <1>7, <1>8, PutProlongs
<1> QED
  BY <1>1, <1>4, <1>9 DEF ContentsThere, u, off, n, Ends

\* A section whose contents are in buffers
LEMMA BuffersWritten ==
  ASSUME NEW d, NEW img \in Seq(Unit), NEW x \in Extents,
         NEW s, HasScn(d, s, x), s.data # <<>>, Ends(x) <= Len(img),
         NEW r, r = WriteData(img, s), r.how = "ok", r.end = Ends(x)
  PROVE  /\ Prolongs(img, r.img, x.start, Ends(x))
         /\ ContentsThere(d, s, Bytes(r.img, x.start, x.size))
<1> DEFINE n == Len(s.data)
<1>1. /\ s \in Scns /\ s.soff = x.start /\ s.size = x.size /\ x.start \in Nat /\ x.size \in Nat
      /\ Placed(s.data) = s.data /\ Extent(s.data) <= s.size /\ s.data \in DataLists
      /\ Extent(s.data) \in Nat
  BY ExtentType DEF HasScn, Scns, Extents
<1>2. PICK f : /\ DataLoop(f, img, s)
               /\ WriteData(img, s) =
                    IF \E k \in 1..Len(s.data) : s.data[k].units = <<>> THEN [how |-> "abort"]
                    ELSE [how |-> "ok", end |-> BufferEnd(s, n), img |-> f[n]]
  BY <1>1, WriteDataForm
<1>3. /\ \A k \in 1..n : s.data[k].units # <<>>
      /\ r.img = f[n] /\ BufferEnd(s, n) = Ends(x)
  BY <1>2
<1>4. PICK g : Joined(s.data, g)
  BY <1>1, JoinedExists
<1>5. \A k \in 1..n : s.data[k].units # <<>> /\ Clean(s.data[k].units)
  BY <1>3 DEF HasScn
<1>6. x.start + Extent(s.data) <= Len(img) /\ Len(img) \in Nat
  <2>1. Ends(x) = x.start + x.size /\ Len(img) \in Nat
    BY DEF Ends
  <2> QED
    BY <1>1, <2>1
<1>7. /\ f[n] \in Seq(Unit) /\ Len(f[n]) = Len(img)
      /\ \A k \in 1..Len(img) : k <= x.start => f[n][k] = img[k]
      /\ Alike(Bytes(f[n], x.start, BufferEnd(s, n) - x.start), g[n])
      /\ Clean(Bytes(f[n], x.start, BufferEnd(s, n) - x.start))
  <2> DEFINE p == x.start
  <2>1. /\ n = Len(s.data) /\ p = s.soff /\ s \in Scns /\ Placed(s.data) = s.data
        /\ p + Extent(s.data) <= Len(img)
    BY <1>1, <1>6
  <2> HIDE DEF n, p
  <2>2. DataLoop(f, img, s) /\ Joined(s.data, g)
    BY <1>2, <1>4
  <2>3. /\ f[n] \in Seq(Unit) /\ Len(f[n]) = Len(img)
        /\ \A k \in 1..Len(img) : k <= p => f[n][k] = img[k]
        /\ Alike(Bytes(f[n], p, BufferEnd(s, n) - p), g[n])
        /\ Clean(Bytes(f[n], p, BufferEnd(s, n) - p))
    BY ONLY <1>5, <2>1, <2>2, DataWritten, img \in Seq(Unit)
  <2> QED
    BY <2>3 DEF p
<1> DEFINE to == f[n]
           b == Bytes(to, x.start, x.size)
<1>8. BufferEnd(s, n) - x.start = x.size
  BY <1>1, <1>3 DEF Ends
<1>9. /\ to \in Seq(Unit) /\ Len(to) = Len(img)
      /\ \A k \in 1..Len(img) : k <= x.start => to[k] = img[k]
      /\ Alike(b, g[n]) /\ Clean(b)
  BY <1>7, <1>8
<1> HIDE DEF to, b
<1>10. Region(to, x.start, x.size)
  BY <1>1, <1>9 DEF Region, Ends
<1>11. x.size = Len(b) /\ \A k \in 1..x.size : b[k] = to[x.start + k]
  BY <1>10, RegionGives DEF b
<1>12. \A k \in 1..Len(img) : x.start < k /\ k <= Ends(x) => to[k] # Junk
  <2> SUFFICES ASSUME NEW k \in 1..Len(img), x.start < k, k <= x.start + x.size
               PROVE  to[k] # Junk
    BY DEF Ends
  <2>1. k - x.start \in 1..x.size /\ x.start + (k - x.start) = k
    BY <1>1
  <2> QED
    BY <1>9, <1>11, <2>1 DEF Clean
<1>13. Prolongs(img, to, x.start, Ends(x))
  <2>1. Ends(x) \in Nat /\ x.start <= Ends(x)
    BY <1>1 DEF Ends
  <2> QED
    BY <1>1, <1>9, <1>12, <2>1 DEF Prolongs
<1> QED
  BY <1>3, <1>4, <1>9, <1>13 DEF to, b, ContentsThere

LEMMA ExtentWritten ==
  ASSUME NEW c, NEW w \in Readies(c), w.how = "ok", NEW img \in Seq(Unit), NEW x \in Extents,
         NEW d, d = w.e, Stands(d, x), Ends(x) <= Len(img),
         NEW r, r = WriteExtent(w, img, x), r.how = "ok", r.end = Ends(x)
  PROVE  Prolongs(img, r.img, x.start, Ends(x)) /\ RightAt(d, x, r.img)
<1>1. /\ d \in Opens /\ d.ehdr \in Ehdrs /\ x.start \in Nat /\ x.size \in Nat
      /\ x.kind \in {"ehdr", "phdr", "shdr", "scn"} /\ Ends(x) = x.start + x.size
  BY WorkFields DEF Readies, Extents, Ends
<1>2. Prolongs(img, r.img, x.start, Ends(x)) => Region(r.img, x.start, x.size)
  <2>1. ASSUME Prolongs(img, r.img, x.start, Ends(x)) PROVE Region(r.img, x.start, x.size)
    <3>1. r.img \in Seq(Unit) /\ Len(r.img) = Len(img)
      BY <2>1 DEF Prolongs
    <3> QED
      BY <1>1, <3>1 DEF Region
  <2> QED
    BY <2>1
<1>3. CASE x.kind = "ehdr"
  <2> DEFINE h == Header("ehdr", d.ehdr, EhdrSize)
  <2>1. x.start = 0 /\ x.size = EhdrSize
    BY <1>3 DEF Stands
  <2>2. r.img = Put(img, 0, h)
    BY <1>3 DEF WriteExtent
  <2>3. <<"ehdr", d.ehdr>> \in Unit
    BY <1>1 DEF Unit
  <2>4. h \in Seq(Unit) /\ EhdrSize = Len(h) /\ Clean(h)
    BY <2>3, Sizes, HeaderClean
  <2> HIDE DEF h
  <2>5. Fitting(img, 0, h)
    BY <1>1, <2>1, <2>4 DEF Fitting
  <2>6. /\ Prolongs(img, r.img, 0, 0 + Len(h)) /\ Bytes(r.img, 0, Len(h)) = h
    BY <2>2, <2>4, <2>5, PutProlongs
  <2>7. Prolongs(img, r.img, x.start, Ends(x)) /\ Bytes(r.img, x.start, x.size) = h
    <3>1. x.start = 0 /\ Ends(x) = 0 + Len(h) /\ x.size = Len(h)
      BY <1>1, <2>1, <2>4
    <3> QED
      BY <2>6, <3>1
  <2> QED
    BY <1>2, <1>3, <2>1, <2>7 DEF RightAt, h
<1>4. CASE x.kind = "phdr"
  <2> DEFINE u == d.phdr
  <2>1. u \in Seq(Unit) /\ Clean(u) /\ x.size = Len(u)
    BY <1>4 DEF Stands, HasPhdrs
  <2>2. u # None
    BY <2>1, NoneIsNothing
  <2>3. WithPhdr(w) = w
    BY <2>2 DEF WithPhdr
  <2>4. r.img = Put(img, x.start, u)
    BY <1>4, <2>3 DEF WriteExtent
  <2> HIDE DEF u
  <2>5. Fitting(img, x.start, u)
    BY <1>1, <2>1 DEF Fitting
  <2>6. /\ Prolongs(img, r.img, x.start, x.start + Len(u)) /\ Bytes(r.img, x.start, Len(u)) = u
    BY <2>1, <2>4, <2>5, PutProlongs
  <2>7. Prolongs(img, r.img, x.start, Ends(x)) /\ Bytes(r.img, x.start, x.size) = u
    BY <1>1, <2>1, <2>6
  <2> QED
    BY <1>2, <1>4, <2>7 DEF RightAt, u
<1>5. CASE x.kind = "shdr"
  <2>1. r.img = WriteShdrs(d, img, x)
    BY <1>5 DEF WriteExtent
  <2>2. TableFilled(d, d.nscn) /\ x.size = d.nscn * ShdrSize
    BY <1>5 DEF Stands
  <2>3. /\ Prolongs(img, r.img, x.start, Ends(x))
        /\ \A i \in 0..d.nscn - 1 : HeaderThere(d, x, r.img, i)
    BY <1>1, <2>1, <2>2, ShdrsWritten
  <2> QED
    BY <1>2, <1>5, <2>3 DEF RightAt
<1>6. CASE x.kind = "scn"
  <2> DEFINE s == d.scns[x.ndx]
  <2>1. HasScn(d, s, x)
    BY <1>6 DEF Stands
  <2>2. r = IF s.data = <<>> THEN WriteRaw(w, img, s) ELSE WriteData(img, s)
    BY <1>6 DEF WriteExtent
  <2> HIDE DEF s
  <2>3. CASE s.data = <<>>
    <3>1. r = WriteRaw(w, img, s)
      BY <2>2, <2>3
    <3>2. /\ Prolongs(img, r.img, x.start, Ends(x))
          /\ ContentsThere(d, s, Bytes(r.img, x.start, x.size))
      BY <2>1, <2>3, <3>1, RawWritten
    <3> QED
      BY <1>2, <1>6, <3>2 DEF RightAt, s
  <2>4. CASE s.data # <<>>
    <3>1. r = WriteData(img, s)
      BY <2>2, <2>4
    <3>2. /\ Prolongs(img, r.img, x.start, Ends(x))
          /\ ContentsThere(d, s, Bytes(r.img, x.start, x.size))
      BY <2>1, <2>4, <3>1, BuffersWritten
    <3> QED
      BY <1>2, <1>6, <3>2 DEF RightAt, s
  <2> QED
    BY <2>3, <2>4
<1> QED
  BY <1>1, <1>3, <1>4, <1>5, <1>6

\* The image holds everything at its place, and nothing is left out.
LEMMA ImageWritten ==
  ASSUME NEW c, NEW w \in Readies(c), w.how = "ok", NEW d, d = w.e,
         \A j \in 1..Len(w.ext) : Stands(d, w.ext[j]),
         \E j \in 1..Len(w.ext) : w.rc <= Ends(w.ext[j]),
         NEW r, r = Image(w), r.how = "ok"
  PROVE  /\ r.img \in Seq(Unit) /\ Clean(r.img) /\ Len(r.img) = w.rc
         /\ \A j \in 1..Len(w.ext) : RightAt(d, w.ext[j], r.img)
<1> DEFINE n == Len(w.ext)
           x(k) == w.ext[k]
           rc == w.rc
<1>1. /\ n \in Nat /\ rc \in Nat /\ d \in Opens
      /\ \A k \in 1..n : /\ x(k) \in Extents /\ x(k).start \in Nat /\ x(k).size \in Nat
                         /\ Ends(x(k)) \in Nat /\ x(k).start <= Ends(x(k)) /\ Ends(x(k)) <= rc
      /\ \A j, k \in 1..n : j < k => Ends(x(j)) <= x(k).start
  <2>1. /\ n \in Nat /\ rc \in Nat /\ d \in Opens /\ \A k \in 1..n : x(k) \in Extents
    BY WorkFields DEF Readies
  <2>2. /\ \A k \in 1..n : Ends(x(k)) <= rc
        /\ \A j, k \in 1..n : j < k => Ends(x(j)) <= x(k).start
    BY DEF Readies, Goods, Ascending
  <2>3. ASSUME NEW k \in 1..n
        PROVE  /\ x(k).start \in Nat /\ x(k).size \in Nat
               /\ Ends(x(k)) \in Nat /\ x(k).start <= Ends(x(k))
    <3>1. x(k).start \in Nat /\ x(k).size \in Nat
      BY <2>1 DEF Extents
    <3> HIDE DEF x
    <3> QED
      BY <3>1 DEF Ends
  <2> QED
    BY <2>1, <2>2, <2>3
<1>2. PICK f : ImageLoop(f, w) /\ r = f[n]
  BY ImageForm
<1> DEFINE wrote(k) == WriteExtent(w, Pad(f[k - 1].img, f[k - 1].end, x(k).start), x(k))
<1>3. /\ f[0] = [how |-> "ok", img |-> Blank(rc), end |-> 0]
      /\ \A k \in 0..n : f[k] \in ImageStates
      /\ \A k \in 1..n : f[k] = WroteAfter(f[k - 1], x(k), wrote(k))
  BY <1>2 DEF ImageLoop
<1>4. \A k \in 1..n : Stands(d, x(k))
  OBVIOUS
<1> DEFINE P(k) == f[k].how = "ok" =>
             /\ Prolongs(Blank(rc), f[k].img, 0, f[k].end)
             /\ f[k].end = IF k = 0 THEN 0 ELSE Ends(x(k))
             /\ \A j \in 1..k : RightAt(d, x(j), f[k].img)
<1>5. Blank(rc) \in Seq(Unit) /\ Len(Blank(rc)) = rc
  <2>1. Junk \in Unit
    BY DEF Unit
  <2> QED
    BY <1>1, <2>1 DEF Blank
<1> HIDE DEF n, rc, x
<1>6. P(0)
  <2>1. f[0].img = Blank(rc) /\ f[0].end = 0 /\ 1..0 = {}
    BY <1>3
  <2>2. \A k \in 1..Len(Blank(rc)) : ~(0 < k /\ k <= 0)
    OBVIOUS
  <2>3. Prolongs(Blank(rc), Blank(rc), 0, 0)
    BY <1>5, <2>2 DEF Prolongs
  <2> QED
    BY <2>1, <2>3
<1>7. ASSUME NEW k \in 1..n, P(k - 1) PROVE P(k)
  <2> SUFFICES ASSUME f[k].how = "ok"
               PROVE  /\ Prolongs(Blank(rc), f[k].img, 0, f[k].end)
                      /\ f[k].end = Ends(x(k))
                      /\ \A j \in 1..k : RightAt(d, x(j), f[k].img)
    BY <1>1
  <2> DEFINE p == f[k - 1]
             y == x(k)
             mid == Pad(p.img, p.end, y.start)
             q == wrote(k)
  <2>1. p \in ImageStates /\ f[k] = WroteAfter(p, y, q)
    <3>1. k - 1 \in 0..n
      BY <1>1
    <3> QED
      BY <1>3, <3>1
  <2>2. y \in Extents /\ Stands(d, y) /\ y.start \in Nat /\ Ends(y) \in Nat /\ Ends(y) <= rc
    BY <1>1, <1>4
  <2>3. q = WriteExtent(w, mid, y)
    OBVIOUS
  <2>4. /\ p.how = "ok" => /\ Prolongs(Blank(rc), p.img, 0, p.end)
                           /\ p.end = IF k - 1 = 0 THEN 0 ELSE Ends(x(k - 1))
                           /\ \A j \in 1..k - 1 : RightAt(d, x(j), p.img)
    BY <1>7
  <2> HIDE DEF p, q
  <2>5. p.how = "ok" /\ q.how = "ok" /\ q.end = Ends(y) /\ f[k] = q
    BY <2>1 DEF WroteAfter, ImageStates
  <2>6. p.end \in Nat /\ p.end <= y.start /\ \A j \in 1..k - 1 : Ends(x(j)) <= p.end
    <3>1. CASE k = 1
      BY <2>2, <2>4, <2>5, <3>1
    <3>2. CASE k # 1
      <4>1. PICK m \in 1..n : m = k - 1
        BY <1>1, <3>2
      <4>2. p.end = Ends(x(m)) /\ p.end \in Nat /\ Ends(x(m)) <= y.start
        BY <1>1, <2>4, <2>5, <4>1
      <4>3. ASSUME NEW j \in 1..k - 1 PROVE Ends(x(j)) <= p.end
        <5>1. j \in 1..n /\ (j = m \/ j < m)
          BY <1>1, <4>1
        <5>2. CASE j = m
          BY <4>2, <5>2
        <5>3. CASE j < m
          <6>1. /\ Ends(x(j)) <= x(m).start /\ x(m).start <= Ends(x(m))
                /\ Ends(x(j)) \in Nat /\ x(m).start \in Nat /\ Ends(x(m)) \in Nat
            BY <1>1, <5>1, <5>3
          <6> QED
            BY ONLY <4>2, <6>1
        <5> QED
          BY <5>1, <5>2, <5>3
      <4> QED
        BY <4>2, <4>3
    <3> QED
      BY <3>1, <3>2
  <2> DEFINE a == p.img
             e0 == p.end
             y0 == y.start
  <2>7. a \in Seq(Unit) /\ Len(a) = rc /\ Prolongs(Blank(rc), a, 0, e0)
    BY <1>5, <2>4, <2>5 DEF Prolongs
  <2>8. e0 \in Nat /\ y0 \in Nat /\ e0 <= y0 /\ mid = Pad(a, e0, y0)
    BY <2>2, <2>6
  <2> HIDE DEF a, e0, y0, mid
  <2>9. Prolongs(a, mid, e0, y0)
    BY <2>7, <2>8, PadProlongs
  <2>10. mid \in Seq(Unit) /\ Len(mid) = rc
    BY <2>7, <2>9 DEF Prolongs
  <2> HIDE DEF y
  <2>11. Prolongs(mid, q.img, y.start, Ends(y)) /\ RightAt(d, y, q.img)
    <3>1. Ends(y) <= Len(mid)
      BY <2>2, <2>10
    <3> QED
      BY <2>2, <2>3, <2>5, <2>10, <3>1, ExtentWritten
  <2>12. Prolongs(a, q.img, e0, Ends(y))
    BY <2>9, <2>11, ProlongsTwice DEF y0
  <2>13. Prolongs(Blank(rc), q.img, 0, Ends(y))
    BY <2>7, <2>12, ProlongsTwice
  <2>14. ASSUME NEW j \in 1..k PROVE RightAt(d, x(j), q.img)
    <3>1. CASE j = k
      BY <2>11, <3>1 DEF y
    <3>2. CASE j # k
      <4>1. j \in 1..k - 1 /\ j \in 1..n
        BY <1>1, <3>2
      <4>2. RightAt(d, x(j), a) /\ Ends(x(j)) <= e0 /\ x(j) \in Extents
        BY <1>1, <2>4, <2>5, <2>6, <4>1 DEF a, e0
      <4>3. x(j).kind = "shdr" => x(j).size = d.nscn * ShdrSize
        BY <1>4, <4>1 DEF Stands
      <4> DEFINE z == x(j)
      <4> HIDE DEF z
      <4>4. z \in Extents /\ RightAt(d, z, a) /\ Ends(z) <= e0
            /\ (z.kind = "shdr" => z.size = d.nscn * ShdrSize)
        BY <4>2, <4>3 DEF z
      <4>5. RightAt(d, z, q.img)
        BY ONLY <1>1, <2>12, <4>4, RightKeeps
      <4> QED
        BY <4>5 DEF z
    <3> QED
      BY <3>1, <3>2
  <2> QED
    BY <2>5, <2>13, <2>14 DEF y
<1>8. P(n)
  <2> DEFINE S == {k \in 0..n : P(k)}
  <2> HIDE DEF P
  <2>1. 0 \in S /\ \A k \in 1..n : k - 1 \in S => k \in S
    BY <1>1, <1>6, <1>7
  <2>2. 0..n \subseteq S
    <3>1. n \in Nat
      BY <1>1
    <3> HIDE DEF S
    <3> QED
      BY ONLY <2>1, <3>1, Steps
  <2> QED
    BY <1>1, <2>2
<1>9. PICK j \in 1..n : rc <= Ends(x(j))
  BY DEF n, rc, x
<1>10. n \in 1..n /\ rc <= Ends(x(n))
  <2>1. n \in 1..n
    BY <1>1
  <2>2. CASE j = n
    BY <1>9, <2>1, <2>2
  <2>3. CASE j # n
    <3>1. j < n
      BY <1>1, <2>3
    <3>2. /\ Ends(x(j)) <= x(n).start /\ x(n).start <= Ends(x(n))
          /\ Ends(x(j)) \in Nat /\ x(n).start \in Nat /\ Ends(x(n)) \in Nat
      BY <1>1, <2>1, <3>1
    <3> QED
      BY ONLY <1>1, <1>9, <2>1, <3>2
  <2> QED
    BY <2>2, <2>3
<1>11. /\ Prolongs(Blank(rc), r.img, 0, Ends(x(n))) /\ \A k \in 1..n : RightAt(d, x(k), r.img)
  BY <1>1, <1>2, <1>8, <1>10
<1>12. r.img \in Seq(Unit) /\ Len(r.img) = rc
  BY <1>5, <1>11 DEF Prolongs
<1>13. Clean(r.img)
  <2> SUFFICES ASSUME NEW k \in 1..Len(r.img) PROVE r.img[k] # Junk
    BY DEF Clean
  <2>1. k \in 1..Len(Blank(rc)) /\ 0 < k /\ k <= Ends(x(n))
    BY <1>1, <1>5, <1>10, <1>12
  <2> QED
    BY <1>11, <2>1 DEF Prolongs
<1> QED
  BY <1>11, <1>12, <1>13 DEF n, rc, x

-----------------------------------------------------------------------------
(* A section as the client means it, and how the layout leaves it *)

\* The contents of the buffers are m.
JoinMeant(data, m) ==
  /\ \E g : Joined(data, g) /\ Alike(g[Len(data)], m)
  /\ \A k \in 1..Len(data) : Clean(data[k].units)

\* Section s is m, in a descriptor with the contents raw of the file.
ScnMeant(layout, raw, s, m) ==
  /\ s.type # "progbits" => m = <<>>
  /\ s.data = <<>> /\ s.dirty => s.size = 0
  /\ s.type = "progbits" /\ s.data = <<>> =>
       /\ s.ssize = s.size /\ (s.size = 0 => m = <<>>)
       /\ s.size > 0 => /\ raw # None
                        /\ raw # Gone => /\ Region(raw, s.rawoff, s.size)
                                         /\ Alike(Bytes(raw, s.rawoff, s.size), m)
  /\ s.type = "progbits" /\ s.data # <<>> =>
       JoinMeant(s.data, m) /\ (layout => Placed(s.data) = s.data)

LEMMA GreatestOne ==
  \A a \in Nat : MaxOf({0} \cup {a}) = a
<1> SUFFICES ASSUME NEW a \in Nat PROVE MaxOf({0} \cup {a}) = a
  OBVIOUS
<1> DEFINE V == {0} \cup {a}
<1>1. a \in V /\ \A x \in V : x <= a
  OBVIOUS
<1>2. \A m \in V : (\A x \in V : x <= m) => m = a
  OBVIOUS
<1> HIDE DEF V
<1>3. MaxOf(V) = a
  BY <1>1, <1>2 DEF MaxOf
<1> QED
  BY <1>3 DEF V

\* One buffer
LEMMA OneBuffer ==
  ASSUME NEW a \in Nat, NEW u \in Seq(Unit), NEW data,
         data = <<[align |-> a, off |-> 0, units |-> u]>>
  PROVE  /\ data \in DataLists /\ Len(data) = 1 /\ data[1].units = u /\ data # <<>>
         /\ Placed(data) = data /\ Extent(data) = Len(u)
         /\ \A m : Alike(u, m) /\ Clean(u) => JoinMeant(data, m)
<1> DEFINE b == [align |-> a, off |-> 0, units |-> u]
<1>1. b \in Datum
  BY DEF Datum
<1>2. data = <<b>> /\ data \in Seq(Datum) /\ Len(data) = 1 /\ data[1] = b /\ data # <<>>
  BY <1>1
<1>3. data \in DataLists
  BY <1>2 DEF DataLists
<1>4. data[1].units = u /\ data[1].off = 0
  BY <1>2
<1>5. Placed(data) = data
  <2>1. /\ Placed(data) \in DataLists /\ Len(Placed(data)) = 1
        /\ Placed(data)[1].align = a /\ Placed(data)[1].units = u /\ Placed(data)[1].off = 0
    <3>1. /\ Placed(data) \in DataLists /\ Len(Placed(data)) = Len(data)
          /\ \A k \in 1..Len(data) : /\ Placed(data)[k].align = data[k].align
                                     /\ Placed(data)[k].units = data[k].units
          /\ \A k \in 1..Len(data) :
               Placed(data)[k].off =
                 IF k = 1 THEN 0
                 ELSE RoundUp(Placed(data)[k - 1].off + Len(data[k - 1].units), data[k].align)
      BY ONLY <1>3, PlacedType
    <3>2. 1 \in 1..Len(data) /\ data[1].align = a
      BY <1>2
    <3> QED
      BY <1>2, <1>4, <3>1, <3>2
  <2> DEFINE p == Placed(data)
  <2> HIDE DEF p
  <2>2. p \in Seq(Datum) /\ Len(p) = 1
    BY <2>1 DEF DataLists, p
  <2>3. p[1] \in Datum
    <3>1. \A k \in 1..Len(p) : p[k] \in Datum
      BY ONLY <2>2
    <3> QED
      BY ONLY <2>2, <3>1
  <2>4. p[1] = b
    BY <2>1, <2>3 DEF Datum, p
  <2>5. p = data
    BY <1>2, <2>2, <2>4
  <2> QED
    BY <2>5 DEF p
<1>6. Extent(data) = Len(u)
  <2>1. BufferEnds(data) = {Len(u)}
    <3>1. 1..Len(data) = {1} /\ 0 + Len(u) = Len(u)
      BY <1>2
    <3>2. BufferEnds(data) = {data[k].off + Len(data[k].units) : k \in {1}}
      BY <3>1 DEF BufferEnds
    <3> QED
      BY <1>4, <3>1, <3>2
  <2>2. Len(u) \in Nat
    OBVIOUS
  <2> QED
    BY <2>1, <2>2, GreatestOne DEF Extent
<1>7. ASSUME NEW m, Alike(u, m), Clean(u) PROVE JoinMeant(data, m)
  <2> DEFINE g == [k \in 0..1 |-> IF k = 0 THEN <<>> ELSE u]
  <2>1. g[0] = <<>> /\ g[1] = u /\ <<>> \o u = u
    BY Joins
  <2>2. Joined(data, g)
    <3>1. \A k \in 1..Len(data) : k = 1 /\ k - 1 = 0
      BY <1>2
    <3>2. \A k \in 0..Len(data) : g[k] \in Seq(Unit)
      BY <1>2, Joins
    <3> HIDE DEF g
    <3> QED
      BY <1>4, <2>1, <3>1, <3>2 DEF Joined
  <2> HIDE DEF g
  <2> QED
    BY <1>2, <1>4, <1>7, <2>1, <2>2 DEF JoinMeant
<1> QED
  BY <1>2, <1>3, <1>4, <1>5, <1>6, <1>7

\* The buffers, placed
LEMMA PlacedMeant ==
  ASSUME NEW data \in DataLists, NEW m, JoinMeant(data, m)
  PROVE  JoinMeant(Placed(data), m)
<1> DEFINE p == Placed(data)
<1>1. /\ Len(p) = Len(data) /\ \A k \in 1..Len(data) : p[k].units = data[k].units
  BY PlacedType
<1> HIDE DEF p
<1>2. PICK g : Joined(data, g) /\ Alike(g[Len(data)], m)
  BY DEF JoinMeant
<1>3. Joined(p, g)
  BY <1>1, <1>2 DEF Joined
<1>4. JoinMeant(p, m)
  BY <1>1, <1>2, <1>3 DEF JoinMeant
<1> QED
  BY <1>4 DEF p

\* As it is laid out
LaidOutAs(layout, s, u, z) ==
  /\ z \in Scns /\ z.type = s.type /\ z.dirty = s.dirty /\ z.rawoff = s.rawoff
  /\ (z.data = <<>>) <=> (s.data = <<>>)
  /\ z.ssize = z.size /\ z.soff = z.off
  /\ ~layout => z.align # 0 /\ z.off % z.align = 0
  /\ IF ~layout /\ ~u THEN z.data = Placed(s.data) /\ z.size = Extent(Placed(s.data))
     ELSE z.data = s.data /\ z.size = s.size

LEMMA LaidOutForm ==
  ASSUME NEW layout \in BOOLEAN, NEW rc \in Nat, NEW s \in Scns, NEW u \in BOOLEAN,
         NEW z, z = LaidOut(layout, rc, s, u)
  PROVE  LaidOutAs(layout, s, u, z)
<1>1. /\ AlignFor(s) \in Nat \ {0} /\ Fitted(s) \in Scns /\ Fitted(s).data = Placed(s.data)
      /\ Fitted(s).size = Extent(Placed(s.data)) /\ Fitted(s).align = s.align
      /\ Larger(AlignFor(s), AlignOf(Placed(s.data))) \in Nat \ {0}
      /\ z \in Scns
  BY LaidOutType
<1>2. z.type = s.type /\ z.dirty = s.dirty /\ (z.data = <<>> <=> s.data = <<>>)
  BY LaidOutTwice
<1>3. ASSUME NEW y \in Scns, NEW al \in Nat \ {0}
      PROVE  LET v == Moved(y, rc, al)
             IN /\ v.data = y.data /\ v.size = y.size /\ v.rawoff = y.rawoff
                /\ v.ssize = v.size /\ v.soff = v.off /\ v.align = al /\ v.off % v.align = 0
  <2> DEFINE off == RoundUp(rc, al)
             size == y.size
             v == [y EXCEPT !.align = al, !.off = off, !.ssize = size, !.soff = off]
  <2>1. off % al = 0
    <3>1. PICK m \in Int : off = m * al
      BY RoundUpProperties
    <3>2. (m * al) % al = 0
      OBVIOUS
    <3> HIDE DEF off
    <3> QED
      BY <3>1, <3>2
  <2>2. v = Moved(y, rc, al)
    BY DEF Moved
  <2> HIDE DEF off
  <2>3. /\ v.data = y.data /\ v.size = y.size /\ v.rawoff = y.rawoff
        /\ v.ssize = v.size /\ v.soff = v.off /\ v.align = al /\ v.off = off
    BY DEF Scns
  <2> HIDE DEF v
  <2> QED
    BY <2>1, <2>2, <2>3
<1>4. Fitted(s).rawoff = s.rawoff
  <2> DEFINE p == Placed(s.data)
             n == Extent(p)
  <2> HIDE DEF p, n
  <2>1. Fitted(s) = [s EXCEPT !.data = p, !.size = n]
    BY DEF Fitted, p, n
  <2> QED
    BY <2>1 DEF Scns
<1>5. CASE layout
  <2>1. z = Kept(s)
    BY <1>5 DEF LaidOut
  <2>2. /\ z.data = s.data /\ z.size = s.size /\ z.rawoff = s.rawoff
        /\ z.ssize = z.size /\ z.soff = z.off
    BY <2>1 DEF Kept, Scns
  <2> QED
    BY <1>1, <1>2, <1>5, <2>2 DEF LaidOutAs
<1>6. CASE ~layout /\ u
  <2> DEFINE al == AlignFor(s)
  <2>1. z = Moved(s, rc, al) /\ al \in Nat \ {0}
    BY <1>1, <1>6 DEF LaidOut
  <2> HIDE DEF al
  <2>2. /\ z.data = s.data /\ z.size = s.size /\ z.rawoff = s.rawoff
        /\ z.ssize = z.size /\ z.soff = z.off /\ z.align = al /\ z.off % z.align = 0
    BY <1>3, <2>1
  <2> QED
    BY <1>1, <1>2, <1>6, <2>1, <2>2 DEF LaidOutAs
<1>7. CASE ~layout /\ ~u
  <2> DEFINE al == Larger(AlignFor(s), AlignOf(Placed(s.data)))
             y == Fitted(s)
  <2>1. z = Moved(y, rc, al) /\ al \in Nat \ {0} /\ y \in Scns
    BY <1>1, <1>7 DEF LaidOut
  <2>3. y.data = Placed(s.data) /\ y.size = Extent(Placed(s.data)) /\ y.rawoff = s.rawoff
    BY <1>1, <1>4
  <2> HIDE DEF al, y
  <2>2. /\ z.data = y.data /\ z.size = y.size /\ z.rawoff = y.rawoff
        /\ z.ssize = z.size /\ z.soff = z.off /\ z.align = al /\ z.off % z.align = 0
    BY <1>3, <2>1
  <2> QED
    BY <1>1, <1>2, <1>7, <2>1, <2>2, <2>3 DEF LaidOutAs
<1> QED
  BY <1>5, <1>6, <1>7

Sees(d, i, o, raw, s, q, layout, m) ==
  /\ d \in Opens /\ i \in DOMAIN d.scns /\ o = d.scns[i] /\ raw = d.raw
  /\ SeenAs(d, i, s, q) /\ ~q
  /\ ScnMeant(layout, raw, o, m) /\ (raw \in Seq(Unit) => Clean(raw))

LEMMA MeantSeen ==
  ASSUME NEW d, NEW i, NEW o, NEW raw, NEW s, NEW q, NEW layout, NEW m,
         Sees(d, i, o, raw, s, q, layout, m)
  PROVE  /\ ScnMeant(layout, raw, s, m)
         /\ o.data = <<>> => s.data = <<>> \/ (Placed(s.data) = s.data /\ Extent(s.data) <= s.size)
<1> /\ d \in Opens /\ i \in DOMAIN d.scns /\ o = d.scns[i] /\ raw = d.raw
    /\ SeenAs(d, i, s, q) /\ ~q
    /\ ScnMeant(layout, raw, o, m) /\ (raw \in Seq(Unit) => Clean(raw))
  BY DEF Sees
<1>1. o \in Scns
  BY ScnOf
<1>2. CASE s = o
  BY <1>2
<1>3. CASE ~(s = o)
  <2> DEFINE u == BytesOf(o, raw)
  <2>1. /\ o.data = <<>> /\ o.type # "null"
        /\ Within(o, raw) /\ s = Filled(o, raw) /\ q = (d.misread \/ Astray(o))
    BY <1>3 DEF SeenAs
  <2>2. /\ s \in Scns /\ s.data = <<[align |-> o.align, off |-> 0, units |-> u]>>
        /\ s.type = o.type /\ s.dirty = o.dirty /\ s.data # <<>> /\ u \in Seq(Unit)
        /\ s.size = o.size /\ s.ssize = o.ssize /\ s.rawoff = o.rawoff
    BY <1>1, <2>1, FilledType
  <2>3. /\ o.off \in Nat /\ Held(o) \in Nat /\ Held(o) <= o.size /\ o.align \in Nat /\ o.size \in Nat
        /\ o.rawoff \in Nat
    BY <1>1 DEF Scns, Held
  <2>4. Held(o) = Len(u) /\ Clean(u)
    <3>1. CASE Held(o) = 0
      <4>1. u = <<>>
        BY <3>1 DEF BytesOf
      <4> HIDE DEF u
      <4> QED
        BY <3>1, <4>1 DEF Clean
    <3>2. CASE Held(o) # 0
      <4>1. raw \in Seq(Unit) /\ o.off + Held(o) <= Len(raw) /\ Clean(raw)
        BY <2>1, <2>3, <3>2 DEF Within
      <4>2. Region(raw, o.off, Held(o))
        BY <2>3, <4>1 DEF Region
      <4>3. u = Bytes(raw, o.off, Held(o))
        BY <3>2 DEF BytesOf
      <4> HIDE DEF u
      <4>4. Held(o) = Len(u) /\ \A k \in 1..Held(o) : u[k] = raw[o.off + k] /\ o.off + k \in 1..Len(raw)
        BY <4>2, <4>3, RegionGives
      <4> QED
        BY <4>1, <4>4 DEF Clean
    <3> QED
      BY <3>1, <3>2
  <2>5. Held(o) # 0 => u = Bytes(raw, o.off, Held(o)) /\ raw \in Seq(Unit)
    BY <2>1, <2>3 DEF BytesOf, Within
  <2> HIDE DEF u
  <2>7. /\ Placed(s.data) = s.data /\ Extent(s.data) = Held(o)
        /\ \A x : Alike(u, x) /\ Clean(u) => JoinMeant(s.data, x)
    <3> DEFINE data == s.data
               al == o.align
    <3>1. data = <<[align |-> al, off |-> 0, units |-> u]>> /\ al \in Nat
      BY <2>2, <2>3
    <3> HIDE DEF data, al
    <3>2. /\ Placed(data) = data /\ Extent(data) = Len(u)
          /\ \A x : Alike(u, x) /\ Clean(u) => JoinMeant(data, x)
      BY <2>2, <3>1, OneBuffer
    <3> QED
      BY <2>4, <3>2 DEF data
  <2>8. ASSUME s.type = "progbits" PROVE Alike(u, m)
    <3>1. Held(o) = o.size
      BY <2>2, <2>8 DEF Held
    <3>2. CASE o.size = 0
      <4>1. m = <<>>
        BY <2>1, <2>2, <2>8, <3>2 DEF ScnMeant
      <4>2. 0 = Len(u)
        BY <2>4, <3>1, <3>2
      <4>3. u = <<>>
        BY <2>2, <4>2, EmptyOne
      <4> QED
        BY <4>1, <4>3, AlikeProperties
    <3>3. CASE o.size # 0
      <4>1. o.size > 0 /\ o.off = o.rawoff
        <5>1. ~Astray(o)
          BY <2>1
        <5>2. Held(o) > 0
          BY <2>3, <3>1, <3>3
        <5> QED
          BY <3>1, <5>1, <5>2 DEF Astray
      <4>2. raw # Gone /\ u = Bytes(raw, o.off, Held(o))
        BY <2>5, <3>1, <3>3, NoneIsNothing
      <4>3. Alike(Bytes(raw, o.rawoff, o.size), m)
        BY <2>1, <2>2, <2>8, <4>1, <4>2 DEF ScnMeant
      <4> QED
        BY <3>1, <4>1, <4>2, <4>3
    <3> QED
      BY <3>2, <3>3
  <2>9. s.type # "progbits" => m = <<>>
    BY <2>2 DEF ScnMeant
  <2>10. s.type = "progbits" => JoinMeant(s.data, m)
    BY <2>4, <2>7, <2>8
  <2>11. ScnMeant(layout, raw, s, m)
    BY ONLY <2>2, <2>7, <2>9, <2>10 DEF ScnMeant
  <2>12. Extent(s.data) <= s.size
    BY ONLY <2>2, <2>3, <2>7
  <2> QED
    BY <2>7, <2>11, <2>12
<1> QED
  BY <1>2, <1>3

LEMMA NoBuffers == Extent(<<>>) = 0 /\ Placed(<<>>) = <<>>
<1>1. BufferEnds(<<>>) = {}
  BY DEF BufferEnds
<1>2. {0} \cup {} = {0} \cup {0}
  OBVIOUS
<1>3. Extent(<<>>) = 0
  BY <1>1, <1>2, GreatestOne DEF Extent
<1>4. <<>> \in DataLists /\ Len(<<>>) = 0
  BY NoData
<1>5. Placed(<<>>) \in DataLists /\ Len(Placed(<<>>)) = 0
  BY <1>4, PlacedType
<1>6. Placed(<<>>) = <<>>
  BY <1>5 DEF DataLists
<1> QED
  BY <1>3, <1>6

LEMMA MeantLaid ==
  ASSUME NEW layout \in BOOLEAN, NEW rc \in Nat, NEW s \in Scns, NEW u \in BOOLEAN,
         NEW z, z = LaidOut(layout, rc, s, u),
         NEW raw, NEW m, ScnMeant(layout, raw, s, m), s.data = <<>> => u \/ s.dirty
  PROVE  ScnMeant(layout, raw, z, m)
<1>0. LaidOutAs(layout, s, u, z)
  BY LaidOutForm
<1>1. /\ z \in Scns /\ z.type = s.type /\ z.dirty = s.dirty /\ z.rawoff = s.rawoff
      /\ (z.data = <<>>) <=> (s.data = <<>>)
      /\ z.ssize = z.size
      /\ IF ~layout /\ ~u THEN z.data = Placed(s.data) /\ z.size = Extent(Placed(s.data))
         ELSE z.data = s.data /\ z.size = s.size
  BY <1>0 DEF LaidOutAs
<1>2. s.data \in DataLists
  BY DEF Scns
<1>3. CASE s.data = <<>>
  <2>1. z.size = s.size \/ (z.size = 0 /\ s.size = 0)
    <3>1. CASE ~layout /\ ~u
      <4>1. z.size = 0
        BY <1>1, <1>3, <3>1, NoBuffers
      <4>2. s.size = 0
        BY <1>3, <3>1 DEF ScnMeant
      <4> QED
        BY <4>1, <4>2
    <3> QED
      BY <1>1, <3>1
  <2>2. z.size = s.size /\ z.data = <<>>
    BY <1>1, <1>3, <2>1
  <2> QED
    BY <1>1, <1>3, <2>2 DEF ScnMeant
<1>4. CASE s.data # <<>>
  <2>1. z.data # <<>>
    BY <1>1, <1>4
  <2>2. z.type # "progbits" => m = <<>>
    BY <1>1 DEF ScnMeant
  <2>3. ASSUME z.type = "progbits"
        PROVE  JoinMeant(z.data, m) /\ (layout => Placed(z.data) = z.data)
    <3>1. JoinMeant(s.data, m) /\ (layout => Placed(s.data) = s.data)
      BY <1>1, <1>4, <2>3 DEF ScnMeant
    <3>2. JoinMeant(Placed(s.data), m)
      BY <1>2, <3>1, PlacedMeant
    <3> QED
      BY <1>1, <3>1, <3>2
  <2> QED
    BY <2>1, <2>2, <2>3 DEF ScnMeant
<1> QED
  BY <1>3, <1>4

\* A section that is where it will be written to
Settled(layout, s) ==
  /\ s.ssize = s.size /\ s.soff = s.off
  /\ s.data # <<>> => Placed(s.data) = s.data /\ Extent(s.data) <= s.size
  /\ ~layout => s.align # 0 /\ s.off % s.align = 0

LEMMA SettledLaid ==
  ASSUME NEW layout \in BOOLEAN, NEW rc \in Nat, NEW s \in Scns, NEW u \in BOOLEAN,
         NEW z, z = LaidOut(layout, rc, s, u), s.type = "progbits",
         NEW raw, NEW m, ScnMeant(layout, raw, s, m),
         u => s.data = <<>> \/ (Placed(s.data) = s.data /\ Extent(s.data) <= s.size),
         ~u /\ layout => ~Misplaced(s)
  PROVE  Settled(layout, z)
<1>0. LaidOutAs(layout, s, u, z)
  BY LaidOutForm
<1>1. /\ (z.data = <<>>) <=> (s.data = <<>>)
      /\ z.ssize = z.size /\ z.soff = z.off
      /\ ~layout => z.align # 0 /\ z.off % z.align = 0
      /\ IF ~layout /\ ~u THEN z.data = Placed(s.data) /\ z.size = Extent(Placed(s.data))
         ELSE z.data = s.data /\ z.size = s.size
  BY <1>0 DEF LaidOutAs
<1>2. s.data \in DataLists /\ s.size \in Nat /\ Extent(s.data) \in Nat
  BY ExtentType DEF Scns
<1>3. ASSUME z.data # <<>> PROVE Placed(z.data) = z.data /\ Extent(z.data) <= z.size
  <2>1. CASE ~layout /\ ~u
    <3> DEFINE p == Placed(s.data)
    <3>1. p \in DataLists /\ Placed(p) = p
      BY <1>2, PlacedType, PlacedTwice
    <3>2. z.data = p /\ z.size = Extent(p)
      BY <1>1, <2>1
    <3> HIDE DEF p
    <3>3. Extent(p) \in Nat
      BY <3>1, ExtentType
    <3> QED
      BY <3>1, <3>2, <3>3
  <2>2. CASE u
    BY <1>1, <1>3, <2>2
  <2>3. CASE layout /\ ~u
    <3>1. z.data = s.data /\ z.size = s.size /\ s.data # <<>>
      BY <1>1, <1>3, <2>3
    <3>2. Placed(s.data) = s.data
      BY <2>3, <3>1 DEF ScnMeant
    <3>3. ~(s.size < Extent(s.data))
      BY <2>3 DEF Misplaced
    <3> QED
      BY <1>2, <3>1, <3>2, <3>3
  <2> QED
    BY <2>1, <2>2, <2>3
<1> QED
  BY <1>1, <1>3 DEF Settled

-----------------------------------------------------------------------------
(* The extents, as a set *)

Placings(w) == {w.ext[j] : j \in 1..Len(w.ext)}
\* The object ends where one of them ends.
Attained(w) == \E x \in Placings(w) : w.rc <= Ends(x)

LEMMA GrownPlacings ==
  ASSUME NEW c, NEW w \in Goods(c), NEW x \in Extents, NEW v, Grown(w, v, x)
  PROVE  Placings(v) = Placings(w) \cup {x} /\ (Attained(w) => Attained(v))
<1> DEFINE old == w.ext
           new == v.ext
<1>1. old \in Seq(Extents) /\ Ascending(old) /\ w.rc \in Nat
  BY DEF Goods, Works
<1>2. Fits(old, x) /\ new = InsertExtent(old, x) /\ v.rc = Larger(w.rc, Ends(x))
  BY DEF Grown, Ends
<1> HIDE DEF old, new
<1>3. /\ \A j \in 1..Len(old) : \E k \in 1..Len(new) : new[k] = old[j]
      /\ \E k \in 1..Len(new) : new[k] = x
  BY ONLY <1>1, <1>2, x \in Extents, InsertKeepsOrder
<1>4. \A j \in 1..Len(new) : new[j] = x \/ \E k \in 1..Len(old) : new[j] = old[k]
  BY ONLY <1>1, <1>2, x \in Extents, InsertedType
<1>5. Placings(v) = Placings(w) \cup {x}
  <2>1. Placings(v) = {new[j] : j \in 1..Len(new)} /\ Placings(w) = {old[j] : j \in 1..Len(old)}
    BY DEF Placings, old, new
  <2>2. ASSUME NEW y \in Placings(v) PROVE y \in Placings(w) \cup {x}
    <3>1. PICK j \in 1..Len(new) : y = new[j]
      BY <2>1
    <3> QED
      BY <1>4, <2>1, <3>1
  <2>3. ASSUME NEW y \in Placings(w) PROVE y \in Placings(v)
    <3>1. PICK j \in 1..Len(old) : y = old[j]
      BY <2>1
    <3> QED
      BY <1>3, <2>1, <3>1
  <2>4. x \in Placings(v)
    BY <1>3, <2>1
  <2> QED
    BY <2>2, <2>3, <2>4
<1>6. ASSUME Attained(w) PROVE Attained(v)
  <2>1. PICK y \in Placings(w) : w.rc <= Ends(y)
    BY <1>6 DEF Attained
  <2>2. Ends(x) \in Nat
    BY DEF Extents, Ends
  <2>3. CASE w.rc > Ends(x)
    BY <1>1, <1>2, <1>5, <2>1, <2>2, <2>3 DEF Larger, Attained
  <2>4. CASE ~(w.rc > Ends(x))
    <3>1. v.rc <= Ends(x)
      BY <1>1, <1>2, <2>2, <2>4 DEF Larger
    <3> QED
      BY <1>5, <3>1 DEF Attained
  <2> QED
    BY <2>3, <2>4
<1> QED
  BY <1>5, <1>6

\* The sections, as the client means them
ScnsMeant(d, m) ==
  \A j \in DOMAIN d.scns \ {0} : ScnMeant(d.layout, d.raw, d.scns[j], m[j])
ScnPlace(d, j) ==
  [kind |-> "scn", ndx |-> j, start |-> d.scns[j].soff, size |-> d.scns[j].ssize]
Fills(d, j) == j \in DOMAIN d.scns /\ d.scns[j].type = "progbits" /\ d.scns[j].ssize # 0

\* What the layout does to section i, of the work w
ScnDone(w, v, i) ==
  /\ IF Fills(v.e, i) THEN Grown(w, v, ScnPlace(v.e, i)) ELSE v.ext = w.ext /\ v.rc = w.rc
  /\ i \in DOMAIN v.e.scns /\ v.e.scns[i].type = "progbits" =>
       Settled(v.e.layout, v.e.scns[i])

LEMMA OneMeant ==
  ASSUME NEW d \in Opens, NEW i \in DOMAIN d.scns, NEW m, ScnsMeant(d, m),
         NEW s, ScnMeant(d.layout, d.raw, s, m[i]), NEW q, d.misread => q,
         NEW b, b = Section(d, i, s, q)
  PROVE  /\ ScnsMeant(b, m) /\ OnlySections(d, b) /\ b.scns[i] = s /\ b.misread = q
         /\ \A j \in DOMAIN d.scns \ {i} : b.scns[j] = d.scns[j]
<1>1. /\ OnlySections(d, b) /\ b.scns[i] = s /\ b.misread = q
      /\ \A j \in DOMAIN d.scns \ {i} : b.scns[j] = d.scns[j]
  BY SectionFrame
<1>2. b.layout = d.layout /\ b.raw = d.raw /\ DOMAIN b.scns = DOMAIN d.scns
  BY <1>1 DEF OnlySections
<1>3. ScnsMeant(b, m)
  BY <1>1, <1>2 DEF ScnsMeant
<1> QED
  BY <1>1, <1>3

LaysOut(c, w, i, d, v, b, m) ==
  /\ w \in Readies(c) /\ w.how = "ok" /\ i \in Nat \ {0} /\ d = w.e
  /\ v = ResyncScn(w, i) /\ b = v.e /\ ~b.misread
  /\ ScnsMeant(d, m) /\ (d.raw \in Seq(Unit) => Clean(d.raw))

LEMMA ScnStep ==
  ASSUME NEW c, NEW w, NEW i, NEW d, NEW v, NEW b, NEW m, LaysOut(c, w, i, d, v, b, m)
  PROVE  /\ OnlySections(d, b) /\ ScnsMeant(b, m)
         /\ \A j \in DOMAIN d.scns \ {i} : b.scns[j] = d.scns[j]
         /\ v.how = "ok" => ScnDone(w, v, i)
<1> /\ w \in Readies(c) /\ w.how = "ok" /\ i \in Nat \ {0} /\ d = w.e
    /\ v = ResyncScn(w, i) /\ b = v.e /\ ~b.misread
    /\ ScnsMeant(d, m) /\ (d.raw \in Seq(Unit) => Clean(d.raw))
  BY DEF LaysOut
<1>1. d \in Opens /\ w \in Goods(c)
  BY DEF Readies, Goods, Works
<1>2. CASE i \notin DOMAIN d.scns \/ d.scns[i].type \in {"null", "nobits"}
  <2>1. v = w
    BY <1>2 DEF ResyncScn
  <2>2. b = d
    BY <2>1
  <2> QED
    BY <1>2, <2>1, <2>2, OnlySectionsTwice DEF ScnDone, Fills
<1>3. CASE i \in DOMAIN d.scns /\ d.scns[i].type \notin {"null", "nobits"}
  <2> DEFINE o == d.scns[i]
             u == o.data = <<>> /\ ~o.dirty
             layout == d.layout
             rc == w.rc
  <2>1. o \in Scns /\ o.type = "progbits" /\ u \in BOOLEAN
    <3>1. o \in Scns
      BY <1>1, <1>3, ScnOf
    <3> QED
      BY <1>3, <3>1 DEF Scns, Kinds
  <2>2. PICK s, q : SeenAs(d, i, s, q) /\ Fares(w, v, i, s, q, u)
    <3>1. \E s, q : SeenAs(w.e, i, s, q) /\ Fares(w, v, i, s, q, u)
      <4> HIDE DEF u
      <4>1. u = (w.e.scns[i].data = <<>> /\ ~w.e.scns[i].dirty)
        BY DEF u
      <4> QED
        BY <1>3, <4>1, ResyncScnGives
    <3> QED
      BY <3>1
  <2>3. layout \in BOOLEAN /\ rc \in Nat
    BY <1>1 DEF Opens, Descs, Goods, Works
  <2>4. /\ s \in Scns /\ q \in BOOLEAN /\ (d.misread => q)
        /\ s.type = o.type /\ s.dirty = o.dirty
    BY <1>1, <1>3, <2>2, SeenType
  <2> DEFINE z == LaidOut(layout, rc, s, u)
  <2>5. z \in Scns /\ z.type = "progbits"
    <3>1. LaidOutAs(layout, s, u, z)
      BY <2>1, <2>3, <2>4, LaidOutForm
    <3> QED
      BY <2>1, <2>4, <3>1 DEF LaidOutAs
  <2>6. IF v.how = "ok"
        THEN /\ b = Section(d, i, z, q)
             /\ ~u /\ layout => ~Misplaced(s)
             /\ IF z.ssize = 0 THEN v.ext = w.ext /\ v.rc = w.rc
                ELSE Grown(w, v, [kind |-> "scn", ndx |-> i, start |-> z.soff, size |-> z.ssize])
        ELSE b \in {Section(d, i, s, q), Section(d, i, z, q)}
    BY <2>2 DEF Fares
  <2> HIDE DEF z
  <2> HIDE DEF o, u, layout, rc
  <2>7. q = FALSE
    <3>1. \A y : Section(d, i, y, q).misread = q
      BY <1>1 DEF Opens, Descs, Section
    <3> QED
      BY <2>4, <2>6, <3>1
  <2>8. PICK raw, n : raw = d.raw /\ n = m[i]
    OBVIOUS
  <2>9. ScnMeant(layout, raw, o, n)
    BY <1>3, <2>8 DEF ScnsMeant, layout, o
  <2>10. /\ ScnMeant(layout, raw, s, n)
         /\ o.data = <<>> => s.data = <<>> \/ (Placed(s.data) = s.data /\ Extent(s.data) <= s.size)
    <3>1. o = d.scns[i] /\ (raw \in Seq(Unit) => Clean(raw)) /\ ~q /\ SeenAs(d, i, s, q)
      BY <2>2, <2>7, <2>8 DEF o
    <3>2. Sees(d, i, o, raw, s, q, layout, n)
      BY <1>1, <1>3, <2>8, <2>9, <3>1 DEF Sees
    <3> QED
      BY ONLY <3>2, MeantSeen
  <2>11. s.data = <<>> => u \/ s.dirty
    <3>1. ASSUME s.data = <<>> PROVE s = o
      <4>1. CASE s = d.scns[i]
        BY <4>1 DEF o
      <4>2. CASE ~(s = d.scns[i])
        <5>1. Within(o, d.raw) /\ s = Filled(o, d.raw)
          BY <2>2, <4>2 DEF SeenAs, o
        <5>2. s.data # <<>>
          BY <2>1, <5>1, FilledType
        <5> QED
          BY <3>1, <5>2
      <4> QED
        BY <4>1, <4>2
    <3> QED
      BY <3>1 DEF u
  <2>12. ScnMeant(layout, raw, z, n)
    BY ONLY <2>1, <2>3, <2>4, <2>10, <2>11, MeantLaid DEF z
  <2>13. ASSUME v.how = "ok" PROVE Settled(layout, z)
    <3>1. ~u /\ layout => ~Misplaced(s)
      BY <2>6, <2>13
    <3>2. u => s.data = <<>> \/ (Placed(s.data) = s.data /\ Extent(s.data) <= s.size)
      BY <2>10 DEF u
    <3>3. s.type = "progbits"
      BY <2>1, <2>4
    <3> QED
      BY ONLY <2>1, <2>3, <2>4, <2>10, <3>1, <3>2, <3>3, SettledLaid DEF z
  <2>14. PICK y : b = Section(d, i, y, q) /\ y \in {s, z} /\ (v.how = "ok" => y = z)
    BY <2>6
  <2>15. ScnMeant(d.layout, d.raw, y, m[i])
    BY <2>8, <2>10, <2>12, <2>14 DEF layout
  <2>16. /\ ScnsMeant(b, m) /\ OnlySections(d, b) /\ b.scns[i] = y
         /\ \A j \in DOMAIN d.scns \ {i} : b.scns[j] = d.scns[j]
    BY ONLY <1>1, <1>3, <2>4, <2>14, <2>15, ScnsMeant(d, m), OneMeant
  <2>17. ASSUME v.how = "ok" PROVE ScnDone(w, v, i)
    <3>1. b.scns[i] = z /\ i \in DOMAIN b.scns /\ b.layout = layout
      BY <1>3, <2>14, <2>16, <2>17 DEF OnlySections, layout
    <3>2. Settled(b.layout, b.scns[i])
      BY <2>13, <2>17, <3>1
    <3>3. z.ssize # 0 => Grown(w, v, ScnPlace(b, i))
      BY <2>6, <2>17, <3>1 DEF ScnPlace
    <3>4. z.ssize = 0 => v.ext = w.ext /\ v.rc = w.rc
      BY <2>6, <2>17
    <3>5. Fills(b, i) <=> z.ssize # 0
      BY <2>5, <3>1 DEF Fills
    <3> QED
      BY <3>2, <3>3, <3>4, <3>5 DEF ScnDone
  <2> QED
    BY <2>16, <2>17
<1> QED
  BY <1>1, <1>2, <1>3

ScnPlaces(d, i) == {ScnPlace(d, j) : j \in {k \in 1..i : Fills(d, k)}}

\* The work v has laid out the sections up to i.
LaidUpto(w, v, i, m) ==
  /\ OnlySections(w.e, v.e) /\ (~v.e.misread => ScnsMeant(v.e, m))
  /\ v.how = "ok" /\ ~v.e.misread =>
       /\ w.how = "ok"
       /\ Placings(v) = Placings(w) \cup ScnPlaces(v.e, i) /\ (Attained(w) => Attained(v))
       /\ \A j \in 1..i : j \in DOMAIN v.e.scns /\ v.e.scns[j].type = "progbits" =>
                            Settled(v.e.layout, v.e.scns[j])

LEMMA OneMorePlace ==
  ASSUME NEW a, NEW b, NEW i \in Nat \ {0}, DOMAIN b.scns = DOMAIN a.scns,
         \A j \in DOMAIN a.scns \ {i} : b.scns[j] = a.scns[j]
  PROVE  ScnPlaces(b, i) = ScnPlaces(a, i - 1) \cup (IF Fills(b, i) THEN {ScnPlace(b, i)} ELSE {})
<1>1. 1..i = (1..i - 1) \cup {i} /\ i \notin 1..i - 1
  OBVIOUS
<1>2. \A j \in 1..i - 1 : (Fills(b, j) <=> Fills(a, j)) /\ (Fills(b, j) => ScnPlace(b, j) = ScnPlace(a, j))
  BY DEF Fills, ScnPlace
<1> DEFINE B == {k \in 1..i : Fills(b, k)}
           A == {k \in 1..i - 1 : Fills(a, k)}
<1>3. B = A \cup (IF Fills(b, i) THEN {i} ELSE {})
  BY <1>1, <1>2
<1>4. ASSUME NEW x \in ScnPlaces(b, i)
      PROVE  x \in ScnPlaces(a, i - 1) \/ (Fills(b, i) /\ x = ScnPlace(b, i))
  <2>1. PICK j \in 1..i : Fills(b, j) /\ x = ScnPlace(b, j)
    BY DEF ScnPlaces
  <2>2. CASE j = i
    BY <2>1, <2>2
  <2>3. CASE j # i
    <3>1. j \in 1..i - 1
      BY <2>3
    <3> QED
      BY <1>2, <2>1, <3>1 DEF ScnPlaces
  <2> QED
    BY <2>2, <2>3
<1>5. ASSUME NEW x \in ScnPlaces(a, i - 1) PROVE x \in ScnPlaces(b, i)
  <2>1. PICK j \in 1..i - 1 : Fills(a, j) /\ x = ScnPlace(a, j)
    BY DEF ScnPlaces
  <2>2. j \in 1..i /\ Fills(b, j) /\ x = ScnPlace(b, j)
    BY <1>1, <1>2, <2>1
  <2> QED
    BY <2>2 DEF ScnPlaces
<1>6. Fills(b, i) => ScnPlace(b, i) \in ScnPlaces(b, i)
  BY <1>1 DEF ScnPlaces
<1> QED
  BY <1>4, <1>5, <1>6

LEMMA LaidOneMore ==
  ASSUME NEW c, NEW w, NEW x \in Readies(c), x.how = "ok", NEW i \in Nat \ {0}, NEW m,
         LaidUpto(w, x, i - 1, m), x.e.raw \in Seq(Unit) => Clean(x.e.raw),
         NEW v, v = ResyncScn(x, i)
  PROVE  LaidUpto(w, v, i, m)
<1> DEFINE a == x.e
           b == v.e
<1>1. OnlySections(a, b) /\ v \in Readies(c)
  BY ResyncScnFrame, ResyncScnType
<1>2. OnlySections(w.e, b)
  <2>1. OnlySections(w.e, a)
    BY DEF LaidUpto
  <2> QED
    BY <1>1, <2>1, OnlySectionsTwice
<1>3. ASSUME ~b.misread PROVE ScnsMeant(b, m) /\ (v.how = "ok" => w.how = "ok"
       /\ Placings(v) = Placings(w) \cup ScnPlaces(v.e, i) /\ (Attained(w) => Attained(v))
       /\ \A j \in 1..i : j \in DOMAIN v.e.scns /\ v.e.scns[j].type = "progbits" =>
                            Settled(v.e.layout, v.e.scns[j]))
  <2>1. ~a.misread
    BY <1>1, <1>3 DEF OnlySections
  <2>2. /\ ScnsMeant(a, m) /\ w.how = "ok"
        /\ Placings(x) = Placings(w) \cup ScnPlaces(a, i - 1) /\ (Attained(w) => Attained(x))
        /\ \A j \in 1..i - 1 : j \in DOMAIN a.scns /\ a.scns[j].type = "progbits" =>
                            Settled(a.layout, a.scns[j])
    BY <2>1 DEF LaidUpto
  <2>3. a.raw \in Seq(Unit) => Clean(a.raw)
    OBVIOUS
  <2>4. PICK p, q : p = a /\ q = b
    OBVIOUS
  <2>5. /\ ScnsMeant(b, m)
        /\ \A j \in DOMAIN a.scns \ {i} : b.scns[j] = a.scns[j]
        /\ v.how = "ok" => ScnDone(x, v, i)
    <3>1. ~q.misread /\ ScnsMeant(p, m) /\ (p.raw \in Seq(Unit) => Clean(p.raw)) /\ p = x.e /\ q = v.e
      BY <1>3, <2>2, <2>4
    <3>2. /\ ScnsMeant(q, m)
          /\ \A j \in DOMAIN p.scns \ {i} : q.scns[j] = p.scns[j]
          /\ v.how = "ok" => ScnDone(x, v, i)
      <4>1. LaysOut(c, x, i, p, v, q, m)
        BY <3>1 DEF LaysOut
      <4> QED
        BY ONLY <4>1, ScnStep
    <3> QED
      BY <2>4, <3>2
  <2>6. ASSUME v.how = "ok"
        PROVE  /\ Placings(v) = Placings(w) \cup ScnPlaces(b, i) /\ (Attained(w) => Attained(v))
               /\ \A j \in 1..i : j \in DOMAIN b.scns /\ b.scns[j].type = "progbits" =>
                            Settled(b.layout, b.scns[j])
    <3>1. DOMAIN b.scns = DOMAIN a.scns /\ b.layout = a.layout
      BY <1>1 DEF OnlySections
    <3>2. ScnPlaces(b, i) = ScnPlaces(a, i - 1) \cup (IF Fills(b, i) THEN {ScnPlace(b, i)} ELSE {})
      BY <2>5, <3>1, OneMorePlace
    <3>3. ScnDone(x, v, i)
      BY <2>5, <2>6
    <3>4. Placings(v) = Placings(x) \cup (IF Fills(b, i) THEN {ScnPlace(b, i)} ELSE {})
          /\ (Attained(x) => Attained(v))
      <4>1. CASE Fills(b, i)
        <5>1. Grown(x, v, ScnPlace(b, i))
          BY <3>3, <4>1 DEF ScnDone
        <5>2. ScnPlace(b, i) \in Extents
          <6>1. b \in Opens /\ i \in DOMAIN b.scns
            BY <1>1, <4>1 DEF Readies, Goods, Works, Fills
          <6>2. b.scns[i] \in Scns
            BY <6>1, ScnOf
          <6> QED
            BY <6>2 DEF ScnPlace, Extents, Scns
        <5>3. x \in Goods(c)
          BY DEF Readies
        <5> QED
          BY <4>1, <5>1, <5>2, <5>3, GrownPlacings
      <4>2. CASE ~Fills(b, i)
        <5>1. v.ext = x.ext /\ v.rc = x.rc
          BY <3>3, <4>2 DEF ScnDone
        <5> QED
          BY <4>2, <5>1 DEF Placings, Attained
      <4> QED
        BY <4>1, <4>2
    <3>5. ASSUME NEW j \in 1..i, j \in DOMAIN b.scns, b.scns[j].type = "progbits"
          PROVE  Settled(b.layout, b.scns[j])
      <4>1. CASE j = i
        BY <3>3, <3>5, <4>1 DEF ScnDone
      <4>2. CASE j # i
        <5>1. j \in 1..i - 1 /\ b.scns[j] = a.scns[j]
          BY <2>5, <3>1, <3>5, <4>2
        <5> QED
          BY <2>2, <3>1, <3>5, <5>1
      <4> QED
        BY <4>1, <4>2
    <3> QED
      BY <2>2, <3>2, <3>4, <3>5
  <2> QED
    BY <2>2, <2>5, <2>6
<1> QED
  BY <1>2, <1>3 DEF LaidUpto

LEMMA SectionsMeant ==
  ASSUME NEW c, NEW w \in Readies(c), NEW m,
         ~w.e.misread => ScnsMeant(w.e, m) /\ (w.e.raw \in Seq(Unit) => Clean(w.e.raw)),
         NEW v, v = ResyncSections(w)
  PROVE  LaidUpto(w, v, MaxScns, m)
<1>1. PICK f : IsLoop(f, w, c) /\ v = f[MaxScns]
  BY SectionsLoop
<1> DEFINE P(i) == LaidUpto(w, f[i], i, m)
<1>2. P(0)
  <2>1. f[0] = w
    BY <1>1 DEF IsLoop
  <2>2. ScnPlaces(w.e, 0) = {}
    BY DEF ScnPlaces
  <2>3. OnlySections(w.e, w.e) /\ 1..0 = {}
    BY OnlySectionsTwice
  <2> QED
    BY <2>1, <2>2, <2>3 DEF LaidUpto
<1>3. ASSUME NEW i \in 1..MaxScns, P(i - 1) PROVE P(i)
  <2> DEFINE x == f[i - 1]
  <2>0. i \in Nat \ {0} /\ i - 1 \in 0..MaxScns
    BY Sizes
  <2>1. x \in Readies(c) /\ f[i] = Then(x, ResyncScn(x, i))
    BY <1>1, <2>0 DEF IsLoop
  <2>2. OnlySections(w.e, x.e)
    BY <1>3 DEF LaidUpto
  <2>3. x.e.raw = w.e.raw /\ (w.e.misread => x.e.misread)
    BY <2>2 DEF OnlySections
  <2>4. LaidUpto(w, x, i - 1, m)
    BY <1>3
  <2> HIDE DEF x, P
  <2>5. CASE x.how # "ok"
    <3>1. f[i] = x
      BY <2>1, <2>5 DEF Then
    <3> QED
      BY <2>4, <2>5, <3>1 DEF LaidUpto, P
  <2>6. CASE x.how = "ok" /\ ~x.e.misread
    <3>1. f[i] = ResyncScn(x, i)
      BY <2>1, <2>6 DEF Then
    <3>2. LaidUpto(w, f[i], i, m)
      BY <2>0, <2>1, <2>3, <2>4, <2>6, <3>1, LaidOneMore
    <3> QED
      BY <3>2 DEF P
  <2>7. CASE x.how = "ok" /\ x.e.misread
    <3>1. f[i] = ResyncScn(x, i)
      BY <2>1, <2>7 DEF Then
    <3>2. OnlySections(x.e, f[i].e)
      BY <2>0, <2>1, <2>7, <3>1, ResyncScnFrame
    <3>3. OnlySections(w.e, f[i].e) /\ f[i].e.misread
      <4>1. f[i].e.misread
        BY <2>7, <3>2 DEF OnlySections
      <4> QED
        BY <2>2, <3>2, <4>1, OnlySectionsTwice
    <3> QED
      BY <3>3 DEF LaidUpto, P
  <2> QED
    BY <2>5, <2>6, <2>7
<1>4. MaxScns \in Nat
  BY Sizes
<1> DEFINE S == {i \in 0..MaxScns : P(i)}
<1>5. 0 \in S /\ \A i \in 1..MaxScns : i - 1 \in S => i \in S
  BY <1>2, <1>3, <1>4
<1> HIDE DEF P, S
<1>6. 0..MaxScns \subseteq S
  BY ONLY <1>4, <1>5, Steps
<1>7. P(MaxScns)
  BY <1>4, <1>6 DEF S
<1> QED
  BY <1>1, <1>7 DEF P

-----------------------------------------------------------------------------
(* The object, as the client means it *)

PhMeant(d, p) ==
  /\ p \in Seq(Unit) /\ Clean(p) /\ Len(p) = d.nphdr * PhdrSize
  /\ d.phdr # None => d.phdr = p
  /\ d.phdr = None /\ d.nphdr # 0 =>
       /\ d.raw # None
       /\ d.raw = Gone => ~(d.rawsize < d.ehdr.phoff + d.nphdr * PhdrSize)
       /\ d.raw # Gone => /\ Region(d.raw, d.ehdr.phoff, d.nphdr * PhdrSize)
                          /\ p = Bytes(d.raw, d.ehdr.phoff, d.nphdr * PhdrSize)

\* Too many program headers, and no section header that could count them
Refused(f) == Top(f).shoff = 0 /\ Top(f).phnum = PnXnum
FileHolds(f, m) ==
  /\ Sound(f) /\ Len(m) = Larger(0, Shnum(f) - 1)
  /\ \A i \in 1..Len(m) : Alike(Contents(f)[i], m[i])
FileMeant(f, m, p, layout) ==
  /\ FileHolds(f, m) /\ Phdrs(f) = p
  /\ layout /\ Shnum(f) = 0 => Top(f).shoff = 0

Full(d) == 0..d.nscn - 1 \subseteq DOMAIN d.scns
Unloaded(d, m) ==
  /\ DOMAIN d.scns \subseteq {0} /\ d.cmd # "write"
  /\ d.raw \in Seq(Unit) =>
       d.ehdr = Top(d.raw) /\ FileHolds(d.raw, m) /\ d.nscn = Shnum(d.raw)
\* Without a header, the object is what the file holds.
MeansFile(d, m, p) ==
  /\ d.phdr = None /\ DOMAIN d.scns = {}
  /\ d.cmd = "write" => m = <<>> /\ p = <<>> /\ d.nscn = 0 /\ d.nphdr = 0
  /\ d.cmd # "write" /\ d.raw \in Seq(Unit) /\ Readable(d.raw) =>
       Refused(d.raw) \/ FileMeant(d.raw, m, p, d.layout)
MeansObject(d, m, p) ==
  /\ PhMeant(d, p)
  /\ d.layout /\ d.nscn = 0 => d.ehdr.shoff = 0
  /\ d.raw \in Seq(Unit) => Clean(d.raw)
  /\ ScnsMeant(d, m)
  /\ IF Full(d) THEN Len(m) = Sections(d) ELSE Unloaded(d, m)
Means(d, m, p) == IF d.ehdr = None THEN MeansFile(d, m, p) ELSE MeansObject(d, m, p)

LEMMA NoBytes == \A img, off : off \in Nat => Bytes(img, off, 0) = <<>>
<1> SUFFICES ASSUME NEW img, NEW off \in Nat PROVE SubSeq(img, off + 1, off) = <<>>
  BY DEF Bytes
<1>1. Len(SubSeq(img, off + 1, off)) = 0
  OBVIOUS
<1> QED
  OBVIOUS

LEMMA HeaderMeant ==
  ASSUME NEW d \in Opens, NEW m, NEW p, Means(d, m, p), CanRead(d),
         NEW v, HeaderSeen(d, v), NEW b \in Opens, b = v.e, ~b.misread
  PROVE  Means(b, m, p)
<1>1. CASE v.e = d
  BY <1>1
<1>2. CASE /\ d.ehdr = None /\ d.class /\ d.cmd = "write"
           /\ v.how = "ok" /\ v.e = [d EXCEPT !.ehdr = NoEhdr]
  <2>1. MeansFile(d, m, p)
    BY <1>2 DEF Means
  <2>2. /\ b.ehdr = NoEhdr /\ b.phdr = d.phdr /\ b.scns = d.scns
        /\ b.raw = d.raw /\ b.rawsize = d.rawsize /\ b.cmd = d.cmd
        /\ b.nscn = d.nscn /\ b.nphdr = d.nphdr /\ b.layout = d.layout
    BY <1>2 DEF Opens, Descs
  <2>3. b.raw = None /\ m = <<>> /\ p = <<>> /\ b.nscn = 0 /\ b.nphdr = 0 /\ DOMAIN b.scns = {}
        /\ b.phdr = None
    BY <1>2, <2>1, <2>2 DEF MeansFile, Opens
  <2>4. PhMeant(b, p)
    <3>1. 0 = 0 * PhdrSize /\ Len(<<>>) = 0 /\ Clean(<<>>) /\ <<>> \in Seq(Unit)
      BY Sizes, EmptyOne
    <3> QED
      BY <2>3, <3>1 DEF PhMeant
  <2>5. b.ehdr # None /\ b.ehdr.shoff = 0
    BY <2>2, NoneIsNothing DEF NoEhdr, Ehdrs
  <2>6. Full(b) /\ Len(m) = Sections(b)
    BY <2>3 DEF Full, Sections, Larger
  <2>7. ScnsMeant(b, m) /\ b.raw \notin Seq(Unit)
    BY <2>3, NoneIsNothing DEF ScnsMeant
  <2>8. MeansObject(b, m, p)
    BY <2>4, <2>5, <2>6, <2>7 DEF MeansObject
  <2> QED
    BY <2>5, <2>8 DEF Means
<1>3. CASE /\ d.ehdr = None /\ d.class /\ d.cmd # "write"
           /\ d.raw \in Seq(Unit) /\ Len(d.raw) >= EhdrSize
           /\ SameButHeader(d, v.e) /\ v.e.ehdr = EhdrAt(d) /\ v.e.ehdr \in Ehdrs
           /\ ~v.e.misread =>
                /\ v.how = "ok" /\ v.e.nscn = Shnum(d.raw)
                /\ Sound(d.raw) => /\ v.e.ehdr = Top(d.raw) /\ v.e.nphdr = Phnum(d.raw)
                                   /\ ~(Top(d.raw).shoff = 0 /\ Top(d.raw).phnum = PnXnum)
  <2>1. MeansFile(d, m, p)
    BY <1>3 DEF Means
  <2>2. d.raw \notin {None, Gone}
    BY <1>3, NoneIsNothing
  <2>3. Readable(d.raw) /\ Sound(d.raw)
    BY <1>3, <2>2 DEF CanRead, Readable
  <2> DEFINE f == d.raw
  <2>4. FileMeant(f, m, p, d.layout)
    BY <1>3, <2>1, <2>3 DEF MeansFile, Refused
  <2>5. /\ b.cmd = d.cmd /\ b.layout = d.layout /\ b.phdr = None /\ b.raw = f
        /\ DOMAIN b.scns \subseteq {0}
    BY <1>3, <2>1 DEF SameButHeader, MeansFile
  <2>6. /\ b.nscn = Shnum(f) /\ b.ehdr = Top(f) /\ b.nphdr = Phnum(f)
        /\ b.ehdr \in Ehdrs /\ b.nphdr \in Nat /\ b.nscn \in Nat
    BY <1>3, <2>3 DEF Opens, Descs
  <2> HIDE DEF f
  <2>7. f \in Seq(Unit) /\ Clean(f) /\ Sound(f)
    BY <1>3, <2>3 DEF Sound, Clean, f
  <2>8. PhMeant(b, p)
    <3> DEFINE n == b.nphdr * PhdrSize
               off == b.ehdr.phoff
    <3>1. n \in Nat /\ off \in Nat /\ p = Bytes(f, off, n)
      BY <2>4, <2>6, Sizes DEF FileMeant, Phdrs, Ehdrs
    <3>2. b.nphdr = 0 => n = 0
      BY Sizes
    <3>3. b.nphdr # 0 => off + n <= Len(f)
      BY <2>6, <2>7 DEF Sound
    <3>8. b.raw # None /\ b.raw # Gone
      BY <2>5, <2>7, NoneIsNothing
    <3>4. CASE b.nphdr = 0
      <4>1. p = <<>> /\ n = 0
        BY <3>1, <3>2, <3>4, NoBytes
      <4>2. Len(p) = n /\ p \in Seq(Unit) /\ Clean(p)
        BY <4>1, EmptyOne
      <4> QED
        BY <2>5, <3>4, <4>2 DEF PhMeant
    <3>5. CASE b.nphdr # 0
      <4> HIDE DEF n, off
      <4>1. Region(f, off, n)
        BY <2>7, <3>1, <3>3, <3>5 DEF Region
      <4>2. p \in Seq(Unit) /\ n = Len(p) /\ \A k \in 1..n : p[k] = f[off + k] /\ off + k \in 1..Len(f)
        BY <3>1, <4>1, RegionGives
      <4>3. Clean(p)
        BY <2>7, <4>2 DEF Clean
      <4> QED
        BY <2>5, <3>1, <3>8, <4>1, <4>2, <4>3 DEF PhMeant, n, off
    <3> QED
      BY <3>4, <3>5
  <2>9. ScnsMeant(b, m) /\ b.ehdr # None
    BY <2>5, <2>6, NoneIsNothing DEF ScnsMeant
  <2>10. b.layout /\ b.nscn = 0 => b.ehdr.shoff = 0
    BY <2>4, <2>5, <2>6 DEF FileMeant
  <2>11. Len(m) = Sections(b) /\ FileHolds(f, m)
    BY <2>4, <2>6 DEF FileMeant, FileHolds, Sections
  <2>12. Unloaded(b, m)
    BY <1>3, <2>5, <2>6, <2>11 DEF Unloaded
  <2>13. MeansObject(b, m, p)
    BY <2>5, <2>7, <2>8, <2>9, <2>10, <2>11, <2>12 DEF MeansObject
  <2> QED
    BY <2>9, <2>13 DEF Means
<1> QED
  BY <1>1, <1>2, <1>3 DEF HeaderSeen

LEMMA LoadedMeant ==
  ASSUME NEW h \in Shdrs, NEW raw \in Seq(Unit), NEW layout, NEW n,
         Holds(h) => h.off + h.size <= Len(raw),
         Alike(IF Holds(h) THEN Bytes(raw, h.off, h.size) ELSE <<>>, n)
  PROVE  ScnMeant(layout, raw, Loaded(h), n)
<1> DEFINE s == Loaded(h)
<1>1. /\ s.type = h.type /\ s.size = h.size /\ s.ssize = h.size /\ s.rawoff = h.off
      /\ s.data = <<>> /\ s.dirty = FALSE
  BY DEF Loaded, NoScn
<1>2. h.size \in Nat /\ h.off \in Nat
  BY DEF Shdrs
<1> HIDE DEF s
<1>3. ~Holds(h) => n = <<>>
  BY AlikeProperties
<1>4. Holds(h) => Region(raw, h.off, h.size) /\ Alike(Bytes(raw, h.off, h.size), n)
  BY <1>2 DEF Region
<1>5. raw # None
  BY NoneIsNothing
<1>6. Holds(h) <=> s.type = "progbits" /\ s.size > 0
  BY <1>1 DEF Holds
<1>7. ScnMeant(layout, raw, s, n)
  <2>1. CASE Holds(h)
    BY <1>1, <1>2, <1>4, <1>5, <1>6, <2>1 DEF ScnMeant
  <2>2. CASE ~Holds(h)
    BY <1>1, <1>2, <1>3, <1>6, <2>2 DEF ScnMeant
  <2> QED
    BY <2>1, <2>2
<1> QED
  BY <1>7 DEF s

LEMMA TableInFile ==
  ASSUME NEW w, w.how = "ok", w.e.cmd # "write", ~w.e.loaded, WithShdrs(w).how = "ok"
  PROVE  /\ ~(w.e.ehdr.shoff + w.e.nscn * ShdrSize > Rawsize(w.e))
         /\ w.e.raw = Gone => 0..w.e.nscn - 1 \subseteq DOMAIN w.e.scns
<1>1. WithShdrs(w) = LoadShdrs(w)
  BY DEF WithShdrs, Then
<1>2. \A how \in {"fault", "error", "abort"} : Fails(w, how).how # "ok"
  BY DEF Fails
<1>3. /\ ~(w.e.ehdr.shoff + w.e.nscn * ShdrSize > Rawsize(w.e))
      /\ ~(w.e.raw = Gone /\ \E i \in 0..w.e.nscn - 1 : i \notin DOMAIN w.e.scns)
  BY <1>1, <1>2 DEF LoadShdrs
<1> QED
  BY <1>3

LEMMA ShdrsMeant ==
  ASSUME NEW c, NEW w \in Readies(c), w.how = "ok", NEW d, d = w.e, Shaped(d),
         NEW m, NEW p, Means(d, m, p), NEW v, v = WithShdrs(w), NEW b, b = v.e
  PROVE  Means(b, m, p) /\ (v.how = "ok" => Full(b))
<1>1. d \in Opens /\ w \in Works /\ d.ehdr \in Ehdrs /\ d.ehdr # None
  BY NoneIsNothing DEF Readies, Goods, Works
<1>2. d.nscn \in Nat
  BY <1>1 DEF Opens, Descs
<1>3. Cardinality(DOMAIN d.scns) \in Nat
  <2>1. DOMAIN d.scns \subseteq 0..d.nscn
    BY <1>2 DEF Shaped
  <2> QED
    BY <1>2, <2>1, CardinalityOfIndices
<1>4. ShdrsSeen(w, v)
  BY <1>1, <1>3, ShdrsGives
<1>5. MeansObject(d, m, p)
  BY <1>1 DEF Means
<1>6. CASE v.how # "ok" /\ v.e = w.e
  BY <1>6
<1>7. CASE v = w /\ (w.e.cmd = "write" \/ w.e.loaded)
  <2>1. b = d
    BY <1>7
  <2>2. Full(b)
    <3>1. CASE d.loaded
      BY <2>1, <3>1 DEF Shaped, Full
    <3>2. CASE d.cmd = "write"
      BY <1>5, <2>1, <3>2 DEF MeansObject, Unloaded
    <3> QED
      BY <1>7, <3>1, <3>2
  <2> QED
    BY <2>1, <2>2
<1>8. CASE /\ w.e.cmd # "write" /\ ~w.e.loaded /\ v.how = "ok"
           /\ \E t : /\ DOMAIN t = DOMAIN w.e.scns \cup 0..w.e.nscn - 1
                     /\ \A i \in DOMAIN w.e.scns : t[i] = w.e.scns[i]
                     /\ \A i \in 0..w.e.nscn - 1 \ DOMAIN w.e.scns :
                          t[i] = Loaded(ShdrAt(w.e, w.e.ehdr.shoff + i * ShdrSize))
                     /\ v.e = [w.e EXCEPT !.loaded = TRUE, !.scns = t]
  <2> DEFINE f == d.raw
             n == d.nscn
             off(i) == d.ehdr.shoff + i * ShdrSize
  <2>1. PICK t : /\ DOMAIN t = DOMAIN d.scns \cup 0..n - 1
                 /\ \A i \in DOMAIN d.scns : t[i] = d.scns[i]
                 /\ \A i \in 0..n - 1 \ DOMAIN d.scns : t[i] = Loaded(ShdrAt(d, off(i)))
                 /\ b = [d EXCEPT !.loaded = TRUE, !.scns = t]
    BY <1>8
  <2>2. /\ b.scns = t /\ b.ehdr = d.ehdr /\ b.phdr = d.phdr
        /\ b.raw = d.raw /\ b.rawsize = d.rawsize /\ b.cmd = d.cmd
        /\ b.nscn = n /\ b.nphdr = d.nphdr /\ b.layout = d.layout
    BY <1>1, <2>1 DEF Opens, Descs
  <2>3. ASSUME ~Full(d) PROVE f \in Seq(Unit) /\ ~(off(n) > Len(f))
    <3>1. f # Gone /\ ~(off(n) > Rawsize(d))
      BY <1>8, <2>3, TableInFile DEF Full
    <3>2. d.raw \in Seq(Unit) \cup {Gone}
      BY <1>1, <1>8 DEF Opens
    <3> QED
      BY <3>1, <3>2 DEF Rawsize
  <2>4. ASSUME NEW j \in DOMAIN t \ {0} PROVE ScnMeant(b.layout, b.raw, t[j], m[j])
    <3>1. CASE j \in DOMAIN d.scns
      BY <1>5, <2>1, <2>2, <2>4, <3>1 DEF MeansObject, ScnsMeant
    <3>2. CASE j \notin DOMAIN d.scns
      <4>1. j \in 1..n - 1 /\ j \in 0..n - 1 \ DOMAIN d.scns
        BY <1>2, <2>1, <2>4, <3>2
      <4>2. ~Full(d)
        BY <4>1 DEF Full
      <4>a. f \in Seq(Unit) /\ ~(off(n) > Len(f))
        BY <2>3, <4>2
      <4>3. d.ehdr = Top(f) /\ FileHolds(f, m) /\ n = Shnum(f)
        BY <1>5, <4>a, <4>2 DEF MeansObject, Unloaded
      <4>4. Sound(f) /\ j \in 1..Len(m) /\ Alike(Contents(f)[j], m[j])
        <5>1. j \in 1..Larger(0, n - 1)
          BY <1>2, <4>1 DEF Larger
        <5> QED
          BY <4>3, <5>1 DEF FileHolds
      <4> DEFINE h == HeaderIn(f, j)[2]
      <4>5. HeaderIn(f, j)[1] = "shdr" /\ (Holds(h) => h.off + h.size <= Len(f))
        BY <4>1, <4>3, <4>4 DEF Sound
      <4>6. ShdrAt(d, off(j)) = h
        BY <4>3, <4>5 DEF ShdrAt, HeaderIn
      <4>7. off(j) \in Nat /\ off(j) < Len(f)
        <5>1. j * ShdrSize \in Nat /\ n * ShdrSize \in Nat /\ j * ShdrSize + ShdrSize <= n * ShdrSize
          BY <1>2, <4>1, Sizes, TableFits
        <5>2. d.ehdr.shoff \in Nat /\ Len(f) \in Nat
          BY <1>1, <4>a DEF Ehdrs
        <5> QED
          BY <4>a, <5>1, <5>2, Sizes
      <4>8. h \in Shdrs
        BY <4>a, <4>6, <4>7, HeadersRead
      <4>9. Contents(f)[j] = IF Holds(h) THEN Bytes(f, h.off, h.size) ELSE <<>>
        <5>1. j \in 1..Larger(0, Shnum(f) - 1)
          BY <1>2, <4>1, <4>3 DEF Larger
        <5> QED
          BY <5>1 DEF Contents
      <4>10. t[j] = Loaded(h)
        BY <2>1, <4>1, <4>6
      <4> HIDE DEF h, f
      <4>11. ScnMeant(b.layout, f, Loaded(h), m[j])
        BY <4>a, <4>4, <4>5, <4>8, <4>9, LoadedMeant
      <4> QED
        BY <2>2, <4>10, <4>11 DEF f
    <3> QED
      BY <3>1, <3>2
  <2>5. Full(b)
    BY <2>1, <2>2 DEF Full
  <2>6. Len(m) = Sections(b)
    <3>1. CASE Full(d)
      BY <1>5, <2>2, <3>1 DEF MeansObject, Sections
    <3>2. CASE ~Full(d)
      <4>1. FileHolds(f, m) /\ n = Shnum(f)
        BY <1>5, <2>3, <3>2 DEF MeansObject, Unloaded
      <4> QED
        BY <2>2, <4>1 DEF FileHolds, Sections
    <3> QED
      BY <3>1, <3>2
  <2>7. ScnsMeant(b, m)
    BY <2>2, <2>4 DEF ScnsMeant
  <2>8. PhMeant(b, p)
    BY <1>5, <2>2 DEF MeansObject, PhMeant
  <2>9. MeansObject(b, m, p)
    BY <1>5, <2>2, <2>5, <2>6, <2>7, <2>8 DEF MeansObject
  <2>10. Means(b, m, p)
    BY <1>1, <2>2, <2>9 DEF Means
  <2> QED
    BY <2>5, <2>10
<1> QED
  BY <1>4, <1>6, <1>7, <1>8 DEF ShdrsSeen

\* The same object, read or changed in what the client does not mean
SameObject(d, b) ==
  /\ b.ehdr = d.ehdr /\ b.phdr = d.phdr /\ b.cmd = d.cmd
  /\ b.raw = d.raw /\ (d.raw = Gone => b.rawsize = d.rawsize)
  /\ b.nscn = d.nscn /\ b.nphdr = d.nphdr /\ b.layout = d.layout /\ b.scns = d.scns

LEMMA SameObjectMeant ==
  ASSUME NEW d, NEW b, SameObject(d, b), NEW m, NEW p, Means(d, m, p)
  PROVE  Means(b, m, p)
<1>1. CASE d.ehdr = None
  <2>1. MeansFile(d, m, p)
    BY <1>1 DEF Means
  <2>2. MeansFile(b, m, p)
    BY <2>1 DEF MeansFile, SameObject
  <2> QED
    BY <1>1, <2>2 DEF Means, SameObject
<1>2. CASE d.ehdr # None
  <2>1. MeansObject(d, m, p)
    BY <1>2 DEF Means
  <2>2. PhMeant(b, p) /\ ScnsMeant(b, m)
    BY <2>1 DEF MeansObject, PhMeant, ScnsMeant, SameObject
  <2>3. (Full(b) <=> Full(d)) /\ Sections(b) = Sections(d) /\ (Unloaded(d, m) => Unloaded(b, m))
    BY DEF Full, Sections, Unloaded, SameObject
  <2>4. MeansObject(b, m, p)
    BY <2>1, <2>2, <2>3 DEF MeansObject, SameObject
  <2> QED
    BY <1>2, <2>4 DEF Means, SameObject
<1> QED
  BY <1>1, <1>2

LEMMA PhdrMeant ==
  ASSUME NEW d \in Opens, d.ehdr # None, NEW m, NEW p, Means(d, m, p),
         NEW v, PhdrSeen(d, v), NEW b, b = v.e
  PROVE  Means(b, m, p) /\ b.scns = d.scns /\ b.nscn = d.nscn /\ b.ehdr = d.ehdr
<1>1. CASE v.e = d
  BY <1>1
<1>2. CASE /\ v.how = "ok" /\ d.phdr = None /\ d.raw \in Seq(Unit)
           /\ d.ehdr.phoff + d.nphdr * PhdrSize <= Len(d.raw)
           /\ v.e = [d EXCEPT !.phdr = Bytes(d.raw, d.ehdr.phoff, d.nphdr * PhdrSize)]
  <2> DEFINE u == Bytes(d.raw, d.ehdr.phoff, d.nphdr * PhdrSize)
  <2>1. MeansObject(d, m, p)
    BY DEF Means
  <2>2. d.ehdr \in Ehdrs /\ d.nphdr \in Nat
    BY DEF Opens, Descs
  <2>3. u = p
    <3>1. CASE d.nphdr = 0
      <4>1. d.nphdr * PhdrSize = 0 /\ d.ehdr.phoff \in Nat
        BY <2>2, <3>1, Sizes DEF Ehdrs
      <4>2. u = <<>>
        BY <4>1, NoBytes
      <4>3. p \in Seq(Unit) /\ Len(p) = 0
        BY <2>1, <4>1 DEF MeansObject, PhMeant
      <4> QED
        BY <4>2, <4>3, EmptyOne
    <3>2. CASE d.nphdr # 0
      BY <1>2, <2>1, <3>2, NoneIsNothing DEF MeansObject, PhMeant
    <3> QED
      BY <3>1, <3>2
  <2>4. b = [d EXCEPT !.phdr = p]
    BY <1>2, <2>3
  <2>5. /\ b.scns = d.scns /\ b.ehdr = d.ehdr /\ b.phdr = p
        /\ b.raw = d.raw /\ b.rawsize = d.rawsize /\ b.cmd = d.cmd
        /\ b.nscn = d.nscn /\ b.nphdr = d.nphdr /\ b.layout = d.layout
    BY <2>4 DEF Opens, Descs
  <2>6. p # None /\ PhMeant(b, p)
    BY <2>1, <2>5, NoneIsNothing DEF MeansObject, PhMeant
  <2>7. ScnsMeant(b, m) /\ (Full(b) <=> Full(d)) /\ Sections(b) = Sections(d)
        /\ (Unloaded(d, m) => Unloaded(b, m))
    BY <2>1, <2>5 DEF MeansObject, ScnsMeant, Full, Sections, Unloaded
  <2>8. MeansObject(b, m, p)
    BY <2>1, <2>5, <2>6, <2>7 DEF MeansObject
  <2> QED
    BY <2>5, <2>8 DEF Means
<1> QED
  BY <1>1, <1>2 DEF PhdrSeen

-----------------------------------------------------------------------------
(* The object laid out, part by part *)

\* The header is read without anything being placed.
LEMMA HeaderExtends ==
  ASSUME NEW c, NEW w \in Goods(c)
  PROVE  WithEhdr(w).ext = w.ext
<1>1. w \in Works /\ w.e \in Descs
  BY WorkFields DEF Goods, Opens
<1>2. \A how : Fails(w, how).ext = w.ext /\ Fails(w, how).e = w.e
  BY <1>1 DEF Fails, Works
<1>3. \A d : /\ With(w, d).ext = w.ext /\ With(w, d).e = d
             /\ \A how : Fails(With(w, d), how).ext = w.ext /\ With(With(w, d), how).ext = w.ext
  BY <1>1 DEF Fails, With, Works
<1>4. ASSUME NEW d PROVE LoadExtended(With(w, d)).ext = w.ext
  <2> DEFINE v == With(w, d)
             a == Allocate(d, 0, Loaded(ShdrAt(d, d.ehdr.shoff)))
  <2>1. v.e = d
    BY <1>3
  <2>2. \/ LoadExtended(v) = Fails(v, "error")
        \/ LoadExtended(v) = Fails(With(v, a), "error")
        \/ \E b : LoadExtended(v) = With(v, b)
    <3> HIDE DEF v
    <3> QED
      BY <2>1 DEF LoadExtended
  <2>3. /\ Fails(v, "error").ext = w.ext /\ Fails(With(v, a), "error").ext = w.ext
        /\ \A b : With(v, b).ext = w.ext
    <3> HIDE DEF a
    <3> QED
      BY <1>1 DEF With, Fails, Works
  <2> HIDE DEF v, a
  <2> QED
    BY <2>2, <2>3 DEF v
<1>5. WithEhdr(w).ext = w.ext
  <2>1. CASE WithEhdr(w) \in {w, Fails(w, "error"), Fails(w, "fault"),
                             With(w, [w.e EXCEPT !.ehdr = NoEhdr])}
    BY <2>1, <1>2, <1>3
  <2>2. ASSUME NEW d, NEW r \in {Fails(With(w, d), "error"), LoadExtended(With(w, d))}
                               \cup {With(w, b) : b \in {[d EXCEPT !.nphdr = EhdrAt(w.e).phnum,
                                                                 !.nscn = EhdrAt(w.e).shnum]}},
               NEW b, WithEhdr(w) = With(r, b)
        PROVE  WithEhdr(w).ext = w.ext
    <3>1. r.ext = w.ext
      BY <1>3, <1>4
    <3>2. "ext" \in DOMAIN r
      BY <1>1 DEF Fails, With, LoadExtended, Works
    <3> QED
      BY <2>2, <3>1, <3>2 DEF With
  <2> QED
    BY <2>1, <2>2 DEF WithEhdr, Then
<1> QED
  BY <1>5

\* Where all is not well nothing more is done.
LEMMA NothingMore ==
  ASSUME NEW c, NEW w \in Readies(c), w.how # "ok"
  PROVE  /\ ResyncPhdr(w) = w /\ WithShdrs(w) = w /\ ResyncShdr(w) = w /\ SetCounts(w) = w
         /\ ResyncSections(w) = w
<1>1. ResyncPhdr(w) = w /\ WithShdrs(w) = w /\ ResyncShdr(w) = w /\ SetCounts(w) = w
  BY DEF ResyncPhdr, WithShdrs, ResyncShdr, SetCounts, Then
<1>2. PICK f : IsLoop(f, w, c) /\ ResyncSections(w) = f[MaxScns]
  BY SectionsLoop
<1> DEFINE S == {i \in 0..MaxScns : f[i] = w}
<1>3. MaxScns \in Nat
  BY Sizes
<1>4. 0 \in S
  BY <1>2, <1>3 DEF IsLoop
<1>5. \A i \in 1..MaxScns : i - 1 \in S => i \in S
  BY <1>2, <1>3 DEF IsLoop, Then
<1> HIDE DEF S
<1>6. 0..MaxScns \subseteq S
  BY ONLY <1>3, <1>4, <1>5, Steps
<1>7. MaxScns \in S
  BY <1>3, <1>6
<1> QED
  BY <1>1, <1>2, <1>7 DEF S

EhdrPlace == [kind |-> "ehdr", ndx |-> 0, start |-> 0, size |-> EhdrSize]
TablePlaces(kind, start, n, size) ==
  IF n = 0 THEN {} ELSE {[kind |-> kind, ndx |-> 0, start |-> start, size |-> n * size]}
PhdrPlaces(d, ph) == TablePlaces("phdr", ph, d.nphdr, PhdrSize)
ShdrPlaces(d, sh) == TablePlaces("shdr", sh, d.nscn, ShdrSize)

\* The work after the header, the program headers, the sections.
AtHeader(w) == Placings(w) = {EhdrPlace} /\ Attained(w)
AtPhdrs(w, ph) ==
  /\ Placings(w) = {EhdrPlace} \cup PhdrPlaces(w.e, ph) /\ Attained(w)
  /\ w.e.nphdr # 0 => w.e.phdr # None /\ (w.e.layout => ph = w.e.ehdr.phoff)
AllSettled(d) ==
  \A j \in 1..MaxScns : j \in DOMAIN d.scns /\ d.scns[j].type = "progbits" =>
                           Settled(d.layout, d.scns[j])
AtSections(w, ph) ==
  /\ Placings(w) = {EhdrPlace} \cup PhdrPlaces(w.e, ph) \cup ScnPlaces(w.e, MaxScns)
  /\ Attained(w)
  /\ w.e.nphdr # 0 => w.e.phdr # None /\ (w.e.layout => ph = w.e.ehdr.phoff)
  /\ Full(w.e) /\ AllSettled(w.e)
AtTable(w, ph, sh) ==
  /\ Placings(w) = {EhdrPlace} \cup PhdrPlaces(w.e, ph) \cup ScnPlaces(w.e, MaxScns)
                   \cup ShdrPlaces(w.e, sh)
  /\ Attained(w)
  /\ w.e.nphdr # 0 => w.e.phdr # None /\ (w.e.layout => ph = w.e.ehdr.phoff)
  /\ w.e.nscn # 0 /\ w.e.layout => sh = w.e.ehdr.shoff
  /\ Full(w.e) /\ AllSettled(w.e)

LEMMA HeaderPlaced ==
  ASSUME NEW c, NEW w \in Readies(c), w.ext = <<>>, w.rc = 0, w.how = "ok",
         NEW v, v = Insert(w, "ehdr", 0, 0, EhdrSize), v.how = "ok"
  PROVE  AtHeader(v) /\ v.e = w.e
<1>1. w \in Works /\ w \in Goods(c)
  BY DEF Readies, Goods
<1>2. EhdrPlace \in Extents /\ Ends(EhdrPlace) = EhdrSize /\ EhdrSize \in Nat
  BY Sizes DEF EhdrPlace, Extents, Ends
<1>3. v.e = w.e /\ Grown(w, v, EhdrPlace)
  <2>1. EhdrPlace = [kind |-> "ehdr", ndx |-> 0, start |-> 0, size |-> EhdrSize]
    BY DEF EhdrPlace
  <2> HIDE DEF EhdrPlace
  <2> QED
    BY <1>1, <2>1, InsertGives
<1>4. Placings(v) = Placings(w) \cup {EhdrPlace}
  BY <1>1, <1>2, <1>3, GrownPlacings
<1>5. Placings(w) = {}
  BY DEF Placings
<1>6. v.rc <= Ends(EhdrPlace)
  <2>1. v.rc = Larger(w.rc, EhdrSize)
    BY <1>3, Sizes DEF Grown, EhdrPlace
  <2> QED
    BY <1>2, <2>1 DEF Larger
<1> QED
  BY <1>3, <1>4, <1>5, <1>6 DEF AtHeader, Attained

\* The program headers are there where they are placed.
LEMMA PhdrGot ==
  ASSUME NEW c, NEW w \in Readies(c), w.how = "ok", NEW m, NEW p, Means(w.e, m, p),
         w.e.nphdr # 0, WithPhdr(w).how # "fault"
  PROVE  WithPhdr(w).e.phdr # None
<1> DEFINE d == w.e
           off == d.ehdr.phoff
           n == d.nphdr * PhdrSize
<1>1. w \in Works /\ d \in Opens /\ d.ehdr \in Ehdrs /\ d.ehdr # None
  BY NoneIsNothing DEF Readies, Goods, Works
<1>2. PhMeant(d, p)
  BY <1>1 DEF Means, MeansObject
<1>3. CASE d.phdr # None
  BY <1>3 DEF WithPhdr
<1>4. CASE d.phdr = None
  <2>1. d.raw # None /\ (d.raw # Gone => Region(d.raw, off, n))
    BY <1>2, <1>4 DEF PhMeant
  <2>3. d.raw # Gone
    <3>1. Fails(w, "fault").how = "fault"
      BY <1>1, FailsForm
    <3>2. d.raw = Gone => ~(Rawsize(d) < off + n)
      BY <1>2, <1>4 DEF PhMeant, Rawsize
    <3> QED
      BY <1>4, <2>1, <3>1, <3>2 DEF WithPhdr
  <2>4. Region(d.raw, off, n)
    BY <2>1, <2>3
  <2>5. ~(Rawsize(d) < off + n)
    BY <2>3, <2>4 DEF Region, Rawsize
  <2>6. WithPhdr(w) = With(w, [d EXCEPT !.phdr = Bytes(d.raw, off, n)])
    BY <1>4, <2>1, <2>3, <2>5 DEF WithPhdr
  <2>7. Bytes(d.raw, off, n) # None
    BY <2>4, RegionGives, NoneIsNothing
  <2> DEFINE u == Bytes(d.raw, off, n)
  <2>8. WithPhdr(w).e.phdr = u
    <3> HIDE DEF u
    <3>1. [d EXCEPT !.phdr = u].phdr = u
      BY <1>1 DEF Opens, Descs
    <3>2. With(w, [d EXCEPT !.phdr = u]).e = [d EXCEPT !.phdr = u]
      BY <1>1 DEF With, Works
    <3> QED
      BY <2>6, <3>1, <3>2 DEF u
  <2> QED
    BY <2>7, <2>8
<1> QED
  BY <1>3, <1>4

LEMMA PhdrsPlaced ==
  ASSUME NEW c, NEW w \in Readies(c), w.how = "ok", NEW m, NEW p, Means(w.e, m, p), AtHeader(w),
         NEW v, v = ResyncPhdr(w)
  PROVE  Means(v.e, m, p) /\ (v.how = "ok" => \E ph \in Nat : AtPhdrs(v, ph))
<1> DEFINE d == w.e
<1>1. w \in Works /\ w \in Goods(c) /\ d \in Opens /\ d.ehdr \in Ehdrs /\ d.ehdr # None
  BY NoneIsNothing DEF Readies, Goods, Works
<1>2. /\ v.e = d \/ (PhdrSeen(d, WithPhdr(w)) /\ v.e = WithPhdr(w).e)
      /\ v.how = "ok" =>
           IF d.nphdr = 0 THEN v = w
           ELSE /\ PhdrSeen(d, WithPhdr(w)) /\ v.e = WithPhdr(w).e
                /\ \E start \in Nat :
                     /\ d.layout => start = d.ehdr.phoff
                     /\ Grown(w, v, [kind |-> "phdr", ndx |-> 0, start |-> start,
                                     size |-> d.nphdr * PhdrSize])
  BY ResyncPhdrGives
<1>3. Means(v.e, m, p)
  BY <1>1, <1>2, PhdrMeant
<1>4. ASSUME v.how = "ok" PROVE \E ph \in Nat : AtPhdrs(v, ph)
  <2>1. CASE d.nphdr = 0
    <3>1. v = w
      BY <1>2, <1>4, <2>1
    <3>2. AtPhdrs(v, 0)
      BY <2>1, <3>1 DEF AtPhdrs, AtHeader, PhdrPlaces, TablePlaces
    <3> QED
      BY <3>2
  <2>2. CASE d.nphdr # 0
    <3>1. PICK start \in Nat :
            /\ d.layout => start = d.ehdr.phoff
            /\ Grown(w, v, [kind |-> "phdr", ndx |-> 0, start |-> start,
                            size |-> d.nphdr * PhdrSize])
      BY <1>2, <1>4, <2>2
    <3>2. WithPhdr(w).how # "fault"
      <4>1. ASSUME WithPhdr(w).how = "fault" PROVE v = WithPhdr(w) \/ v.how = "layout"
        <5>1. Fails(w, "layout").how = "layout"
          BY <1>1, FailsForm
        <5> QED
          BY <2>2, <4>1, <5>1 DEF ResyncPhdr, Then
      <4> QED
        BY <1>4, <4>1
    <3>3. v.e.phdr # None
      BY <1>2, <1>4, <2>2, <3>2, PhdrGot
    <3>4. v.e.nphdr = d.nphdr /\ v.e.layout = d.layout /\ v.e.ehdr = d.ehdr
      <4>1. \A u : LET b == [d EXCEPT !.phdr = u]
                   IN b.nphdr = d.nphdr /\ b.layout = d.layout /\ b.ehdr = d.ehdr
        BY <1>1 DEF Opens, Descs
      <4> QED
        BY <1>2, <4>1 DEF PhdrSeen
    <3> DEFINE x == [kind |-> "phdr", ndx |-> 0, start |-> start, size |-> d.nphdr * PhdrSize]
    <3>5. x \in Extents
      <4>1. d.nphdr * PhdrSize \in Nat
        BY <1>1, Sizes DEF Opens, Descs
      <4> QED
        BY <4>1 DEF Extents
    <3>6. PhdrPlaces(v.e, start) = {x}
      BY <2>2, <3>4 DEF PhdrPlaces, TablePlaces
    <3> HIDE DEF x
    <3>7. Placings(v) = Placings(w) \cup {x} /\ (Attained(w) => Attained(v))
      BY <1>1, <3>1, <3>5, GrownPlacings DEF x
    <3>8. AtPhdrs(v, start)
      BY <3>1, <3>3, <3>4, <3>6, <3>7 DEF AtPhdrs, AtHeader
    <3> QED
      BY <3>8
  <2> QED
    BY <2>1, <2>2
<1> QED
  BY <1>3, <1>4

LEMMA SectionsPlaced ==
  ASSUME NEW c, NEW w \in Readies(c), w.how = "ok", NEW m, NEW p, Means(w.e, m, p),
         NEW v, v = ResyncSections(w), ~v.e.misread
  PROVE  /\ Means(v.e, m, p)
         /\ \A ph : v.how = "ok" /\ AtPhdrs(w, ph) /\ Full(w.e) => AtSections(v, ph)
<1> DEFINE d == w.e
           b == v.e
<1>1. d \in Opens /\ d.ehdr \in Ehdrs /\ d.ehdr # None
  BY NoneIsNothing DEF Readies, Goods, Works
<1>2. MeansObject(d, m, p)
  BY <1>1 DEF Means
<1>3. LaidUpto(w, v, MaxScns, m)
  <2>1. ScnsMeant(w.e, m) /\ (w.e.raw \in Seq(Unit) => Clean(w.e.raw))
    BY <1>2 DEF MeansObject
  <2> QED
    BY <2>1, SectionsMeant
<1>4. OnlySections(d, b) /\ ScnsMeant(b, m)
  BY <1>3 DEF LaidUpto
<1> HIDE DEF d, b
<1>5. /\ b.ehdr = d.ehdr /\ b.layout = d.layout /\ b.cmd = d.cmd /\ b.nphdr = d.nphdr
      /\ b.nscn = d.nscn /\ b.phdr = d.phdr
      /\ b.raw = d.raw /\ b.rawsize = d.rawsize /\ DOMAIN b.scns = DOMAIN d.scns
  BY <1>4 DEF OnlySections
<1>6. MeansObject(b, m, p)
  <2>1. PhMeant(b, p)
    BY <1>2, <1>5 DEF MeansObject, PhMeant
  <2>2. (Full(b) <=> Full(d)) /\ Sections(b) = Sections(d) /\ (Unloaded(d, m) => Unloaded(b, m))
    BY <1>5 DEF Full, Sections, Unloaded
  <2> QED
    BY <1>2, <1>4, <1>5, <2>1, <2>2 DEF MeansObject
<1>7. Means(b, m, p)
  BY <1>1, <1>5, <1>6 DEF Means
<1>8. ASSUME NEW ph, v.how = "ok", AtPhdrs(w, ph), Full(d) PROVE AtSections(v, ph)
  <2>1. /\ Placings(v) = Placings(w) \cup ScnPlaces(b, MaxScns) /\ (Attained(w) => Attained(v))
        /\ AllSettled(b)
    BY <1>3, <1>8 DEF LaidUpto, AllSettled, b
  <2>2. PhdrPlaces(b, ph) = PhdrPlaces(d, ph) /\ Full(b)
    BY <1>5, <1>8 DEF PhdrPlaces, Full
  <2> QED
    BY <1>5, <1>8, <2>1, <2>2 DEF AtPhdrs, AtSections, b, d
<1> QED
  BY <1>7, <1>8 DEF b, d

LEMMA TablePlaced ==
  ASSUME NEW c, NEW w \in Readies(c), NEW ph, AtSections(w, ph),
         NEW v, v = ResyncShdr(w), v.how = "ok"
  PROVE  v.e = w.e /\ \E sh \in Nat : AtTable(v, ph, sh)
<1> DEFINE d == w.e
<1>1. w \in Goods(c) /\ d \in Opens
  BY DEF Readies, Goods, Works
<1>2. /\ v.e = d
      /\ IF d.nscn = 0 THEN v = w
         ELSE \E start \in Nat :
                /\ d.layout => start = d.ehdr.shoff
                /\ Grown(w, v, [kind |-> "shdr", ndx |-> 0, start |-> start,
                                size |-> d.nscn * ShdrSize])
  BY ResyncShdrGives
<1>3. CASE d.nscn = 0
  <2>1. AtTable(v, ph, 0)
    BY <1>2, <1>3 DEF AtSections, AtTable, ShdrPlaces, TablePlaces
  <2> QED
    BY <1>2, <2>1
<1>4. CASE d.nscn # 0
  <2>1. PICK start \in Nat :
          /\ d.layout => start = d.ehdr.shoff
          /\ Grown(w, v, [kind |-> "shdr", ndx |-> 0, start |-> start,
                          size |-> d.nscn * ShdrSize])
    BY <1>2, <1>4
  <2> DEFINE x == [kind |-> "shdr", ndx |-> 0, start |-> start, size |-> d.nscn * ShdrSize]
  <2>2. x \in Extents
    <3>1. d.nscn * ShdrSize \in Nat
      BY <1>1, Sizes DEF Opens, Descs
    <3> QED
      BY <3>1 DEF Extents
  <2>3. ShdrPlaces(d, start) = {x}
    BY <1>4 DEF ShdrPlaces, TablePlaces
  <2> HIDE DEF x
  <2>4. Placings(v) = Placings(w) \cup {x} /\ (Attained(w) => Attained(v))
    BY <1>1, <2>1, <2>2, GrownPlacings DEF x
  <2>5. AtTable(v, ph, start)
    BY <1>2, <2>1, <2>3, <2>4 DEF AtSections, AtTable
  <2> QED
    BY <1>2, <2>5
<1> QED
  BY <1>3, <1>4

LEMMA ShdrsPlaceNothing ==
  ASSUME NEW c, NEW w \in Readies(c), w.how = "ok", NEW d, d = w.e, Shaped(d),
         NEW v, v = WithShdrs(w)
  PROVE  /\ v.how = "ok" => \A ph : AtPhdrs(w, ph) => AtPhdrs(v, ph)
         /\ v.e.misread = d.misread
<1>1. d \in Opens /\ w \in Works
  BY DEF Readies, Goods, Works
<1>2. d.nscn \in Nat
  BY <1>1 DEF Opens, Descs
<1>3. Cardinality(DOMAIN d.scns) \in Nat
  <2>1. DOMAIN d.scns \subseteq 0..d.nscn
    BY <1>2 DEF Shaped
  <2> QED
    BY <1>2, <2>1, CardinalityOfIndices
<1>4. ShdrsSeen(w, v)
  BY <1>1, <1>3, ShdrsGives
<1>5. CASE v = w
  BY <1>5
<1>6. CASE v.ext = w.ext /\ v.rc = w.rc /\ \E t : v.e = [d EXCEPT !.loaded = TRUE, !.scns = t]
  <2>1. PICK t : v.e = [d EXCEPT !.loaded = TRUE, !.scns = t]
    BY <1>6
  <2>2. /\ v.e.nphdr = d.nphdr /\ v.e.phdr = d.phdr /\ v.e.layout = d.layout /\ v.e.ehdr = d.ehdr
        /\ v.e.misread = d.misread
    BY <1>1, <2>1 DEF Opens, Descs
  <2>3. Placings(v) = Placings(w) /\ (Attained(v) <=> Attained(w))
    BY <1>6 DEF Placings, Attained
  <2> QED
    BY <2>2, <2>3 DEF AtPhdrs, PhdrPlaces
<1>7. CASE v.e = d /\ v.how # "ok"
  BY <1>7
<1> QED
  BY <1>4, <1>5, <1>6, <1>7 DEF ShdrsSeen

LEMMA CountsMeant ==
  ASSUME NEW c, NEW w \in Readies(c), w.how = "ok", NEW d, d = w.e,
         NEW m, NEW p, Means(d, m, p), Full(d), d.nphdr # 0 => d.phdr # None,
         NEW v, v = SetCounts(w), NEW b, b = Counted(w, d)
  PROVE  /\ Means(b, m, p) /\ Full(b) /\ b.ehdr = CountsIn(w, d) /\ b.ehdr \in Ehdrs
         /\ v.e = b /\ v.how = "ok" /\ v.ext = w.ext /\ v.rc = w.rc /\ v \in Readies(c)
<1>0. d \in Opens /\ d.ehdr \in Ehdrs /\ w \in Works
  BY DEF Readies, Goods, Works
<1>9. v \in Readies(c) /\ v = With(w, b)
  <2>1. v \in Readies(c)
    BY SetCountsType
  <2>2. SetCounts(w) = Then(w, With(w, Counted(w, w.e)))
    BY SetCountsForm
  <2>3. v = With(w, b)
    BY <2>2 DEF Then
  <2> QED
    BY <2>1, <2>3
<1>10. v.e = b /\ v.how = "ok" /\ v.ext = w.ext /\ v.rc = w.rc
  BY <1>0, <1>9 DEF With, Works
<1>11. b.ehdr \in Ehdrs
  BY <1>9, <1>10 DEF Readies
<1>1. /\ b.layout = d.layout /\ b.cmd = d.cmd /\ b.raw = d.raw /\ b.rawsize = d.rawsize
      /\ b.nphdr = d.nphdr /\ b.nscn = d.nscn /\ b.phdr = d.phdr
      /\ d.layout => b.ehdr.phoff = d.ehdr.phoff /\ b.ehdr.shoff = d.ehdr.shoff
      /\ DOMAIN d.scns \subseteq DOMAIN b.scns /\ DOMAIN b.scns \subseteq DOMAIN d.scns \cup {0}
      /\ \A i \in DOMAIN d.scns \ {0} : b.scns[i] = d.scns[i]
  BY ONLY <1>0, b = Counted(w, d), CountedForm
<1>2. d.ehdr # None /\ MeansObject(d, m, p)
  BY <1>0, NoneIsNothing DEF Means
<1>4. PhMeant(b, p)
  BY <1>1, <1>2 DEF MeansObject, PhMeant
<1>5. ScnsMeant(b, m)
  BY <1>1, <1>2 DEF MeansObject, ScnsMeant
<1>6. Full(b) /\ Sections(b) = Sections(d)
  BY <1>1 DEF Full, Sections
<1>7. MeansObject(b, m, p)
  <2>1. b.layout /\ b.nscn = 0 => b.ehdr.shoff = 0
    BY <1>1, <1>2 DEF MeansObject
  <2> QED
    BY <1>1, <1>2, <1>4, <1>5, <1>6, <2>1 DEF MeansObject
<1>8. b.ehdr # None
  BY <1>11, NoneIsNothing
<1>12. b.ehdr = CountsIn(w, d)
  <2> DEFINE h == CountsIn(w, d)
             t == IF Extended(d) THEN Allocate(d, 0, CountsInZeroth(d)).scns ELSE d.scns
  <2> HIDE DEF h, t
  <2>1. b = [d EXCEPT !.ehdr = h, !.scns = t]
    BY DEF Counted, h, t
  <2>2. b.ehdr = h
    BY <1>0, <2>1 DEF Opens, Descs
  <2> QED
    BY <2>2 DEF h
<1>13. Means(b, m, p)
  BY <1>7, <1>8 DEF Means
<1> QED
  BY <1>6, <1>9, <1>10, <1>11, <1>12, <1>13

\* What elf_update has laid out, before the counts go to the headers
Ready(c, w, m, p, ph, sh) ==
  /\ w \in Readies(c) /\ w.how = "ok" /\ Shaped(w.e) /\ Means(w.e, m, p) /\ ~w.e.misread
  /\ AtTable(w, ph, sh)

LEMMA ResyncMeant ==
  ASSUME NEW d \in Opens, Shaped(d), CanRead(d), NEW m, NEW p, Means(d, m, p),
         NEW r, r = Resync(d), ~r.e.misread
  PROVE  /\ Means(r.e, m, p)
         /\ r.how = "ok" =>
              \E w : \E ph, sh \in Nat : Ready(d.cmd, w, m, p, ph, sh) /\ r = SetCounts(w)
<1> DEFINE c == d.cmd
           h == WithEhdr(Work(d))
           a == Insert(h, "ehdr", 0, 0, EhdrSize)
           q == ResyncPhdr(a)
           t == WithShdrs(q)
           s == ResyncSections(t)
           w == ResyncShdr(s)
<1>0. r = SetCounts(w)
  BY DEF Resync
<1>0a. t = WithShdrs(q)
  OBVIOUS
<1>0b. a = Insert(h, "ehdr", 0, 0, EhdrSize)
  OBVIOUS
<1>0c. q = ResyncPhdr(a)
  OBVIOUS
<1>0d. s = ResyncSections(t)
  OBVIOUS
<1>0e. w = ResyncShdr(s)
  OBVIOUS
<1>1. /\ h \in Readies(c) /\ h \in Goods(c) /\ h.rc = 0 /\ h.ext = <<>> /\ Shaped(h.e)
      /\ h.e \in Opens /\ HeaderSeen(d, h)
  <2>1. /\ Work(d) \in Goods(c) /\ Work(d).rc = 0 /\ Work(d).e = d /\ Work(d).how = "ok"
        /\ Work(d).ext = <<>>
    BY WorkType DEF Work
  <2>2. h \in Readies(c) /\ h.rc = 0 /\ h.ext = <<>>
    BY <2>1, WithEhdrType, HeadersPlaceNothing, HeaderExtends
  <2>3. Shaped(h.e)
    BY <2>1, EhdrShapes
  <2>4. HeaderSeen(d, h)
    BY <2>1, EhdrGives
  <2> HIDE DEF h
  <2> QED
    BY <2>2, <2>3, <2>4 DEF Readies, Goods, Works
<1> HIDE DEF h
<1>2. /\ a \in Readies(c) /\ a.e = h.e /\ (a.how = "ok" => h.how = "ok")
      /\ (h.how # "ok" => a = h)
  <2>1. a \in Goods(c) /\ a.e = h.e
    <3> HIDE DEF a
    <3>1. /\ h \in Goods(c) /\ "ehdr" \in {"ehdr", "phdr", "shdr", "scn"}
          /\ 0 \in Nat /\ EhdrSize \in Nat /\ 0 >= h.rc /\ "ehdr" # "scn"
      BY <1>1, Sizes
    <3>2. Insert(h, "ehdr", 0, 0, EhdrSize) \in Goods(c) /\ Insert(h, "ehdr", 0, 0, EhdrSize).e = h.e
      BY ONLY <3>1, InsertType
    <3> QED
      BY <1>0b, <3>2
  <2>2. h.how # "ok" => a = h
    <3>1. h \in Works
      BY <1>1 DEF Goods
    <3> QED
      BY <3>1, InsertFrame
  <2> HIDE DEF a
  <2> QED
    BY <1>1, <2>1, <2>2 DEF Readies
<1> HIDE DEF a
<1>3. /\ q \in Readies(c) /\ Shaped(q.e) /\ SameShape(a.e, q.e)
  <2>1. q \in Readies(c)
    BY <1>2, ResyncPhdrType
  <2>2. q.e = a.e \/ (PhdrSeen(a.e, WithPhdr(a)) /\ q.e = WithPhdr(a).e)
    BY <1>2, ResyncPhdrGives
  <2>3. a.e \in Opens
    BY <1>1, <1>2
  <2>4. SameShape(a.e, q.e)
    <3>1. SameShape(a.e, a.e)
      BY OnlySectionsTwice, SameShapeShaped
    <3> QED
      BY <2>2, <2>3, <3>1, PhdrShape
  <2> HIDE DEF q
  <2> QED
    BY <1>1, <1>2, <2>1, <2>4, SameShapeShaped
<1>3a. a.how # "ok" => q = a
  BY <1>2, NothingMore
<1> HIDE DEF q
<1>4. t \in Readies(c) /\ Shaped(t.e) /\ (q.how # "ok" => t = q)
  BY <1>3, OpenedType, ShdrsShape, NothingMore
<1> HIDE DEF t
<1>5. s \in Readies(c) /\ Shaped(s.e) /\ OnlySections(t.e, s.e) /\ (t.how # "ok" => s = t)
  BY <1>4, ResyncSectionsType, SectionsShape, SameShapeShaped, NothingMore
<1> HIDE DEF s
<1>6. w \in Readies(c) /\ Shaped(w.e) /\ w.e = s.e /\ (s.how # "ok" => w = s)
  BY <1>5, ResyncShdrType, ResyncShdrGives, NothingMore
<1> HIDE DEF w
<1>7. SameShape(w.e, r.e) /\ (w.how # "ok" => r = w)
  BY <1>0, <1>6, CountsShape, NothingMore
<1>8. ~w.e.misread /\ ~s.e.misread /\ ~t.e.misread
  BY <1>5, <1>6, <1>7 DEF SameShape, OnlySections
<1>9. CASE h.how # "ok"
  <2>1. a = h
    BY <1>2, <1>9
  <2>2. r.e = h.e /\ r.how # "ok"
    BY <1>3a, <1>4, <1>5, <1>6, <1>7, <1>9, <2>1
  <2>3. Means(h.e, m, p)
    BY <1>1, <2>2, HeaderMeant
  <2> QED
    BY <2>2, <2>3
<1>10. CASE h.how = "ok"
  <2>1. ~q.e.misread /\ ~a.e.misread
    <3>1. q.how = "ok" => t.e.misread = q.e.misread
      BY <1>0a, <1>3, ShdrsPlaceNothing
    <3>2. ~q.e.misread
      BY <1>4, <1>8, <3>1 
    <3> QED
      BY <1>3, <3>2 DEF SameShape
  <2>2. Means(a.e, m, p)
    BY <1>1, <1>2, <2>1, HeaderMeant
  <2>3. Means(q.e, m, p) /\ (q.how = "ok" => \E ph \in Nat : AtPhdrs(q, ph))
    <3>1. CASE a.how # "ok"
      BY <1>3a, <2>2, <3>1
    <3>2. CASE a.how = "ok"
      <4>1. AtHeader(a)
        BY <1>0b, <1>1, <1>10, <3>2, HeaderPlaced
      <4> QED
        BY <1>0c, <1>2, <2>2, <3>2, <4>1, PhdrsPlaced
    <3> QED
      BY <3>1, <3>2
  <2>4. Means(t.e, m, p) /\ (t.how = "ok" => Full(t.e) /\ \E ph \in Nat : AtPhdrs(t, ph))
    <3>1. CASE q.how # "ok"
      BY <1>4, <2>3, <3>1
    <3>2. CASE q.how = "ok"
      <4>1. Means(t.e, m, p) /\ (t.how = "ok" => Full(t.e))
        BY <1>0a, <1>3, <2>3, <3>2, ShdrsMeant
      <4>2. t.how = "ok" => \A ph : AtPhdrs(q, ph) => AtPhdrs(t, ph)
        BY <1>0a, <1>3, <3>2, ShdrsPlaceNothing
      <4> QED
        BY <2>3, <3>2, <4>1, <4>2
    <3> QED
      BY <3>1, <3>2
  <2>5. Means(s.e, m, p) /\ (s.how = "ok" => \E ph \in Nat : AtSections(s, ph))
    <3>1. CASE t.how # "ok"
      BY <1>5, <2>4, <3>1
    <3>2. CASE t.how = "ok"
      <4>1. Means(s.e, m, p) /\ \A ph : s.how = "ok" /\ AtPhdrs(t, ph) /\ Full(t.e) => AtSections(s, ph)
        BY <1>0d, <1>4, <1>8, <2>4, <3>2, SectionsPlaced
      <4> QED
        BY <2>4, <3>2, <4>1
    <3> QED
      BY <3>1, <3>2
  <2>6. Means(w.e, m, p) /\ (w.how = "ok" => \E ph, sh \in Nat : AtTable(w, ph, sh))
    <3>1. Means(w.e, m, p)
      BY <1>6, <2>5
    <3>2. ASSUME w.how = "ok" PROVE \E ph, sh \in Nat : AtTable(w, ph, sh)
      <4>1. s.how = "ok"
        BY <1>6, <3>2
      <4>2. PICK ph \in Nat : AtSections(s, ph)
        BY <2>5, <4>1
      <4>3. \E sh \in Nat : AtTable(w, ph, sh)
        BY <1>0e, <1>5, <3>2, <4>2, TablePlaced
      <4> QED
        BY <4>3
    <3> QED
      BY <3>1, <3>2
  <2>7. CASE w.how # "ok"
    BY <1>7, <2>6, <2>7
  <2>8. CASE w.how = "ok"
    <3>1. PICK ph, sh \in Nat : AtTable(w, ph, sh)
      BY <2>6, <2>8
    <3>2. Ready(c, w, m, p, ph, sh)
      BY <1>6, <1>8, <2>6, <2>8, <3>1 DEF Ready
    <3>3. Means(r.e, m, p)
      <4>1. Full(w.e) /\ (w.e.nphdr # 0 => w.e.phdr # None)
        BY <3>1 DEF AtTable
      <4> QED
        BY <1>0, <1>6, <2>6, <2>8, <4>1, CountsMeant
    <3> QED
      BY <1>0, <3>2, <3>3
  <2> QED
    BY <2>7, <2>8
<1> QED
  BY <1>9, <1>10

-----------------------------------------------------------------------------
(* The image holds the object *)

\* What the counts leave as it was.
LEMMA CountsLeave ==
  ASSUME NEW c, NEW w, NEW m, NEW p, NEW ph, NEW sh, Ready(c, w, m, p, ph, sh),
         NEW a, a = w.e, NEW v, v = SetCounts(w), NEW d, d = v.e
  PROVE  /\ v \in Readies(c) /\ v.how = "ok" /\ v.rc = w.rc /\ Placings(v) = Placings(w)
         /\ d \in Opens /\ d.ehdr = CountsIn(w, a) /\ d.ehdr \in Ehdrs
         /\ MeansObject(d, m, p) /\ Full(d) /\ Attained(v) /\ AllSettled(d)
         /\ d.layout = a.layout /\ d.cmd = a.cmd /\ d.raw = a.raw /\ d.rawsize = a.rawsize
         /\ d.nphdr = a.nphdr /\ d.nscn = a.nscn /\ d.phdr = a.phdr
         /\ d = Counted(w, a)
         /\ d.nscn # 0 => TableFilled(d, d.nscn)
         /\ ScnPlaces(d, MaxScns) = ScnPlaces(a, MaxScns)
         /\ d.nphdr # 0 => d.phdr # None
<1>1. /\ w \in Readies(c) /\ w.how = "ok" /\ Shaped(a) /\ Means(a, m, p) /\ ~a.misread
      /\ AtTable(w, ph, sh)
  BY DEF Ready
<1>2. /\ a \in Opens /\ a.ehdr \in Ehdrs
  BY <1>1 DEF Readies, Goods, Works
<1>3. Full(a) /\ AllSettled(a) /\ Attained(w) /\ (a.nphdr # 0 => a.phdr # None)
  BY <1>1 DEF AtTable
<1>4. PICK b : b = Counted(w, a)
  OBVIOUS
<1>5. /\ Means(b, m, p) /\ Full(b) /\ b.ehdr = CountsIn(w, a) /\ b.ehdr \in Ehdrs
      /\ v.e = b /\ v.how = "ok" /\ v.ext = w.ext /\ v.rc = w.rc /\ v \in Readies(c)
  BY <1>1, <1>3, <1>4, CountsMeant
<1>6. b = d
  BY <1>5
<1>7. /\ b.layout = a.layout /\ b.cmd = a.cmd /\ b.raw = a.raw /\ b.rawsize = a.rawsize
      /\ b.nphdr = a.nphdr /\ b.nscn = a.nscn /\ b.phdr = a.phdr
      /\ DOMAIN a.scns \subseteq DOMAIN b.scns /\ DOMAIN b.scns \subseteq DOMAIN a.scns \cup {0}
      /\ \A i \in DOMAIN a.scns \ {0} : b.scns[i] = a.scns[i]
  BY ONLY <1>2, <1>4, CountedForm
<1>8. Placings(v) = Placings(w) /\ Attained(v)
  BY <1>3, <1>5 DEF Placings, Attained
<1>9. d \in Opens
  BY <1>5 DEF Readies, Goods, Works
<1>10. MeansObject(d, m, p)
  <2>1. d.ehdr # None
    BY <1>5, <1>6, NoneIsNothing
  <2> QED
    BY <1>5, <1>6, <2>1 DEF Means
<1>11. AllSettled(d)
  BY <1>3, <1>6, <1>7 DEF AllSettled
<1>12. ASSUME d.nscn # 0 PROVE TableFilled(d, d.nscn)
  <2>1. d.nscn \in Nat /\ d.nscn <= MaxScns + 1
    BY <1>1, <1>6, <1>7, <1>9 DEF Shaped, Opens, Descs
  <2>2. 0 \in 0..d.nscn - 1 /\ 0..d.nscn - 1 = {0} \cup 1..d.nscn - 1
    BY <1>12, <2>1
  <2>3. DOMAIN d.scns \subseteq 0..d.nscn - 1
    BY <1>1, <1>6, <1>7, <2>2 DEF Shaped
  <2>4. 0..d.nscn - 1 \subseteq DOMAIN d.scns
    BY <1>5, <1>6 DEF Full
  <2> QED
    BY <2>1, <2>3, <2>4 DEF TableFilled
<1>13. ScnPlaces(d, MaxScns) = ScnPlaces(a, MaxScns)
  <2>1. \A j \in 1..MaxScns : (Fills(d, j) <=> Fills(a, j)) /\ (Fills(d, j) => ScnPlace(d, j) = ScnPlace(a, j))
    BY <1>6, <1>7 DEF Fills, ScnPlace
  <2> QED
    BY <2>1 DEF ScnPlaces
<1> QED
  BY <1>3, <1>4, <1>5, <1>6, <1>7, <1>8, <1>9, <1>10, <1>11, <1>12, <1>13

LEMMA AllStand ==
  ASSUME NEW c, NEW w, NEW m, NEW p, NEW ph, NEW sh, Ready(c, w, m, p, ph, sh),
         NEW v, v = SetCounts(w), NEW d, d = v.e, NEW x \in Placings(v)
  PROVE  Stands(d, x)
<1> DEFINE a == w.e
<1>1. /\ Placings(v) = Placings(w) /\ d \in Opens
      /\ MeansObject(d, m, p) /\ AllSettled(d)
      /\ d.layout = a.layout /\ d.nphdr = a.nphdr /\ d.nscn = a.nscn
      /\ d.nscn # 0 => TableFilled(d, d.nscn)
      /\ ScnPlaces(d, MaxScns) = ScnPlaces(a, MaxScns)
      /\ d.nphdr # 0 => d.phdr # None
  BY CountsLeave
<1>2. x \in {EhdrPlace} \cup PhdrPlaces(d, ph) \cup ScnPlaces(d, MaxScns) \cup ShdrPlaces(d, sh)
  <2>1. Placings(w) = {EhdrPlace} \cup PhdrPlaces(a, ph) \cup ScnPlaces(a, MaxScns)
                   \cup ShdrPlaces(a, sh)
    BY DEF Ready, AtTable
  <2> QED
    BY <1>1, <2>1 DEF PhdrPlaces, ShdrPlaces
<1> HIDE DEF a
<1>3. CASE x = EhdrPlace
  BY <1>3 DEF EhdrPlace, Stands
<1>4. CASE x \in PhdrPlaces(d, ph)
  <2>1. d.nphdr # 0 /\ x = [kind |-> "phdr", ndx |-> 0, start |-> ph, size |-> d.nphdr * PhdrSize]
    BY <1>4 DEF PhdrPlaces, TablePlaces
  <2>2. HasPhdrs(d, x)
    BY <1>1, <2>1 DEF MeansObject, PhMeant, HasPhdrs
  <2> QED
    BY <2>1, <2>2 DEF Stands
<1>5. CASE x \in ScnPlaces(d, MaxScns)
  <2>1. PICK j \in 1..MaxScns : Fills(d, j) /\ x = ScnPlace(d, j)
    BY <1>5 DEF ScnPlaces
  <2> DEFINE s == d.scns[j]
  <2>2. /\ j \in DOMAIN d.scns /\ s.type = "progbits" /\ x.kind = "scn" /\ x.ndx = j
        /\ x.start = s.soff /\ x.size = s.ssize
    BY <2>1 DEF Fills, ScnPlace
  <2>3. s \in Scns
    BY <1>1, <2>2, ScnOf
  <2>4. Settled(d.layout, s)
    BY <1>1, <2>2 DEF AllSettled
  <2>5. ScnMeant(d.layout, d.raw, s, m[j])
    BY <1>1, <2>2 DEF MeansObject, ScnsMeant
  <2>6. HasScn(d, s, x)
    <3>1. s.data # <<>> => \A k \in 1..Len(s.data) : Clean(s.data[k].units)
      BY <2>2, <2>5 DEF ScnMeant, JoinMeant
    <3>2. d.raw \in Seq(Unit) => Clean(d.raw)
      BY <1>1 DEF MeansObject
    <3> HIDE DEF s
    <3> QED
      BY <2>2, <2>3, <2>4, <3>1, <3>2 DEF HasScn, Settled
  <2> QED
    BY <2>2, <2>6 DEF Stands
<1>6. CASE x \in ShdrPlaces(d, sh)
  <2>1. d.nscn # 0 /\ x = [kind |-> "shdr", ndx |-> 0, start |-> sh, size |-> d.nscn * ShdrSize]
    BY <1>6 DEF ShdrPlaces, TablePlaces
  <2> QED
    BY <1>1, <2>1 DEF Stands
<1> QED
  BY <1>2, <1>3, <1>4, <1>5, <1>6

LEMMA ImageHolds ==
  ASSUME NEW c, NEW w, NEW m, NEW p, NEW ph, NEW sh, Ready(c, w, m, p, ph, sh),
         NEW v, v = SetCounts(w), NEW d, d = v.e,
         NEW r, r = Image(v), r.how = "ok", NEW f, f = r.img
  PROVE  f \in Seq(Unit) /\ Clean(f) /\ \A x \in Placings(v) : RightAt(d, x, f)
<1>1. v \in Readies(c) /\ v.how = "ok" /\ Attained(v)
  BY CountsLeave
<1>2. \A j \in 1..Len(v.ext) : Stands(d, v.ext[j])
  <2>1. \A j \in 1..Len(v.ext) : v.ext[j] \in Placings(v)
    BY DEF Placings
  <2> QED
    BY <2>1, AllStand
<1>3. \E j \in 1..Len(v.ext) : v.rc <= Ends(v.ext[j])
  BY <1>1 DEF Attained, Placings
<1>4. /\ r.img \in Seq(Unit) /\ Clean(r.img)
      /\ \A j \in 1..Len(v.ext) : RightAt(d, v.ext[j], r.img)
  BY ONLY <1>1, <1>2, <1>3, d = v.e, r = Image(v), r.how = "ok", ImageWritten
<1> QED
  BY <1>4 DEF Placings

LEMMA StartOf ==
  ASSUME NEW w, NEW kind, NEW start \in Nat, NEW n, NEW size,
         {x \in Placings(w) : x.kind = kind} = TablePlaces(kind, start, n, size)
  PROVE  TableStart(w, kind) = IF n = 0 THEN 0 ELSE start
<1> DEFINE A == {w.ext[k].start : k \in {i \in 1..Len(w.ext) : w.ext[i].kind = kind}}
           P == {x \in Placings(w) : x.kind = kind}
<1>1. ASSUME NEW y \in A PROVE \E x \in P : y = x.start
  BY DEF Placings
<1>2. ASSUME NEW x \in P PROVE x.start \in A
  BY DEF Placings
<1>3. TableStart(w, kind) = MaxOf({0} \cup A)
  BY DEF TableStart
<1>4. P = TablePlaces(kind, start, n, size)
  OBVIOUS
<1> HIDE DEF A, P
<1>5. CASE n = 0
  <2>1. P = {}
    BY <1>4, <1>5 DEF TablePlaces
  <2>2. {0} \cup A = {0} \cup {0}
    BY <1>1, <2>1
  <2> QED
    BY <1>3, <1>5, <2>2, GreatestOne
<1>6. CASE n # 0
  <2> DEFINE x == [kind |-> kind, ndx |-> 0, start |-> start, size |-> n * size]
  <2>1. P = {x}
    BY <1>4, <1>6 DEF TablePlaces
  <2>2. x.start = start
    OBVIOUS
  <2> HIDE DEF x
  <2>3. A = {start}
    BY <1>1, <1>2, <2>1, <2>2
  <2> QED
    BY <1>3, <1>6, <2>3, GreatestOne
<1> QED
  BY <1>5, <1>6

LEMMA TablesAt ==
  ASSUME NEW c, NEW w, NEW m, NEW p, NEW ph \in Nat, NEW sh \in Nat,
         Ready(c, w, m, p, ph, sh),
         NEW v, v = SetCounts(w), NEW d, d = v.e
  PROVE  /\ d.nphdr # 0 => /\ d.ehdr.phoff = ph
                           /\ [kind |-> "phdr", ndx |-> 0, start |-> ph,
                               size |-> d.nphdr * PhdrSize] \in Placings(v)
         /\ d.nscn # 0 => /\ d.ehdr.shoff = sh /\ sh > 0
                          /\ [kind |-> "shdr", ndx |-> 0, start |-> sh,
                              size |-> d.nscn * ShdrSize] \in Placings(v)
         /\ d.nscn = 0 => d.ehdr.shoff = 0
         /\ EhdrPlace \in Placings(v) /\ ScnPlaces(d, MaxScns) \subseteq Placings(v)
<1> DEFINE a == w.e
<1>1. /\ Placings(v) = Placings(w) /\ d \in Opens /\ v \in Readies(c)
      /\ MeansObject(d, m, p) /\ d.ehdr = CountsIn(w, a) /\ d.ehdr \in Ehdrs
      /\ d.layout = a.layout /\ d.nphdr = a.nphdr /\ d.nscn = a.nscn
      /\ ScnPlaces(d, MaxScns) = ScnPlaces(a, MaxScns)
  BY CountsLeave
<1>2. AtTable(w, ph, sh)
  BY DEF Ready
<1>3. Placings(w) = {EhdrPlace} \cup PhdrPlaces(d, ph) \cup ScnPlaces(d, MaxScns)
                   \cup ShdrPlaces(d, sh)
  BY <1>1, <1>2 DEF AtTable, PhdrPlaces, ShdrPlaces
<1>4. /\ d.nphdr # 0 /\ d.layout => ph = a.ehdr.phoff
      /\ d.nscn # 0 /\ d.layout => sh = a.ehdr.shoff
  BY <1>1, <1>2 DEF AtTable
<1>5. /\ d.ehdr.phoff = IF d.layout THEN a.ehdr.phoff ELSE TableStart(w, "phdr")
      /\ d.ehdr.shoff = IF d.layout THEN a.ehdr.shoff ELSE TableStart(w, "shdr")
  BY <1>1 DEF CountsIn
<1> HIDE DEF a
<1>6. /\ \A x \in ScnPlaces(d, MaxScns) : x.kind = "scn"
      /\ \A x \in PhdrPlaces(d, ph) : x.kind = "phdr"
      /\ \A x \in ShdrPlaces(d, sh) : x.kind = "shdr"
      /\ EhdrPlace.kind = "ehdr"
  BY DEF ScnPlaces, ScnPlace, PhdrPlaces, ShdrPlaces, TablePlaces, EhdrPlace
<1>7. /\ {x \in Placings(w) : x.kind = "phdr"} = PhdrPlaces(d, ph)
      /\ {x \in Placings(w) : x.kind = "shdr"} = ShdrPlaces(d, sh)
  BY <1>3, <1>6
<1>8. /\ TableStart(w, "phdr") = IF d.nphdr = 0 THEN 0 ELSE ph
      /\ TableStart(w, "shdr") = IF d.nscn = 0 THEN 0 ELSE sh
  BY <1>7, StartOf DEF PhdrPlaces, ShdrPlaces
<1>9. ASSUME d.nphdr # 0
      PROVE  /\ d.ehdr.phoff = ph
             /\ [kind |-> "phdr", ndx |-> 0, start |-> ph,
                 size |-> d.nphdr * PhdrSize] \in Placings(v)
  BY <1>1, <1>3, <1>4, <1>5, <1>8, <1>9 DEF PhdrPlaces, TablePlaces
<1>10. d.nscn = 0 => d.ehdr.shoff = 0
  <2>1. d.layout /\ d.nscn = 0 => d.ehdr.shoff = 0
    BY <1>1 DEF MeansObject
  <2> QED
    BY <1>5, <1>8, <2>1
<1>11. ASSUME d.nscn # 0
       PROVE  /\ d.ehdr.shoff = sh /\ sh > 0
              /\ [kind |-> "shdr", ndx |-> 0, start |-> sh,
                  size |-> d.nscn * ShdrSize] \in Placings(v)
  <2> DEFINE x == [kind |-> "shdr", ndx |-> 0, start |-> sh, size |-> d.nscn * ShdrSize]
  <2>1. d.ehdr.shoff = sh /\ x \in Placings(v)
    BY <1>1, <1>3, <1>4, <1>5, <1>8, <1>11 DEF ShdrPlaces, TablePlaces
  <2>2. PICK j \in 1..Len(v.ext) : v.ext[j] = x
    BY <2>1 DEF Placings
  <2>9. EhdrPlace \in Placings(v)
    BY <1>1, <1>3
  <2>3. PICK k \in 1..Len(v.ext) : v.ext[k] = EhdrPlace
    BY <2>9 DEF Placings
  <2>4. j # k
    BY <1>6, <2>2, <2>3
  <2>5. Ends(v.ext[j]) <= v.ext[k].start \/ Ends(v.ext[k]) <= v.ext[j].start
    <3>1. Ascending(v.ext) /\ Len(v.ext) \in Nat
      BY <1>1 DEF Readies, Goods, Works
    <3>2. j < k \/ k < j
      BY <2>4, <3>1
    <3> QED
      BY <3>1, <3>2 DEF Ascending
  <2>6. d.nscn * ShdrSize \in Nat /\ d.nscn * ShdrSize > 0
    <3>1. d.nscn \in Nat /\ 0 < d.nscn
      BY <1>1, <1>11 DEF Opens, Descs
    <3>2. 0 * ShdrSize + ShdrSize <= d.nscn * ShdrSize /\ d.nscn * ShdrSize \in Nat /\ 0 * ShdrSize = 0
      BY <3>1, Sizes, TableFits
    <3> QED
      BY <3>2, Sizes
  <2>7. /\ Ends(EhdrPlace) = EhdrSize /\ EhdrPlace.start = 0
        /\ Ends(x) = sh + d.nscn * ShdrSize /\ x.start = sh
    BY Sizes DEF Ends, EhdrPlace
  <2> HIDE DEF x
  <2>8. sh > 0
    BY <2>2, <2>3, <2>5, <2>6, <2>7, Sizes
  <2> QED
    BY <2>1, <2>8 DEF x
<1>12. EhdrPlace \in Placings(v) /\ ScnPlaces(d, MaxScns) \subseteq Placings(v)
  BY <1>1, <1>3
<1> QED
  BY <1>9, <1>10, <1>11, <1>12

\* A header is where it was written.
LEMMA FirstUnit ==
  ASSUME NEW f, NEW off, NEW n, Region(f, off, n), n > 0,
         NEW kind, NEW fields, <<kind, fields>> \in Unit, kind # "junk",
         Bytes(f, off, n) = Header(kind, fields, n)
  PROVE  f[off + 1] = <<kind, fields>>
<1>1. n \in Nat /\ 1 \in 1..n
  BY DEF Region
<1>2. Bytes(f, off, n)[1] = f[off + 1]
  BY <1>1, RegionGives
<1>3. Header(kind, fields, n)[1] = <<kind, fields>>
  BY <1>1, HeaderClean
<1> QED
  BY <1>2, <1>3

-----------------------------------------------------------------------------
(* The image, read as a file *)

\* The contents of buffers are joined in one way.
LEMMA JoinedOnce ==
  ASSUME NEW data \in DataLists, NEW g, Joined(data, g), NEW h, Joined(data, h),
         NEW n, n = Len(data)
  PROVE  g[n] = h[n]
<1> DEFINE S == {k \in 0..n : g[k] = h[k]}
<1>1. n \in Nat
  BY DEF DataLists
<1>2. 0 \in S
  BY <1>1 DEF Joined
<1>3. ASSUME NEW i \in 1..n, i - 1 \in S PROVE i \in S
  <2>1. g[i] = g[i - 1] \o data[i].units
    BY DEF Joined
  <2>2. h[i] = h[i - 1] \o data[i].units
    BY DEF Joined
  <2>3. g[i - 1] = h[i - 1] /\ i \in 0..n
    BY <1>1, <1>3
  <2>4. g[i] = h[i]
    BY ONLY <2>1, <2>2, <2>3
  <2> QED
    BY ONLY <2>3, <2>4 DEF S
<1> HIDE DEF S
<1>4. 0..n \subseteq S
  BY ONLY <1>1, <1>2, <1>3, Steps
<1> QED
  BY <1>1, <1>4 DEF S

\* Buffers that take no room are empty.
LEMMA JoinedEmpty ==
  ASSUME NEW data \in DataLists, NEW g, Joined(data, g), Extent(data) <= 0,
         NEW n, n = Len(data)
  PROVE  g[n] = <<>>
<1> DEFINE S == {k \in 0..n : g[k] = <<>>}
<1>1. n \in Nat
  BY DEF DataLists
<1>2. 0 \in S
  BY <1>1 DEF Joined
<1>3. ASSUME NEW i \in 1..n, i - 1 \in S PROVE i \in S
  <2> DEFINE u == data[i].units
             at == data[i].off
  <2>0. data[i] \in Datum
    BY <1>1 DEF DataLists
  <2>1. u \in Seq(Unit) /\ at \in Nat
    BY <2>0 DEF Datum
  <2>2. at + Len(u) <= Extent(data) /\ Extent(data) \in Nat
    BY <1>1, ExtentCovers, ExtentType
  <2>3. g[i] = g[i - 1] \o u /\ g[i - 1] = <<>>
    BY <1>1, <1>3 DEF Joined
  <2> HIDE DEF u, at
  <2>4. Len(u) \in Nat
    BY <2>1
  <2>5. 0 = Len(u)
    BY <2>1, <2>2, <2>4
  <2>6. u = <<>>
    BY <2>1, <2>5, EmptyOne
  <2>7. <<>> \o <<>> = <<>>
    BY Joins
  <2> QED
    BY <1>1, <2>3, <2>6, <2>7
<1> HIDE DEF S
<1>4. 0..n \subseteq S
  BY ONLY <1>1, <1>2, <1>3, Steps
<1> QED
  BY <1>1, <1>4 DEF S

\* The contents of a section that have been written are what the client means.
LEMMA ContentsMeant ==
  ASSUME NEW layout, NEW d, NEW raw, raw = d.raw, NEW s \in Scns, s.type = "progbits",
         s.size > 0, NEW m, ScnMeant(layout, raw, s, m), NEW b, ContentsThere(d, s, b)
  PROVE  Alike(b, m)
<1>1. CASE s.data = <<>>
  <2>1. Region(raw, s.rawoff, s.size) /\ b = Bytes(raw, s.rawoff, s.size)
    BY <1>1 DEF ContentsThere
  <2>2. raw # Gone
    BY <2>1, NoneIsNothing DEF Region
  <2> QED
    BY <1>1, <2>1, <2>2 DEF ScnMeant
<1>2. CASE s.data # <<>>
  <2> DEFINE n == Len(s.data)
  <2>1. PICK g : Joined(s.data, g) /\ Alike(b, g[n])
    BY <1>2 DEF ContentsThere
  <2>2. PICK h : Joined(s.data, h) /\ Alike(h[n], m)
    BY <1>2 DEF ScnMeant, JoinMeant
  <2>3. s.data \in DataLists
    BY DEF Scns
  <2>4. g[n] = h[n]
    BY ONLY <2>1, <2>2, <2>3, JoinedOnce
  <2> HIDE DEF n
  <2> QED
    BY <2>1, <2>2, <2>4, AlikeProperties
<1> QED
  BY <1>1, <1>2

\* A section that takes no room means nothing.
LEMMA NothingMeant ==
  ASSUME NEW layout, NEW raw, NEW s \in Scns, NEW m, ScnMeant(layout, raw, s, m),
         s.type = "progbits" => Settled(layout, s) /\ s.size = 0
  PROVE  m = <<>>
<1>1. CASE s.type # "progbits"
  BY <1>1 DEF ScnMeant
<1>2. CASE s.type = "progbits" /\ s.data = <<>>
  BY <1>2 DEF ScnMeant
<1>3. CASE s.type = "progbits" /\ s.data # <<>>
  <2> DEFINE n == Len(s.data)
  <2>1. s.data \in DataLists
    BY DEF Scns
  <2>2. Extent(s.data) <= 0
    BY <1>3 DEF Settled
  <2>3. PICK h : Joined(s.data, h) /\ Alike(h[n], m)
    BY <1>3 DEF ScnMeant, JoinMeant
  <2>4. h[n] = <<>>
    BY <2>1, <2>2, <2>3, JoinedEmpty
  <2> HIDE DEF n
  <2> QED
    BY <2>3, <2>4, AlikeProperties
<1> QED
  BY <1>1, <1>2, <1>3

\* The file f is the object d: the header, the tables and the sections.
TopIn(d, f) == f \in Seq(Unit) /\ Clean(f) /\ Len(f) >= EhdrSize /\ f[1] = <<"ehdr", d.ehdr>>
PhdrsIn(d, f) ==
  d.nphdr # 0 => /\ Region(f, d.ehdr.phoff, d.nphdr * PhdrSize)
                 /\ Bytes(f, d.ehdr.phoff, d.nphdr * PhdrSize) = d.phdr
ShdrsIn(d, f) ==
  /\ d.nscn # 0 => /\ d.ehdr.shoff > 0 /\ Len(f) >= d.ehdr.shoff + d.nscn * ShdrSize
                   /\ \A i \in 0..d.nscn - 1 :
                        f[d.ehdr.shoff + i * ShdrSize + 1] = <<"shdr", Shdr(d.scns[i])>>
  /\ d.nscn = 0 => d.ehdr.shoff = 0
ScnIn(d, s, f) == Region(f, s.soff, s.ssize) /\ ContentsThere(d, s, Bytes(f, s.soff, s.ssize))
ScnsIn(d, f) == \A j \in 1..MaxScns : Fills(d, j) => ScnIn(d, d.scns[j], f)

LEMMA ShdrUnits ==
  \A s \in Scns : Shdr(s) \in Shdrs /\ <<"shdr", Shdr(s)>> \in Unit
BY DEF Scns, Kinds, Shdr, Shdrs, Unit

LEMMA TopThere ==
  ASSUME NEW d, d.ehdr \in Ehdrs, NEW f \in Seq(Unit), Clean(f), RightAt(d, EhdrPlace, f)
  PROVE  TopIn(d, f)
<1> DEFINE h == d.ehdr
<1>1. /\ Region(f, 0, EhdrSize) /\ Bytes(f, 0, EhdrSize) = Header("ehdr", h, EhdrSize)
  BY DEF RightAt, EhdrPlace
<1>2. <<"ehdr", h>> \in Unit
  BY DEF Unit
<1>3. f[0 + 1] = <<"ehdr", h>>
  <2> HIDE DEF h
  <2> QED
    BY <1>1, <1>2, Sizes, FirstUnit
<1>4. Len(f) >= EhdrSize
  BY <1>1, Sizes DEF Region
<1> QED
  BY <1>3, <1>4 DEF TopIn

LEMMA PhdrsThere ==
  ASSUME NEW d, NEW f, d.nphdr # 0,
         NEW x, x = [kind |-> "phdr", ndx |-> 0, start |-> d.ehdr.phoff,
                     size |-> d.nphdr * PhdrSize],
         RightAt(d, x, f)
  PROVE  PhdrsIn(d, f)
<1>1. x.kind = "phdr" /\ x.start = d.ehdr.phoff /\ x.size = d.nphdr * PhdrSize
  OBVIOUS
<1>2. Region(f, x.start, x.size) /\ Bytes(f, x.start, x.size) = d.phdr
  BY <1>1 DEF RightAt
<1> QED
  BY <1>1, <1>2 DEF PhdrsIn

LEMMA ShdrsThere ==
  ASSUME NEW d \in Opens, NEW f, d.nscn # 0, TableFilled(d, d.nscn),
         NEW sh \in Nat, sh > 0, d.ehdr.shoff = sh,
         NEW x, x = [kind |-> "shdr", ndx |-> 0, start |-> sh, size |-> d.nscn * ShdrSize],
         RightAt(d, x, f)
  PROVE  ShdrsIn(d, f)
<1> DEFINE n == d.nscn
<1>1. x.kind = "shdr" /\ x.start = sh /\ x.size = n * ShdrSize
  OBVIOUS
<1>2. Region(f, sh, n * ShdrSize) /\ \A i \in 0..n - 1 : HeaderThere(d, x, f, i)
  BY <1>1 DEF RightAt
<1>3. Len(f) >= sh + n * ShdrSize
  BY <1>2 DEF Region
<1>4. ASSUME NEW i \in 0..n - 1
      PROVE  f[sh + i * ShdrSize + 1] = <<"shdr", Shdr(d.scns[i])>>
  <2> DEFINE off == sh + i * ShdrSize
             s == d.scns[i]
  <2>1. off = ShdrAtIndex(x, i)
    BY <1>1 DEF ShdrAtIndex
  <2>2. /\ Region(f, off, ShdrSize)
        /\ Bytes(f, off, ShdrSize) = Header("shdr", Shdr(s), ShdrSize)
    BY <1>2, <2>1 DEF HeaderThere
  <2>3. s \in Scns
    BY ScnOf DEF TableFilled
  <2>4. <<"shdr", Shdr(s)>> \in Unit
    BY <2>3, ShdrUnits
  <2> DEFINE h == Shdr(s)
  <2> HIDE DEF off, h
  <2>5. f[off + 1] = <<"shdr", h>>
    BY <2>2, <2>4, Sizes, FirstUnit DEF h
  <2> QED
    BY <2>5 DEF off, h
<1> QED
  BY <1>3, <1>4 DEF ShdrsIn

LEMMA ScnThere ==
  ASSUME NEW d, NEW f, NEW j, RightAt(d, ScnPlace(d, j), f)
  PROVE  ScnIn(d, d.scns[j], f)
<1> DEFINE x == ScnPlace(d, j)
<1>1. x.kind = "scn" /\ x.ndx = j /\ x.start = d.scns[j].soff /\ x.size = d.scns[j].ssize
  BY DEF ScnPlace
<1>2. /\ Region(f, x.start, x.size)
      /\ ContentsThere(d, d.scns[x.ndx], Bytes(f, x.start, x.size))
  BY <1>1 DEF RightAt
<1> QED
  BY <1>1, <1>2 DEF ScnIn

LEMMA ObjectThere ==
  ASSUME NEW c, NEW w, NEW m, NEW p, NEW ph \in Nat, NEW sh \in Nat,
         Ready(c, w, m, p, ph, sh),
         NEW v, v = SetCounts(w), NEW d, d = v.e,
         NEW r, r = Image(v), r.how = "ok", NEW f, f = r.img
  PROVE  TopIn(d, f) /\ PhdrsIn(d, f) /\ ShdrsIn(d, f) /\ ScnsIn(d, f)
<1>1. f \in Seq(Unit) /\ Clean(f) /\ \A x \in Placings(v) : RightAt(d, x, f)
  BY ImageHolds
<1>2. d \in Opens /\ d.ehdr \in Ehdrs /\ (d.nscn # 0 => TableFilled(d, d.nscn))
  BY CountsLeave
<1> DEFINE px == [kind |-> "phdr", ndx |-> 0, start |-> ph, size |-> d.nphdr * PhdrSize]
           sx == [kind |-> "shdr", ndx |-> 0, start |-> sh, size |-> d.nscn * ShdrSize]
<1>3. /\ d.nphdr # 0 => d.ehdr.phoff = ph /\ px \in Placings(v)
      /\ d.nscn # 0 => d.ehdr.shoff = sh /\ sh > 0 /\ sx \in Placings(v)
      /\ d.nscn = 0 => d.ehdr.shoff = 0
      /\ EhdrPlace \in Placings(v) /\ ScnPlaces(d, MaxScns) \subseteq Placings(v)
  BY TablesAt
<1>4. TopIn(d, f)
  BY <1>1, <1>2, <1>3, TopThere
<1>5. PhdrsIn(d, f)
  <2>1. CASE d.nphdr # 0
    <3>1. RightAt(d, px, f) /\ d.ehdr.phoff = ph
      BY <1>1, <1>3, <2>1
    <3> QED
      BY <2>1, <3>1, PhdrsThere
  <2> QED
    BY <2>1 DEF PhdrsIn
<1>6. ShdrsIn(d, f)
  <2>1. CASE d.nscn # 0
    <3>1. RightAt(d, sx, f) /\ d.ehdr.shoff = sh /\ sh > 0
      BY <1>1, <1>3, <2>1
    <3> QED
      BY <1>2, <2>1, <3>1, ShdrsThere
  <2> QED
    BY <1>3, <2>1 DEF ShdrsIn
<1>7. ASSUME NEW j \in 1..MaxScns, Fills(d, j) PROVE ScnIn(d, d.scns[j], f)
  <2>1. ScnPlace(d, j) \in Placings(v)
    BY <1>3, <1>7 DEF ScnPlaces
  <2> QED
    BY <1>1, <2>1, ScnThere
<1> QED
  BY <1>4, <1>5, <1>6, <1>7 DEF ScnsIn

\* The counts, as the headers have them
Numbered(d) ==
  /\ d.ehdr.phnum = IF d.nphdr >= PnXnum THEN PnXnum ELSE d.nphdr
  /\ d.ehdr.shnum = IF d.nscn >= LoReserve THEN 0 ELSE d.nscn
  /\ d.nscn >= LoReserve => d.scns[0].size = d.nscn
  /\ d.nphdr >= PnXnum => d.scns[0].info = d.nphdr

LEMMA IsNumbered ==
  ASSUME NEW c, NEW w, NEW m, NEW p, NEW ph, NEW sh, Ready(c, w, m, p, ph, sh),
         NEW v, v = SetCounts(w), NEW d, d = v.e
  PROVE  Numbered(d)
<1> DEFINE a == w.e
           z == CountsInZeroth(a)
<1>1. /\ d.ehdr = CountsIn(w, a) /\ d.nphdr = a.nphdr /\ d.nscn = a.nscn
      /\ d = Counted(w, a)
  BY CountsLeave
<1>2. a \in Opens /\ a \in Descs
  BY DEF Ready, Readies, Goods, Works, Opens
<1>3. Zeroth(a) \in Scns
  BY <1>2, ScnOf, LoadedType DEF Zeroth
<1>4. /\ a.nscn >= LoReserve => z.size = a.nscn
      /\ a.nphdr >= PnXnum => z.info = a.nphdr
  BY <1>3 DEF CountsInZeroth, Scns
<1>5. Extended(a) => d.scns = Allocate(a, 0, z).scns
  BY <1>1, <1>2 DEF Counted, Opens, Descs
<1>6. Allocate(a, 0, z).scns[0] = z
  BY <1>2, AllocateForm
<1>7. Extended(a) => d.scns[0] = z
  BY <1>5, <1>6
<1>8. /\ d.ehdr.phnum = IF a.nphdr >= PnXnum THEN PnXnum ELSE a.nphdr
      /\ d.ehdr.shnum = IF a.nscn >= LoReserve THEN 0 ELSE a.nscn
  BY <1>1 DEF CountsIn
<1> HIDE DEF a, z
<1> QED
  BY <1>1, <1>4, <1>7, <1>8 DEF Numbered, Extended

\* What the file says of the counts
LEMMA CountsRead ==
  ASSUME NEW d \in Opens, d.ehdr \in Ehdrs, NEW f, TopIn(d, f), ShdrsIn(d, f), Numbered(d)
  PROVE  /\ Top(f) = d.ehdr /\ Shnum(f) = d.nscn
         /\ Refused(f) => d.nscn = 0 /\ d.nphdr >= PnXnum
         /\ ~Refused(f) => Phnum(f) = d.nphdr
         /\ \A i \in 0..d.nscn - 1 : HeaderIn(f, i) = <<"shdr", Shdr(d.scns[i])>>
<1> DEFINE h == d.ehdr
           n == d.nscn
           k == d.nphdr
           s == d.scns[0]
<1>1. Top(f) = h
  BY DEF TopIn, Top
<1>2. n \in Nat /\ k \in Nat
  BY DEF Opens, Descs
<1>3. LoReserve \in Nat /\ LoReserve > 0 /\ PnXnum \in Nat /\ PnXnum > 0
  BY ElfUpdateAssumption DEF ElfUpdateAssumption
<1>4. /\ h.phoff \in Nat /\ h.shoff \in Nat /\ h.phnum \in Nat /\ h.shnum \in Nat
  BY DEF Ehdrs
<1>5. /\ n # 0 => h.shoff > 0
      /\ n = 0 => h.shoff = 0
      /\ \A i \in 0..n - 1 : f[h.shoff + i * ShdrSize + 1] = <<"shdr", Shdr(d.scns[i])>>
  BY <1>2 DEF ShdrsIn
<1>6. \A i \in 0..n - 1 : HeaderIn(f, i) = <<"shdr", Shdr(d.scns[i])>>
  BY <1>1, <1>5 DEF HeaderIn
<1>7. n # 0 => /\ HeaderIn(f, 0)[2].size = s.size
               /\ HeaderIn(f, 0)[2].info = s.info
  BY <1>2, <1>6 DEF Shdr
<1>8. /\ h.phnum = IF k >= PnXnum THEN PnXnum ELSE k
      /\ h.shnum = IF n >= LoReserve THEN 0 ELSE n
      /\ n >= LoReserve => s.size = n
      /\ k >= PnXnum => s.info = k
  BY DEF Numbered
<1>9. /\ Xnum(f) <=> h.shoff # 0 /\ (h.shnum = 0 \/ h.phnum = PnXnum)
      /\ Shnum(f) = IF Xnum(f) /\ h.shnum = 0 THEN HeaderIn(f, 0)[2].size ELSE h.shnum
      /\ Phnum(f) = IF Xnum(f) /\ h.phnum = PnXnum THEN HeaderIn(f, 0)[2].info ELSE h.phnum
      /\ Refused(f) <=> h.shoff = 0 /\ h.phnum = PnXnum
  BY <1>1 DEF Xnum, Shnum, Phnum, Refused
<1> HIDE DEF h, n, k, s
<1>10. Shnum(f) = n
  BY <1>2, <1>3, <1>4, <1>5, <1>7, <1>8, <1>9
<1>11. Refused(f) => n = 0 /\ k >= PnXnum
  BY <1>2, <1>3, <1>4, <1>5, <1>7, <1>8, <1>9
<1>12. ~Refused(f) => Phnum(f) = k
  BY <1>2, <1>3, <1>4, <1>5, <1>7, <1>8, <1>9
<1> QED
  BY <1>1, <1>6, <1>10, <1>11, <1>12 DEF h, n, k, s

\* The contents of section i
LEMMA SectionRead ==
  ASSUME NEW d \in Opens, NEW f, ScnsIn(d, f), NEW m, ScnsMeant(d, m), AllSettled(d),
         NEW i \in 1..MaxScns, i \in DOMAIN d.scns, NEW s, s = d.scns[i]
  PROVE  /\ Alike(IF Holds(Shdr(s)) THEN Bytes(f, s.off, s.size) ELSE <<>>, m[i])
         /\ Holds(Shdr(s)) => s.off + s.size <= Len(f)
         /\ ~d.layout => IsAligned(Shdr(s))
<1>1. s \in Scns /\ d.layout \in BOOLEAN
  BY ScnOf DEF Opens, Descs
<1>2. ScnMeant(d.layout, d.raw, s, m[i])
  <2>1. i \in DOMAIN d.scns \ {0}
    OBVIOUS
  <2> QED
    BY <2>1 DEF ScnsMeant
<1>3. s.type = "progbits" => Settled(d.layout, s)
  BY DEF AllSettled
<1>4. /\ Shdr(s).type = s.type /\ Shdr(s).size = s.size /\ Shdr(s).off = s.off
      /\ Shdr(s).align = s.align
  BY DEF Shdr
<1>5. s.size \in Nat /\ s.off \in Nat
  BY <1>1 DEF Scns
<1>6. CASE Holds(Shdr(s))
  <2>1. s.type = "progbits" /\ s.size > 0
    BY <1>4, <1>6 DEF Holds
  <2>2. s.ssize = s.size /\ s.soff = s.off
    BY <1>3, <2>1 DEF Settled
  <2>3. Fills(d, i)
    BY <1>5, <2>1, <2>2 DEF Fills
  <2>4. /\ Region(f, s.off, s.size)
        /\ ContentsThere(d, s, Bytes(f, s.off, s.size))
    BY <2>2, <2>3 DEF ScnsIn, ScnIn
  <2> DEFINE b == Bytes(f, s.off, s.size)
             layout == d.layout
             z == m[i]
  <2>5. ContentsThere(d, s, b) /\ ScnMeant(layout, d.raw, s, z)
    BY <1>2, <2>4
  <2> HIDE DEF b, layout, z
  <2>6. Alike(b, z)
    BY <1>1, <2>1, <2>5, ContentsMeant
  <2>7. s.off + s.size <= Len(f)
    BY <2>4 DEF Region
  <2> QED
    BY <1>3, <1>4, <1>6, <2>1, <2>6, <2>7 DEF b, z, IsAligned, Settled
<1>7. CASE ~Holds(Shdr(s))
  <2>1. s.type = "progbits" => s.size = 0
    BY <1>4, <1>5, <1>7 DEF Holds
  <2>2. m[i] = <<>>
    BY <1>1, <1>2, <1>3, <2>1, NothingMeant
  <2>3. ~d.layout => IsAligned(Shdr(s))
    BY <1>3, <1>4 DEF IsAligned, Settled
  <2> QED
    BY <1>7, <2>2, <2>3, AlikeProperties
<1> QED
  BY <1>6, <1>7

\* The file f holds the object d, with its headers.
Stored(d, f) ==
  /\ d \in Opens /\ d.ehdr \in Ehdrs /\ TopIn(d, f) /\ PhdrsIn(d, f) /\ ShdrsIn(d, f)
  /\ ScnsIn(d, f) /\ Numbered(d) /\ AllSettled(d) /\ Full(d)
  /\ d.nscn # 0 => TableFilled(d, d.nscn)
  /\ d.nphdr # 0 => d.phdr # None

LEMMA SectionsRead ==
  ASSUME NEW d, NEW f, Stored(d, f), NEW m, NEW p, MeansObject(d, m, p),
         NEW i \in 1..Len(m), NEW h, h = HeaderIn(f, i)
  PROVE  /\ Len(m) = Larger(0, Shnum(f) - 1) /\ Shnum(f) = d.nscn
         /\ i \in 1..d.nscn - 1 /\ h[1] = "shdr"
         /\ Holds(h[2]) => h[2].off + h[2].size <= Len(f)
         /\ Alike(Contents(f)[i], m[i])
         /\ ~d.layout => IsAligned(h[2])
<1> DEFINE n == d.nscn
           s == d.scns[i]
<1>1. d \in Opens /\ n \in Nat
  BY DEF Stored, Opens, Descs
<1>2. /\ Shnum(f) = n
      /\ \A j \in 0..n - 1 : HeaderIn(f, j) = <<"shdr", Shdr(d.scns[j])>>
  BY CountsRead DEF Stored
<1>3. Len(m) = Larger(0, n - 1)
  BY DEF MeansObject, Stored, Sections
<1>4. i \in 1..n - 1 /\ i \in 1..Larger(0, n - 1) /\ n # 0
  BY <1>1, <1>3 DEF Larger
<1>5. TableFilled(d, n)
  BY <1>4 DEF Stored
<1>6. i \in 1..MaxScns /\ i \in DOMAIN d.scns
  BY <1>1, <1>4, <1>5, Sizes DEF TableFilled
<1>7. h = <<"shdr", Shdr(s)>>
  BY <1>2, <1>4
<1>8. /\ Alike(IF Holds(Shdr(s)) THEN Bytes(f, s.off, s.size) ELSE <<>>, m[i])
      /\ Holds(Shdr(s)) => s.off + s.size <= Len(f)
      /\ ~d.layout => IsAligned(Shdr(s))
  <2>1. ScnsIn(d, f) /\ ScnsMeant(d, m) /\ AllSettled(d)
    BY DEF Stored, MeansObject
  <2> QED
    BY <1>1, <1>6, <2>1, SectionRead
<1>9. Shdr(s).off = s.off /\ Shdr(s).size = s.size
  BY DEF Shdr
<1>10. Contents(f)[i] = IF Holds(h[2]) THEN Bytes(f, h[2].off, h[2].size) ELSE <<>>
  BY <1>2, <1>4 DEF Contents
<1>11. h[1] = "shdr" /\ h[2] = Shdr(s)
  BY <1>7
<1> HIDE DEF n, s
<1> QED
  BY <1>2, <1>3, <1>4, <1>8, <1>9, <1>10, <1>11 DEF n

LEMMA ImageSound ==
  ASSUME NEW d, NEW f, Stored(d, f), NEW m, NEW p, MeansObject(d, m, p), ~Refused(f)
  PROVE  Sound(f)
<1> DEFINE n == d.nscn
           h == d.ehdr
<1>1. d \in Opens /\ n \in Nat /\ d.nphdr \in Nat
  BY DEF Stored, Opens, Descs
<1>2. /\ Shnum(f) = n /\ Top(f) = h /\ Phnum(f) = d.nphdr
      /\ \A j \in 0..n - 1 : HeaderIn(f, j) = <<"shdr", Shdr(d.scns[j])>>
  BY CountsRead DEF Stored
<1>3. Len(f) >= EhdrSize /\ f[1][1] = "ehdr" /\ f \in Seq(Unit)
  BY DEF Stored, TopIn
<1>4. ASSUME h.shoff # 0
      PROVE  /\ Len(f) >= h.shoff + ShdrSize /\ HeaderIn(f, 0)[1] = "shdr"
             /\ Len(f) >= h.shoff + n * ShdrSize
  <2>1. n # 0 /\ Len(f) >= h.shoff + n * ShdrSize
    BY <1>4 DEF Stored, ShdrsIn
  <2>2. HeaderIn(f, 0)[1] = "shdr"
    BY <1>1, <1>2, <2>1
  <2>3. n * ShdrSize \in Nat /\ ShdrSize <= n * ShdrSize
    <3>1. 0 * ShdrSize + ShdrSize <= n * ShdrSize /\ n * ShdrSize \in Nat
      BY <1>1, <2>1, Sizes, TableFits
    <3>2. 0 * ShdrSize = 0
      BY Sizes
    <3> QED
      BY <3>1, <3>2, Sizes
  <2>4. Len(f) \in Nat /\ h.shoff \in Nat
    BY <1>3 DEF Stored, Ehdrs
  <2> HIDE DEF n
  <2> QED
    BY <2>1, <2>2, <2>3, <2>4, Sizes
<1>5. d.nphdr # 0 => Len(f) >= h.phoff + d.nphdr * PhdrSize
  BY DEF Stored, PhdrsIn, Region
<1>6. Len(m) = Larger(0, n - 1)
  BY DEF MeansObject, Stored, Sections
<1>7. ASSUME NEW i \in 1..n - 1
      PROVE  /\ HeaderIn(f, i)[1] = "shdr"
             /\ Holds(HeaderIn(f, i)[2]) =>
                  HeaderIn(f, i)[2].off + HeaderIn(f, i)[2].size <= Len(f)
  <2>1. i \in 1..Len(m)
    BY <1>1, <1>6 DEF Larger
  <2> QED
    BY <2>1, SectionsRead
<1>8. \A k \in 1..Len(f) : f[k] # Junk
  BY DEF Stored, TopIn, Clean
<1>9. n # 0 => h.shoff # 0
  BY DEF Stored, ShdrsIn, Ehdrs
<1> HIDE DEF n, h
<1> QED
  BY <1>2, <1>3, <1>4, <1>5, <1>7, <1>8, <1>9 DEF Sound

LEMMA PhdrsRead ==
  ASSUME NEW d, NEW f, Stored(d, f), NEW m, NEW p, MeansObject(d, m, p), ~Refused(f)
  PROVE  Phdrs(f) = p
<1> DEFINE k == d.nphdr
           off == d.ehdr.phoff
<1>1. d \in Opens /\ k \in Nat /\ off \in Nat
  BY DEF Stored, Opens, Descs, Ehdrs
<1>2. Top(f) = d.ehdr /\ Phnum(f) = k
  BY CountsRead DEF Stored
<1>3. Phdrs(f) = Bytes(f, off, k * PhdrSize)
  BY <1>2 DEF Phdrs
<1>4. PhMeant(d, p)
  BY DEF MeansObject
<1>5. CASE k = 0
  <2>1. k * PhdrSize = 0
    BY <1>5, Sizes
  <2>2. Len(p) = 0 /\ p \in Seq(Unit)
    BY <1>4, <2>1 DEF PhMeant
  <2>3. p = <<>>
    BY <2>2, EmptyOne
  <2>4. Bytes(f, off, 0) = <<>>
    BY <1>1, NoBytes
  <2> HIDE DEF k, off
  <2> QED
    BY <1>3, <2>1, <2>3, <2>4
<1>6. CASE k # 0
  <2>1. Bytes(f, off, k * PhdrSize) = d.phdr /\ d.phdr # None
    BY <1>6 DEF Stored, PhdrsIn
  <2>2. d.phdr = p
    BY <1>4, <2>1 DEF PhMeant
  <2> QED
    BY <1>3, <2>1, <2>2
<1> QED
  BY <1>5, <1>6

\* What has been written is what the client means, unless it has too many program
\* headers for an object without sections.
LEMMA FileRead ==
  ASSUME NEW d, NEW f, Stored(d, f), NEW m, NEW p, MeansObject(d, m, p)
  PROVE  /\ Refused(f) \/ FileMeant(f, m, p, d.layout)
         /\ Refused(f) => Len(m) = 0 /\ Len(p) >= PnXnum * PhdrSize
         /\ ~d.layout => \A i \in 1..Len(m) : IsAligned(HeaderIn(f, i)[2])
<1>1. d \in Opens /\ d.nscn \in Nat /\ d.nphdr \in Nat
  BY DEF Stored, Opens, Descs
<1>2. /\ Top(f) = d.ehdr /\ Shnum(f) = d.nscn
      /\ Refused(f) => d.nscn = 0 /\ d.nphdr >= PnXnum
  BY CountsRead DEF Stored
<1>3. Len(m) = Larger(0, Shnum(f) - 1)
  BY <1>2 DEF MeansObject, Stored, Sections
<1>4. \A i \in 1..Len(m) : /\ Alike(Contents(f)[i], m[i])
                           /\ ~d.layout => IsAligned(HeaderIn(f, i)[2])
  BY SectionsRead
<1>5. Refused(f) => Len(m) = 0 /\ Len(p) >= PnXnum * PhdrSize
  <2>1. Len(p) = d.nphdr * PhdrSize
    BY DEF MeansObject, PhMeant
  <2>2. PnXnum <= d.nphdr => PnXnum * PhdrSize <= d.nphdr * PhdrSize
    BY <1>1, Sizes, Multiples
  <2>3. d.nphdr * PhdrSize \in Nat /\ PnXnum * PhdrSize \in Nat
    BY <1>1, Sizes, Multiples
  <2> HAVE Refused(f)
  <2>4. Len(m) = 0
    BY <1>2, <1>3 DEF Larger
  <2> QED
    BY <1>1, <1>2, <2>1, <2>2, <2>3, <2>4, Sizes
<1>6. ASSUME ~Refused(f) PROVE FileMeant(f, m, p, d.layout)
  <2>1. Sound(f) /\ Phdrs(f) = p
    BY <1>6, ImageSound, PhdrsRead
  <2>2. d.layout /\ Shnum(f) = 0 => Top(f).shoff = 0
    BY <1>2 DEF MeansObject
  <2> QED
    BY <1>3, <1>4, <2>1, <2>2 DEF FileMeant, FileHolds
<1> QED
  BY <1>4, <1>5, <1>6

\* What elf_update writes is what the client means.
Conforms(f, m, p, layout) ==
  /\ f \in Seq(Unit)
  /\ Refused(f) \/ FileMeant(f, m, p, layout)
  /\ Refused(f) => Len(m) = 0 /\ Len(p) >= PnXnum * PhdrSize
  /\ ~layout => \A i \in 1..Len(m) : IsAligned(HeaderIn(f, i)[2])

LEMMA ImageMeant ==
  ASSUME NEW c, NEW w, NEW m, NEW p, NEW ph \in Nat, NEW sh \in Nat,
         Ready(c, w, m, p, ph, sh),
         NEW v, v = SetCounts(w), NEW r, r = Image(v), r.how = "ok"
  PROVE  Conforms(r.img, m, p, v.e.layout)
<1> DEFINE d == v.e
           f == r.img
<1>1. TopIn(d, f) /\ PhdrsIn(d, f) /\ ShdrsIn(d, f) /\ ScnsIn(d, f)
  BY ObjectThere
<1>2. /\ d \in Opens /\ d.ehdr \in Ehdrs /\ MeansObject(d, m, p) /\ Full(d) /\ AllSettled(d)
      /\ d.nscn # 0 => TableFilled(d, d.nscn)
      /\ d.nphdr # 0 => d.phdr # None
  BY CountsLeave
<1>3. Numbered(d)
  BY IsNumbered
<1> HIDE DEF d, f
<1>4. Stored(d, f)
  BY <1>1, <1>2, <1>3 DEF Stored
<1>5. /\ Refused(f) \/ FileMeant(f, m, p, d.layout)
      /\ Refused(f) => Len(m) = 0 /\ Len(p) >= PnXnum * PhdrSize
      /\ ~d.layout => \A i \in 1..Len(m) : IsAligned(HeaderIn(f, i)[2])
  BY <1>2, <1>4, FileRead
<1>6. f \in Seq(Unit)
  BY <1>1 DEF TopIn
<1> QED
  BY <1>5, <1>6 DEF Conforms, d, f

LEMMA UpdateMeant ==
  ASSUME NEW d \in Opens, Shaped(d), CanRead(d), NEW m, NEW p, Means(d, m, p),
         NEW w, w = Resync(d), ~w.e.misread, w.how = "ok",
         NEW r, r = Image(w), r.how = "ok"
  PROVE  Conforms(r.img, m, p, w.e.layout)
<1>1. PICK a : \E ph, sh \in Nat : Ready(d.cmd, a, m, p, ph, sh) /\ w = SetCounts(a)
  BY ResyncMeant
<1>2. PICK ph \in Nat, sh \in Nat : Ready(d.cmd, a, m, p, ph, sh) /\ w = SetCounts(a)
  BY <1>1
<1> QED
  BY <1>2, ImageMeant

-----------------------------------------------------------------------------
(* What stays through a call *)
Later(d, b) == b.cmd = d.cmd /\ b.writes = d.writes /\ (d.misread => b.misread)

LEMMA LaterTwice ==
  /\ \A d : Later(d, d)
  /\ \A d, b, a : Later(d, b) /\ Later(b, a) => Later(d, a)
BY DEF Later

LEMMA LaterForms ==
  /\ \A d, b : OnlySections(d, b) => Later(d, b)
  /\ \A d \in Opens : \A x : Later(d, [d EXCEPT !.phdr = x])
  /\ \A d \in Opens : \A x, y : Later(d, [d EXCEPT !.loaded = x, !.scns = y])
  /\ \A d \in Opens : \A x, y : Later(d, [d EXCEPT !.ehdr = x, !.scns = y])
  /\ \A d \in Opens : \A x : Later(d, [d EXCEPT !.ehdr = x])
BY DEF Later, OnlySections, Opens, Descs

LEMMA EhdrLater ==
  ASSUME NEW c, NEW w \in Goods(c), w.how = "ok", NEW v, v = WithEhdr(w)
  PROVE  Later(w.e, v.e)
<1>1. HeaderSeen(w.e, v) /\ w.e \in Opens
  BY EhdrGives, WorkFields
<1>2. CASE v.e = w.e
  BY <1>2, LaterTwice
<1>3. CASE v.e = [w.e EXCEPT !.ehdr = NoEhdr]
  <2> DEFINE d == w.e
  <2>1. d \in Opens /\ v.e = [d EXCEPT !.ehdr = NoEhdr]
    BY <1>1, <1>3
  <2> HIDE DEF d
  <2>2. Later(d, v.e)
    BY <2>1 DEF Later, Opens, Descs
  <2> QED
    BY <2>2 DEF d
<1>4. CASE SameButHeader(w.e, v.e)
  BY <1>4 DEF SameButHeader, Later
<1> QED
  BY <1>1, <1>2, <1>3, <1>4 DEF HeaderSeen

LEMMA ShdrsLater ==
  ASSUME NEW c, NEW w \in Readies(c), w.how = "ok", Shaped(w.e), NEW v, v = WithShdrs(w)
  PROVE  Later(w.e, v.e)
<1>1. w \in Works /\ w.e \in Opens
  BY DEF Readies, Goods, Works
<1>2. Cardinality(DOMAIN w.e.scns) \in Nat
  <2>1. w.e.nscn \in Nat
    BY <1>1 DEF Opens, Descs
  <2>2. DOMAIN w.e.scns \subseteq 0..w.e.nscn
    BY <2>1 DEF Shaped
  <2> QED
    BY <2>1, <2>2, CardinalityOfIndices
<1>3. ShdrsSeen(w, v)
  BY <1>1, <1>2, ShdrsGives
<1> QED
  BY <1>1, <1>3, LaterTwice, LaterForms DEF ShdrsSeen

LEMMA PhdrLater ==
  ASSUME NEW d \in Opens, NEW v, PhdrSeen(d, v)
  PROVE  Later(d, v.e)
BY LaterTwice, LaterForms DEF PhdrSeen

LEMMA CountsLater ==
  ASSUME NEW c, NEW w \in Readies(c), NEW v, v = SetCounts(w)
  PROVE  Later(w.e, v.e)
<1>1. w.e \in Opens
  BY WorkFields DEF Readies
<1>2. CASE w.how # "ok"
  <2>1. v = w
    BY <1>2, NothingMore
  <2> QED
    BY <2>1, LaterTwice
<1>3. CASE w.how = "ok"
  <2>1. v.e = Counted(w, w.e)
    BY <1>3, SetCountsForm, WorkForm DEF Then, With, Readies
  <2> DEFINE d == w.e
             h == CountsIn(w, d)
             t == IF Extended(d) THEN Allocate(d, 0, CountsInZeroth(d)).scns ELSE d.scns
  <2>2. d \in Opens /\ v.e = [d EXCEPT !.ehdr = h, !.scns = t]
    BY <1>1, <2>1 DEF Counted
  <2> HIDE DEF d, h, t
  <2>3. Later(d, v.e)
    BY <2>2 DEF Later, Opens, Descs
  <2> QED
    BY <2>3 DEF d
<1> QED
  BY <1>2, <1>3

LEMMA ResyncLater ==
  ASSUME NEW d \in Opens, Shaped(d), CanRead(d), NEW r, r = Resync(d)
  PROVE  Later(d, r.e)
<1> DEFINE c == d.cmd
           h == WithEhdr(Work(d))
           a == Insert(h, "ehdr", 0, 0, EhdrSize)
           q == ResyncPhdr(a)
           t == WithShdrs(q)
           s == ResyncSections(t)
           w == ResyncShdr(s)
<1>0. r = SetCounts(w)
  BY DEF Resync
<1>0a. t = WithShdrs(q)
  OBVIOUS
<1>1. h \in Readies(c) /\ h \in Goods(c) /\ Shaped(h.e) /\ Later(d, h.e)
  <2>1. Work(d) \in Goods(c) /\ Work(d).e = d /\ Work(d).how = "ok"
    BY WorkType
  <2>2. h \in Readies(c)
    BY <2>1, WithEhdrType
  <2>3. Shaped(h.e) /\ Later(d, h.e)
    BY <2>1, EhdrShapes, EhdrLater
  <2> HIDE DEF h
  <2> QED
    BY <2>2, <2>3 DEF Readies
<1> HIDE DEF h
<1>2. a \in Readies(c) /\ a.e = h.e
  <2>1. /\ "ehdr" \in {"ehdr", "phdr", "shdr", "scn"}
        /\ 0 \in Nat /\ EhdrSize \in Nat /\ 0 >= 0 /\ "ehdr" # "scn" /\ h.rc = 0
    <3>1. Work(d) \in Goods(c) /\ Work(d).rc = 0
      BY WorkType, WithWork
    <3> QED
      BY <3>1, HeadersPlaceNothing, Sizes DEF h
  <2>2. a \in Goods(c) /\ a.e = h.e
    BY ONLY <1>1, <2>1, InsertType
  <2>3. h.how # "ok" => a = h
    <3>1. h \in Works
      BY <1>1 DEF Goods
    <3> QED
      BY <3>1, InsertFrame
  <2> HIDE DEF a
  <2> QED
    BY <1>1, <2>2, <2>3 DEF Readies
<1> HIDE DEF a
<1>3. /\ q \in Readies(c) /\ Shaped(q.e) /\ Later(a.e, q.e)
  <2>1. q \in Readies(c)
    BY <1>2, ResyncPhdrType
  <2>2. q.e = a.e \/ (PhdrSeen(a.e, WithPhdr(a)) /\ q.e = WithPhdr(a).e)
    BY <1>2, ResyncPhdrGives
  <2>3. a.e \in Opens
    BY <1>2 DEF Readies, Goods, Works
  <2>4. SameShape(a.e, q.e)
    <3>1. SameShape(a.e, a.e)
      BY OnlySectionsTwice, SameShapeShaped
    <3> QED
      BY <2>2, <2>3, <3>1, PhdrShape
  <2>5. Later(a.e, q.e)
    BY <2>2, <2>3, PhdrLater, LaterTwice
  <2> HIDE DEF q
  <2> QED
    BY <1>1, <1>2, <2>1, <2>4, <2>5, SameShapeShaped
<1> HIDE DEF q
<1>4. t \in Readies(c) /\ Shaped(t.e) /\ Later(q.e, t.e)
  <2>1. t \in Readies(c) /\ Shaped(t.e) /\ (q.how # "ok" => t = q)
    BY <1>3, OpenedType, ShdrsShape, NothingMore
  <2>2. q.how = "ok" => Later(q.e, t.e)
    BY <1>0a, <1>3, ShdrsLater
  <2> QED
    BY <2>1, <2>2, LaterTwice
<1> HIDE DEF t
<1>5. s \in Readies(c) /\ Later(t.e, s.e)
  BY <1>4, ResyncSectionsType, SectionsShape, LaterForms
<1> HIDE DEF s
<1>6. w \in Readies(c) /\ w.e = s.e
  BY <1>5, ResyncShdrType, ResyncShdrGives
<1> HIDE DEF w
<1>7. Later(w.e, r.e)
  BY <1>0, <1>6, CountsLater
<1> QED
  BY <1>1, <1>2, <1>3, <1>4, <1>5, <1>6, <1>7 DEF Later

-----------------------------------------------------------------------------
(* The calls keep what the client means. *)
MeansNow(d) == ~d.misread /\ (d.cmd = "write" => d.writes = 0)
MeantInv ==
  /\ meant \in Seq(Seq(Unit)) /\ meantPh \in Seq(Unit)
  /\ e # None /\ MeansNow(e) => Means(e, meant, meantPh)

LEMMA LaterMeans == \A d, b : Later(d, b) /\ MeansNow(b) => MeansNow(d) /\ ~b.misread
BY DEF Later, MeansNow

LEMMA OpenedMeant ==
  ASSUME NEW d \in Opens, Shaped(d), CanRead(d), NEW m, NEW p, Means(d, m, p),
         NEW w, w = Opened(d), ~w.e.misread
  PROVE  Means(w.e, m, p) /\ (w.how = "ok" => Full(w.e) /\ w.e.ehdr \in Ehdrs)
<1> DEFINE c == d.cmd
           h == WithEhdr(Work(d))
<1>0. w = WithShdrs(h)
  BY DEF Opened
<1>1. /\ h \in Readies(c) /\ h.e \in Opens /\ HeaderSeen(d, h) /\ Shaped(h.e)
      /\ w \in Readies(c)
  <2>1. Work(d) \in Goods(c) /\ Work(d).e = d /\ Work(d).how = "ok"
    BY WorkType
  <2>2. HeaderSeen(d, h)
    BY <2>1, EhdrGives
  <2> QED
    BY <2>2, NewHeader, OpenedShape
<1> HIDE DEF h
<1>2. CASE h.how # "ok"
  <2>1. w = h
    BY <1>0, <1>1, <1>2, NothingMore
  <2> QED
    BY <1>1, <1>2, <2>1, HeaderMeant
<1>3. CASE h.how = "ok"
  <2>1. Later(h.e, w.e)
    BY <1>0, <1>1, <1>3, ShdrsLater
  <2>2. Means(h.e, m, p)
    BY <1>1, <2>1, HeaderMeant DEF Later
  <2>3. Means(w.e, m, p) /\ (w.how = "ok" => Full(w.e))
    BY <1>0, <1>1, <1>3, <2>2, ShdrsMeant
  <2> QED
    BY <1>1, <2>3 DEF Readies
<1> QED
  BY <1>2, <1>3

LEMMA OpenedLater ==
  ASSUME NEW d \in Opens, Shaped(d), CanRead(d), NEW w, w = Opened(d)
  PROVE  Later(d, w.e)
<1> DEFINE h == WithEhdr(Work(d))
<1>0. w = WithShdrs(h)
  BY DEF Opened
<1>1. h \in Readies(d.cmd) /\ Shaped(h.e) /\ Later(d, h.e)
  <2>1. Work(d) \in Goods(d.cmd) /\ Work(d).e = d /\ Work(d).how = "ok"
    BY WorkType
  <2> QED
    BY <2>1, NewHeader, EhdrLater
<1> HIDE DEF h
<1>2. CASE h.how # "ok"
  BY <1>0, <1>1, <1>2, NothingMore
<1>3. CASE h.how = "ok"
  <2>1. Later(h.e, w.e)
    BY <1>0, <1>1, <1>3, ShdrsLater
  <2> QED
    BY <1>1, <2>1, LaterTwice
<1> QED
  BY <1>2, <1>3

LEMMA FinishMeant ==
  ASSUME NEW op, NEW w, Finish(op, w),
         meant' \in Seq(Seq(Unit)), meantPh' \in Seq(Unit),
         MeansNow(w.e) => Means(w.e, meant', meantPh')
  PROVE  MeantInv'
BY DEF Finish, MeantInv

LEMMA FinishKeepsMeant ==
  ASSUME MeantInv, UNCHANGED <<meant, meantPh>>, NEW op, NEW w, Finish(op, w), e # None,
         Later(e, w.e),
         Means(e, meant, meantPh) /\ ~w.e.misread => Means(w.e, meant, meantPh)
  PROVE  MeantInv'
<1>1. MeansNow(w.e) => Means(w.e, meant, meantPh)
  BY LaterMeans DEF MeantInv
<1> QED
  BY <1>1 DEF Finish, MeantInv

\* A file, as the client finds it
LEMMA ReadableMeant ==
  ASSUME NEW f \in Seq(Unit), Readable(f)
  PROVE  /\ Contents(f) \in Seq(Seq(Unit)) /\ Phdrs(f) \in Seq(Unit)
         /\ FileMeant(f, Contents(f), Phdrs(f), FALSE)
<1> DEFINE n == Shnum(f)
           k == Phnum(f)
           h(i) == HeaderIn(f, i)
           t == Top(f)
<1>1. Sound(f) /\ n <= MaxScns + 1
  BY DEF Readable
<1>2. \A i \in 1..Len(f) : f[i] \in Unit /\ IsUnit(f[i])
  BY UnitType
<1>3. Len(f) \in Nat /\ Len(f) >= EhdrSize /\ f[1][1] = "ehdr"
  BY <1>1 DEF Sound
<1>4. t \in Ehdrs
  <2>1. 1 \in 1..Len(f)
    BY <1>3, Sizes
  <2>2. IsUnit(f[1])
    BY <1>2, <2>1
  <2> QED
    BY <1>3, <2>2 DEF IsUnit, Top
<1>5. t.phoff \in Nat /\ t.shoff \in Nat /\ t.phnum \in Nat /\ t.shnum \in Nat
  BY <1>4 DEF Ehdrs
<1>6. t.shoff # 0 => h(0)[2] \in Shdrs /\ Len(f) >= t.shoff + n * ShdrSize
  <2> HAVE t.shoff # 0
  <2>1. /\ Len(f) >= t.shoff + ShdrSize /\ h(0)[1] = "shdr"
        /\ Len(f) >= t.shoff + n * ShdrSize
    BY <1>1 DEF Sound
  <2>2. h(0) = f[t.shoff + 1]
    <3>1. 0 * ShdrSize = 0 /\ t.shoff + 0 + 1 = t.shoff + 1
      BY <1>5, Sizes
    <3> QED
      BY <3>1 DEF HeaderIn
  <2>3. t.shoff + 1 \in 1..Len(f)
    BY <1>3, <1>5, <2>1, Sizes
  <2>4. IsUnit(f[t.shoff + 1])
    BY <1>2, <2>3
  <2> HIDE DEF h
  <2> QED
    BY <2>1, <2>2, <2>4 DEF IsUnit
<1>7. n \in Nat /\ k \in Nat
  <2>1. h(0)[2] \in Shdrs => h(0)[2].size \in Nat /\ h(0)[2].info \in Nat
    BY DEF Shdrs
  <2>2. /\ Xnum(f) => t.shoff # 0
        /\ n = IF Xnum(f) /\ t.shnum = 0 THEN h(0)[2].size ELSE t.shnum
        /\ k = IF Xnum(f) /\ t.phnum = PnXnum THEN h(0)[2].info ELSE t.phnum
    BY DEF Xnum, Shnum, Phnum
  <2> HIDE DEF n, k, h, t
  <2> QED
    BY <1>5, <1>6, <2>1, <2>2
<1>8. ASSUME NEW i \in 1..Larger(0, n - 1) PROVE Contents(f)[i] \in Seq(Unit)
  <2>1. i \in 1..n - 1
    BY <1>7 DEF Larger
  <2>2. h(i)[1] = "shdr" /\ (Holds(h(i)[2]) => h(i)[2].off + h(i)[2].size <= Len(f))
    BY <1>1, <2>1 DEF Sound
  <2>3. t.shoff # 0
    BY <1>1, <1>7, <2>1 DEF Sound
  <2>4. h(i)[2] \in Shdrs
    <3>1. i * ShdrSize + ShdrSize <= n * ShdrSize /\ i * ShdrSize \in Nat /\ n * ShdrSize \in Nat
      <4>1. n \in Nat /\ i \in Nat /\ i < n /\ ShdrSize \in Nat
        BY <1>7, <2>1, Sizes
      <4> QED
        BY ONLY <4>1, TableFits
    <3> DEFINE at == t.shoff + i * ShdrSize + 1
    <3>2. at \in 1..Len(f)
      <4> DEFINE x == i * ShdrSize
                 y == n * ShdrSize
                 o == t.shoff
      <4>1. /\ x \in Nat /\ y \in Nat /\ x + ShdrSize <= y /\ o \in Nat /\ Len(f) \in Nat
            /\ Len(f) >= o + y /\ ShdrSize \in Nat /\ ShdrSize > 0 /\ at = o + x + 1
        BY <1>3, <1>5, <1>6, <2>3, <3>1, Sizes
      <4> HIDE DEF x, y, o, at
      <4> QED
        BY ONLY <4>1
    <3>3. IsUnit(f[at])
      BY <1>2, <3>2
    <3>4. h(i) = f[at]
      BY DEF HeaderIn
    <3> HIDE DEF at, h
    <3> QED
      BY <2>2, <3>3, <3>4 DEF IsUnit
  <2>5. Holds(h(i)[2]) => Bytes(f, h(i)[2].off, h(i)[2].size) \in Seq(Unit)
    <3>1. h(i)[2].off \in Nat /\ h(i)[2].size \in Nat
      BY <2>4 DEF Shdrs
    <3> QED
      BY <2>2, <3>1, BytesType
  <2>6. Contents(f)[i] = IF Holds(h(i)[2]) THEN Bytes(f, h(i)[2].off, h(i)[2].size) ELSE <<>>
    BY DEF Contents
  <2> QED
    BY <2>5, <2>6, Joins
<1>9. Contents(f) \in Seq(Seq(Unit)) /\ Len(Contents(f)) = Larger(0, n - 1)
  <2>1. Larger(0, n - 1) \in Nat
    BY <1>7 DEF Larger
  <2>2. Contents(f) = [i \in 1..Larger(0, n - 1) |-> Contents(f)[i]]
    BY DEF Contents
  <2> DEFINE c == Contents(f)
             z == Larger(0, n - 1)
  <2>3. z \in Nat /\ c = [i \in 1..z |-> c[i]] /\ \A i \in 1..z : c[i] \in Seq(Unit)
    BY <1>8, <2>1, <2>2
  <2> HIDE DEF n, c, z
  <2>4. c \in Seq(Seq(Unit)) /\ Len(c) = z
    BY ONLY <2>3
  <2> QED
    BY <2>4 DEF c, z
<1>10. Phdrs(f) \in Seq(Unit)
  <2>1. CASE k = 0
    <3>1. k * PhdrSize = 0
      BY <2>1, Sizes
    <3>2. Bytes(f, t.phoff, 0) = <<>>
      BY <1>5, NoBytes
    <3> QED
      BY <3>1, <3>2, Joins DEF Phdrs
  <2>2. CASE k # 0
    <3>1. Len(f) >= t.phoff + k * PhdrSize
      BY <1>1, <2>2 DEF Sound
    <3>2. k * PhdrSize \in Nat
      BY <1>7, Sizes, Multiples
    <3>3. t.phoff + k * PhdrSize <= Len(f)
      BY <1>3, <1>5, <3>1, <3>2
    <3>4. Bytes(f, t.phoff, k * PhdrSize) \in Seq(Unit)
      BY <1>5, <3>2, <3>3, BytesType
    <3> QED
      BY <3>4 DEF Phdrs
  <2> QED
    BY <2>1, <2>2
<1>11. FileMeant(f, Contents(f), Phdrs(f), FALSE)
  BY <1>1, <1>9, AlikeProperties DEF FileMeant, FileHolds
<1> QED
  BY <1>9, <1>10, <1>11

LEMMA BeginMeant ==
  ASSUME LayoutInv, NEW cmd \in Commands, NEW mapped \in BOOLEAN, Begin(cmd, mapped)
  PROVE  MeantInv'
<1>1. file \in Seq(Unit)
  BY DEF LayoutInv
<1>2. /\ e'.cmd = cmd /\ e'.phdr = None /\ e'.ehdr = None /\ e'.scns = <<>> /\ e'.nphdr = 0
      /\ e'.nscn = 0 /\ e'.layout = FALSE
      /\ e'.raw = IF cmd = "write" THEN None ELSE file
  BY DEF Begin
<1>3. DOMAIN e'.scns = {}
  BY <1>2, NoTable
<1>4. CASE cmd = "write"
  <2>1. meant' = <<>> /\ meantPh' = <<>>
    BY <1>4 DEF Begin
  <2>2. Means(e', meant', meantPh')
    BY <1>2, <1>3, <1>4, <2>1 DEF Means, MeansFile
  <2> QED
    BY <2>1, <2>2, Joins DEF MeantInv
<1>5. CASE cmd # "write"
  <2>1. meant' = Contents(file) /\ meantPh' = Phdrs(file) /\ Readable(file)
    BY <1>5 DEF Begin
  <2>2. /\ Contents(file) \in Seq(Seq(Unit)) /\ Phdrs(file) \in Seq(Unit)
        /\ FileMeant(file, Contents(file), Phdrs(file), FALSE)
    BY <1>1, <2>1, ReadableMeant
  <2>3. Means(e', meant', meantPh')
    BY <1>2, <1>3, <1>5, <2>1, <2>2 DEF Means, MeansFile
  <2> QED
    BY <2>1, <2>2, <2>3 DEF MeantInv
<1> QED
  BY <1>4, <1>5

LEMMA EndMeant == ASSUME MeantInv, End PROVE MeantInv'
BY DEF End, MeantInv

\* The header is read.
LEMMA HeaderCall ==
  ASSUME NEW d \in Opens, Shaped(d), CanRead(d), NEW m, NEW p, Means(d, m, p),
         NEW w, w = WithEhdr(Work(d)), ~w.e.misread
  PROVE  Means(w.e, m, p)
<1>1. Work(d) \in Goods(d.cmd) /\ Work(d).e = d /\ Work(d).how = "ok"
  BY WorkType
<1>2. HeaderSeen(d, w)
  BY <1>1, EhdrGives
<1>3. w.e \in Opens
  BY NewHeader
<1> QED
  BY <1>2, <1>3, HeaderMeant

LEMMA HeaderCallLater ==
  ASSUME NEW d \in Opens, Shaped(d), CanRead(d), NEW w, w = WithEhdr(Work(d))
  PROVE  Later(d, w.e) /\ w \in Readies(d.cmd) /\ w.e \in Opens
<1>1. Work(d) \in Goods(d.cmd) /\ Work(d).e = d /\ Work(d).how = "ok"
  BY WorkType
<1> QED
  BY <1>1, EhdrLater, NewHeader

LEMMA GetEhdrMeant == ASSUME LayoutInv, TypeInv, MeantInv, GetEhdr PROVE MeantInv'
<1>1. /\ e # None /\ e \in Opens /\ e \in Descs /\ Shaped(e) /\ CanRead(e)
  BY CallFinds DEF GetEhdr
<1> DEFINE d == [e EXCEPT !.class = TRUE]
           w == WithEhdr(Work(d))
<1>2. /\ d \in Opens /\ Shaped(d) /\ CanRead(d) /\ Later(e, d) /\ SameObject(e, d)
  BY <1>1 DEF Opens, Descs, Shaped, CanRead, Later, SameObject
<1>3. Finish("ehdr", w) /\ UNCHANGED <<meant, meantPh>>
  BY DEF GetEhdr
<1> HIDE DEF d
<1>4. Later(e, w.e)
  BY <1>2, HeaderCallLater, LaterTwice
<1>5. Means(e, meant, meantPh) /\ ~w.e.misread => Means(w.e, meant, meantPh)
  <2>1. Means(e, meant, meantPh) => Means(d, meant, meantPh)
    BY <1>2, SameObjectMeant
  <2> QED
    BY <1>2, <2>1, HeaderCall
<1> HIDE DEF w
<1> QED
  BY <1>1, <1>3, <1>4, <1>5, FinishKeepsMeant

LEMMA GetPhdrMeant == ASSUME LayoutInv, TypeInv, MeantInv, GetPhdr PROVE MeantInv'
<1>1. /\ e # None /\ e \in Opens /\ e \in Descs /\ Shaped(e) /\ CanRead(e)
  BY CallFinds DEF GetPhdr
<1> DEFINE w == WithEhdr(Work(e))
           q == WithPhdr(w)
           v == IF w.how = "ok" /\ w.e.phdr = None /\ w.e.nphdr = 0
                THEN Fails(w, "abort") ELSE Then(w, q)
<1>2. Finish("phdr", v) /\ UNCHANGED <<meant, meantPh>>
  BY DEF GetPhdr
<1>3. Later(e, w.e) /\ w \in Readies(e.cmd) /\ w.e \in Opens
  BY <1>1, HeaderCallLater
<1>4. Means(e, meant, meantPh) /\ ~w.e.misread => Means(w.e, meant, meantPh)
  BY <1>1, HeaderCall
<1> HIDE DEF w
<1>5. v.e = w.e \/ (w.how = "ok" /\ v.e = q.e)
  <2>1. Fails(w, "abort").e = w.e
    BY <1>3, WorkForm DEF Readies
  <2> QED
    BY <2>1 DEF Then
<1> HIDE DEF v
<1>6. w.how = "ok" => PhdrSeen(w.e, q) /\ w.e.ehdr # None
  BY <1>3, PhdrGives, NoneIsNothing DEF Readies
<1>7. Later(e, v.e)
  BY <1>3, <1>5, <1>6, PhdrLater, LaterTwice
<1>8. Means(e, meant, meantPh) /\ ~v.e.misread => Means(v.e, meant, meantPh)
  <2>1. CASE v.e = w.e
    BY <1>4, <2>1
  <2>2. CASE w.how = "ok" /\ v.e = q.e
    <3>1. Later(w.e, v.e)
      BY <1>3, <1>6, <2>2, PhdrLater
    <3>2. ~v.e.misread => ~w.e.misread
      BY <3>1 DEF Later
    <3> HIDE DEF q
    <3> QED
      BY <1>3, <1>4, <1>6, <2>2, <3>2, PhdrMeant
  <2> QED
    BY <1>5, <2>1, <2>2
<1> QED
  BY <1>1, <1>2, <1>7, <1>8, FinishKeepsMeant

LEMMA GetScnMeant == ASSUME LayoutInv, TypeInv, MeantInv, GetScn PROVE MeantInv'
<1>1. /\ e # None /\ e \in Opens /\ e \in Descs /\ Shaped(e) /\ CanRead(e)
  BY CallFinds DEF GetScn
<1> DEFINE w == Opened(e)
<1>2. Finish("scn", w) /\ UNCHANGED <<meant, meantPh>>
  BY DEF GetScn
<1>3. Later(e, w.e)
  BY <1>1, OpenedLater
<1>4. Means(e, meant, meantPh) /\ ~w.e.misread => Means(w.e, meant, meantPh)
  BY <1>1, OpenedMeant
<1> HIDE DEF w
<1> QED
  BY <1>1, <1>2, <1>3, <1>4, FinishKeepsMeant

LEMMA FdDoneMeant == ASSUME LayoutInv, TypeInv, MeantInv, FdDone PROVE MeantInv'
<1>1. /\ e # None /\ e \in Opens /\ e \in Descs
  BY CallFinds DEF FdDone
<1>2. e' = [e EXCEPT !.fd = FALSE] /\ UNCHANGED <<meant, meantPh>>
  BY DEF FdDone
<1>3. SameObject(e, e') /\ Later(e, e')
  BY <1>1, <1>2 DEF SameObject, Later, Opens, Descs
<1>4. MeansNow(e') => Means(e', meant, meantPh)
  BY <1>1, <1>3, SameObjectMeant, LaterMeans DEF MeantInv
<1> QED
  BY <1>2, <1>4 DEF MeantInv

\* The client makes a table of program headers.
LEMMA NewTable ==
  ASSUME NEW d \in Opens, d.ehdr # None, NEW m, NEW p, Means(d, m, p), NEW n \in Nat,
         NEW table, table = [k \in 1..n * PhdrSize |-> Ph("new")],
         NEW b, b = [d EXCEPT !.nphdr = n, !.phdr = IF n = 0 THEN None ELSE table]
  PROVE  table \in Seq(Unit) /\ Means(b, m, table)
<1>1. n * PhdrSize \in Nat
  BY Sizes, Multiples
<1>2. Ph("new") \in Unit /\ Ph("new") # Junk
  BY DEF Unit, Ph, Junk
<1> DEFINE z == n * PhdrSize
           u == Ph("new")
<1>3. table \in Seq(Unit) /\ Len(table) = n * PhdrSize /\ Clean(table)
  <2> HIDE DEF z, u
  <2>1. table = [k \in 1..z |-> u] /\ z \in Nat /\ u \in Unit /\ u # Junk
    BY <1>1, <1>2 DEF z, u
  <2>2. table \in Seq(Unit) /\ Len(table) = z /\ Clean(table)
    BY ONLY <2>1 DEF Clean
  <2> QED
    BY <2>2 DEF z
<1>4. /\ b.ehdr = d.ehdr
      /\ b.raw = d.raw /\ b.rawsize = d.rawsize /\ b.cmd = d.cmd /\ b.nscn = d.nscn
      /\ b.layout = d.layout /\ b.scns = d.scns /\ b.nphdr = n
      /\ b.phdr = IF n = 0 THEN None ELSE table
  BY DEF Opens, Descs
<1>5. PhMeant(b, table)
  BY <1>3, <1>4, NoneIsNothing DEF PhMeant
<1>6. MeansObject(d, m, p)
  BY DEF Means
<1>7. MeansObject(b, m, table)
  <2>1. Full(d) <=> Full(b)
    BY <1>4 DEF Full
  <2>2. ScnsMeant(b, m) /\ Sections(b) = Sections(d)
    BY <1>4, <1>6 DEF MeansObject, ScnsMeant, Sections
  <2>3. Unloaded(d, m) => Unloaded(b, m)
    BY <1>4 DEF Unloaded
  <2> QED
    BY <1>4, <1>5, <1>6, <2>1, <2>2, <2>3 DEF MeansObject
<1> QED
  BY <1>3, <1>4, <1>7 DEF Means

LEMMA NewPhdrMeant ==
  ASSUME LayoutInv, TypeInv, MeantInv, NEW n \in Phnums, NewPhdr(n) PROVE MeantInv'
<1>1. /\ e # None /\ e \in Opens /\ e \in Descs /\ Shaped(e) /\ CanRead(e)
  BY CallFinds DEF NewPhdr
<1> DEFINE w == WithEhdr(Work(e))
           table == [k \in 1..n * PhdrSize |-> Ph("new")]
           d == w.e
           b == [d EXCEPT !.nphdr = n, !.phdr = IF n = 0 THEN None ELSE table]
<1>2. /\ IF w.how # "ok" THEN Finish("phdr", w) /\ UNCHANGED meantPh
         ELSE Finish("phdr", With(w, b)) /\ meantPh' = table
      /\ UNCHANGED meant
  BY DEF NewPhdr
<1>3. Later(e, w.e) /\ w \in Readies(e.cmd) /\ d \in Opens
  BY <1>1, HeaderCallLater
<1>4. Means(e, meant, meantPh) /\ ~w.e.misread => Means(w.e, meant, meantPh)
  BY <1>1, HeaderCall
<1> HIDE DEF w
<1>5. CASE w.how # "ok"
  BY <1>1, <1>2, <1>3, <1>4, <1>5, FinishKeepsMeant
<1>6. CASE w.how = "ok"
  <2>1. n \in Nat
    BY ElfUpdateAssumption DEF ElfUpdateAssumption
  <2>2. d.ehdr # None
    BY <1>3, <1>6, NoneIsNothing DEF Readies
  <2>3. b.cmd = d.cmd /\ b.writes = d.writes /\ b.misread = d.misread
    BY <1>3 DEF Opens, Descs
  <2>4. MeansNow(b) => MeansNow(e) /\ ~w.e.misread
    BY <1>3, <2>3 DEF MeansNow, Later
  <2>5. With(w, b).e = b
    BY <1>3, WorkForm DEF With, Readies
  <2> DEFINE t == table
             z == b
  <2>6. z = [d EXCEPT !.nphdr = n, !.phdr = IF n = 0 THEN None ELSE t]
    OBVIOUS
  <2>7. t = [k \in 1..n * PhdrSize |-> Ph("new")]
    OBVIOUS
  <2>8. /\ Finish("phdr", With(w, z)) /\ meantPh' = t /\ With(w, z).e = z /\ meant' = meant
        /\ MeansNow(z) => MeansNow(e) /\ ~w.e.misread
    BY <1>2, <1>6, <2>4, <2>5
  <2> HIDE DEF t, z, d
  <2>9. t \in Seq(Unit)
    <3>1. n * PhdrSize \in Nat
      BY <2>1, Sizes, Multiples
    <3>2. Ph("new") \in Unit
      BY DEF Unit
    <3> QED
      BY <2>7, <3>1, <3>2
  <2>10. Means(d, meant, meantPh) => Means(z, meant, t)
    BY <1>3, <2>1, <2>2, <2>6, <2>7, NewTable
  <2>11. MeansNow(z) => Means(z, meant, t)
    BY <1>1, <1>4, <2>8, <2>10 DEF MeantInv, d
  <2>12. meant \in Seq(Seq(Unit))
    BY DEF MeantInv
  <2> DEFINE v == With(w, z)
  <2>13. /\ Finish("phdr", v) /\ meant' \in Seq(Seq(Unit)) /\ meantPh' \in Seq(Unit)
         /\ MeansNow(v.e) => Means(v.e, meant', meantPh')
    BY <2>8, <2>9, <2>11, <2>12
  <2> HIDE DEF v
  <2> QED
    BY <2>13, FinishMeant
<1> QED
  BY <1>5, <1>6

\* A new section has no contents yet.
Empty(s) == s \in Scns /\ s.data = <<>> /\ s.size = 0 /\ s.ssize = 0

LEMMA EmptyMeant ==
  ASSUME NEW s, Empty(s), NEW layout, NEW raw
  PROVE  ScnMeant(layout, raw, s, <<>>)
BY DEF Empty, ScnMeant

LEMMA NewSectionMeant ==
  ASSUME NEW d \in Opens, Shaped(d), d.ehdr # None, Full(d),
         NEW m \in Seq(Seq(Unit)), NEW p, Means(d, m, p),
         NEW n, n = IF d.scns = <<>> THEN 1 ELSE d.nscn, (d.scns = <<>>) = (d.nscn = 0),
         NEW s, Empty(s), NEW b, b = NewSection(d, n, s)
  PROVE  Means(b, Append(m, <<>>), p) /\ Append(m, <<>>) \in Seq(Seq(Unit))
<1> DEFINE z == Append(m, <<>>)
<1>1. d.nscn \in Nat /\ n \in Nat /\ n > 0
  BY DEF Opens, Descs
<1>2.
      /\ b.raw = d.raw /\ b.rawsize = d.rawsize /\ b.ehdr = d.ehdr /\ b.phdr = d.phdr /\ b.nphdr = d.nphdr
      /\ b.cmd = d.cmd /\ b.layout = d.layout
      /\ DOMAIN b.scns = DOMAIN d.scns \cup {n} \cup (IF d.scns = <<>> THEN {0} ELSE {})
      /\ b.nscn = n + 1 /\ b.scns[n] = s
      /\ \A j \in DOMAIN d.scns : j # n => b.scns[j] = d.scns[j]
  BY <1>1, NewSectionForm DEF Empty
<1>3. MeansObject(d, m, p)
  BY DEF Means
<1>4. Len(m) = n - 1
  BY <1>1, <1>3 DEF MeansObject, Sections, Larger
<1>5. /\ z \in Seq(Seq(Unit)) /\ Len(z) = n /\ z[n] = <<>>
      /\ \A j \in 1..n - 1 : z[j] = m[j]
  BY <1>1, <1>4, Joins
<1> HIDE DEF z
<1>6. \A j \in DOMAIN d.scns \ {0} : j \in 1..n - 1
  BY <1>1 DEF Shaped
<1>7. ScnsMeant(b, z)
  <2> SUFFICES ASSUME NEW j \in DOMAIN b.scns \ {0}
               PROVE  ScnMeant(b.layout, b.raw, b.scns[j], z[j])
    BY DEF ScnsMeant
  <2>1. CASE j = n
    BY <1>2, <1>5, <2>1, EmptyMeant
  <2>2. CASE j # n
    <3>1. j \in DOMAIN d.scns \ {0}
      BY <1>2, <2>2
    <3>2. ScnMeant(d.layout, d.raw, d.scns[j], m[j])
      BY <1>3, <3>1 DEF MeansObject, ScnsMeant
    <3>3. b.scns[j] = d.scns[j] /\ z[j] = m[j]
      BY <1>2, <1>5, <1>6, <2>2, <3>1
    <3> QED
      BY <1>2, <3>2, <3>3
  <2> QED
    BY <2>1, <2>2
<1>8. Full(b) /\ Len(z) = Sections(b)
  <2>1. Sections(b) = n
    BY <1>1, <1>2 DEF Sections, Larger
  <2>2. 0..n \subseteq DOMAIN b.scns
    <3>1. CASE d.scns = <<>>
      BY <1>2, <3>1
    <3>2. CASE d.scns # <<>>
      BY <1>1, <1>2, <3>2 DEF Full
    <3> QED
      BY <3>1, <3>2
  <2> QED
    BY <1>1, <1>2, <1>5, <2>1, <2>2 DEF Full
<1>9. PhMeant(b, p)
  BY <1>2, <1>3 DEF MeansObject, PhMeant
<1>10. MeansObject(b, z, p)
  BY <1>1, <1>2, <1>3, <1>7, <1>8, <1>9 DEF MeansObject
<1> QED
  BY <1>2, <1>5, <1>10 DEF Means, z

LEMMA NewScnMeant ==
  ASSUME LayoutInv, TypeInv, MeantInv, NEW type \in {"progbits", "nobits"}, NEW align \in Aligns,
         NewScn(type, align)
  PROVE  MeantInv'
<1> DEFINE w == Opened(e)
           d == w.e
           none == d.scns = <<>>
           n == IF none THEN 1 ELSE d.nscn
           s == [NoScn EXCEPT !.type = type, !.align = align, !.dirty = TRUE]
           new == NewSection(d, n, s)
<1>1. /\ e # None /\ e \in Opens /\ Shaped(e) /\ CanRead(e)
  BY CallFinds DEF NewScn
<1>2. w \in Readies(e.cmd) /\ Shaped(d) /\ d \in Descs /\ w \in Works /\ d \in Opens /\ Later(e, d)
  BY <1>1, OpenedShape, OpenedLater
<1>3. /\ meantPh' = meantPh
      /\ \/ Finish("scn", w) /\ meant' = meant
         \/ Finish("scn", Fails(w, "abort")) /\ meant' = meant
         \/ /\ w.how = "ok" /\ none = (d.nscn = 0)
            /\ Finish("scn", With(w, new)) /\ meant' = Append(meant, <<>>)
  BY DEF NewScn, NewSection
<1>4. Means(e, meant, meantPh) /\ ~d.misread =>
        Means(d, meant, meantPh) /\ (w.how = "ok" => Full(d) /\ d.ehdr \in Ehdrs)
  BY <1>1, OpenedMeant
<1> HIDE DEF w
<1>5. /\ Fails(w, "abort").e = d /\ With(w, new).e = new
  BY <1>2 DEF With, Fails, Works
<1>6. CASE meant' = meant /\ Finish("scn", w)
  BY <1>1, <1>2, <1>3, <1>4, <1>6, FinishKeepsMeant
<1>7. CASE meant' = meant /\ Finish("scn", Fails(w, "abort"))
  <2> DEFINE v == Fails(w, "abort")
  <2>1. Finish("scn", v) /\ v.e = d
    BY <1>5, <1>7
  <2> HIDE DEF v, d
  <2> QED
    BY <1>1, <1>2, <1>3, <1>4, <1>7, <2>1, FinishKeepsMeant
<1>8. CASE /\ w.how = "ok" /\ none = (d.nscn = 0)
           /\ Finish("scn", With(w, new)) /\ meant' = Append(meant, <<>>)
  <2>1. n \in Nat /\ n > 0 /\ Empty(s)
    <3>1. s \in Scns
      BY LoadedType, ElfUpdateAssumption DEF Scns, Kinds, ElfUpdateAssumption
    <3>2. d.nscn \in Nat
      BY <1>2 DEF Descs
    <3>3. s.data = <<>> /\ s.size = 0 /\ s.ssize = 0
      BY DEF NoScn
    <3> QED
      BY <1>8, <3>1, <3>2, <3>3 DEF Empty
  <2> DEFINE z == new
             t == s
  <2>2. z = NewSection(d, n, t)
    OBVIOUS
  <2> HIDE DEF t
  <2>3. z.cmd = d.cmd /\ z.writes = d.writes /\ z.misread = d.misread
    <3>1. t \in Scns
      BY <2>1 DEF Empty, t
    <3> HIDE DEF n, d, z
    <3> QED
      BY <1>2, <2>1, <2>2, <3>1, NewSectionForm
  <2>4. Finish("scn", With(w, z)) /\ With(w, z).e = z
    BY <1>5, <1>8 DEF t
  <2> HIDE DEF z
  <2>5. MeansNow(z) => MeansNow(e) /\ ~d.misread
    BY <1>2, <2>3 DEF MeansNow, Later
  <2>6. meant \in Seq(Seq(Unit)) /\ meantPh \in Seq(Unit)
    BY DEF MeantInv
  <2>7. Append(meant, <<>>) \in Seq(Seq(Unit))
    BY <2>6, Joins
  <2>8. MeansNow(z) => Means(z, Append(meant, <<>>), meantPh)
    <3> HAVE MeansNow(z)
    <3>1. Means(d, meant, meantPh) /\ Full(d) /\ d.ehdr \in Ehdrs
      BY <1>1, <1>4, <1>8, <2>5 DEF MeantInv
    <3>2. d.ehdr # None
      BY <3>1, NoneIsNothing
    <3>3. Empty(t) /\ (d.scns = <<>>) = (d.nscn = 0)
      BY <1>8, <2>1 DEF t
    <3>4. n = IF d.scns = <<>> THEN 1 ELSE d.nscn
      OBVIOUS
    <3> HIDE DEF n, d
    <3> QED
      BY <1>2, <2>2, <2>6, <3>1, <3>2, <3>3, <3>4, NewSectionMeant
  <2> DEFINE v == With(w, z)
  <2>9. /\ Finish("scn", v) /\ meant' \in Seq(Seq(Unit)) /\ meantPh' \in Seq(Unit)
        /\ MeansNow(v.e) => Means(v.e, meant', meantPh')
    BY <1>3, <1>8, <2>4, <2>6, <2>7, <2>8
  <2> HIDE DEF v
  <2> QED
    BY <2>9, FinishMeant
<1> QED
  BY <1>3, <1>6, <1>7, <1>8

LEMMA OnlySectionsMeant ==
  ASSUME NEW d, NEW b, OnlySections(d, b), d.ehdr # None, NEW m, NEW p, Means(d, m, p),
         ScnsMeant(b, m)
  PROVE  Means(b, m, p)
<1>1. MeansObject(d, m, p)
  BY DEF Means
<1>2. /\ b.ehdr = d.ehdr /\ b.layout = d.layout /\ b.cmd = d.cmd /\ b.nphdr = d.nphdr
      /\ b.nscn = d.nscn /\ b.phdr = d.phdr
      /\ b.raw = d.raw /\ b.rawsize = d.rawsize /\ DOMAIN b.scns = DOMAIN d.scns
  BY DEF OnlySections
<1>3. PhMeant(b, p)
  BY <1>1, <1>2 DEF MeansObject, PhMeant
<1>4. (Full(b) <=> Full(d)) /\ Sections(b) = Sections(d)
  BY <1>2 DEF Full, Sections
<1>5. Unloaded(d, m) => Unloaded(b, m)
  BY <1>2 DEF Unloaded
<1> QED
  BY <1>1, <1>2, <1>3, <1>4, <1>5 DEF Means, MeansObject

\* The data of section i is read.
LEMMA DataMeant ==
  ASSUME NEW d \in Opens, Shaped(d), NEW i \in DOMAIN d.scns, NEW m, NEW p, Means(d, m, p),
         NEW v, v = WithData(Work(d), i), ~v.e.misread
  PROVE  /\ Means(v.e, m, p) /\ (v.how = "ok" => v.e.scns[i].data # <<>>)
         /\ v.e.scns[i].type = d.scns[i].type
<1>0. d.ehdr # None
  BY DEF Shaped
<1>1. Work(d) \in Goods(d.cmd) /\ Work(d).e = d /\ Work(d).how = "ok"
  BY WorkType
<1> DEFINE o == Work(d)
<1>2. \/ v.how \in {"error", "fault"} /\ v = Fails(o, v.how)
      \/ /\ v.how = "ok"
         /\ \E s, q : /\ SeenAs(o.e, i, s, q) /\ s.data # <<>>
                      /\ v = With(o, Section(o.e, i, s, q))
  <2>1. o \in Goods(d.cmd) /\ o.how = "ok" /\ i \in DOMAIN o.e.scns /\ v = WithData(o, i)
    BY <1>1
  <2> HIDE DEF o
  <2> QED
    BY ONLY <2>1, WithDataGives
<1>3. CASE v.how \in {"error", "fault"} /\ v = Fails(o, v.how)
  <2>1. v.e = d
    BY <1>1, <1>3, WorkForm
  <2> QED
    BY <1>3, <2>1
<1>4. ASSUME NEW s, NEW q, SeenAs(d, i, s, q), s.data # <<>>, v = With(o, Section(d, i, s, q))
      PROVE  /\ Means(v.e, m, p) /\ v.e.scns[i].data # <<>>
             /\ v.e.scns[i].type = d.scns[i].type
  <2> DEFINE b == Section(d, i, s, q)
             raw == d.raw
             layout == d.layout
             x == d.scns[i]
             a == m[i]
  <2>1. v.e = b
    <3> HIDE DEF b
    <3> QED
      BY <1>1, <1>4 DEF With, Goods, Works, b
  <2>2. s \in Scns /\ (d.misread => q) /\ s.type = d.scns[i].type
    BY <1>4, SeenType
  <2>3. OnlySections(d, b) /\ b.scns[i] = s /\ b.misread = q
        /\ \A j \in DOMAIN d.scns \ {i} : b.scns[j] = d.scns[j]
    <3> HIDE DEF b
    <3> QED
      BY <2>2, SectionFrame DEF b
  <2>4. ~q
    BY <2>1, <2>3
  <2>5. ScnsMeant(d, m) /\ (d.raw \in Seq(Unit) => Clean(d.raw))
    BY <1>0 DEF Means, MeansObject
  <2> HIDE DEF b
  <2>6. i # 0 => ScnMeant(layout, raw, s, a)
    <3> HAVE i # 0
    <3>1. ScnMeant(layout, raw, x, a)
      BY <2>5 DEF ScnsMeant
    <3>2. Sees(d, i, x, raw, s, q, layout, a)
      <4>1. x = d.scns[i] /\ raw = d.raw /\ (raw \in Seq(Unit) => Clean(raw))
        BY <2>5
      <4> HIDE DEF x, raw, layout, a
      <4> QED
        BY <1>4, <2>4, <3>1, <4>1 DEF Sees
    <3> HIDE DEF x, raw, layout, a
    <3> QED
      BY <3>2, MeantSeen
  <2>7. ScnsMeant(b, m)
    <3> SUFFICES ASSUME NEW j \in DOMAIN b.scns \ {0}
                 PROVE  ScnMeant(b.layout, b.raw, b.scns[j], m[j])
      BY DEF ScnsMeant
    <3>1. b.layout = d.layout /\ b.raw = d.raw /\ DOMAIN b.scns = DOMAIN d.scns
      BY <2>3 DEF OnlySections
    <3>2. CASE j = i
      BY <2>3, <2>6, <3>1, <3>2
    <3>3. CASE j # i
      BY <2>3, <2>5, <3>1, <3>3 DEF ScnsMeant
    <3> QED
      BY <3>2, <3>3
  <2>8. Means(b, m, p)
    BY <1>0, <2>3, <2>7, OnlySectionsMeant
  <2> QED
    BY <1>4, <2>1, <2>2, <2>3, <2>8
<1> HIDE DEF o
<1> QED
  BY <1>1, <1>2, <1>3, <1>4 DEF o

LEMMA GetDataMeant ==
  ASSUME LayoutInv, TypeInv, MeantInv, NEW i \in 0..MaxScns, GetData(i) PROVE MeantInv'
<1>1. /\ e # None /\ e \in Opens /\ Shaped(e)
  BY CallFinds DEF GetData
<1> DEFINE w == WithData(Work(e), i)
<1>2. Finish("data", w) /\ UNCHANGED <<meant, meantPh>> /\ i \in DOMAIN e.scns
  BY DEF GetData
<1>3. Later(e, w.e)
  BY <1>1, <1>2, WithDataShape, LaterForms
<1>4. Means(e, meant, meantPh) /\ ~w.e.misread => Means(w.e, meant, meantPh)
  BY <1>1, <1>2, DataMeant
<1> HIDE DEF w
<1> QED
  BY <1>1, <1>2, <1>3, <1>4, FinishKeepsMeant

\* One more buffer
LEMMA JoinedMore ==
  ASSUME NEW data \in DataLists, NEW a \in Seq(Unit), JoinMeant(data, a),
         NEW x \in Datum, x.align # 0, NEW u, u = x.units, Clean(u),
         NEW more, more = Append(data, x)
  PROVE  more \in DataLists /\ more # <<>> /\ JoinMeant(more, a \o u)
<1> DEFINE n == Len(data)
<1>1. n \in Nat /\ data \in Seq(Datum) /\ \A k \in 2..n : data[k].align # 0
  BY DEF DataLists
<1>2. /\ Len(more) = n + 1 /\ more[n + 1] = x /\ more \in Seq(Datum)
      /\ \A k \in 1..n : more[k] = data[k]
  BY <1>1
<1>3. more \in DataLists /\ more # <<>>
  <2>1. \A k \in 2..n + 1 : more[k].align # 0
    <3> HIDE DEF n
    <3> QED
      BY <1>1, <1>2
  <2>2. more # <<>>
    BY <1>1, <1>2
  <2> HIDE DEF n
  <2> QED
    BY <1>2, <2>1, <2>2 DEF DataLists
<1>4. u \in Seq(Unit)
  BY DEF Datum
<1>5. PICK g : Joined(data, g) /\ Alike(g[n], a)
  BY DEF JoinMeant
<1>6. \A k \in 1..n : Clean(data[k].units)
  BY DEF JoinMeant
<1> DEFINE h == [k \in 0..n + 1 |-> IF k <= n THEN g[k] ELSE g[n] \o u]
<1>7. g[0] = <<>> /\ (\A k \in 0..n : g[k] \in Seq(Unit))
      /\ \A k \in 1..n : g[k] = g[k - 1] \o data[k].units
  BY <1>5 DEF Joined
<1>8. g[n] \in Seq(Unit)
  BY <1>1, <1>7
<1>9. g[n] \o u \in Seq(Unit)
  BY <1>4, <1>8, Joins
<1>10. /\ \A k \in 0..n : h[k] = g[k]
       /\ h[n + 1] = g[n] \o u
  <2> DEFINE y == g[n] \o u
  <2>1. h = [k \in 0..n + 1 |-> IF k <= n THEN g[k] ELSE y] /\ n \in Nat
    BY <1>1
  <2> HIDE DEF n, h, y
  <2>2. /\ \A k \in 0..n : h[k] = g[k]
        /\ h[n + 1] = y
    BY ONLY <2>1
  <2> QED
    BY <2>2 DEF y
<1>14. n = Len(data)
  OBVIOUS
<1> HIDE DEF h, n
<1>11. Joined(more, h)
  <2>1. h[0] = <<>>
    BY <1>1, <1>7, <1>10
  <2>2. ASSUME NEW k \in 0..n + 1 PROVE h[k] \in Seq(Unit)
    <3>1. k \in 0..n \/ k = n + 1
      BY <1>1
    <3>2. k = n + 1 => h[k] \in Seq(Unit)
      BY <1>9, <1>10
    <3>3. k \in 0..n => h[k] \in Seq(Unit)
      BY <1>7, <1>10, <1>14
    <3> QED
      BY ONLY <3>1, <3>2, <3>3
  <2>3. ASSUME NEW k \in 1..n + 1 PROVE h[k] = h[k - 1] \o more[k].units
    <3>1. CASE k = n + 1
      <4>0. k - 1 = n /\ n \in 0..n
        BY <1>1, <3>1
      <4>1. h[k - 1] = g[n] /\ more[k].units = u /\ h[k] = g[n] \o u
        BY <1>2, <1>10, <3>1, <4>0
      <4> QED
        BY ONLY <4>1
    <3>2. CASE k # n + 1
      <4>1. k \in 1..n /\ k \in 0..n /\ k - 1 \in 0..n
        BY <1>1, <3>2
      <4>2. h[k] = g[k] /\ h[k - 1] = g[k - 1] /\ more[k] = data[k]
        BY <1>2, <1>10, <4>1
      <4>3. g[k] = g[k - 1] \o data[k].units
        BY <1>7, <4>1
      <4> QED
        BY ONLY <4>2, <4>3
    <3> QED
      BY <3>1, <3>2
  <2> QED
    BY <1>2, <2>1, <2>2, <2>3 DEF Joined
<1>12. Alike(h[n + 1], a \o u)
  BY <1>4, <1>5, <1>8, <1>10, AlikeJoin
<1>13. ASSUME NEW k \in 1..n + 1 PROVE Clean(more[k].units)
  BY <1>1, <1>2, <1>6
<1> QED
  BY <1>2, <1>3, <1>11, <1>12, <1>13 DEF JoinMeant

\* One of the contents is another.
LEMMA OneOther ==
  ASSUME NEW m \in Seq(Seq(Unit)), NEW i \in 1..Len(m), NEW a \in Seq(Unit),
         NEW n, n = [m EXCEPT ![i] = a]
  PROVE  /\ n \in Seq(Seq(Unit)) /\ Len(n) = Len(m) /\ n[i] = a
         /\ \A j \in 1..Len(m) : j # i => n[j] = m[j]
OBVIOUS

\* The client changes section i, and what it means by it.
LEMMA SectionChanged ==
  ASSUME NEW d \in Opens, Shaped(d), NEW i \in DOMAIN d.scns, i # 0,
         NEW m \in Seq(Seq(Unit)), NEW p, Means(d, m, p), NEW a \in Seq(Unit),
         NEW z, ScnMeant(d.layout, d.raw, z, a),
         NEW b, b = [d EXCEPT !.scns[i] = z]
  PROVE  /\ Means(b, [m EXCEPT ![i] = a], p) /\ [m EXCEPT ![i] = a] \in Seq(Seq(Unit))
         /\ Later(d, b) /\ i \in 1..Len(m)
<1> DEFINE n == [m EXCEPT ![i] = a]
<1>0. d.ehdr # None /\ d.nscn \in Nat
  BY DEF Shaped, Opens, Descs
<1>1. b = Section(d, i, z, d.misread)
  BY SectionForm
<1>2. /\ OnlySections(d, b) /\ b.scns[i] = z
      /\ \A j \in DOMAIN d.scns \ {i} : b.scns[j] = d.scns[j]
  <2> DEFINE q == d.misread
  <2>1. b = Section(d, i, z, q) /\ (d.misread => q)
    BY <1>1
  <2> HIDE DEF q
  <2> QED
    BY ONLY d \in Opens, i \in DOMAIN d.scns, <2>1, SectionFrame
<1>3. /\ b.ehdr = d.ehdr /\ b.layout = d.layout /\ b.cmd = d.cmd /\ b.nphdr = d.nphdr
      /\ b.nscn = d.nscn /\ b.phdr = d.phdr
      /\ b.raw = d.raw /\ b.rawsize = d.rawsize /\ DOMAIN b.scns = DOMAIN d.scns
  BY <1>2 DEF OnlySections
<1>4. MeansObject(d, m, p)
  BY <1>0 DEF Means
<1>5. Full(d) /\ Len(m) = Sections(d)
  BY <1>4 DEF MeansObject, Unloaded
<1>6. DOMAIN d.scns \ {0} \subseteq 1..Len(m)
  BY <1>0, <1>5 DEF Shaped, Sections, Larger
<1>7. i \in 1..Len(m)
  BY <1>6
<1>8. /\ n \in Seq(Seq(Unit)) /\ Len(n) = Len(m) /\ n[i] = a
      /\ \A j \in 1..Len(m) : j # i => n[j] = m[j]
  BY <1>7, OneOther
<1> HIDE DEF n
<1>9. ScnsMeant(b, n)
  <2> SUFFICES ASSUME NEW j \in DOMAIN b.scns \ {0}
               PROVE  ScnMeant(b.layout, b.raw, b.scns[j], n[j])
    BY DEF ScnsMeant
  <2>1. CASE j = i
    BY <1>2, <1>3, <1>8, <2>1
  <2>2. CASE j # i
    <3>1. ScnMeant(d.layout, d.raw, d.scns[j], m[j])
      BY <1>3, <1>4 DEF MeansObject, ScnsMeant
    <3>2. b.scns[j] = d.scns[j] /\ n[j] = m[j]
      BY <1>2, <1>3, <1>6, <1>8, <2>2
    <3> QED
      BY <1>3, <3>1, <3>2
  <2> QED
    BY <2>1, <2>2
<1>10. PhMeant(b, p)
  BY <1>3, <1>4 DEF MeansObject, PhMeant
<1>11. Full(b) /\ Len(n) = Sections(b)
  BY <1>3, <1>5, <1>8 DEF Full, Sections
<1>12. Means(b, n, p)
  BY <1>0, <1>3, <1>4, <1>9, <1>10, <1>11 DEF Means, MeansObject
<1> QED
  BY <1>2, <1>7, <1>8, <1>12, LaterForms DEF n

\* A section with one more buffer
LEMMA AddedMeant ==
  ASSUME NEW layout \in BOOLEAN, NEW raw, NEW s \in Scns, NEW a \in Seq(Unit),
         ScnMeant(layout, raw, s, a), s.type = "progbits",
         s.data = <<>> => raw = None \/ s.ssize = 0,
         NEW x \in Datum, x.align # 0, x.off = 0, NEW u, u = x.units, Clean(u),
         NEW data, data = Append(s.data, x),
         NEW z, z.type = s.type, z.data = IF layout THEN Placed(data) ELSE data
  PROVE  data \in DataLists /\ ScnMeant(layout, raw, z, a \o u)
<1>0. u \in Seq(Unit) /\ s.data \in DataLists /\ x.align \in Nat
  BY DEF Datum, Scns
<1>1. data \in DataLists /\ data # <<>> /\ JoinMeant(data, a \o u)
  <2>1. CASE s.data = <<>>
    <3>1. s.size = 0 /\ a = <<>>
      <4>1. s.ssize = s.size /\ (s.size = 0 => a = <<>>) /\ (s.size > 0 => raw # None)
        BY <2>1 DEF ScnMeant
      <4>2. s.size \in Nat
        BY DEF Scns
      <4> QED
        BY <2>1, <4>1, <4>2
    <3>2. data = <<x>> /\ x = [align |-> x.align, off |-> 0, units |-> u]
      BY <2>1 DEF Datum
    <3>3. /\ data \in DataLists /\ data # <<>>
          /\ \A m : Alike(u, m) /\ Clean(u) => JoinMeant(data, m)
      <4> DEFINE al == x.align
      <4>1. data = <<[align |-> al, off |-> 0, units |-> u]>> /\ al \in Nat
        BY <1>0, <3>2
      <4> HIDE DEF al
      <4> QED
        BY <1>0, <4>1, OneBuffer
    <3>4. JoinMeant(data, u)
      BY <3>3, AlikeProperties
    <3>5. a \o u = u
      BY <1>0, <3>1, Joins
    <3> QED
      BY <3>3, <3>4, <3>5
  <2>2. CASE s.data # <<>>
    <3>1. JoinMeant(s.data, a)
      BY <2>2 DEF ScnMeant
    <3> DEFINE o == s.data
    <3>2. o \in DataLists /\ data = Append(o, x) /\ JoinMeant(o, a)
      BY <1>0, <3>1
    <3> HIDE DEF o
    <3> QED
      BY <3>2, JoinedMore
  <2> QED
    BY <2>1, <2>2
<1>2. /\ Placed(data) \in DataLists /\ Placed(Placed(data)) = Placed(data)
      /\ JoinMeant(Placed(data), a \o u) /\ Len(Placed(data)) = Len(data)
  BY <1>1, PlacedType, PlacedTwice, PlacedMeant
<1>3. Placed(data) # <<>>
  <2>1. data \in Seq(Datum) /\ Len(data) # 0 /\ Len(<<>>) = 0
    BY <1>1 DEF DataLists
  <2> QED
    BY <1>2, <2>1
<1>4. JoinMeant(z.data, a \o u) /\ z.data # <<>> /\ (layout => Placed(z.data) = z.data)
  BY <1>1, <1>2, <1>3
<1> QED
  BY <1>1, <1>4 DEF ScnMeant

LEMMA NewDataMeant ==
  ASSUME LayoutInv, TypeInv, MeantInv, NEW i \in 1..MaxScns, NEW b \in Buffers, NewData(i, b)
  PROVE  MeantInv'
<1> DEFINE reads == e.raw # None /\ e.scns[i].ssize > 0 /\ e.scns[i].data = <<>>
           w == IF reads THEN WithData(Work(e), i) ELSE Work(e)
           s == w.e.scns[i]
           datum == [align |-> b.align, off |-> 0, units |-> b.units]
           data == Append(s.data, datum)
           z == [s EXCEPT !.dirty = TRUE,
                          !.data = IF e.layout THEN Placed(data) ELSE data,
                          !.size = IF e.layout THEN Extent(Placed(data)) ELSE @]
           new == [w.e EXCEPT !.scns[i] = z]
           wn == With(w, new)
           a == meant[i]
           u == b.units
<1>1. /\ e # None /\ e \in Opens /\ Shaped(e) /\ i \in DOMAIN e.scns /\ i \in DOMAIN meant
      /\ e.scns[i].type = "progbits"
  BY CallFinds DEF NewData, HasData
<1>2. /\ \/ w.how # "ok" /\ Finish("data", w) /\ meant' = meant
         \/ w.how = "ok" /\ Finish("data", wn) /\ meant' = [meant EXCEPT ![i] = a \o u]
      /\ meantPh' = meantPh
  BY DEF NewData
<1>3. /\ w \in Goods(e.cmd) /\ Shaped(w.e) /\ w.e \in Opens /\ i \in DOMAIN w.e.scns
      /\ OnlySections(e, w.e) /\ Later(e, w.e)
      /\ Means(e, meant, meantPh) /\ ~w.e.misread =>
           /\ Means(w.e, meant, meantPh) /\ w.e.scns[i].type = "progbits"
           /\ w.how = "ok" /\ w.e.scns[i].data = <<>> =>
                w.e.raw = None \/ w.e.scns[i].ssize = 0
  <2>1. Work(e) \in Goods(e.cmd) /\ Work(e).e = e
    BY <1>1, WorkType
  <2> DEFINE v == WithData(Work(e), i)
  <2>2. /\ v \in Goods(e.cmd) /\ Shaped(v.e) /\ v.e \in Opens /\ i \in DOMAIN v.e.scns
        /\ OnlySections(e, v.e)
    BY <1>1, WithDataShape
  <2>3. Means(e, meant, meantPh) /\ ~v.e.misread =>
          /\ Means(v.e, meant, meantPh) /\ v.e.scns[i].type = "progbits"
          /\ v.how = "ok" => v.e.scns[i].data # <<>>
    BY <1>1, DataMeant
  <2> HIDE DEF v
  <2>4. CASE reads
    <3>1. w = v
      BY <2>4 DEF v
    <3> HIDE DEF w, reads
    <3> QED
      BY <2>2, <2>3, <3>1, LaterForms
  <2>5. CASE ~reads
    <3>1. w.e = e /\ w \in Goods(e.cmd)
      BY <2>1, <2>5
    <3>2. e.scns[i].data = <<>> => e.raw = None \/ e.scns[i].ssize = 0
      <4>1. e.scns[i].ssize \in Nat
        BY <1>1, ScnOf DEF Scns
      <4> QED
        BY <2>5, <4>1
    <3> HIDE DEF w, reads
    <3> QED
      BY <1>1, <3>1, <3>2, OnlySectionsTwice, LaterForms
  <2> QED
    BY <2>4, <2>5
<1> HIDE DEF w
<1>4. CASE w.how # "ok" /\ Finish("data", w) /\ meant' = meant
  BY <1>1, <1>2, <1>3, <1>4, FinishKeepsMeant
<1>5. CASE w.how = "ok" /\ Finish("data", wn) /\ meant' = [meant EXCEPT ![i] = a \o u]
  <2> DEFINE d == w.e
             y == new
             zz == z
  <2>1. wn.e = new
    BY <1>3 DEF With, Goods, Works
  <2>2. /\ s \in Scns /\ d \in Opens /\ Shaped(d) /\ i \in DOMAIN d.scns /\ i # 0
        /\ e.layout = d.layout /\ d.layout \in BOOLEAN
    BY <1>3, ScnOf DEF OnlySections, Opens, Descs
  <2>3. datum \in Datum /\ datum.align # 0 /\ datum.off = 0 /\ datum.units = u /\ Clean(u)
        /\ u \in Seq(Unit)
    <3>1. b.align \in Nat \ {0} /\ \A k \in DOMAIN u : u[k] # Junk
      BY ElfUpdateAssumption DEF ElfUpdateAssumption
    <3>2. u \in Seq(Unit)
      BY GivenType DEF Given
    <3>3. Clean(u)
      BY <3>1, <3>2 DEF Clean
    <3> QED
      BY <3>1, <3>2, <3>3 DEF Datum
  <2>4. meant \in Seq(Seq(Unit)) /\ meantPh \in Seq(Unit) /\ a \in Seq(Unit)
    BY <1>1 DEF MeantInv
  <2>5. a \o u \in Seq(Unit)
    BY <2>3, <2>4, Joins
  <2>6. zz.type = s.type /\ zz.data = IF d.layout THEN Placed(data) ELSE data
    BY <2>2 DEF Scns
  <2>7. y = [d EXCEPT !.scns[i] = zz]
    OBVIOUS
  <2>8. Later(d, y)
    <3>1. y.cmd = d.cmd /\ y.writes = d.writes /\ y.misread = d.misread
      BY <2>2, <2>7 DEF Opens, Descs
    <3> QED
      BY <3>1 DEF Later
  <2>9. Finish("data", wn) /\ wn.e = y /\ meant' = [meant EXCEPT ![i] = a \o u]
    BY <1>5, <2>1
  <2>10. data = Append(s.data, datum)
    OBVIOUS
  <2> HIDE DEF y, zz, wn, data, datum
  <2>11. [meant EXCEPT ![i] = a \o u] \in Seq(Seq(Unit))
    <3>1. i \in 1..Len(meant)
      BY <1>1, <2>4
    <3> DEFINE x == a \o u
    <3>2. x \in Seq(Unit)
      BY <2>5
    <3> HIDE DEF x
    <3>3. [meant EXCEPT ![i] = x] \in Seq(Seq(Unit))
      BY <2>4, <3>1, <3>2, OneOther
    <3> QED
      BY <3>3 DEF x
  <2>12. ASSUME MeansNow(y) PROVE Means(y, [meant EXCEPT ![i] = a \o u], meantPh)
    <3>1. MeansNow(e) /\ ~d.misread
      BY <1>3, <2>8, <2>12 DEF MeansNow, Later
    <3>2. Means(e, meant, meantPh)
      BY <1>1, <3>1 DEF MeantInv
    <3>3. /\ Means(d, meant, meantPh) /\ s.type = "progbits"
          /\ s.data = <<>> => d.raw = None \/ s.ssize = 0
      BY <1>3, <1>5, <3>1, <3>2
    <3>4. ScnMeant(d.layout, d.raw, s, a)
      <4>1. d.ehdr # None
        BY <2>2 DEF Shaped
      <4> QED
        BY <2>2, <3>3, <4>1 DEF Means, MeansObject, ScnsMeant
    <3> DEFINE layout == d.layout
               raw == d.raw
               x == a \o u
    <3>5. /\ ScnMeant(layout, raw, s, a) /\ layout \in BOOLEAN
          /\ s.data = <<>> => raw = None \/ s.ssize = 0
          /\ zz.type = s.type /\ zz.data = IF layout THEN Placed(data) ELSE data
      BY <2>2, <2>6, <3>3, <3>4
    <3> HIDE DEF layout, raw, a, u, s, d
    <3>6. ScnMeant(layout, raw, zz, a \o u)
      BY <2>2, <2>3, <2>4, <2>10, <3>3, <3>5, AddedMeant
    <3>7. ScnMeant(d.layout, d.raw, zz, x) /\ x \in Seq(Unit)
      BY <2>5, <3>6 DEF layout, raw
    <3> HIDE DEF x
    <3>8. Means(y, [meant EXCEPT ![i] = x], meantPh)
      BY <2>2, <2>4, <2>7, <3>3, <3>7, SectionChanged
    <3> QED
      BY <3>8 DEF x
  <2>13. /\ Finish("data", wn) /\ meant' \in Seq(Seq(Unit)) /\ meantPh' \in Seq(Unit)
         /\ MeansNow(wn.e) => Means(wn.e, meant', meantPh')
    BY <1>2, <2>4, <2>9, <2>11, <2>12
  <2> QED
    BY <2>13, FinishMeant
<1> QED
  BY <1>2, <1>4, <1>5

LEMMA MoveMeant ==
  ASSUME LayoutInv, TypeInv, MeantInv, NEW i \in 1..MaxScns, NEW off \in Offsets, Move(i, off)
  PROVE  MeantInv'
<1> DEFINE s == e.scns[i]
           z == [s EXCEPT !.off = off]
           a == meant[i]
<1>1. /\ e # None /\ e \in Opens /\ Shaped(e) /\ i \in DOMAIN e.scns /\ i \in DOMAIN meant
      /\ i # 0
  BY CallFinds DEF Move, HasData
<1>2. e' = [e EXCEPT !.scns[i] = z] /\ UNCHANGED <<meant, meantPh>>
  BY DEF Move
<1>3. meant \in Seq(Seq(Unit)) /\ meantPh \in Seq(Unit) /\ a \in Seq(Unit)
  BY <1>1 DEF MeantInv
<1>4. e'.cmd = e.cmd /\ e'.writes = e.writes /\ e'.misread = e.misread
  BY <1>1, <1>2 DEF Opens, Descs
<1>5. /\ z.type = s.type /\ z.data = s.data /\ z.dirty = s.dirty /\ z.size = s.size
      /\ z.ssize = s.ssize /\ z.rawoff = s.rawoff
  BY <1>1, ScnOf DEF Scns
<1>6. ASSUME MeansNow(e') PROVE Means(e', meant', meantPh')
  <2>1. Means(e, meant, meantPh)
    BY <1>1, <1>4, <1>6 DEF MeantInv, MeansNow
  <2>2. e.ehdr # None
    BY <1>1 DEF Shaped
  <2>3. ScnMeant(e.layout, e.raw, s, a)
    BY <1>1, <2>1, <2>2 DEF Means, MeansObject, ScnsMeant
  <2> DEFINE y == z
             b == e'
  <2>4. ScnMeant(e.layout, e.raw, y, a)
    <3> HIDE DEF z, s, a
    <3> QED
      BY <1>5, <2>3 DEF ScnMeant
  <2>5. b = [e EXCEPT !.scns[i] = y]
    BY <1>2
  <2>6. [meant EXCEPT ![i] = a] = meant
    BY <1>1, <1>3
  <2> HIDE DEF y, b, a
  <2>7. Means(b, [meant EXCEPT ![i] = a], meantPh)
    BY <1>1, <1>3, <2>1, <2>4, <2>5, SectionChanged
  <2> QED
    BY <1>2, <2>6, <2>7 DEF b
<1> QED
  BY <1>2, <1>3, <1>6 DEF MeantInv

\* The first unit of the first part
LEMMA FirstOfTwo ==
  ASSUME NEW a \in Seq(Unit), a # <<>>, NEW b \in Seq(Unit), NEW u \in Unit
  PROVE  [a \o b EXCEPT ![1] = u] = [a EXCEPT ![1] = u] \o b
<1> DEFINE x == [a EXCEPT ![1] = u]
           m == Len(a)
           n == Len(b)
           g == a \o b
           y == [g EXCEPT ![1] = u]
           z == x \o b
<1>1. m \in Nat /\ m > 0 /\ n \in Nat
  BY EmptyOne
<1>2. /\ x \in Seq(Unit) /\ Len(x) = m /\ x[1] = u
      /\ \A k \in 1..m : k # 1 => x[k] = a[k]
  BY <1>1
<1> HIDE DEF x
<1>3. /\ g \in Seq(Unit) /\ m + n = Len(g)
      /\ \A k \in 1..m : g[k] = a[k]
      /\ \A k \in 1..n : g[m + k] = b[k]
  BY TwoParts
<1>4. /\ z \in Seq(Unit) /\ m + n = Len(z)
      /\ \A k \in 1..m : z[k] = x[k]
      /\ \A k \in 1..n : z[m + k] = b[k]
  <2> HIDE DEF z, m, n
  <2>1. n = Len(b) /\ m = Len(x) /\ z = x \o b /\ x \in Seq(Unit) /\ b \in Seq(Unit)
    BY <1>2 DEF z, n
  <2> QED
    BY ONLY <2>1, TwoParts
<1> HIDE DEF g, z, m, n
<1>5. /\ y \in Seq(Unit) /\ Len(y) = m + n /\ y[1] = u
      /\ \A k \in 1..m + n : k # 1 => y[k] = g[k]
  BY <1>1, <1>3
<1> HIDE DEF y
<1>6. ASSUME NEW k \in 1..m + n PROVE y[k] = z[k]
  <2>1. CASE k = 1
    BY <1>1, <1>2, <1>4, <1>5, <2>1
  <2>2. CASE k # 1 /\ k <= m
    <3>1. k \in 1..m
      BY <1>1, <2>2
    <3> QED
      BY <1>2, <1>3, <1>4, <1>5, <2>2, <3>1
  <2>3. CASE k > m
    <3>1. PICK j \in 1..n : k = m + j
      <4>1. k - m \in 1..n /\ k = m + (k - m)
        BY <1>1, <2>3
      <4> QED
        BY <4>1
    <3> QED
      BY <1>1, <1>3, <1>4, <1>5, <2>3, <3>1
  <2> QED
    BY <1>1, <2>1, <2>2, <2>3
<1>7. y = z
  BY <1>4, <1>5, <1>6, SameUnits
<1> QED
  BY <1>7 DEF x, y, z, g

\* The first unit of the first buffer is another one.
Modified(data, u) ==
  [data EXCEPT ![1] = [data[1] EXCEPT !.units = [data[1].units EXCEPT ![1] = u]]]

LEMMA ModifiedForm ==
  ASSUME NEW data \in DataLists, data # <<>>, data[1].units # <<>>, NEW u \in Unit,
         NEW new, new = Modified(data, u), NEW n, n = Len(data)
  PROVE  /\ n \in Nat /\ n > 0 /\ new \in DataLists /\ Len(new) = n /\ new # <<>>
         /\ new[1].units = [data[1].units EXCEPT ![1] = u]
         /\ \A k \in 1..n : k # 1 => new[k] = data[k]
         /\ \A k \in 1..n : /\ new[k].align = data[k].align /\ new[k].off = data[k].off
                            /\ Len(new[k].units) = Len(data[k].units)
<1>1. data \in Seq(Datum) /\ n \in Nat /\ \A k \in 2..n : data[k].align # 0
  BY DEF DataLists
<1>2. n > 0 /\ 1 \in 1..n
  BY <1>1
<1>3. data[1] \in Datum /\ data[1].units \in Seq(Unit)
  <2>1. data[1] \in Datum
    BY <1>1, <1>2
  <2> QED
    BY ONLY <2>1 DEF Datum
<1> DEFINE y == [data[1].units EXCEPT ![1] = u]
           x == [data[1] EXCEPT !.units = y]
<1>4. y \in Seq(Unit) /\ Len(y) = Len(data[1].units)
  BY <1>3
<1>5. /\ x \in Datum /\ x.units = y /\ x.align = data[1].align /\ x.off = data[1].off
  <2> HIDE DEF y
  <2> QED
    BY <1>3, <1>4 DEF Datum
<1>6. new = [data EXCEPT ![1] = x]
  BY DEF Modified
<1> HIDE DEF x
<1>7. /\ new \in Seq(Datum) /\ Len(new) = n /\ new[1] = x /\ new # <<>>
      /\ \A k \in 1..n : k # 1 => new[k] = data[k]
  BY <1>1, <1>2, <1>5, <1>6
<1>8. new \in DataLists
  BY <1>1, <1>7 DEF DataLists
<1> HIDE DEF y
<1>9. \A k \in 1..n : /\ new[k].align = data[k].align /\ new[k].off = data[k].off
                      /\ Len(new[k].units) = Len(data[k].units)
  BY <1>4, <1>5, <1>7
<1> QED
  BY <1>1, <1>2, <1>5, <1>7, <1>8, <1>9 DEF y

LEMMA ModifiedPlaced ==
  ASSUME NEW data \in DataLists, Placed(data) = data, NEW n, n = Len(data),
         NEW new \in DataLists, Len(new) = n,
         \A k \in 1..n : /\ new[k].align = data[k].align /\ new[k].off = data[k].off
                         /\ Len(new[k].units) = Len(data[k].units)
  PROVE  Placed(new) = new
<1> DEFINE y == Placed(new)
           S == {k \in 0..n : k # 0 => y[k].off = new[k].off}
<1>1. n \in Nat
  BY DEF DataLists
<1>2. \A k \in 1..n :
        data[k].off = IF k = 1 THEN 0
                      ELSE RoundUp(data[k - 1].off + Len(data[k - 1].units), data[k].align)
  BY PlacedType
<1>3. /\ y \in DataLists /\ Len(y) = n
      /\ \A k \in 1..n : y[k].align = new[k].align /\ y[k].units = new[k].units
      /\ \A k \in 1..n :
           y[k].off = IF k = 1 THEN 0
                      ELSE RoundUp(y[k - 1].off + Len(new[k - 1].units), new[k].align)
  BY PlacedType
<1> HIDE DEF y
<1>4. 0 \in S
  BY <1>1
<1>5. ASSUME NEW i \in 1..n, i - 1 \in S PROVE i \in S
  <2>1. CASE i = 1
    BY <1>1, <1>2, <1>3, <2>1
  <2>2. CASE i # 1
    <3>1. i - 1 \in 1..n /\ y[i - 1].off = new[i - 1].off
      BY <1>1, <1>5, <2>2
    <3>2. y[i].off = RoundUp(y[i - 1].off + Len(new[i - 1].units), new[i].align)
      BY <1>3, <2>2
    <3>3. data[i].off = RoundUp(data[i - 1].off + Len(data[i - 1].units), data[i].align)
      BY <1>2, <2>2
    <3>4. /\ new[i].align = data[i].align /\ new[i - 1].off = data[i - 1].off
          /\ Len(new[i - 1].units) = Len(data[i - 1].units) /\ new[i].off = data[i].off
      BY <3>1
    <3>5. y[i].off = new[i].off
      BY ONLY <3>1, <3>2, <3>3, <3>4
    <3> QED
      BY <1>1, <3>5
  <2> QED
    BY <2>1, <2>2
<1> HIDE DEF S
<1>6. 0..n \subseteq S
  BY ONLY <1>1, <1>4, <1>5, Steps
<1>7. \A k \in 1..n : y[k].off = new[k].off
  BY <1>1, <1>6 DEF S
<1>8. ASSUME NEW k \in 1..n PROVE y[k] = new[k]
  <2>1. y[k] \in Datum /\ new[k] \in Datum
    BY <1>1, <1>3 DEF DataLists
  <2>2. /\ y[k].align = new[k].align /\ y[k].units = new[k].units
        /\ y[k].off = new[k].off
    BY <1>3, <1>7
  <2> DEFINE p == y[k]
             q == new[k]
  <2>3. /\ p \in Datum /\ q \in Datum /\ p.align = q.align /\ p.units = q.units
        /\ p.off = q.off
    BY <2>1, <2>2
  <2> HIDE DEF p, q
  <2>4. p = q
    BY ONLY <2>3 DEF Datum
  <2> QED
    BY <2>4 DEF p, q
<1>9. y \in Seq(Datum) /\ new \in Seq(Datum)
  BY <1>3 DEF DataLists
<1>10. y = new
  BY ONLY <1>1, <1>3, <1>8, <1>9, Len(new) = n
<1> QED
  BY <1>10 DEF y

LEMMA ModifiedJoin ==
  ASSUME NEW data \in DataLists, data # <<>>, data[1].units # <<>>, NEW u \in Unit, u # Junk,
         NEW new, new = Modified(data, u),
         NEW a \in Seq(Unit), JoinMeant(data, a), NEW b, b = [a EXCEPT ![1] = u]
  PROVE  JoinMeant(new, b)
<1> DEFINE n == Len(data)
<1>14. n = Len(data)
  OBVIOUS
<1> HIDE DEF n
<1>1. /\ n \in Nat /\ n > 0 /\ new \in DataLists /\ Len(new) = n
      /\ new[1].units = [data[1].units EXCEPT ![1] = u]
      /\ \A k \in 1..n : k # 1 => new[k] = data[k]
  BY <1>14, ModifiedForm
<1>2. PICK g : Joined(data, g) /\ Alike(g[n], a)
  BY <1>14 DEF JoinMeant
<1>3. /\ g[0] = <<>> /\ \A k \in 0..n : g[k] \in Seq(Unit)
      /\ \A k \in 1..n : g[k] = g[k - 1] \o data[k].units
  BY <1>2, <1>14 DEF Joined
<1>4. \A k \in 1..n : data[k].units \in Seq(Unit) /\ Clean(data[k].units)
  <2>1. data \in Seq(Datum) /\ \A k \in 1..n : Clean(data[k].units)
    BY <1>14 DEF DataLists, JoinMeant
  <2> SUFFICES ASSUME NEW k \in 1..n PROVE data[k].units \in Seq(Unit)
    BY <2>1
  <2>2. data[k] \in Datum
    BY <1>1, <1>14, <2>1
  <2> QED
    BY ONLY <2>2 DEF Datum
<1>5. g[1] = data[1].units
  <2>1. g[1] = g[0] \o data[1].units /\ g[0] = <<>>
    <3>1. 1 \in 1..n /\ 1 - 1 = 0
      BY <1>1
    <3>2. g[1] = g[1 - 1] \o data[1].units
      BY ONLY <1>3, <3>1
    <3> QED
      BY <1>3, <3>1, <3>2
  <2>2. data[1].units \in Seq(Unit)
    BY <1>1, <1>4
  <2> QED
    BY <2>1, <2>2, Joins
<1> DEFINE S == {k \in 0..n : k # 0 => g[k] # <<>>}
<1>6. 0 \in S
  BY <1>1
<1>7. ASSUME NEW i \in 1..n, i - 1 \in S PROVE i \in S
  <2>1. CASE i = 1
    BY <1>1, <1>5, <2>1
  <2>2. CASE i # 1
    <3> DEFINE x == g[i - 1]
               y == data[i].units
    <3>1. x # <<>> /\ x \in Seq(Unit) /\ y \in Seq(Unit) /\ g[i] = x \o y
      <4>1. i - 1 \in 0..n /\ i - 1 # 0
        BY <1>1, <2>2
      <4>2. g[i] = g[i - 1] \o data[i].units /\ g[i - 1] \in Seq(Unit)
        BY ONLY <1>3, <4>1, i \in 1..n
      <4> QED
        BY <1>4, <1>7, <4>1, <4>2
    <3> HIDE DEF x, y
    <3>2. g[i] # <<>>
      BY ONLY <3>1
    <3> QED
      BY <1>1, <3>2
  <2> QED
    BY <2>1, <2>2
<1> HIDE DEF S
<1>8. 0..n \subseteq S
  BY ONLY <1>1, <1>6, <1>7, Steps
<1>9. \A k \in 1..n : g[k] # <<>>
  BY <1>1, <1>8 DEF S
<1> DEFINE h == [k \in 0..n |-> IF k = 0 THEN <<>> ELSE [g[k] EXCEPT ![1] = u]]
<1>10. h[0] = <<>> /\ \A k \in 1..n : h[k] = [g[k] EXCEPT ![1] = u]
  BY <1>1
<1> HIDE DEF h
<1>11. ASSUME NEW k \in 1..n
       PROVE  h[k] \in Seq(Unit) /\ h[k] = h[k - 1] \o new[k].units
  <2> DEFINE x == g[k]
  <2>1. x \in Seq(Unit) /\ x # <<>> /\ h[k] = [x EXCEPT ![1] = u]
    BY <1>1, <1>3, <1>9, <1>10
  <2> HIDE DEF x
  <2>2. h[k] \in Seq(Unit)
    BY <2>1
  <2>3. CASE k = 1
    <3>1. h[k - 1] = <<>> /\ h[k] = new[k].units
      <4>1. h[0] = <<>> /\ k - 1 = 0
        BY <1>10, <2>3
      <4>2. h[k] = [data[1].units EXCEPT ![1] = u]
        BY <1>5, <2>1, <2>3 DEF x
      <4> QED
        BY <1>1, <2>3, <4>1, <4>2
    <3> QED
      BY <2>2, <3>1, Joins
  <2>4. CASE k # 1
    <3> DEFINE y == g[k - 1]
               t == data[k].units
               z == [y EXCEPT ![1] = u]
    <3>1. k - 1 \in 1..n /\ k - 1 \in 0..n
      BY <1>1, <2>4
    <3>2. y \in Seq(Unit) /\ y # <<>> /\ t \in Seq(Unit) /\ x = y \o t
      BY <1>3, <1>4, <1>9, <3>1 DEF x
    <3>3. h[k - 1] = z /\ new[k].units = t
      BY <1>1, <1>10, <2>4, <3>1
    <3> HIDE DEF y, t
    <3>4. [y \o t EXCEPT ![1] = u] = z \o t
      <4> HIDE DEF z
      <4>1. z = [y EXCEPT ![1] = u]
        BY DEF z
      <4> QED
        <5>1. [y \o t EXCEPT ![1] = u] = [y EXCEPT ![1] = u] \o t
          BY ONLY <3>2, u \in Unit, FirstOfTwo, Zenon
        <5> QED
          BY ONLY <4>1, <5>1, Zenon
    <3> QED
      BY <2>1, <2>2, <3>2, <3>3, <3>4
  <2> QED
    BY <2>2, <2>3, <2>4
<1>12. Joined(new, h)
  <2>1. \A k \in 0..n : k = 0 \/ k \in 1..n
    BY <1>1
  <2>2. \A k \in 0..n : h[k] \in Seq(Unit)
    BY <1>10, <1>11, <2>1, Joins
  <2> QED
    BY <1>1, <1>10, <1>11, <2>2 DEF Joined
<1>13. Alike(h[n], b)
  <2> DEFINE x == g[n]
  <2>1. x \in Seq(Unit) /\ x # <<>> /\ h[n] = [x EXCEPT ![1] = u] /\ Alike(x, a)
    BY <1>1, <1>2, <1>3, <1>9, <1>10
  <2> HIDE DEF x
  <2> QED
    <3>1. Alike([x EXCEPT ![1] = u], [a EXCEPT ![1] = u])
      BY ONLY <2>1, u \in Unit, a \in Seq(Unit), AlikeModified, Zenon
    <3> QED
      BY ONLY <2>1, <3>1, b = [a EXCEPT ![1] = u], Zenon
<1>15. ASSUME NEW k \in 1..n PROVE Clean(new[k].units)
  <2>1. CASE k # 1
    BY <1>1, <1>4, <2>1
  <2>2. CASE k = 1
    <3> DEFINE x == data[1].units
    <3>1. x \in Seq(Unit) /\ Clean(x) /\ new[k].units = [x EXCEPT ![1] = u]
      BY <1>1, <1>4, <2>2
    <3> HIDE DEF x
    <3> QED
      BY <3>1 DEF Clean
  <2> QED
    BY <2>1, <2>2
<1> QED
  BY <1>1, <1>12, <1>13, <1>15 DEF JoinMeant

\* A list whose first unit is changed
LEMMA ModifiedFits ==
  ASSUME NEW data \in DataLists, data # <<>>, data[1].units # <<>>, NEW u \in Unit, u # Junk,
         NEW new, new = Modified(data, u)
  PROVE  new # <<>> /\ (Placed(data) = data => Placed(new) = new)
<1> DEFINE n == Len(data)
<1>1. n = Len(data)
  OBVIOUS
<1> HIDE DEF n
<1>2. /\ n \in Nat /\ n > 0 /\ new \in DataLists /\ Len(new) = n /\ new # <<>>
      /\ \A k \in 1..n : /\ new[k].align = data[k].align /\ new[k].off = data[k].off
                         /\ Len(new[k].units) = Len(data[k].units)
  <2>1. /\ n \in Nat /\ n > 0 /\ new \in DataLists /\ Len(new) = n /\ new # <<>>
        /\ new[1].units = [data[1].units EXCEPT ![1] = u]
    BY <1>1, ModifiedForm
  <2> SUFFICES ASSUME NEW k \in 1..n
               PROVE  /\ new[k].align = data[k].align /\ new[k].off = data[k].off
                      /\ Len(new[k].units) = Len(data[k].units)
    BY <2>1
  <2>2. new[k].align = data[k].align /\ new[k].off = data[k].off
    BY <1>1, <2>1, ModifiedForm
  <2>3. Len(new[k].units) = Len(data[k].units)
    BY <1>1, <2>1, ModifiedForm
  <2> QED
    BY <2>2, <2>3
<1>3. Placed(data) = data => Placed(new) = new
  BY <1>1, <1>2, ModifiedPlaced
<1> QED
  BY <1>2, <1>3

\* The client changes the first unit of a section.
LEMMA ModifyMeant ==
  ASSUME LayoutInv, TypeInv, MeantInv, NEW i \in 0..MaxScns, Modify(i) PROVE MeantInv'
<1> DEFINE u == <<"mod", 0>>
           s == e.scns[i]
           data == s.data
           new == Modified(data, u)
           z == [s EXCEPT !.data = new]
           a == meant[i]
           b == [a EXCEPT ![1] = u]
<1>1. /\ e # None /\ e \in Opens /\ Shaped(e) /\ i \in DOMAIN e.scns /\ i \in DOMAIN meant
      /\ s.type = "progbits"
  BY CallFinds DEF Modify, HasData
<1>2. data # <<>> /\ data[1].units # <<>> /\ a # <<>>
  BY DEF Modify
<1>3. e' = [e EXCEPT !.scns[i] = z]
  BY DEF Modify, Modified
<1>4. meant' = [meant EXCEPT ![i] = b] /\ meantPh' = meantPh
  BY DEF Modify
<1>5. meant \in Seq(Seq(Unit)) /\ meantPh \in Seq(Unit) /\ a \in Seq(Unit) /\ i # 0
  BY <1>1 DEF MeantInv
<1>6. u \in Unit /\ u # Junk
  BY DEF Unit, Junk
<1>7. s \in Scns /\ data \in DataLists
  BY <1>1, ScnOf DEF Scns
<1>8. /\ z.type = s.type /\ z.data = new /\ z.dirty = s.dirty /\ z.size = s.size
      /\ z.ssize = s.ssize /\ z.rawoff = s.rawoff
  BY <1>7 DEF Scns
<1> HIDE DEF u, s, z
<1>9. b \in Seq(Unit)
  BY <1>2, <1>5, <1>6
<1> HIDE DEF a, b
<1>10. meant' \in Seq(Seq(Unit))
  BY <1>1, <1>4, <1>5, <1>9
<1>11. e'.cmd = e.cmd /\ e'.writes = e.writes /\ e'.misread = e.misread
  BY <1>1, <1>3 DEF Opens, Descs
<1>12. ASSUME MeansNow(e') PROVE Means(e', meant', meantPh')
  <2>1. Means(e, meant, meantPh)
    BY <1>1, <1>11, <1>12 DEF MeantInv, MeansNow
  <2>2. ScnMeant(e.layout, e.raw, s, a)
    <3>1. e.ehdr # None
      BY <1>1 DEF Shaped
    <3> QED
      BY <1>1, <1>5, <2>1, <3>1 DEF Means, MeansObject, ScnsMeant, s, a
  <2>3. JoinMeant(data, a) /\ (e.layout => Placed(data) = data)
    BY <1>1, <1>2, <2>2 DEF ScnMeant
  <2>4. JoinMeant(new, b)
    <3>1. b = [a EXCEPT ![1] = u]
      BY DEF b
    <3> DEFINE old == data
               now == new
    <3>2. now = Modified(old, u) /\ old \in DataLists /\ old # <<>> /\ old[1].units # <<>>
          /\ JoinMeant(old, a)
      BY <1>2, <1>7, <2>3
    <3> HIDE DEF old, now
    <3>3. JoinMeant(now, [a EXCEPT ![1] = u])
      BY ONLY <1>5, <1>6, <3>2, ModifiedJoin, Zenon
    <3> QED
      BY <3>1, <3>3 DEF now
  <2> DEFINE now == new
             old == data
  <2>5. now # <<>> /\ (Placed(old) = old => Placed(now) = now)
    <3>1. now = Modified(old, u) /\ old \in DataLists /\ old # <<>> /\ old[1].units # <<>>
      BY <1>2, <1>7
    <3> HIDE DEF now, old
    <3> QED
      BY <1>6, <3>1, ModifiedFits
  <2>6. e.layout => Placed(now) = now
    BY <2>3, <2>5
  <2>7. ScnMeant(e.layout, e.raw, z, b)
    <3>1. z.data = now /\ JoinMeant(now, b)
      BY <1>8, <2>4
    <3> HIDE DEF now, old
    <3> QED
      BY <1>1, <1>8, <2>5, <2>6, <3>1 DEF ScnMeant
  <2> DEFINE d == e'
  <2>8. d = [e EXCEPT !.scns[i] = z]
    BY <1>3
  <2> HIDE DEF d, now, old, new, data
  <2>9. Means(d, [meant EXCEPT ![i] = b], meantPh)
    BY <1>1, <1>5, <1>9, <2>1, <2>7, <2>8, SectionChanged
  <2> QED
    BY <1>4, <2>9 DEF d
<1> QED
  BY <1>4, <1>5, <1>10, <1>12 DEF MeantInv

\* A section, when the client lays the object out
Arranged(s) ==
  LET data == Placed(s.data) IN
  IF data = <<>> THEN s ELSE [s EXCEPT !.data = data, !.size = Extent(data)]

LEMMA ArrangedMeant ==
  ASSUME NEW layout, NEW raw, NEW s \in Scns, NEW m, ScnMeant(layout, raw, s, m),
         NEW z, z = Arranged(s)
  PROVE  ScnMeant(TRUE, raw, z, m)
<1> DEFINE data == s.data
           p == Placed(data)
<1>1. data \in DataLists
  BY DEF Scns
<1>2. data = s.data
  OBVIOUS
<1> HIDE DEF data
<1>3. p \in DataLists /\ Len(p) = Len(data) /\ Placed(p) = p
  BY <1>1, PlacedType, PlacedTwice
<1>4. (data = <<>> \/ data # <<>>) /\ (p = <<>> <=> data = <<>>)
  <2>1. data \in Seq(Datum) /\ p \in Seq(Datum)
    BY <1>1, <1>3 DEF DataLists
  <2> HIDE DEF p
  <2>2. \A x \in Seq(Datum) : x = <<>> <=> Len(x) = 0
    OBVIOUS
  <2> QED
    BY ONLY <1>3, <2>1, <2>2
<1>5. p = Placed(s.data)
  BY <1>2
<1> HIDE DEF p
<1>6. CASE data = <<>>
  <2>1. z = s
    BY <1>4, <1>5, <1>6 DEF Arranged
  <2> QED
    BY <1>2, <1>6, <2>1 DEF ScnMeant
<1>7. CASE data # <<>>
  <2>1. z = [s EXCEPT !.data = p, !.size = Extent(p)]
    BY <1>4, <1>5, <1>7 DEF Arranged
  <2>2. z.type = s.type /\ z.data = p
    BY <2>1 DEF Scns
  <2>3. (s.type # "progbits" => m = <<>>) /\ (s.type = "progbits" => JoinMeant(data, m))
    BY <1>2, <1>7 DEF ScnMeant
  <2>4. s.type = "progbits" => JoinMeant(p, m)
    <3> HAVE s.type = "progbits"
    <3>1. JoinMeant(Placed(data), m)
      BY <1>1, <2>3, PlacedMeant
    <3> QED
      BY <1>2, <1>5, <3>1
  <2>5. p # <<>>
    BY <1>4, <1>7
  <2> QED
    BY <1>3, <2>2, <2>3, <2>4, <2>5 DEF ScnMeant
<1> QED
  BY <1>4, <1>6, <1>7

LEMMA ArrangeMeant ==
  ASSUME LayoutInv, TypeInv, MeantInv, NEW phoff \in Offsets, NEW shoff \in Offsets,
         Arrange(phoff, shoff)
  PROVE  MeantInv'
<1> DEFINE h == [e.ehdr EXCEPT !.phoff = IF e.nphdr = 0 THEN 0 ELSE phoff,
                               !.shoff = IF e.nscn = 0 THEN 0 ELSE shoff]
           t == [i \in DOMAIN e.scns |-> Arranged(e.scns[i])]
           b == e'
<1>1. /\ e # None /\ e \in Opens /\ Shaped(e) /\ e.ehdr # None /\ e.ehdr \in Ehdrs
      /\ (e.nphdr = 0 \/ e.phdr # None) /\ (e.cmd = "write" \/ e.loaded)
      /\ meant' = meant /\ meantPh' = meantPh
  BY CallFinds DEF Arrange, Opens, Descs
<1>2. e' = [e EXCEPT !.layout = TRUE, !.ehdr = h, !.scns = t]
  BY <1>1 DEF Arrange, Opens, Descs, Arranged
<1>3. h \in Ehdrs /\ (e.nscn = 0 => h.shoff = 0)
  <2>1. phoff \in Nat /\ shoff \in Nat
    BY ElfUpdateAssumption DEF ElfUpdateAssumption
  <2> QED
    BY <1>1, <2>1 DEF Ehdrs
<1>4. DOMAIN t = DOMAIN e.scns /\ \A i \in DOMAIN e.scns : t[i] = Arranged(e.scns[i])
  OBVIOUS
<1>9. h # None
  BY <1>3, NoneIsNothing
<1> HIDE DEF h, t
<1>5. /\ b.layout = TRUE /\ b.ehdr = h /\ b.scns = t /\ b.cmd = e.cmd /\ b.writes = e.writes
      /\ b.misread = e.misread /\ b.nscn = e.nscn /\ b.nphdr = e.nphdr /\ b.phdr = e.phdr
      /\ b.raw = e.raw /\ b.rawsize = e.rawsize
  BY <1>1, <1>2 DEF Opens, Descs
<1> HIDE DEF b
<1>6. ASSUME MeansNow(b) PROVE Means(b, meant, meantPh)
  <2>1. Means(e, meant, meantPh)
    BY <1>1, <1>5, <1>6 DEF MeantInv, MeansNow
  <2>2. MeansObject(e, meant, meantPh)
    BY <1>1, <2>1 DEF Means
  <2>3. Full(e) /\ Len(meant) = Sections(e)
    BY <1>1, <2>2 DEF MeansObject, Unloaded, Shaped, Full
  <2>4. Full(b) /\ Sections(b) = Sections(e)
    BY <1>4, <1>5, <2>3 DEF Full, Sections
  <2>5. PhMeant(b, meantPh)
    BY <1>1, <1>5, <2>2 DEF MeansObject, PhMeant
  <2>6. ScnsMeant(b, meant)
    <3> SUFFICES ASSUME NEW j \in DOMAIN b.scns \ {0}
                 PROVE  ScnMeant(b.layout, b.raw, b.scns[j], meant[j])
      BY DEF ScnsMeant
    <3> DEFINE s == e.scns[j]
               z == t[j]
               m == meant[j]
               raw == e.raw
               layout == e.layout
    <3>1. ScnMeant(layout, raw, s, m) /\ s \in Scns /\ z = Arranged(s)
      BY <1>1, <1>4, <1>5, <2>2, ScnOf DEF MeansObject, ScnsMeant
    <3>2. b.layout = TRUE /\ b.raw = raw /\ b.scns[j] = z
      BY <1>5
    <3> HIDE DEF s, z, m, raw, layout
    <3>3. ScnMeant(TRUE, raw, z, m)
      BY <3>1, ArrangedMeant
    <3> QED
      BY <3>2, <3>3 DEF m
  <2>7. MeansObject(b, meant, meantPh)
    BY <1>3, <1>5, <2>2, <2>3, <2>4, <2>5, <2>6 DEF MeansObject
  <2> QED
    BY <1>5, <1>9, <2>7 DEF Means
<1> QED
  BY <1>1, <1>6 DEF MeantInv, b

\* elf_update ends without having touched the file.
LEMMA UnwrittenMeant ==
  ASSUME MeantInv, e # None, NEW w, w.e \in Opens, Later(e, w.e), NEW op, Unwritten(op, w),
         w = [e |-> w.e, how |-> w.how, ext |-> w.ext, rc |-> w.rc],
         Means(e, meant, meantPh) /\ ~w.e.misread => Means(w.e, meant, meantPh)
  PROVE  MeantInv'
<1> DEFINE b == w.e
           d == [b EXCEPT !.loaded = FALSE]
           v == With(w, d)
<1>1. Finish(op, v) /\ UNCHANGED <<meant, meantPh>>
  BY DEF Unwritten
<1>2. SameObject(b, d) /\ Later(b, d) /\ d.misread = b.misread
  BY DEF Opens, Descs, SameObject, Later
<1>3. Later(e, b)
  OBVIOUS
<1>4. Means(e, meant, meantPh) /\ ~b.misread => Means(b, meant, meantPh)
  OBVIOUS
<1> HIDE DEF d
<1>5. v.e = d
  BY DEF With
<1> HIDE DEF v, b
<1>6. Later(e, v.e)
  BY <1>2, <1>3, <1>5, LaterTwice
<1>7. Means(e, meant, meantPh) /\ ~v.e.misread => Means(v.e, meant, meantPh)
  BY <1>2, <1>4, <1>5, SameObjectMeant
<1> QED
  BY <1>1, <1>6, <1>7, FinishKeepsMeant

\* elf_update(ELF_C_NULL)
LEMMA UpdateNullMeant == ASSUME LayoutInv, TypeInv, MeantInv, UpdateNull PROVE MeantInv'
<1> DEFINE w == Resync(e)
<1>1. e # None /\ e \in Opens /\ Shaped(e) /\ CanRead(e)
  BY CallFinds DEF UpdateNull
<1>2. w \in Goods(e.cmd) /\ Later(e, w.e)
  BY <1>1, ResyncType, ResyncLater DEF Readies
<1>3. Means(e, meant, meantPh) /\ ~w.e.misread => Means(w.e, meant, meantPh)
  BY <1>1, ResyncMeant
<1>4. Unwritten("null", w)
  BY DEF UpdateNull
<1> HIDE DEF w
<1>5. w.e \in Opens /\ w = [e |-> w.e, how |-> w.how, ext |-> w.ext, rc |-> w.rc]
  BY <1>2, WorkFields, WorkForm
<1> QED
  BY <1>1, <1>2, <1>3, <1>4, <1>5, UnwrittenMeant

SizeLeft(d) == IF d.raw = None THEN 0 ELSE Rawsize(d)
\* The contents of the file are unmapped.
LEMMA GoneMeant ==
  ASSUME NEW d \in Opens, d.ehdr \in Ehdrs, NEW m, NEW p, Means(d, m, p),
         NEW raw \in {d.raw, Gone},
         NEW b, b = [d EXCEPT !.loaded = FALSE, !.raw = raw, !.rawsize = SizeLeft(d)]
  PROVE  Means(b, m, p)
<1>1. /\ b.ehdr = d.ehdr /\ b.phdr = d.phdr /\ b.cmd = d.cmd /\ b.raw = raw
      /\ b.nscn = d.nscn /\ b.nphdr = d.nphdr /\ b.layout = d.layout /\ b.scns = d.scns
  BY DEF Opens, Descs
<1>4. b.rawsize = SizeLeft(d)
  BY DEF Opens, Descs
<1>2. CASE raw = d.raw
  <2>1. d.raw = Gone => b.rawsize = d.rawsize
    BY <1>4, NoneIsNothing DEF SizeLeft, Rawsize
  <2>2. SameObject(d, b)
    BY <1>1, <1>2, <2>1 DEF SameObject
  <2> QED
    BY <2>2, SameObjectMeant
<1>3. CASE raw = Gone
  <2>1. d.ehdr # None /\ Gone # None /\ Gone \notin Seq(Unit)
    BY NoneIsNothing
  <2>2. MeansObject(d, m, p)
    BY <2>1 DEF Means
  <2>3. b.raw = Gone
    BY <1>1, <1>3
  <2>4. PhMeant(b, p)
    <3> DEFINE off == d.ehdr.phoff
               n == d.nphdr * PhdrSize
    <3>1. PhMeant(d, p)
      BY <2>2 DEF MeansObject
    <3>2. ASSUME d.phdr = None, d.nphdr # 0 PROVE ~(SizeLeft(d) < off + n)
      <4>1. CASE d.raw = Gone
        BY <2>1, <3>1, <3>2, <4>1 DEF PhMeant, SizeLeft, Rawsize
      <4>2. CASE d.raw # Gone
        <5>1. Region(d.raw, off, n) /\ d.raw # None
          BY <3>1, <3>2, <4>2 DEF PhMeant
        <5>2. SizeLeft(d) = Len(d.raw)
          BY <4>2, <5>1 DEF SizeLeft, Rawsize
        <5> HIDE DEF off, n
        <5> QED
          BY <5>1, <5>2 DEF Region
      <4> QED
        BY <4>1, <4>2
    <3>3. b.phdr = None /\ b.nphdr # 0 => b.raw # None /\ ~(b.rawsize < off + n)
      BY <1>1, <1>4, <2>1, <2>3, <3>2
    <3> QED
      BY <1>1, <2>3, <3>1, <3>3 DEF PhMeant
  <2>5. ScnsMeant(b, m)
    <3> SUFFICES ASSUME NEW j \in DOMAIN b.scns \ {0}
                 PROVE  ScnMeant(b.layout, b.raw, b.scns[j], m[j])
      BY DEF ScnsMeant
    <3>1. ScnMeant(d.layout, d.raw, d.scns[j], m[j])
      BY <1>1, <2>2 DEF MeansObject, ScnsMeant
    <3>2. b.layout = d.layout /\ b.scns[j] = d.scns[j]
      BY <1>1
    <3> DEFINE layout == d.layout
               s == d.scns[j]
               a == m[j]
               was == d.raw
    <3>3. ScnMeant(layout, was, s, a)
      BY <3>1
    <3> HIDE DEF layout, s, a, was
    <3>4. ScnMeant(layout, Gone, s, a)
      BY <2>1, <3>3 DEF ScnMeant
    <3> QED
      BY <2>3, <3>2, <3>4 DEF layout, s, a
  <2>6. (Full(b) <=> Full(d)) /\ Sections(b) = Sections(d)
    BY <1>1 DEF Full, Sections
  <2>7. Unloaded(d, m) => Unloaded(b, m)
    BY <1>1, <2>1, <2>3 DEF Unloaded
  <2>8. MeansObject(b, m, p)
    BY <1>1, <2>1, <2>2, <2>3, <2>4, <2>5, <2>6, <2>7 DEF MeansObject
  <2> QED
    BY <1>1, <2>1, <2>8 DEF Means
<1> QED
  BY <1>2, <1>3

\* What the library has made of the object, before it writes
Updates(w) ==
  /\ w \in Goods(e.cmd) /\ w.e \in Opens /\ w.e.ehdr \in Ehdrs /\ Later(e, w.e)
  /\ Means(e, meant, meantPh) /\ ~w.e.misread => Means(w.e, meant, meantPh)
\* img is what it writes.
Made(w, img) ==
  /\ img \in Seq(Unit)
  /\ Means(e, meant, meantPh) /\ ~w.e.misread =>
       Conforms(img, meant, meantPh, w.e.layout)

LEMMA TouchedMeant ==
  ASSUME MeantInv, e # None, NEW w, Updates(w), NEW units,
         NEW raw \in {w.e.raw, Gone}, NEW how, Touched(w, units, raw, how)
  PROVE  MeantInv'
<1> DEFINE d == w.e
           b == [d EXCEPT !.loaded = FALSE, !.raw = raw, !.rawsize = SizeLeft(d)]
<1>1. e' = (IF how = "killed" THEN None ELSE b) /\ UNCHANGED <<meant, meantPh>>
  BY DEF Touched, SizeLeft
<1>2. d \in Opens /\ d.ehdr \in Ehdrs /\ Later(e, d) /\ raw \in {d.raw, Gone}
      /\ (Means(e, meant, meantPh) /\ ~d.misread => Means(d, meant, meantPh))
  BY DEF Updates
<1>3. b = [d EXCEPT !.loaded = FALSE, !.raw = raw, !.rawsize = SizeLeft(d)]
  OBVIOUS
<1> HIDE DEF d
<1>4. Later(d, b)
  BY <1>2 DEF Opens, Descs, Later
<1> HIDE DEF b
<1>5. Means(d, meant, meantPh) => Means(b, meant, meantPh)
  BY <1>2, <1>3, GoneMeant
<1>6. MeansNow(b) => Means(b, meant, meantPh)
  BY <1>2, <1>4, <1>5, LaterMeans DEF MeantInv, Later
<1> QED
  BY <1>1, <1>6 DEF MeantInv

\* The file is written: a descriptor that goes on reads it from now on.
LEMMA WrittenMeant ==
  ASSUME MeantInv, e # None, e.cmd # "read", NEW w, Updates(w), NEW img, Made(w, img),
         e' = Written(w.e, img), UNCHANGED <<meant, meantPh>>
  PROVE  MeantInv'
<1> DEFINE d == w.e
           b == Written(d, img)
<1>1. d \in Opens /\ Later(e, d) /\ d.cmd \in {"write", "rdwr"}
  BY ElfUpdateAssumption DEF Updates, Opens, Descs, Later, ElfUpdateAssumption
<1>2. /\ b.cmd = d.cmd /\ b.ehdr = None /\ b.phdr = None /\ b.scns = <<>> /\ b.layout = d.layout
      /\ b.raw = (IF d.cmd = "rdwr" THEN img ELSE None) /\ b.misread = d.misread
      /\ b.writes = d.writes + 1 /\ d.writes \in Nat
  BY <1>1 DEF Written, Opens, Descs
<1>3. Means(e, meant, meantPh) /\ ~d.misread => Conforms(img, meant, meantPh, d.layout)
  BY DEF Made
<1>4. e' = b
  OBVIOUS
<1> HIDE DEF d, b
<1>5. ASSUME MeansNow(b) PROVE Means(b, meant, meantPh)
  <2>1. b.cmd = "rdwr" /\ d.cmd = "rdwr"
    BY <1>1, <1>2, <1>5 DEF MeansNow
  <2>2. Means(e, meant, meantPh) /\ ~d.misread
    BY <1>1, <1>2, <1>5, <2>1 DEF MeansNow, Later, MeantInv
  <2>3. Conforms(img, meant, meantPh, d.layout)
    BY <1>3, <2>2
  <2>4. MeansFile(b, meant, meantPh)
    BY <1>2, <2>1, <2>3, NoTable DEF MeansFile, Conforms
  <2> QED
    BY <1>2, <2>4 DEF Means
<1> QED
  BY <1>4, <1>5 DEF MeantInv

\* The ways in which elf_update(ELF_C_WRITE) may end
WriteEndsAs(w, r) ==
  \/ e' = Written(w.e, r.img) /\ UNCHANGED <<meant, meantPh>>
  \/ \E how : Unwritten("write", Fails(w, how))
  \/ \E units, how : \E raw \in {w.e.raw, Gone} : Touched(w, units, raw, how)

LEMMA WriteEnds ==
  ASSUME NEW w, NEW r, WriteElf(w, r) PROVE WriteEndsAs(w, r)
<1> DEFINE gone == IF w.e.mapped THEN Gone ELSE w.e.raw
<1>1. gone \in {w.e.raw, Gone} /\ w.e.raw \in {w.e.raw, Gone} /\ Gone \in {w.e.raw, Gone}
  OBVIOUS
<1>2. \/ e' = Written(w.e, r.img) /\ UNCHANGED <<meant, meantPh>>
      \/ Unwritten("write", Fails(w, "io"))
      \/ Touched(w, <<>>, Gone, "io")
      \/ \E n \in Short(r.img) : Touched(w, SubSeq(r.img, 1, n), gone, "io")
      \/ Touched(w, r.img, Gone, "io")
      \/ \E n \in Short(r.img) \cup {Len(r.img)} :
           Touched(w, SubSeq(r.img, 1, n), gone, "killed")
  BY DEF WriteElf
<1> HIDE DEF gone
<1> QED
  BY <1>1, <1>2, Zenon DEF WriteEndsAs

LEMMA UpdateWriteMeant == ASSUME LayoutInv, TypeInv, MeantInv, UpdateWrite PROVE MeantInv'
<1>1. e # None /\ e \in Opens /\ Shaped(e) /\ CanRead(e)
  BY CallFinds DEF UpdateWrite
<1>2. CASE e.cmd = "read"
  BY <1>2 DEF UpdateWrite, MeantInv
<1>3. CASE e.cmd # "read"
  <2> DEFINE w == Resync(e)
             r == Image(w)
  <2>1. w \in Readies(e.cmd) /\ w \in Goods(e.cmd) /\ Later(e, w.e)
    BY <1>1, ResyncType, ResyncLater DEF Readies
  <2>2. Means(e, meant, meantPh) /\ ~w.e.misread => Means(w.e, meant, meantPh)
    BY <1>1, ResyncMeant
  <2>3. Means(e, meant, meantPh) /\ ~w.e.misread /\ w.how = "ok" /\ r.how = "ok" =>
          Conforms(r.img, meant, meantPh, w.e.layout)
    BY <1>1, UpdateMeant
  <2>4. \/ Unwritten("write", w)
        \/ \E how : Unwritten("write", Fails(w, how))
        \/ w.how = "ok" /\ r.how = "ok" /\ WriteElf(w, r)
    BY <1>3 DEF UpdateWrite
  <2> HIDE DEF w
  <2>5. w.how = "ok" => r.img \in Seq(Unit)
    BY <2>1, ImageType
  <2> HIDE DEF r
  <2>6. w.e \in Opens /\ w = [e |-> w.e, how |-> w.how, ext |-> w.ext, rc |-> w.rc]
    BY <2>1, WorkFields, WorkForm
  <2>7. CASE Unwritten("write", w)
    BY <1>1, <2>1, <2>2, <2>6, <2>7, UnwrittenMeant
  <2>8. ASSUME NEW how, Unwritten("write", Fails(w, how)) PROVE MeantInv'
    <3> DEFINE v == Fails(w, how)
    <3>1. v = [e |-> w.e, how |-> how, ext |-> w.ext, rc |-> w.rc]
      BY <2>1, WorkForm
    <3>2. v.e = w.e /\ v = [e |-> v.e, how |-> v.how, ext |-> v.ext, rc |-> v.rc]
      BY <3>1
    <3> HIDE DEF v
    <3>3. Unwritten("write", v) /\ v.e \in Opens /\ Later(e, v.e)
          /\ (Means(e, meant, meantPh) /\ ~v.e.misread => Means(v.e, meant, meantPh))
      BY <2>1, <2>2, <2>6, <2>8, <3>2 DEF v
    <3> QED
      BY <1>1, <3>2, <3>3, UnwrittenMeant
  <2>9. CASE w.how = "ok" /\ r.how = "ok" /\ WriteElf(w, r)
    <3> DEFINE img == r.img
    <3>1. Updates(w) /\ Made(w, img)
      BY <2>1, <2>2, <2>3, <2>5, <2>6, <2>9 DEF Updates, Made, Readies
    <3>2. WriteEndsAs(w, r)
      BY <2>9, WriteEnds
    <3>3. CASE e' = Written(w.e, img) /\ UNCHANGED <<meant, meantPh>>
      <4> HIDE DEF img
      <4> QED
        BY <1>1, <1>3, <3>1, <3>3, WrittenMeant
    <3>4. ASSUME NEW units, NEW how, NEW raw \in {w.e.raw, Gone}, Touched(w, units, raw, how)
          PROVE  MeantInv'
      BY <1>1, <3>1, <3>4, TouchedMeant
    <3> QED
      BY <2>8, <3>2, <3>3, <3>4 DEF WriteEndsAs
  <2> QED
    BY <2>4, <2>7, <2>8, <2>9
<1> QED
  BY <1>2, <1>3

LEMMA MeantStep == ASSUME LayoutInv, TypeInv, MeantInv, [Next]_vars PROVE MeantInv'
<1>1. CASE UNCHANGED vars
  BY <1>1 DEF vars, MeantInv
<1>2. CASE Next
  <2>1. CASE \E cmd \in Commands, mapped \in BOOLEAN : Begin(cmd, mapped)
    BY <2>1, BeginMeant
  <2>2. CASE End \/ GetEhdr \/ GetPhdr \/ GetScn \/ FdDone
    BY <2>2, EndMeant, GetEhdrMeant, GetPhdrMeant, GetScnMeant, FdDoneMeant
  <2>3. CASE \E n \in Phnums : NewPhdr(n)
    BY <2>3, NewPhdrMeant
  <2>4. CASE \E type \in {"progbits", "nobits"}, align \in Aligns : NewScn(type, align)
    BY <2>4, NewScnMeant
  <2>5. CASE \E i \in 0..MaxScns : GetData(i) \/ Modify(i)
    BY <2>5, GetDataMeant, ModifyMeant
  <2>6. CASE \E i \in 1..MaxScns, b \in Buffers : NewData(i, b)
    BY <2>6, NewDataMeant
  <2>7. CASE \E phoff, shoff \in Offsets : Arrange(phoff, shoff)
    BY <2>7, ArrangeMeant
  <2>8. CASE \E i \in 1..MaxScns, off \in Offsets : Move(i, off)
    BY <2>8, MoveMeant
  <2>9. CASE UpdateNull \/ UpdateWrite
    BY <2>9, UpdateNullMeant, UpdateWriteMeant
  <2> QED
    BY <1>2, <2>1, <2>2, <2>3, <2>4, <2>5, <2>6, <2>7, <2>8, <2>9 DEF Next
<1> QED
  BY <1>1, <1>2

\* A file that conforms
LEMMA ConformsHolds ==
  ASSUME NEW f, NEW m \in Seq(Seq(Unit)), NEW p, NEW layout, Conforms(f, m, p, layout),
         Len(p) >= PnXnum * PhdrSize => m # <<>>
  PROVE  /\ Sound(f) /\ Len(Contents(f)) = Len(m)
         /\ \A i \in 1..Len(m) : Same(Contents(f)[i], m[i])
         /\ Phdrs(f) = p
         /\ ~layout => \A i \in 1..Len(m) : IsAligned(HeaderIn(f, i)[2])
<1>1. ~Refused(f)
  BY DEF Conforms
<1>2. FileMeant(f, m, p, layout)
  BY <1>1 DEF Conforms
<1>3. /\ Sound(f) /\ Len(m) = Larger(0, Shnum(f) - 1) /\ Phdrs(f) = p
      /\ \A i \in 1..Len(m) : Alike(Contents(f)[i], m[i])
  BY <1>2 DEF FileMeant, FileHolds
<1>4. Len(Contents(f)) = Len(m)
  <2> DEFINE n == Larger(0, Shnum(f) - 1)
             g(i) == LET h == HeaderIn(f, i)[2]
                     IN IF Holds(h) THEN Bytes(f, h.off, h.size) ELSE <<>>
  <2>1. n = Len(m) /\ n \in Nat
    BY <1>3
  <2>2. Contents(f) = [i \in 1..n |-> g(i)]
    BY DEF Contents
  <2> HIDE DEF n, g
  <2>3. Len([i \in 1..n |-> g(i)]) = n
    BY ONLY <2>1
  <2> QED
    BY <2>1, <2>2, <2>3
<1>5. \A i \in 1..Len(m) : Same(Contents(f)[i], m[i])
  BY <1>3 DEF Alike
<1> QED
  BY <1>3, <1>4, <1>5 DEF Conforms

\* Nothing else ends like elf_update that has written.
LEMMA OthersEnd ==
  ASSUME Next, ~UpdateWrite
  PROVE  last' # [op |-> "write", how |-> "ok"]
<1> DEFINE done == [op |-> "write", how |-> "ok"]
<1>1. \A op, w : op # "write" /\ Finish(op, w) => last' # done
  BY DEF Finish
<1>2. \A cmd \in Commands, mapped \in BOOLEAN : Begin(cmd, mapped) => last' # done
  BY DEF Begin
<1>3. End \/ FdDone => last' # done
  BY DEF End, FdDone
<1>4. GetEhdr => last' # done
  BY <1>1 DEF GetEhdr
<1>5. GetPhdr => last' # done
  BY <1>1 DEF GetPhdr
<1>6. GetScn => last' # done
  BY <1>1 DEF GetScn
<1>7. \A n \in Phnums : NewPhdr(n) => last' # done
  BY <1>1 DEF NewPhdr
<1>8. \A type \in {"progbits", "nobits"}, align \in Aligns : NewScn(type, align) => last' # done
  BY <1>1 DEF NewScn
<1>9. \A i \in 0..MaxScns : GetData(i) => last' # done
  BY <1>1 DEF GetData
<1>10. \A i \in 0..MaxScns : Modify(i) => last' # done
  BY DEF Modify
<1>11. \A i \in 1..MaxScns, b \in Buffers : NewData(i, b) => last' # done
  <2> SUFFICES ASSUME NEW i \in 1..MaxScns, NEW b \in Buffers, NewData(i, b)
               PROVE  last' # done
    OBVIOUS
  <2> DEFINE reads == e.raw # None /\ e.scns[i].ssize > 0 /\ e.scns[i].data = <<>>
             w == IF reads THEN WithData(Work(e), i) ELSE Work(e)
             s == w.e.scns[i]
             data == Append(s.data, [align |-> b.align, off |-> 0, units |-> b.units])
             z == [s EXCEPT !.dirty = TRUE,
                            !.data = IF e.layout THEN Placed(data) ELSE data,
                            !.size = IF e.layout THEN Extent(Placed(data)) ELSE @]
             v == With(w, [w.e EXCEPT !.scns[i] = z])
  <2>1. Finish("data", w) \/ Finish("data", v)
    BY DEF NewData
  <2> HIDE DEF w, v
  <2> QED
    BY <1>1, <2>1
<1>12. \A phoff, shoff \in Offsets : Arrange(phoff, shoff) => last' # done
  BY DEF Arrange
<1>13. \A i \in 1..MaxScns, off \in Offsets : Move(i, off) => last' # done
  BY DEF Move
<1>14. UpdateNull => last' # done
  BY <1>1 DEF UpdateNull, Unwritten
<1> HIDE DEF done
<1>15. last' # done
  BY <1>2, <1>3, <1>4, <1>5, <1>6, <1>7, <1>8, <1>9, <1>10, <1>11, <1>12, <1>13, <1>14 DEF Next
<1> QED
  BY <1>15 DEF done

\* elf_update that has written
LEMMA WriteEnded ==
  ASSUME UpdateWrite, last' = [op |-> "write", how |-> "ok"], e \in Opens
  PROVE  \E w \in {Resync(e)} : \E r \in {Image(w)} :
           /\ e.cmd # "read" /\ w.how = "ok" /\ r.how = "ok"
           /\ file' = r.img /\ e' = Written(w.e, r.img) /\ UNCHANGED <<meant, meantPh>>
<1> DEFINE w == Resync(e)
           r == Image(w)
<1>1. w \in Goods(e.cmd)
  BY ResyncType DEF Readies
<1>2. /\ e.cmd # "read"
      /\ \/ w.how # "ok" /\ Unwritten("write", w)
         \/ Unwritten("write", Fails(w, "error"))
         \/ r.how # "ok" /\ Unwritten("write", Fails(w, r.how))
         \/ w.how = "ok" /\ r.how = "ok" /\ WriteElf(w, r)
  <2>1. e.cmd # "read"
    BY DEF UpdateWrite
  <2> QED
    BY <2>1 DEF UpdateWrite
<1> HIDE DEF r
<1>3. r = Image(w)
  BY DEF r
<1> HIDE DEF w
<1>4. \A v : v.how # "ok" /\ v = [e |-> v.e, how |-> v.how, ext |-> v.ext, rc |-> v.rc] =>
        ~Unwritten("write", v)
  BY DEF Unwritten, Finish, With
<1>5. w = [e |-> w.e, how |-> w.how, ext |-> w.ext, rc |-> w.rc]
  BY <1>1, WorkForm
<1>6. ASSUME NEW how, how # "ok" PROVE ~Unwritten("write", Fails(w, how))
  <2> DEFINE v == Fails(w, how)
  <2>1. v = [e |-> w.e, how |-> how, ext |-> w.ext, rc |-> w.rc]
    BY <1>1, WorkForm
  <2>2. v.how # "ok" /\ v = [e |-> v.e, how |-> v.how, ext |-> v.ext, rc |-> v.rc]
    BY <1>6, <2>1
  <2> HIDE DEF v
  <2>3. ~Unwritten("write", v)
    BY <1>4, <2>2
  <2> QED
    BY <2>3 DEF v
<1>7. w.how = "ok" /\ r.how = "ok" /\ WriteElf(w, r)
  BY <1>2, <1>4, <1>5, <1>6
<1>8. \A units, raw, how : how # "ok" => ~Touched(w, units, raw, how)
  BY DEF Touched
<1>9. file' = r.img /\ e' = Written(w.e, r.img) /\ UNCHANGED <<meant, meantPh>>
  BY <1>6, <1>7, <1>8 DEF WriteElf
<1> QED
  BY <1>2, <1>3, <1>7, <1>9 DEF w

LEMMA WrittenStep ==
  ASSUME LayoutInv, TypeInv, MeantInv, WrittenIsMeant, [Next]_vars PROVE WrittenIsMeant'
<1>1. CASE UNCHANGED vars
  BY <1>1 DEF vars, WrittenIsMeant
<1>2. CASE Next /\ ~UpdateWrite
  BY <1>2, OthersEnd DEF WrittenIsMeant
<1>3. CASE UpdateWrite
  <2> SUFFICES ASSUME last' = [op |-> "write", how |-> "ok"],
                      e'.cmd = "write" => e'.writes = 1,
                      Len(meantPh') >= PnXnum * PhdrSize => meant' # <<>>,
                      ~e'.misread
               PROVE  /\ Sound(file') /\ Len(Contents(file')) = Len(meant')
                      /\ \A i \in 1..Len(meant') : Same(Contents(file')[i], meant'[i])
                      /\ Phdrs(file') = meantPh'
                      /\ ~e'.layout =>
                           \A i \in 1..Len(meant') : IsAligned(HeaderIn(file', i)[2])
    BY DEF WrittenIsMeant
  <2>1. e # None /\ e \in Opens /\ Shaped(e) /\ CanRead(e)
    BY <1>3, CallFinds DEF UpdateWrite
  <2>2. PICK w \in {Resync(e)} : \E r \in {Image(w)} :
           /\ e.cmd # "read" /\ w.how = "ok" /\ r.how = "ok"
           /\ file' = r.img /\ e' = Written(w.e, r.img) /\ UNCHANGED <<meant, meantPh>>
    BY <1>3, <2>1, WriteEnded
  <2>3. PICK r \in {Image(w)} :
           /\ e.cmd # "read" /\ w.how = "ok" /\ r.how = "ok"
           /\ file' = r.img /\ e' = Written(w.e, r.img) /\ UNCHANGED <<meant, meantPh>>
    BY <2>2
  <2>4. w = Resync(e) /\ r = Image(w)
    BY <2>2, <2>3
  <2>5. Later(e, w.e) /\ w.e \in Opens
    <3>1. w \in Goods(e.cmd)
      BY <2>1, <2>4, ResyncType DEF Readies
    <3> QED
      BY <2>1, <2>4, <3>1, ResyncLater, WorkFields
  <2>6. /\ e'.misread = w.e.misread /\ e'.layout = w.e.layout /\ e'.cmd = w.e.cmd
        /\ e'.writes = w.e.writes + 1 /\ w.e.writes \in Nat
    <3> DEFINE d == w.e
    <3>1. e' = Written(d, r.img) /\ d \in Opens
      BY <2>3, <2>5
    <3> HIDE DEF d
    <3>2. /\ e'.misread = d.misread /\ e'.layout = d.layout /\ e'.cmd = d.cmd
          /\ e'.writes = d.writes + 1 /\ d.writes \in Nat
      BY <3>1 DEF Written, Opens, Descs
    <3> QED
      BY <3>2 DEF d
  <2>7. MeansNow(e) /\ ~w.e.misread
    BY <2>5, <2>6 DEF MeansNow, Later
  <2>8. Means(e, meant, meantPh) /\ meant \in Seq(Seq(Unit))
    BY <2>1, <2>7 DEF MeantInv
  <2> DEFINE f == r.img
             layout == w.e.layout
  <2>9. Conforms(f, meant, meantPh, layout)
    BY <2>1, <2>3, <2>4, <2>7, <2>8, UpdateMeant
  <2>10. /\ file' = f /\ meant' = meant /\ meantPh' = meantPh /\ e'.layout = layout
         /\ Len(meantPh) >= PnXnum * PhdrSize => meant # <<>>
    BY <2>3, <2>6
  <2> HIDE DEF f, layout
  <2>11. /\ Sound(f) /\ Len(Contents(f)) = Len(meant)
         /\ \A i \in 1..Len(meant) : Same(Contents(f)[i], meant[i])
         /\ Phdrs(f) = meantPh
         /\ ~layout => \A i \in 1..Len(meant) : IsAligned(HeaderIn(f, i)[2])
    <3>1. /\ meant \in Seq(Seq(Unit)) /\ Conforms(f, meant, meantPh, layout)
          /\ Len(meantPh) >= PnXnum * PhdrSize => meant # <<>>
      BY <2>8, <2>9, <2>10
    <3> QED
      BY ONLY <3>1, ConformsHolds, ZenonT(30)
  <2> QED
    BY <2>10, <2>11
<1> QED
  BY <1>1, <1>2, <1>3 DEF Next

\* After a successful elf_update(ELF_C_WRITE) the file holds the object as the
\* client has it: every section with its contents, aligned as asked, the program
\* headers and all counts, whatever the file held before, in whatever order the calls
\* came, whatever the client changed, and whatever failed in between.
THEOREM WrittenAsMeant == Spec => []WrittenIsMeant
<1>1. Init => TypeInv /\ MeantInv /\ WrittenIsMeant
  <2>1. 0 \in 0..MaxCalls /\ FALSE \in BOOLEAN
    BY ElfUpdateAssumption DEF ElfUpdateAssumption
  <2>2. <<>> \in Seq(Seq(Unit)) /\ <<>> \in Seq(Unit)
    OBVIOUS
  <2>3. Init => TypeInv /\ MeantInv
    BY <2>1, <2>2 DEF Init, TypeInv, MeantInv
  <2>4. Init => last.op # "write"
    BY DEF Init
  <2>5. Init => WrittenIsMeant
    BY <2>4 DEF WrittenIsMeant
  <2> QED
    BY <2>3, <2>5
<1>2. LayoutInv /\ TypeInv /\ MeantInv /\ WrittenIsMeant /\ [Next]_vars
        => TypeInv' /\ MeantInv' /\ WrittenIsMeant'
  BY TypeStep, MeantStep, WrittenStep
<1> QED
  BY <1>1, <1>2, Invariance, PTL DEF Spec
=============================================================================
