----------------------------- MODULE LspcProofs -----------------------------
(***************************************************************************)
(* Proofs about the LSPC container (Lspc), for any number of chunks, any   *)
(* buffer size and any number of failures.  What the file looks like is    *)
(* said of its pieces - a header and the cells it announces - and shown to *)
(* survive the two ways the file grows; that the walk from header to       *)
(* header meets every piece follows by induction over the file.            *)
(***************************************************************************)
EXTENDS Lspc, FiniteSetTheorems, SequenceTheorems, TLAPS

-----------------------------------------------------------------------------
(* Natural numbers                                                         *)

\* A set of numbers has a least one: the numbers below an element are a finite
\* set, and among finite sets there is one that includes no other.  It carries
\* every induction of this module.
LEMMA LeastNatural ==
    ASSUME NEW T \in SUBSET Nat, T # {}
    PROVE  \E n \in T : \A m \in T : n <= m
<1> DEFINE Down == {0..n : n \in T}
<1>1. \A n \in T : n \in Nat /\ 0..n \in FiniteSubsetsOf(Nat)
  <2> SUFFICES ASSUME NEW n \in T PROVE n \in Nat /\ 0..n \in FiniteSubsetsOf(Nat)
      OBVIOUS
  <2>1. n \in Nat /\ 0..n \in SUBSET Nat
      BY SMT
  <2>2. IsFiniteSet(0..n)
      BY <2>1, FS_Interval
  <2> QED BY <2>1, <2>2 DEF FiniteSubsetsOf
<1>2. Down \subseteq FiniteSubsetsOf(Nat) /\ Down # {}
    BY <1>1
<1> HIDE DEF Down
<1>3. PICK X \in Down : \A Y \in Down : <<Y, X>> \notin StrictSubsetOrdering(Nat)
    BY <1>2, FS_StrictSubsetOrderingWellFounded, WFMin, Zenon
<1>4. PICK n \in T : X = 0..n
    BY <1>3 DEF Down
<1>5. ASSUME NEW m \in T, ~(n <= m) PROVE FALSE
  <2>1. n \in Nat /\ m \in Nat
      BY <1>1
  <2>2. n \in 0..n /\ n \notin 0..m /\ 0..m \subseteq 0..n
      BY <1>5, <2>1
  <2>3. 0..m \in SUBSET Nat /\ 0..n \in SUBSET Nat
      BY <2>1
  <2>4. <<0..m, 0..n>> \in StrictSubsetOrdering(Nat)
      BY <2>2, <2>3 DEF StrictSubsetOrdering
  <2>5. 0..m \in Down
      BY DEF Down
  <2> QED BY <1>3, <1>4, <2>4, <2>5
<1> QED BY <1>5

\* Min of the community modules is the least element.
LEMMA MinOfSet ==
    ASSUME NEW T \in SUBSET Nat, T # {}
    PROVE  Min(T) \in T /\ \A m \in T : Min(T) <= m
BY LeastNatural DEF Min

LEMMA MinOfTwo ==
    ASSUME NEW a \in Nat, NEW b \in Nat
    PROVE  /\ Min({a, b}) \in Nat /\ Min({a, b}) <= a /\ Min({a, b}) <= b
           /\ Min({a, b}) = a \/ Min({a, b}) = b
<1>1. Min({a, b}) \in {a, b} /\ \A m \in {a, b} : Min({a, b}) <= m
    BY MinOfSet
<1> QED BY <1>1

-----------------------------------------------------------------------------
(* The pieces of a file                                                    *)

Headers(f)     == {i \in 1..Len(f) : f[i].kind = "header"}
Of(f, w)       == {i \in Headers(f) : f[i].of = w}
PieceEnd(f, i) == i + f[i].size
Upto(f, i)     == f[i].at + f[i].size

\* The pieces follow one another, and there is nothing else in the file.
Layout(f) ==
    /\ \A i, j \in Headers(f) : i < j => PieceEnd(f, i) < j
    /\ \A k \in 1..Len(f) : \E i \in Headers(f) : i <= k /\ k <= PieceEnd(f, i)

\* A piece holds the bytes of its stream from the one its header names on.
Payload(f) ==
    \A i \in Headers(f) : \A k \in (i + 1)..PieceEnd(f, i) :
        k <= Len(f) => f[k] = Byte(f[i].of, f[i].at + (k - i))

\* The pieces of one stream are in order, each begins where one before it ends,
\* and none follows the last.
InOrder(f) ==
    \A i, j \in Headers(f) : i < j /\ f[i].of = f[j].of => Upto(f, i) <= f[j].at
Gapless(f) ==
    \A j \in Headers(f) : f[j].at > 0 =>
        \E i \in Headers(f) : i < j /\ f[i].of = f[j].of /\ Upto(f, i) = f[j].at
LastIsLast(f) ==
    \A i, j \in Headers(f) : i < j /\ f[i].of = f[j].of => ~f[i].last

Pieces(f) == Layout(f) /\ Payload(f) /\ InOrder(f) /\ Gapless(f) /\ LastIsLast(f)

LEMMA CellKinds ==
    ASSUME NEW f \in Seq(Cells)
    PROVE  /\ Len(f) \in Nat
           /\ \A i \in 1..Len(f) : f[i] \in Cells
           /\ \A i \in Headers(f) : i \in 1..Len(f) /\ f[i] \in HeaderCells
           /\ \A i \in 1..Len(f) : i \notin Headers(f) => f[i] \in ByteCells
BY DEF Cells, HeaderCells, ByteCells, Headers

LEMMA HeaderTypes ==
    ASSUME NEW f \in Seq(Cells), NEW i \in Headers(f)
    PROVE  /\ i \in Nat /\ 1 <= i /\ i <= Len(f)
           /\ f[i].kind = "header" /\ f[i].of \in Writers /\ f[i].at \in Nat
           /\ f[i].uid \in 0..MaxId /\ f[i].magic \in Magics
           /\ f[i].size \in Nat /\ f[i].last \in BOOLEAN
           /\ PieceEnd(f, i) \in Nat /\ Upto(f, i) \in Nat
           /\ i <= PieceEnd(f, i) /\ f[i].at <= Upto(f, i)
<1>1. Len(f) \in Nat /\ i \in 1..Len(f) /\ f[i] \in HeaderCells
    BY CellKinds
<1> QED BY <1>1 DEF HeaderCells, PieceEnd, Upto

\* What a growing file keeps: the headers it had, and their cells.
LEMMA HeaderAppended ==
    ASSUME NEW f \in Seq(Cells), NEW h \in HeaderCells
    PROVE  LET g == Append(f, h) IN
           /\ g \in Seq(Cells) /\ Len(g) = Len(f) + 1
           /\ Headers(g) = Headers(f) \cup {Len(f) + 1}
           /\ \A i \in 1..Len(f) : g[i] = f[i]
           /\ g[Len(f) + 1] = h
<1> DEFINE g == Append(f, h)
<1>1. h \in Cells /\ h.kind = "header"
    BY DEF Cells, HeaderCells
<1>2. /\ Len(f) \in Nat /\ g \in Seq(Cells) /\ Len(g) = Len(f) + 1
      /\ \A i \in 1..Len(f) : g[i] = f[i]
      /\ g[Len(f) + 1] = h
    BY <1>1, AppendProperties, LenProperties
<1>3. Headers(g) = Headers(f) \cup {Len(f) + 1}
    BY <1>1, <1>2 DEF Headers
<1> QED BY <1>2, <1>3

LEMMA BytesAppended ==
    ASSUME NEW f \in Seq(Cells), NEW b \in Seq(ByteCells)
    PROVE  LET g == f \o b IN
           /\ g \in Seq(Cells) /\ Len(g) = Len(f) + Len(b)
           /\ Headers(g) = Headers(f)
           /\ \A i \in 1..Len(f) : g[i] = f[i]
           /\ \A i \in 1..Len(b) : g[Len(f) + i] = b[i]
<1> DEFINE g == f \o b
<1>1. b \in Seq(Cells) /\ Len(f) \in Nat /\ Len(b) \in Nat
    BY LenProperties, SeqMonotonic DEF Cells
<1>2. /\ g \in Seq(Cells) /\ Len(g) = Len(f) + Len(b)
      /\ \A i \in 1..(Len(f) + Len(b)) : g[i] = IF i <= Len(f) THEN f[i] ELSE b[i - Len(f)]
    BY <1>1, ConcatProperties
<1>3. \A i \in 1..Len(f) : g[i] = f[i]
    BY <1>1, <1>2
<1>4. \A i \in 1..Len(b) : g[Len(f) + i] = b[i]
    BY <1>1, <1>2
<1>5. \A i \in 1..Len(g) : i > Len(f) => g[i].kind = "byte"
  <2> SUFFICES ASSUME NEW i \in 1..Len(g), i > Len(f) PROVE g[i].kind = "byte"
      OBVIOUS
  <2>1. g[i] = b[i - Len(f)] /\ i - Len(f) \in 1..Len(b)
      BY <1>1, <1>2
  <2>2. b[i - Len(f)] \in ByteCells
      BY <2>1, ElementOfSeq
  <2> QED BY <2>1, <2>2 DEF ByteCells
<1>6. Headers(g) = Headers(f)
    BY <1>1, <1>2, <1>3, <1>5 DEF Headers
<1> QED BY <1>2, <1>3, <1>4, <1>6

\* A header that follows the last piece and continues its stream.
LEMMA HeaderExtends ==
    ASSUME NEW f \in Seq(Cells), Pieces(f), NEW h \in HeaderCells,
           \A i \in Headers(f) : PieceEnd(f, i) <= Len(f),
           \A i \in Of(f, h.of) : Upto(f, i) <= h.at /\ ~f[i].last,
           h.at > 0 => \E i \in Of(f, h.of) : Upto(f, i) = h.at
    PROVE  Pieces(Append(f, h))
<1> DEFINE g == Append(f, h)
           n == Len(f) + 1
<1>1. /\ g \in Seq(Cells) /\ Len(g) = n /\ Headers(g) = Headers(f) \cup {n}
      /\ \A i \in 1..Len(f) : g[i] = f[i]
      /\ g[n] = h
    BY HeaderAppended
<1>2. Len(f) \in Nat /\ \A i \in Headers(f) : i \in 1..Len(f)
    BY CellKinds
<1>3. \A i \in Headers(f) : g[i] = f[i] /\ PieceEnd(g, i) = PieceEnd(f, i) /\ Upto(g, i) = Upto(f, i)
    BY <1>1, <1>2 DEF PieceEnd, Upto
<1>4. h.size \in Nat /\ h.at \in Nat /\ PieceEnd(g, n) = n + h.size
    BY <1>1 DEF HeaderCells, PieceEnd
<1> HIDE DEF g
<1>5. Layout(g)
  <2>1. ASSUME NEW i \in Headers(g), NEW j \in Headers(g), i < j PROVE PieceEnd(g, i) < j
    <3>1. i \in Headers(f)
        BY <1>1, <1>2, <2>1
    <3>2. CASE j \in Headers(f)
        BY <1>3, <2>1, <3>1, <3>2 DEF Pieces, Layout
    <3>3. CASE j = n
        BY <1>2, <1>3, <3>1, <3>3, HeaderTypes
    <3> QED BY <1>1, <3>2, <3>3
  <2>2. ASSUME NEW k \in 1..Len(g) PROVE \E i \in Headers(g) : i <= k /\ k <= PieceEnd(g, i)
    <3>1. CASE k \in 1..Len(f)
        BY <1>1, <1>3, <3>1 DEF Pieces, Layout
    <3>2. CASE k = n
        BY <1>1, <1>2, <1>4, <3>2
    <3> QED BY <1>1, <1>2, <3>1, <3>2
  <2> QED BY <2>1, <2>2 DEF Layout
<1>6. Payload(g)
  <2>1. ASSUME NEW i \in Headers(g), NEW k \in (i + 1)..PieceEnd(g, i), k <= Len(g)
        PROVE  g[k] = Byte(g[i].of, g[i].at + (k - i))
    <3>1. CASE i = n
        BY <1>1, <1>2, <1>4, <2>1, <3>1
    <3>2. CASE i \in Headers(f)
      <4>1. PieceEnd(f, i) <= Len(f) /\ k \in (i + 1)..PieceEnd(f, i) /\ PieceEnd(f, i) \in Nat
          BY <1>3, <2>1, <3>2, HeaderTypes
      <4>2. k \in 1..Len(f)
          BY <1>2, <3>2, <4>1
      <4>3. f[k] = Byte(f[i].of, f[i].at + (k - i))
          BY <3>2, <4>1, <4>2 DEF Pieces, Payload
      <4> QED BY <1>1, <1>3, <3>2, <4>2, <4>3
    <3> QED BY <1>1, <3>1, <3>2
  <2> QED BY <2>1 DEF Payload
<1>7. InOrder(g) /\ LastIsLast(g)
  <2>1. ASSUME NEW i \in Headers(g), NEW j \in Headers(g), i < j, g[i].of = g[j].of
        PROVE  Upto(g, i) <= g[j].at /\ ~g[i].last
    <3>1. i \in Headers(f)
        BY <1>1, <1>2, <2>1
    <3>2. CASE j \in Headers(f)
        BY <1>3, <2>1, <3>1, <3>2 DEF Pieces, InOrder, LastIsLast
    <3>3. CASE j = n
        BY <1>1, <1>3, <2>1, <3>1, <3>3 DEF Of
    <3> QED BY <1>1, <3>2, <3>3
  <2> QED BY <2>1 DEF InOrder, LastIsLast
<1>8. Gapless(g)
  <2>1. ASSUME NEW j \in Headers(g), g[j].at > 0
        PROVE  \E i \in Headers(g) : i < j /\ g[i].of = g[j].of /\ Upto(g, i) = g[j].at
    <3>1. CASE j \in Headers(f)
      <4>1. PICK i \in Headers(f) : i < j /\ f[i].of = f[j].of /\ Upto(f, i) = f[j].at
          BY <1>3, <2>1, <3>1 DEF Pieces, Gapless
      <4> QED BY <1>1, <1>3, <3>1, <4>1
    <3>2. CASE j = n
      <4>1. PICK i \in Of(f, h.of) : Upto(f, i) = h.at
          BY <1>1, <2>1, <3>2
      <4> QED BY <1>1, <1>2, <1>3, <3>2, <4>1 DEF Of
    <3> QED BY <1>1, <3>1, <3>2
  <2> QED BY <2>1 DEF Gapless
<1> QED BY <1>5, <1>6, <1>7, <1>8 DEF Pieces, g

\* Bytes that fill the piece at the end of the file.
LEMMA BytesExtend ==
    ASSUME NEW f \in Seq(Cells), Pieces(f), NEW c \in Headers(f), NEW r \in Nat, NEW n \in 1..r,
           PieceEnd(f, c) = Len(f) + r
    PROVE  LET b == [k \in 1..n |-> Byte(f[c].of, Upto(f, c) - r + k)] IN
           b \in Seq(ByteCells) /\ Len(b) = n /\ Pieces(f \o b)
<1> DEFINE b == [k \in 1..n |-> Byte(f[c].of, Upto(f, c) - r + k)]
           g == f \o b
<1>0. Len(f) \in Nat /\ \A i \in Headers(f) : i \in 1..Len(f)
    BY CellKinds
<1>1. r <= f[c].size
    BY <1>0, HeaderTypes DEF PieceEnd
<1>2. b \in Seq(ByteCells) /\ Len(b) = n /\ n \in Nat
  <2>1. \A k \in 1..n : Byte(f[c].of, Upto(f, c) - r + k) \in ByteCells
    <3>1. ASSUME NEW k \in 1..n PROVE Upto(f, c) - r + k \in Nat \ {0}
        BY <1>1, HeaderTypes DEF Upto
    <3> QED BY <3>1, HeaderTypes DEF Byte, ByteCells
  <2>2. n \in Nat /\ b \in [1..n -> ByteCells]
      BY <2>1
  <2> QED BY <2>2, SeqDef, LenProperties
<1>3. /\ g \in Seq(Cells) /\ Len(g) = Len(f) + n /\ Headers(g) = Headers(f)
      /\ \A i \in 1..Len(f) : g[i] = f[i]
      /\ \A i \in 1..n : g[Len(f) + i] = Byte(f[c].of, Upto(f, c) - r + i)
  <2>1. \A i \in 1..n : b[i] = Byte(f[c].of, Upto(f, c) - r + i)
      OBVIOUS
  <2> HIDE DEF b
  <2> QED BY <1>2, <2>1, BytesAppended
<1>4. \A i \in Headers(f) : g[i] = f[i] /\ PieceEnd(g, i) = PieceEnd(f, i) /\ Upto(g, i) = Upto(f, i)
    BY <1>0, <1>3 DEF PieceEnd, Upto
<1> HIDE DEF g
\* The piece being written is the last one.
<1>5. \A i \in Headers(f) : i # c => PieceEnd(f, i) < c
  <2> SUFFICES ASSUME NEW i \in Headers(f), i # c PROVE PieceEnd(f, i) < c
      OBVIOUS
  <2>1. ~(c < i)
      BY <1>0, HeaderTypes DEF Pieces, Layout
  <2> QED BY <1>0, <2>1 DEF Pieces, Layout
<1>6. Layout(g)
  <2>1. ASSUME NEW k \in 1..Len(g) PROVE \E i \in Headers(g) : i <= k /\ k <= PieceEnd(g, i)
    <3>1. CASE k \in 1..Len(f)
        BY <1>3, <1>4, <3>1 DEF Pieces, Layout
    <3>2. CASE k > Len(f)
        BY <1>0, <1>3, <1>4, <3>2
    <3> QED BY <1>0, <1>3, <3>1, <3>2
  <2>2. \A i, j \in Headers(g) : i < j => PieceEnd(g, i) < j
      BY <1>3, <1>4 DEF Pieces, Layout
  <2> QED BY <2>1, <2>2 DEF Layout
<1>7. Payload(g)
  <2>1. ASSUME NEW i \in Headers(g), NEW k \in (i + 1)..PieceEnd(g, i), k <= Len(g)
        PROVE  g[k] = Byte(g[i].of, g[i].at + (k - i))
    <3>0. i \in Headers(f) /\ k \in (i + 1)..PieceEnd(f, i) /\ PieceEnd(f, i) \in Nat
        BY <1>3, <1>4, HeaderTypes
    <3>1. CASE k <= Len(f)
      <4>1. f[k] = Byte(f[i].of, f[i].at + (k - i))
          BY <3>0, <3>1 DEF Pieces, Payload
      <4> QED BY <1>0, <1>3, <1>4, <3>0, <3>1, <4>1
    <3>2. CASE k > Len(f)
      <4>1. i = c
          BY <1>0, <1>5, <3>0, <3>2
      <4>2. k - Len(f) \in 1..n /\ k = Len(f) + (k - Len(f))
          BY <1>0, <1>3, <2>1, <3>0, <3>2
      <4>3. g[k] = Byte(f[c].of, Upto(f, c) - r + (k - Len(f)))
          BY <1>3, <4>2
      <4>4. Upto(f, c) - r + (k - Len(f)) = f[c].at + (k - c)
        <5>1. k \in Int /\ c \in Int /\ f[c].size \in Int /\ f[c].at \in Int /\ Len(f) \in Int
            BY <1>0, <3>0, HeaderTypes
        <5>2. c + f[c].size = Len(f) + r /\ Upto(f, c) = f[c].at + f[c].size
            BY DEF Upto, PieceEnd
        <5>3. Upto(f, c) - r = f[c].at - c + Len(f)
            BY <5>1, <5>2
        <5> QED BY <5>1, <5>3
      <4> QED BY <1>4, <4>1, <4>3, <4>4
    <3> QED BY <1>0, <3>0, <3>1, <3>2
  <2> QED BY <2>1 DEF Payload
<1>8. InOrder(g) /\ Gapless(g) /\ LastIsLast(g)
    BY <1>3, <1>4 DEF Pieces, InOrder, Gapless, LastIsLast
<1> QED BY <1>2, <1>6, <1>7, <1>8 DEF Pieces, g

-----------------------------------------------------------------------------
(* The walk from header to header                                          *)

WalkStep(f, S, n)  == S \cup (IF n - 1 \in S THEN {n + f[n].size} ELSE {})
IsWalk(f, g, last) == g = [n \in 0..last |-> IF n = 0 THEN {0} ELSE WalkStep(f, g[n - 1], n)]

\* The recursive definition of Walk defines a function.
LEMMA WalkExists ==
    ASSUME NEW f, NEW last \in Nat
    PROVE  \E g : IsWalk(f, g, last)
<1> DEFINE T == {m \in Nat : ~\E g : IsWalk(f, g, m)}
<1>1. SUFFICES ASSUME T # {} PROVE FALSE
    OBVIOUS
<1>2. PICK m \in T : \A k \in T : m <= k
    BY <1>1, LeastNatural
<1>3. m # 0
  <2>1. IsWalk(f, [n \in 0..0 |-> {0}], 0)
      BY DEF IsWalk
  <2> QED BY <2>1
<1>4. m - 1 \in Nat /\ m - 1 \notin T
    BY <1>2, <1>3
<1>5. PICK g : IsWalk(f, g, m - 1)
    BY <1>4
<1> DEFINE h == [n \in 0..m |-> IF n < m THEN g[n] ELSE WalkStep(f, g[m - 1], m)]
<1>6. ASSUME NEW n \in 0..m
      PROVE  h[n] = IF n = 0 THEN {0} ELSE WalkStep(f, h[n - 1], n)
  <2>1. CASE n < m
    <3>1. n \in 0..(m - 1)
        BY <1>4, <2>1
    <3>2. g[n] = IF n = 0 THEN {0} ELSE WalkStep(f, g[n - 1], n)
        BY <1>5, <3>1 DEF IsWalk
    <3>3. n # 0 => h[n - 1] = g[n - 1]
        BY <1>4, <2>1
    <3> QED BY <2>1, <3>2, <3>3
  <2>2. CASE n = m
    <3>1. h[m - 1] = g[m - 1]
        BY <1>4
    <3> QED BY <1>3, <2>2, <3>1
  <2> QED BY <1>4, <2>1, <2>2
<1>7. IsWalk(f, h, m)
  <2> HIDE DEF h
  <2>1. h = [n \in 0..m |-> h[n]]
      BY DEF h
  <2> QED BY <1>6, <2>1 DEF IsWalk
<1> QED BY <1>2, <1>7

\* Where headers are met: every element is the beginning of the file or the
\* place behind a piece met before it, and none is met too late.
LEMMA WalkStages ==
    ASSUME NEW f \in Seq(Cells), Pieces(f), NEW g, IsWalk(f, g, Len(f))
    PROVE  /\ \A n \in 0..Len(f) : \A p \in g[n] :
                 p \in Nat /\ (p < Len(f) => p + 1 \in Headers(f) /\ (p >= n \/ p \in g[p]))
           /\ \A m, n \in 0..Len(f) : m <= n => g[m] \subseteq g[n]
<1> DEFINE Good(n) == \A p \in g[n] :
                 p \in Nat /\ (p < Len(f) => p + 1 \in Headers(f) /\ (p >= n \/ p \in g[p]))
<1>0. Len(f) \in Nat
    BY CellKinds
<1>1. g[0] = {0}
    BY <1>0 DEF IsWalk
<1>2. ASSUME NEW n \in 1..Len(f) PROVE g[n] = WalkStep(f, g[n - 1], n)
  <2>1. n \in 0..Len(f) /\ n # 0
      BY <1>0
  <2> QED BY <2>1 DEF IsWalk
<1>3. \A n \in 0..Len(f) : Good(n)
  <2> DEFINE T == {n \in 0..Len(f) : ~Good(n)}
  <2>1. SUFFICES ASSUME T # {} PROVE FALSE
      OBVIOUS
  <2>2. PICK n \in T : \A k \in T : n <= k
    <3>1. T \in SUBSET Nat
        BY <1>0
    <3> HIDE DEF T
    <3> QED BY <2>1, <3>1, LeastNatural
  <2>3. n # 0
    <3>1. 0 < Len(f) => 1 \in Headers(f)
      <4>1. \A i \in Headers(f) : i \in 1..Len(f)
          BY CellKinds
      <4> QED BY <1>0, <4>1 DEF Pieces, Layout
    <3>2. Good(0)
        BY <1>1, <3>1
    <3> QED BY <2>2, <3>2
  <2>4. n \in 1..Len(f) /\ n - 1 \in 0..Len(f) /\ Good(n - 1)
      BY <1>0, <2>2, <2>3
  <2>5. ASSUME NEW p \in g[n]
        PROVE  p \in Nat /\ (p < Len(f) => p + 1 \in Headers(f) /\ (p >= n \/ p \in g[p]))
    <3>1. CASE p \in g[n - 1]
      <4>1. p \in Nat /\ (p < Len(f) => p + 1 \in Headers(f) /\ (p >= n - 1 \/ p \in g[p]))
          BY <2>4, <3>1
      <4>2. p = n - 1 => p \in g[p]
          BY <3>1
      <4> QED BY <2>4, <4>1, <4>2
    <3>2. CASE n - 1 \in g[n - 1] /\ p = n + f[n].size
      <4>1. n \in Headers(f)
        <5>1. n - 1 < Len(f) /\ (n - 1) + 1 = n
            BY <1>0, <2>4
        <5> QED BY <2>4, <3>2, <5>1
      <4>2. f[n].size \in Nat /\ PieceEnd(f, n) = p /\ p \in Nat /\ p >= n
          BY <2>4, <3>2, <4>1, HeaderTypes DEF PieceEnd
      <4>3. ASSUME p < Len(f) PROVE p + 1 \in Headers(f)
        <5>1. PICK i \in Headers(f) : i <= p + 1 /\ p + 1 <= PieceEnd(f, i)
          <6>1. p + 1 \in 1..Len(f)
              BY <1>0, <4>2, <4>3
          <6> QED BY <6>1 DEF Pieces, Layout
        <5>2. i \in Nat /\ PieceEnd(f, i) \in Nat
            BY HeaderTypes
        <5>3. ~(i < n) /\ i # n
            BY <2>4, <4>1, <4>2, <5>1, <5>2 DEF Pieces, Layout
        <5>4. p < i
            BY <2>4, <4>1, <4>2, <5>2, <5>3 DEF Pieces, Layout
        <5> QED BY <4>2, <5>1, <5>2, <5>4
      <4> QED BY <4>2, <4>3
    <3> QED BY <1>2, <2>4, <3>1, <3>2 DEF WalkStep
  <2> QED BY <2>2, <2>5
<1>4. \A m, n \in 0..Len(f) : m <= n => g[m] \subseteq g[n]
  <2> SUFFICES ASSUME NEW m \in 0..Len(f)
               PROVE  \A n \in 0..Len(f) : m <= n => g[m] \subseteq g[n]
      OBVIOUS
  <2> DEFINE T == {n \in 0..Len(f) : m <= n /\ ~(g[m] \subseteq g[n])}
  <2>1. SUFFICES ASSUME T # {} PROVE FALSE
      OBVIOUS
  <2>2. PICK n \in T : \A k \in T : n <= k
    <3>1. T \in SUBSET Nat
        BY <1>0
    <3> HIDE DEF T
    <3> QED BY <2>1, <3>1, LeastNatural
  <2>3. n \in 1..Len(f) /\ n - 1 \in 0..Len(f) /\ m <= n - 1
      BY <1>0, <2>2
  <2>4. g[m] \subseteq g[n - 1]
      BY <2>2, <2>3
  <2>5. g[n - 1] \subseteq g[n]
      BY <1>2, <2>3 DEF WalkStep
  <2> QED BY <2>2, <2>4, <2>5
<1> QED BY <1>3, <1>4

\* The walk over a file of pieces meets every header and nothing else.
LEMMA WalkMeetsHeaders ==
    ASSUME file \in Seq(Cells), Pieces(file)
    PROVE  Walk = {p \in 0..(Len(file) - 1) : file[p + 1].kind = "header"}
<1> DEFINE W[n \in 0..Len(file)] ==
            IF n = 0 THEN {0}
            ELSE W[n - 1] \cup (IF n - 1 \in W[n - 1] THEN {n + file[n].size} ELSE {})
<1>0. Len(file) \in Nat
    BY CellKinds
<1>1. IsWalk(file, W, Len(file))
  <2>1. \E g : IsWalk(file, g, Len(file))
      BY <1>0, WalkExists
  <2> QED BY <2>1 DEF IsWalk, WalkStep
<1>2. Walk = {p \in W[Len(file)] : p < Len(file)}
    BY DEF Walk
<1> HIDE DEF W
<1>3. ASSUME NEW p \in Walk PROVE p \in 0..(Len(file) - 1) /\ file[p + 1].kind = "header"
  <2>1. p \in Nat /\ p < Len(file) /\ p + 1 \in Headers(file)
      BY <1>0, <1>1, <1>2, WalkStages
  <2> QED BY <1>0, <2>1 DEF Headers
<1>4. \A p \in 0..(Len(file) - 1) : p + 1 \in Headers(file) => p \in W[Len(file)]
  <2> DEFINE T == {p \in 0..(Len(file) - 1) : p + 1 \in Headers(file) /\ p \notin W[Len(file)]}
  <2>1. SUFFICES ASSUME T # {} PROVE FALSE
      OBVIOUS
  <2>2. PICK p \in T : \A k \in T : p <= k
    <3>1. T \in SUBSET Nat
        BY <1>0
    <3> HIDE DEF T
    <3> QED BY <2>1, <3>1, LeastNatural
  <2>3. p # 0
    <3>1. W[0] = {0}
        BY <1>0, <1>1 DEF IsWalk
    <3>2. W[0] \subseteq W[Len(file)]
        BY <1>0, <1>1, WalkStages
    <3> QED BY <2>2, <3>1, <3>2
  <2>4. p \in 1..Len(file) /\ p < Len(file)
      BY <1>0, <2>2, <2>3
  \* The piece that covers the cell before this header ends there.
  <2>5. PICK i \in Headers(file) : i <= p /\ p <= PieceEnd(file, i)
      BY <2>4 DEF Pieces, Layout
  <2>6. i \in 1..Len(file) /\ PieceEnd(file, i) = p /\ p = i + file[i].size
    <3>1. i \in 1..Len(file) /\ PieceEnd(file, i) \in Nat
        BY <2>5, CellKinds, HeaderTypes
    <3>2. PieceEnd(file, i) < p + 1
        BY <2>2, <2>4, <2>5, <3>1 DEF Pieces, Layout
    <3> QED BY <2>4, <2>5, <3>1, <3>2 DEF PieceEnd
  <2>7. i - 1 \in W[i - 1]
    <3>1. i - 1 \in 0..(Len(file) - 1) /\ (i - 1) + 1 = i /\ i - 1 < p /\ i - 1 < Len(file)
        BY <1>0, <2>4, <2>5, <2>6
    <3>2. i - 1 \in W[Len(file)]
        BY <2>2, <2>4, <2>5, <3>1
    <3>3. i - 1 >= Len(file) \/ i - 1 \in W[i - 1]
        BY <1>0, <1>1, <3>1, <3>2, WalkStages
    <3> QED BY <1>0, <3>1, <3>3
  <2>8. p \in W[i]
    <3>1. W[i] = WalkStep(file, W[i - 1], i)
        BY <1>0, <1>1, <2>6 DEF IsWalk
    <3> QED BY <2>6, <2>7, <3>1 DEF WalkStep
  <2>9. W[i] \subseteq W[Len(file)]
      BY <1>0, <1>1, <2>6, WalkStages
  <2> QED BY <2>2, <2>8, <2>9
<1>5. ASSUME NEW p \in 0..(Len(file) - 1), file[p + 1].kind = "header" PROVE p \in Walk
  <2>1. p + 1 \in Headers(file)
      BY <1>0, <1>5 DEF Headers
  <2> QED BY <1>0, <1>2, <1>4, <2>1
<1> QED BY <1>3, <1>5

\* How many bytes of the stream of w the headers of the file announce.
Announced(f, w, n) ==
    /\ \A i \in Of(f, w) : Upto(f, i) <= n
    /\ n > 0 => \E i \in Of(f, w) : Upto(f, i) = n

Bytes(f, w) == {i \in DOMAIN f : f[i].kind = "byte" /\ f[i].of = w}

LEMMA ByteInPiece ==
    ASSUME NEW f \in Seq(Cells), Pieces(f), NEW w, NEW i \in Bytes(f, w)
    PROVE  \E c \in Of(f, w) : \E k \in 1..f[c].size : i = c + k /\ f[i].at = f[c].at + k
<1>1. Len(f) \in Nat /\ i \in 1..Len(f) /\ f[i].kind = "byte" /\ f[i].of = w
    BY CellKinds, LenProperties DEF Bytes
<1>2. PICK c \in Headers(f) : c <= i /\ i <= PieceEnd(f, c)
    BY <1>1 DEF Pieces, Layout
<1>3. c \in Nat /\ PieceEnd(f, c) \in Nat /\ c # i
    BY <1>1, HeaderTypes
<1>4. i \in (c + 1)..PieceEnd(f, c)
    BY <1>1, <1>2, <1>3
<1>5. f[i] = Byte(f[c].of, f[c].at + (i - c))
    BY <1>1, <1>4 DEF Pieces, Payload
<1>6. f[c].size \in Nat /\ i - c \in 1..f[c].size /\ i = c + (i - c)
    BY <1>1, <1>2, <1>3, HeaderTypes DEF PieceEnd
<1> QED BY <1>1, <1>5, <1>6 DEF Byte, Of

LEMMA BytesInOrder ==
    ASSUME NEW f \in Seq(Cells), Pieces(f), NEW w, NEW i \in Bytes(f, w), NEW j \in Bytes(f, w), i < j
    PROVE  f[i].at < f[j].at
<1>1. PICK c \in Of(f, w) : \E k \in 1..f[c].size : i = c + k /\ f[i].at = f[c].at + k
    BY ByteInPiece
<1>2. PICK d \in Of(f, w) : \E m \in 1..f[d].size : j = d + m /\ f[j].at = f[d].at + m
    BY ByteInPiece
<1>3. PICK k \in 1..f[c].size : i = c + k /\ f[i].at = f[c].at + k
    BY <1>1
<1>4. PICK m \in 1..f[d].size : j = d + m /\ f[j].at = f[d].at + m
    BY <1>2
<1>5. /\ c \in Headers(f) /\ d \in Headers(f) /\ f[c].of = f[d].of
      /\ c \in Nat /\ f[c].at \in Nat /\ f[c].size \in Nat
      /\ d \in Nat /\ f[d].at \in Nat /\ f[d].size \in Nat
    BY HeaderTypes DEF Of
<1>6. c + k < d + m
    BY <1>3, <1>4
<1>7. CASE c = d
    BY <1>3, <1>4, <1>5, <1>6, <1>7
<1>8. CASE c < d
  <2>1. f[c].at + f[c].size <= f[d].at
      BY <1>5, <1>8 DEF Pieces, InOrder, Upto
  <2>2. \A a, s, b \in Nat : \A x \in 1..s, y \in Nat \ {0} : a + s <= b => a + x < b + y
      OBVIOUS
  <2>3. m \in Nat \ {0}
      BY <1>5
  <2>4. f[c].at + k < f[d].at + m
      BY <1>5, <2>1, <2>2, <2>3, Zenon
  <2> QED BY <1>3, <1>4, <2>4
<1>9. CASE d < c
  <2>1. d + f[d].size < c
      BY <1>5, <1>9 DEF Pieces, Layout, PieceEnd
  <2> QED BY <1>5, <1>6, <2>1
<1> QED BY <1>5, <1>7, <1>8, <1>9

\* When the pieces of a stream are in the file whole, its bytes are there once
\* and in order.
LEMMA StreamWhole ==
    ASSUME NEW f \in Seq(Cells), Pieces(f), NEW w, NEW n \in Nat, Announced(f, w, n),
           \A i \in Of(f, w) : PieceEnd(f, i) <= Len(f)
    PROVE  /\ {f[i].at : i \in Bytes(f, w)} = 1..n
           /\ \A i, j \in Bytes(f, w) : i < j => f[i].at < f[j].at
<1>0. Len(f) \in Nat /\ DOMAIN f = 1..Len(f) /\ Of(f, w) \subseteq Headers(f)
    BY LenProperties DEF Of
<1>1. ASSUME NEW i \in Bytes(f, w) PROVE f[i].at \in 1..n
  <2>0. PICK c \in Of(f, w) : \E k \in 1..f[c].size : i = c + k /\ f[i].at = f[c].at + k
      BY ByteInPiece
  <2>1. PICK k \in 1..f[c].size : i = c + k /\ f[i].at = f[c].at + k
      BY <2>0
  <2>2. c \in Nat /\ f[c].at \in Nat /\ f[c].size \in Nat
      BY <1>0, HeaderTypes
  <2>3. f[c].at + f[c].size <= n
      BY DEF Announced, Upto
  <2>4. f[c].at + k \in 1..n
      BY <2>2, <2>3
  <2> QED BY <2>1, <2>4
<1>2. ASSUME NEW k \in 1..n PROVE \E i \in Bytes(f, w) : f[i].at = k
  <2> DEFINE T == {c \in Of(f, w) : k <= Upto(f, c)}
  <2>1. T \in SUBSET Nat /\ T # {}
    <3>1. T \in SUBSET Nat
        BY <1>0, HeaderTypes
    <3>2. PICK c \in Of(f, w) : Upto(f, c) = n
        BY DEF Announced
    <3> QED BY <3>1, <3>2
  \* The first piece that reaches so far begins no later.
  <2>2. PICK c \in T : \A d \in T : c <= d
    <3> HIDE DEF T
    <3> QED BY <2>1, LeastNatural
  <2>3. c \in Headers(f) /\ f[c].of = w /\ k <= Upto(f, c)
      BY DEF Of
  <2>4. /\ c \in Nat /\ 1 <= c /\ f[c].at \in Nat /\ f[c].size \in Nat
        /\ Upto(f, c) = f[c].at + f[c].size /\ PieceEnd(f, c) = c + f[c].size
      BY <2>3, HeaderTypes DEF Upto, PieceEnd
  <2>5. f[c].at < k
    <3>1. SUFFICES ASSUME f[c].at >= k PROVE FALSE
        BY <2>4
    <3>2. PICK d \in Headers(f) : d < c /\ f[d].of = f[c].of /\ Upto(f, d) = f[c].at
        BY <2>3, <2>4, <3>1 DEF Pieces, Gapless
    <3>3. d \in T
        BY <2>3, <2>4, <3>1, <3>2 DEF Of
    <3>4. d \in Nat
        BY <3>2, HeaderTypes
    <3> QED BY <2>2, <2>4, <3>2, <3>3, <3>4
  <2> DEFINE i == c + (k - f[c].at)
  <2>6. i \in (c + 1)..PieceEnd(f, c) /\ i \in 1..Len(f) /\ i - c = k - f[c].at
    <3>1. PieceEnd(f, c) <= Len(f)
        BY <2>2
    <3> QED BY <1>0, <2>3, <2>4, <2>5, <3>1
  <2>7. f[i] = Byte(w, f[c].at + (i - c)) /\ f[c].at + (i - c) = k
    <3>1. i <= Len(f)
        BY <1>0, <2>6
    <3>2. f[c].at + (i - c) = k
        BY <2>4, <2>6
    <3> HIDE DEF i
    <3> QED BY <2>3, <2>6, <3>1, <3>2 DEF Pieces, Payload
  <2>8. i \in Bytes(f, w) /\ f[i].at = k
      BY <1>0, <2>6, <2>7 DEF Bytes, Byte
  <2> QED BY <2>8
<1>3. \A i, j \in Bytes(f, w) : i < j => f[i].at < f[j].at
    BY BytesInOrder
<1> QED BY <1>1, <1>2, <1>3

-----------------------------------------------------------------------------
(* The inductive invariant                                                 *)

InPayload == call.phase = "payload"
Opened    == {w \in Writers : wr[w].state = "open"}

\* A call in progress: its writer is open, and what it is about to write is
\* what its buffer or its caller holds.
CallInv ==
    /\ call.op = "none" => call = NoCall
    /\ call.op # "none" => call.w \in Writers /\ wr[call.w].state = "open"
    /\ call.phase = "loop" => call.op \in {"none", "write"}
    /\ call.phase # "loop" =>
         IF call.op = "write"
           THEN /\ call.size = BufSize /\ wr[call.w].buf \in {0, BufSize}
                /\ wr[call.w].buf = 0 => call.left >= BufSize
           ELSE call.size = wr[call.w].buf
    /\ call.phase = "header" => call.rest = call.size
    /\ InPayload => call.rest <= call.size /\ call.size <= given[call.w]

\* A writer has taken what it buffers; only an open one buffers anything, and
\* a new one has not taken anything.
WriterInv ==
    /\ \A w \in Writers :
          /\ wr[w].buf <= given[w]
          /\ wr[w].state # "open" => wr[w].buf = 0
          /\ wr[w].state = "new" => given[w] = 0
          /\ wr[w].state # "new" => wr[w].magic \in Magics
    /\ outFile = "new" => \A w \in Writers : wr[w].state = "new"

RefInv == IsFiniteSet(Opened) /\ RefsExact

\* The file may still grow, and how far the piece being written goes beyond it.
Growing    == outFile # "closed" \/ Opened # {}
Ahead      == IF InPayload THEN call.rest ELSE 0
\* What of the bytes a writer has taken is not announced in the file.
Pending(w) == IF InPayload /\ call.w = w THEN 0 ELSE wr[w].buf

Frontier == Growing => \A i \in Headers(file) : PieceEnd(file, i) <= Len(file) + Ahead
Current ==
    InPayload => \E i \in Of(file, call.w) :
                    /\ PieceEnd(file, i) = Len(file) + call.rest
                    /\ Upto(file, i) = given[call.w]

\* A header is as its writer is; the pieces of a closed chunk are whole, and
\* the last one has been written by a close().
Signed(w) ==
    \A i \in Of(file, w) :
        /\ wr[w].state # "new"
        /\ file[i].uid = wr[w].uid /\ file[i].magic = wr[w].magic
        /\ wr[w].state = "closed" => PieceEnd(file, i) <= Len(file)
        /\ file[i].last => \/ wr[w].state \in {"closed", "deleted"}
                           \/ InPayload /\ call.op = "close" /\ call.w = w

\* The file announces all that a writer has taken and does not hold back.
Accounts(w) ==
    /\ \A i \in Of(file, w) : Upto(file, i) <= given[w]
    /\ wr[w].state = "open" => Announced(file, w, given[w] - Pending(w))
    /\ wr[w].state = "closed" /\ ~told => Announced(file, w, given[w])

FileOK == /\ Pieces(file) /\ Frontier /\ Current
          /\ \A w \in Writers : Signed(w) /\ Accounts(w)
FileInv == ~damaged => FileOK

\* The reader knows where a header ends or a piece will.
Boundary == rd.off + rd.unread
AtBoundary ==
    /\ rd # NoReader =>
                     /\ rd.chunk \in Writers
                     /\ ~damaged => \E i \in Headers(file) : PieceEnd(file, i) = Boundary
    /\ rd = NoReader => rcall = NoRead /\ pos = 0

IInv == TypeOK /\ CallInv /\ WriterInv /\ RefInv /\ FileInv /\ AtBoundary

LEMMA InitIInv == Init => IInv
<1> SUFFICES ASSUME Init PROVE IInv
    OBVIOUS
<1> USE SizeAssumption, NoChunkAssumption
<1>1. file = <<>> /\ Len(file) = 0 /\ file \in Seq(Cells) /\ Headers(file) = {}
    BY DEF Init, Headers
<1>2. TypeOK
  <2>1. rd \in [chunk : Writers \cup {NoChunk}, uid : 0..MaxId, magic : Magics \cup {NoChunk},
               unread : Nat, buf : Seq(Cells), off : Nat, last : BOOLEAN]
      BY DEF Init, NoReader
  <2>2. call \in [op : {"none", "write", "flush", "close"}, w : Writers \cup {NoChunk},
                 left : Nat, phase : {"loop", "header", "payload"}, size : Nat, rest : Nat]
      BY DEF Init, NoCall
  <2>3. damaged \in BOOLEAN /\ told \in BOOLEAN /\ misread \in BOOLEAN
      BY Zenon DEF Init
  <2>4. wr \in [Writers -> [state : {"new", "open", "closed", "deleted"}, uid : 0..MaxId,
                           magic : Magics \cup {NoChunk}, buf : 0..BufSize]]
      BY DEF Init
  <2>5. refs \in [{"out", "in"} -> Nat] /\ given \in [Writers -> Nat] /\ chunkId \in 0..MaxId
      BY DEF Init
  <2>6. rcall \in [op : {"none", "read", "skip"}, left : Nat] /\ out \in Seq(Cells)
      BY DEF Init, NoRead
  <2>7. outFile = "new" /\ pos = 0 /\ failures = 0
      BY DEF Init
  <2> QED BY <1>1, <2>1, <2>2, <2>3, <2>4, <2>5, <2>6, <2>7, Zenon DEF TypeOK
<1>3. CallInv /\ WriterInv
    BY DEF CallInv, WriterInv, InPayload, Init, NoCall
<1>4. RefInv
  <2>1. Opened = {}
      BY DEF Opened, Init
  <2>2. IsFiniteSet(Opened) /\ Cardinality(Opened) = 0
      BY <2>1, FS_EmptySet
  <2>3. refs["out"] = 0 /\ refs["in"] = 1 /\ outFile # "open" /\ rd = NoReader
      BY DEF Init
  <2>4. RefsExact <=> /\ refs["out"] = Cardinality(Opened) + IF outFile = "open" THEN 1 ELSE 0
                      /\ refs["in"] = IF rd # NoReader THEN 2 ELSE 1
      BY Zenon DEF RefsExact, Opened
  <2> QED BY <2>2, <2>3, <2>4 DEF RefInv
<1>5. FileInv
    BY <1>1 DEF FileInv, FileOK, Pieces, Layout, Payload, InOrder, Gapless, LastIsLast, Frontier,
                Current, Signed, Accounts, Announced, Of, InPayload, Pending, Init, NoCall
<1>6. AtBoundary
    BY DEF AtBoundary, Init
<1> QED BY <1>2, <1>3, <1>4, <1>5, <1>6 DEF IInv

-----------------------------------------------------------------------------
(* The steps of the reader                                                 *)

ReaderNext ==
    \/ \E magic \in Magics, uid \in 0..MaxId : FindChunk(magic, uid) \/ ReadChunkOfType(uid, magic)
    \/ \E uid \in 0..MaxId : ReadChunk(uid)
    \/ \E op \in {"read", "skip"}, n \in ReadSizes : ReadBegin(op, n)
    \/ ReadStep \/ ReaderClose

WriterNext ==
    \/ Create \/ FileClose
    \/ \E w \in Writers :
          \/ \E magic \in Magics : WriteChunk(w, magic)
          \/ \E n \in 1..MaxData[w] : WriteBegin(w, n)
          \/ FlushBegin(w) \/ CloseBegin(w) \/ Delete(w)
    \/ WriteStep \/ PutHeaderFails \/ PutBytesFails \/ WriterDies

LEMMA TwoSides == Next => ReaderNext \/ WriterNext
BY Zenon DEF Next, ReaderNext, WriterNext

LEMMA ReaderLeaves == ReaderNext => UNCHANGED <<file, outFile, wside, fault>>
BY DEF ReaderNext, FindChunk, ReadChunkOfType, ReadChunk, OpenReader, ReadBegin, ReadStep, ReadOn,
       TakeBuffered, TakeDirect, FillBuffer, SkipUnread, NextHeader, ReadEnd, ReadShort, ReadEof,
       PreadFails, ReadReturn, Take, ReaderClose

LEMMA ReaderMisread == misread \in BOOLEAN /\ ReaderNext => misread' \in BOOLEAN
BY Zenon DEF ReaderNext, FindChunk, ReadChunkOfType, ReadChunk, OpenReader, ReadBegin, ReadStep, ReadOn,
       TakeBuffered, TakeDirect, FillBuffer, SkipUnread, NextHeader, ReadEnd, ReadShort, ReadEof,
       PreadFails, ReadReturn, Take, ReaderClose

LEMMA WriterLeaves == WriterNext => UNCHANGED rside
BY DEF WriterNext, Create, FileClose, WriteChunk, WriteBegin, FlushBegin, CloseBegin, Delete,
       WriteStep, WriteCopy, WriteDirect, WriteEnd, PutHeader, PutBytes, PieceDone,
       PutHeaderFails, PutBytesFails, WriterDies

LEMMA ContentsCells ==
    ASSUME file \in Seq(Cells), NEW off \in Nat, NEW n \in Nat, Readable(off, n)
    PROVE  /\ Contents(off, n) \in Seq(Cells) /\ Len(Contents(off, n)) = n
           /\ \A k \in 1..n : Contents(off, n)[k] = file[off + k]
<1>1. Len(file) \in Nat /\ off + n <= Len(file)
    BY LenProperties DEF Readable
<1>2. \A i \in (off + 1)..(off + n) : file[i] \in Cells
    BY <1>1, ElementOfSeq
<1>3. /\ Contents(off, n) \in Seq(Cells)
      /\ Len(Contents(off, n)) = IF off + 1 <= off + n THEN (off + n) - (off + 1) + 1 ELSE 0
      /\ \A i \in 1..((off + n) - (off + 1) + 1) : Contents(off, n)[i] = file[(off + 1) + i - 1]
    BY <1>2, SubSeqProperties DEF Contents
<1> QED BY <1>3

\* A file that is not damaged has a header where a piece ends, or ends there.
LEMMA HeaderAt ==
    ASSUME file \in Seq(Cells), Pieces(file), NEW i \in Headers(file), PieceEnd(file, i) < Len(file)
    PROVE  PieceEnd(file, i) + 1 \in Headers(file)
<1>1. /\ Len(file) \in Nat /\ i \in Nat /\ PieceEnd(file, i) \in Nat /\ i <= PieceEnd(file, i)
    BY HeaderTypes, LenProperties
<1>2. PICK j \in Headers(file) : j <= PieceEnd(file, i) + 1 /\ PieceEnd(file, i) + 1 <= PieceEnd(file, j)
    BY <1>1 DEF Pieces, Layout
<1>3. j \in Nat /\ PieceEnd(file, j) \in Nat
    BY HeaderTypes
<1>4. ~(j < i) /\ j # i
    BY <1>1, <1>2, <1>3 DEF Pieces, Layout
<1>5. PieceEnd(file, i) < j
    BY <1>1, <1>3, <1>4 DEF Pieces, Layout
<1> QED BY <1>1, <1>2, <1>3, <1>5

ReaderRecords ==
    [chunk : Writers \cup {NoChunk}, uid : 0..MaxId, magic : Magics \cup {NoChunk},
     unread : Nat, buf : Seq(Cells), off : Nat, last : BOOLEAN]

\* What the reader's steps have to show.
ReaderOK ==
    /\ rd \in ReaderRecords
    /\ rcall \in [op : {"none", "read", "skip"}, left : Nat]
    /\ pos \in Nat /\ out \in Seq(Cells)
    /\ AtBoundary

\* The header found is that of the first piece that fits.
LEMMA Found ==
    ASSUME file \in Seq(Cells), Pieces(file), NEW U, NEW M, Matching(U, M) # {}
    PROVE  /\ Min(Matching(U, M)) \in 0..(Len(file) - 1)
           /\ Min(Matching(U, M)) + 1 \in Headers(file)
           /\ file[Min(Matching(U, M)) + 1].uid \in U /\ file[Min(Matching(U, M)) + 1].magic \in M
           /\ \A i \in Headers(file) :
                 file[i].uid \in U /\ file[i].magic \in M => Min(Matching(U, M)) + 1 <= i
<1> DEFINE found == Matching(U, M)
<1>1. Len(file) \in Nat /\ Walk = {p \in 0..(Len(file) - 1) : file[p + 1].kind = "header"}
    BY WalkMeetsHeaders, LenProperties
<1>2. found = {p \in Walk : file[p + 1].uid \in U /\ file[p + 1].magic \in M}
    BY DEF Matching
<1>3. found \in SUBSET Nat
    BY <1>1, <1>2
<1> HIDE DEF found
<1>4. Min(found) \in found /\ \A m \in found : Min(found) <= m
    BY <1>3, MinOfSet DEF found
<1>5. Min(found) \in 0..(Len(file) - 1) /\ Min(found) + 1 \in Headers(file)
    BY <1>1, <1>2, <1>4 DEF Headers
<1>6. ASSUME NEW i \in Headers(file), file[i].uid \in U, file[i].magic \in M
      PROVE  Min(found) + 1 <= i
  <2>1. i \in 1..Len(file) /\ file[i].kind = "header"
      BY DEF Headers
  <2>2. i - 1 \in 0..(Len(file) - 1) /\ (i - 1) + 1 = i
      BY <1>1, <2>1
  <2>3. i - 1 \in found
      BY <1>1, <1>2, <1>6, <2>1, <2>2
  <2> QED BY <1>4, <1>5, <2>1, <2>3
<1>7. file[Min(found) + 1].uid \in U /\ file[Min(found) + 1].magic \in M
    BY <1>2, <1>4
<1> QED BY <1>5, <1>6, <1>7 DEF found

LEMMA OpenReaderOK ==
    ASSUME IInv, NEW U \in SUBSET (0..MaxId), NEW M \in SUBSET Magics, OpenReader(U, M)
    PROVE  ReaderOK' /\ rd' # NoReader
<1> DEFINE p == Min(Matching(U, M))
<1>1. file \in Seq(Cells) /\ Pieces(file) /\ ~damaged /\ Matching(U, M) # {}
    BY DEF IInv, TypeOK, FileInv, FileOK, OpenReader
<1>2. p \in 0..(Len(file) - 1) /\ p + 1 \in Headers(file)
    BY <1>1, Found
<1>3. /\ rd' = [chunk |-> file[p + 1].of, uid |-> file[p + 1].uid, magic |-> file[p + 1].magic,
                unread |-> file[p + 1].size, buf |-> <<>>, off |-> p + 1, last |-> FALSE]
      /\ pos' = 0 /\ out' = <<>> /\ rcall' = rcall /\ file' = file /\ damaged' = damaged
    BY Zenon DEF OpenReader, fault
<1> HIDE DEF p
<1>4. /\ file[p + 1].of \in Writers /\ file[p + 1].uid \in 0..MaxId /\ file[p + 1].magic \in Magics
      /\ file[p + 1].size \in Nat /\ p + 1 \in Nat
    BY <1>1, <1>2, HeaderTypes
<1>5. rd' \in ReaderRecords
    BY <1>3, <1>4 DEF ReaderRecords
<1>6. rd' # NoReader
    BY <1>3, <1>4, NoChunkAssumption DEF NoReader
<1>7. rd'.chunk \in Writers /\ PieceEnd(file, p + 1) = Boundary'
    BY <1>3, <1>4 DEF Boundary, PieceEnd
<1>8. AtBoundary'
    BY <1>2, <1>3, <1>6, <1>7 DEF AtBoundary
<1>9. rcall' \in [op : {"none", "read", "skip"}, left : Nat] /\ pos' \in Nat /\ out' \in Seq(Cells)
    BY <1>3 DEF IInv, TypeOK
<1> QED BY <1>5, <1>6, <1>8, <1>9 DEF ReaderOK

\* What a step of read() or skip() starts from.
LEMMA ReadingFacts ==
    ASSUME IInv, rcall.op # "none"
    PROVE  /\ rd # NoReader /\ rd.chunk \in Writers
           /\ ~damaged => \E i \in Headers(file) : PieceEnd(file, i) = Boundary
           /\ rd.unread \in Nat /\ rd.off \in Nat /\ rd.buf \in Seq(Cells) /\ Len(rd.buf) \in Nat
           /\ rd.last \in BOOLEAN /\ rcall.left \in Nat /\ pos \in Nat
           /\ rd \in ReaderRecords /\ rcall \in [op : {"none", "read", "skip"}, left : Nat]
<1>1. rd # NoReader
    BY DEF IInv, AtBoundary, NoRead
<1>2. rd \in ReaderRecords /\ rcall \in [op : {"none", "read", "skip"}, left : Nat] /\ pos \in Nat
    BY DEF IInv, TypeOK, ReaderRecords
<1>3. rd.buf \in Seq(Cells) /\ Len(rd.buf) \in Nat
    BY <1>2, LenProperties DEF ReaderRecords
<1> QED BY <1>1, <1>2, <1>3 DEF IInv, AtBoundary, ReaderRecords

LEMMA CallShorter ==
    ASSUME NEW c \in [op : {"none", "read", "skip"}, left : Nat], NEW n \in Nat, n <= c.left
    PROVE  [c EXCEPT !.left = @ - n] \in [op : {"none", "read", "skip"}, left : Nat]
<1>1. c.left \in Nat /\ c.left - n \in Nat
    OBVIOUS
<1> QED BY <1>1

LEMMA ReadStepOK ==
    ASSUME IInv, ReadStep
    PROVE  ReaderOK' /\ rd # NoReader /\ rd' # NoReader /\ UNCHANGED <<refs, outFile, wr>>
<1>1. rcall.op # "none"
    BY DEF ReadStep, ReadOn, TakeBuffered, TakeDirect, FillBuffer, SkipUnread, NextHeader, ReadEnd,
           ReadShort, ReadEof, PreadFails, Reading
<1>2. /\ rd # NoReader /\ rd.chunk \in Writers
      /\ ~damaged => \E i \in Headers(file) : PieceEnd(file, i) = Boundary
      /\ rd.unread \in Nat /\ rd.off \in Nat /\ rd.buf \in Seq(Cells) /\ Len(rd.buf) \in Nat
      /\ rd.last \in BOOLEAN /\ rcall.left \in Nat /\ pos \in Nat
      /\ rd \in ReaderRecords /\ rcall \in [op : {"none", "read", "skip"}, left : Nat]
    BY <1>1, ReadingFacts
<1>3. file \in Seq(Cells) /\ Len(file) \in Nat /\ (~damaged => Pieces(file))
    BY LenProperties DEF IInv, TypeOK, FileInv, FileOK
<1>4. UNCHANGED <<file, outFile, wr, damaged>>
    BY ReaderLeaves DEF ReaderNext, wside, fault
<1>5. BufSize \in Nat
    BY SizeAssumption
<1>6. CASE TakeBuffered
  <2> DEFINE n == Min({rcall.left, Len(rd.buf)})
  <2>1. n \in Nat /\ n <= Len(rd.buf) /\ n <= rcall.left
      BY <1>2, MinOfTwo
  <2>2. /\ rd' = [rd EXCEPT !.buf = SubSeq(@, n + 1, Len(@))]
        /\ pos' = pos + n /\ rcall' = [rcall EXCEPT !.left = @ - n] /\ refs' = refs
        /\ out' = IF rcall.op = "read" THEN SubSeq(rd.buf, 1, n) ELSE <<>>
      BY <1>6, Zenon DEF TakeBuffered, Take
  <2> HIDE DEF n
  <2>3. SubSeq(rd.buf, n + 1, Len(rd.buf)) \in Seq(Cells) /\ SubSeq(rd.buf, 1, n) \in Seq(Cells)
    <3>1. \A i \in 1..Len(rd.buf) : rd.buf[i] \in Cells
        BY <1>2, ElementOfSeq
    <3>2. (n + 1)..Len(rd.buf) \subseteq 1..Len(rd.buf) /\ 1..n \subseteq 1..Len(rd.buf)
        BY <1>2, <2>1
    <3> QED BY <1>2, <2>1, <3>1, <3>2, SubSeqProperties
  <2>4. rd' \in ReaderRecords /\ rd'.chunk = rd.chunk /\ Boundary' = Boundary
      BY <1>2, <2>2, <2>3 DEF ReaderRecords, Boundary
  <2>5. rcall' \in [op : {"none", "read", "skip"}, left : Nat]
      BY <1>2, <2>1, <2>2, CallShorter
  <2>6. pos' \in Nat /\ out' \in Seq(Cells)
      BY <1>2, <2>1, <2>2, <2>3
  <2> QED BY <1>2, <1>4, <2>2, <2>4, <2>5, <2>6, NoChunkAssumption DEF ReaderOK, AtBoundary, NoReader
<1>7. CASE TakeDirect
  <2>1. /\ rd.unread \in 1..rcall.left /\ Readable(rd.off, rd.unread)
        /\ rd' = [rd EXCEPT !.off = @ + rd.unread, !.unread = 0]
        /\ pos' = pos + rd.unread /\ rcall' = [rcall EXCEPT !.left = @ - rd.unread] /\ refs' = refs
        /\ out' = Contents(rd.off, rd.unread)
      BY <1>7, Zenon DEF TakeDirect, Take
  <2>a. rd.off + rd.unread \in Nat
      BY <1>2
  <2>b. rd' \in ReaderRecords /\ rd'.chunk = rd.chunk /\ rd'.off = rd.off + rd.unread /\ rd'.unread = 0
      BY <1>2, <2>1, <2>a DEF ReaderRecords
  <2>2. rd' \in ReaderRecords /\ rd'.chunk = rd.chunk /\ Boundary' = Boundary
      BY <1>2, <2>a, <2>b DEF Boundary
  <2>3. rcall' \in [op : {"none", "read", "skip"}, left : Nat]
      BY <1>2, <2>1, CallShorter
  <2>4. pos' \in Nat /\ out' \in Seq(Cells)
      BY <1>2, <1>3, <2>1, ContentsCells
  <2> QED BY <1>2, <1>4, <2>1, <2>2, <2>3, <2>4, NoChunkAssumption DEF ReaderOK, AtBoundary, NoReader
<1>8. CASE FillBuffer
  <2> DEFINE n == Min({rd.unread, BufSize})
  <2>1. n \in Nat /\ n <= rd.unread
      BY <1>2, <1>5, MinOfTwo
  <2>2. /\ Readable(rd.off, n)
        /\ rd' = [rd EXCEPT !.buf = Contents(rd.off, n), !.off = @ + n, !.unread = @ - n]
        /\ out' = <<>> /\ rcall' = rcall /\ pos' = pos /\ refs' = refs
      BY <1>8, Zenon DEF FillBuffer
  <2> HIDE DEF n
  <2>3. Contents(rd.off, n) \in Seq(Cells)
      BY <1>2, <1>3, <2>1, <2>2, ContentsCells
  <2>a. rd.off + n \in Nat /\ rd.unread - n \in Nat /\ (rd.off + n) + (rd.unread - n) = rd.off + rd.unread
      BY <1>2, <2>1
  <2>b. rd' \in ReaderRecords /\ rd'.chunk = rd.chunk /\ rd'.off = rd.off + n /\ rd'.unread = rd.unread - n
      BY <1>2, <2>2, <2>3, <2>a DEF ReaderRecords
  <2>4. rd' \in ReaderRecords /\ rd'.chunk = rd.chunk /\ Boundary' = Boundary
      BY <2>a, <2>b DEF Boundary
  <2>5. rd' # NoReader
      BY <1>2, <2>4, NoChunkAssumption DEF NoReader
  <2>6. AtBoundary'
      BY <1>2, <1>4, <2>4, <2>5 DEF AtBoundary
  <2> QED BY <1>2, <1>4, <2>2, <2>4, <2>5, <2>6 DEF ReaderOK
<1>9. CASE SkipUnread
  <2> DEFINE n == Min({rd.unread, rcall.left})
  <2>1. n \in Nat /\ n <= rd.unread /\ n <= rcall.left
      BY <1>2, MinOfTwo
  <2>2. /\ rd' = [rd EXCEPT !.off = @ + n, !.unread = @ - n]
        /\ pos' = pos + n /\ rcall' = [rcall EXCEPT !.left = @ - n] /\ refs' = refs /\ out' = <<>>
      BY <1>9, Zenon DEF SkipUnread, Take
  <2> HIDE DEF n
  <2>a. rd.off + n \in Nat /\ rd.unread - n \in Nat /\ (rd.off + n) + (rd.unread - n) = rd.off + rd.unread
      BY <1>2, <2>1
  <2>b. rd' \in ReaderRecords /\ rd'.chunk = rd.chunk /\ rd'.off = rd.off + n /\ rd'.unread = rd.unread - n
      BY <1>2, <2>2, <2>a DEF ReaderRecords
  <2>3. rd' \in ReaderRecords /\ rd'.chunk = rd.chunk /\ Boundary' = Boundary
      BY <2>a, <2>b DEF Boundary
  <2>4. rcall' \in [op : {"none", "read", "skip"}, left : Nat]
      BY <1>2, <2>1, <2>2, CallShorter
  <2>5. pos' \in Nat /\ out' \in Seq(Cells)
      BY <1>2, <2>1, <2>2
  <2> QED BY <1>2, <1>4, <2>2, <2>3, <2>4, <2>5, NoChunkAssumption DEF ReaderOK, AtBoundary, NoReader
<1>10. CASE NextHeader
  <2> DEFINE h == file[rd.off + 1]
  <2>1. /\ rd.unread = 0 /\ Readable(rd.off, 1) /\ ~damaged
        /\ rd' = IF Fits(h) THEN [rd EXCEPT !.off = @ + 1, !.unread = h.size, !.last = h.last]
                 ELSE Pass(h)
        /\ out' = <<>> /\ rcall' = rcall /\ pos' = pos /\ refs' = refs
      BY <1>10, Zenon DEF NextHeader, Reading
  <2>2. rd.off + 1 \in Headers(file)
    <3>1. PICK i \in Headers(file) : PieceEnd(file, i) = Boundary
        BY <1>2, <2>1
    <3>2. Boundary = rd.off /\ rd.off < Len(file)
        BY <1>2, <1>3, <2>1 DEF Boundary, Readable
    <3> QED BY <1>3, <2>1, <3>1, <3>2, HeaderAt
  <2>3. h.size \in Nat /\ h.last \in BOOLEAN /\ PieceEnd(file, rd.off + 1) = rd.off + 1 + h.size
      BY <1>3, <2>2, HeaderTypes DEF PieceEnd
  <2> HIDE DEF h
  <2>a. rd.off + 1 \in Nat /\ rd.off + 1 + h.size \in Nat
      BY <1>2, <2>3
  <2>b. ASSUME Fits(h)
        PROVE  rd' \in ReaderRecords /\ rd'.chunk = rd.chunk /\ Boundary' = rd.off + 1 + h.size
    <3>1. /\ rd' \in ReaderRecords /\ rd'.chunk = rd.chunk
          /\ rd'.off = rd.off + 1 /\ rd'.unread = h.size
        BY <1>2, <2>1, <2>3, <2>a, <2>b DEF ReaderRecords
    <3> QED BY <3>1 DEF Boundary
  <2>c. ASSUME ~Fits(h)
        PROVE  rd' \in ReaderRecords /\ rd'.chunk = rd.chunk /\ Boundary' = rd.off + 1 + h.size
    <3>1. /\ rd' \in ReaderRecords /\ rd'.chunk = rd.chunk
          /\ rd'.off = rd.off + 1 + h.size /\ rd'.unread = 0
        BY <1>2, <2>1, <2>3, <2>a, <2>c DEF ReaderRecords, Pass
    <3> QED BY <2>a, <3>1 DEF Boundary
  <2>4. rd' \in ReaderRecords /\ rd'.chunk = rd.chunk /\ Boundary' = rd.off + 1 + h.size
      BY <2>b, <2>c
  <2>5. rd' # NoReader
      BY <1>2, <2>4, NoChunkAssumption DEF NoReader
  <2>6. AtBoundary'
    <3>1. PieceEnd(file, rd.off + 1) = Boundary'
        BY <2>3, <2>4
    <3> QED BY <1>2, <1>4, <2>2, <2>4, <2>5, <3>1 DEF AtBoundary
  <2> QED BY <1>2, <1>4, <2>1, <2>4, <2>5, <2>6 DEF ReaderOK
<1>11. CASE ReadEnd \/ ReadShort \/ ReadEof \/ PreadFails
  <2>1. rcall' = NoRead /\ out' = <<>> /\ rd' = rd /\ pos' = pos /\ refs' = refs
      BY <1>11, Zenon DEF ReadEnd, ReadShort, ReadEof, PreadFails, ReadReturn
  <2> QED BY <1>2, <1>4, <2>1 DEF ReaderOK, AtBoundary, NoRead, Boundary
<1> QED BY <1>4, <1>6, <1>7, <1>8, <1>9, <1>10, <1>11, <1>2, Zenon DEF ReadStep, ReadOn

Count(open) == Cardinality(Opened) + IF open THEN 1 ELSE 0

LEMMA RefsForm ==
    RefsExact <=> /\ refs["out"] = Count(outFile = "open")
                  /\ refs["in"] = IF rd # NoReader THEN 2 ELSE 1
BY Zenon DEF RefsExact, Count, Opened

LEMMA ReaderIInv ==
    ASSUME IInv, ReaderNext
    PROVE  IInv'
<1>1. UNCHANGED <<file, outFile, chunkId, wr, call, given, failures, damaged, told>>
    BY ReaderLeaves DEF wside, fault
<1>2. CallInv' /\ WriterInv' /\ FileInv'
  <2>1. CallInv' /\ WriterInv'
      BY <1>1 DEF IInv, CallInv, WriterInv, InPayload
  <2>2. UNCHANGED <<Growing, Ahead, InPayload>> /\ \A w : Pending(w)' = Pending(w)
      BY <1>1 DEF Growing, Ahead, InPayload, Opened, Pending
  <2>3. FileInv'
      BY <1>1, <2>2 DEF IInv, FileInv, FileOK, Frontier, Current, Signed, Accounts
  <2> QED BY <2>1, <2>3
\* What each step does to the reader and to the count of its resource.
<1>3. /\ ReaderOK'
      /\ refs' \in [{"out", "in"} -> Nat] /\ refs'["out"] = refs["out"]
      /\ refs'["in"] = IF rd' # NoReader THEN 2 ELSE 1
  <2>0. /\ refs \in [{"out", "in"} -> Nat] /\ refs["in"] = IF rd # NoReader THEN 2 ELSE 1
        /\ rd \in ReaderRecords /\ rcall \in [op : {"none", "read", "skip"}, left : Nat]
      BY RefsForm DEF IInv, TypeOK, RefInv, ReaderRecords
  <2>1. ASSUME NEW U \in SUBSET (0..MaxId), NEW M \in SUBSET Magics, OpenReader(U, M)
        PROVE  <1>3
    <3>1. rd = NoReader /\ refs' = [refs EXCEPT !["in"] = @ + 1]
        BY <2>1, Zenon DEF OpenReader, Acquire
    <3> QED BY <2>0, <2>1, <3>1, OpenReaderOK
  <2>2. CASE \E magic \in Magics, uid \in 0..MaxId : FindChunk(magic, uid) \/ ReadChunkOfType(uid, magic)
    <3>1. PICK magic \in Magics, uid \in 0..MaxId : FindChunk(magic, uid) \/ ReadChunkOfType(uid, magic)
        BY <2>2
    <3>2. {u \in 0..MaxId : u >= uid} \in SUBSET (0..MaxId) /\ {uid} \in SUBSET (0..MaxId) /\ {magic} \in SUBSET Magics
        OBVIOUS
    <3> QED BY <2>1, <3>1, <3>2, Zenon DEF FindChunk, ReadChunkOfType
  <2>3. CASE \E uid \in 0..MaxId : ReadChunk(uid)
    <3>1. PICK uid \in 0..MaxId : OpenReader({uid}, Magics)
        BY <2>3, Zenon DEF ReadChunk
    <3>2. {uid} \in SUBSET (0..MaxId) /\ Magics \in SUBSET Magics
        OBVIOUS
    <3> QED BY <2>1, <3>1, <3>2, Zenon
  <2>4. CASE \E op \in {"read", "skip"}, n \in ReadSizes : ReadBegin(op, n)
    <3>1. PICK op \in {"read", "skip"}, n \in ReadSizes : ReadBegin(op, n)
        BY <2>4
    <3>2. n \in Nat
        BY BoundAssumption
    <3>3. rd # NoReader /\ rcall' = [op |-> op, left |-> n] /\ UNCHANGED <<rd, refs, pos, out>>
        BY <3>1, Zenon DEF ReadBegin
    <3>4. AtBoundary'
        BY <1>1, <3>3 DEF IInv, AtBoundary, Boundary
    <3> QED BY <2>0, <3>2, <3>3, <3>4 DEF IInv, TypeOK, ReaderOK
  <2>5. CASE ReadStep
      BY <2>0, <2>5, ReadStepOK
  <2>6. CASE ReaderClose
    <3>1. /\ rd # NoReader /\ rcall = NoRead /\ rd' = NoReader /\ pos' = 0 /\ out' = <<>> /\ rcall' = rcall
          /\ refs' = [refs EXCEPT !["in"] = @ - 1]
        BY <2>6, Zenon DEF ReaderClose, Release
    <3>2. NoReader \in ReaderRecords
        BY SizeAssumption DEF NoReader, ReaderRecords
    <3>3. AtBoundary'
        BY <3>1 DEF AtBoundary
    <3> QED BY <2>0, <3>1, <3>2, <3>3 DEF ReaderOK
  <2> QED BY <2>2, <2>3, <2>4, <2>5, <2>6 DEF ReaderNext
<1>4. TypeOK'
    BY <1>1, <1>3, ReaderMisread, Zenon DEF IInv, TypeOK, ReaderOK, ReaderRecords
<1>5. RefInv'
  <2>1. Opened' = Opened /\ Count(outFile = "open")' = Count(outFile = "open")
      BY <1>1 DEF Opened, Count
  <2>2. (refs["out"])' = Count(outFile = "open")'
      BY <1>3, <2>1, RefsForm DEF IInv, RefInv
  <2>3. RefsExact'
    <3>1. RefsExact' <=> /\ (refs["out"])' = Count(outFile = "open")'
                         /\ (refs["in"])' = IF rd' # NoReader THEN 2 ELSE 1
        BY Zenon DEF RefsExact, Count, Opened, NoReader
    <3> QED BY <1>3, <2>2, <3>1
  <2> QED BY <2>1, <2>3 DEF IInv, RefInv
<1> QED BY <1>2, <1>3, <1>4, <1>5 DEF IInv, ReaderOK

-----------------------------------------------------------------------------
(* The steps of the writers: types and calls                               *)

WriterRecords ==
    [state : {"new", "open", "closed", "deleted"}, uid : 0..MaxId,
     magic : Magics \cup {NoChunk}, buf : 0..BufSize]
CallRecords ==
    [op : {"none", "write", "flush", "close"}, w : Writers \cup {NoChunk},
     left : Nat, phase : {"loop", "header", "payload"}, size : Nat, rest : Nat]

\* What the writers' steps have to show of their own variables.
SideOK ==
    /\ file \in Seq(Cells) /\ outFile \in {"new", "open", "closed"}
    /\ chunkId \in 0..MaxId /\ wr \in [Writers -> WriterRecords]
    /\ call \in CallRecords /\ given \in [Writers -> Nat]
    /\ failures \in Nat /\ damaged \in BOOLEAN /\ told \in BOOLEAN
    /\ CallInv /\ WriterInv

LEMMA SideFacts ==
    ASSUME IInv
    PROVE  /\ SideOK /\ BufSize \in Nat \ {0} /\ MaxId \in Nat
           /\ \A w \in Writers : /\ wr[w] \in WriterRecords /\ given[w] \in Nat
                                 /\ wr[w].buf \in Nat /\ wr[w].buf <= BufSize
                                 /\ wr[w].buf <= given[w]
           /\ call.left \in Nat /\ call.size \in Nat /\ call.rest \in Nat
           /\ call.op # "none" => call.w \in Writers /\ wr[call.w].state = "open"
           /\ call.phase # "loop" => call.op # "none"
<1>1. SideOK
    BY DEF IInv, SideOK, TypeOK, WriterRecords, CallRecords
<1>2. BufSize \in Nat \ {0} /\ MaxId \in Nat
    BY SizeAssumption
<1>3. ASSUME NEW w \in Writers
      PROVE  /\ wr[w] \in WriterRecords /\ given[w] \in Nat
             /\ wr[w].buf \in Nat /\ wr[w].buf <= BufSize /\ wr[w].buf <= given[w]
  <2>1. wr[w] \in WriterRecords /\ given[w] \in Nat /\ wr[w].buf <= given[w]
      BY <1>1 DEF SideOK, WriterInv
  <2> QED BY <1>2, <2>1 DEF WriterRecords
<1>4. call.left \in Nat /\ call.size \in Nat /\ call.rest \in Nat
    BY <1>1 DEF SideOK, CallRecords
<1>5. call.op # "none" => call.w \in Writers /\ wr[call.w].state = "open"
    BY <1>1 DEF SideOK, CallInv
<1>6. call.phase # "loop" => call.op # "none"
    BY <1>1 DEF SideOK, CallInv, NoCall
<1> QED BY <1>1, <1>2, <1>3, <1>4, <1>5, <1>6

\* The header that is about to be written tells what the writer holds back.
LEMMA HeaderFacts ==
    ASSUME IInv, call.phase = "header"
    PROVE  LET h == Header(call.w, call.size, call.op = "close") IN
           /\ h \in HeaderCells /\ h.of = call.w /\ h.size = call.size
           /\ h.uid = wr[call.w].uid /\ h.magic = wr[call.w].magic /\ h.last = (call.op = "close")
           /\ h.at = given[call.w] - wr[call.w].buf
           /\ DirectSize \in Nat /\ h.at + h.size = given[call.w] + DirectSize
           /\ call.op = "write" /\ wr[call.w].buf = 0 => DirectSize <= call.left
<1> DEFINE w == call.w
           h == Header(call.w, call.size, call.op = "close")
<1>1. /\ SideOK /\ w \in Writers /\ wr[w].state = "open" /\ wr[w] \in WriterRecords
      /\ given[w] \in Nat /\ wr[w].buf \in Nat /\ wr[w].buf <= given[w]
      /\ call.size \in Nat /\ BufSize \in Nat \ {0}
    BY SideFacts
<1>2. IF call.op = "write"
        THEN /\ call.size = BufSize /\ wr[w].buf \in {0, BufSize}
             /\ wr[w].buf = 0 => call.left >= BufSize
        ELSE call.size = wr[w].buf
    BY <1>1 DEF SideOK, CallInv
<1>3. DirectSize \in Nat /\ given[w] + DirectSize - call.size = given[w] - wr[w].buf
    BY <1>1, <1>2 DEF DirectSize
<1>4. /\ h.kind = "header" /\ h.of = w /\ h.size = call.size /\ h.uid = wr[w].uid
      /\ h.magic = wr[w].magic /\ h.last = (call.op = "close")
      /\ h.at = given[w] + DirectSize - call.size
    BY DEF Header
<1>5. wr[w].magic \in Magics /\ wr[w].uid \in 0..MaxId
    BY <1>1 DEF SideOK, WriterInv, WriterRecords
<1>6. given[w] - wr[w].buf \in Nat
    BY <1>1
<1>7. h \in HeaderCells
    BY <1>1, <1>3, <1>5, <1>6 DEF Header, HeaderCells
<1>8. h.at + h.size = given[w] + DirectSize
    BY <1>1, <1>3, <1>4
<1>9. call.op = "write" /\ wr[w].buf = 0 => DirectSize <= call.left
    BY <1>1, <1>2 DEF DirectSize
<1>10. h.at = given[w] - wr[w].buf
    BY <1>3, <1>4
<1> QED BY <1>3, <1>4, <1>7, <1>8, <1>9, <1>10, Zenon

\* The end of a call.
LEMMA EndFacts ==
    ASSUME IInv, call.op # "none", NEW failed, End(failed)
    PROVE  /\ call' = NoCall
           /\ wr' \in [Writers -> WriterRecords]
           /\ \A v \in Writers : v # call.w => wr'[v] = wr[v]
           /\ wr'[call.w].uid = wr[call.w].uid /\ wr'[call.w].magic = wr[call.w].magic
           /\ wr'[call.w].state = IF call.op = "close" THEN "closed" ELSE "open"
           /\ wr'[call.w].buf = IF call.op = "close" \/ (call.op = "flush" /\ ~failed)
                                  THEN 0 ELSE wr[call.w].buf
           /\ refs' = IF call.op = "close" THEN [refs EXCEPT !["out"] = @ - 1] ELSE refs
           /\ told' = (told \/ failed)
<1>1. /\ SideOK /\ call.w \in Writers /\ wr[call.w].state = "open" /\ wr[call.w] \in WriterRecords
      /\ BufSize \in Nat \ {0}
    BY SideFacts
<1>2. wr' = [wr EXCEPT
                ![call.w].state = IF call.op = "close" THEN "closed" ELSE @,
                ![call.w].buf   = IF call.op = "close" \/ (call.op = "flush" /\ ~failed)
                                    THEN 0 ELSE @]
    BY Zenon DEF End
<1> DEFINE buf == IF call.op = "close" \/ (call.op = "flush" /\ ~failed) THEN 0 ELSE wr[call.w].buf
           r   == [wr[call.w] EXCEPT !.state = IF call.op = "close" THEN "closed" ELSE @, !.buf = buf]
<1>3. wr' = [wr EXCEPT ![call.w] = r]
    BY <1>1, <1>2 DEF SideOK, WriterRecords
<1>4. r \in WriterRecords /\ r.uid = wr[call.w].uid /\ r.magic = wr[call.w].magic /\ r.buf = buf
      /\ r.state = IF call.op = "close" THEN "closed" ELSE "open"
  <2>1. buf \in 0..BufSize
      BY <1>1 DEF WriterRecords
  <2> HIDE DEF buf
  <2>2. CASE call.op = "close"
      BY <1>1, <2>1, <2>2 DEF WriterRecords
  <2>3. CASE call.op # "close"
      BY <1>1, <2>1, <2>3 DEF WriterRecords
  <2> QED BY <2>2, <2>3
<1>5. wr' \in [Writers -> WriterRecords] /\ wr'[call.w] = r /\ \A v \in Writers : v # call.w => wr'[v] = wr[v]
  <2> HIDE DEF r
  <2> QED BY <1>1, <1>3, <1>4 DEF SideOK
<1>6. call' = NoCall /\ told' = (told \/ failed)
    BY Zenon DEF End
<1>7. refs' = IF call.op = "close" THEN [refs EXCEPT !["out"] = @ - 1] ELSE refs
    BY DEF End, Release
<1> QED BY <1>4, <1>5, <1>6, <1>7

LEMMA BeginOK ==
    ASSUME IInv, NEW w \in Writers, NEW op \in {"write", "flush", "close"}, NEW left \in Nat,
           NEW phase \in {"loop", "header"}, NEW size \in Nat,
           Begin(w, op, left, phase, size),
           phase = "loop" => op = "write",
           phase = "header" => op # "write" /\ size = wr[w].buf,
           UNCHANGED <<file, outFile, chunkId, wr, given, fault>>
    PROVE  SideOK'
<1>1. SideOK
    BY SideFacts
<1>2. /\ call' = [op |-> op, w |-> w, left |-> left, phase |-> phase, size |-> size, rest |-> size]
      /\ wr[w].state = "open"
    BY Zenon DEF Begin
<1>3. call' \in CallRecords
    BY <1>2 DEF CallRecords
<1>4. CallInv'
    BY <1>2 DEF CallInv, InPayload
<1>5. WriterInv'
    BY <1>1 DEF SideOK, WriterInv
<1> QED BY <1>1, <1>3, <1>4, <1>5, Zenon DEF SideOK, fault

LEMMA WriteCopyOK ==
    ASSUME IInv, WriteCopy
    PROVE  SideOK'
<1> DEFINE w == call.w
           buf == wr[w].buf
           n == Min({BufSize - buf, call.left})
<1>1. /\ SideOK /\ w \in Writers /\ wr[w].state = "open" /\ wr[w] \in WriterRecords
      /\ buf \in Nat /\ buf <= BufSize /\ buf <= given[w] /\ given[w] \in Nat
      /\ call.left \in Nat /\ BufSize \in Nat \ {0} /\ call.op = "write" /\ call \in CallRecords
    BY SideFacts DEF WriteCopy, SideOK
<1>2. n \in Nat /\ n <= BufSize - buf /\ n <= call.left
  <2>1. BufSize - buf \in Nat
      BY <1>1
  <2> QED BY <1>1, <2>1, MinOfTwo
<1>3. /\ wr' = [wr EXCEPT ![w].buf = @ + n]
      /\ given' = [given EXCEPT ![w] = @ + n]
      /\ call' = [call EXCEPT !.left = @ - n,
                              !.phase = IF buf + n = BufSize THEN "header" ELSE "loop",
                              !.size = BufSize, !.rest = BufSize]
      /\ UNCHANGED <<file, outFile, chunkId, failures, damaged, told>>
    BY Zenon DEF WriteCopy, fault
<1>4. call.left - n \in Nat /\ buf + n \in 0..BufSize /\ buf + n <= given[w] + n /\ given[w] + n \in Nat
    BY <1>1, <1>2
<1> HIDE DEF n
<1>5. /\ call' \in CallRecords /\ call'.op = "write" /\ call'.w = w /\ call'.size = BufSize
      /\ call'.rest = BufSize
      /\ call'.phase = IF buf + n = BufSize THEN "header" ELSE "loop"
    BY <1>1, <1>3, <1>4 DEF CallRecords
<1>6. /\ wr' \in [Writers -> WriterRecords] /\ wr'[w].buf = buf + n
      /\ wr'[w].state = "open" /\ wr'[w].magic = wr[w].magic
      /\ \A v \in Writers : v # w => wr'[v] = wr[v]
    BY <1>1, <1>3, <1>4 DEF SideOK, WriterRecords
<1>7. /\ given' \in [Writers -> Nat] /\ given'[w] = given[w] + n
      /\ \A v \in Writers : v # w => given'[v] = given[v]
    BY <1>1, <1>3, <1>4 DEF SideOK
<1>8. CallInv'
    BY <1>1, <1>5, <1>6 DEF CallInv, InPayload
<1>9. WriterInv'
    BY <1>1, <1>3, <1>4, <1>6, <1>7 DEF SideOK, WriterInv
<1> QED BY <1>1, <1>3, <1>5, <1>6, <1>7, <1>8, <1>9, Zenon DEF SideOK

LEMMA PutHeaderOK ==
    ASSUME IInv, PutHeader
    PROVE  /\ SideOK'
           /\ file' = Append(file, Header(call.w, call.size, call.op = "close"))
           /\ call'.op = call.op /\ call'.w = call.w /\ call'.phase = "payload"
           /\ call'.size = call.size /\ call'.rest = call.rest /\ call.rest = call.size
           /\ given'[call.w] = given[call.w] + DirectSize
           /\ \A v \in Writers : v # call.w => given'[v] = given[v]
<1> DEFINE w == call.w
           h == Header(w, call.size, call.op = "close")
<1>1. /\ SideOK /\ w \in Writers /\ wr[w].state = "open" /\ given[w] \in Nat
      /\ wr[w].buf \in Nat /\ wr[w].buf <= given[w]
      /\ call.op # "none" /\ call.phase = "header" /\ call \in CallRecords
      /\ BufSize \in Nat \ {0}
    BY SideFacts DEF PutHeader, SideOK
<1>2. /\ h \in HeaderCells /\ h.size = call.size /\ DirectSize \in Nat
      /\ h.at + h.size = given[w] + DirectSize
    BY <1>1, HeaderFacts
<1>3. /\ file' = Append(file, h)
      /\ call' = [call EXCEPT !.phase = "payload"]
      /\ given' = [given EXCEPT ![w] = @ + DirectSize]
      /\ UNCHANGED <<outFile, chunkId, wr, failures, damaged, told>>
    BY Zenon DEF PutHeader, fault
<1>4. h.at \in Nat /\ h.size \in Nat
    BY <1>2 DEF HeaderCells
<1> HIDE DEF h
<1>5. file' \in Seq(Cells)
    BY <1>1, <1>2, <1>3, HeaderAppended DEF SideOK
<1>6. /\ call' \in CallRecords /\ call'.op = call.op /\ call'.w = w /\ call'.phase = "payload"
      /\ call'.size = call.size /\ call'.rest = call.rest /\ call'.left = call.left
    BY <1>1, <1>3 DEF CallRecords
<1>7. /\ given' \in [Writers -> Nat] /\ given'[w] = given[w] + DirectSize
      /\ \A v \in Writers : v # w => given'[v] = given[v]
  <2>1. given[w] + DirectSize \in Nat
      BY <1>1, <1>2
  <2> QED BY <1>1, <1>3, <2>1 DEF SideOK
<1>8. CallInv' /\ call.rest = call.size
  <2>1. call.size <= given'[w] /\ call.rest = call.size /\ call.rest <= call.size
    <3>1. call.rest = call.size
        BY <1>1 DEF SideOK, CallInv
    <3> QED BY <1>2, <1>4, <1>7, <3>1
  <2> QED BY <1>1, <1>3, <1>6, <2>1 DEF SideOK, CallInv, InPayload
<1>9. WriterInv'
  <2>1. \A v \in Writers : given[v] <= given'[v] /\ wr[v].buf \in Nat /\ given[v] \in Nat /\ given'[v] \in Nat
      BY <1>1, <1>2, <1>7, SideFacts
  <2>2. \A v \in Writers : wr[v].buf <= given'[v]
      BY <1>1, <2>1 DEF SideOK, WriterInv
  <2>3. \A v \in Writers : wr[v].state = "new" => given'[v] = 0
      BY <1>1, <1>7 DEF SideOK, WriterInv
  <2> QED BY <1>1, <1>3, <2>2, <2>3 DEF SideOK, WriterInv
<1> QED BY <1>1, <1>3, <1>5, <1>6, <1>7, <1>8, <1>9, Zenon DEF SideOK, h

LEMMA PutBytesOK ==
    ASSUME IInv, NEW n \in 1..BufSize, PutBytes(n)
    PROVE  SideOK' /\ call.rest - n \in Nat /\ call' = [call EXCEPT !.rest = @ - n]
<1> DEFINE w == call.w
           b == [i \in 1..n |-> Byte(w, given[w] - call.rest + i)]
<1>1. /\ SideOK /\ call \in CallRecords /\ call.phase = "payload" /\ n <= call.rest
      /\ call.op # "none" /\ w \in Writers /\ given[w] \in Nat
      /\ call.rest \in Nat /\ call.size \in Nat /\ BufSize \in Nat
    BY SideFacts DEF PutBytes, SideOK
<1>2. /\ file' = file \o b /\ call' = [call EXCEPT !.rest = @ - n]
      /\ UNCHANGED <<outFile, chunkId, wr, given, failures, damaged, told>>
    BY Zenon DEF PutBytes, fault
<1>3. call.rest <= call.size /\ call.size <= given[w]
    BY <1>1 DEF SideOK, CallInv, InPayload
<1>4. b \in Seq(ByteCells)
  <2>1. ASSUME NEW i \in 1..n PROVE Byte(w, given[w] - call.rest + i) \in ByteCells
    <3>1. given[w] - call.rest + i \in Nat \ {0}
        BY <1>1, <1>3
    <3> QED BY <1>1, <3>1 DEF Byte, ByteCells
  <2>2. n \in Nat /\ b \in [1..n -> ByteCells]
      BY <1>1, <2>1
  <2> QED BY <2>2, SeqDef
<1> HIDE DEF b
<1>5. file' \in Seq(Cells)
    BY <1>1, <1>2, <1>4, BytesAppended DEF SideOK
<1>6. call.rest - n \in Nat /\ call.rest - n <= call.size
    BY <1>1, <1>3
<1>7. /\ call' \in CallRecords /\ call'.op = call.op /\ call'.w = w /\ call'.phase = "payload"
      /\ call'.size = call.size /\ call'.rest = call.rest - n /\ call'.left = call.left
    BY <1>1, <1>2, <1>6 DEF CallRecords
<1>8. CallInv'
    BY <1>1, <1>2, <1>3, <1>6, <1>7 DEF SideOK, CallInv, InPayload
<1>9. WriterInv'
    BY <1>1, <1>2 DEF SideOK, WriterInv
<1> QED BY <1>1, <1>2, <1>5, <1>6, <1>7, <1>8, <1>9, Zenon DEF SideOK

\* After End the side is in order, whatever became of the file.
LEMMA EndOK ==
    ASSUME IInv, call.op # "none", NEW failed \in BOOLEAN, End(failed),
           UNCHANGED <<file, outFile, chunkId, given>>,
           failures' \in Nat, damaged' \in BOOLEAN
    PROVE  SideOK'
<1>1. SideOK /\ call.w \in Writers /\ wr[call.w].state = "open" /\ BufSize \in Nat \ {0}
    BY SideFacts
<1>2. /\ call' = NoCall /\ told' = (told \/ failed)
      /\ wr' \in [Writers -> WriterRecords]
      /\ \A v \in Writers : v # call.w => wr'[v] = wr[v]
      /\ wr'[call.w].uid = wr[call.w].uid /\ wr'[call.w].magic = wr[call.w].magic
      /\ wr'[call.w].state = IF call.op = "close" THEN "closed" ELSE "open"
      /\ wr'[call.w].buf = IF call.op = "close" \/ (call.op = "flush" /\ ~failed)
                             THEN 0 ELSE wr[call.w].buf
    BY EndFacts
<1>3. call' \in CallRecords /\ CallInv'
    BY <1>2 DEF CallRecords, NoCall, CallInv, InPayload
<1>4. told' \in BOOLEAN
    BY <1>2, Zenon DEF SideOK
<1>5. WriterInv'
  <2>1. ASSUME NEW v \in Writers
        PROVE  /\ wr'[v].buf <= given[v]
               /\ wr'[v].state # "open" => wr'[v].buf = 0
               /\ wr'[v].state = "new" => given[v] = 0
               /\ wr'[v].state # "new" => wr'[v].magic \in Magics
    <3>1. /\ wr[v].buf <= given[v] /\ 0 <= given[v]
          /\ wr[v].state # "open" => wr[v].buf = 0
          /\ wr[v].state = "new" => given[v] = 0
          /\ wr[v].state # "new" => wr[v].magic \in Magics
        BY <1>1 DEF SideOK, WriterInv
    <3>2. CASE v # call.w
        BY <1>2, <3>1, <3>2
    <3>3. CASE v = call.w
        BY <1>1, <1>2, <3>1, <3>3
    <3> QED BY <3>2, <3>3
  <2>2. outFile = "new" => \A v \in Writers : wr'[v].state = "new"
      BY <1>1 DEF SideOK, WriterInv
  <2> QED BY <2>1, <2>2 DEF WriterInv
<1> QED BY <1>1, <1>2, <1>3, <1>4, <1>5, Zenon DEF SideOK

LEMMA PieceDoneOK ==
    ASSUME IInv, PieceDone
    PROVE  SideOK'
<1> DEFINE w == call.w
<1>1. /\ SideOK /\ call \in CallRecords /\ call.phase = "payload" /\ call.op # "none"
      /\ w \in Writers /\ wr[w].state = "open" /\ wr[w] \in WriterRecords /\ given[w] \in Nat
      /\ call.left \in Nat /\ call.size \in Nat /\ BufSize \in Nat \ {0}
      /\ failures \in Nat /\ damaged \in BOOLEAN /\ told \in BOOLEAN
    BY SideFacts DEF PieceDone, SideOK
<1>2. CASE call.op = "write"
  <2>1. /\ call' = [call EXCEPT !.phase = "loop", !.left = @ - DirectSize]
        /\ wr' = [wr EXCEPT ![w].buf = 0]
        /\ UNCHANGED <<file, outFile, chunkId, given, failures, damaged, told>>
      BY <1>2, Zenon DEF PieceDone
  <2>2. call.left - DirectSize \in Nat
    <3>1. call.size = BufSize /\ (wr[w].buf = 0 => call.left >= BufSize)
        BY <1>1, <1>2 DEF SideOK, CallInv
    <3>2. DirectSize = IF wr[w].buf = 0 THEN call.size ELSE 0
        BY <1>2 DEF DirectSize
    <3> QED BY <1>1, <3>1, <3>2
  <2> HIDE DEF w
  <2>3. /\ call' \in CallRecords /\ call'.op = "write" /\ call'.w = w /\ call'.phase = "loop"
      BY <1>1, <1>2, <2>1, <2>2 DEF CallRecords, w
  <2>4. /\ wr' \in [Writers -> WriterRecords] /\ wr'[w].buf = 0
        /\ wr'[w].state = "open" /\ wr'[w].magic = wr[w].magic
        /\ \A v \in Writers : v # w => wr'[v] = wr[v]
    <3> DEFINE r == [wr[w] EXCEPT !.buf = 0]
    <3>1. r \in WriterRecords /\ r.buf = 0 /\ r.state = "open" /\ r.magic = wr[w].magic
        BY <1>1 DEF WriterRecords, w
    <3>2. wr' = [wr EXCEPT ![w] = r]
        BY <1>1, <2>1 DEF SideOK, w
    <3> HIDE DEF r
    <3> QED BY <1>1, <3>1, <3>2 DEF SideOK, w
  <2>5. CallInv'
      BY <1>1, <2>3, <2>4 DEF CallInv, InPayload
  <2>6. WriterInv'
      BY <1>1, <2>1, <2>4 DEF SideOK, WriterInv
  <2> QED BY <1>1, <2>1, <2>3, <2>4, <2>5, <2>6, Zenon DEF SideOK
<1>3. CASE call.op # "write"
  <2>1. End(FALSE) /\ UNCHANGED <<file, outFile, chunkId, given, failures, damaged>>
      BY <1>3, Zenon DEF PieceDone
  <2>2. failures' \in Nat /\ damaged' \in BOOLEAN
      BY <1>1, <2>1, Zenon
  <2> QED BY <1>1, <2>1, <2>2, EndOK
<1> QED BY <1>2, <1>3

LEMMA RecordDeleted ==
    ASSUME NEW r \in WriterRecords
    PROVE  LET q == [r EXCEPT !.state = "deleted", !.buf = 0] IN
           /\ q \in WriterRecords /\ q.state = "deleted" /\ q.buf = 0
           /\ q.uid = r.uid /\ q.magic = r.magic
<1>1. 0 \in 0..BufSize
    BY SizeAssumption
<1> QED BY <1>1 DEF WriterRecords

LEMMA WriterSide ==
    ASSUME IInv, WriterNext
    PROVE  SideOK'
<1>1. /\ SideOK /\ BufSize \in Nat \ {0} /\ MaxId \in Nat
      /\ \A w \in Writers : wr[w] \in WriterRecords /\ wr[w].buf \in Nat
      /\ file \in Seq(Cells) /\ outFile \in {"new", "open", "closed"}
      /\ chunkId \in 0..MaxId /\ wr \in [Writers -> WriterRecords]
      /\ call \in CallRecords /\ given \in [Writers -> Nat] /\ call.left \in Nat
      /\ failures \in Nat /\ damaged \in BOOLEAN /\ told \in BOOLEAN
      /\ CallInv /\ WriterInv
    BY SideFacts DEF SideOK
<1>2. CASE Create \/ FileClose
  <2>1. /\ outFile' \in {"open", "closed"}
        /\ UNCHANGED <<file, chunkId, wr, call, given, failures, damaged, told>>
      BY <1>2, Zenon DEF Create, FileClose, wside, fault
  <2>2. CallInv' /\ WriterInv'
      BY <1>1, <2>1 DEF CallInv, WriterInv, InPayload
  <2> QED BY <1>1, <2>1, <2>2, Zenon DEF SideOK
<1>3. ASSUME NEW w \in Writers, NEW magic \in Magics, WriteChunk(w, magic) PROVE SideOK'
  <2>1. /\ outFile = "open" /\ wr[w].state = "new"
        /\ chunkId' = IF chunkId = MaxId THEN chunkId ELSE chunkId + 1
        /\ wr' = [wr EXCEPT ![w] = [state |-> "open", magic |-> magic, buf |-> 0,
                                    uid |-> IF chunkId = MaxId THEN 0 ELSE chunkId + 1]]
        /\ call = NoCall
        /\ UNCHANGED <<file, outFile, call, given, failures, damaged, told>>
      BY <1>3, Zenon DEF WriteChunk, fault
  <2>2. chunkId' \in 0..MaxId
      BY <1>1, <2>1
  <2> DEFINE r == [state |-> "open", magic |-> magic, buf |-> 0,
                   uid |-> IF chunkId = MaxId THEN 0 ELSE chunkId + 1]
  <2>3. r \in WriterRecords /\ r.state = "open" /\ r.buf = 0 /\ r.magic = magic
      BY <1>1 DEF WriterRecords
  <2> HIDE DEF r
  <2>4. wr' \in [Writers -> WriterRecords] /\ wr'[w] = r /\ \A v \in Writers : v # w => wr'[v] = wr[v]
      BY <1>1, <2>1, <2>3 DEF r
  <2>5. CallInv'
      BY <1>1, <2>1 DEF CallInv, InPayload, NoCall
  <2>6. WriterInv'
      BY <1>1, <2>1, <2>3, <2>4 DEF WriterInv
  <2> QED BY <1>1, <2>1, <2>2, <2>4, <2>5, <2>6, Zenon DEF SideOK
<1>4. ASSUME NEW w \in Writers, NEW n \in 1..MaxData[w], WriteBegin(w, n) PROVE SideOK'
  <2>1. n \in Nat
      BY BoundAssumption
  <2>2. Begin(w, "write", n, "loop", 0) /\ UNCHANGED <<file, outFile, chunkId, wr, given, fault>>
      BY <1>4, Zenon DEF WriteBegin
  <2> QED BY <2>1, <2>2, BeginOK
<1>5. ASSUME NEW w \in Writers, FlushBegin(w) \/ CloseBegin(w) PROVE SideOK'
  <2>1. \E op \in {"flush", "close"} : Begin(w, op, 0, "header", wr[w].buf)
      BY <1>5, Zenon DEF FlushBegin, CloseBegin
  <2>2. UNCHANGED <<file, outFile, chunkId, wr, given, fault>>
      BY <1>5, Zenon DEF FlushBegin, CloseBegin
  <2> QED BY <1>1, <2>1, <2>2, BeginOK
<1>6. ASSUME NEW w \in Writers, Delete(w) PROVE SideOK'
  <2>1. /\ wr' = [wr EXCEPT ![w].state = "deleted", ![w].buf = 0] /\ call = NoCall
        /\ wr[w].state = "open"
        /\ UNCHANGED <<file, outFile, chunkId, call, given, failures, damaged, told>>
      BY <1>6, Zenon DEF Delete, fault
  <2>2. /\ wr' \in [Writers -> WriterRecords] /\ wr'[w].state = "deleted" /\ wr'[w].buf = 0
        /\ wr'[w].magic = wr[w].magic /\ \A v \in Writers : v # w => wr'[v] = wr[v]
    <3> DEFINE r == [wr[w] EXCEPT !.state = "deleted", !.buf = 0]
    <3>1. r \in WriterRecords /\ r.buf = 0 /\ r.state = "deleted" /\ r.magic = wr[w].magic
        BY <1>1, RecordDeleted
    <3>2. wr' = [wr EXCEPT ![w] = r]
        BY <1>1, <2>1 DEF WriterRecords
    <3> HIDE DEF r
    <3> QED BY <1>1, <3>1, <3>2
  <2>3. CallInv'
      BY <1>1, <2>1 DEF CallInv, InPayload, NoCall
  <2>4. WriterInv'
      BY <1>1, <2>1, <2>2 DEF WriterInv
  <2> QED BY <1>1, <2>1, <2>2, <2>3, <2>4, Zenon DEF SideOK
<1>7. CASE WriteDirect
  <2>1. /\ call.op = "write" /\ call.phase = "loop" /\ call.left >= BufSize /\ wr[call.w].buf = 0
        /\ call' = [call EXCEPT !.phase = "header", !.size = BufSize, !.rest = BufSize]
        /\ UNCHANGED <<file, outFile, chunkId, wr, given, failures, damaged, told>>
      BY <1>7, Zenon DEF WriteDirect, fault
  <2>2. /\ call' \in CallRecords /\ call'.op = "write" /\ call'.w = call.w /\ call'.left = call.left
        /\ call'.phase = "header" /\ call'.size = BufSize /\ call'.rest = BufSize
      BY <1>1, <2>1 DEF CallRecords
  <2>3. CallInv'
      BY <1>1, <2>1, <2>2 DEF CallInv, InPayload
  <2>4. WriterInv'
      BY <1>1, <2>1 DEF WriterInv
  <2> QED BY <1>1, <2>1, <2>2, <2>3, <2>4, Zenon DEF SideOK
<1>8. CASE WriteEnd
  <2>1. call.op # "none" /\ End(FALSE) /\ UNCHANGED <<file, outFile, chunkId, given, failures, damaged>>
      BY <1>8 DEF WriteEnd
  <2>2. failures' \in Nat /\ damaged' \in BOOLEAN
      BY <1>1, <2>1, Zenon
  <2> QED BY <2>1, <2>2, EndOK
<1>9. CASE PutHeaderFails
  <2>1. /\ call.op # "none" /\ End(TRUE) /\ UNCHANGED <<file, outFile, chunkId, given>>
        /\ failures' = failures + 1 /\ \E torn \in BOOLEAN : damaged' = (damaged \/ torn)
      BY <1>9, Zenon DEF PutHeaderFails
  <2>2. failures' \in Nat
      BY <1>1, <2>1
  <2>3. damaged' \in BOOLEAN
      BY <2>1, Zenon
  <2> QED BY <2>1, <2>2, <2>3, EndOK
<1>10. CASE PutBytesFails
  <2>1. /\ call.phase = "payload" /\ damaged' = TRUE /\ failures' = failures + 1
        /\ UNCHANGED <<file, outFile, chunkId, given>>
      BY <1>10, Zenon DEF PutBytesFails
  <2>2. failures' \in Nat /\ damaged' \in BOOLEAN /\ call.op # "none"
      BY <1>1, <2>1, SideFacts
  <2>3. CASE End(TRUE)
      BY <2>1, <2>2, <2>3, EndOK
  <2>4. CASE call' = [call EXCEPT !.rest = 0] /\ UNCHANGED <<wr, refs, told>>
    <3>1. /\ call' \in CallRecords /\ call'.op = call.op /\ call'.w = call.w /\ call'.left = call.left
          /\ call'.phase = "payload" /\ call'.size = call.size /\ call'.rest = 0
        BY <1>1, <2>1, <2>4 DEF CallRecords
    <3>2. CallInv'
      <4>1. 0 <= call.size
          BY SideFacts
      <4> QED BY <1>1, <2>1, <2>2, <2>4, <3>1, <4>1 DEF CallInv, InPayload
    <3>3. WriterInv'
        BY <1>1, <2>1, <2>4 DEF WriterInv
    <3> QED BY <1>1, <2>1, <2>2, <2>4, <3>1, <3>2, <3>3, Zenon DEF SideOK
  <2> QED BY <1>10, <2>3, <2>4, Zenon DEF PutBytesFails
<1>11. CASE WriterDies
  <2>1. /\ outFile' = "closed" /\ call' = NoCall
        /\ wr' = [w \in Writers |->
                    IF wr[w].state = "open" THEN [wr[w] EXCEPT !.state = "deleted", !.buf = 0]
                    ELSE wr[w]]
        /\ UNCHANGED <<file, chunkId, given, failures, damaged, told>>
      BY <1>11, Zenon DEF WriterDies, fault
  <2>2. ASSUME NEW w \in Writers
        PROVE  /\ wr'[w] \in WriterRecords /\ wr'[w].magic = wr[w].magic
               /\ IF wr[w].state = "open" THEN wr'[w].state = "deleted" /\ wr'[w].buf = 0
                  ELSE wr'[w] = wr[w]
    <3>1. CASE wr[w].state = "open"
      <4>1. wr'[w] = [wr[w] EXCEPT !.state = "deleted", !.buf = 0] /\ wr[w] \in WriterRecords
          BY <1>1, <2>1, <3>1
      <4> QED BY <3>1, <4>1, RecordDeleted
    <3>2. CASE wr[w].state # "open"
        BY <1>1, <2>1, <3>2
    <3> QED BY <3>1, <3>2
  <2>3. wr' \in [Writers -> WriterRecords]
    <3>1. wr' = [w \in Writers |-> wr'[w]]
        BY <2>1
    <3> QED BY <2>2, <3>1
  <2>4. CallInv' /\ call' \in CallRecords
      BY <2>1 DEF CallInv, InPayload, NoCall, CallRecords
  <2>5. WriterInv'
    <3>1. ASSUME NEW w \in Writers
          PROVE  /\ wr'[w].buf <= given[w]
                 /\ wr'[w].state # "open" => wr'[w].buf = 0
                 /\ wr'[w].state = "new" => given[w] = 0
                 /\ wr'[w].state # "new" => wr'[w].magic \in Magics
      <4>1. /\ wr[w].buf <= given[w] /\ 0 <= given[w]
            /\ wr[w].state # "open" => wr[w].buf = 0
            /\ wr[w].state = "new" => given[w] = 0
            /\ wr[w].state # "new" => wr[w].magic \in Magics
          BY <1>1 DEF WriterInv
      <4> QED BY <2>2, <4>1
    <3> QED BY <2>1, <3>1 DEF WriterInv
  <2> QED BY <1>1, <2>1, <2>3, <2>4, <2>5, Zenon DEF SideOK
<1> QED BY <1>2, <1>3, <1>4, <1>5, <1>6, <1>7, <1>8, <1>9, <1>10, <1>11,
           WriteCopyOK, PutHeaderOK, PutBytesOK, PieceDoneOK DEF WriterNext, WriteStep

-----------------------------------------------------------------------------
(* The steps of the writers: the count of the resource                     *)

\* What a step of the writers has to show of the count of its resource.
RefsOK ==
    /\ IsFiniteSet(Opened) /\ refs \in [{"out", "in"} -> Nat]
    /\ refs["out"] = Count(outFile = "open")

LEMMA OpenedLess ==
    ASSUME IsFiniteSet(Opened), NEW w \in Opened
    PROVE  /\ IsFiniteSet(Opened \ {w})
           /\ Cardinality(Opened \ {w}) \in Nat /\ Cardinality(Opened) = Cardinality(Opened \ {w}) + 1
<1>1. /\ IsFiniteSet(Opened \ {w}) /\ Cardinality(Opened) \in Nat
      /\ Cardinality(Opened \ {w}) = Cardinality(Opened) - 1
    BY FS_RemoveElement, FS_CardinalityType
<1>2. Cardinality(Opened \ {w}) \in Nat
    BY <1>1, FS_CardinalityType
<1> QED BY <1>1, <1>2

LEMMA OpenedAfterEnd ==
    ASSUME IInv, call.op # "none", NEW failed, End(failed), outFile' = outFile
    PROVE  RefsOK' /\ refs'["in"] = refs["in"]
<1>1. /\ IsFiniteSet(Opened) /\ refs \in [{"out", "in"} -> Nat] /\ refs["out"] = Count(outFile = "open")
      /\ call.w \in Opened
    BY RefsForm, SideFacts DEF IInv, RefInv, TypeOK, Opened
<1>2. /\ \A v \in Writers : v # call.w => wr'[v] = wr[v]
      /\ wr'[call.w].state = IF call.op = "close" THEN "closed" ELSE "open"
      /\ refs' = IF call.op = "close" THEN [refs EXCEPT !["out"] = @ - 1] ELSE refs
    BY EndFacts
<1>3. CASE call.op = "close"
  <2>1. Opened' = Opened \ {call.w}
      BY <1>1, <1>2, <1>3 DEF Opened
  <2>2. /\ IsFiniteSet(Opened') /\ Cardinality(Opened') \in Nat
        /\ Cardinality(Opened) = Cardinality(Opened') + 1
      BY <1>1, <2>1, OpenedLess
  <2>3. refs["out"] - 1 = Cardinality(Opened') + (IF outFile = "open" THEN 1 ELSE 0)
      BY <1>1, <2>2 DEF Count
  <2>4. refs' = [refs EXCEPT !["out"] = @ - 1] /\ refs["out"] - 1 \in Nat
      BY <1>2, <1>3, <2>2, <2>3
  <2> QED BY <1>1, <2>2, <2>3, <2>4 DEF RefsOK, Count
<1>4. CASE call.op # "close"
  <2>1. Opened' = Opened /\ refs' = refs
      BY <1>1, <1>2, <1>4 DEF Opened
  <2> QED BY <1>1, <2>1 DEF RefsOK, Count
<1> QED BY <1>3, <1>4

LEMMA WriterRefs ==
    ASSUME IInv, WriterNext
    PROVE  RefsOK' /\ refs'["in"] = refs["in"]
<1>1. /\ IsFiniteSet(Opened) /\ refs \in [{"out", "in"} -> Nat] /\ refs["out"] = Count(outFile = "open")
      /\ Cardinality(Opened) \in Nat /\ wr \in [Writers -> WriterRecords]
    BY RefsForm, SideFacts, FS_CardinalityType DEF IInv, RefInv, TypeOK, SideOK
<1>2. ASSUME UNCHANGED <<refs, outFile>>, Opened' = Opened PROVE RefsOK' /\ refs'["in"] = refs["in"]
    BY <1>1, <1>2 DEF RefsOK, Count
<1>3. CASE Create
  <2>1. outFile = "new" /\ outFile' = "open" /\ refs' = [refs EXCEPT !["out"] = @ + 1] /\ wr' = wr
      BY <1>3, Zenon DEF Create, Acquire, wside
  <2>2. Opened' = Opened
      BY <2>1 DEF Opened
  <2> QED BY <1>1, <2>1, <2>2 DEF RefsOK, Count
<1>4. CASE FileClose
  <2>1. outFile = "open" /\ outFile' = "closed" /\ refs' = [refs EXCEPT !["out"] = @ - 1] /\ wr' = wr
      BY <1>4, Zenon DEF FileClose, Release, wside
  <2>2. Opened' = Opened
      BY <2>1 DEF Opened
  <2>3. refs["out"] - 1 = Cardinality(Opened)
      BY <1>1, <2>1 DEF Count
  <2> QED BY <1>1, <2>1, <2>2, <2>3 DEF RefsOK, Count
<1>5. ASSUME NEW w \in Writers, NEW magic \in Magics, WriteChunk(w, magic)
      PROVE  RefsOK' /\ refs'["in"] = refs["in"]
  <2> DEFINE r == [state |-> "open", magic |-> magic, buf |-> 0,
                   uid |-> IF chunkId = MaxId THEN 0 ELSE chunkId + 1]
  <2>1. /\ wr[w].state = "new" /\ wr' = [wr EXCEPT ![w] = r] /\ outFile' = outFile
        /\ refs' = [refs EXCEPT !["out"] = @ + 1]
      BY <1>5, Zenon DEF WriteChunk, Acquire
  <2>2. r.state = "open"
      OBVIOUS
  <2> HIDE DEF r
  <2>3. Opened' = Opened \cup {w} /\ w \notin Opened
      BY <1>1, <2>1, <2>2 DEF Opened
  <2>4. IsFiniteSet(Opened') /\ Cardinality(Opened') = Cardinality(Opened) + 1
      BY <1>1, <2>3, FS_AddElement
  <2> QED BY <1>1, <2>1, <2>4 DEF RefsOK, Count
<1>6. ASSUME NEW w \in Writers, \/ \E n \in 1..MaxData[w] : WriteBegin(w, n)
                                \/ FlushBegin(w) \/ CloseBegin(w)
      PROVE  RefsOK' /\ refs'["in"] = refs["in"]
  <2>1. UNCHANGED <<refs, outFile, wr>>
      BY <1>6, Zenon DEF WriteBegin, FlushBegin, CloseBegin
  <2> QED BY <1>2, <2>1 DEF Opened
<1>7. ASSUME NEW w \in Writers, Delete(w) PROVE RefsOK' /\ refs'["in"] = refs["in"]
  <2>1. /\ wr[w].state = "open" /\ outFile' = outFile /\ refs' = [refs EXCEPT !["out"] = @ - 1]
        /\ wr' = [wr EXCEPT ![w].state = "deleted", ![w].buf = 0]
      BY <1>7, Zenon DEF Delete, Release
  <2>2. w \in Opened /\ Opened' = Opened \ {w}
    <3> DEFINE r == [wr[w] EXCEPT !.state = "deleted", !.buf = 0]
    <3>1. r.state = "deleted"
        BY <1>1, RecordDeleted
    <3>2. wr' = [wr EXCEPT ![w] = r]
        BY <1>1, <2>1 DEF WriterRecords
    <3> HIDE DEF r
    <3> QED BY <1>1, <2>1, <3>1, <3>2 DEF Opened
  <2>3. /\ IsFiniteSet(Opened') /\ Cardinality(Opened') \in Nat
        /\ Cardinality(Opened) = Cardinality(Opened') + 1
      BY <1>1, <2>2, OpenedLess
  <2>4. refs["out"] - 1 = Cardinality(Opened') + (IF outFile = "open" THEN 1 ELSE 0)
      BY <1>1, <2>3 DEF Count
  <2>5. refs["out"] - 1 \in Nat
      BY <2>3, <2>4
  <2> QED BY <1>1, <2>1, <2>3, <2>4, <2>5 DEF RefsOK, Count
<1>8. CASE WriteCopy \/ WriteDirect \/ PutHeader \/ \E n \in 1..BufSize : PutBytes(n)
  <2>1. UNCHANGED <<refs, outFile>>
      BY <1>8, Zenon DEF WriteCopy, WriteDirect, PutHeader, PutBytes
  <2>2. Opened' = Opened
    <3>1. CASE WriteDirect \/ PutHeader \/ \E n \in 1..BufSize : PutBytes(n)
      <4>1. wr' = wr
          BY <3>1, Zenon DEF WriteDirect, PutHeader, PutBytes
      <4> QED BY <4>1 DEF Opened
    <3>2. CASE WriteCopy
      <4> DEFINE n == Min({BufSize - wr[call.w].buf, call.left})
      <4>1. wr' = [wr EXCEPT ![call.w].buf = @ + n]
          BY <3>2, Zenon DEF WriteCopy
      <4> HIDE DEF n
      <4>2. \A v \in Writers : wr'[v].state = wr[v].state
          BY <1>1, <4>1 DEF WriterRecords
      <4> QED BY <4>2 DEF Opened
    <3> QED BY <1>8, <3>1, <3>2
  <2> QED BY <1>2, <2>1, <2>2
<1>9. CASE WriteEnd \/ PutHeaderFails
  <2>1. call.op # "none" /\ outFile' = outFile /\ \E failed : End(failed)
      BY <1>9 DEF WriteEnd, PutHeaderFails
  <2> QED BY <2>1, OpenedAfterEnd
<1>10. CASE PutBytesFails
  <2>1. call.op # "none" /\ outFile' = outFile
      BY <1>10, SideFacts DEF PutBytesFails
  <2>2. End(TRUE) \/ UNCHANGED <<wr, refs>>
      BY <1>10, Zenon DEF PutBytesFails
  <2> QED BY <1>2, <2>1, <2>2, OpenedAfterEnd DEF Opened
<1>11. CASE PieceDone
  <2>1. call.op # "none" /\ outFile' = outFile
      BY <1>11, SideFacts DEF PieceDone
  <2>2. End(FALSE) \/ (wr' = [wr EXCEPT ![call.w].buf = 0] /\ refs' = refs)
      BY <1>11, Zenon DEF PieceDone
  <2>3. wr' = [wr EXCEPT ![call.w].buf = 0] => Opened' = Opened
    <3>1. wr' = [wr EXCEPT ![call.w].buf = 0] => \A v \in Writers : wr'[v].state = wr[v].state
        BY <1>1 DEF WriterRecords
    <3> QED BY <3>1 DEF Opened
  <2> QED BY <1>2, <2>1, <2>2, <2>3, OpenedAfterEnd
<1>12. CASE WriterDies
  <2>1. /\ outFile' = "closed" /\ refs' = [refs EXCEPT !["out"] = 0]
        /\ wr' = [w \in Writers |->
                    IF wr[w].state = "open" THEN [wr[w] EXCEPT !.state = "deleted", !.buf = 0]
                    ELSE wr[w]]
      BY <1>12, Zenon DEF WriterDies
  <2>2. ASSUME NEW w \in Writers PROVE wr'[w].state # "open"
    <3>1. CASE wr[w].state = "open"
      <4>1. wr'[w] = [wr[w] EXCEPT !.state = "deleted", !.buf = 0] /\ wr[w] \in WriterRecords
          BY <1>1, <2>1, <3>1
      <4> QED BY <4>1, RecordDeleted
    <3>2. CASE wr[w].state # "open"
        BY <2>1, <3>2
    <3> QED BY <3>1, <3>2
  <2>3. Opened' = {} /\ IsFiniteSet(Opened') /\ Cardinality(Opened') = 0
      BY <2>2, FS_EmptySet DEF Opened
  <2>4. /\ refs' \in [{"out", "in"} -> Nat] /\ refs'["out"] = 0 /\ refs'["in"] = refs["in"]
      BY <1>1, <2>1
  <2>5. outFile' # "open"
    <3>1. outFile' = "closed"
        BY <2>1
    <3> QED BY <3>1
  <2>6. refs'["out"] = Cardinality(Opened') + 0
    <3>1. 0 = 0 + 0
        OBVIOUS
    <3> QED BY <2>3, <2>4, <3>1, Zenon
  <2> QED BY <2>3, <2>4, <2>5, <2>6, Zenon DEF RefsOK, Count
<1>13. CASE WriteStep
    BY <1>8, <1>9, <1>11, <1>13, Zenon DEF WriteStep
<1> QED BY <1>3, <1>4, <1>5, <1>6, <1>7, <1>9, <1>10, <1>12, <1>13, Zenon DEF WriterNext

\* Types and the count, after a step of the writers.
LEMMA WriterTypes ==
    ASSUME IInv, WriterNext
    PROVE  TypeOK' /\ CallInv' /\ WriterInv' /\ RefInv'
<1>1. SideOK' /\ RefsOK' /\ refs'["in"] = refs["in"] /\ UNCHANGED <<rd, rcall, misread, pos, out>>
    BY WriterSide, WriterRefs, WriterLeaves DEF rside
<1>2. TypeOK'
    BY <1>1, Zenon DEF IInv, TypeOK, SideOK, RefsOK, WriterRecords, CallRecords
<1>3. RefInv'
  <2>1. refs["in"] = IF rd # NoReader THEN 2 ELSE 1
      BY RefsForm DEF IInv, RefInv
  <2>2. RefsExact' <=> /\ (refs["out"])' = Count(outFile = "open")'
                       /\ (refs["in"])' = IF rd' # NoReader THEN 2 ELSE 1
      BY Zenon DEF RefsExact, Count, Opened, NoReader
  <2>3. (refs["out"])' = Count(outFile = "open")' /\ (refs["in"])' = IF rd' # NoReader THEN 2 ELSE 1
      BY <1>1, <2>1, Zenon DEF RefsOK
  <2> QED BY <1>1, <2>2, <2>3, Zenon DEF RefInv, RefsOK
<1> QED BY <1>1, <1>2, <1>3 DEF SideOK

-----------------------------------------------------------------------------
(* The steps of the writers: the file                                      *)

\* What the file says of a writer outlives a step of another one.
LEMMA OtherWriter ==
    ASSUME NEW v \in Writers, Signed(v), Accounts(v), file \in Seq(Cells),
           v # call.w, v # call'.w, wr'[v] = wr[v], given'[v] = given[v], told => told',
           Of(file, v)' = Of(file, v), \A i \in Of(file, v) : file'[i] = file[i],
           Len(file') \in Nat, Len(file) <= Len(file')
    PROVE  (Signed(v) /\ Accounts(v))'
<1>1. \A i \in Of(file, v) : /\ i \in Headers(file) /\ PieceEnd(file, i) \in Nat
                             /\ PieceEnd(file, i)' = PieceEnd(file, i)
                             /\ Upto(file, i)' = Upto(file, i)
    BY HeaderTypes DEF Of, PieceEnd, Upto
<1>2. Len(file) \in Nat
    BY LenProperties
<1>3. Signed(v)'
    BY <1>1, <1>2 DEF Signed
<1>4. Pending(v)' = Pending(v)
    BY DEF Pending
<1>5. \A n : Announced(file, v, n) => Announced(file', v, n)
    BY <1>1 DEF Announced
<1>6. Accounts(v)'
    BY <1>1, <1>4, <1>5 DEF Accounts
<1> QED BY <1>3, <1>6


\* The steps that leave the file as it is: no piece is being written, and the
\* writers stay as they are but for some that are deleted, or that close after
\* an error.
LEMMA FileKept ==
    ASSUME IInv, SideOK', ~damaged, UNCHANGED <<file, given>>, ~InPayload', told => told',
           Growing' => Growing /\ ~InPayload,
           \A v \in Writers :
              /\ wr'[v].uid = wr[v].uid /\ wr'[v].magic = wr[v].magic
              /\ \/ wr'[v].state = wr[v].state /\ wr'[v].buf = wr[v].buf /\ ~(InPayload /\ call.w = v)
                 \/ wr[v].state = "open" /\ wr'[v].state = "deleted"
                 \/ wr[v].state = "open" /\ wr'[v].state = "closed" /\ told' /\ ~InPayload
    PROVE  FileOK'
<1>1. FileOK /\ file \in Seq(Cells)
    BY DEF IInv, FileInv, TypeOK
<1>2. Pieces(file)' /\ Current'
    BY <1>1 DEF FileOK, Current
<1>3. Ahead' = 0 /\ (~InPayload => Ahead = 0)
    BY DEF Ahead
<1>4. Frontier'
    BY <1>1, <1>3 DEF FileOK, Frontier
<1>5. \A v : Of(file, v)' = Of(file, v) /\ Headers(file)' = Headers(file)
    OBVIOUS
<1>6. ASSUME NEW v \in Writers PROVE (Signed(v) /\ Accounts(v))'
  <2>1. /\ wr'[v].uid = wr[v].uid /\ wr'[v].magic = wr[v].magic
        /\ \/ wr'[v].state = wr[v].state /\ wr'[v].buf = wr[v].buf /\ ~(InPayload /\ call.w = v)
           \/ wr[v].state = "open" /\ wr'[v].state = "deleted"
           \/ wr[v].state = "open" /\ wr'[v].state = "closed" /\ told' /\ ~InPayload
      OBVIOUS
  <2>2. Signed(v) /\ Accounts(v)
      BY <1>1 DEF FileOK
  <2>3. Len(file) \in Nat /\ \A i \in Of(file, v) : i \in Headers(file) /\ PieceEnd(file, i) \in Nat
      BY <1>1, LenProperties, HeaderTypes DEF Of
  <2>4. CASE wr'[v].state = wr[v].state /\ wr'[v].buf = wr[v].buf /\ ~(InPayload /\ call.w = v)
    <3>1. Signed(v)'
        BY <2>1, <2>2, <2>4 DEF Signed
    <3>2. Pending(v)' = Pending(v)
        BY <2>4 DEF Pending
    <3>3. Accounts(v)'
        BY <2>2, <2>4, <3>2 DEF Accounts
    <3> QED BY <3>1, <3>3
  <2>5. CASE wr[v].state = "open" /\ wr'[v].state = "deleted"
      BY <2>1, <2>2, <2>5 DEF Signed, Accounts
  <2>6. CASE wr[v].state = "open" /\ wr'[v].state = "closed" /\ told' /\ ~InPayload
    <3>1. \A i \in Of(file, v) : PieceEnd(file, i) <= Len(file)
      <4>1. Growing
          BY <2>6 DEF Growing, Opened
      <4> QED BY <1>1, <1>3, <2>3, <2>6, <4>1 DEF FileOK, Frontier
    <3> QED BY <2>1, <2>2, <2>6, <3>1 DEF Signed, Accounts
  <2> QED BY <2>1, <2>4, <2>5, <2>6
<1> QED BY <1>2, <1>4, <1>6 DEF FileOK

\* A new writer has no piece in the file and has taken nothing.
LEMMA FileWriteChunk ==
    ASSUME IInv, ~damaged, NEW w \in Writers, NEW magic \in Magics, WriteChunk(w, magic)
    PROVE  FileOK'
<1> DEFINE r == [state |-> "open", magic |-> magic, buf |-> 0,
                 uid |-> IF chunkId = MaxId THEN 0 ELSE chunkId + 1]
<1>1. /\ outFile = "open" /\ call = NoCall /\ wr[w].state = "new" /\ wr' = [wr EXCEPT ![w] = r]
      /\ UNCHANGED <<file, outFile, call, given, told>>
    BY Zenon DEF WriteChunk, fault
<1>2. r.state = "open" /\ r.buf = 0
    OBVIOUS
<1> HIDE DEF r
<1>3. FileOK /\ file \in Seq(Cells) /\ given[w] = 0 /\ wr \in [Writers -> WriterRecords]
    BY <1>1, SideFacts DEF IInv, FileInv, TypeOK, WriterInv, SideOK
<1>4. wr'[w] = r /\ \A v \in Writers : v # w => wr'[v] = wr[v]
    BY <1>1, <1>3
<1>5. Pieces(file)' /\ Current' /\ Frontier'
    BY <1>1, <1>3 DEF FileOK, Current, Frontier, Growing, Ahead, InPayload
<1>6. Of(file, w) = {} /\ Pending(w)' = 0
  <2>1. Signed(w) /\ ~InPayload'
      BY <1>1, <1>3 DEF FileOK, InPayload, NoCall
  <2> QED BY <1>1, <1>2, <1>4, <2>1 DEF Signed, Pending
<1>7. (Signed(w) /\ Accounts(w))'
    BY <1>1, <1>2, <1>3, <1>4, <1>6 DEF Signed, Accounts, Announced
<1>8. ASSUME NEW v \in Writers, v # w PROVE (Signed(v) /\ Accounts(v))'
  <2>1. v # call.w /\ v # call'.w /\ Len(file) \in Nat
      BY <1>1, <1>3, NoChunkAssumption, LenProperties DEF NoCall
  <2>2. Signed(v) /\ Accounts(v)
      BY <1>3 DEF FileOK
  <2> QED BY <1>1, <1>3, <1>4, <1>8, <2>1, <2>2, OtherWriter
<1> QED BY <1>5, <1>7, <1>8 DEF FileOK


\* What goes into the buffer is taken but not announced.
LEMMA FileWriteCopy ==
    ASSUME IInv, ~damaged, WriteCopy
    PROVE  FileOK'
<1>0. PICK w \in Writers : w = call.w
    BY SideFacts DEF WriteCopy
<1> DEFINE n == Min({BufSize - wr[w].buf, call.left})
<1>1. /\ FileOK /\ file \in Seq(Cells) /\ wr[w].state = "open" /\ wr[w] \in WriterRecords
      /\ wr[w].buf \in Nat /\ wr[w].buf <= BufSize /\ given[w] \in Nat /\ call.left \in Nat
      /\ BufSize \in Nat \ {0} /\ wr \in [Writers -> WriterRecords] /\ given \in [Writers -> Nat]
      /\ call \in CallRecords /\ call.phase = "loop"
    BY <1>0, SideFacts DEF WriteCopy, SideOK, IInv, FileInv, TypeOK
<1>2. n \in Nat
  <2>1. BufSize - wr[w].buf \in Nat
      BY <1>1
  <2> QED BY <1>1, <2>1, MinOfTwo
<1>3. /\ wr' = [wr EXCEPT ![w].buf = @ + n]
      /\ given' = [given EXCEPT ![w] = @ + n]
      /\ call' = [call EXCEPT !.left = @ - n,
                              !.phase = IF wr[w].buf + n = BufSize THEN "header" ELSE "loop",
                              !.size = BufSize, !.rest = BufSize]
      /\ UNCHANGED <<file, outFile, told>>
    BY <1>0, Zenon DEF WriteCopy, fault
<1> HIDE DEF n
<1>4. call'.w = w /\ call'.phase # "payload"
    BY <1>0, <1>1, <1>3 DEF CallRecords
<1>5. /\ wr'[w].buf = wr[w].buf + n /\ wr'[w].state = "open"
      /\ wr'[w].uid = wr[w].uid /\ wr'[w].magic = wr[w].magic
      /\ \A v \in Writers : v # w => wr'[v] = wr[v]
    BY <1>1, <1>2, <1>3 DEF WriterRecords
<1>6. given'[w] = given[w] + n /\ \A v \in Writers : v # w => given'[v] = given[v]
    BY <1>1, <1>2, <1>3
<1>7. Pieces(file)' /\ Current' /\ Frontier'
  <2>1. Growing /\ Ahead' = 0 /\ Ahead = 0 /\ ~InPayload'
      BY <1>1, <1>4 DEF Growing, Opened, Ahead, InPayload
  <2> QED BY <1>1, <1>3, <2>1 DEF FileOK, Current, Frontier
<1>8. Signed(w) /\ Accounts(w) /\ ~InPayload /\ ~InPayload'
    BY <1>1, <1>4 DEF FileOK, InPayload
<1>9. Signed(w)'
    BY <1>1, <1>3, <1>5, <1>8 DEF Signed
<1>10. Accounts(w)'
  <2>1. given'[w] - Pending(w)' = given[w] - Pending(w)
    <3>1. Pending(w)' = wr[w].buf + n /\ Pending(w) = wr[w].buf
        BY <1>5, <1>8 DEF Pending
    <3> QED BY <1>1, <1>2, <1>6, <3>1
  <2>2. \A i \in Of(file, w) : Upto(file, i) \in Nat /\ Upto(file, i) <= given'[w]
      BY <1>1, <1>2, <1>6, <1>8, HeaderTypes DEF Of, Accounts
  <2> QED BY <1>1, <1>3, <1>5, <1>8, <2>1, <2>2 DEF Accounts
<1>11. ASSUME NEW v \in Writers, v # w PROVE (Signed(v) /\ Accounts(v))'
  <2>1. Signed(v) /\ Accounts(v) /\ Len(file) \in Nat
      BY <1>1, LenProperties DEF FileOK
  <2> QED BY <1>0, <1>1, <1>3, <1>4, <1>5, <1>6, <1>11, <2>1, OtherWriter
<1> QED BY <1>7, <1>9, <1>10, <1>11 DEF FileOK

\* The new header continues the stream of its writer.
LEMMA FilePutHeader ==
    ASSUME IInv, ~damaged, PutHeader
    PROVE  FileOK'
<1>0. PICK w \in Writers : w = call.w
    BY SideFacts DEF PutHeader
<1> DEFINE h == Header(call.w, call.size, call.op = "close")
           m == Len(file) + 1
<1>1. /\ FileOK /\ file \in Seq(Cells) /\ Len(file) \in Nat /\ wr[w].state = "open"
      /\ wr[w].buf \in Nat /\ wr[w].buf <= given[w] /\ given[w] \in Nat /\ call.phase = "header"
      /\ call.size \in Nat /\ wr' = wr /\ outFile' = outFile /\ told' = told
    BY <1>0, SideFacts, LenProperties DEF PutHeader, SideOK, IInv, FileInv, TypeOK, fault
<1>2. /\ file' = Append(file, h) /\ call'.op = call.op /\ call'.w = w /\ call'.phase = "payload"
      /\ call'.rest = call.size
      /\ given'[w] = given[w] + DirectSize /\ \A v \in Writers : v # w => given'[v] = given[v]
    BY <1>0, PutHeaderOK
<1>3. /\ h \in HeaderCells /\ h.of = w /\ h.size = call.size /\ h.uid = wr[w].uid
      /\ h.magic = wr[w].magic /\ h.last = (call.op = "close") /\ h.at = given[w] - wr[w].buf
      /\ DirectSize \in Nat /\ h.at + h.size = given[w] + DirectSize
    BY <1>0, <1>1, HeaderFacts
<1> HIDE DEF h, m
<1>4. /\ Len(file') = m /\ Headers(file') = Headers(file) \cup {m}
      /\ \A i \in 1..Len(file) : file'[i] = file[i]
      /\ file'[m] = h
    BY <1>1, <1>2, <1>3, HeaderAppended DEF m
<1>5. Growing /\ Growing' /\ Ahead = 0 /\ ~InPayload /\ Pending(w) = wr[w].buf
    BY <1>0, <1>1 DEF Growing, Opened, Ahead, InPayload, Pending
<1>6. \A i \in Headers(file) : /\ i \in 1..Len(file) /\ PieceEnd(file, i) \in Nat
                               /\ PieceEnd(file, i) <= Len(file) /\ Upto(file, i) \in Nat
                               /\ PieceEnd(file', i) = PieceEnd(file, i) /\ Upto(file', i) = Upto(file, i)
  <2>1. \A i \in Headers(file) : i \in 1..Len(file) /\ PieceEnd(file, i) \in Nat /\ Upto(file, i) \in Nat
      BY <1>1, HeaderTypes
  <2>2. \A i \in Headers(file) : PieceEnd(file, i) <= Len(file)
      BY <1>1, <1>5, <2>1 DEF FileOK, Frontier
  <2> QED BY <1>4, <2>1, <2>2 DEF PieceEnd, Upto
<1>7. Signed(w) /\ Accounts(w)
    BY <1>1 DEF FileOK
<1>8. Announced(file, w, h.at)
    BY <1>1, <1>3, <1>5, <1>7 DEF Accounts
<1>9. Pieces(file')
  <2>1. \A i \in Headers(file) : file[i].of = h.of => ~file[i].last /\ Upto(file, i) <= h.at
      BY <1>1, <1>3, <1>5, <1>7, <1>8 DEF Of, Signed, Announced
  <2>2. h.at > 0 => \E i \in Headers(file) : file[i].of = h.of /\ Upto(file, i) = h.at
      BY <1>3, <1>8 DEF Of, Announced
  <2>3. /\ \A i \in Headers(file) : PieceEnd(file, i) <= Len(file)
        /\ \A i \in Of(file, h.of) : Upto(file, i) <= h.at /\ ~file[i].last
        /\ h.at > 0 => \E i \in Of(file, h.of) : Upto(file, i) = h.at
      BY <1>6, <2>1, <2>2 DEF Of
  <2>4. Pieces(Append(file, h))
      BY <1>1, <1>3, <2>3, HeaderExtends DEF FileOK
  <2> QED BY <1>2, <2>4
<1>10. m \in Nat /\ m \in Headers(file') /\ PieceEnd(file', m) = m + call.size
       /\ Upto(file', m) = given'[w] /\ m \in Of(file', w)
    BY <1>1, <1>2, <1>3, <1>4 DEF m, PieceEnd, Upto, Of
<1>11. Current'
    BY <1>2, <1>4, <1>10 DEF Current
<1>12. Frontier'
  <2>1. Ahead' = call.size
      BY <1>2 DEF Ahead, InPayload
  <2>2. ASSUME NEW i \in Headers(file') PROVE PieceEnd(file', i) <= m + call.size
      BY <1>1, <1>4, <1>6, <1>10, <2>2 DEF m
  <2> QED BY <1>4, <2>1, <2>2 DEF Frontier
<1>13. /\ \A v \in Writers : v # w => Of(file', v) = Of(file, v)
       /\ Of(file', w) = Of(file, w) \cup {m}
    BY <1>3, <1>4, <1>6 DEF Of
<1>14. Signed(w)'
  <2>1. ASSUME NEW i \in Of(file', w)
        PROVE  file'[i].uid = wr[w].uid /\ file'[i].magic = wr[w].magic /\ (file'[i].last => call.op = "close")
    <3>1. CASE i = m
        BY <1>3, <1>4, <3>1
    <3>2. CASE i \in Of(file, w)
        BY <1>1, <1>4, <1>5, <1>6, <1>7, <3>2 DEF Signed, Of
    <3> QED BY <1>13, <3>1, <3>2
  <2> QED BY <1>1, <1>2, <2>1 DEF Signed, InPayload
<1>15. Accounts(w)'
  <2>1. Pending(w)' = 0 /\ given'[w] \in Nat
      BY <1>1, <1>2, <1>3 DEF Pending, InPayload
  <2>2. ASSUME NEW i \in Of(file', w) PROVE Upto(file', i) <= given'[w]
    <3>1. CASE i = m
        BY <1>10, <2>1, <3>1
    <3>2. CASE i \in Of(file, w)
        BY <1>1, <1>2, <1>3, <1>6, <1>7, <3>2 DEF Accounts, Of
    <3> QED BY <1>13, <3>1, <3>2
  <2>3. Announced(file', w, given'[w])
      BY <1>10, <2>2 DEF Announced
  <2> QED BY <1>1, <2>1, <2>2, <2>3 DEF Accounts
<1>16. ASSUME NEW v \in Writers, v # w PROVE (Signed(v) /\ Accounts(v))'
  <2>1. Signed(v) /\ Accounts(v)
      BY <1>1 DEF FileOK
  <2>2. \A i \in Of(file, v) : file'[i] = file[i]
      BY <1>4, <1>6 DEF Of
  <2>3. Len(file') \in Nat /\ Len(file) <= Len(file') /\ wr'[v] = wr[v] /\ given'[v] = given[v]
      BY <1>1, <1>2, <1>4, <1>16 DEF m
  <2>4. file \in Seq(Cells) /\ v # call.w /\ v # call'.w
      BY <1>0, <1>1, <1>2, <1>16
  <2>5. Of(file, v)' = Of(file, v)
      BY <1>13, <1>16
  <2> QED BY <1>1, <2>1, <2>2, <2>3, <2>4, <2>5, OtherWriter
<1> QED BY <1>9, <1>11, <1>12, <1>14, <1>15, <1>16 DEF FileOK


\* The bytes written are those that the header announced and the file lacks.
LEMMA FilePutBytes ==
    ASSUME IInv, ~damaged, NEW n \in 1..BufSize, PutBytes(n)
    PROVE  FileOK'
<1>0. PICK w \in Writers : w = call.w
    BY SideFacts DEF PutBytes
<1> DEFINE b == [i \in 1..n |-> Byte(w, given[w] - call.rest + i)]
<1>1. /\ FileOK /\ file \in Seq(Cells) /\ Len(file) \in Nat /\ wr[w].state = "open"
      /\ given[w] \in Nat /\ call.phase = "payload" /\ n \in Nat /\ n <= call.rest
      /\ call.rest \in Nat /\ call \in CallRecords
      /\ wr' = wr /\ outFile' = outFile /\ told' = told /\ given' = given /\ file' = file \o b
  <2>1. /\ wr' = wr /\ outFile' = outFile /\ told' = told /\ given' = given /\ file' = file \o b
        /\ call.phase = "payload" /\ n <= call.rest
      BY <1>0, Zenon DEF PutBytes, fault
  <2>2. /\ FileOK /\ file \in Seq(Cells) /\ Len(file) \in Nat /\ call \in CallRecords
        /\ given \in [Writers -> Nat]
      BY SideFacts, LenProperties DEF SideOK, IInv, FileInv
  <2>3. wr[w].state = "open" /\ call.rest \in Nat
      BY <1>0, <2>1, SideFacts
  <2> QED BY <2>1, <2>2, <2>3
<1>2. call'.op = call.op /\ call'.w = w /\ call'.phase = "payload" /\ call'.rest = call.rest - n
  <2>1. call.rest - n \in Nat /\ call' = [call EXCEPT !.rest = @ - n]
      BY PutBytesOK
  <2> QED BY <1>0, <1>1, <2>1 DEF CallRecords
<1>3. PICK c \in Of(file, w) : PieceEnd(file, c) = Len(file) + call.rest /\ Upto(file, c) = given[w]
    BY <1>0, <1>1 DEF FileOK, Current, InPayload
<1>4. c \in Headers(file) /\ file[c].of = w
    BY DEF Of
<1>5. b \in Seq(ByteCells) /\ Len(b) = n /\ Pieces(file \o b)
  <2>1. n \in 1..call.rest /\ b = [k \in 1..n |-> Byte(file[c].of, Upto(file, c) - call.rest + k)]
      BY <1>1, <1>3, <1>4
  <2> HIDE DEF b
  <2>2. Pieces(file) /\ call.rest \in Nat
      BY <1>1 DEF FileOK
  <2> DEFINE d == [k \in 1..n |-> Byte(file[c].of, Upto(file, c) - call.rest + k)]
  <2>3. d \in Seq(ByteCells) /\ Len(d) = n /\ Pieces(file \o d)
    <3>1. file \in Seq(Cells) /\ PieceEnd(file, c) = Len(file) + call.rest
        BY <1>1, <1>3
    <3> QED BY <1>4, <2>1, <2>2, <3>1, BytesExtend, Zenon
  <2> QED BY <2>1, <2>3
<1> HIDE DEF b
<1>6. /\ Len(file') = Len(file) + n /\ Headers(file') = Headers(file)
      /\ \A i \in 1..Len(file) : file'[i] = file[i]
    BY <1>1, <1>5, BytesAppended
<1>7. \A i \in Headers(file) : /\ i \in 1..Len(file) /\ PieceEnd(file, i) \in Nat
                               /\ file'[i] = file[i]
                               /\ PieceEnd(file', i) = PieceEnd(file, i) /\ Upto(file', i) = Upto(file, i)
  <2>1. \A i \in Headers(file) : i \in 1..Len(file) /\ PieceEnd(file, i) \in Nat
      BY <1>1, HeaderTypes
  <2> QED BY <1>6, <2>1 DEF PieceEnd, Upto
<1>8. \A v \in Writers : Of(file', v) = Of(file, v) /\ \A i \in Of(file, v) : file'[i] = file[i]
    BY <1>6, <1>7 DEF Of
<1>9. Len(file') + call'.rest = Len(file) + call.rest /\ Len(file') \in Nat /\ Len(file) <= Len(file')
    BY <1>1, <1>2, <1>6
<1>10. Current'
    BY <1>0, <1>1, <1>2, <1>3, <1>7, <1>8, <1>9 DEF Current, Of
<1>11. Frontier'
  <2>1. Growing /\ Ahead = call.rest /\ Ahead' = call'.rest
      BY <1>1, <1>2 DEF Growing, Opened, Ahead, InPayload
  <2>2. \A i \in Headers(file) : PieceEnd(file, i) <= Len(file) + call.rest
      BY <1>1, <2>1 DEF FileOK, Frontier
  <2> QED BY <1>6, <1>7, <1>9, <2>1, <2>2 DEF Frontier
<1>12. Signed(w) /\ Accounts(w)
    BY <1>1 DEF FileOK
<1>13. Signed(w)'
    BY <1>0, <1>1, <1>2, <1>8, <1>12 DEF Signed, InPayload
<1>14. Accounts(w)'
  <2>1. Pending(w)' = Pending(w) /\ \A i \in Of(file, w) : Upto(file', i) = Upto(file, i)
      BY <1>0, <1>1, <1>2, <1>7 DEF Pending, InPayload, Of
  <2>2. \A k : Announced(file, w, k) => Announced(file', w, k)
      BY <1>8, <2>1 DEF Announced
  <2> QED BY <1>1, <1>8, <1>12, <2>1, <2>2 DEF Accounts
<1>15. ASSUME NEW v \in Writers, v # w PROVE (Signed(v) /\ Accounts(v))'
  <2>1. Signed(v) /\ Accounts(v) /\ v # call.w /\ v # call'.w
      BY <1>0, <1>1, <1>2, <1>15 DEF FileOK
  <2>2. wr'[v] = wr[v] /\ given'[v] = given[v] /\ file \in Seq(Cells)
      BY <1>1
  <2> QED BY <1>1, <1>8, <1>9, <2>1, <2>2, OtherWriter
<1> QED BY <1>1, <1>5, <1>10, <1>11, <1>13, <1>14, <1>15 DEF FileOK

\* A piece that is out is whole.
LEMMA FilePieceDone ==
    ASSUME IInv, ~damaged, PieceDone
    PROVE  FileOK'
<1>0. PICK w \in Writers : w = call.w
    BY SideFacts DEF PieceDone
<1>1. /\ FileOK /\ file \in Seq(Cells) /\ Len(file) \in Nat /\ wr[w].state = "open"
      /\ given[w] \in Nat /\ call.phase = "payload" /\ call.rest = 0 /\ call.op # "none"
      /\ call \in CallRecords /\ wr \in [Writers -> WriterRecords] /\ wr[w] \in WriterRecords
      /\ outFile' = outFile /\ given' = given /\ file' = file
    BY <1>0, SideFacts, LenProperties DEF PieceDone, SideOK, IInv, FileInv, TypeOK
<1>2. /\ call'.phase # "payload" /\ call'.w \in {w, NoChunk} /\ (told => told')
      /\ wr'[w].uid = wr[w].uid /\ wr'[w].magic = wr[w].magic /\ wr'[w].buf = 0
      /\ wr'[w].state = IF call.op = "close" THEN "closed" ELSE "open"
      /\ \A v \in Writers : v # w => wr'[v] = wr[v]
  <2>1. CASE call.op = "write"
    <3>1. /\ call' = [call EXCEPT !.phase = "loop", !.left = @ - DirectSize]
          /\ wr' = [wr EXCEPT ![w].buf = 0]
        BY <1>0, <2>1, Zenon DEF PieceDone
    <3>2. told' = told
        BY <2>1, Zenon DEF PieceDone
    <3> HIDE DEF DirectSize
    <3>3. call'.phase # "payload" /\ call'.w = w
        BY <1>0, <1>1, <3>1 DEF CallRecords
    <3>4. /\ wr'[w].uid = wr[w].uid /\ wr'[w].magic = wr[w].magic /\ wr'[w].buf = 0
          /\ wr'[w].state = "open" /\ \A v \in Writers : v # w => wr'[v] = wr[v]
        BY <1>1, <3>1 DEF WriterRecords
    <3> QED BY <2>1, <3>2, <3>3, <3>4
  <2>2. CASE call.op # "write"
    <3>1. End(FALSE)
        BY <2>2, Zenon DEF PieceDone
    <3>2. call.op \in {"flush", "close"}
        BY <1>1, <2>2 DEF CallRecords
    <3>3. /\ call' = NoCall
          /\ wr'[w].uid = wr[w].uid /\ wr'[w].magic = wr[w].magic
          /\ wr'[w].state = IF call.op = "close" THEN "closed" ELSE "open"
          /\ wr'[w].buf = IF call.op = "close" \/ (call.op = "flush" /\ ~FALSE) THEN 0 ELSE wr[w].buf
          /\ \A v \in Writers : v # w => wr'[v] = wr[v]
        BY <1>0, <1>1, <3>1, EndFacts
    <3>4. call'.phase # "payload" /\ call'.w = NoChunk
        BY <3>3 DEF NoCall
    <3>5. told => told'
        BY <3>1, Zenon DEF End
    <3> QED BY <3>2, <3>3, <3>4, <3>5
  <2> QED BY <2>1, <2>2
<1>3. told => told'
    BY <1>2
<1>4. Growing /\ Ahead = 0 /\ Ahead' = 0 /\ ~InPayload' /\ Pending(w) = 0 /\ Pending(w)' = 0
    BY <1>0, <1>1, <1>2 DEF Growing, Opened, Ahead, InPayload, Pending
<1>5. /\ \A i \in Headers(file) : PieceEnd(file, i) <= Len(file)
      /\ Pieces(file)' /\ Current' /\ Frontier'
  <2>1. \A i \in Headers(file) : PieceEnd(file, i) <= Len(file) + 0
      BY <1>1, <1>4 DEF FileOK, Frontier
  <2>2. \A i \in Headers(file) : PieceEnd(file, i) <= Len(file)
      BY <1>1, <2>1
  <2> QED BY <1>1, <1>4, <2>1, <2>2 DEF FileOK, Frontier, Current
<1>6. Signed(w) /\ Accounts(w)
    BY <1>1 DEF FileOK
<1>7. Signed(w)'
    BY <1>0, <1>1, <1>2, <1>5, <1>6 DEF Signed, Of
<1>8. Accounts(w)'
  <2>1. Announced(file, w, given[w])
      BY <1>1, <1>4, <1>6 DEF Accounts
  <2> QED BY <1>1, <1>4, <1>6, <2>1 DEF Accounts
<1>9. ASSUME NEW v \in Writers, v # w PROVE (Signed(v) /\ Accounts(v))'
  <2>1. Signed(v) /\ Accounts(v) /\ v # call.w /\ v # call'.w
      BY <1>0, <1>1, <1>2, <1>9, NoChunkAssumption DEF FileOK
  <2>2. wr'[v] = wr[v]
      BY <1>2, <1>9
  <2> QED BY <1>1, <1>3, <2>1, <2>2, OtherWriter
<1> QED BY <1>5, <1>7, <1>8, <1>9 DEF FileOK


LEMMA WriterFile ==
    ASSUME IInv, WriterNext
    PROVE  FileInv'
<1>1. SideOK /\ SideOK' /\ wr \in [Writers -> WriterRecords]
    BY SideFacts, WriterSide DEF SideOK
<1>2. /\ call = NoCall => ~InPayload
      /\ call.phase # "payload" => ~InPayload
      /\ call'.phase # "payload" => ~InPayload'
      /\ InPayload => call.w \in Writers /\ wr[call.w].state = "open"
    BY SideFacts DEF InPayload, NoCall
<1> SUFFICES ASSUME ~damaged' PROVE FileOK'
    BY DEF FileInv
<1>3. CASE Create \/ FileClose
  <2>1. /\ outFile \in {"new", "open"} /\ UNCHANGED <<file, wr, call, given, damaged, told>>
      BY <1>3, Zenon DEF Create, FileClose, wside, fault
  <2>2. ~InPayload
    <3>1. CASE Create
      <4>1. outFile = "new"
          BY <3>1 DEF Create
      <4> QED BY <1>1, <1>2, <4>1 DEF SideOK, WriterInv
    <3>2. CASE FileClose
        BY <1>2, <3>2 DEF FileClose
    <3> QED BY <1>3, <3>1, <3>2
  <2>3. Growing /\ ~InPayload'
      BY <2>1, <2>2 DEF Growing, InPayload
  <2> QED BY <1>1, <2>1, <2>2, <2>3, FileKept
<1>4. CASE \E w \in Writers, magic \in Magics : WriteChunk(w, magic)
  <2>1. ~damaged
      BY <1>4 DEF WriteChunk, fault
  <2> QED BY <1>4, <2>1, FileWriteChunk
<1>5. CASE \/ \E w \in Writers : (\E n \in 1..MaxData[w] : WriteBegin(w, n)) \/ FlushBegin(w) \/ CloseBegin(w)
           \/ WriteDirect
  <2>1. /\ UNCHANGED <<file, outFile, wr, given, damaged, told>>
        /\ call = NoCall \/ call.phase = "loop"
        /\ call'.phase # "payload"
    <3>1. CASE WriteDirect
      <4>1. call.phase = "loop" /\ call' = [call EXCEPT !.phase = "header", !.size = BufSize, !.rest = BufSize]
            /\ UNCHANGED <<file, outFile, wr, given, damaged, told>>
          BY <3>1, Zenon DEF WriteDirect, fault
      <4>2. call'.phase = "header"
          BY <1>1, <4>1 DEF SideOK, CallRecords
      <4> QED BY <4>1, <4>2
    <3>2. ASSUME NEW w \in Writers, (\E n \in 1..MaxData[w] : WriteBegin(w, n)) \/ FlushBegin(w) \/ CloseBegin(w)
          PROVE  <2>1
      <4>1. UNCHANGED <<file, outFile, wr, given, damaged, told>>
          BY <3>2, Zenon DEF WriteBegin, FlushBegin, CloseBegin, fault
      <4>2. call = NoCall
          BY <3>2, Zenon DEF WriteBegin, FlushBegin, CloseBegin, Begin
      <4>3. call'.phase \in {"loop", "header"}
          BY <3>2 DEF WriteBegin, FlushBegin, CloseBegin, Begin
      <4> QED BY <4>1, <4>2, <4>3
    <3> QED BY <1>5, <3>1, <3>2
  <2>2. ~InPayload /\ ~InPayload' /\ Growing' = Growing
      BY <1>2, <2>1 DEF Growing, Opened
  <2> QED BY <1>1, <2>1, <2>2, FileKept
<1>6. ASSUME NEW w \in Writers, Delete(w) PROVE FileOK'
  <2>1. /\ wr[w].state = "open" /\ call = NoCall
        /\ wr' = [wr EXCEPT ![w].state = "deleted", ![w].buf = 0]
        /\ UNCHANGED <<file, outFile, call, given, damaged, told>>
      BY <1>6, Zenon DEF Delete, fault
  <2>2. /\ wr'[w].state = "deleted" /\ wr'[w].uid = wr[w].uid /\ wr'[w].magic = wr[w].magic
        /\ \A v \in Writers : v # w => wr'[v] = wr[v]
      BY <1>1, <2>1 DEF WriterRecords
  <2>3. ~InPayload /\ ~InPayload' /\ Growing
      BY <1>2, <2>1 DEF Growing, Opened, InPayload
  <2> QED BY <1>1, <2>1, <2>2, <2>3, FileKept
<1>7. CASE WriteCopy
  <2>1. ~damaged
      BY <1>7 DEF WriteCopy, fault
  <2> QED BY <1>7, <2>1, FileWriteCopy
<1>8. CASE PutHeader
  <2>1. ~damaged
      BY <1>8 DEF PutHeader, fault
  <2> QED BY <1>8, <2>1, FilePutHeader
<1>9. CASE \E n \in 1..BufSize : PutBytes(n)
  <2>1. ~damaged
      BY <1>9 DEF PutBytes, fault
  <2> QED BY <1>9, <2>1, FilePutBytes
<1>10. CASE PieceDone
  <2>1. ~damaged
      BY <1>10 DEF PieceDone
  <2> QED BY <1>10, <2>1, FilePieceDone
<1>11. CASE WriteEnd \/ PutHeaderFails
  <2>1. /\ call.phase # "payload" /\ call.op # "none" /\ UNCHANGED <<file, outFile, given>>
      BY <1>11 DEF WriteEnd, PutHeaderFails
  <2>2. ~damaged
    <3>1. CASE WriteEnd
        BY <3>1 DEF WriteEnd
    <3>2. CASE PutHeaderFails
        BY <3>2, Zenon DEF PutHeaderFails
    <3> QED BY <1>11, <3>1, <3>2
  <2>3. PICK failed \in BOOLEAN : End(failed) /\ (failed \/ call.op = "write")
      BY <1>11, Zenon DEF WriteEnd, PutHeaderFails
  <2>4. /\ call' = NoCall
        /\ \A v \in Writers : v # call.w => wr'[v] = wr[v]
        /\ wr'[call.w].uid = wr[call.w].uid /\ wr'[call.w].magic = wr[call.w].magic
        /\ wr'[call.w].state = IF call.op = "close" THEN "closed" ELSE "open"
        /\ wr'[call.w].buf = IF call.op = "close" \/ (call.op = "flush" /\ ~failed)
                               THEN 0 ELSE wr[call.w].buf
      BY <2>1, <2>3, EndFacts
  <2>5. (told => told') /\ (failed => told')
      BY <2>3, Zenon DEF End
  <2>6. call.w \in Writers /\ wr[call.w].state = "open" /\ ~InPayload /\ ~InPayload' /\ Growing
      BY <1>2, <2>1, <2>4, SideFacts DEF Growing, Opened, InPayload, NoCall
  <2>7. ASSUME NEW v \in Writers
        PROVE  /\ wr'[v].uid = wr[v].uid /\ wr'[v].magic = wr[v].magic
               /\ \/ wr'[v].state = wr[v].state /\ wr'[v].buf = wr[v].buf /\ ~(InPayload /\ call.w = v)
                  \/ wr[v].state = "open" /\ wr'[v].state = "closed" /\ told' /\ ~InPayload
    <3>1. CASE v # call.w
        BY <2>4, <2>6, <3>1
    <3>2. CASE v = call.w /\ call.op = "close"
        BY <2>3, <2>4, <2>5, <2>6, <3>2
    <3>3. CASE v = call.w /\ call.op # "close"
        BY <2>3, <2>4, <2>6, <3>3
    <3> QED BY <3>1, <3>2, <3>3
  <2> QED BY <1>1, <2>1, <2>2, <2>5, <2>6, <2>7, FileKept
<1>12. CASE PutBytesFails
    BY <1>12 DEF PutBytesFails
<1>13. CASE WriterDies
  <2>1. /\ outFile' = "closed" /\ call' = NoCall
        /\ wr' = [v \in Writers |->
                    IF wr[v].state = "open" THEN [wr[v] EXCEPT !.state = "deleted", !.buf = 0]
                    ELSE wr[v]]
        /\ UNCHANGED <<file, given, damaged, told>>
      BY <1>13, Zenon DEF WriterDies, fault
  <2>2. ASSUME NEW v \in Writers
        PROVE  /\ wr'[v].uid = wr[v].uid /\ wr'[v].magic = wr[v].magic
               /\ IF wr[v].state = "open" THEN wr'[v].state = "deleted" ELSE wr'[v] = wr[v]
    <3>1. CASE wr[v].state = "open"
      <4>1. wr'[v] = [wr[v] EXCEPT !.state = "deleted", !.buf = 0] /\ wr[v] \in WriterRecords
          BY <1>1, <2>1, <3>1
      <4> QED BY <3>1, <4>1, RecordDeleted
    <3>2. CASE wr[v].state # "open"
        BY <1>1, <2>1, <3>2
    <3> QED BY <3>1, <3>2
  <2>3. ~InPayload' /\ ~Growing'
      BY <2>1, <2>2 DEF InPayload, NoCall, Growing, Opened
  <2>4. \A v \in Writers : InPayload /\ call.w = v => wr[v].state = "open"
      BY <1>2
  <2> QED BY <1>1, <2>1, <2>2, <2>3, <2>4, FileKept
<1>14. CASE WriteStep
    BY <1>5, <1>7, <1>8, <1>9, <1>10, <1>11, <1>14, Zenon DEF WriteStep
<1> QED BY <1>3, <1>4, <1>5, <1>6, <1>11, <1>12, <1>13, <1>14, Zenon DEF WriterNext

\* The headers the reader has met stay where they are.
\* The headers of the file stay as they are, and at most one is added.
LEMMA HeadersStay ==
    ASSUME IInv, WriterNext
    PROVE  /\ \A i \in Headers(file) : /\ i \in Headers(file') /\ file'[i] = file[i]
                                       /\ PieceEnd(file', i) = PieceEnd(file, i)
           /\ \/ Headers(file') = Headers(file)
              \/ PutHeader /\ Headers(file') = Headers(file) \cup {Len(file) + 1}
<1>1. file \in Seq(Cells)
    BY DEF IInv, TypeOK
<1>2. /\ \A i \in 1..Len(file) : i \in Headers(file) => file'[i] = file[i]
      /\ \/ Headers(file') = Headers(file)
         \/ PutHeader /\ Headers(file') = Headers(file) \cup {Len(file) + 1}
  <2>1. CASE PutHeader
    <3> DEFINE h == Header(call.w, call.size, call.op = "close")
    <3>1. h \in HeaderCells /\ file' = Append(file, h)
        BY <2>1, HeaderFacts, PutHeaderOK DEF PutHeader
    <3> HIDE DEF h
    <3>2. Headers(file') = Headers(file) \cup {Len(file) + 1} /\ \A i \in 1..Len(file) : file'[i] = file[i]
        BY <1>1, <3>1, HeaderAppended
    <3> QED BY <2>1, <3>2
  <2>2. ASSUME NEW n \in 1..BufSize, PutBytes(n) PROVE <1>2
    <3> DEFINE b == [i \in 1..n |-> Byte(call.w, given[call.w] - call.rest + i)]
    <3>1. b \in Seq(ByteCells)
      <4>1. /\ call.w \in Writers /\ given[call.w] \in Nat /\ call.rest \in Nat /\ call.size \in Nat
            /\ call.rest <= call.size /\ call.size <= given[call.w] /\ n \in Nat
          BY <2>2, SideFacts DEF PutBytes, IInv, CallInv, InPayload
      <4>2. \A i \in 1..n : given[call.w] - call.rest + i \in Nat \ {0}
          BY <4>1
      <4>3. \A i \in 1..n : Byte(call.w, given[call.w] - call.rest + i) \in ByteCells
          BY <4>1, <4>2 DEF Byte, ByteCells
      <4> QED BY <4>1, <4>3, SeqDef
    <3>2. file' = file \o b
        BY <2>2, Zenon DEF PutBytes
    <3> HIDE DEF b
    <3>3. Headers(file) = Headers(file') /\ \A i \in 1..Len(file) : file'[i] = file[i]
        BY <1>1, <3>1, <3>2, BytesAppended
    <3> QED BY <3>3
  <2>3. CASE file' = file
      BY <2>3
  <2>4. PutHeader \/ (\E n \in 1..BufSize : PutBytes(n)) \/ file' = file
      BY Zenon DEF WriterNext, Create, FileClose, WriteChunk, WriteBegin, FlushBegin, CloseBegin, Delete,
                   WriteStep, WriteCopy, WriteDirect, WriteEnd, PieceDone,
                   PutHeaderFails, PutBytesFails, WriterDies
  <2> QED BY <2>1, <2>2, <2>3, <2>4
<1>3. \A i \in Headers(file) : i \in 1..Len(file) /\ i \in Headers(file')
    BY <1>2 DEF Headers
<1> QED BY <1>2, <1>3 DEF PieceEnd

LEMMA DamageStays ==
    ASSUME WriterNext
    PROVE  damaged => damaged'
BY Zenon DEF WriterNext, Create, FileClose, WriteChunk, WriteBegin, FlushBegin, CloseBegin, Delete,
             WriteStep, WriteCopy, WriteDirect, WriteEnd, PieceDone, PutHeader, PutBytes,
             PutHeaderFails, PutBytesFails, WriterDies, fault

LEMMA WriterBoundary ==
    ASSUME IInv, WriterNext
    PROVE  AtBoundary'
<1>1. UNCHANGED <<rd, rcall, pos>> /\ Boundary' = Boundary
    BY WriterLeaves DEF rside, Boundary
<1> QED BY <1>1, HeadersStay, DamageStays DEF IInv, AtBoundary

LEMMA NextIInv == IInv /\ [Next]_vars => IInv'
<1> SUFFICES ASSUME IInv, [Next]_vars PROVE IInv'
    OBVIOUS
<1>1. CASE ReaderNext
    BY <1>1, ReaderIInv
<1>2. CASE WriterNext
    BY <1>2, WriterTypes, WriterFile, WriterBoundary DEF IInv
<1>3. CASE UNCHANGED vars
  <2>1. UNCHANGED <<file, outFile, refs, chunkId, wr, call, given, rd, rcall, pos, out, failures, damaged, told, misread>>
      BY <1>3 DEF vars, wside, rside, fault
  <2>2. TypeOK' /\ CallInv' /\ WriterInv' /\ AtBoundary'
    <3>1. TypeOK'
      <4>1. TypeOK
          BY DEF IInv
      <4>2. /\ file' = file /\ outFile' = outFile /\ refs' = refs /\ chunkId' = chunkId /\ wr' = wr
            /\ call' = call /\ given' = given /\ rd' = rd /\ rcall' = rcall /\ pos' = pos /\ out' = out
            /\ failures' = failures /\ damaged' = damaged /\ told' = told /\ misread' = misread
          BY <2>1, Zenon
      <4>3. /\ (file \in Seq(Cells))' /\ (outFile \in {"new", "open", "closed"})'
            /\ (refs \in [{"out", "in"} -> Nat])' /\ (chunkId \in 0..MaxId)'
            /\ (wr \in [Writers -> WriterRecords])' /\ (call \in CallRecords)'
            /\ (given \in [Writers -> Nat])'
          BY <4>1, <4>2, Zenon DEF TypeOK, WriterRecords, CallRecords
      <4>4. /\ (rd \in ReaderRecords)' /\ (rcall \in [op : {"none", "read", "skip"}, left : Nat])'
            /\ (pos \in Nat)' /\ (out \in Seq(Cells))'
            /\ (failures \in Nat)' /\ (damaged \in BOOLEAN)' /\ (told \in BOOLEAN)'
            /\ (misread \in BOOLEAN)'
          BY <4>1, <4>2, Zenon DEF TypeOK, ReaderRecords
      <4> QED BY <4>3, <4>4, Zenon DEF TypeOK, WriterRecords, CallRecords, ReaderRecords
    <3>2. CallInv' /\ WriterInv' /\ AtBoundary'
        BY <2>1 DEF IInv, CallInv, WriterInv, AtBoundary, InPayload, Boundary
    <3> QED BY <3>1, <3>2
  <2>3. RefInv'
      BY <2>1, Zenon DEF IInv, RefInv, RefsExact, Opened
  <2>4. UNCHANGED <<Growing, Ahead, InPayload>> /\ \A w : Pending(w)' = Pending(w)
      BY <2>1 DEF Growing, Ahead, InPayload, Opened, Pending
  <2>5. FileInv'
      BY <2>1, <2>4 DEF IInv, FileInv, FileOK, Frontier, Current, Signed, Accounts
  <2> QED BY <2>2, <2>3, <2>5 DEF IInv
<1> QED BY <1>1, <1>2, <1>3, TwoSides



\* The inductive invariant holds of every state.
LEMMA IInvHolds == Spec => []IInv
BY InitIInv, NextIInv, PTL DEF Spec

-----------------------------------------------------------------------------
(* The properties                                                          *)

\* The variables stay in their ranges: no counter of the container, neither
\* the bytes left of a call nor the count of its resource, runs below zero.
THEOREM TypeCorrect == Spec => []TypeOK
<1>1. IInv => TypeOK
    BY DEF IInv
<1> QED BY <1>1, IInvHolds, PTL

\* In whatever order the file, its chunks and the reader are closed and
\* deleted, the resource is counted once for each that is open.
THEOREM RefsExactHolds == Spec => []RefsExact
<1>1. IInv => RefsExact
    BY DEF IInv, RefInv
<1> QED BY <1>1, IInvHolds, PTL

\* The walk from header to header meets every header and nothing else, while
\* pieces are being written as well as afterwards.
THEOREM WellFormedHolds == Spec => []WellFormed
<1>1. IInv => WellFormed
  <2> SUFFICES ASSUME IInv, ~damaged
               PROVE  Walk = {p \in 0..(Len(file) - 1) : file[p + 1].kind = "header"}
      BY Zenon DEF WellFormed
  <2>1. file \in Seq(Cells) /\ Pieces(file)
      BY DEF IInv, TypeOK, FileInv, FileOK
  <2> QED BY <2>1, WalkMeetsHeaders
<1> QED BY <1>1, IInvHolds, PTL

\* Every byte a writer has taken is in the file once, in order, or in its
\* buffer, for every writer that no call is busy with.
THEOREM NothingLostHolds == Spec => []NothingLost
<1>1. IInv => NothingLost
  <2> SUFFICES ASSUME IInv, NEW w \in Writers, ~damaged, call.w # w,
                      wr[w].state = "open" \/ (wr[w].state = "closed" /\ ~told)
               PROVE  /\ {file[i].at : i \in BytesOf(w)} = 1..(given[w] - wr[w].buf)
                      /\ \A i, j \in BytesOf(w) : i < j => file[i].at < file[j].at
      BY Zenon DEF NothingLost
  <2>1. /\ file \in Seq(Cells) /\ Len(file) \in Nat /\ FileOK /\ Pieces(file)
        /\ wr[w].buf \in Nat /\ wr[w].buf <= given[w] /\ given[w] \in Nat
        /\ wr[w].state # "open" => wr[w].buf = 0
      BY SideFacts, LenProperties DEF IInv, TypeOK, FileInv, FileOK, WriterInv
  <2>2. Signed(w) /\ Accounts(w)
      BY <2>1 DEF FileOK
  <2>3. given[w] - wr[w].buf \in Nat
      BY <2>1
  <2>4. Announced(file, w, given[w] - wr[w].buf)
    <3>1. CASE wr[w].state = "open"
        BY <2>2, <3>1 DEF Accounts, Pending
    <3>2. CASE wr[w].state = "closed" /\ ~told
      <4>1. given[w] - wr[w].buf = given[w]
          BY <2>1, <3>2
      <4> QED BY <2>2, <3>2, <4>1 DEF Accounts
    <3> QED BY <3>1, <3>2
  \* A piece that is not whole yet is that of the writer of the call.
  <2>5. ASSUME NEW i \in Of(file, w) PROVE PieceEnd(file, i) <= Len(file)
    <3>1. CASE wr[w].state = "closed"
        BY <2>2, <3>1 DEF Signed
    <3>2. CASE wr[w].state = "open" /\ ~InPayload
      <4>1. Growing /\ Ahead = 0 /\ i \in Headers(file)
          BY <3>2 DEF Growing, Opened, Ahead, Of
      <4>2. PieceEnd(file, i) \in Nat
          BY <2>1, <4>1, HeaderTypes
      <4> QED BY <2>1, <4>1, <4>2 DEF FileOK, Frontier
    <3>3. CASE InPayload
      <4>1. PICK c \in Of(file, call.w) : PieceEnd(file, c) = Len(file) + call.rest
          BY <2>1, <3>3 DEF FileOK, Current
      <4>2. /\ c \in Headers(file) /\ i \in Headers(file) /\ c # i
            /\ c \in Nat /\ i \in Nat /\ c <= Len(file)
            /\ PieceEnd(file, i) \in Nat /\ PieceEnd(file, c) \in Nat /\ i <= Len(file)
            /\ call.rest \in Nat
          BY <2>1, <4>1, HeaderTypes, SideFacts DEF Of
      <4>3. ~(c < i)
          BY <2>1, <4>1, <4>2 DEF Pieces, Layout
      <4>4. PieceEnd(file, i) < c
          BY <2>1, <4>2, <4>3 DEF Pieces, Layout
      <4> QED BY <2>1, <4>2, <4>4
    <3> QED BY <3>1, <3>2, <3>3
  <2>6. BytesOf(w) = Bytes(file, w)
      BY DEF BytesOf, Bytes
  <2> QED BY <2>1, <2>3, <2>4, <2>5, <2>6, StreamWhole
<1> QED BY <1>1, IInvHolds, PTL

-----------------------------------------------------------------------------
(* The identifiers: with one for every chunk, and 0 for one more, no two    *)
(* chunks share one.                                                        *)

EnoughIds == IsFiniteSet(Writers) /\ Cardinality(Writers) <= MaxId + 1

Named == {w \in Writers : wr[w].state # "new"}

IdInv ==
    /\ IsFiniteSet(Named)
    /\ \A v \in Named : wr[v].uid <= chunkId
    /\ (\A v \in Named : wr[v].uid # 0) => Cardinality(Named) = chunkId
    /\ (\E v \in Named : wr[v].uid = 0) => chunkId = MaxId /\ Cardinality(Named) > MaxId
    /\ \A v, w \in Named : wr[v].uid = wr[w].uid => v = w

\* Only write_chunk() names a chunk, and what it is named it keeps.
LEMMA NamesKept ==
    ASSUME IInv, WriterNext, \A w \in Writers : \A magic \in Magics : ~WriteChunk(w, magic)
    PROVE  /\ chunkId' = chunkId
           /\ \A v \in Writers : /\ wr'[v].uid = wr[v].uid /\ wr'[v].magic = wr[v].magic
                                 /\ wr'[v].state = "new" <=> wr[v].state = "new"
<1>1. wr \in [Writers -> WriterRecords] /\ BufSize \in Nat \ {0} /\ call \in CallRecords
    BY SideFacts DEF SideOK
<1>2. chunkId' = chunkId
    BY Zenon DEF WriterNext, Create, FileClose, WriteBegin, FlushBegin, CloseBegin, Delete,
                 WriteStep, WriteCopy, WriteDirect, WriteEnd, PieceDone, PutHeader, PutBytes,
                 PutHeaderFails, PutBytesFails, WriterDies, wside
<1> DEFINE Same == \A v \in Writers : /\ wr'[v].uid = wr[v].uid /\ wr'[v].magic = wr[v].magic
                                      /\ wr'[v].state = "new" <=> wr[v].state = "new"
<1>3. ASSUME wr' = wr PROVE Same
    BY <1>3
<1>4. ASSUME NEW w \in Writers, Delete(w) PROVE Same
  <2>1. wr[w].state = "open" /\ wr' = [wr EXCEPT ![w].state = "deleted", ![w].buf = 0]
      BY <1>4, Zenon DEF Delete
  <2>2. /\ wr'[w].state = "deleted" /\ wr'[w].uid = wr[w].uid /\ wr'[w].magic = wr[w].magic
        /\ \A v \in Writers : v # w => wr'[v] = wr[v]
      BY <1>1, <2>1 DEF WriterRecords
  <2> QED BY <2>1, <2>2
<1>5. ASSUME wr' = [wr EXCEPT ![call.w].buf = 0] PROVE Same
    BY <1>1, <1>5 DEF WriterRecords
<1>6. ASSUME NEW failed, End(failed), call.op # "none" PROVE Same
  <2>1. /\ \A v \in Writers : v # call.w => wr'[v] = wr[v]
        /\ wr'[call.w].uid = wr[call.w].uid /\ wr'[call.w].magic = wr[call.w].magic
        /\ wr'[call.w].state = IF call.op = "close" THEN "closed" ELSE "open"
      BY <1>6, EndFacts
  <2>2. wr[call.w].state = "open"
      BY <1>6, SideFacts
  <2> QED BY <2>1, <2>2
<1>7. ASSUME WriterDies PROVE Same
  <2>1. wr' = [v \in Writers |->
                  IF wr[v].state = "open" THEN [wr[v] EXCEPT !.state = "deleted", !.buf = 0]
                  ELSE wr[v]]
      BY <1>7, Zenon DEF WriterDies
  <2>2. ASSUME NEW v \in Writers
        PROVE  /\ wr'[v].uid = wr[v].uid /\ wr'[v].magic = wr[v].magic
               /\ wr'[v].state = "new" <=> wr[v].state = "new"
    <3>1. CASE wr[v].state = "open"
      <4>1. wr'[v] = [wr[v] EXCEPT !.state = "deleted", !.buf = 0] /\ wr[v] \in WriterRecords
          BY <1>1, <2>1, <3>1
      <4> QED BY <3>1, <4>1, RecordDeleted
    <3>2. CASE wr[v].state # "open"
        BY <1>1, <2>1, <3>2
    <3> QED BY <3>1, <3>2
  <2> QED BY <2>2
<1>8. ASSUME WriteCopy PROVE Same
  <2> DEFINE n == Min({BufSize - wr[call.w].buf, call.left})
  <2>1. wr' = [wr EXCEPT ![call.w].buf = @ + n]
      BY <1>8, Zenon DEF WriteCopy
  <2> HIDE DEF n
  <2>2. \A v \in Writers : wr'[v].uid = wr[v].uid /\ wr'[v].magic = wr[v].magic /\ wr'[v].state = wr[v].state
      BY <1>1, <2>1 DEF WriterRecords
  <2> QED BY <2>2
<1>9. ASSUME WriteEnd \/ PutHeaderFails \/ PutBytesFails \/ PieceDone PROVE Same
  <2>1. call.op # "none"
      BY <1>9, SideFacts DEF WriteEnd, PutHeaderFails, PutBytesFails, PieceDone
  <2>2. (\E failed : End(failed)) \/ wr' = wr \/ wr' = [wr EXCEPT ![call.w].buf = 0]
      BY <1>9, Zenon DEF WriteEnd, PutHeaderFails, PutBytesFails, PieceDone
  <2> QED BY <1>3, <1>5, <1>6, <2>1, <2>2
<1>10. \/ wr' = wr \/ (\E w \in Writers : Delete(w)) \/ WriterDies \/ WriteCopy
       \/ WriteEnd \/ PutHeaderFails \/ PutBytesFails \/ PieceDone
    BY Zenon DEF WriterNext, Create, FileClose, WriteBegin, FlushBegin, CloseBegin,
                 WriteStep, WriteDirect, PutHeader, PutBytes, wside
<1>11. Same
    BY <1>3, <1>4, <1>7, <1>8, <1>9, <1>10
<1> QED BY <1>2, <1>11

LEMMA NextIdInv ==
    ASSUME EnoughIds, IInv, IdInv, [Next]_vars
    PROVE  IdInv'
<1>1. /\ wr \in [Writers -> WriterRecords] /\ MaxId \in Nat /\ chunkId \in Nat /\ chunkId <= MaxId
      /\ IsFiniteSet(Named) /\ Cardinality(Named) \in Nat
    BY SideFacts, FS_CardinalityType DEF SideOK, IdInv
<1>2. ASSUME chunkId' = chunkId,
             \A v \in Writers : wr'[v].uid = wr[v].uid /\ (wr'[v].state = "new" <=> wr[v].state = "new")
      PROVE  IdInv'
  <2>1. Named' = Named
      BY <1>2 DEF Named
  <2> QED BY <1>2, <2>1 DEF IdInv, Named
<1>3. ASSUME NEW w \in Writers, NEW magic \in Magics, WriteChunk(w, magic) PROVE IdInv'
  <2> DEFINE id == IF chunkId = MaxId THEN 0 ELSE chunkId + 1
             r == [state |-> "open", magic |-> magic, buf |-> 0, uid |-> id]
  <2>1. /\ wr[w].state = "new" /\ wr' = [wr EXCEPT ![w] = r]
        /\ chunkId' = IF chunkId = MaxId THEN chunkId ELSE chunkId + 1
      BY <1>3, Zenon DEF WriteChunk
  <2>2. r.state = "open" /\ r.uid = id
      OBVIOUS
  <2> HIDE DEF r
  <2>3. wr'[w] = r /\ \A v \in Writers : v # w => wr'[v] = wr[v]
      BY <1>1, <2>1
  <2>4. Named' = Named \cup {w} /\ w \notin Named
      BY <2>1, <2>2, <2>3 DEF Named
  <2>5. IsFiniteSet(Named') /\ Cardinality(Named') = Cardinality(Named) + 1
      BY <1>1, <2>4, FS_AddElement
  <2>6. Cardinality(Named') <= MaxId + 1
    <3>1. Named' \subseteq Writers
        BY <2>4 DEF Named
    <3>2. Cardinality(Named') <= Cardinality(Writers) /\ Cardinality(Writers) \in Nat
        BY <3>1, FS_Subset, FS_CardinalityType DEF EnoughIds
    <3> QED BY <1>1, <2>5, <3>2 DEF EnoughIds
  <2>7. \A v \in Named : /\ v \in Writers /\ v # w /\ wr'[v].uid = wr[v].uid /\ wr[v].uid \in Nat
                         /\ wr[v].uid <= chunkId
      BY <1>1, <2>3, <2>4 DEF Named, IdInv, WriterRecords
  <2>8. CASE chunkId = MaxId
    <3>1. chunkId' = MaxId /\ wr'[w].uid = 0
        BY <2>1, <2>2, <2>3, <2>8
    <3>2. \A v \in Named : wr[v].uid # 0
        BY <1>1, <2>5, <2>6 DEF IdInv
    <3>3. Cardinality(Named') > MaxId
        BY <1>1, <2>5, <2>8, <3>2 DEF IdInv
    <3>4. \A v \in Named' : wr'[v].uid <= chunkId'
        BY <1>1, <2>4, <2>7, <2>8, <3>1
    <3>5. \A v, u \in Named' : wr'[v].uid = wr'[u].uid => v = u
        BY <2>4, <2>7, <3>1, <3>2 DEF IdInv
    <3>6. w \in Named'
        BY <2>4
    <3> QED BY <2>5, <3>1, <3>3, <3>4, <3>5, <3>6 DEF IdInv
  <2>9. CASE chunkId # MaxId
    <3>1. chunkId' = chunkId + 1 /\ wr'[w].uid = chunkId + 1
        BY <2>1, <2>2, <2>3, <2>9
    <3>2. \A v \in Named : wr[v].uid # 0
        BY <2>9 DEF IdInv
    <3>3. Cardinality(Named') = chunkId'
        BY <2>5, <3>1, <3>2 DEF IdInv
    <3>4. \A v \in Named' : wr'[v].uid <= chunkId' /\ wr'[v].uid # 0
        BY <1>1, <2>4, <2>7, <3>1, <3>2
    <3>5. \A v, u \in Named' : wr'[v].uid = wr'[u].uid => v = u
        BY <1>1, <2>4, <2>7, <3>1 DEF IdInv
    <3> QED BY <2>5, <3>3, <3>4, <3>5 DEF IdInv
  <2> QED BY <2>8, <2>9
<1>4. CASE ReaderNext \/ UNCHANGED vars
  <2>1. chunkId' = chunkId /\ wr' = wr
      BY <1>4, ReaderLeaves DEF vars, wside
  <2> QED BY <1>2, <2>1
<1>5. CASE WriterNext
    BY <1>2, <1>3, <1>5, NamesKept
<1> QED BY <1>4, <1>5, TwoSides


-----------------------------------------------------------------------------
(* A place in the file and the place in a stream                           *)

\* Where the cell b ends, n bytes of the stream of w have gone by.
StreamAt(f, w, b, n) ==
    /\ \A j \in Of(f, w) : /\ j <= b => Upto(f, j) <= n
                           /\ j > b  => n <= f[j].at
    /\ \E j \in Of(f, w) : j <= b /\ Upto(f, j) = n

\* The cell off belongs to the piece that ends at b, after n bytes of its stream.
InPiece(f, w, b, off, n) ==
    \E i \in Of(f, w) : PieceEnd(f, i) = b /\ i <= off /\ f[i].at + (off - i) = n

LastBy(f, w, b) == \E j \in Of(f, w) : j <= b /\ f[j].last

LEMMA OfTypes ==
    ASSUME NEW f \in Seq(Cells), NEW w, NEW i \in Of(f, w)
    PROVE  /\ i \in Headers(f) /\ f[i].of = w /\ i \in Nat /\ 1 <= i
           /\ f[i].at \in Nat /\ f[i].size \in Nat /\ Upto(f, i) \in Nat /\ PieceEnd(f, i) \in Nat
           /\ PieceEnd(f, i) = i + f[i].size /\ Upto(f, i) = f[i].at + f[i].size
BY HeaderTypes DEF Of, PieceEnd, Upto

\* The bytes of a piece from there on.
LEMMA PieceContents ==
    ASSUME NEW f \in Seq(Cells), Pieces(f), NEW w, NEW b \in Nat, NEW off \in Nat, NEW n \in Nat,
           InPiece(f, w, b, off, n), NEW k \in Nat, 1 <= k, off + k <= b, off + k <= Len(f)
    PROVE  f[off + k] = Byte(w, n + k)
<1>1. PICK i \in Of(f, w) : PieceEnd(f, i) = b /\ i <= off /\ f[i].at + (off - i) = n
    BY DEF InPiece
<1>2. i \in Headers(f) /\ f[i].of = w /\ i \in Nat /\ f[i].at \in Nat
    BY OfTypes
<1>3. off + k \in (i + 1)..PieceEnd(f, i)
    BY <1>1, <1>2
<1>4. f[off + k] = Byte(f[i].of, f[i].at + ((off + k) - i))
    BY <1>2, <1>3 DEF Pieces, Payload
<1>5. f[i].at + ((off + k) - i) = n + k
  <2> DEFINE a == f[i].at
  <2>1. a \in Nat /\ a + (off - i) = n
      BY <1>1, <1>2
  <2> HIDE DEF a
  <2>2. a + ((off + k) - i) = n + k
      BY <1>2, <2>1
  <2> QED BY <2>2 DEF a
<1> QED BY <1>2, <1>4, <1>5

\* At its first piece a stream begins.
LEMMA FirstOfChunk ==
    ASSUME NEW f \in Seq(Cells), Pieces(f), NEW w, NEW c \in Of(f, w), \A j \in Of(f, w) : c <= j
    PROVE  /\ f[c].at = 0
           /\ StreamAt(f, w, PieceEnd(f, c), f[c].size)
           /\ InPiece(f, w, PieceEnd(f, c), c, 0)
<1>1. /\ c \in Headers(f) /\ f[c].of = w /\ c \in Nat /\ f[c].at \in Nat /\ f[c].size \in Nat
      /\ PieceEnd(f, c) = c + f[c].size /\ Upto(f, c) = f[c].at + f[c].size
    BY OfTypes
<1>2. f[c].at = 0
  <2> SUFFICES ASSUME f[c].at > 0 PROVE FALSE
      BY <1>1
  <2>1. PICK i \in Headers(f) : i < c /\ f[i].of = f[c].of
      BY <1>1 DEF Pieces, Gapless
  <2>2. i \in Of(f, w)
      BY <1>1, <2>1 DEF Of
  <2>3. i \in Nat /\ c <= i
      BY <2>2, OfTypes
  <2> QED BY <1>1, <2>1, <2>3
<1>3. ASSUME NEW j \in Of(f, w)
      PROVE  /\ j <= PieceEnd(f, c) => Upto(f, j) <= f[c].size
             /\ j > PieceEnd(f, c)  => f[c].size <= f[j].at
  <2>1. j \in Headers(f) /\ f[j].of = w /\ j \in Nat /\ c <= j /\ f[j].at \in Nat
      BY OfTypes
  <2>2. CASE j = c
      BY <1>1, <1>2, <2>2
  <2>3. CASE c < j
    <3>1. PieceEnd(f, c) < j /\ Upto(f, c) <= f[j].at
        BY <1>1, <2>1, <2>3 DEF Pieces, Layout, InOrder
    <3> QED BY <1>1, <1>2, <2>1, <3>1
  <2> QED BY <1>1, <2>1, <2>2, <2>3
<1>4. c <= PieceEnd(f, c) /\ Upto(f, c) = f[c].size /\ f[c].at + (c - c) = 0
  <2>1. \A x, y \in Nat : x <= x + y /\ 0 + y = y /\ 0 + (x - x) = 0
      OBVIOUS
  <2> QED BY <1>1, <1>2, <2>1, Zenon
<1>5. StreamAt(f, w, PieceEnd(f, c), f[c].size)
    BY <1>3, <1>4 DEF StreamAt
<1>6. InPiece(f, w, PieceEnd(f, c), c, 0)
    BY <1>1, <1>4 DEF InPiece
<1> QED BY <1>2, <1>5, <1>6

\* The next piece of a stream continues it ...
LEMMA NextOfChunk ==
    ASSUME NEW f \in Seq(Cells), Pieces(f), NEW w, NEW b \in Nat, NEW n \in Nat,
           StreamAt(f, w, b, n), b + 1 \in Of(f, w)
    PROVE  /\ f[b + 1].at = n
           /\ StreamAt(f, w, PieceEnd(f, b + 1), n + f[b + 1].size)
           /\ InPiece(f, w, PieceEnd(f, b + 1), b + 1, n)
<1> DEFINE c == b + 1
<1>1. /\ c \in Headers(f) /\ f[c].of = w /\ c \in Nat /\ f[c].at \in Nat /\ f[c].size \in Nat
      /\ PieceEnd(f, c) = c + f[c].size /\ Upto(f, c) = f[c].at + f[c].size /\ b < c
    BY OfTypes
<1>a. c = b + 1
    OBVIOUS
<1> HIDE DEF c
<1>2. f[c].at = n
  <2>1. n <= f[c].at
      BY <1>1, <1>a DEF StreamAt
  <2>2. CASE f[c].at > 0
    <3>1. PICK i \in Headers(f) : i < c /\ f[i].of = f[c].of /\ Upto(f, i) = f[c].at
        BY <1>1, <2>2 DEF Pieces, Gapless
    <3>2. i \in Of(f, w)
        BY <1>1, <3>1 DEF Of
    <3>3. i <= b
        BY <1>1, <1>a, <3>1, <3>2, OfTypes
    <3>4. Upto(f, i) <= n
        BY <3>2, <3>3 DEF StreamAt
    <3> QED BY <1>1, <2>1, <3>1, <3>4
  <2> QED BY <1>1, <2>1, <2>2
<1>3. ASSUME NEW j \in Of(f, w)
      PROVE  /\ j <= PieceEnd(f, c) => Upto(f, j) <= n + f[c].size
             /\ j > PieceEnd(f, c)  => n + f[c].size <= f[j].at
  <2>1. j \in Headers(f) /\ f[j].of = w /\ j \in Nat /\ f[j].at \in Nat /\ Upto(f, j) \in Nat
      BY OfTypes
  <2>2. CASE j = c
      BY <1>1, <1>2, <2>2
  <2>3. CASE c < j
    <3>1. PieceEnd(f, c) < j /\ Upto(f, c) <= f[j].at
        BY <1>1, <2>1, <2>3 DEF Pieces, Layout, InOrder
    <3> QED BY <1>1, <1>2, <2>1, <3>1
  <2>4. CASE j < c
    <3>1. j <= b
        BY <1>a, <1>1, <2>1, <2>4
    <3>2. Upto(f, j) <= n
        BY <3>1 DEF StreamAt
    <3> QED BY <1>1, <2>1, <2>4, <3>2
  <2> QED BY <1>1, <2>1, <2>2, <2>3, <2>4
<1>4. c <= PieceEnd(f, c) /\ Upto(f, c) = n + f[c].size /\ f[c].at + (c - c) = n /\ c \in Of(f, w)
    BY <1>1, <1>2, <1>a
<1>5. StreamAt(f, w, PieceEnd(f, c), n + f[c].size)
    BY <1>3, <1>4 DEF StreamAt
<1>6. InPiece(f, w, PieceEnd(f, c), c, n)
    BY <1>1, <1>4 DEF InPiece
<1> QED BY <1>2, <1>5, <1>6, <1>a

\* ... and a piece of another stream does not touch it.
LEMMA NextOfOther ==
    ASSUME NEW f \in Seq(Cells), Pieces(f), NEW w, NEW b \in Nat, NEW n \in Nat,
           StreamAt(f, w, b, n), b + 1 \in Headers(f), f[b + 1].of # w
    PROVE  StreamAt(f, w, PieceEnd(f, b + 1), n) /\ b < PieceEnd(f, b + 1)
<1> DEFINE c == b + 1
<1>1. c \in Headers(f) /\ f[c].of # w /\ c \in Nat /\ PieceEnd(f, c) \in Nat /\ c <= PieceEnd(f, c) /\ c = b + 1
    BY HeaderTypes
<1> HIDE DEF c
<1>2. ASSUME NEW j \in Of(f, w)
      PROVE  /\ j <= PieceEnd(f, c) => Upto(f, j) <= n
             /\ j > PieceEnd(f, c)  => n <= f[j].at
  <2>1. j \in Headers(f) /\ f[j].of = w /\ j \in Nat
      BY OfTypes
  <2>2. c < j => PieceEnd(f, c) < j
      BY <1>1, <2>1 DEF Pieces, Layout
  <2>3. j <= PieceEnd(f, c) => j <= b
      BY <1>1, <2>1, <2>2
  <2>4. j > PieceEnd(f, c) => j > b
      BY <1>1, <2>1
  <2> QED BY <2>3, <2>4 DEF StreamAt
<1>3. PICK j \in Of(f, w) : j <= b /\ Upto(f, j) = n
    BY DEF StreamAt
<1>4. j \in Nat /\ j <= PieceEnd(f, c) /\ b < PieceEnd(f, c)
    BY <1>1, <1>3, OfTypes
<1> QED BY <1>1, <1>2, <1>3, <1>4 DEF StreamAt

\* What a growing file keeps of all this: new pieces come behind the old ones.
LEMMA StreamGrows ==
    ASSUME NEW f \in Seq(Cells), NEW g \in Seq(Cells), Pieces(g), NEW w, NEW b \in Nat, NEW n \in Nat,
           StreamAt(f, w, b, n),
           \A j \in Of(f, w) : j \in Of(g, w) /\ g[j] = f[j],
           \A j \in Of(g, w) : j \notin Of(f, w) => b < j
    PROVE  StreamAt(g, w, b, n)
<1>1. \A j \in Of(f, w) : Upto(g, j) = Upto(f, j)
    BY DEF Upto
<1>2. PICK i \in Of(f, w) : i <= b /\ Upto(f, i) = n
    BY DEF StreamAt
<1>3. /\ i \in Of(g, w) /\ i \in Headers(g) /\ g[i].of = w /\ i \in Nat /\ Upto(g, i) = n
    BY <1>1, <1>2, OfTypes
<1>4. ASSUME NEW j \in Of(g, w)
      PROVE  (j <= b => Upto(g, j) <= n) /\ (j > b => n <= g[j].at)
  <2>1. CASE j \in Of(f, w)
      BY <1>1, <2>1 DEF StreamAt
  <2>2. CASE j \notin Of(f, w)
    <3>1. b < j /\ j \in Headers(g) /\ g[j].of = w /\ j \in Nat
        BY <2>2, OfTypes
    <3>2. i < j
        BY <1>2, <1>3, <3>1
    <3>3. n <= g[j].at
        BY <1>3, <3>1, <3>2 DEF Pieces, InOrder
    <3> QED BY <3>1, <3>3
  <2> QED BY <2>1, <2>2
<1> QED BY <1>2, <1>3, <1>4 DEF StreamAt


-----------------------------------------------------------------------------
(* The reader and the stream of its chunk                                  *)

\* What has been taken from the file: handed out, skipped or buffered.
Got == pos + Len(rd.buf)

Placed ==
    /\ wr[rd.chunk].state # "new" /\ rd.uid = wr[rd.chunk].uid /\ rd.magic = wr[rd.chunk].magic
    /\ StreamAt(file, rd.chunk, Boundary, Got + rd.unread)
    /\ rd.unread > 0 => InPiece(file, rd.chunk, Boundary, rd.off, Got)
    /\ \A k \in 1..Len(rd.buf) : rd.buf[k] = Byte(rd.chunk, pos + k)
    /\ rd.last => LastBy(file, rd.chunk, Boundary)

ReaderInv == rd # NoReader => pos <= given[rd.chunk] /\ (~damaged => Placed)

\* The step hands out the next n bytes of the stream, or moves over them.
Handed(n) ==
    /\ pos' = pos + n /\ pos + n <= given[rd.chunk]
    /\ \/ out' = <<>>
       \/ /\ out' \in Seq(Cells) /\ Len(out') = n
          /\ \A k \in 1..n : out'[k] = Byte(rd.chunk, pos + k)

\* A reader is nowhere beyond what the writer of its chunk has taken.
LEMMA PlaceFacts ==
    ASSUME IInv, ReaderInv, rd # NoReader, ~damaged
    PROVE  /\ Placed /\ rd.chunk \in Writers /\ given[rd.chunk] \in Nat
           /\ rd.unread \in Nat /\ rd.off \in Nat /\ rd.buf \in Seq(Cells) /\ Len(rd.buf) \in Nat
           /\ pos \in Nat /\ rcall.left \in Nat /\ rd.last \in BOOLEAN
           /\ Got \in Nat /\ Got + rd.unread \in Nat /\ Boundary \in Nat
           /\ Got + rd.unread <= given[rd.chunk]
           /\ file \in Seq(Cells) /\ Len(file) \in Nat /\ Pieces(file)
           /\ BufSize \in Nat \ {0}
           /\ rd \in ReaderRecords
<1>1. /\ rd.chunk \in Writers /\ rd \in ReaderRecords /\ pos \in Nat /\ rcall.left \in Nat
      /\ file \in Seq(Cells) /\ Len(file) \in Nat /\ FileOK /\ Pieces(file) /\ Placed
      /\ given \in [Writers -> Nat]
    BY LenProperties DEF IInv, TypeOK, AtBoundary, ReaderRecords, FileInv, FileOK, ReaderInv
<1>2. /\ rd.unread \in Nat /\ rd.off \in Nat /\ rd.buf \in Seq(Cells) /\ Len(rd.buf) \in Nat
      /\ rd.last \in BOOLEAN
    BY <1>1, LenProperties DEF ReaderRecords
<1>3. Got \in Nat /\ Got + rd.unread \in Nat /\ Boundary \in Nat
    BY <1>1, <1>2 DEF Got, Boundary
<1>4. Got + rd.unread <= given[rd.chunk]
  <2>1. PICK j \in Of(file, rd.chunk) : Upto(file, j) = Got + rd.unread
      BY <1>1 DEF Placed, StreamAt
  <2>2. Upto(file, j) <= given[rd.chunk]
      BY <1>1 DEF FileOK, Accounts
  <2> QED BY <2>1, <2>2
<1>5. BufSize \in Nat \ {0} /\ given[rd.chunk] \in Nat
    BY <1>1, SizeAssumption
<1> QED BY <1>1, <1>2, <1>3, <1>4, <1>5

\* The reader keeps its place when its position and its buffer, or its offset,
\* move together.
LEMMA PlaceKept ==
    ASSUME IInv, ReaderInv, rd # NoReader, ~damaged, UNCHANGED <<file, wr, given, damaged>>,
           rd'.chunk = rd.chunk, rd'.uid = rd.uid, rd'.magic = rd.magic, rd'.last = rd.last,
           Boundary' = Boundary, Got' + rd'.unread = Got + rd.unread, pos' <= given[rd.chunk],
           rd'.unread > 0 => InPiece(file, rd.chunk, Boundary, rd'.off, Got'),
           \A k \in 1..Len(rd'.buf) : rd'.buf[k] = Byte(rd.chunk, pos' + k)
    PROVE  ReaderInv'
<1>1. Placed
    BY PlaceFacts
<1>2. Placed'
    BY <1>1 DEF Placed
<1> QED BY <1>2 DEF ReaderInv

LEMMA StreamTakeBuffered ==
    ASSUME IInv, ReaderInv, TakeBuffered
    PROVE  ReaderInv' /\ rd'.chunk = rd.chunk /\ \E n \in Nat : Handed(n)
<1> DEFINE n == Min({rcall.left, Len(rd.buf)})
<1>1. rcall.op # "none" /\ ~damaged
    BY DEF TakeBuffered, Reading
<1>2. rd # NoReader
    BY <1>1, ReadingFacts
<1>3. n \in Nat /\ n <= Len(rd.buf)
    BY <1>1, <1>2, PlaceFacts, MinOfTwo
<1>4. /\ rd' = [rd EXCEPT !.buf = SubSeq(@, n + 1, Len(@))]
      /\ pos' = pos + n
      /\ out' = IF rcall.op = "read" THEN SubSeq(rd.buf, 1, n) ELSE <<>>
      /\ UNCHANGED <<file, wr, given, damaged>>
    BY Zenon DEF TakeBuffered, Take, wside, fault
<1> HIDE DEF n
<1>5. /\ rd.buf \in Seq(Cells) /\ Len(rd.buf) \in Nat /\ pos \in Nat
      /\ \A k \in 1..Len(rd.buf) : rd.buf[k] \in Cells /\ rd.buf[k] = Byte(rd.chunk, pos + k)
    BY <1>1, <1>2, PlaceFacts, ElementOfSeq DEF Placed
<1>6. /\ Len(SubSeq(rd.buf, n + 1, Len(rd.buf))) = Len(rd.buf) - n
      /\ \A k \in 1..(Len(rd.buf) - n) : SubSeq(rd.buf, n + 1, Len(rd.buf))[k] = rd.buf[n + k]
  <2>1. \A i \in (n + 1)..Len(rd.buf) : rd.buf[i] \in Cells
      BY <1>3, <1>5
  <2>2. /\ Len(SubSeq(rd.buf, n + 1, Len(rd.buf))) =
             IF n + 1 <= Len(rd.buf) THEN Len(rd.buf) - (n + 1) + 1 ELSE 0
        /\ \A i \in 1..(Len(rd.buf) - (n + 1) + 1) :
              SubSeq(rd.buf, n + 1, Len(rd.buf))[i] = rd.buf[(n + 1) + i - 1]
      BY <1>3, <1>5, <2>1, SubSeqProperties
  <2> QED BY <1>3, <1>5, <2>2
<1>7. /\ SubSeq(rd.buf, 1, n) \in Seq(Cells) /\ Len(SubSeq(rd.buf, 1, n)) = n
      /\ \A k \in 1..n : SubSeq(rd.buf, 1, n)[k] = rd.buf[k]
  <2>1. \A i \in 1..n : rd.buf[i] \in Cells
      BY <1>3, <1>5
  <2>2. /\ SubSeq(rd.buf, 1, n) \in Seq(Cells)
        /\ Len(SubSeq(rd.buf, 1, n)) = IF 1 <= n THEN n - 1 + 1 ELSE 0
        /\ \A i \in 1..(n - 1 + 1) : SubSeq(rd.buf, 1, n)[i] = rd.buf[1 + i - 1]
      BY <1>3, <1>5, <2>1, SubSeqProperties
  <2> QED BY <1>3, <2>2
<1>8. /\ rd'.chunk = rd.chunk /\ rd'.uid = rd.uid /\ rd'.magic = rd.magic /\ rd'.last = rd.last
      /\ rd'.unread = rd.unread /\ rd'.off = rd.off
      /\ rd'.buf = SubSeq(rd.buf, n + 1, Len(rd.buf))
    BY <1>1, <1>2, <1>4, PlaceFacts DEF ReaderRecords
<1>9. Len(rd'.buf) = Len(rd.buf) - n /\ pos' + Len(rd'.buf) = pos + Len(rd.buf)
    BY <1>3, <1>4, <1>5, <1>6, <1>8
<1>10. Got' = Got /\ Boundary' = Boundary /\ Got' + rd'.unread = Got + rd.unread
    BY <1>8, <1>9 DEF Got, Boundary
<1>11. pos + n <= given[rd.chunk]
  <2>1. /\ rd.unread \in Nat /\ given[rd.chunk] \in Nat
        /\ pos + Len(rd.buf) + rd.unread <= given[rd.chunk]
      BY <1>1, <1>2, PlaceFacts, Zenon DEF Got
  <2> QED BY <1>3, <1>5, <2>1
<1>12. \A k \in 1..Len(rd'.buf) : rd'.buf[k] = Byte(rd.chunk, pos' + k)
  <2> SUFFICES ASSUME NEW k \in 1..(Len(rd.buf) - n) PROVE rd'.buf[k] = Byte(rd.chunk, pos' + k)
      BY <1>9
  <2>1. n + k \in 1..Len(rd.buf) /\ (pos + n) + k = pos + (n + k)
      BY <1>3, <1>5
  <2>2. rd'.buf[k] = rd.buf[n + k]
      BY <1>6, <1>8
  <2> QED BY <1>4, <1>5, <2>1, <2>2
<1>13. rd.unread > 0 => InPiece(file, rd.chunk, Boundary, rd.off, Got)
    BY <1>1, <1>2, PlaceFacts DEF Placed
<1>14. ReaderInv'
    BY <1>1, <1>2, <1>4, <1>8, <1>10, <1>11, <1>12, <1>13, PlaceKept
<1>15. Handed(n)
  <2>1. \A k \in 1..n : SubSeq(rd.buf, 1, n)[k] = Byte(rd.chunk, pos + k)
      BY <1>3, <1>5, <1>7
  <2> QED BY <1>4, <1>7, <1>11, <2>1 DEF Handed
<1> QED BY <1>3, <1>8, <1>14, <1>15


LEMMA StreamTakeDirect ==
    ASSUME IInv, ReaderInv, TakeDirect
    PROVE  ReaderInv' /\ rd'.chunk = rd.chunk /\ \E n \in Nat : Handed(n)
<1>1. rcall.op # "none" /\ ~damaged
    BY DEF TakeDirect, Reading
<1>2. rd # NoReader
    BY <1>1, ReadingFacts
<1>3. /\ rd.buf = <<>> /\ rd.unread \in 1..rcall.left /\ Readable(rd.off, rd.unread)
      /\ rd' = [rd EXCEPT !.off = @ + rd.unread, !.unread = 0]
      /\ pos' = pos + rd.unread /\ out' = Contents(rd.off, rd.unread)
      /\ UNCHANGED <<file, wr, given, damaged>>
    BY Zenon DEF TakeDirect, Take, Drained, wside, fault
<1>4. /\ rd.unread \in Nat /\ rd.unread > 0 /\ rd.off \in Nat /\ pos \in Nat /\ Len(rd.buf) = 0
      /\ Got = pos /\ Boundary = rd.off + rd.unread /\ Boundary \in Nat
      /\ file \in Seq(Cells) /\ Len(file) \in Nat /\ Pieces(file)
      /\ InPiece(file, rd.chunk, Boundary, rd.off, pos)
      /\ pos + rd.unread <= given[rd.chunk]
  <2>1. Len(rd.buf) = 0
      BY <1>3
  <2>2. rd.unread \in Nat /\ rd.unread > 0 /\ pos \in Nat
      BY <1>1, <1>2, <1>3, PlaceFacts
  <2>3. Got = pos
      BY <2>1, <2>2 DEF Got
  <2>4. InPiece(file, rd.chunk, Boundary, rd.off, Got)
      BY <1>1, <1>2, <2>2, PlaceFacts DEF Placed
  <2> QED BY <1>1, <1>2, <2>1, <2>2, <2>3, <2>4, PlaceFacts DEF Boundary
<1>5. /\ rd'.chunk = rd.chunk /\ rd'.uid = rd.uid /\ rd'.magic = rd.magic /\ rd'.last = rd.last
      /\ rd'.unread = 0 /\ rd'.off = rd.off + rd.unread /\ rd'.buf = rd.buf
    BY <1>1, <1>2, <1>3, <1>4, PlaceFacts DEF ReaderRecords
<1>6. Boundary' = Boundary /\ Got' + rd'.unread = Got + rd.unread
    BY <1>3, <1>4, <1>5 DEF Got, Boundary
<1>7. /\ out' \in Seq(Cells) /\ Len(out') = rd.unread
      /\ \A k \in 1..rd.unread : out'[k] = file[rd.off + k]
    BY <1>3, <1>4, ContentsCells
<1>8. ASSUME NEW k \in 1..rd.unread PROVE out'[k] = Byte(rd.chunk, pos + k)
  <2>1. k \in Nat /\ 1 <= k /\ rd.off + k <= Boundary /\ rd.off + k <= Len(file)
      BY <1>3, <1>4 DEF Readable
  <2>2. file[rd.off + k] = Byte(rd.chunk, pos + k)
      BY <1>4, <2>1, PieceContents
  <2> QED BY <1>7, <2>2
<1>9. ReaderInv'
    BY <1>1, <1>2, <1>3, <1>4, <1>5, <1>6, PlaceKept
<1> QED BY <1>3, <1>4, <1>5, <1>7, <1>8, <1>9 DEF Handed

LEMMA StreamFillBuffer ==
    ASSUME IInv, ReaderInv, FillBuffer
    PROVE  ReaderInv' /\ rd'.chunk = rd.chunk /\ \E n \in Nat : Handed(n)
<1> DEFINE n == Min({rd.unread, BufSize})
<1>1. rcall.op # "none" /\ ~damaged
    BY DEF FillBuffer, Reading
<1>2. rd # NoReader
    BY <1>1, ReadingFacts
<1>3. n \in Nat /\ n <= rd.unread
    BY <1>1, <1>2, PlaceFacts, MinOfTwo
<1>4. /\ rd.buf = <<>> /\ rd.unread > rcall.left /\ Readable(rd.off, n)
      /\ rd' = [rd EXCEPT !.buf = Contents(rd.off, n), !.off = @ + n, !.unread = @ - n]
      /\ pos' = pos /\ out' = <<>>
      /\ UNCHANGED <<file, wr, given, damaged>>
    BY Zenon DEF FillBuffer, Drained, wside, fault
<1> HIDE DEF n
<1>5. /\ rd.unread \in Nat /\ rd.unread > 0 /\ rd.off \in Nat /\ pos \in Nat /\ Len(rd.buf) = 0
      /\ Got = pos /\ Boundary = rd.off + rd.unread /\ Boundary \in Nat
      /\ file \in Seq(Cells) /\ Len(file) \in Nat /\ Pieces(file)
      /\ InPiece(file, rd.chunk, Boundary, rd.off, pos)
      /\ given[rd.chunk] \in Nat /\ pos + rd.unread <= given[rd.chunk]
  <2>1. Len(rd.buf) = 0
      BY <1>4
  <2>2. rd.unread \in Nat /\ rd.unread > 0 /\ pos \in Nat
      BY <1>1, <1>2, <1>4, PlaceFacts
  <2>3. Got = pos
      BY <2>1, <2>2 DEF Got
  <2>4. InPiece(file, rd.chunk, Boundary, rd.off, Got)
      BY <1>1, <1>2, <2>2, PlaceFacts DEF Placed
  <2> QED BY <1>1, <1>2, <2>1, <2>2, <2>3, <2>4, PlaceFacts DEF Boundary
<1>6. /\ Contents(rd.off, n) \in Seq(Cells) /\ Len(Contents(rd.off, n)) = n
      /\ \A k \in 1..n : Contents(rd.off, n)[k] = file[rd.off + k]
    BY <1>3, <1>4, <1>5, ContentsCells
<1>7. /\ rd'.chunk = rd.chunk /\ rd'.uid = rd.uid /\ rd'.magic = rd.magic /\ rd'.last = rd.last
      /\ rd'.unread = rd.unread - n /\ rd'.off = rd.off + n /\ rd'.buf = Contents(rd.off, n)
    BY <1>1, <1>2, <1>4, PlaceFacts DEF ReaderRecords
<1>8. Got' = pos + n /\ Boundary' = Boundary /\ Got' + rd'.unread = Got + rd.unread /\ pos' <= given[rd.chunk]
    BY <1>3, <1>4, <1>5, <1>6, <1>7 DEF Got, Boundary
<1>9. InPiece(file, rd.chunk, Boundary, rd'.off, Got')
  <2>1. PICK i \in Of(file, rd.chunk) :
            PieceEnd(file, i) = Boundary /\ i <= rd.off /\ file[i].at + (rd.off - i) = pos
      BY <1>5 DEF InPiece
  <2> DEFINE a == file[i].at
  <2>2. i \in Nat /\ a \in Nat /\ a + (rd.off - i) = pos
      BY <1>5, <2>1, OfTypes
  <2> HIDE DEF a
  <2>3. i <= rd.off + n /\ a + ((rd.off + n) - i) = pos + n
      BY <1>3, <1>5, <2>1, <2>2
  <2> QED BY <1>7, <1>8, <2>1, <2>3 DEF InPiece, a
<1>10. ASSUME NEW k \in 1..n PROVE Contents(rd.off, n)[k] = Byte(rd.chunk, pos + k)
  <2>1. k \in Nat /\ 1 <= k /\ rd.off + k <= Boundary /\ rd.off + k <= Len(file)
      BY <1>3, <1>4, <1>5 DEF Readable
  <2>2. file[rd.off + k] = Byte(rd.chunk, pos + k)
      BY <1>5, <2>1, PieceContents
  <2> QED BY <1>6, <2>2
<1>11. ReaderInv'
    BY <1>1, <1>2, <1>4, <1>6, <1>7, <1>8, <1>9, <1>10, PlaceKept
<1>12. Handed(0)
    BY <1>4, <1>5 DEF Handed
<1> QED BY <1>7, <1>11, <1>12

LEMMA StreamSkipUnread ==
    ASSUME IInv, ReaderInv, SkipUnread
    PROVE  ReaderInv' /\ rd'.chunk = rd.chunk /\ \E n \in Nat : Handed(n)
<1> DEFINE n == Min({rd.unread, rcall.left})
<1>1. rcall.op # "none" /\ ~damaged
    BY DEF SkipUnread, Reading
<1>2. rd # NoReader
    BY <1>1, ReadingFacts
<1>3. n \in Nat /\ n <= rd.unread
    BY <1>1, <1>2, PlaceFacts, MinOfTwo
<1>4. /\ rd.buf = <<>> /\ rd.unread > 0
      /\ rd' = [rd EXCEPT !.off = @ + n, !.unread = @ - n]
      /\ pos' = pos + n /\ out' = <<>>
      /\ UNCHANGED <<file, wr, given, damaged>>
    BY Zenon DEF SkipUnread, Take, Drained, wside, fault
<1> HIDE DEF n
<1>5. /\ rd.unread \in Nat /\ rd.off \in Nat /\ pos \in Nat /\ Len(rd.buf) = 0
      /\ Got = pos /\ Boundary = rd.off + rd.unread /\ Boundary \in Nat /\ file \in Seq(Cells)
      /\ InPiece(file, rd.chunk, Boundary, rd.off, pos)
      /\ given[rd.chunk] \in Nat /\ pos + rd.unread <= given[rd.chunk]
  <2>1. Len(rd.buf) = 0
      BY <1>4
  <2>2. rd.unread \in Nat /\ rd.unread > 0 /\ pos \in Nat
      BY <1>1, <1>2, <1>4, PlaceFacts
  <2>3. Got = pos
      BY <2>1, <2>2 DEF Got
  <2>4. InPiece(file, rd.chunk, Boundary, rd.off, Got)
      BY <1>1, <1>2, <2>2, PlaceFacts DEF Placed
  <2> QED BY <1>1, <1>2, <2>1, <2>2, <2>3, <2>4, PlaceFacts DEF Boundary
<1>6. /\ rd'.chunk = rd.chunk /\ rd'.uid = rd.uid /\ rd'.magic = rd.magic /\ rd'.last = rd.last
      /\ rd'.unread = rd.unread - n /\ rd'.off = rd.off + n /\ rd'.buf = rd.buf
    BY <1>1, <1>2, <1>4, PlaceFacts DEF ReaderRecords
<1>7. Got' = pos + n /\ Boundary' = Boundary /\ Got' + rd'.unread = Got + rd.unread /\ pos' <= given[rd.chunk]
  <2>1. Got' = pos' + Len(rd'.buf) /\ Boundary' = rd'.off + rd'.unread
      BY DEF Got, Boundary
  <2>2. Len(rd'.buf) = 0
      BY <1>5, <1>6
  <2>3. pos' = pos + n
      BY <1>4
  <2> QED BY <1>3, <1>5, <1>6, <2>1, <2>2, <2>3
<1>8. InPiece(file, rd.chunk, Boundary, rd'.off, Got')
  <2>1. PICK i \in Of(file, rd.chunk) :
            PieceEnd(file, i) = Boundary /\ i <= rd.off /\ file[i].at + (rd.off - i) = pos
      BY <1>5 DEF InPiece
  <2> DEFINE a == file[i].at
  <2>2. i \in Nat /\ a \in Nat /\ a + (rd.off - i) = pos
      BY <1>5, <2>1, OfTypes
  <2> HIDE DEF a
  <2>3. i <= rd.off + n /\ a + ((rd.off + n) - i) = pos + n
      BY <1>3, <1>5, <2>1, <2>2
  <2> QED BY <1>6, <1>7, <2>1, <2>3 DEF InPiece, a
<1>9. ReaderInv'
    BY <1>1, <1>2, <1>4, <1>5, <1>6, <1>7, <1>8, PlaceKept
<1>10. Handed(n)
    BY <1>4, <1>7 DEF Handed
<1> QED BY <1>3, <1>6, <1>9, <1>10

\* The header that fits is that of a chunk of this identifier: of this chunk.
LEMMA StreamNextHeader ==
    ASSUME IInv, IdInv, ReaderInv, NextHeader
    PROVE  ReaderInv' /\ rd'.chunk = rd.chunk /\ \E n \in Nat : Handed(n)
<1> DEFINE c == rd.off + 1
           h == file[rd.off + 1]
<1>1. rcall.op # "none" /\ ~damaged
    BY DEF NextHeader, Reading
<1>2. rd # NoReader
    BY <1>1, ReadingFacts
<1>3. /\ rd.buf = <<>> /\ rd.unread = 0 /\ Readable(rd.off, 1)
      /\ rd' = IF Fits(h) THEN [rd EXCEPT !.off = @ + 1, !.unread = h.size, !.last = h.last] ELSE Pass(h)
      /\ pos' = pos /\ out' = <<>>
      /\ UNCHANGED <<file, wr, given, damaged>>
    BY Zenon DEF NextHeader, Drained, wside, fault
<1>4. /\ rd.off \in Nat /\ pos \in Nat /\ Len(rd.buf) = 0 /\ Got = pos /\ Boundary = rd.off
      /\ file \in Seq(Cells) /\ Len(file) \in Nat /\ Pieces(file) /\ rd.off < Len(file)
      /\ given[rd.chunk] \in Nat /\ pos <= given[rd.chunk] /\ Placed /\ rd.chunk \in Writers
      /\ rd \in ReaderRecords
      /\ StreamAt(file, rd.chunk, rd.off, pos)
  <2>1. Len(rd.buf) = 0
      BY <1>3
  <2>2. /\ rd.off \in Nat /\ pos \in Nat /\ given[rd.chunk] \in Nat /\ Placed /\ rd.chunk \in Writers
        /\ rd \in ReaderRecords /\ file \in Seq(Cells) /\ Len(file) \in Nat /\ Pieces(file)
        /\ Got + rd.unread <= given[rd.chunk]
      BY <1>1, <1>2, PlaceFacts
  <2>3. Got = pos /\ Boundary = rd.off /\ Got + rd.unread = pos
      BY <1>3, <2>1, <2>2 DEF Got, Boundary
  <2>4. StreamAt(file, rd.chunk, rd.off, pos)
      BY <2>2, <2>3 DEF Placed
  <2>5. rd.off < Len(file)
      BY <1>3, <2>2 DEF Readable
  <2> QED BY <2>1, <2>2, <2>3, <2>4, <2>5
<1>5. c \in Headers(file)
  <2>1. PICK i \in Headers(file) : PieceEnd(file, i) = Boundary
      BY <1>1, <1>2 DEF IInv, AtBoundary
  <2> QED BY <1>4, <2>1, HeaderAt
<1>6. /\ h.of \in Writers /\ h.size \in Nat /\ h.last \in BOOLEAN
      /\ PieceEnd(file, c) = c + h.size /\ c \in Nat
    BY <1>4, <1>5, HeaderTypes DEF PieceEnd
<1>7. /\ wr[h.of].state # "new" /\ h.uid = wr[h.of].uid /\ h.magic = wr[h.of].magic
  <2>1. c \in Of(file, h.of) /\ Signed(h.of)
      BY <1>1, <1>5, <1>6 DEF Of, IInv, FileInv, FileOK
  <2> QED BY <2>1 DEF Signed
<1>8. Fits(h) <=> h.of = rd.chunk
  <2>1. /\ wr[rd.chunk].state # "new" /\ rd.uid = wr[rd.chunk].uid /\ rd.magic = wr[rd.chunk].magic
      BY <1>4 DEF Placed
  <2>2. h.of \in Named /\ rd.chunk \in Named
      BY <1>4, <1>6, <1>7, <2>1 DEF Named
  <2> QED BY <1>7, <2>1, <2>2 DEF Fits, IdInv
<1> HIDE DEF h
<1>9. CASE h.of = rd.chunk
  <2>1. /\ rd'.chunk = rd.chunk /\ rd'.uid = rd.uid /\ rd'.magic = rd.magic
        /\ rd'.unread = h.size /\ rd'.off = c /\ rd'.buf = rd.buf /\ rd'.last = h.last
      BY <1>3, <1>4, <1>8, <1>9 DEF ReaderRecords
  <2>2. rd.off + 1 \in Of(file, rd.chunk)
      BY <1>5, <1>9 DEF Of, h
  <2>3. /\ StreamAt(file, rd.chunk, PieceEnd(file, rd.off + 1), pos + file[rd.off + 1].size)
        /\ InPiece(file, rd.chunk, PieceEnd(file, rd.off + 1), rd.off + 1, pos)
      BY <1>4, <2>2, NextOfChunk
  <2>4. Boundary' = PieceEnd(file, c) /\ Got' = pos /\ Got' + rd'.unread = pos + h.size
      BY <1>3, <1>4, <1>6, <2>1 DEF Boundary, Got
  <2>5. StreamAt(file, rd.chunk, Boundary', Got' + rd'.unread) /\ InPiece(file, rd.chunk, Boundary', rd'.off, Got')
      BY <2>1, <2>3, <2>4 DEF h
  <2>6. rd'.last => LastBy(file, rd.chunk, Boundary')
    <3>1. c <= PieceEnd(file, c)
        BY <1>6
    <3> QED BY <2>1, <2>2, <2>4, <3>1 DEF LastBy, h
  <2>7. Placed'
      BY <1>3, <1>4, <2>1, <2>5, <2>6 DEF Placed
  <2>8. ReaderInv'
      BY <1>3, <1>4, <2>1, <2>7 DEF ReaderInv
  <2>9. Handed(0)
      BY <1>3, <1>4 DEF Handed
  <2> QED BY <2>1, <2>8, <2>9
<1>10. CASE h.of # rd.chunk
  <2>1. /\ rd'.chunk = rd.chunk /\ rd'.uid = rd.uid /\ rd'.magic = rd.magic
        /\ rd'.unread = 0 /\ rd'.off = PieceEnd(file, c) /\ rd'.buf = rd.buf /\ rd'.last = rd.last
      BY <1>3, <1>4, <1>6, <1>8, <1>10 DEF ReaderRecords, Pass
  <2>2. StreamAt(file, rd.chunk, PieceEnd(file, c), pos) /\ rd.off < PieceEnd(file, c)
      BY <1>4, <1>5, <1>10, NextOfOther DEF h
  <2>3. Boundary' = PieceEnd(file, c) /\ Got' = pos /\ Got' + rd'.unread = pos
    <3>1. PieceEnd(file, c) \in Nat
        BY <1>6
    <3> QED BY <1>3, <1>4, <2>1, <3>1 DEF Boundary, Got
  <2>4. rd'.last => LastBy(file, rd.chunk, Boundary')
    <3>1. ASSUME rd.last PROVE LastBy(file, rd.chunk, PieceEnd(file, c))
      <4>1. PICK j \in Of(file, rd.chunk) : j <= rd.off /\ file[j].last
          BY <1>4, <3>1 DEF Placed, LastBy
      <4>2. j <= PieceEnd(file, c)
          BY <1>4, <1>6, <2>2, <4>1, OfTypes
      <4> QED BY <4>1, <4>2 DEF LastBy
    <3> QED BY <2>1, <2>3, <3>1
  <2>5. StreamAt(file, rd.chunk, Boundary', Got' + rd'.unread)
      BY <2>2, <2>3
  <2>6. Placed'
      BY <1>3, <1>4, <2>1, <2>4, <2>5 DEF Placed
  <2>7. ReaderInv'
      BY <1>3, <1>4, <2>1, <2>6 DEF ReaderInv
  <2>8. Handed(0)
      BY <1>3, <1>4 DEF Handed
  <2> QED BY <2>1, <2>7, <2>8
<1> QED BY <1>9, <1>10


-----------------------------------------------------------------------------
(* The other steps of the reader                                           *)

LEMMA StreamReturn ==
    ASSUME IInv, ReaderInv, ReadEnd \/ ReadShort \/ ReadEof \/ PreadFails
    PROVE  ReaderInv' /\ rd'.chunk = rd.chunk /\ \E n \in Nat : Handed(n)
<1>1. /\ rcall.op # "none" /\ UNCHANGED <<file, wr, given, damaged, rd, pos>> /\ out' = <<>>
    BY DEF ReadEnd, ReadShort, ReadEof, PreadFails, ReadReturn, Reading, wside, fault
<1>2. rd # NoReader /\ pos \in Nat
    BY <1>1, ReadingFacts
<1>3. pos <= given[rd.chunk]
    BY <1>2 DEF ReaderInv
<1>4. Handed(0)
    BY <1>1, <1>2, <1>3 DEF Handed
<1>5. ReaderInv'
    BY <1>1 DEF ReaderInv, Placed, Got, Boundary
<1> QED BY <1>1, <1>4, <1>5

LEMMA StreamReadStep ==
    ASSUME IInv, IdInv, ReaderInv, ReadStep
    PROVE  ReaderInv' /\ rd'.chunk = rd.chunk /\ \E n \in Nat : Handed(n)
BY StreamTakeBuffered, StreamTakeDirect, StreamFillBuffer, StreamSkipUnread, StreamNextHeader,
   StreamReturn DEF ReadStep, ReadOn

\* The first header that fits begins its stream: the chunk's others fit too.
LEMMA StreamOpen ==
    ASSUME IInv, NEW U, NEW M, OpenReader(U, M)
    PROVE  ReaderInv' /\ rd = NoReader /\ rd'.chunk \in Writers /\ pos' = 0 /\ out' = <<>>
<1> DEFINE c == Min(Matching(U, M)) + 1
<1>1. /\ rd = NoReader /\ ~damaged /\ Matching(U, M) # {}
      /\ rd' = [chunk |-> file[c].of, uid |-> file[c].uid, magic |-> file[c].magic,
                unread |-> file[c].size, buf |-> <<>>, off |-> c, last |-> FALSE]
      /\ pos' = 0 /\ out' = <<>> /\ UNCHANGED <<file, wr, given, damaged>>
    BY Zenon DEF OpenReader, wside, fault
<1>2. file \in Seq(Cells) /\ Pieces(file) /\ FileOK /\ given \in [Writers -> Nat]
    BY <1>1 DEF IInv, TypeOK, FileInv, FileOK
<1>3. /\ c \in Headers(file) /\ file[c].uid \in U /\ file[c].magic \in M
      /\ \A i \in Headers(file) : file[i].uid \in U /\ file[i].magic \in M => c <= i
    BY <1>1, <1>2, Found
<1> HIDE DEF c
<1> DEFINE w == file[c].of
<1>4. w \in Writers /\ c \in Of(file, w) /\ c \in Nat /\ file[c].size \in Nat /\ PieceEnd(file, c) = c + file[c].size
    BY <1>2, <1>3, HeaderTypes DEF Of, PieceEnd
<1>5. Signed(w) /\ given[w] \in Nat
    BY <1>2, <1>4 DEF FileOK
<1>6. \A j \in Of(file, w) : c <= j
  <2> SUFFICES ASSUME NEW j \in Of(file, w) PROVE c <= j
      OBVIOUS
  <2>1. file[j].uid = file[c].uid /\ file[j].magic = file[c].magic
      BY <1>4, <1>5 DEF Signed
  <2> QED BY <1>3, <2>1 DEF Of
<1> HIDE DEF w
<1>7. StreamAt(file, w, PieceEnd(file, c), file[c].size) /\ InPiece(file, w, PieceEnd(file, c), c, 0)
    BY <1>2, <1>4, <1>6, FirstOfChunk
<1>8. /\ rd'.chunk = w /\ rd'.uid = file[c].uid /\ rd'.magic = file[c].magic
      /\ rd'.unread = file[c].size /\ rd'.buf = <<>> /\ rd'.off = c /\ rd'.last = FALSE
    BY <1>1 DEF w
<1>9. Len(rd'.buf) = 0 /\ Got' = 0 /\ Boundary' = PieceEnd(file, c) /\ Got' + rd'.unread = file[c].size
  <2>1. Len(rd'.buf) = 0
      BY <1>8
  <2>2. Got' = 0
      BY <1>1, <2>1 DEF Got
  <2> QED BY <1>4, <1>8, <2>1, <2>2 DEF Boundary
<1>10. wr[w].state # "new" /\ file[c].uid = wr[w].uid /\ file[c].magic = wr[w].magic
    BY <1>4, <1>5 DEF Signed
<1>11. Placed'
    BY <1>1, <1>7, <1>8, <1>9, <1>10 DEF Placed
<1>12. pos' <= given'[rd'.chunk]
    BY <1>1, <1>5, <1>8
<1> QED BY <1>1, <1>4, <1>8, <1>11, <1>12 DEF ReaderInv

LEMMA ReaderReaderInv ==
    ASSUME IInv, IdInv, ReaderInv, ReaderNext
    PROVE  ReaderInv'
<1>1. CASE ReadStep
    BY <1>1, StreamReadStep
<1>2. CASE \E U, M : OpenReader(U, M)
    BY <1>2, StreamOpen
<1>3. CASE \E op \in {"read", "skip"}, n \in ReadSizes : ReadBegin(op, n)
  <2>1. UNCHANGED <<file, wr, given, damaged, rd, pos>>
      BY <1>3 DEF ReadBegin, wside, fault
  <2> QED BY <2>1 DEF ReaderInv, Placed, Got, Boundary
<1>4. CASE ReaderClose
    BY <1>4 DEF ReaderClose, ReaderInv, NoReader
<1> QED BY <1>1, <1>2, <1>3, <1>4, Zenon DEF ReaderNext, FindChunk, ReadChunk, ReadChunkOfType

-----------------------------------------------------------------------------
(* The steps of the writers do not disturb the reader                      *)

\* A writer accepts bytes and gives none back.
LEMMA WriterGiven ==
    ASSUME IInv, WriterNext
    PROVE  \/ given' = given
           \/ \E w \in Writers : \E n \in Nat : given' = [given EXCEPT ![w] = @ + n]
<1>1. CASE WriteCopy
  <2> DEFINE n == Min({BufSize - wr[call.w].buf, call.left})
  <2>1. given' = [given EXCEPT ![call.w] = @ + n] /\ call.op = "write"
      BY <1>1, Zenon DEF WriteCopy
  <2>2. /\ call.w \in Writers /\ wr[call.w].buf \in Nat /\ wr[call.w].buf <= BufSize
        /\ call.left \in Nat /\ BufSize \in Nat
      BY <2>1, SideFacts
  <2>3. n \in Nat
    <3>1. BufSize - wr[call.w].buf \in Nat
        BY <2>2
    <3> QED BY <2>2, <3>1, MinOfTwo
  <2> QED BY <2>1, <2>2, <2>3
<1>2. CASE PutHeader
  <2>1. given' = [given EXCEPT ![call.w] = @ + DirectSize] /\ call.op # "none" /\ call.phase = "header"
      BY <1>2, Zenon DEF PutHeader
  <2>2. call.w \in Writers /\ DirectSize \in Nat
      BY <2>1, SideFacts, HeaderFacts
  <2> QED BY <2>1, <2>2
<1>3. WriteCopy \/ PutHeader \/ given' = given
    BY Zenon DEF WriterNext, Create, FileClose, WriteChunk, WriteBegin, FlushBegin, CloseBegin, Delete,
                 WriteStep, WriteDirect, WriteEnd, PutBytes, PieceDone,
                 PutHeaderFails, PutBytesFails, WriterDies, wside
<1> QED BY <1>1, <1>2, <1>3

\* New headers come behind every piece.
LEMMA NewHeaders ==
    ASSUME IInv, WriterNext, ~damaged, NEW j \in Headers(file'), j \notin Headers(file),
           NEW i \in Headers(file)
    PROVE  PieceEnd(file, i) < j
<1>1. file \in Seq(Cells) /\ Len(file) \in Nat /\ FileOK
    BY LenProperties DEF IInv, TypeOK, FileInv
<1>2. PutHeader /\ j = Len(file) + 1
    BY HeadersStay
<1>3. call.phase = "header" /\ call.op # "none"
    BY <1>2 DEF PutHeader
<1>4. Growing /\ Ahead = 0
    BY <1>3, SideFacts DEF Growing, Opened, Ahead, InPayload
<1>5. PieceEnd(file, i) \in Nat
    BY <1>1, HeaderTypes
<1>6. PieceEnd(file, i) <= Len(file)
    BY <1>1, <1>4, <1>5 DEF FileOK, Frontier
<1> QED BY <1>1, <1>2, <1>5, <1>6


LEMMA WriterReaderInv ==
    ASSUME IInv, IInv', ReaderInv, WriterNext
    PROVE  ReaderInv'
<1>1. UNCHANGED <<rd, pos>> /\ Got' = Got /\ Boundary' = Boundary
    BY WriterLeaves DEF rside, Got, Boundary
<1> SUFFICES ASSUME rd # NoReader
             PROVE  pos <= given'[rd.chunk] /\ (~damaged' => Placed')
    BY <1>1 DEF ReaderInv
<1> DEFINE w == rd.chunk
<1>2. w \in Writers /\ given \in [Writers -> Nat] /\ pos \in Nat /\ pos <= given[w]
    BY DEF IInv, TypeOK, AtBoundary, ReaderInv
<1>3. pos <= given'[w]
  <2>1. given[w] \in Nat /\ given'[w] \in Nat /\ given[w] <= given'[w]
    <3>1. CASE given' = given
        BY <1>2, <3>1
    <3>2. ASSUME NEW v \in Writers, NEW n \in Nat, given' = [given EXCEPT ![v] = @ + n]
          PROVE  given'[w] \in Nat /\ given[w] <= given'[w]
        BY <1>2, <3>2
    <3> QED BY <1>2, <3>1, <3>2, WriterGiven
  <2> QED BY <1>2, <2>1
<1>4. ASSUME ~damaged' PROVE Placed'
  <2>1. ~damaged /\ Placed
      BY <1>4, DamageStays DEF ReaderInv
  <2>2. /\ file \in Seq(Cells) /\ file' \in Seq(Cells) /\ Pieces(file) /\ Pieces(file') /\ FileOK
        /\ Boundary \in Nat /\ Got \in Nat /\ Got + rd.unread \in Nat
      BY <1>4, <2>1, PlaceFacts DEF IInv, TypeOK, FileInv, FileOK
  \* A chunk that is being read has been named before.
  <2>3. wr'[w].uid = wr[w].uid /\ wr'[w].magic = wr[w].magic /\ wr'[w].state # "new"
    <3>1. wr[w].state # "new"
        BY <2>1 DEF Placed
    <3>2. ASSUME NEW v \in Writers, NEW magic \in Magics, WriteChunk(v, magic)
          PROVE  wr'[w] = wr[w]
      <4> DEFINE r == [state |-> "open", magic |-> magic, buf |-> 0,
                       uid |-> IF chunkId = MaxId THEN 0 ELSE chunkId + 1]
      <4>1. wr[v].state = "new" /\ wr' = [wr EXCEPT ![v] = r]
          BY <3>2, Zenon DEF WriteChunk
      <4> HIDE DEF r
      <4> QED BY <1>2, <3>1, <4>1, SideFacts DEF SideOK
    <3> QED BY <1>2, <3>1, <3>2, NamesKept
  <2>4. \A i \in Of(file, w) : i \in Of(file', w) /\ file'[i] = file[i] /\ PieceEnd(file', i) = PieceEnd(file, i)
      BY HeadersStay DEF Of
  <2>5. ASSUME NEW j \in Of(file', w), j \notin Of(file, w) PROVE Boundary < j
    <3>1. j \in Headers(file') /\ j \notin Headers(file)
      <4>1. j \in Headers(file') /\ file'[j].of = w
          BY DEF Of
      <4>2. j \in Headers(file) => file'[j] = file[j]
          BY HeadersStay
      <4> QED BY <2>5, <4>1, <4>2 DEF Of
    <3>2. PICK i \in Headers(file) : PieceEnd(file, i) = Boundary
        BY <2>1 DEF IInv, AtBoundary
    <3> QED BY <2>1, <3>1, <3>2, NewHeaders
  <2>6. StreamAt(file', w, Boundary, Got + rd.unread)
    <3>1. StreamAt(file, w, Boundary, Got + rd.unread)
        BY <2>1 DEF Placed
    <3> HIDE DEF w
    <3> QED BY <2>2, <2>4, <2>5, <3>1, StreamGrows
  <2>7. rd.unread > 0 => InPiece(file', w, Boundary, rd.off, Got)
      BY <2>1, <2>4 DEF Placed, InPiece
  <2>8. rd.last => LastBy(file', w, Boundary)
      BY <2>1, <2>4 DEF Placed, LastBy
  <2>9. \A k \in 1..Len(rd.buf) : rd.buf[k] = Byte(w, pos + k)
      BY <2>1 DEF Placed
  <2>10. rd' = rd /\ pos' = pos /\ rd'.chunk = w /\ Got' + rd'.unread = Got + rd.unread
      BY <1>1
  <2>11. wr'[rd'.chunk].state # "new" /\ rd'.uid = wr'[rd'.chunk].uid /\ rd'.magic = wr'[rd'.chunk].magic
      BY <2>1, <2>3, <2>10 DEF Placed
  <2>12. /\ StreamAt(file', rd'.chunk, Boundary', Got' + rd'.unread)
         /\ rd'.unread > 0 => InPiece(file', rd'.chunk, Boundary', rd'.off, Got')
         /\ rd'.last => LastBy(file', rd'.chunk, Boundary')
      BY <1>1, <2>6, <2>7, <2>8, <2>10
  <2>13. \A k \in 1..Len(rd'.buf) : rd'.buf[k] = Byte(rd'.chunk, pos' + k)
      BY <2>9, <2>10
  <2> QED BY <2>11, <2>12, <2>13, Zenon DEF Placed
<1> QED BY <1>3, <1>4

\* All that the refinement rests on.
AllInv == IInv /\ IdInv /\ ReaderInv

LEMMA AllInvHolds == ASSUME EnoughIds PROVE Spec => []AllInv
<1>1. Init => AllInv
  <2> SUFFICES ASSUME Init PROVE IdInv /\ ReaderInv
      BY InitIInv DEF AllInv
  <2>1. Named = {} /\ rd = NoReader
      BY DEF Init, Named
  <2>2. IsFiniteSet(Named) /\ Cardinality(Named) = 0 /\ chunkId = 0
      BY <2>1, FS_EmptySet DEF Init
  <2> QED BY <2>1, <2>2 DEF IdInv, ReaderInv
<1>2. AllInv /\ [Next]_vars => AllInv'
  <2> SUFFICES ASSUME AllInv, [Next]_vars PROVE AllInv'
      OBVIOUS
  <2>1. IInv' /\ IdInv'
      BY NextIInv, NextIdInv DEF AllInv
  <2>2. CASE ReaderNext
      BY <2>1, <2>2, ReaderReaderInv DEF AllInv
  <2>3. CASE WriterNext
      BY <2>1, <2>3, WriterReaderInv DEF AllInv
  <2>4. CASE UNCHANGED vars
    <3>1. UNCHANGED <<file, wr, given, damaged, rd, pos>>
        BY <2>4 DEF vars, wside, rside, fault
    <3> QED BY <2>1, <3>1 DEF AllInv, ReaderInv, Placed, Got, Boundary
  <2> QED BY <2>2, <2>3, <2>4, TwoSides
<1> QED BY <1>1, <1>2, PTL DEF Spec

\* A call that is cut short without a failing pread() has met the end.
LEMMA CutShortIsEnd ==
    ASSUME [Next]_vars, rcall \in [op : {"none", "read", "skip"}, left : Nat],
           CutShort, ~misread'
    PROVE  ReadShort \/ ReadEof
<1>1. rcall.left > 0 /\ rcall' = NoRead /\ rcall # NoRead /\ rcall' # rcall
    BY DEF CutShort, NoRead
<1>2. ReaderNext
    BY <1>1, TwoSides, WriterLeaves DEF rside, vars
<1>3. ASSUME TakeBuffered \/ TakeDirect \/ SkipUnread PROVE FALSE
  <2>1. rcall.op # "none"
      BY <1>3 DEF TakeBuffered, TakeDirect, SkipUnread, Reading
  <2>2. \E n : rcall' = [rcall EXCEPT !.left = @ - n]
      BY <1>3 DEF TakeBuffered, TakeDirect, SkipUnread, Take
  <2>3. rcall'.op = rcall.op
      BY <2>2
  <2> QED BY <1>1, <2>1, <2>3 DEF NoRead
<1>4. ASSUME \/ FillBuffer \/ NextHeader \/ ReaderClose \/ \E U, M : OpenReader(U, M)
      PROVE  FALSE
    BY <1>1, <1>4 DEF FillBuffer, NextHeader, ReaderClose, OpenReader
<1>5. ASSUME ReadEnd \/ PreadFails PROVE FALSE
    BY <1>1, <1>5 DEF ReadEnd, PreadFails, ReadReturn, CutShort
<1>6. ASSUME NEW op \in {"read", "skip"}, NEW n, ReadBegin(op, n) PROVE FALSE
  <2>1. rcall' = [op |-> op, left |-> n]
      BY <1>6, Zenon DEF ReadBegin
  <2>2. rcall'.op # NoRead.op
      BY <2>1 DEF NoRead
  <2> QED BY <1>1, <2>2
<1> QED BY <1>2, <1>3, <1>4, <1>5, <1>6, Zenon DEF ReaderNext, ReadStep, ReadOn, FindChunk, ReadChunk, ReadChunkOfType

\* A call that returns less than it was asked for, though no pread() failed in
\* it, has come to the end: of a chunk closed without an error the reader has had
\* all the bytes.  With an identifier of their own for all chunks: when they run
\* out, the last chunks share 0 (File::allocate_chunk_id).
THEOREM CompleteAtEndHolds ==
    ASSUME EnoughIds
    PROVE  Spec => CompleteAtEnd
<1>1. AllInv /\ [Next]_vars =>
         [CutShort /\ ~misread' =>
             (wr[rd.chunk].state = "closed" /\ ~told => pos = given[rd.chunk])]_vars
  <2> DEFINE w == rd.chunk
  <2> SUFFICES ASSUME AllInv, [Next]_vars, CutShort, ~misread', wr[w].state = "closed", ~told
               PROVE  pos = given[w]
      BY Zenon
  <2>0. ReadShort \/ ReadEof
      BY CutShortIsEnd DEF AllInv, IInv, TypeOK
  <2>1. rcall.op # "none" /\ ~damaged /\ rcall.left \in Nat /\ rd.buf = <<>>
      BY <2>0, ReadingFacts DEF ReadShort, ReadEof, Reading, Drained, AllInv
  <2>2. rd # NoReader
      BY <2>1, ReadingFacts DEF AllInv
  <2>3. /\ Placed /\ w \in Writers /\ given[w] \in Nat /\ rd.unread \in Nat /\ rd.off \in Nat
        /\ pos \in Nat /\ Got + rd.unread <= given[w] /\ BufSize \in Nat
        /\ file \in Seq(Cells) /\ Len(file) \in Nat /\ Pieces(file) /\ Signed(w) /\ Accounts(w)
      BY <2>1, <2>2, PlaceFacts DEF AllInv, IInv, FileInv, FileOK
  <2>4. Got = pos
      BY <2>1, <2>3 DEF Got
  <2>5. ASSUME ReadShort PROVE FALSE
    <3>1. PICK i \in Of(file, w) : PieceEnd(file, i) = Boundary
        BY <2>3, <2>5 DEF Placed, InPiece, ReadShort
    <3>2. rd.off + rd.unread <= Len(file)
        BY <2>3, <3>1 DEF Signed, Boundary
    <3>3. Min({rd.unread, BufSize}) \in Nat /\ Min({rd.unread, BufSize}) <= rd.unread
        BY <2>3, MinOfTwo
    <3> DEFINE n == Min({rd.unread, BufSize})
    <3>4. ~Readable(rd.off, IF rd.unread <= rcall.left THEN rd.unread ELSE n)
        BY <2>5, Zenon DEF ReadShort
    <3> HIDE DEF n
    <3>5. n \in Nat /\ n <= rd.unread
        BY <3>3 DEF n
    <3>6. CASE rd.unread <= rcall.left
        BY <2>3, <3>2, <3>4, <3>6 DEF Readable
    <3>7. CASE ~(rd.unread <= rcall.left)
        BY <2>3, <3>2, <3>4, <3>5, <3>7 DEF Readable
    <3> QED BY <3>6, <3>7
  <2>6. ReadEof
      BY <2>0, <2>5
  <2>7. StreamAt(file, w, rd.off, pos) /\ Boundary = rd.off /\ pos <= given[w]
    <3>1. rd.unread = 0
        BY <2>6 DEF ReadEof
    <3>2. Boundary = rd.off /\ Got + rd.unread = pos
        BY <2>3, <2>4, <3>1 DEF Boundary
    <3> QED BY <2>3, <3>2 DEF Placed
  <2>8. ASSUME NEW k \in Of(file, w) PROVE Upto(file, k) <= pos
    <3>1. k \in Headers(file) /\ file[k].of = w /\ k \in Nat /\ k <= Len(file)
        BY <2>3, HeaderTypes DEF Of
    <3>2. k <= rd.off
      <4>1. CASE rd.last
        <5>1. PICK j \in Of(file, w) : j <= rd.off /\ file[j].last
            BY <2>3, <2>7, <4>1 DEF Placed, LastBy
        <5>2. j \in Headers(file) /\ file[j].of = w /\ j \in Nat
            BY <2>3, <5>1, OfTypes
        <5>3. ~(j < k)
            BY <2>3, <3>1, <5>1, <5>2 DEF Pieces, LastIsLast
        <5> QED BY <2>3, <3>1, <5>1, <5>2, <5>3
      <4>2. CASE ~Readable(rd.off, 1)
          BY <2>3, <3>1, <4>2 DEF Readable
      <4> QED BY <2>6, <4>1, <4>2 DEF ReadEof
    <3> QED BY <2>7, <3>2 DEF StreamAt
  <2>9. Announced(file, w, given[w])
      BY <2>3 DEF Accounts
  <2>10. CASE given[w] > 0
    <3>1. PICK k \in Of(file, w) : Upto(file, k) = given[w]
        BY <2>9, <2>10 DEF Announced
    <3>2. given[w] <= pos
        BY <2>8, <3>1
    <3> QED BY <2>3, <2>7, <3>2
  <2> QED BY <2>3, <2>7, <2>10
<1> QED BY <1>1, AllInvHolds, PTL DEF Spec, CompleteAtEnd


\* The bytes of a step of the reader, as the abstract specification knows them.
NamesOf(o) == [i \in DOMAIN o |-> <<o[i].of, o[i].at>>]

LEMMA NoNames == NamesOf(<<>>) = <<>>
BY DEF NamesOf

LEMMA NamesOfBytes ==
    ASSUME NEW w, NEW p \in Nat, NEW n \in Nat, NEW o \in Seq(Cells), Len(o) = n,
           \A k \in 1..n : o[k] = Byte(w, p + k)
    PROVE  NamesOf(o) = Streams!Slice(w, p + 1, p + n)
<1>1. DOMAIN o = 1..n
    BY LenProperties
<1>2. \A k \in 1..n : <<o[k].of, o[k].at>> = <<w, (p + 1) + k - 1>>
  <2>1. \A k \in 1..n : o[k].of = w /\ o[k].at = p + k
      BY DEF Byte
  <2>2. \A k \in 1..n : p + k = (p + 1) + k - 1
      OBVIOUS
  <2> QED BY <2>1, <2>2
<1>3. (p + n) + 1 - (p + 1) = n
    OBVIOUS
<1> QED BY <1>1, <1>2, <1>3 DEF NamesOf, Streams!Slice

\* The container keeps the streams of its chunks apart (AbstractChunks): what a
\* reader is given is the stream of its chunk from the beginning, in order,
\* whatever the writers do meanwhile, a pwrite() fails or the process dies.
THEOREM StreamsImplemented ==
    ASSUME EnoughIds
    PROVE  Spec => ImplementsStreams
<1>1. Init => Streams!AbsInit
  <2> SUFFICES ASSUME Init PROVE Streams!AbsInit
      OBVIOUS
  <2>1. given = [w \in Writers |-> 0] /\ rd.chunk = NoChunk /\ pos = 0 /\ NamesOf(out) = <<>>
      BY NoNames DEF Init, NoReader
  <2> QED BY <2>1 DEF Streams!AbsInit, NamesOf
<1>2. AllInv /\ [Next]_vars => [Streams!AbsNext]_Streams!absVars
  <2> SUFFICES ASSUME AllInv, [Next]_vars
               PROVE  Streams!AbsNext \/ UNCHANGED <<given, rd.chunk, pos, NamesOf(out)>>
      BY DEF Streams!absVars, NamesOf
  <2>1. ASSUME WriterNext PROVE (\E w \in Writers : Streams!Accept(w)) \/ UNCHANGED <<given, rd, pos, out>>
    <3>1. UNCHANGED <<rd, pos, out>> /\ given \in [Writers -> Nat]
        BY <2>1, WriterLeaves DEF rside, AllInv, IInv, TypeOK
    <3>2. ASSUME NEW w \in Writers, NEW n \in Nat, given' = [given EXCEPT ![w] = @ + n], n # 0
          PROVE  Streams!Accept(w)
      <4>1. given'[w] > given[w] /\ given' = [given EXCEPT ![w] = given'[w]]
          BY <3>1, <3>2
      <4> QED BY <3>1, <4>1 DEF Streams!Accept
    <3>3. ASSUME NEW w \in Writers, given' = [given EXCEPT ![w] = @ + 0] PROVE given' = given
        BY <3>1, <3>3
    <3> QED BY <2>1, <3>1, <3>2, <3>3, WriterGiven DEF AllInv
  <2>2. ASSUME ReadStep PROVE Streams!Take
    <3>1. PICK n \in Nat : Handed(n) /\ rd'.chunk = rd.chunk
        BY <2>2, StreamReadStep DEF AllInv
    <3>2. rd # NoReader /\ rd.chunk \in Writers /\ pos \in Nat /\ given \in [Writers -> Nat]
      <4>1. rcall.op # "none"
          BY <2>2 DEF ReadStep, ReadOn, TakeBuffered, TakeDirect, FillBuffer, SkipUnread, NextHeader, ReadEnd,
                      ReadShort, ReadEof, PreadFails, Reading
      <4> QED BY <4>1, ReadingFacts DEF AllInv, IInv, TypeOK
    <3>3. given' = given
        BY <2>2, ReaderLeaves, Zenon DEF ReaderNext, wside
    <3>4. given[rd.chunk] \in Nat /\ n \in 0..(given[rd.chunk] - pos) /\ pos' = pos + n
        BY <3>1, <3>2 DEF Handed
    <3>5. NamesOf(out') \in {<<>>, Streams!Slice(rd.chunk, pos + 1, pos + n)}
        BY <3>1, <3>2, NoNames, NamesOfBytes DEF Handed
    <3> QED BY <3>1, <3>2, <3>3, <3>4, <3>5, NoChunkAssumption DEF Streams!Take, NamesOf
  <2>3. ASSUME NEW U, NEW M, OpenReader(U, M) PROVE \E w \in Writers : Streams!OpenChunk(w)
    <3>1. rd = NoReader /\ rd'.chunk \in Writers /\ pos' = 0 /\ NamesOf(out') = <<>> /\ given' = given
        BY <2>3, StreamOpen, NoNames DEF AllInv, OpenReader, wside
    <3> QED BY <3>1 DEF Streams!OpenChunk, NoReader, NamesOf
  <2>4. ASSUME ReaderClose PROVE Streams!CloseChunk
    <3>1. /\ rd # NoReader /\ rd' = NoReader /\ pos' = 0 /\ NamesOf(out') = <<>> /\ given' = given
          /\ rd.chunk \in Writers
        BY <2>4, NoNames DEF ReaderClose, wside, AllInv, IInv, AtBoundary
    <3> QED BY <3>1, NoChunkAssumption DEF Streams!CloseChunk, NoReader, NamesOf
  <2>5. ASSUME NEW op, NEW n, ReadBegin(op, n) PROVE UNCHANGED <<given, rd, pos, out>>
      BY <2>5 DEF ReadBegin, wside
  <2>6. ASSUME UNCHANGED vars PROVE UNCHANGED <<given, rd, pos, out>>
      BY <2>6 DEF vars, wside, rside
  <2>7. ReaderNext => \/ ReadStep \/ (\E U, M : OpenReader(U, M)) \/ ReaderClose
                      \/ \E op, n : ReadBegin(op, n)
      BY Zenon DEF ReaderNext, FindChunk, ReadChunk, ReadChunkOfType
  <2>8. UNCHANGED <<given, rd, pos, out>> => UNCHANGED <<given, rd.chunk, pos, NamesOf(out)>>
      BY DEF NamesOf
  <2>9. CASE ReaderNext
      BY <2>2, <2>3, <2>4, <2>5, <2>7, <2>8, <2>9, Zenon DEF Streams!AbsNext
  <2>10. CASE WriterNext
      BY <2>1, <2>8, <2>10, Zenon DEF Streams!AbsNext
  <2>11. CASE UNCHANGED vars
      BY <2>6, <2>8, <2>11, Zenon
  <2> QED BY <2>9, <2>10, <2>11, TwoSides
<1> QED BY <1>1, <1>2, AllInvHolds, PTL DEF Spec, ImplementsStreams, Streams!AbsSpec

=============================================================================
