--------------------------- MODULE ReadModelsProofs ---------------------------
(***************************************************************************)
(* Proofs about ReadModels: what the Desktop reads between any two         *)
(* transactions of the Agent, for any rows, pages and zones.               *)
(***************************************************************************)
EXTENDS ReadModels, ActivityEngineProofs

(***************************************************************************)
(* Ascending order.  The element of rank i - 1 stands at place i; in a     *)
(* strict order every element has a rank of its own, so no place is empty. *)
(***************************************************************************)
StrictOrder(S, R) ==
  /\ LinearOrder(S, R)
  /\ \A x \in S : <<x, x>> \notin R

Below(S, R, x) == {y \in S : <<y, x>> \in R}

Ranked(S, R, rank, f) ==
  /\ \A x \in S : rank[x] = Cardinality(Below(S, R, x))
  /\ \A i \in 1 .. Cardinality(S) :
       (\E x \in S : rank[x] = i - 1) => f[i] \in S /\ rank[f[i]] = i - 1

LEMMA RankGrows ==
  ASSUME NEW S, IsFiniteSet(S), NEW R, StrictOrder(S, R), NEW x \in S, NEW y \in S,
         <<x, y>> \in R
  PROVE  Cardinality(Below(S, R, x)) < Cardinality(Below(S, R, y))
<1> DEFINE B == Below(S, R, x)
           C == Below(S, R, y)
<1>1. IsFiniteSet(C) /\ B \in SUBSET C /\ x \in C /\ x \notin B
  <2>1. C \in SUBSET S
    BY DEF Below
  <2>2. IsFiniteSet(C)
    BY <2>1, FS_Subset
  <2> QED BY <2>2 DEF Below, StrictOrder, LinearOrder
<1> HIDE DEF B, C
<1>2. Cardinality(B) <= Cardinality(C) /\ Cardinality(B) # Cardinality(C)
  BY <1>1, FS_Subset
<1>3. Cardinality(B) \in Nat /\ Cardinality(C) \in Nat
  BY <1>1, FS_Subset, FS_CardinalityType
<1>4. Cardinality(B) < Cardinality(C)
  BY <1>2, <1>3
<1> QED BY <1>4 DEF B, C

LEMMA RankedAscends ==
  ASSUME NEW S, IsFiniteSet(S), NEW R, StrictOrder(S, R), NEW rank, NEW f, Ranked(S, R, rank, f),
         NEW n, n = Cardinality(S)
  PROVE  /\ n \in Nat
         /\ \A i \in 1 .. n : f[i] \in S
         /\ \A i, j \in 1 .. n : i < j => <<f[i], f[j]>> \in R
         /\ \A x \in S : \E i \in 1 .. n : x = f[i]
<1>1. n \in Nat
  BY FS_CardinalityType
<1>2. ASSUME NEW x \in S
      PROVE  rank[x] \in 0 .. n - 1
  <2> DEFINE B == Below(S, R, x)
  <2>1. B \in SUBSET (S \ {x})
    BY DEF Below, StrictOrder
  <2>2. IsFiniteSet(S \ {x}) /\ Cardinality(S \ {x}) = n - 1
    BY FS_RemoveElement
  <2>3. rank[x] = Cardinality(B)
    BY DEF Ranked
  <2> HIDE DEF B
  <2>4. IsFiniteSet(B) /\ Cardinality(B) <= n - 1
    BY <2>1, <2>2, FS_Subset
  <2>5. Cardinality(B) \in Nat
    BY <2>4, FS_CardinalityType
  <2> QED BY <1>1, <2>3, <2>4, <2>5
<1>3. ASSUME NEW x \in S, NEW y \in S, <<x, y>> \in R
      PROVE  rank[x] < rank[y]
  BY <1>3, RankGrows DEF Ranked
<1>4. \A x, y \in S : rank[x] = rank[y] => x = y
  <2> SUFFICES ASSUME NEW x \in S, NEW y \in S, rank[x] = rank[y], x # y
               PROVE  FALSE
    OBVIOUS
  <2>1. <<x, y>> \in R \/ <<y, x>> \in R
    BY DEF StrictOrder, LinearOrder
  <2>2. rank[x] \in Int /\ rank[y] \in Int
    BY <1>1, <1>2
  <2> QED BY <1>3, <2>1, <2>2
<1>5. \A k \in 0 .. n - 1 : \E x \in S : rank[x] = k
  <2> DEFINE g == [x \in S |-> rank[x]]
             T == 0 .. n - 1
  <2>1. g \in Injection(S, T)
    BY <1>2, <1>4 DEF Injection, IsInjective
  <2>2. IsFiniteSet(T) /\ Cardinality(T) = n
    <3>1. /\ IsFiniteSet(0 .. n - 1)
          /\ Cardinality(0 .. n - 1) = IF 0 > n - 1 THEN 0 ELSE (n - 1) - 0 + 1
      <4>1. 0 \in Int /\ n - 1 \in Int
        BY <1>1
      <4> QED BY <4>1, FS_Interval
    <3> QED BY <1>1, <3>1
  <2>3. g \in Surjection(S, T)
    <3> HIDE DEF g, T
    <3> QED BY <2>1, <2>2, FS_Injection
  <2> QED BY <2>3 DEF Surjection
<1>6. ASSUME NEW i \in 1 .. n
      PROVE  f[i] \in S /\ rank[f[i]] = i - 1
  <2>1. i - 1 \in 0 .. n - 1
    BY <1>1
  <2> QED BY <1>5, <2>1 DEF Ranked
<1>7. ASSUME NEW i \in 1 .. n, NEW j \in 1 .. n, i < j
      PROVE  <<f[i], f[j]>> \in R
  <2>1. /\ f[i] \in S /\ f[j] \in S /\ rank[f[i]] = i - 1 /\ rank[f[j]] = j - 1
        /\ i \in Int /\ j \in Int
    BY <1>1, <1>6
  <2>2. f[i] # f[j]
    BY <1>7, <2>1
  <2>3. ~(rank[f[j]] < rank[f[i]])
    BY <1>7, <2>1
  <2>4. <<f[j], f[i]>> \notin R
    BY <1>3, <2>1, <2>3
  <2> QED BY <2>1, <2>2, <2>4 DEF StrictOrder, LinearOrder
<1>8. ASSUME NEW x \in S
      PROVE  \E i \in 1 .. n : x = f[i]
  <2>1. rank[x] + 1 \in 1 .. n /\ rank[x] \in Int
    BY <1>1, <1>2
  <2>2. f[rank[x] + 1] \in S /\ rank[f[rank[x] + 1]] = rank[x]
    BY <1>6, <2>1
  <2> QED BY <1>4, <2>1, <2>2
<1> QED BY <1>1, <1>6, <1>7, <1>8

-----------------------------------------------------------------------------
(***************************************************************************)
(* The timeline.  Keys of rows, their order, and the items of one page.    *)
(***************************************************************************)
Key == Int \X Nat \X Nat

KeyOrder(S) == {p \in S \X S : Before(p[1], p[2])}

LEMMA KeysOrdered ==
  ASSUME NEW S, S \subseteq Key
  PROVE  /\ StrictOrder(S, KeyOrder(S))
         /\ \A x, y \in S : <<x, y>> \in KeyOrder(S) <=> Before(x, y)
<1>1. \A x, y \in S : <<x, y>> \in KeyOrder(S) <=> Before(x, y)
  BY DEF KeyOrder
<1>2. \A x \in S : x[1] \in Int /\ x[2] \in Int /\ x[3] \in Int /\ x = <<x[1], x[2], x[3]>>
  BY DEF Key
<1>3. \A x, y \in S : x = y \/ Before(x, y) \/ Before(y, x)
  BY <1>2 DEF Before
<1>4. \A x, y, z \in S : Before(x, y) /\ Before(y, z) => Before(x, z)
  BY <1>2 DEF Before
<1>5. \A x \in S : ~Before(x, x)
  BY <1>2 DEF Before
<1> QED BY <1>1, <1>3, <1>4, <1>5 DEF StrictOrder, LinearOrder

LEMMA BeforeTwice ==
  ASSUME NEW x \in Key, NEW y \in Key, NEW z \in Key, Before(x, y), Before(y, z)
  PROVE  Before(x, z) /\ ~Before(y, x)
BY DEF Key, Before

(* Before, as the code sorts.                                              *)
Earlier(p, q) ==
  p[1] < q[1] \/ (p[1] = q[1] /\ (p[2] < q[2] \/ (p[2] = q[2] /\ p[3] < q[3])))

LEMMA EarlierIsBefore ==
  \A p, q : Earlier(p, q) <=> Before(p, q)
BY DEF Earlier, Before

(* The rows of a page are all of the set, each once, in order.             *)
LEMMA InOrderAscends ==
  ASSUME NEW S, IsFiniteSet(S), S \subseteq Key, NEW f, f = InOrder(S), NEW n,
         n = Cardinality(S)
  PROVE  /\ n \in Nat /\ f \in Seq(S) /\ Len(f) = n
         /\ \A i, j \in 1 .. n : i < j => Before(f[i], f[j])
         /\ \A x \in S : \E i \in 1 .. n : x = f[i]
<1> DEFINE R == KeyOrder(S)
           rank == [x \in S |-> Cardinality({y \in S : Earlier(y, x)})]
<1>1. StrictOrder(S, R) /\ \A x, y \in S : <<x, y>> \in R <=> Before(x, y)
  BY KeysOrdered
<1>2. f = [i \in 1 .. n |-> CHOOSE x \in S : Cardinality({y \in S : Earlier(y, x)}) = i - 1]
  BY DEF InOrder, Ordered, Earlier
<1>3. n \in Nat
  BY FS_CardinalityType
<1>4. Ranked(S, R, rank, f)
  <2>1. ASSUME NEW x \in S
        PROVE  rank[x] = Cardinality(Below(S, R, x))
    <3>1. Below(S, R, x) = {y \in S : Earlier(y, x)}
      BY <1>1, EarlierIsBefore DEF Below
    <3> QED BY <3>1
  <2>2. ASSUME NEW i \in 1 .. n, \E x \in S : rank[x] = i - 1
        PROVE  f[i] \in S /\ rank[f[i]] = i - 1
    <3>1. \E x \in S : Cardinality({y \in S : Earlier(y, x)}) = i - 1
      BY <2>2
    <3> DEFINE z == CHOOSE x \in S : Cardinality({y \in S : Earlier(y, x)}) = i - 1
    <3>2. z \in S /\ Cardinality({y \in S : Earlier(y, z)}) = i - 1
      BY <3>1
    <3>3. f[i] = z
      BY <1>2
    <3> HIDE DEF z
    <3> QED BY <3>2, <3>3
  <2> QED BY <2>1, <2>2 DEF Ranked
<1> HIDE DEF rank, R
<1>5. /\ \A i \in 1 .. n : f[i] \in S
      /\ \A i, j \in 1 .. n : i < j => <<f[i], f[j]>> \in R
      /\ \A x \in S : \E i \in 1 .. n : x = f[i]
  BY <1>1, <1>4, RankedAscends
<1>6. f \in Seq(S) /\ Len(f) = n
  <2>1. f \in [1 .. n -> S]
    BY <1>2, <1>5
  <2>2. f \in Seq(S)
    BY <1>3, <2>1
  <2> QED BY <1>3, <2>1, <2>2, LenProperties
<1> QED BY <1>1, <1>3, <1>5, <1>6

(***************************************************************************)
(* The rows of a date in database e, and the gap rows that have left it:   *)
(* a gap may be closed before the day begins, and a closed row never       *)
(* changes again.                                                          *)
(***************************************************************************)
SegOn(e, d, i) == e.segs[i].end >= DayStart(d) /\ e.segs[i].start < DayEnd(d)

GapOn(e, d, i) ==
  /\ e.gaps[i].start < DayEnd(d)
  /\ e.gaps[i].end = NoTime \/ e.gaps[i].end >= DayStart(d)

RowKeys(e, d) ==
  {<<e.segs[i].start, 0, i>> : i \in {j \in DOMAIN e.segs : SegOn(e, d, j)}}
  \cup {<<e.gaps[i].start, 1, i>> : i \in {j \in DOMAIN e.gaps : GapOn(e, d, j)}}

Gone(e, d, k) ==
  /\ k[2] = 1 /\ k[3] \in DOMAIN e.gaps /\ ~IsOpen(e.gaps, k[3])
  /\ k \notin RowKeys(e, d)

LEMMA OnDateKeys ==
  ASSUME NEW d
  PROVE  OnDate(d) = RowKeys(db, d)
BY DEF OnDate, RowKeys, SegmentKey, GapKey, SegOn, GapOn

RowsTyped(e) == Segments(e.segs) /\ Gaps(e.gaps)

LEMMA RowKeysTyped ==
  ASSUME NEW e, RowsTyped(e), NEW d
  PROVE  IsFiniteSet(RowKeys(e, d)) /\ RowKeys(e, d) \subseteq Key
<1> DEFINE S == {j \in DOMAIN e.segs : SegOn(e, d, j)}
           G == {j \in DOMAIN e.gaps : GapOn(e, d, j)}
           f == [i \in S |-> <<e.segs[i].start, 0, i>>]
           g == [i \in G |-> <<e.gaps[i].start, 1, i>>]
<1>1. /\ DOMAIN e.segs = 1 .. Len(e.segs) /\ Len(e.segs) \in Nat
      /\ DOMAIN e.gaps = 1 .. Len(e.gaps) /\ Len(e.gaps) \in Nat
  BY RowsLen DEF RowsTyped, Segments, Gaps
<1>2. IsFiniteSet(DOMAIN e.segs) /\ IsFiniteSet(DOMAIN e.gaps)
  BY <1>1, FS_Interval
<1>3. IsFiniteSet(S) /\ IsFiniteSet(G)
  BY <1>2, FS_Subset
<1>4. RowKeys(e, d) = {f[i] : i \in S} \cup {g[i] : i \in G}
  BY DEF RowKeys
<1>5. \A i \in S : e.segs[i].start \in Int /\ i \in Nat
  <2>1. \A i \in S : i \in DOMAIN e.segs
    OBVIOUS
  <2> HIDE DEF S
  <2>2. \A i \in S : i \in Nat
    BY <1>1, <2>1
  <2>3. \A i \in S : IsSegment(e.segs[i])
    BY <2>1 DEF RowsTyped, Segments
  <2> QED BY <2>2, <2>3 DEF IsSegment
<1>6. \A i \in G : e.gaps[i].start \in Int /\ i \in Nat
  <2>1. \A i \in G : i \in DOMAIN e.gaps
    OBVIOUS
  <2> HIDE DEF G
  <2>2. \A i \in G : i \in Nat
    BY <1>1, <2>1
  <2>3. \A i \in G : IsGap(e.gaps[i])
    BY <2>1 DEF RowsTyped, Gaps
  <2> QED BY <2>2, <2>3 DEF IsGap
<1>7. (\A i \in S : f[i] \in Key) /\ (\A i \in G : g[i] \in Key)
  BY <1>5, <1>6 DEF Key
<1> HIDE DEF S, G, f, g
<1>8. IsFiniteSet({f[i] : i \in S}) /\ IsFiniteSet({g[i] : i \in G})
  BY <1>3, ImageFinite
<1>9. IsFiniteSet(RowKeys(e, d))
  BY <1>4, <1>8, FS_Union
<1> QED BY <1>4, <1>7, <1>9

(* A row of the date stays there, or is a gap that is closed and gone for  *)
(* good.                                                                   *)
LEMMA KeyStays ==
  ASSUME NEW e, RowsTyped(e), NEW v, RowsTyped(v), SegsGrow(e.segs, v.segs),
         GapsKept(e.gaps, v.gaps), NEW d, DayStart(d) \in Int, NEW k
  PROVE  /\ k \in RowKeys(e, d) => k \in RowKeys(v, d) \/ Gone(v, d, k)
         /\ Gone(e, d, k) => Gone(v, d, k)
<1>1. ASSUME NEW i \in DOMAIN e.segs, SegOn(e, d, i), k = <<e.segs[i].start, 0, i>>
      PROVE  k \in RowKeys(v, d)
  <2>1. i \in DOMAIN v.segs /\ v.segs[i].start = e.segs[i].start
    BY DEF SegsGrow
  <2>2. v.segs[i].end >= DayStart(d)
    <3>1. e.segs[i].end \in Int /\ v.segs[i].end \in Int
      BY <2>1 DEF RowsTyped, Segments, IsSegment
    <3>2. v.segs[i].end = e.segs[i].end \/ e.segs[i].end < v.segs[i].end
      BY DEF SegsGrow
    <3> QED BY <1>1, <3>1, <3>2 DEF SegOn
  <2>3. SegOn(v, d, i)
    BY <1>1, <2>1, <2>2 DEF SegOn
  <2> QED BY <1>1, <2>1, <2>3 DEF RowKeys
<1>2. ASSUME NEW i \in DOMAIN e.gaps, GapOn(e, d, i), k = <<e.gaps[i].start, 1, i>>
      PROVE  k \in RowKeys(v, d) \/ Gone(v, d, k)
  <2>1. i \in DOMAIN v.gaps /\ v.gaps[i].start = e.gaps[i].start
    BY DEF GapsKept
  <2>2. CASE GapOn(v, d, i)
    BY <1>2, <2>1, <2>2 DEF RowKeys
  <2>3. CASE ~GapOn(v, d, i)
    <3>1. ~IsOpen(v.gaps, i)
      <4> SUFFICES ASSUME IsOpen(v.gaps, i) PROVE FALSE
        OBVIOUS
      <4>1. v.gaps[i].end = NoTime
        BY <2>1 DEF RowsTyped, Gaps, IsGap, IsOpen
      <4> QED BY <1>2, <2>1, <2>3, <4>1 DEF GapOn
    <3>2. k \notin RowKeys(v, d)
      BY <1>2, <2>3 DEF RowKeys
    <3> QED BY <1>2, <2>1, <3>1, <3>2 DEF Gone
  <2> QED BY <2>2, <2>3
<1>3. ASSUME Gone(e, d, k)
      PROVE  Gone(v, d, k)
  <2>1. /\ k[2] = 1 /\ k[3] \in DOMAIN v.gaps /\ k[3] \in DOMAIN e.gaps
        /\ ~IsOpen(v.gaps, k[3]) /\ v.gaps[k[3]].start = e.gaps[k[3]].start
        /\ v.gaps[k[3]].end = e.gaps[k[3]].end
    BY <1>3 DEF Gone, GapsKept
  <2>2. k \notin RowKeys(v, d)
    <3> SUFFICES ASSUME k \in RowKeys(v, d) PROVE FALSE
      OBVIOUS
    <3>1. \A i : k # <<v.segs[i].start, 0, i>>
      BY <2>1
    <3>2. PICK i \in DOMAIN v.gaps : GapOn(v, d, i) /\ k = <<v.gaps[i].start, 1, i>>
      BY <3>1 DEF RowKeys
    <3>3. i = k[3]
      BY <3>2
    <3>4. GapOn(e, d, i) /\ k = <<e.gaps[i].start, 1, i>>
      BY <2>1, <3>2, <3>3 DEF GapOn
    <3> QED BY <1>3, <2>1, <3>3, <3>4 DEF Gone, RowKeys
  <2> QED BY <2>1, <2>2 DEF Gone
<1> QED BY <1>1, <1>2, <1>3 DEF RowKeys

-----------------------------------------------------------------------------
(***************************************************************************)
(* Pages.                                                                  *)
(***************************************************************************)
Ascends(f) == \A i, j \in 1 .. Len(f) : i < j => Before(f[i], f[j])

Listed(k, f) == \E i \in 1 .. Len(f) : k = f[i]

LastOf(f) == f[Len(f)]

EndsAt(f, next) == next = {} \/ (Len(f) > 0 /\ next = {LastOf(f)})

Follow(next, k) == \E c \in next : Before(c, k)

PageOf(B) ==
  LET found == InOrder(B)
      page == SubSeq(found, 1, Min({PageSize, Len(found)}))
  IN  [items |-> page, next |-> IF Len(found) > PageSize THEN {page[PageSize]} ELSE {}]

(* A page holds the first rows behind the cursor, in order; the rows it    *)
(* leaves out are behind the cursor it returns, which is its last row.     *)
LEMMA PageEffect ==
  ASSUME NEW B, IsFiniteSet(B), B \subseteq Key, NEW page, page = PageOf(B),
         NEW items, items = page.items, NEW next, next = page.next
  PROVE  /\ items \in Seq(B) /\ Ascends(items)
         /\ EndsAt(items, next)
         /\ \A k \in B : Listed(k, items) \/ Follow(next, k)
<1> DEFINE f == InOrder(B)
           n == Len(f)
           m == Min({PageSize, n})
<1>2. /\ n \in Nat /\ n = Cardinality(B) /\ f \in Seq(B)
      /\ \A i, j \in 1 .. n : i < j => Before(f[i], f[j])
      /\ \A x \in B : \E i \in 1 .. n : x = f[i]
  <2> DEFINE g == InOrder(B)
             c == Cardinality(B)
  <2>1. g = InOrder(B) /\ c = Cardinality(B)
    OBVIOUS
  <2> HIDE DEF g, c
  <2>2. /\ c \in Nat /\ g \in Seq(B) /\ Len(g) = c
        /\ \A i, j \in 1 .. c : i < j => Before(g[i], g[j])
        /\ \A x \in B : \E i \in 1 .. c : x = g[i]
    BY <2>1, InOrderAscends
  <2>3. f = g /\ n = c
    BY <2>1, <2>2
  <2> HIDE DEF f, n
  <2> QED BY <2>1, <2>2, <2>3
<1>3. /\ items = SubSeq(f, 1, m)
      /\ next = IF n > PageSize THEN {items[PageSize]} ELSE {}
  BY DEF PageOf
<1> HIDE DEF f
<1>4. \A i \in 1 .. n : f[i] \in B
  BY <1>2, ElementOfSeq
<1>5. m \in {PageSize, n} /\ m <= PageSize /\ m <= n
  <2>1. PageSize \in Int /\ n \in Int
    BY <1>2, ReadConstants
  <2> HIDE DEF n
  <2> QED BY <2>1, MinOfTwo
<1> HIDE DEF m, n
<1>6. m \in Nat /\ (n > PageSize => m = PageSize /\ m > 0) /\ (~(n > PageSize) => m = n)
  BY <1>2, <1>5, ReadConstants
<1>7. /\ items \in Seq(B) /\ Len(items) = m
      /\ \A i \in 1 .. m : items[i] = f[i]
  <2>1. m \in Int /\ 1 \in Int /\ \A i \in 1 .. m : f[i] \in B
    BY <1>2, <1>4, <1>5, <1>6
  <2>2. /\ SubSeq(f, 1, m) \in Seq(B)
        /\ Len(SubSeq(f, 1, m)) = IF 1 <= m THEN m - 1 + 1 ELSE 0
        /\ \A i \in 1 .. m - 1 + 1 : SubSeq(f, 1, m)[i] = f[1 + i - 1]
    BY <2>1, SubSeqProperties
  <2>3. m - 1 + 1 = m /\ \A i \in 1 .. m : 1 + i - 1 = i
    BY <1>6
  <2> QED BY <1>3, <1>6, <2>2, <2>3
<1>8. Ascends(items)
  <2> SUFFICES ASSUME NEW i \in 1 .. m, NEW j \in 1 .. m, i < j
               PROVE  Before(items[i], items[j])
    BY <1>7 DEF Ascends
  <2>1. i \in 1 .. n /\ j \in 1 .. n
    BY <1>2, <1>5, <1>6
  <2> QED BY <1>2, <1>7, <2>1
<1>9. EndsAt(items, next)
  BY <1>3, <1>6, <1>7 DEF LastOf, EndsAt
<1>10. ASSUME NEW k \in B
       PROVE  Listed(k, items) \/ Follow(next, k)
  <2>1. PICK i \in 1 .. n : k = f[i]
    BY <1>2
  <2>2. CASE i <= m
    <3>1. i \in 1 .. m
      BY <1>6, <2>1, <2>2
    <3> QED BY <1>7, <2>1, <3>1 DEF Listed
  <2>3. CASE ~(i <= m)
    <3>1. n > PageSize /\ m = PageSize /\ m \in 1 .. n /\ m < i
      BY <1>2, <1>5, <1>6, <2>1, <2>3, ReadConstants
    <3>2. m \in 1 .. m
      BY <1>6, <3>1
    <3>3. next = {f[m]}
      BY <1>3, <1>7, <3>1, <3>2
    <3>4. Before(f[m], k)
      BY <1>2, <2>1, <3>1
    <3> QED BY <3>3, <3>4 DEF Follow
  <2> QED BY <2>2, <2>3
<1> QED BY <1>7, <1>8, <1>9, <1>10

(* A page is put behind the ones before it.                                *)
LEMMA PagesJoined ==
  ASSUME NEW f \in Seq(Key), Ascends(f), NEW g \in Seq(Key), Ascends(g), Len(f) > 0,
         \A j \in 1 .. Len(g) : Before(LastOf(f), g[j]), NEW s, s = f \o g
  PROVE  /\ s \in Seq(Key) /\ Ascends(s)
         /\ Len(g) > 0 => Len(s) > 0 /\ LastOf(s) = LastOf(g)
         /\ \A k : Listed(k, f) \/ Listed(k, g) => Listed(k, s)
<1> DEFINE m == Len(f)
           n == Len(g)
<1>1. m \in Nat /\ n \in Nat /\ m > 0
  BY LenProperties
<1>2. s \in Seq(Key) /\ Len(s) = m + n
  BY ConcatProperties
<1>3. ASSUME NEW i \in 1 .. m PROVE s[i] = f[i] /\ f[i] \in Key
  BY <1>1, <1>3, ConcatProperties, ElementOfSeq
<1>4. ASSUME NEW i \in m + 1 .. m + n PROVE s[i] = g[i - m] /\ g[i - m] \in Key /\ i - m \in 1 .. n
  <2>1. i \in 1 .. m + n /\ ~(i <= m) /\ i - m \in 1 .. n
    BY <1>1, <1>4
  <2> QED BY <2>1, ConcatProperties, ElementOfSeq
<1>5. \A i \in 1 .. m : f[i] = LastOf(f) \/ Before(f[i], LastOf(f))
  BY <1>1 DEF Ascends, LastOf
<1>6. LastOf(f) \in Key
  BY <1>1, <1>3 DEF LastOf
<1> HIDE DEF m, n
<1>7. ASSUME NEW i \in 1 .. m + n, NEW j \in 1 .. m + n, i < j
      PROVE  Before(s[i], s[j])
  <2>1. CASE j <= m
    <3>1. i \in 1 .. m /\ j \in 1 .. m
      BY <1>1, <1>7, <2>1
    <3> QED BY <1>3, <1>7, <3>1 DEF Ascends, m
  <2>2. CASE i > m
    <3>1. i \in m + 1 .. m + n /\ j \in m + 1 .. m + n
      BY <1>1, <1>7, <2>2
    <3>2. i - m < j - m
      BY <1>1, <1>7
    <3> QED BY <1>4, <3>1, <3>2 DEF Ascends, n
  <2>3. CASE i <= m /\ j > m
    <3>1. i \in 1 .. m /\ j \in m + 1 .. m + n
      BY <1>1, <2>3
    <3>2. Before(LastOf(f), s[j]) /\ s[j] \in Key
      BY <1>4, <3>1 DEF n
    <3>3. s[i] = LastOf(f) \/ Before(s[i], LastOf(f))
      BY <1>3, <1>5, <3>1
    <3>4. s[i] \in Key
      BY <1>3, <3>1
    <3> QED BY <1>6, <3>2, <3>3, <3>4, BeforeTwice
  <2>4. i <= m \/ i > m
    BY <1>1
  <2>5. j <= m \/ j > m
    BY <1>1
  <2> QED BY <2>1, <2>2, <2>3, <2>4, <2>5
<1>8. Ascends(s)
  BY <1>2, <1>7 DEF Ascends
<1>9. ASSUME n > 0 PROVE Len(s) > 0 /\ LastOf(s) = LastOf(g)
  <2>1. m + n \in m + 1 .. m + n /\ (m + n) - m = n
    BY <1>1, <1>9
  <2> QED BY <1>1, <1>2, <1>4, <1>9, <2>1 DEF LastOf, n
<1>10. ASSUME NEW k, Listed(k, f) PROVE Listed(k, s)
  <2>1. PICK i \in 1 .. m : k = f[i]
    BY <1>10 DEF Listed, m
  <2>2. i \in 1 .. m + n
    BY <1>1, <2>1
  <2>3. k = s[i]
    BY <1>3, <2>1
  <2> QED BY <1>2, <2>2, <2>3 DEF Listed
<1>11. ASSUME NEW k, Listed(k, g) PROVE Listed(k, s)
  <2>1. PICK j \in 1 .. n : k = g[j]
    BY <1>11 DEF Listed, n
  <2>2. m + j \in m + 1 .. m + n /\ m + j \in 1 .. m + n /\ (m + j) - m = j
    BY <1>1, <2>1
  <2>3. k = s[m + j]
    BY <1>4, <2>1, <2>2
  <2> QED BY <1>2, <2>2, <2>3 DEF Listed
<1> QED BY <1>2, <1>8, <1>9, <1>10, <1>11 DEF n

(***************************************************************************)
(* The reading of a timeline, in any database: what was shown ascends and  *)
(* ends at the cursor, and every row the date had when the reading began   *)
(* was shown, is still ahead, or has left the date for good.               *)
(***************************************************************************)
Reached(r, e, k) ==
  Listed(k, r.shown) \/ Follow(r.next, k) \/ k \notin RowKeys(e, r.date)

Turning(r) ==
  /\ r = [kind |-> r.kind, date |-> r.date, began |-> r.began, shown |-> r.shown,
          next |-> r.next]
  /\ r.date \in Dates /\ r.shown \in Seq(Key) /\ Ascends(r.shown)
  /\ EndsAt(r.shown, r.next)

TimelineFor(r, e) ==
  r.kind = "timeline" =>
    /\ Turning(r)
    /\ \A k \in r.began : /\ k \in RowKeys(e, r.date) \/ Gone(e, r.date, k)
                          /\ Reached(r, e, k)

LEMMA DayBounds ==
  ASSUME NEW d \in Dates
  PROVE  d \in Int /\ DayStart(d) \in Int /\ DayEnd(d) \in Int /\ DayStart(d) < DayEnd(d)
BY BucketBounds

LEMMA TimelineMoves ==
  ASSUME NEW e, RowsTyped(e), NEW v, RowsTyped(v), SegsGrow(e.segs, v.segs),
         GapsKept(e.gaps, v.gaps), NEW r, TimelineFor(r, e)
  PROVE  TimelineFor(r, v)
<1> SUFFICES ASSUME r.kind = "timeline", NEW k \in r.began
             PROVE  /\ k \in RowKeys(v, r.date) \/ Gone(v, r.date, k)
                    /\ Reached(r, v, k)
  BY DEF TimelineFor
<1>1. DayStart(r.date) \in Int
  BY DayBounds DEF TimelineFor, Turning
<1>2. k \in RowKeys(v, r.date) \/ Gone(v, r.date, k)
  BY <1>1, KeyStays DEF TimelineFor
<1>3. k \notin RowKeys(e, r.date) => k \notin RowKeys(v, r.date)
  <2> SUFFICES ASSUME k \notin RowKeys(e, r.date)
               PROVE  k \notin RowKeys(v, r.date)
    OBVIOUS
  <2>1. Gone(e, r.date, k)
    BY DEF TimelineFor
  <2>2. Gone(v, r.date, k)
    BY <1>1, <2>1, KeyStays
  <2> QED BY <2>2 DEF Gone
<1> QED BY <1>2, <1>3 DEF TimelineFor, Reached

LEMMA TimelineOpens ==
  ASSUME RowsTyped(db), NEW d \in Dates, OpenTimeline(d)
  PROVE  TimelineFor(reading', db)
<1> DEFINE page == TimelinePage(d, {})
           B == Behind(d, {})
           items == page.items
           next == page.next
<1>1. reading' = [kind |-> "timeline", date |-> d, began |-> B, shown |-> items, next |-> next]
  BY DEF OpenTimeline, Starts, Behind
<1>2. B = RowKeys(db, d)
  BY OnDateKeys DEF Behind
<1>3. IsFiniteSet(B) /\ B \subseteq Key
  BY <1>2, RowKeysTyped
<1>4. /\ items \in Seq(B) /\ Ascends(items)
      /\ EndsAt(items, next)
      /\ \A k \in B : Listed(k, items) \/ Follow(next, k)
  <2>1. page = PageOf(B) /\ items = page.items /\ next = page.next
    BY DEF TimelinePage, PageOf
  <2> HIDE DEF B, page, items, next
  <2> QED BY <1>3, <2>1, PageEffect
<1> HIDE DEF page, B, items, next
<1>5. items \in Seq(Key)
  BY <1>3, <1>4
<1>6. Turning(reading')
  BY <1>1, <1>4, <1>5 DEF Turning
<1>7. \A k \in B : k \in RowKeys(db, d) /\ Reached(reading', db, k)
  BY <1>1, <1>2, <1>4 DEF Reached
<1> QED BY <1>1, <1>6, <1>7 DEF TimelineFor

LEMMA TimelineTurns ==
  ASSUME RowsTyped(db), TimelineFor(reading, db), NextPage
  PROVE  TimelineFor(reading', db)
<1> DEFINE d == reading.date
           old == reading.shown
           cursor == reading.next
           page == TimelinePage(d, cursor)
           B == Behind(d, cursor)
           items == page.items
           next == page.next
           new == old \o items
<1>1. /\ reading.kind = "timeline" /\ cursor # {} /\ Turning(reading)
      /\ reading' = [reading EXCEPT !.shown = new, !.next = next]
  BY DEF NextPage, TimelineFor
<1>2. /\ d \in Dates /\ old \in Seq(Key) /\ Ascends(old)
      /\ Len(old) > 0 /\ cursor = {LastOf(old)}
  BY <1>1 DEF Turning, EndsAt
<1>3. reading' = [kind |-> "timeline", date |-> d, began |-> reading.began, shown |-> new,
                  next |-> next]
  BY <1>1 DEF Turning
<1>4. B = {k \in RowKeys(db, d) : \A c \in cursor : Before(c, k)}
  BY OnDateKeys DEF Behind
<1>5. IsFiniteSet(B) /\ B \subseteq Key
  <2>1. IsFiniteSet(RowKeys(db, d)) /\ RowKeys(db, d) \subseteq Key
    BY RowKeysTyped
  <2> QED BY <1>4, <2>1, FS_Subset
<1>6. /\ items \in Seq(B) /\ Ascends(items)
      /\ EndsAt(items, next)
      /\ \A k \in B : Listed(k, items) \/ Follow(next, k)
  <2>1. page = PageOf(B) /\ items = page.items /\ next = page.next
    BY DEF TimelinePage, PageOf
  <2> HIDE DEF B, page, items, next, d, cursor
  <2> QED BY <1>5, <2>1, PageEffect
<1>7. items \in Seq(Key)
  <2> HIDE DEF items, B
  <2> QED BY <1>5, <1>6
<1>8. \A j \in 1 .. Len(items) : Before(LastOf(old), items[j])
  <2>1. \A k \in B : Before(LastOf(old), k)
    BY <1>2, <1>4
  <2> HIDE DEF items, B
  <2>2. \A j \in 1 .. Len(items) : items[j] \in B
    BY <1>6, ElementOfSeq
  <2> QED BY <2>1, <2>2
<1>9. /\ new \in Seq(Key) /\ Ascends(new)
      /\ Len(items) > 0 => Len(new) > 0 /\ LastOf(new) = LastOf(items)
      /\ \A k : Listed(k, old) \/ Listed(k, items) => Listed(k, new)
  <2> HIDE DEF items, old
  <2> QED BY <1>2, <1>6, <1>7, <1>8, PagesJoined
<1>10. Turning(reading')
  <2> HIDE DEF new, next, items, d
  <2>1. EndsAt(new, next)
    BY <1>6, <1>9 DEF EndsAt
  <2> QED BY <1>2, <1>3, <1>9, <2>1 DEF Turning
<1>11. ASSUME NEW k \in reading.began
       PROVE  Reached(reading', db, k)
  <2>1. Listed(k, old) \/ Follow(cursor, k) \/ k \notin RowKeys(db, d)
    BY <1>1 DEF TimelineFor, Reached
  <2>2. CASE Listed(k, old)
    BY <1>3, <1>9, <2>2 DEF Reached
  <2>3. CASE k \notin RowKeys(db, d)
    BY <1>3, <2>3 DEF Reached
  <2>4. CASE Follow(cursor, k) /\ k \in RowKeys(db, d)
    <3>1. k \in B
      BY <1>2, <1>4, <2>4 DEF Follow
    <3>2. Listed(k, items) \/ Follow(next, k)
      BY <1>6, <3>1
    <3> QED BY <1>3, <1>9, <3>2 DEF Reached
  <2> QED BY <2>1, <2>2, <2>3, <2>4
<1>12. \A k \in reading.began : k \in RowKeys(db, d) \/ Gone(db, d, k)
  BY <1>1 DEF TimelineFor
<1> HIDE DEF new, next, items, B, page
<1> QED BY <1>3, <1>10, <1>11, <1>12 DEF TimelineFor

(* No row twice, none missed that was there and still is.                  *)
LEMMA TimelineSays ==
  ASSUME TimelineFor(reading, db)
  PROVE  TimelineComplete
<1> SUFFICES ASSUME reading.kind = "timeline"
             PROVE  /\ IsInjective(reading.shown)
                    /\ \A k \in reading.began \cap OnDate(reading.date) :
                         \/ k \in {reading.shown[i] : i \in DOMAIN reading.shown}
                         \/ \E c \in reading.next : Earlier(c, k)
  BY DEF TimelineComplete, Earlier
<1> DEFINE f == reading.shown
<1>1. f \in Seq(Key) /\ Ascends(f)
  BY DEF TimelineFor, Turning
<1> HIDE DEF f
<1>2. DOMAIN f = 1 .. Len(f) /\ Len(f) \in Nat /\ \A i \in 1 .. Len(f) : f[i] \in Key
  BY <1>1, LenProperties, ElementOfSeq
<1>3. \A x \in Key : ~Before(x, x)
  BY BeforeTwice
<1>4. ASSUME NEW i \in 1 .. Len(f), NEW j \in 1 .. Len(f), f[i] = f[j]
      PROVE  i = j
  <2>1. i < j \/ j < i \/ i = j
    BY <1>2
  <2> QED BY <1>1, <1>2, <1>3, <1>4, <2>1 DEF Ascends
<1>5. IsInjective(f)
  BY <1>2, <1>4 DEF IsInjective
<1>6. ASSUME NEW k \in reading.began \cap OnDate(reading.date)
      PROVE  \/ k \in {f[i] : i \in DOMAIN f}
             \/ \E c \in reading.next : Earlier(c, k)
  <2>1. Reached(reading, db, k) /\ k \in RowKeys(db, reading.date)
    BY OnDateKeys DEF TimelineFor
  <2>2. Listed(k, f) \/ Follow(reading.next, k)
    BY <2>1 DEF Reached, f
  <2> QED BY <1>2, <2>2, EarlierIsBefore DEF Listed, Follow
<1> QED BY <1>5, <1>6 DEF f

-----------------------------------------------------------------------------
(***************************************************************************)
(* The reader beside the engine.                                           *)
(***************************************************************************)
allVars == <<vars, readVars>>

EngineHolds == EngineInv /\ WorldInv

LEMMA HereTyped ==
  ASSUME EngineHolds
  PROVE  RowsTyped(db)
BY HereNow DEF EngineHolds, EngineInv, Consistent, Typed, SegsTyped, GapsTyped, RowsTyped

LEMMA HereTypedNext ==
  ASSUME EngineHolds'
  PROVE  RowsTyped(db')
<1>1. Typed(Here')
  BY DEF EngineHolds, EngineInv, Consistent
<1>2. Here'.db = db'
  BY DEF Here, Begin
<1> QED BY <1>1, <1>2 DEF Typed, SegsTyped, GapsTyped, RowsTyped

(* A step of the engine leaves the reading alone, a step of the reader the *)
(* engine.                                                                 *)
LEMMA ReadSplit ==
  ASSUME [ReadNext]_allVars
  PROVE  \/ [Next]_vars /\ UNCHANGED readVars
         \/ ReaderNext /\ UNCHANGED vars
BY DEF ReadNext, allVars, readVars, ReaderNext, OpenTimeline, NextPage, OpenToday, NextStatement,
       FixTime, Close, Starts, Finishes

LEMMA EngineHoldsStep ==
  ASSUME EngineHolds, [ReadNext]_allVars
  PROVE  EngineHolds'
<1>1. [Next]_vars
  BY ReadSplit
<1> QED BY <1>1, EngineStep DEF EngineHolds

(* What holds of the engine holds of it beside a reader.                   *)
THEOREM ReadSpecEngineHolds == ReadSpec => []EngineHolds
<1>1. ReadInit => EngineHolds
  BY InitHolds DEF ReadInit, EngineHolds
<1>2. EngineHolds /\ [ReadNext]_allVars => EngineHolds'
  BY EngineHoldsStep
<1>3. ReadSpec => ReadInit /\ [][ReadNext]_allVars
  BY PTL DEF ReadSpec, allVars
<1> QED BY <1>1, <1>2, <1>3, PTL

TimelineHolds == TimelineFor(reading, db)

LEMMA TimelineStep ==
  ASSUME EngineHolds, EngineHolds', TimelineHolds, [ReadNext]_allVars
  PROVE  TimelineHolds'
<1>1. RowsTyped(db) /\ RowsTyped(db')
  BY HereTyped, HereTypedNext
<1>2. CASE [Next]_vars /\ UNCHANGED readVars
  <2>1. SegsGrow(db.segs, db'.segs) /\ GapsKept(db.gaps, db'.gaps)
    BY <1>2, EngineStep DEF EngineHolds, Moves
  <2>2. TimelineFor(reading, db')
    BY <1>1, <2>1, TimelineMoves DEF TimelineHolds
  <2> QED BY <1>2, <2>2 DEF readVars, TimelineHolds
<1>3. CASE ReaderNext /\ UNCHANGED vars
  <2>1. db' = db
    BY <1>3 DEF vars
  <2>2. ASSUME NEW d \in Dates, OpenTimeline(d) PROVE TimelineFor(reading', db)
    BY <1>1, <2>2, TimelineOpens
  <2>3. ASSUME NextPage PROVE TimelineFor(reading', db)
    BY <1>1, <2>3, TimelineTurns DEF TimelineHolds
  <2>4. ASSUME OpenToday PROVE reading'.kind = "today"
    BY <2>4 DEF OpenToday, Starts
  <2>5. ASSUME NextStatement PROVE TimelineFor(reading', db)
    BY <2>5 DEF NextStatement, TimelineFor
  <2>6. ASSUME FixTime PROVE reading'.kind = "statistics"
    BY <2>6 DEF FixTime, Starts
  <2>7. ASSUME Close PROVE reading'.kind = "none"
    BY <2>7 DEF Close, Finishes, NoReading
  <2>8. reading'.kind # "timeline" => TimelineFor(reading', db)
    BY DEF TimelineFor
  <2>9. TimelineFor(reading', db)
    BY <1>3, <2>2, <2>3, <2>4, <2>5, <2>6, <2>7, <2>8 DEF ReaderNext
  <2> QED BY <2>1, <2>9 DEF TimelineHolds
<1> QED BY <1>2, <1>3, ReadSplit

(* The timeline is complete: a user who turns the pages while the Agent    *)
(* inserts, extends and closes rows, crashes and recovers, sees no row     *)
(* twice, and has at every page seen every row of the date that was there  *)
(* at the first page and still is, up to the cursor - for any page size,   *)
(* any number of rows, and rows that begin at the same time (reader.rs:    *)
(* 268, keyset pagination).                                                *)
THEOREM ReadSpecTimelineComplete == ReadSpec => []TimelineComplete
<1>1. ReadInit => TimelineHolds
  BY DEF ReadInit, NoReading, TimelineHolds, TimelineFor
<1>2. EngineHolds /\ EngineHolds' /\ TimelineHolds /\ [ReadNext]_allVars => TimelineHolds'
  BY TimelineStep
<1>3. TimelineHolds => TimelineComplete
  BY TimelineSays DEF TimelineHolds
<1>4. ReadSpec => ReadInit /\ [][ReadNext]_allVars
  BY PTL DEF ReadSpec, allVars
<1> QED BY <1>1, <1>2, <1>3, <1>4, ReadSpecEngineHolds, PTL

-----------------------------------------------------------------------------
(***************************************************************************)
(* Sums of natural numbers: the number of the pairs of an element and a    *)
(* natural number below its value.                                         *)
(***************************************************************************)
Tally(h, S) == {p \in S \X Nat : p[2] < h[p[1]]}

Natural(h, S) == \A x \in S : h[x] \in Nat

LEMMA TallyOfOne ==
  ASSUME NEW h, NEW x, h[x] \in Nat
  PROVE  IsFiniteSet(Tally(h, {x})) /\ Cardinality(Tally(h, {x})) = h[x]
<1> DEFINE n == h[x]
           T == 0 .. n - 1
<1>1. Tally(h, {x}) = {x} \X T
  BY DEF Tally
<1>2. n \in Nat
  OBVIOUS
<1> HIDE DEF n
<1>3. IsFiniteSet(T) /\ Cardinality(T) = n
  <2>1. 0 \in Int /\ n - 1 \in Int
    BY <1>2
  <2>2. Cardinality(T) = IF 0 > n - 1 THEN 0 ELSE (n - 1) - 0 + 1
    BY <2>1, FS_Interval
  <2>3. IsFiniteSet(T)
    BY <2>1, FS_Interval
  <2> QED BY <1>2, <2>2, <2>3
<1> HIDE DEF T
<1>4. IsFiniteSet({x}) /\ Cardinality({x}) = 1
  BY FS_Singleton
<1>5. IsFiniteSet({x} \X T) /\ Cardinality({x} \X T) = Cardinality({x}) * Cardinality(T)
  BY <1>3, <1>4, FS_Product
<1>6. Cardinality({x} \X T) = n
  BY <1>2, <1>3, <1>4, <1>5
<1>7. IsFiniteSet(Tally(h, {x})) /\ Cardinality(Tally(h, {x})) = n
  BY <1>1, <1>5, <1>6, Zenon
<1> QED BY <1>7 DEF n

LEMMA TallyFinite ==
  ASSUME NEW S, IsFiniteSet(S), NEW h, Natural(h, S)
  PROVE  IsFiniteSet(Tally(h, S))
<1> DEFINE f == [x \in S |-> Tally(h, {x})]
           T == {Tally(h, {x}) : x \in S}
<1>1. f \in Surjection(S, T)
  BY DEF Surjection
<1>2. IsFiniteSet(T)
  BY <1>1, FS_Surjection
<1>3. \A y \in T : IsFiniteSet(y)
  BY TallyOfOne DEF Natural
<1>4. Tally(h, S) = UNION T
  BY DEF Tally
<1> HIDE DEF T
<1> QED BY <1>2, <1>3, <1>4, FS_UNION

LEMMA TallyAdds ==
  ASSUME NEW S, IsFiniteSet(S), NEW h, Natural(h, S), NEW g,
         g = [s \in SUBSET S |-> Cardinality(Tally(h, s))]
  PROVE  Adds(h, g, S) /\ g[S] = Cardinality(Tally(h, S)) /\ g[S] \in Nat
<1>1. ASSUME NEW s \in SUBSET S, s # {}
      PROVE  g[s] = h[Chosen(s)] + g[s \ {Chosen(s)}]
  <2> DEFINE x == Chosen(s)
             A == Tally(h, {x})
             B == Tally(h, s \ {x})
  <2>1. x \in s /\ x \in S
    BY <1>1 DEF Chosen
  <2>2. IsFiniteSet(A) /\ Cardinality(A) = h[x] /\ h[x] \in Nat
    BY <2>1, TallyOfOne DEF Natural
  <2>3. IsFiniteSet(B) /\ Cardinality(B) \in Nat
    <3>1. IsFiniteSet(s \ {x}) /\ Natural(h, s \ {x})
      BY FS_Subset DEF Natural
    <3> QED BY <3>1, TallyFinite, FS_CardinalityType
  <2>4. Tally(h, s) = A \cup B /\ A \cap B = {}
    BY <2>1 DEF Tally
  <2>5. s \ {x} \in SUBSET S
    OBVIOUS
  <2>6. g[s] = Cardinality(Tally(h, s)) /\ g[s \ {x}] = Cardinality(B)
    BY <2>5
  <2> HIDE DEF A, B, x
  <2>7. Cardinality(A \cup B) = Cardinality(A) + Cardinality(B) - Cardinality(A \cap B)
    BY <2>2, <2>3, FS_Union
  <2>8. Cardinality(A \cap B) = 0
    BY <2>4, FS_EmptySet, Zenon
  <2>9. Cardinality(A \cup B) = h[x] + Cardinality(B)
    BY <2>2, <2>3, <2>7, <2>8
  <2>10. g[s] = h[x] + g[s \ {x}]
    BY <2>4, <2>6, <2>9
  <2> QED BY <2>10 DEF x
<1>2. g[{}] = 0
  <2>1. Tally(h, {}) = {}
    BY DEF Tally
  <2> QED BY <2>1, FS_EmptySet
<1>3. Adds(h, g, S)
  <2>1. \A s \in SUBSET S : g[s] = IF s = {} THEN 0 ELSE h[Chosen(s)] + g[s \ {Chosen(s)}]
    BY <1>1, <1>2
  <2>2. g = [s \in SUBSET S |-> g[s]]
    OBVIOUS
  <2> QED BY <2>1, <2>2 DEF Adds
<1>4. g[S] = Cardinality(Tally(h, S))
  OBVIOUS
<1>5. g[S] \in Nat
  BY <1>4, TallyFinite, FS_CardinalityType
<1> QED BY <1>3, <1>4, <1>5

(* The sums of the heat map and of the hourly profile.                     *)
LEMMA HourTotalCounts ==
  ASSUME NEW u, NEW state, NEW h, Natural(h, Apps), \A a \in Apps : h[a] = db.hourly[u][a][state]
  PROVE  HourTotal(u, state) = Cardinality(Tally(h, Apps)) /\ HourTotal(u, state) \in Nat
<1> DEFINE S == Apps
           Iter(f) ==
             f = [s \in SUBSET S |->
                    IF s = {} THEN 0
                    ELSE db.hourly[u][CHOOSE x \in s : TRUE][state]
                           + f[s \ {CHOOSE x \in s : TRUE}]]
           f == CHOOSE f : Iter(f)
           g == [s \in SUBSET S |-> Cardinality(Tally(h, s))]
<1>1. IsFiniteSet(S)
  BY StatisticsConstants
<1>2. Adds(h, g, S) /\ g[S] = Cardinality(Tally(h, S)) /\ g[S] \in Nat
  <2> HIDE DEF S
  <2>1. Natural(h, S)
    BY DEF S
  <2> HIDE DEF g
  <2>2. g = [s \in SUBSET S |-> Cardinality(Tally(h, s))]
    BY DEF g
  <2> QED BY <1>1, <2>1, <2>2, TallyAdds
<1> HIDE DEF g
<1>3. ASSUME NEW s \in SUBSET S, s # {}
      PROVE  h[Chosen(s)] = db.hourly[u][CHOOSE x \in s : TRUE][state]
  BY <1>3 DEF Chosen
<1>4. \A k : Iter(k) <=> Adds(h, k, S)
  BY <1>3 DEF Adds, Chosen
<1>5. Iter(f)
  <2>1. Iter(g)
    BY <1>2, <1>4
  <2> HIDE DEF Iter
  <2> QED BY <2>1
<1>6. f = g
  BY <1>1, <1>2, <1>4, <1>5, OneSum
<1>7. HourTotal(u, state) = f[S]
  BY DEF HourTotal, SumOver, MapThenSumSet, MapThenFoldSet
<1> QED BY <1>2, <1>6, <1>7

LEMMA HoursSumNatural ==
  ASSUME NEW S, IsFiniteSet(S), \A u \in S : HourTotal(u, "active") \in Nat
  PROVE  SumOver(S, LAMBDA u : HourTotal(u, "active")) \in Nat
<1> DEFINE Iter(f) ==
             f = [s \in SUBSET S |->
                    IF s = {} THEN 0
                    ELSE HourTotal(CHOOSE x \in s : TRUE, "active")
                           + f[s \ {CHOOSE x \in s : TRUE}]]
           f == CHOOSE f : Iter(f)
           h == [u \in S |-> HourTotal(u, "active")]
           g == [s \in SUBSET S |-> Cardinality(Tally(h, s))]
<1>2. Adds(h, g, S) /\ g[S] \in Nat
  <2>1. Natural(h, S)
    BY DEF Natural
  <2> HIDE DEF h
  <2> HIDE DEF g
  <2>2. g = [s \in SUBSET S |-> Cardinality(Tally(h, s))]
    BY DEF g
  <2> QED BY <2>1, <2>2, TallyAdds
<1> HIDE DEF g
<1>3. ASSUME NEW s \in SUBSET S, s # {}
      PROVE  h[Chosen(s)] = HourTotal(CHOOSE x \in s : TRUE, "active")
  BY <1>3 DEF Chosen
<1> HIDE DEF h
<1>4. \A k : Iter(k) <=> Adds(h, k, S)
  BY <1>3 DEF Adds, Chosen
<1>5. Iter(f)
  <2>1. Iter(g)
    BY <1>2, <1>4
  <2> HIDE DEF Iter
  <2> QED BY <2>1
<1>6. f = g
  BY <1>2, <1>4, <1>5, OneSum
<1>7. SumOver(S, LAMBDA u : HourTotal(u, "active")) = f[S]
  BY DEF SumOver, MapThenSumSet, MapThenFoldSet
<1> QED BY <1>2, <1>6, <1>7

-----------------------------------------------------------------------------
(***************************************************************************)
(* The hours of the clock.  Two hours are the same if whole days lie       *)
(* between them.                                                           *)
(***************************************************************************)
DaySize == DayTicks \div HourTicks

Turn(m) == \E q \in Int : m = q * DaySize

LEMMA DivMod ==
  ASSUME NEW x \in Int, NEW n \in Nat \ {0}
  PROVE  /\ x \div n \in Int /\ x % n \in 0 .. n - 1
         /\ x = (x \div n) * n + (x % n)
OBVIOUS

LEMMA DaySizeFacts ==
  /\ DaySize \in Nat \ {0} /\ DayHours = 0 .. DaySize - 1
  /\ IsFiniteSet(DayHours) /\ Cardinality(DayHours) = DaySize
<1>1. DayTicks \in Nat \ {0} /\ HourTicks \in Nat \ {0} /\ DayTicks % HourTicks = 0
  BY ProjectionConstants, StatisticsConstants
<1>2. DaySize \in Int /\ DayTicks = DaySize * HourTicks
  BY <1>1, DivMod DEF DaySize
<1>3. DaySize > 0
  <2>1. SUFFICES ASSUME DaySize <= 0 PROVE FALSE
    BY <1>2
  <2>2. DaySize * HourTicks <= 0
    BY <1>1, <1>2, <2>1
  <2> QED BY <1>1, <1>2, <2>2
<1>4. DayHours = 0 .. DaySize - 1
  BY DEF DayHours, DaySize
<1>5. 0 \in Int /\ DaySize - 1 \in Int
  BY <1>2
<1> HIDE DEF DaySize
<1>6. Cardinality(0 .. DaySize - 1) = IF 0 > DaySize - 1 THEN 0 ELSE (DaySize - 1) - 0 + 1
  BY <1>5, FS_Interval
<1>7. IsFiniteSet(0 .. DaySize - 1)
  BY <1>5, FS_Interval
<1> QED BY <1>2, <1>3, <1>4, <1>6, <1>7

LEMMA Turns ==
  ASSUME NEW a \in Int, NEW b \in Int, Turn(a), Turn(b)
  PROVE  /\ Turn(a + b) /\ Turn(a - b)
<1>1. PICK p \in Int : a = p * DaySize
  BY DEF Turn
<1>2. PICK q \in Int : b = q * DaySize
  BY DEF Turn
<1> DEFINE n == DaySize
<1>3. n \in Int
  BY DaySizeFacts
<1>4. a = p * n /\ b = q * n
  BY <1>1, <1>2
<1> HIDE DEF n
<1>5. a + b = (p + q) * n /\ a - b = (p - q) * n
  BY <1>3, <1>4
<1>6. p + q \in Int /\ p - q \in Int
  OBVIOUS
<1> QED BY <1>5, <1>6 DEF Turn, n

LEMMA WholeTurns ==
  /\ Turn(0) /\ Turn(DaySize)
<1> DEFINE n == DaySize
<1>1. n \in Int
  BY DaySizeFacts
<1> HIDE DEF n
<1>2. 0 = 0 * n /\ n = 1 * n
  BY <1>1
<1> QED BY <1>2 DEF Turn, n

LEMMA ClockTurns ==
  ASSUME NEW x \in Int
  PROVE  Clock(x) \in DayHours /\ Clock(x) \in Int /\ Turn(x - Clock(x))
<1> DEFINE n == DaySize
<1>1. n \in Nat \ {0} /\ Clock(x) = x % n /\ DayHours = 0 .. n - 1
  BY DaySizeFacts DEF Clock
<1> HIDE DEF n
<1>2. x \div n \in Int /\ x % n \in 0 .. n - 1 /\ x = (x \div n) * n + (x % n)
  BY <1>1, DivMod
<1>3. x - (x % n) = (x \div n) * n
  <2> DEFINE d == (x \div n) * n
  <2>1. d \in Int
    BY <1>1, <1>2
  <2>2. x = d + (x % n)
    BY <1>2
  <2> HIDE DEF d
  <2>3. x - (x % n) = d
    BY <1>2, <2>1, <2>2
  <2> QED BY <2>3 DEF d
<1>4. Clock(x) \in DayHours /\ Clock(x) \in Int
  BY <1>1, <1>2
<1>5. x - Clock(x) = (x \div n) * n
  BY <1>1, <1>3
<1>6. Turn(x - Clock(x))
  BY <1>2, <1>5 DEF Turn, n
<1> QED BY <1>4, <1>6

(* There is no other hour of the clock whole days away.                    *)
LEMMA TurnIsZero ==
  ASSUME NEW d \in Int, Turn(d), d < DaySize, -DaySize < d
  PROVE  d = 0
<1>1. PICK q \in Int : d = q * DaySize
  BY DEF Turn
<1> DEFINE n == DaySize
<1>2. n \in Nat \ {0} /\ d = q * n /\ d < n /\ -n < d
  BY <1>1, DaySizeFacts
<1> HIDE DEF n
<1>3. CASE q >= 1
  <2>1. (q - 1) * n >= 0
    BY <1>2, <1>3
  <2>2. q * n = (q - 1) * n + n
    BY <1>2
  <2> QED BY <1>2, <2>1, <2>2
<1>4. CASE q <= -1
  <2>1. (q + 1) * n <= 0
    BY <1>2, <1>4
  <2>2. q * n = (q + 1) * n - n
    BY <1>2
  <2> QED BY <1>2, <2>1, <2>2
<1>5. CASE q = 0
  BY <1>2, <1>5
<1> QED BY <1>3, <1>4, <1>5

LEMMA ClockIs ==
  ASSUME NEW x \in Int, NEW r \in Int, r \in DayHours, Turn(x - r)
  PROVE  Clock(x) = r
<1>1. Clock(x) \in DayHours /\ Clock(x) \in Int /\ Turn(x - Clock(x))
  BY ClockTurns
<1>2. x - r \in Int /\ x - Clock(x) \in Int
  BY <1>1
<1>3. Turn((x - r) - (x - Clock(x)))
  BY <1>1, <1>2, Turns
<1>4. (x - r) - (x - Clock(x)) = Clock(x) - r
  BY <1>1
<1>5. Turn(Clock(x) - r)
  BY <1>3, <1>4
<1>6. Clock(x) - r < DaySize /\ -DaySize < Clock(x) - r
  BY <1>1, DaySizeFacts
<1>7. Clock(x) - r = 0
  BY <1>1, <1>5, <1>6, TurnIsZero
<1> QED BY <1>1, <1>7

LEMMA ClockSame ==
  ASSUME NEW x \in Int, NEW y \in Int, Turn(x - y)
  PROVE  Clock(x) = Clock(y)
<1>1. Clock(y) \in DayHours /\ Clock(y) \in Int /\ Turn(y - Clock(y))
  BY ClockTurns
<1>2. Turn((x - y) + (y - Clock(y)))
  BY <1>1, Turns
<1>3. (x - y) + (y - Clock(y)) = x - Clock(y)
  BY <1>1
<1> QED BY <1>1, <1>2, <1>3, ClockIs

LEMMA TurnReversed ==
  ASSUME NEW x \in Int, NEW y \in Int, Turn(x - y)
  PROVE  Turn(y - x)
<1>1. x - y \in Int /\ 0 \in Int /\ 0 - (x - y) = y - x
  OBVIOUS
<1>2. Turn(0)
  BY WholeTurns
<1>3. Turn(0 - (x - y))
  BY <1>1, <1>2, Turns
<1> QED BY <1>1, <1>3

(* What is the same whole days away, added and taken.                      *)
LEMMA TurnSum ==
  ASSUME NEW a \in Int, NEW b \in Int, NEW c \in Int, NEW d \in Int, Turn(a - c), Turn(b - d)
  PROVE  Turn((a + b) - (c + d)) /\ Turn((a - b) - (c - d))
<1>1. Turn((a - c) + (b - d)) /\ Turn((a - c) - (b - d))
  BY Turns
<1>2. (a - c) + (b - d) = (a + b) - (c + d) /\ (a - c) - (b - d) = (a - b) - (c - d)
  OBVIOUS
<1> QED BY <1>1, <1>2

LEMMA TurnSelf ==
  ASSUME NEW a \in Int
  PROVE  Turn(a - a)
<1>1. a - a = 0
  OBVIOUS
<1> QED BY <1>1, WholeTurns

-----------------------------------------------------------------------------
(***************************************************************************)
(* The spell of work.                                                      *)
(***************************************************************************)
(* A walk around the clock reaches the first break after at least one      *)
(* hour; both walks together are not longer than the day.                  *)
LEMMA WalkAhead ==
  ASSUME NEW breaks, breaks \subseteq DayHours, breaks # {},
         NEW peak, peak \in DayHours \ breaks, NEW a, a = HoursAhead(peak, breaks)
  PROVE  /\ a \in 1 .. DaySize - 1 /\ Clock(peak + a) \in breaks
         /\ \A k \in 0 .. a - 1 : Clock(peak + k) \notin breaks
<1> DEFINE n == DaySize
           T == {k \in 0 .. n : Clock(peak + k) \in breaks}
<1>1. /\ n \in Nat \ {0} /\ DayHours = 0 .. n - 1 /\ Cardinality(DayHours) = n
      /\ peak \in 0 .. n - 1
  BY DaySizeFacts
<1>2. a = Min(T)
  BY <1>1 DEF HoursAhead
<1>3. PICK s : s \in breaks
  OBVIOUS
<1>4. s \in Int /\ s \in DayHours
  BY <1>1, <1>3
<1>5. Clock(s - peak) \in T
  <2> DEFINE k == Clock(s - peak)
  <2>1. s - peak \in Int
    BY <1>1, <1>4
  <2>2. k \in 0 .. n - 1 /\ Turn((s - peak) - k)
    BY <1>1, <2>1, ClockTurns
  <2> HIDE DEF k
  <2>3. (s - peak) - k \in Int /\ peak + k \in Int
    BY <1>1, <1>4, <2>2
  <2>4. Turn(0 - ((s - peak) - k))
    BY <2>2, <2>3, Turns, WholeTurns
  <2>5. 0 - ((s - peak) - k) = (peak + k) - s
    BY <1>1, <1>4, <2>2
  <2>6. Turn((peak + k) - s)
    BY <2>4, <2>5
  <2>7. Clock(peak + k) = s
    BY <1>4, <2>3, <2>6, ClockIs
  <2>8. k \in 0 .. n
    BY <1>1, <2>2
  <2>9. k \in T
    BY <1>3, <2>7, <2>8
  <2> QED BY <2>9 DEF k
<1>6. T \in SUBSET Int /\ IsFiniteSet(T) /\ T # {}
  <2>1. 0 \in Int /\ n \in Int
    BY <1>1
  <2>2. IsFiniteSet(0 .. n)
    BY <2>1, FS_Interval
  <2>3. T \subseteq 0 .. n /\ T # {}
    BY <1>5
  <2>4. T \in SUBSET Int
    BY <2>1, <2>3
  <2> HIDE DEF T
  <2> QED BY <2>2, <2>3, <2>4, FS_Subset
<1>7. a \in T /\ \A k \in T : a <= k
  <2> HIDE DEF T
  <2> QED BY <1>2, <1>6, MinOfSet
<1>8. Clock(peak + 0) = peak
  <2>1. peak + 0 = peak /\ peak \in Int
    BY <1>1
  <2>2. Turn(peak - peak)
    BY <2>1, TurnSelf
  <2> QED BY <2>1, <2>2, ClockIs
<1>9. a # 0
  BY <1>7, <1>8
<1>10. Clock(s - peak) \in 0 .. n - 1
  <2>1. s - peak \in Int
    BY <1>1, <1>4
  <2> QED BY <1>1, <2>1, ClockTurns
<1>11. a <= n - 1
  BY <1>1, <1>5, <1>7, <1>10
<1>12. a \in 1 .. n - 1
  BY <1>1, <1>7, <1>9, <1>11
<1>13. ASSUME NEW k \in 0 .. a - 1
       PROVE  Clock(peak + k) \notin breaks
  <2>1. k \in 0 .. n /\ ~(a <= k)
    BY <1>1, <1>12
  <2>2. k \notin T
    BY <1>7, <2>1
  <2> QED BY <2>1, <2>2
<1> QED BY <1>7, <1>12, <1>13

LEMMA WalkBack ==
  ASSUME NEW breaks, breaks \subseteq DayHours, breaks # {},
         NEW peak, peak \in DayHours \ breaks, NEW b, b = HoursBack(peak, breaks)
  PROVE  /\ b \in 1 .. DaySize - 1 /\ Clock(peak - b) \in breaks
         /\ \A k \in 0 .. b - 1 : Clock(peak - k) \notin breaks
         /\ \A k \in 0 .. DaySize : Clock(peak - k) \in breaks => b <= k
<1> DEFINE n == DaySize
           T == {k \in 0 .. n : Clock(peak - k) \in breaks}
<1>1. /\ n \in Nat \ {0} /\ DayHours = 0 .. n - 1 /\ Cardinality(DayHours) = n
      /\ peak \in 0 .. n - 1
  BY DaySizeFacts
<1>2. b = Min(T)
  BY <1>1 DEF HoursBack
<1>3. PICK s : s \in breaks
  OBVIOUS
<1>4. s \in Int /\ s \in DayHours
  BY <1>1, <1>3
<1>5. Clock(peak - s) \in T
  <2> DEFINE k == Clock(peak - s)
  <2>1. peak - s \in Int
    BY <1>1, <1>4
  <2>2. k \in 0 .. n - 1 /\ Turn((peak - s) - k)
    BY <1>1, <2>1, ClockTurns
  <2> HIDE DEF k
  <2>3. (peak - s) - k = (peak - k) - s /\ peak - k \in Int
    BY <1>1, <1>4, <2>2
  <2>4. Turn((peak - k) - s)
    BY <2>2, <2>3
  <2>5. Clock(peak - k) = s
    BY <1>4, <2>3, <2>4, ClockIs
  <2>6. k \in 0 .. n
    BY <1>1, <2>2
  <2>7. k \in T
    BY <1>3, <2>5, <2>6
  <2> QED BY <2>7 DEF k
<1>6. T \in SUBSET Int /\ IsFiniteSet(T) /\ T # {}
  <2>1. 0 \in Int /\ n \in Int
    BY <1>1
  <2>2. IsFiniteSet(0 .. n)
    BY <2>1, FS_Interval
  <2>3. T \subseteq 0 .. n /\ T # {}
    BY <1>5
  <2>4. T \in SUBSET Int
    BY <2>1, <2>3
  <2> HIDE DEF T
  <2> QED BY <2>2, <2>3, <2>4, FS_Subset
<1>7. b \in T /\ \A k \in T : b <= k
  <2> HIDE DEF T
  <2> QED BY <1>2, <1>6, MinOfSet
<1>8. Clock(peak - 0) = peak
  <2>1. peak - 0 = peak /\ peak \in Int
    BY <1>1
  <2>2. Turn(peak - peak)
    BY <2>1, TurnSelf
  <2> QED BY <2>1, <2>2, ClockIs
<1>9. b # 0
  BY <1>7, <1>8
<1>10. Clock(peak - s) \in 0 .. n - 1
  <2>1. peak - s \in Int
    BY <1>1, <1>4
  <2> QED BY <1>1, <2>1, ClockTurns
<1>11. b <= n - 1
  BY <1>1, <1>5, <1>7, <1>10
<1>12. b \in 1 .. n - 1
  BY <1>1, <1>7, <1>9, <1>11
<1>13. ASSUME NEW k \in 0 .. b - 1
       PROVE  Clock(peak - k) \notin breaks
  <2>1. k \in 0 .. n /\ ~(b <= k)
    BY <1>1, <1>12
  <2>2. k \notin T
    BY <1>7, <2>1
  <2> QED BY <2>1, <2>2
<1> QED BY <1>7, <1>12, <1>13

LEMMA WalksApart ==
  ASSUME NEW breaks, breaks \subseteq DayHours, breaks # {},
         NEW peak, peak \in DayHours \ breaks,
         NEW a, a = HoursAhead(peak, breaks), NEW b, b = HoursBack(peak, breaks)
  PROVE  a + b <= DaySize
<1>1. a \in 1 .. DaySize - 1 /\ Clock(peak + a) \in breaks
  BY WalkAhead
<1>2. b \in 1 .. DaySize - 1
  BY WalkBack
<1>3. DaySize \in Nat /\ peak \in Int
  BY DaySizeFacts
<1>4. peak + a \in Int /\ peak - (DaySize - a) \in Int /\ DaySize - a \in 0 .. DaySize
  BY <1>1, <1>3
<1>5. (peak + a) - (peak - (DaySize - a)) = DaySize
  BY <1>1, <1>3
<1>6. Clock(peak + a) = Clock(peak - (DaySize - a))
  BY <1>4, <1>5, ClockSame, WholeTurns
<1>7. \A k \in 0 .. DaySize : Clock(peak - k) \in breaks => b <= k
  BY WalkBack
<1>8. b <= DaySize - a
  BY <1>1, <1>4, <1>6, <1>7
<1> QED BY <1>1, <1>2, <1>3, <1>8

Slack(profile, most) == {h \in DayHours : profile[h] * 100 < most * 30}

Arc(from, to) == {h \in DayHours : Clock(h - from) <= Clock(to - from)}

(* From one hour after the break behind the peak to one hour before the    *)
(* break ahead of it.                                                      *)
LEMMA SpellOf ==
  ASSUME NEW breaks, breaks \subseteq DayHours, breaks # {},
         NEW peak, peak \in DayHours \ breaks,
         NEW a, a = HoursAhead(peak, breaks), NEW b, b = HoursBack(peak, breaks),
         NEW from, from = Clock(peak - b + 1), NEW to, to = Clock(peak + a - 1)
  PROVE  /\ peak \in Arc(from, to) /\ \A h \in Arc(from, to) : h \notin breaks
         /\ Clock(from - 1) \in breaks /\ Clock(to + 1) \in breaks
<1>1. /\ a \in 1 .. DaySize - 1 /\ Clock(peak + a) \in breaks
      /\ \A k \in 0 .. a - 1 : Clock(peak + k) \notin breaks
  BY WalkAhead
<1>2. b \in 1 .. DaySize - 1 /\ Clock(peak - b) \in breaks
  BY WalkBack
<1>3. \A k \in 0 .. b - 1 : Clock(peak - k) \notin breaks
  BY WalkBack
<1>4. a + b <= DaySize
  BY WalksApart
<1>5. /\ DaySize \in Nat \ {0} /\ DayHours = 0 .. DaySize - 1 /\ peak \in 0 .. DaySize - 1
  BY DaySizeFacts
<1> DEFINE first == peak - b + 1
           last == peak + a - 1
<1>6. first \in Int /\ last \in Int /\ first = peak - b + 1 /\ last = peak + a - 1
  BY <1>1, <1>2, <1>5
<1>7. from = Clock(first) /\ to = Clock(last)
  OBVIOUS
<1> HIDE DEF first, last
<1>8. from \in 0 .. DaySize - 1 /\ Turn(first - from)
  BY <1>5, <1>6, <1>7, ClockTurns
<1>9. to \in 0 .. DaySize - 1 /\ Turn(last - to)
  BY <1>5, <1>6, <1>7, ClockTurns
<1>10. from \in Int /\ to \in Int /\ peak \in Int
  BY <1>5, <1>8, <1>9
<1>11. Turn(from - first) /\ Turn(to - last)
  <2>1. Turn(from - first)
    BY <1>6, <1>8, <1>10, TurnReversed
  <2>2. Turn(to - last)
    BY <1>6, <1>9, <1>10, TurnReversed
  <2> QED BY <2>1, <2>2
<1>12. Clock(to - from) = a + b - 2
  <2>1. Turn((to - from) - (last - first))
    BY <1>6, <1>10, <1>11, TurnSum
  <2>2. last - first = a + b - 2 /\ a + b - 2 \in 0 .. DaySize - 1
    <3>1. a \in Int /\ b \in Int /\ 1 <= a /\ 1 <= b
      BY <1>1, <1>2, <1>5
    <3>2. last - first = a + b - 2
      BY <1>6, <1>10, <3>1
    <3>3. DaySize \in Int
      BY <1>5
    <3>4. a + b - 2 \in 0 .. DaySize - 1
      BY <1>4, <3>1, <3>3
    <3> QED BY <3>2, <3>4
  <2>3. to - from \in Int
    BY <1>10
  <2>4. a + b - 2 \in Int /\ a + b - 2 \in DayHours
    BY <1>5, <2>2
  <2> QED BY <2>1, <2>2, <2>3, <2>4, ClockIs
<1>13. Clock(peak - from) = b - 1
  <2>1. Turn((peak - from) - (peak - first))
    BY <1>6, <1>10, <1>11, TurnSum, TurnSelf
  <2>2. peak - first = b - 1 /\ b - 1 \in 0 .. DaySize - 1
    BY <1>2, <1>5, <1>6
  <2>3. peak - from \in Int
    BY <1>10
  <2>4. b - 1 \in Int /\ b - 1 \in DayHours
    BY <1>5, <2>2
  <2> QED BY <2>1, <2>2, <2>3, <2>4, ClockIs
<1>14. peak \in Arc(from, to)
  <2>1. b - 1 <= a + b - 2
    BY <1>1, <1>2
  <2> QED BY <1>12, <1>13, <2>1 DEF Arc
<1>15. ASSUME NEW h \in Arc(from, to)
       PROVE  h \notin breaks
  <2> DEFINE k == Clock(h - from)
  <2>1. h \in Int /\ h \in DayHours /\ k <= a + b - 2
    BY <1>5, <1>12 DEF Arc
  <2>2. h - from \in Int
    BY <1>10, <2>1
  <2>3. k \in 0 .. DaySize - 1 /\ Turn((h - from) - k)
    BY <1>5, <2>2, ClockTurns
  <2> HIDE DEF k
  <2>4. k \in Int /\ (h - from) - k \in Int /\ from - first \in Int
    BY <1>6, <1>10, <2>2, <2>3
  <2>5. Turn(((h - from) - k) + (from - first))
    BY <1>11, <2>3, <2>4, Turns
  <2>6. ((h - from) - k) + (from - first) = h - (first + k)
    BY <1>6, <1>10, <2>1, <2>4
  <2>7. Turn((first + k) - h)
    BY <1>6, <2>1, <2>4, <2>5, <2>6, TurnReversed
  <2>8. Clock(first + k) = h
    BY <1>6, <2>1, <2>4, <2>7, ClockIs
  <2>9. CASE k <= b - 1
    <3>1. first + k = peak - (b - 1 - k) /\ b - 1 - k \in 0 .. b - 1
      BY <1>2, <1>6, <1>10, <2>3, <2>4, <2>9
    <3> QED BY <1>3, <2>8, <3>1
  <2>10. CASE k > b - 1
    <3>1. first + k = peak + (k - b + 1) /\ k - b + 1 \in 0 .. a - 1
      BY <1>1, <1>2, <1>6, <1>10, <2>1, <2>3, <2>4, <2>10
    <3> QED BY <1>1, <2>8, <3>1
  <2> QED BY <1>2, <2>4, <2>9, <2>10
<1>16. Clock(from - 1) \in breaks
  <2>1. from - 1 \in Int /\ peak - b \in Int /\ (from - 1) - (peak - b) = from - first
    BY <1>2, <1>6, <1>10
  <2>2. Clock(from - 1) = Clock(peak - b)
    BY <1>11, <2>1, ClockSame
  <2> QED BY <1>2, <2>2
<1>17. Clock(to + 1) \in breaks
  <2>1. to + 1 \in Int /\ peak + a \in Int /\ (to + 1) - (peak + a) = to - last
    BY <1>1, <1>6, <1>10
  <2>2. Clock(to + 1) = Clock(peak + a)
    BY <1>11, <2>1, ClockSame
  <2> QED BY <1>1, <2>2
<1> QED BY <1>14, <1>15, <1>16, <1>17

(* derive_inertia, for any profile.                                        *)
LEMMA InertiaSpell ==
  ASSUME NEW profile, \A h \in DayHours : profile[h] \in Nat, NEW days,
         NEW most, most = Max({profile[g] : g \in DayHours}),
         NEW spell, spell = Inertia(profile, days),
         NEW from \in spell.start, NEW to \in spell.end, NEW peak \in spell.peak
  PROVE  /\ Slack(profile, most) # {} =>
              /\ peak \in Arc(from, to) /\ \A h \in Arc(from, to) : h \notin Slack(profile, most)
              /\ Clock(from - 1) \in Slack(profile, most)
              /\ Clock(to + 1) \in Slack(profile, most)
         /\ Slack(profile, most) = {} => from = peak /\ to = peak
<1> DEFINE V == {profile[g] : g \in DayHours}
           breaks == Slack(profile, most)
           top == Min({h \in DayHours : profile[h] = most})
<1>1. ~(days < MinDays \/ most = 0)
  <2>1. SUFFICES ASSUME days < MinDays \/ most = 0 PROVE FALSE
    OBVIOUS
  <2>2. spell = NoInertia(Reliability(days))
    BY <2>1 DEF Inertia
  <2> QED BY <2>2 DEF NoInertia
<1>2. /\ spell.peak = {top}
      /\ spell.start = {IF breaks = {} THEN top ELSE Clock(top - HoursBack(top, breaks) + 1)}
      /\ spell.end = {IF breaks = {} THEN top ELSE Clock(top + HoursAhead(top, breaks) - 1)}
  BY <1>1 DEF Inertia, Slack
<1>3. DayHours \in SUBSET Int /\ IsFiniteSet(DayHours) /\ 0 \in DayHours
  BY DaySizeFacts
<1>4. most \in V /\ \A x \in V : x <= most
  <2>1. IsFiniteSet(V)
    BY <1>3, ImageFinite
  <2>2. V \in SUBSET Int /\ V # {}
    BY <1>3
  <2> HIDE DEF V
  <2>3. most = Max(V)
    BY DEF V
  <2> QED BY <2>1, <2>2, <2>3, MaxOfSet
<1>5. PICK g \in DayHours : profile[g] = most
  BY <1>4
<1>6. top \in DayHours /\ profile[top] = most
  <2> DEFINE T == {h \in DayHours : profile[h] = most}
  <2>1. T \subseteq DayHours /\ g \in T
    BY <1>5
  <2>2. IsFiniteSet(T) /\ T \in SUBSET Int
    BY <1>3, <2>1, FS_Subset
  <2>3. Min(T) \in T
    <3> HIDE DEF T
    <3> QED BY <2>1, <2>2, MinOfSet
  <2> QED BY <2>3
<1>7. top \in DayHours \ breaks /\ breaks \subseteq DayHours
  <2>1. most \in Nat /\ most # 0
    BY <1>1, <1>5
  <2>2. ~(most * 100 < most * 30)
    BY <2>1
  <2> QED BY <1>6, <2>2 DEF Slack
<1> HIDE DEF breaks, top
<1>8. ASSUME breaks # {}
      PROVE  /\ peak \in Arc(from, to) /\ \A h \in Arc(from, to) : h \notin breaks
             /\ Clock(from - 1) \in breaks /\ Clock(to + 1) \in breaks
  <2>1. /\ peak = top /\ from = Clock(top - HoursBack(top, breaks) + 1)
        /\ to = Clock(top + HoursAhead(top, breaks) - 1)
    BY <1>2, <1>8
  <2> QED BY <1>7, <1>8, <2>1, SpellOf
<1>9. ASSUME breaks = {}
      PROVE  from = peak /\ to = peak
  BY <1>2, <1>9
<1> QED BY <1>8, <1>9 DEF breaks

(* The numbers the profile is made of.                                     *)
LEMMA HourIsNatural ==
  ASSUME EngineHolds, NEW u \in Hours
  PROVE  HourTotal(u, "active") \in Nat
<1> DEFINE lo == u * HourTicks
           hi == (u + 1) * HourTicks
           h == [a \in Apps |-> Total(db.segs, HitsIn(db.segs, a, "active", lo, hi), lo, hi)]
<1>1. Segments(db.segs)
  BY HereTyped DEF RowsTyped
<1>2. lo \in Int /\ hi \in Int /\ lo < hi
  BY BucketBounds
<1>3. db.hourly[u] = Usage(db.segs, lo, hi)
  BY HereNow DEF EngineHolds, EngineInv, Consistent, TablesOK, Fresh, HourUsage
<1> HIDE DEF lo, hi
<1>4. ASSUME NEW a \in Apps
      PROVE  h[a] \in Nat /\ h[a] = db.hourly[u][a]["active"]
  <2> DEFINE S == HitsIn(db.segs, a, "active", lo, hi)
  <2>1. Total(db.segs, S, lo, hi) = Cardinality(TicksOf(db.segs, S, lo, hi))
    BY <1>1, <1>2, HitsTotal
  <2>2. IsFiniteSet(S)
    BY <1>1, HitsFinite
  <2> HIDE DEF S
  <2>3. Cardinality(TicksOf(db.segs, S, lo, hi)) \in Nat
    BY <1>2, <2>2, TicksOfFinite, FS_CardinalityType
  <2>4. h[a] = Total(db.segs, S, lo, hi)
    BY DEF S
  <2>5. db.hourly[u][a].active = Total(db.segs, S, lo, hi)
    BY <1>3, UsageByHits DEF S
  <2> QED BY <2>1, <2>3, <2>4, <2>5
<1> HIDE DEF h
<1>5. Natural(h, Apps)
  BY <1>4 DEF Natural
<1>6. \A a \in Apps : h[a] = db.hourly[u][a]["active"]
  BY <1>4
<1> QED BY <1>5, <1>6, HourTotalCounts

LEMMA ProfileNatural ==
  ASSUME EngineHolds, NEW from \in Int, NEW to \in Int
  PROVE  \A h \in DayHours : HourlyProfile(from, to).hours[h] \in Nat
<1> DEFINE dates == db.recorded \cap from .. to
           n == Max({Cardinality(dates), 1})
<1>1. n \in Nat \ {0}
  <2>1. IsFiniteSet(from .. to)
    BY FS_Interval
  <2>2. IsFiniteSet(dates)
    BY <2>1, FS_Subset
  <2> HIDE DEF dates
  <2>3. Cardinality(dates) \in Nat
    BY <2>2, FS_CardinalityType
  <2>4. Cardinality(dates) \in Int /\ 1 \in Int
    BY <2>3
  <2>5. n \in {Cardinality(dates), 1} /\ n >= 1
    BY <2>4, MaxOfTwo
  <2> QED BY <2>3, <2>5
<1> SUFFICES ASSUME NEW h \in DayHours
             PROVE  HourlyProfile(from, to).hours[h] \in Nat
  OBVIOUS
<1> DEFINE S == UNION {{u \in HoursOn(d) : LocalHour(u) = h} : d \in dates}
           sum == SumOver(S, LAMBDA u : HourTotal(u, "active"))
<1>2. S \subseteq Hours
  BY DEF HoursOn
<1>3. IsFiniteSet(S)
  <2>1. HourOf(0) \in Int /\ HourOf(MaxUtc) \in Int
    BY ProjectionConstants, EngineConstants DEF HourOf
  <2>2. IsFiniteSet(Hours)
    BY <2>1, FS_Interval DEF Hours
  <2> HIDE DEF S
  <2> QED BY <1>2, <2>2, FS_Subset
<1>4. HourlyProfile(from, to).hours[h] = sum \div n
  BY DEF HourlyProfile
<1> HIDE DEF S
<1>5. sum \in Nat
  BY <1>2, <1>3, HourIsNatural, HoursSumNatural
<1> HIDE DEF sum, n
<1> QED BY <1>1, <1>4, <1>5

TimeFixed == reading.kind = "statistics" => reading.now \in Int

LEMMA TimeFixedStep ==
  ASSUME EngineHolds, TimeFixed, [ReadNext]_allVars
  PROVE  TimeFixed'
<1>1. CASE UNCHANGED readVars
  BY <1>1 DEF readVars, TimeFixed
<1>2. CASE ReaderNext
  <2>1. ASSUME NEW d \in Dates, OpenTimeline(d) PROVE reading'.kind = "timeline"
    BY <2>1 DEF OpenTimeline, Starts
  <2>2. ASSUME NextPage PROVE TimeFixed'
    BY <2>2 DEF NextPage, TimeFixed
  <2>3. ASSUME OpenToday PROVE reading'.kind = "today"
    BY <2>3 DEF OpenToday, Starts
  <2>4. ASSUME NextStatement PROVE TimeFixed'
    BY <2>4 DEF NextStatement, TimeFixed
  <2>5. ASSUME FixTime PROVE TimeFixed'
    BY <2>5 DEF FixTime, Starts, TimeFixed, EngineHolds, WorldInv
  <2>6. ASSUME Close PROVE reading'.kind = "none"
    BY <2>6 DEF Close, Finishes, NoReading
  <2> QED BY <1>2, <2>1, <2>2, <2>3, <2>4, <2>5, <2>6 DEF ReaderNext, TimeFixed
<1> QED BY <1>1, <1>2, ReadSplit

LEMMA SpellHolds ==
  ASSUME EngineHolds, TimeFixed
  PROVE  SpellAroundPeak
<1> SUFFICES ASSUME Asked PROVE SpellAroundPeak
  BY DEF SpellAroundPeak
<1> DEFINE today == DateOf(reading.now)
           profile == HourlyProfile(today - PaceDays, today - 1).hours
           days == HourlyProfile(today - PaceDays, today - 1).days
           spell == InertiaOf(today)
           most == Max({profile[g] : g \in DayHours})
<1>1. today - PaceDays \in Int /\ today - 1 \in Int
  BY ProjectionConstants, ReadConstants DEF TimeFixed, Asked, DateOf
<1>2. \A h \in DayHours : profile[h] \in Nat
  BY <1>1, ProfileNatural
<1>3. spell = Inertia(profile, days)
  BY DEF InertiaOf
<1>4. ASSUME NEW from \in spell.start, NEW to \in spell.end, NEW peak \in spell.peak
      PROVE  /\ Slack(profile, most) # {} =>
                  /\ peak \in Arc(from, to)
                  /\ \A h \in Arc(from, to) : h \notin Slack(profile, most)
                  /\ Clock(from - 1) \in Slack(profile, most)
                  /\ Clock(to + 1) \in Slack(profile, most)
             /\ Slack(profile, most) = {} => from = peak /\ to = peak
  <2> HIDE DEF spell, days
  <2> HIDE DEF profile
  <2> QED BY <1>2, <1>3, InertiaSpell
<1>5. SpellAroundPeak <=>
        \A from \in spell.start, to \in spell.end, peak \in spell.peak :
          IF \E h \in DayHours : profile[h] * 100 < most * 30
          THEN /\ peak \in Arc(from, to)
               /\ \A h \in Arc(from, to) : ~ (profile[h] * 100 < most * 30)
               /\ profile[Clock(from - 1)] * 100 < most * 30
               /\ profile[Clock(to + 1)] * 100 < most * 30
          ELSE from = peak /\ to = peak
  BY DEF SpellAroundPeak, Arc
<1> HIDE DEF spell, profile, most
<1> SUFFICES ASSUME NEW from \in spell.start, NEW to \in spell.end, NEW peak \in spell.peak
             PROVE  IF \E h \in DayHours : profile[h] * 100 < most * 30
                    THEN /\ peak \in Arc(from, to)
                         /\ \A h \in Arc(from, to) : ~ (profile[h] * 100 < most * 30)
                         /\ profile[Clock(from - 1)] * 100 < most * 30
                         /\ profile[Clock(to + 1)] * 100 < most * 30
                    ELSE from = peak /\ to = peak
  BY <1>5
<1>6. CASE \E h \in DayHours : profile[h] * 100 < most * 30
  <2>1. Slack(profile, most) # {}
    BY <1>6 DEF Slack
  <2>2. \A h \in Arc(from, to) : h \in DayHours /\ h \notin Slack(profile, most)
    BY <1>4, <2>1 DEF Arc
  <2>3. \A h \in Arc(from, to) : ~ (profile[h] * 100 < most * 30)
    BY <2>2 DEF Slack
  <2>4. profile[Clock(from - 1)] * 100 < most * 30 /\ profile[Clock(to + 1)] * 100 < most * 30
    BY <1>4, <2>1 DEF Slack
  <2> QED BY <1>4, <1>6, <2>1, <2>3, <2>4
<1>7. CASE ~ \E h \in DayHours : profile[h] * 100 < most * 30
  <2>1. Slack(profile, most) = {}
    BY <1>7 DEF Slack
  <2> QED BY <1>4, <1>7, <2>1
<1> QED BY <1>6, <1>7

(* The spell of work the statistics page shows holds the busiest hour and  *)
(* no slack hour, and the hours just outside it are slack ones, across     *)
(* midnight too; without a slack hour it is the busiest hour alone.  This  *)
(* holds for any number of hours in a day and any profile the tables can   *)
(* give (stats.rs:265, reader.rs stats_hourly_profile).                    *)
THEOREM ReadSpecSpellAroundPeak == ReadSpec => []SpellAroundPeak
<1>1. ReadInit => TimeFixed
  BY DEF ReadInit, NoReading, TimeFixed
<1>2. EngineHolds /\ TimeFixed /\ [ReadNext]_allVars => TimeFixed'
  BY TimeFixedStep
<1>3. EngineHolds /\ TimeFixed => SpellAroundPeak
  BY SpellHolds
<1>4. ReadSpec => ReadInit /\ [][ReadNext]_allVars
  BY PTL DEF ReadSpec, allVars
<1> QED BY <1>1, <1>2, <1>3, <1>4, ReadSpecEngineHolds, PTL

-----------------------------------------------------------------------------
(***************************************************************************)
(* Today.  What is read of a date is measured against the active ticks of  *)
(* the date in the segments, which only become more.                       *)
(***************************************************************************)
ActiveOf(segs, lo, hi) ==
  {i \in DOMAIN segs : segs[i].state = "active" /\ Touches(segs[i], lo, hi)}

ActiveTicks(segs, x) ==
  TicksOf(segs, ActiveOf(segs, DayStart(x), DayEnd(x)), DayStart(x), DayEnd(x))

LEMMA ActiveTicksFinite ==
  ASSUME NEW segs, Segments(segs), NEW x \in Dates
  PROVE  IsFiniteSet(ActiveTicks(segs, x)) /\ Cardinality(ActiveTicks(segs, x)) \in Nat
<1> DEFINE S == ActiveOf(segs, DayStart(x), DayEnd(x))
<1>1. IsFiniteSet(DOMAIN segs) /\ S \subseteq DOMAIN segs
  BY HitsFinite DEF ActiveOf
<1>2. IsFiniteSet(S)
  BY <1>1, FS_Subset
<1> HIDE DEF S
<1>3. IsFiniteSet(TicksOf(segs, S, DayStart(x), DayEnd(x)))
  BY <1>2, DayBounds, TicksOfFinite
<1> QED BY <1>3, FS_CardinalityType DEF ActiveTicks, S

LEMMA ActiveTicksGrow ==
  ASSUME NEW segs, Segments(segs), NEW new, Segments(new), SegTimes(segs), SegsGrow(segs, new),
         NEW x \in Dates
  PROVE  Cardinality(ActiveTicks(segs, x)) <= Cardinality(ActiveTicks(new, x))
<1> DEFINE lo == DayStart(x)
           hi == DayEnd(x)
<1>1. ASSUME NEW i \in ActiveOf(segs, lo, hi)
      PROVE  i \in ActiveOf(new, lo, hi) /\ new[i].start = segs[i].start
             /\ segs[i].end \in Int /\ new[i].end \in Int /\ segs[i].end <= new[i].end
  <2>1. /\ i \in DOMAIN segs /\ i \in DOMAIN new /\ segs[i].start \in Int
        /\ segs[i].end \in Int /\ new[i].end \in Int
        /\ new[i].state = segs[i].state /\ new[i].start = segs[i].start
        /\ new[i].end = segs[i].end \/ segs[i].end < new[i].end
    BY DEF ActiveOf, SegsGrow, Segments, IsSegment
  <2>2. lo \in Int /\ hi \in Int
    BY DayBounds
  <2> QED BY <2>1, <2>2 DEF ActiveOf, Touches
<1>2. ActiveTicks(segs, x) \subseteq ActiveTicks(new, x)
  <2> SUFFICES ASSUME NEW it \in ActiveTicks(segs, x) PROVE it \in ActiveTicks(new, x)
    OBVIOUS
  <2>1. /\ it \in ActiveOf(segs, lo, hi) \X (lo .. hi - 1)
        /\ segs[it[1]].start <= it[2] /\ it[2] < segs[it[1]].end
    BY DEF ActiveTicks, TicksOf
  <2>2. it[1] \in ActiveOf(segs, lo, hi) /\ it[2] \in lo .. hi - 1
    BY <2>1
  <2>3. it[2] < new[it[1]].end
    BY <1>1, <2>1, <2>2, DayBounds
  <2>4. it \in ActiveOf(new, lo, hi) \X (lo .. hi - 1)
    BY <1>1, <2>1
  <2> QED BY <1>1, <2>1, <2>2, <2>3, <2>4 DEF ActiveTicks, TicksOf
<1> QED BY <1>2, ActiveTicksFinite, FS_Subset

(* A Work Block holds some of the active ticks, and so does the longest.   *)
LEMMA BlockWithinDay ==
  ASSUME NEW d, Segments(d.segs), SegTimes(d.segs), NEW b, NEW x \in Dates,
         NEW m, m = BlockActive(d, b, DayStart(x), DayEnd(x))
  PROVE  m \in Nat /\ m <= Cardinality(ActiveTicks(d.segs, x))
<1> DEFINE lo == DayStart(x)
           hi == DayEnd(x)
           S == {i \in DOMAIN d.segs :
                   /\ d.segs[i].state = "active"
                   /\ d.segs[i].start >= d.blocks[b].start
                   /\ d.segs[i].end <= d.blocks[b].end
                   /\ d.segs[i].end > lo /\ d.segs[i].start < hi}
<1>1. lo \in Int /\ hi \in Int /\ lo < hi
  BY DayBounds
<1>2. m = Total(d.segs, S, lo, hi)
  BY DEF BlockActive
<1>3. S \subseteq ActiveOf(d.segs, lo, hi)
  BY DEF ActiveOf, Touches, SegTimes
<1>4. \A i \in S : d.segs[i].start \in Int /\ d.segs[i].end \in Int /\ Touches(d.segs[i], lo, hi)
  BY DEF Segments, IsSegment, Touches, SegTimes
<1>5. IsFiniteSet(S)
  <2>1. S \subseteq DOMAIN d.segs
    OBVIOUS
  <2> HIDE DEF S
  <2> QED BY <2>1, HitsFinite, FS_Subset
<1> HIDE DEF S
<1>6. TicksOf(d.segs, S, lo, hi) \subseteq ActiveTicks(d.segs, x)
  BY <1>3 DEF TicksOf, ActiveTicks
<1> HIDE DEF lo, hi
<1>7. m = Cardinality(TicksOf(d.segs, S, lo, hi))
  BY <1>1, <1>2, <1>4, <1>5, TotalCountsTicks
<1>8. Cardinality(TicksOf(d.segs, S, lo, hi)) <= Cardinality(ActiveTicks(d.segs, x))
  BY <1>6, ActiveTicksFinite, FS_Subset
<1>9. IsFiniteSet(TicksOf(d.segs, S, lo, hi))
  BY <1>6, ActiveTicksFinite, FS_Subset
<1> QED BY <1>7, <1>8, <1>9, FS_CardinalityType

LEMMA LongestWithinDay ==
  ASSUME NEW d, Segments(d.segs), SegTimes(d.segs), IsRows(d.blocks), NEW x \in Dates,
         NEW m, m = WorkMetrics(d, x).longest
  PROVE  m \in Nat /\ m <= Cardinality(ActiveTicks(d.segs, x))
<1> DEFINE lo == DayStart(x)
           hi == DayEnd(x)
           n == Cardinality(ActiveTicks(d.segs, x))
           C == {b \in DOMAIN d.blocks : BlockActive(d, b, lo, hi) > 0}
           f == [b \in C |-> BlockActive(d, b, lo, hi)]
           V == {BlockActive(d, b, lo, hi) : b \in C}
           T == {0} \cup V
<1>1. m = Max(T)
  BY DEF WorkMetrics
<1>2. n \in Nat
  BY ActiveTicksFinite
<1>3. \A v \in V : v \in Nat /\ v <= n
  BY BlockWithinDay
<1>4. IsFiniteSet(C)
  <2>1. IsFiniteSet(DOMAIN d.blocks)
    BY RowsLen, FS_Interval
  <2>2. C \subseteq DOMAIN d.blocks
    OBVIOUS
  <2> HIDE DEF C
  <2> QED BY <2>1, <2>2, FS_Subset
<1>5. V = {f[b] : b \in C}
  OBVIOUS
<1>6. IsFiniteSet(V)
  <2> HIDE DEF C, f, V
  <2> QED BY <1>4, <1>5, ImageFinite
<1> HIDE DEF V, n
<1>7. IsFiniteSet(T)
  BY <1>6, FS_Singleton, FS_Union
<1>8. T \in SUBSET Int /\ T # {}
  BY <1>3
<1>9. Max(T) \in T
  <2> HIDE DEF T
  <2> QED BY <1>7, <1>8, MaxOfSet
<1>10. m \in Nat /\ m <= n
  BY <1>1, <1>2, <1>3, <1>9
<1> QED BY <1>10 DEF n

(* The metrics of a date were right when they were computed, and since     *)
(* then the segments have only grown.                                      *)
MetricsWithin(d) ==
  \A x \in Dates : /\ d.metrics[x].longest \in Nat
                   /\ d.metrics[x].longest <= Cardinality(ActiveTicks(d.segs, x))

Tabled(d) == Segments(d.segs) /\ SegTimes(d.segs) /\ IsRows(d.blocks)

LEMMA MetricsMove ==
  ASSUME NEW d, Tabled(d), NEW e, Tabled(e), MetricsWithin(d), Moves(d, e)
  PROVE  MetricsWithin(e)
<1> SUFFICES ASSUME NEW x \in Dates
             PROVE  /\ e.metrics[x].longest \in Nat
                    /\ e.metrics[x].longest <= Cardinality(ActiveTicks(e.segs, x))
  BY DEF MetricsWithin
<1>1. CASE e.metrics[x] = d.metrics[x]
  <2>1. Cardinality(ActiveTicks(d.segs, x)) <= Cardinality(ActiveTicks(e.segs, x))
    BY ActiveTicksGrow DEF Moves, Tabled
  <2>2. Cardinality(ActiveTicks(d.segs, x)) \in Nat /\ Cardinality(ActiveTicks(e.segs, x)) \in Nat
    BY ActiveTicksFinite DEF Tabled
  <2>3. d.metrics[x].longest \in Nat
        /\ d.metrics[x].longest <= Cardinality(ActiveTicks(d.segs, x))
    BY DEF MetricsWithin
  <2> QED BY <1>1, <2>1, <2>2, <2>3
<1>2. CASE e.metrics[x] = WorkMetrics(e, x)
  BY <1>2, LongestWithinDay DEF Tabled
<1> QED BY <1>1, <1>2 DEF Moves, RowsFrom

LEMMA TabledHere ==
  ASSUME EngineHolds
  PROVE  Tabled(db)
BY HereNow DEF EngineHolds, EngineInv, Consistent, TablesOK, Typed, SegsTyped, WorkTyped, Blocks,
               Tabled

LEMMA TabledNext ==
  ASSUME EngineHolds'
  PROVE  Tabled(db')
<1>1. Typed(Here') /\ TablesOK(Here'.db)
  BY DEF EngineHolds, EngineInv, Consistent
<1>2. Here'.db = db'
  BY DEF Here, Begin
<1> QED BY <1>1, <1>2 DEF TablesOK, Typed, SegsTyped, WorkTyped, Blocks, Tabled

(* The active ticks of some applications, counted one after the other.     *)
RowsOfApps(segs, s, lo, hi) ==
  {i \in DOMAIN segs : segs[i].app \in s /\ segs[i].state = "active" /\ Meets(segs[i], lo, hi)}

AppTicks(segs, s, x) ==
  TicksOf(segs, RowsOfApps(segs, s, DayStart(x), DayEnd(x)), DayStart(x), DayEnd(x))

LEMMA AppTicksFinite ==
  ASSUME NEW segs, Segments(segs), NEW s, NEW x \in Dates
  PROVE  IsFiniteSet(AppTicks(segs, s, x)) /\ Cardinality(AppTicks(segs, s, x)) \in Nat
<1> DEFINE S == RowsOfApps(segs, s, DayStart(x), DayEnd(x))
<1>1. IsFiniteSet(DOMAIN segs) /\ S \subseteq DOMAIN segs
  BY HitsFinite DEF RowsOfApps
<1>2. IsFiniteSet(S)
  BY <1>1, FS_Subset
<1> HIDE DEF S
<1>3. IsFiniteSet(TicksOf(segs, S, DayStart(x), DayEnd(x)))
  BY <1>2, DayBounds, TicksOfFinite
<1> QED BY <1>3, FS_CardinalityType DEF AppTicks, S

LEMMA DailyCounts ==
  ASSUME EngineHolds, NEW x \in Dates, NEW a \in Apps
  PROVE  db.daily[x][a].active = Cardinality(AppTicks(db.segs, {a}, x))
<1> DEFINE lo == DayStart(x)
           hi == DayEnd(x)
           S == HitsIn(db.segs, a, "active", lo, hi)
<1>1. Segments(db.segs)
  BY HereTyped DEF RowsTyped
<1>2. lo \in Int /\ hi \in Int /\ lo < hi
  BY DayBounds
<1>3. db.daily[x] = Usage(db.segs, lo, hi)
  BY HereNow DEF EngineHolds, EngineInv, Consistent, TablesOK, Fresh, DateUsage
<1> HIDE DEF lo, hi
<1>4. db.daily[x][a].active = Total(db.segs, S, lo, hi)
  BY <1>3, UsageByHits
<1>5. Total(db.segs, S, lo, hi) = Cardinality(TicksOf(db.segs, S, lo, hi))
  BY <1>1, <1>2, HitsTotal
<1>6. S = RowsOfApps(db.segs, {a}, lo, hi)
  BY DEF HitsIn, Hits, RowsOfApps
<1> QED BY <1>4, <1>5, <1>6 DEF AppTicks, lo, hi

LEMMA AppsApart ==
  ASSUME NEW segs, Segments(segs), NEW s, NEW a \in s, NEW x \in Dates
  PROVE  Cardinality(AppTicks(segs, s, x))
           = Cardinality(AppTicks(segs, {a}, x)) + Cardinality(AppTicks(segs, s \ {a}, x))
<1> DEFINE A == AppTicks(segs, {a}, x)
           B == AppTicks(segs, s \ {a}, x)
<1>1. /\ IsFiniteSet(A) /\ Cardinality(A) \in Nat
      /\ IsFiniteSet(B) /\ Cardinality(B) \in Nat
  BY AppTicksFinite
<1>2. A \cap B = {} /\ AppTicks(segs, s, x) = A \cup B
  BY DEF AppTicks, TicksOf, RowsOfApps
<1> HIDE DEF A, B
<1>3. Cardinality(A \cup B) = Cardinality(A) + Cardinality(B) - Cardinality(A \cap B)
  BY <1>1, FS_Union
<1>4. Cardinality(A \cap B) = 0
  BY <1>2, FS_EmptySet, Zenon
<1>5. Cardinality(A \cup B) = Cardinality(A) + Cardinality(B)
  BY <1>1, <1>3, <1>4
<1> QED BY <1>2, <1>5 DEF A, B

LEMMA DayAdds ==
  ASSUME EngineHolds, NEW x \in Dates, NEW S \in SUBSET Apps, NEW h, NEW g,
         \A a \in S : h[a] = db.daily[x][a].active,
         g = [s \in SUBSET S |-> Cardinality(AppTicks(db.segs, s, x))]
  PROVE  Adds(h, g, S) /\ g[S] = Cardinality(AppTicks(db.segs, S, x))
<1>1. Segments(db.segs)
  BY HereTyped DEF RowsTyped
<1>2. ASSUME NEW s \in SUBSET S, s # {}
      PROVE  g[s] = h[Chosen(s)] + g[s \ {Chosen(s)}]
  <2> DEFINE c == Chosen(s)
  <2>1. c \in s /\ c \in S /\ c \in Apps
    BY <1>2 DEF Chosen
  <2> HIDE DEF c
  <2>2. h[c] = Cardinality(AppTicks(db.segs, {c}, x))
    BY <2>1, DailyCounts
  <2>3. Cardinality(AppTicks(db.segs, s, x))
          = Cardinality(AppTicks(db.segs, {c}, x)) + Cardinality(AppTicks(db.segs, s \ {c}, x))
    BY <1>1, <2>1, AppsApart
  <2>4. s \ {c} \in SUBSET S
    OBVIOUS
  <2>5. g[s] = Cardinality(AppTicks(db.segs, s, x))
        /\ g[s \ {c}] = Cardinality(AppTicks(db.segs, s \ {c}, x))
    BY <2>4
  <2>6. g[s] = h[c] + g[s \ {c}]
    BY <2>2, <2>3, <2>5
  <2> QED BY <2>6 DEF c
<1>3. g[{}] = 0
  <2>1. AppTicks(db.segs, {}, x) = {}
    BY DEF AppTicks, TicksOf, RowsOfApps
  <2> QED BY <2>1, FS_EmptySet
<1>4. \A s \in SUBSET S : g[s] = IF s = {} THEN 0 ELSE h[Chosen(s)] + g[s \ {Chosen(s)}]
  BY <1>2, <1>3
<1>5. g = [s \in SUBSET S |-> g[s]]
  OBVIOUS
<1>6. g[S] = Cardinality(AppTicks(db.segs, S, x))
  OBVIOUS
<1> QED BY <1>4, <1>5, <1>6 DEF Adds

DayTotal(x) == SumOver(Apps, LAMBDA a : ActiveOn(x, a))

AppsSum(apps) == SumOver(DOMAIN apps, LAMBDA a : apps[a])

(* Every active tick of the date is one application's.                     *)
LEMMA AllApps ==
  ASSUME EngineHolds, NEW x \in Dates
  PROVE  AppTicks(db.segs, Apps, x) = ActiveTicks(db.segs, x)
<1> DEFINE lo == DayStart(x)
           hi == DayEnd(x)
<1>1. Segments(db.segs) /\ SegTimes(db.segs)
  BY TabledHere DEF Tabled
<1>2. ASSUME NEW i, NEW k \in lo .. hi - 1
      PROVE  (i \in RowsOfApps(db.segs, Apps, lo, hi) /\ db.segs[i].start <= k /\ k < db.segs[i].end)
               <=> (i \in ActiveOf(db.segs, lo, hi) /\ db.segs[i].start <= k /\ k < db.segs[i].end)
  <2>1. CASE i \in DOMAIN db.segs
    <3>1. /\ db.segs[i].app \in Apps /\ db.segs[i].start \in Int /\ db.segs[i].end \in Int
          /\ db.segs[i].start <= db.segs[i].end
      BY <1>1, <2>1 DEF Segments, IsSegment, SegTimes
    <3>2. lo \in Int /\ hi \in Int /\ k \in Int
      BY DayBounds
    <3> QED BY <2>1, <3>1, <3>2 DEF RowsOfApps, ActiveOf, Meets, Touches
  <2>2. CASE i \notin DOMAIN db.segs
    BY <2>2 DEF RowsOfApps, ActiveOf
  <2> QED BY <2>1, <2>2
<1> HIDE DEF lo, hi
<1>3. TicksOf(db.segs, RowsOfApps(db.segs, Apps, lo, hi), lo, hi)
        = TicksOf(db.segs, ActiveOf(db.segs, lo, hi), lo, hi)
  BY <1>2 DEF TicksOf
<1> QED BY <1>3 DEF AppTicks, ActiveTicks, lo, hi

LEMMA DayTotalCounts ==
  ASSUME EngineHolds, NEW x \in Dates
  PROVE  DayTotal(x) = Cardinality(ActiveTicks(db.segs, x))
<1> DEFINE S == Apps
           Iter(f) ==
             f = [s \in SUBSET S |->
                    IF s = {} THEN 0
                    ELSE ActiveOn(x, CHOOSE y \in s : TRUE) + f[s \ {CHOOSE y \in s : TRUE}]]
           f == CHOOSE f : Iter(f)
           h == [a \in S |-> ActiveOn(x, a)]
           g == [s \in SUBSET S |-> Cardinality(AppTicks(db.segs, s, x))]
<1>1. IsFiniteSet(S)
  BY StatisticsConstants
<1>2. Adds(h, g, S) /\ g[S] = Cardinality(AppTicks(db.segs, S, x))
  <2>1. \A a \in S : h[a] = db.daily[x][a].active
    BY DEF ActiveOn
  <2>2. S \in SUBSET Apps
    OBVIOUS
  <2> HIDE DEF h, S
  <2> HIDE DEF g
  <2>3. g = [s \in SUBSET S |-> Cardinality(AppTicks(db.segs, s, x))]
    BY DEF g
  <2> QED BY <2>1, <2>2, <2>3, DayAdds
<1> HIDE DEF g
<1>3. ASSUME NEW s \in SUBSET S, s # {}
      PROVE  h[Chosen(s)] = ActiveOn(x, CHOOSE y \in s : TRUE)
  BY <1>3 DEF Chosen
<1> HIDE DEF h
<1>4. \A k : Iter(k) <=> Adds(h, k, S)
  BY <1>3 DEF Adds, Chosen
<1>5. Iter(f)
  <2>1. Iter(g)
    BY <1>2, <1>4
  <2> HIDE DEF Iter
  <2> QED BY <2>1
<1>6. f = g
  BY <1>1, <1>2, <1>4, <1>5, OneSum
<1>7. DayTotal(x) = f[S]
  BY DEF DayTotal, SumOver, MapThenSumSet, MapThenFoldSet
<1> QED BY <1>2, <1>6, <1>7, AllApps

(* The applications listed are those with a segment on the date, and       *)
(* together they have all of its ticks.                                    *)
LEMMA AppsSumCounts ==
  ASSUME EngineHolds, NEW x \in Dates, NEW apps, apps = [a \in UsedOn(x) |-> ActiveOn(x, a)]
  PROVE  AppsSum(apps) = Cardinality(ActiveTicks(db.segs, x))
<1> DEFINE S == UsedOn(x)
           Iter(f) ==
             f = [s \in SUBSET S |->
                    IF s = {} THEN 0
                    ELSE apps[CHOOSE y \in s : TRUE] + f[s \ {CHOOSE y \in s : TRUE}]]
           f == CHOOSE f : Iter(f)
           g == [s \in SUBSET S |-> Cardinality(AppTicks(db.segs, s, x))]
<1>1. IsFiniteSet(S) /\ S \in SUBSET Apps
  <2>1. S \subseteq Apps
    BY DEF UsedOn
  <2> HIDE DEF S
  <2> QED BY <2>1, StatisticsConstants, FS_Subset
<1>2. Adds(apps, g, S) /\ g[S] = Cardinality(AppTicks(db.segs, S, x))
  <2>1. \A a \in S : apps[a] = db.daily[x][a].active
    BY DEF ActiveOn
  <2> HIDE DEF S
  <2> HIDE DEF g
  <2>2. g = [s \in SUBSET S |-> Cardinality(AppTicks(db.segs, s, x))]
    BY DEF g
  <2> QED BY <1>1, <2>1, <2>2, DayAdds
<1> HIDE DEF g
<1>3. DOMAIN apps = S
  OBVIOUS
<1> HIDE DEF S
<1>4. \A k : Iter(k) <=> Adds(apps, k, S)
  BY DEF Adds, Chosen
<1>5. Iter(f)
  <2>1. Iter(g)
    BY <1>2, <1>4
  <2> HIDE DEF Iter
  <2> QED BY <2>1
<1>6. f = g
  BY <1>1, <1>2, <1>4, <1>5, OneSum
<1>7. AppsSum(apps) = f[S]
  BY <1>3 DEF AppsSum, SumOver, MapThenSumSet, MapThenFoldSet
<1>8. AppTicks(db.segs, S, x) = AppTicks(db.segs, Apps, x)
  <2> DEFINE lo == DayStart(x)
             hi == DayEnd(x)
  <2>1. Segments(db.segs)
    BY HereTyped DEF RowsTyped
  <2>2. db.daily[x] = Usage(db.segs, lo, hi)
    BY HereNow DEF EngineHolds, EngineInv, Consistent, TablesOK, Fresh, DateUsage
  <2>3. ASSUME NEW i \in RowsOfApps(db.segs, Apps, lo, hi)
        PROVE  db.segs[i].app \in S
    <3> DEFINE a == db.segs[i].app
               H == Hits(db.segs, a, lo, hi)
    <3>1. a \in Apps /\ i \in H
      BY DEF RowsOfApps, Hits
    <3>2. db.daily[x][a].count = Cardinality(H)
      BY <2>2, <3>1, UsageByHits
    <3>3. IsFiniteSet(H)
      BY <2>1, HitsFinite
    <3> HIDE DEF H
    <3>4. Cardinality(H) \in Nat /\ Cardinality(H) # 0
      BY <3>1, <3>3, FS_CardinalityType, FS_EmptySet
    <3>5. Cardinality(H) > 0
      BY <3>4
    <3> QED BY <3>1, <3>2, <3>5 DEF UsedOn, S
  <2>4. RowsOfApps(db.segs, S, lo, hi) = RowsOfApps(db.segs, Apps, lo, hi)
    BY <1>1, <2>3 DEF RowsOfApps
  <2> QED BY <2>4 DEF AppTicks
<1> QED BY <1>2, <1>6, <1>7, <1>8, AllApps

LEMMA TodayAnswers ==
  ASSUME NEW x
  PROVE  /\ TodayAnswer("work", x).longest = MetricsOf(x).longest
         /\ TodayAnswer("total", x) = DayTotal(x)
         /\ TodayAnswer("apps", x) = [a \in UsedOn(x) |-> ActiveOn(x, a)]
<1>1. TodayAnswer("work", x).longest = MetricsOf(x).longest
  BY DEF TodayAnswer
<1>2. TodayAnswer("total", x) = DayTotal(x)
  BY DEF TodayAnswer, DayTotal
<1>3. TodayAnswer("apps", x) = [a \in UsedOn(x) |-> ActiveOn(x, a)]
  BY DEF TodayAnswer
<1> QED BY <1>1, <1>2, <1>3

(* What the statements have answered so far.  Each is at most what the     *)
(* next one can only find more of.                                         *)
AnswersAscend(answers, n) ==
  /\ 1 \in DOMAIN answers => answers[1].value.longest \in Nat /\ answers[1].value.longest <= n
  /\ 2 \in DOMAIN answers => /\ answers[2].value \in Nat
                             /\ answers[1].value.longest <= answers[2].value
                             /\ answers[2].value <= n
  /\ 3 \in DOMAIN answers => answers[2].value <= AppsSum(answers[3].value)

InSteps(answers) ==
  /\ IsRows(answers) /\ DOMAIN answers \subseteq 1 .. 6
  /\ \A i \in DOMAIN answers : answers[i].step = TodaySteps[i]

TodayFor(r, d) ==
  r.kind = "today" =>
    /\ r = [kind |-> "today", date |-> r.date, answers |-> r.answers]
    /\ r.date \in Dates /\ InSteps(r.answers)
    /\ AnswersAscend(r.answers, Cardinality(ActiveTicks(d.segs, r.date)))

LEMMA TodayMoves ==
  ASSUME NEW d, Tabled(d), NEW e, Tabled(e), SegsGrow(d.segs, e.segs), NEW r, TodayFor(r, d)
  PROVE  TodayFor(r, e)
<1> SUFFICES ASSUME r.kind = "today" PROVE TodayFor(r, e)
  BY DEF TodayFor
<1> DEFINE m == Cardinality(ActiveTicks(d.segs, r.date))
           n == Cardinality(ActiveTicks(e.segs, r.date))
<1>1. r.date \in Dates /\ AnswersAscend(r.answers, m)
  BY DEF TodayFor
<1>2. m \in Nat /\ n \in Nat /\ m <= n
  BY <1>1, ActiveTicksFinite, ActiveTicksGrow DEF Tabled
<1> HIDE DEF m, n
<1>3. AnswersAscend(r.answers, n)
  BY <1>1, <1>2 DEF AnswersAscend
<1> QED BY <1>3 DEF TodayFor, n

LEMMA StepsGoOn ==
  ASSUME NEW answers, InSteps(answers), Len(answers) < 6,
         NEW row, row.step = TodaySteps[Len(answers) + 1]
  PROVE  LET k == Len(answers) + 1
             new == Append(answers, row)
         IN  /\ InSteps(new) /\ k \in 1 .. 6 /\ DOMAIN answers = 1 .. k - 1 /\ DOMAIN new = 1 .. k
             /\ \A i \in 1 .. k - 1 : new[i] = answers[i]
             /\ new[k] = row
<1> DEFINE k == Len(answers) + 1
           new == Append(answers, row)
<1>1. Len(answers) \in Nat /\ DOMAIN answers = 1 .. Len(answers)
  BY RowsLen DEF InSteps
<1>2. k \in 1 .. 6 /\ DOMAIN answers = 1 .. k - 1
  BY <1>1
<1>3. /\ IsRows(new) /\ DOMAIN new = DOMAIN answers \cup {k}
      /\ \A i \in DOMAIN answers : new[i] = answers[i]
      /\ new[k] = row
  BY RowsAppended DEF InSteps
<1>4. row.step = TodaySteps[k]
  OBVIOUS
<1> HIDE DEF k, new
<1>5. DOMAIN new = 1 .. k
  BY <1>2, <1>3
<1>6. InSteps(new)
  BY <1>2, <1>3, <1>4, <1>5 DEF InSteps
<1>7. /\ InSteps(new) /\ k \in 1 .. 6 /\ DOMAIN answers = 1 .. k - 1 /\ DOMAIN new = 1 .. k
      /\ \A i \in 1 .. k - 1 : new[i] = answers[i]
      /\ new[k] = row
  BY <1>2, <1>3, <1>5, <1>6
<1> QED BY <1>7 DEF k, new

LEMMA TodayAsks ==
  ASSUME EngineHolds, MetricsWithin(db), TodayFor(reading, db), NextStatement
  PROVE  TodayFor(reading', db)
<1> DEFINE x == reading.date
           answers == reading.answers
           k == Len(answers) + 1
           value == TodayAnswer(NextStep(k), x)
           row == [step |-> NextStep(k), value |-> value]
           new == Append(answers, row)
           n == Cardinality(ActiveTicks(db.segs, x))
<1>1. /\ reading.kind = "today" /\ Len(answers) < Len(TodaySteps)
      /\ reading' = [reading EXCEPT !.answers = new]
  BY DEF NextStatement
<1>2. /\ reading = [kind |-> "today", date |-> x, answers |-> answers]
      /\ x \in Dates /\ InSteps(answers) /\ AnswersAscend(answers, n)
  BY <1>1 DEF TodayFor
<1>3. reading' = [kind |-> "today", date |-> x, answers |-> new]
  BY <1>1, <1>2
<1>4. Len(answers) \in Nat /\ Len(TodaySteps) = 6
  <2>1. Len(TodaySteps) = 6
    BY DEF TodaySteps
  <2> QED BY <1>2, <2>1, RowsLen DEF InSteps
<1>5. k <= 6 /\ NextStep(k) = TodaySteps[k]
  BY <1>1, <1>4 DEF NextStep
<1> HIDE DEF value
<1>6. /\ InSteps(new) /\ k \in 1 .. 6 /\ DOMAIN answers = 1 .. k - 1 /\ DOMAIN new = 1 .. k
      /\ \A i \in 1 .. k - 1 : new[i] = answers[i]
      /\ new[k].value = value
  <2>1. row.step = TodaySteps[Len(answers) + 1] /\ row.value = value
    BY <1>5
  <2>2. InSteps(answers) /\ Len(answers) < 6
    BY <1>1, <1>2, <1>4
  <2> HIDE DEF answers, row
  <2>3. /\ InSteps(new) /\ k \in 1 .. 6 /\ DOMAIN answers = 1 .. k - 1 /\ DOMAIN new = 1 .. k
        /\ \A i \in 1 .. k - 1 : new[i] = answers[i]
        /\ new[k] = row
    BY <2>1, <2>2, StepsGoOn
  <2> HIDE DEF k, new
  <2> QED BY <2>1, <2>3
<1>7. n \in Nat
  BY <1>2, TabledHere, ActiveTicksFinite DEF Tabled
<1>8. k = 1 => value.longest \in Nat /\ value.longest <= n
  <2> SUFFICES ASSUME k = 1 PROVE value.longest \in Nat /\ value.longest <= n
    OBVIOUS
  <2>1. NextStep(k) = "work"
    BY <1>5 DEF TodaySteps
  <2>2. value.longest = MetricsOf(x).longest
    BY <2>1, TodayAnswers DEF value
  <2>3. MetricsOf(x).longest \in {db.metrics[x].longest, 0}
    BY DEF MetricsOf, NoMetrics
  <2>4. db.metrics[x].longest \in Nat /\ db.metrics[x].longest <= n
    BY <1>2 DEF MetricsWithin
  <2> HIDE DEF n, x
  <2> QED BY <1>7, <2>2, <2>3, <2>4
<1>9. k = 2 => value = n
  <2> SUFFICES ASSUME k = 2 PROVE value = n
    OBVIOUS
  <2>1. NextStep(k) = "total"
    BY <1>5 DEF TodaySteps
  <2> QED BY <1>2, <2>1, TodayAnswers, DayTotalCounts DEF value
<1>10. k = 3 => AppsSum(value) = n
  <2> SUFFICES ASSUME k = 3 PROVE AppsSum(value) = n
    OBVIOUS
  <2>1. NextStep(k) = "apps"
    BY <1>5 DEF TodaySteps
  <2>2. value = [a \in UsedOn(x) |-> ActiveOn(x, a)]
    BY <2>1, TodayAnswers DEF value
  <2> HIDE DEF x
  <2> QED BY <1>2, <2>2, AppsSumCounts
<1> HIDE DEF n, k, row, new, answers
<1>11. AnswersAscend(new, n)
  <2>1. 1 \in DOMAIN new => new[1].value.longest \in Nat /\ new[1].value.longest <= n
    <3>1. CASE k = 1
      BY <1>6, <1>8, <3>1
    <3>2. CASE k > 1
      <4>1. 1 \in DOMAIN answers /\ new[1] = answers[1]
        BY <1>6, <3>2
      <4> QED BY <1>2, <4>1 DEF AnswersAscend
    <3> QED BY <1>6, <3>1, <3>2
  <2>2. 2 \in DOMAIN new => /\ new[2].value \in Nat
                            /\ new[1].value.longest <= new[2].value
                            /\ new[2].value <= n
    <3>1. CASE k = 2
      <4>1. 1 \in DOMAIN new
        BY <1>6, <3>1
      <4>2. new[2].value = n
        BY <1>6, <1>9, <3>1
      <4> QED BY <1>7, <2>1, <4>1, <4>2
    <3>2. CASE k > 2
      <4>1. 2 \in DOMAIN answers /\ new[2] = answers[2] /\ new[1] = answers[1]
        BY <1>6, <3>2
      <4> QED BY <1>2, <4>1 DEF AnswersAscend
    <3>3. CASE k = 1
      BY <1>6, <3>3
    <3> QED BY <1>6, <3>1, <3>2, <3>3
  <2>3. 3 \in DOMAIN new => new[2].value <= AppsSum(new[3].value)
    <3>1. CASE k = 3
      <4>1. 2 \in DOMAIN new
        BY <1>6, <3>1
      <4>2. AppsSum(new[3].value) = n
        BY <1>6, <1>10, <3>1
      <4> QED BY <1>7, <2>2, <4>1, <4>2
    <3>2. CASE k > 3
      <4>1. 3 \in DOMAIN answers /\ new[2] = answers[2] /\ new[3] = answers[3]
        BY <1>6, <3>2
      <4> QED BY <1>2, <4>1 DEF AnswersAscend
    <3>3. CASE k < 3
      BY <1>6, <3>3
    <3> QED BY <1>6, <3>1, <3>2, <3>3
  <2> QED BY <2>1, <2>2, <2>3 DEF AnswersAscend
<1>12. /\ reading'.date = x /\ reading'.answers = new
       /\ reading' = [kind |-> "today", date |-> reading'.date, answers |-> reading'.answers]
  BY <1>3
<1> QED BY <1>2, <1>6, <1>11, <1>12 DEF TodayFor, n

LEMMA TodaySays ==
  ASSUME TodayFor(reading, db)
  PROVE  TodayAddsUp
<1> SUFFICES ASSUME reading.kind = "today" PROVE TodayAddsUp
  BY DEF TodayAddsUp
<1> DEFINE answers == reading.answers
           n == Cardinality(ActiveTicks(db.segs, reading.date))
<1>1. InSteps(answers) /\ AnswersAscend(answers, n)
  BY DEF TodayFor
<1>2. \A i \in DOMAIN answers : i \in 1 .. 6 /\ answers[i].step = TodaySteps[i]
  BY <1>1 DEF InSteps
<1>3. /\ \A i \in 1 .. 6 : TodaySteps[i] = "work" <=> i = 1
      /\ \A i \in 1 .. 6 : TodaySteps[i] = "total" <=> i = 2
      /\ \A i \in 1 .. 6 : TodaySteps[i] = "apps" <=> i = 3
  BY DEF TodaySteps
<1>4. \A v \in AnswerTo("work") : 1 \in DOMAIN answers /\ v = answers[1].value
  BY <1>2, <1>3 DEF AnswerTo
<1>5. \A v \in AnswerTo("total") : 2 \in DOMAIN answers /\ v = answers[2].value
  BY <1>2, <1>3 DEF AnswerTo
<1>6. \A v \in AnswerTo("apps") : 3 \in DOMAIN answers /\ v = answers[3].value
  BY <1>2, <1>3 DEF AnswerTo
<1>7. ASSUME NEW total \in AnswerTo("total"), NEW work \in AnswerTo("work")
      PROVE  work.longest <= total
  BY <1>1, <1>4, <1>5 DEF AnswersAscend
<1>8. ASSUME NEW total \in AnswerTo("total"), NEW apps \in AnswerTo("apps")
      PROVE  total <= AppsSum(apps)
  BY <1>1, <1>5, <1>6 DEF AnswersAscend
<1>9. \A apps : AppsSum(apps) = SumOver(DOMAIN apps, LAMBDA a : apps[a])
  BY DEF AppsSum
<1> QED BY <1>7, <1>8, <1>9 DEF TodayAddsUp

(***************************************************************************)
(* The date of Today is the clock's, and the clock stays in its bounds.    *)
(***************************************************************************)
ClockBound == clock = [utc |-> clock.utc, mono |-> clock.mono] /\ clock.utc \in 0 .. MaxUtc

LEMMA ClockStep ==
  ASSUME ClockBound, [Next]_vars
  PROVE  ClockBound'
<1>1. ASSUME NEW t \in Steps, After(t)
      PROVE  ClockBound'
  <2>1. t \in Nat /\ MaxUtc \in Nat
    BY EngineConstants
  <2>2. clock.utc + t <= MaxUtc /\ clock' = [utc |-> clock.utc + t, mono |-> clock.mono + t]
    BY <1>1 DEF After
  <2>3. clock.utc + t \in 0 .. MaxUtc
    BY <2>1, <2>2 DEF ClockBound
  <2> QED BY <2>2, <2>3 DEF ClockBound
<1>2. ASSUME UNCHANGED clock
      PROVE  ClockBound'
  BY <1>2 DEF ClockBound
<1>3. ASSUME NEW j \in Jumps, SetClock(j)
      PROVE  ClockBound'
  <2>1. clock' = [utc |-> clock.utc + j, mono |-> clock.mono] /\ clock.utc + j \in 0 .. MaxUtc
    BY <1>3 DEF SetClock, ClockBound
  <2> QED BY <2>1 DEF ClockBound
<1>4. CASE UNCHANGED vars
  BY <1>2, <1>4 DEF vars
<1>5. CASE Next
  <2>1. ASSUME NEW k \in Kinds, NEW t \in Steps, Sample(k, t) PROVE ClockBound'
    BY <1>1, <2>1 DEF Sample
  <2>2. ASSUME NEW kind \in Masks, NEW t \in Steps, Masked(kind, t) PROVE ClockBound'
    BY <1>1, <2>2 DEF Masked
  <2>3. ASSUME NEW kind \in Lifecycle, NEW lag \in Lags, Boundary(kind, lag) PROVE ClockBound'
    BY <1>2, <2>3 DEF Boundary
  <2>4. ASSUME TriesAgain PROVE ClockBound'
    BY <1>2, <2>4 DEF TriesAgain
  <2>5. ASSUME NEW lane \in {"capture", "writer"}, NEW t \in Steps, Drop(lane, t)
        PROVE  ClockBound'
    BY <1>1, <2>5 DEF Drop
  <2>6. ASSUME Heartbeat PROVE ClockBound'
    BY <1>2, <2>6 DEF Heartbeat
  <2>7. ASSUME Shutdown PROVE ClockBound'
    BY <1>2, <2>7 DEF Shutdown
  <2>8. ASSUME Crash PROVE ClockBound'
    BY <1>2, <2>8 DEF Crash
  <2>9. ASSUME NEW t \in Steps, StartAgent(t) PROVE ClockBound'
    BY <1>1, <2>9 DEF StartAgent
  <2> QED BY <1>3, <1>5, <2>1, <2>2, <2>3, <2>4, <2>5, <2>6, <2>7, <2>8, <2>9 DEF Next
<1> QED BY <1>4, <1>5

LEMMA ClockDate ==
  ASSUME ClockBound
  PROVE  DateOf(clock.utc) \in Dates
<1> DEFINE f == 0 + ZoneOffset
           g == clock.utc + ZoneOffset
           h == MaxUtc + ZoneOffset
           p == f \div DayTicks
           q == g \div DayTicks
           r == h \div DayTicks
<1>1. /\ f \in Int /\ g \in Int /\ h \in Int /\ f <= g /\ g <= h
      /\ DayTicks \in Nat \ {0}
  BY ProjectionConstants, EngineConstants DEF ClockBound
<1>2. DateOf(0) = p /\ DateOf(clock.utc) = q /\ DateOf(MaxUtc) = r
  BY DEF DateOf
<1> HIDE DEF f, g, h
<1>3. p \in Int /\ q \in Int /\ r \in Int
  BY <1>1, InBucket
<1> HIDE DEF p, q, r
<1>4. p * DayTicks <= f /\ q * DayTicks <= g
  BY <1>1, <1>3, InBucket DEF p, q
<1>5. p * DayTicks <= g /\ q * DayTicks <= h
  <2>1. p * DayTicks \in Int /\ q * DayTicks \in Int
    BY <1>1, <1>3
  <2> QED BY <1>1, <1>4, <2>1
<1>6. p <= q
  BY <1>1, <1>3, <1>5, InBucket DEF q
<1>7. q <= r
  BY <1>1, <1>3, <1>5, InBucket DEF r
<1> QED BY <1>2, <1>3, <1>6, <1>7 DEF Dates

LEMMA TodayOpens ==
  ASSUME ClockBound, OpenToday
  PROVE  TodayFor(reading', db)
<1> DEFINE x == DateOf(clock.utc)
<1>1. reading' = [kind |-> "today", date |-> x, answers |-> <<>>]
  BY DEF OpenToday, Starts
<1>2. x \in Dates
  BY ClockDate
<1> HIDE DEF x
<1>3. DOMAIN <<>> = {} /\ IsRows(<<>>)
  BY DEF IsRows
<1>4. InSteps(<<>>)
  BY <1>3 DEF InSteps
<1>5. \A n : AnswersAscend(<<>>, n)
  BY <1>3 DEF AnswersAscend
<1>6. /\ reading'.date = x /\ reading'.answers = <<>>
      /\ reading' = [kind |-> "today", date |-> reading'.date, answers |-> reading'.answers]
  BY <1>1
<1> QED BY <1>2, <1>4, <1>5, <1>6 DEF TodayFor

TodayHolds == ClockBound /\ MetricsWithin(db) /\ TodayFor(reading, db)

LEMMA TodayBegins ==
  ASSUME ReadInit
  PROVE  TodayHolds
<1>1. EngineHolds
  BY InitHolds DEF ReadInit, EngineHolds
<1>2. ClockBound
  BY EngineConstants DEF ReadInit, Init, ClockBound
<1>3. ASSUME NEW x \in Dates
      PROVE  /\ db.metrics[x].longest \in Nat
             /\ db.metrics[x].longest <= Cardinality(ActiveTicks(db.segs, x))
  <2>1. db.metrics[x].longest = 0
    BY DEF ReadInit, Init, Bootstrapped, NoMetrics
  <2>2. Cardinality(ActiveTicks(db.segs, x)) \in Nat
    BY <1>1, TabledHere, ActiveTicksFinite DEF Tabled
  <2> QED BY <2>1, <2>2
<1>4. TodayFor(reading, db)
  BY DEF ReadInit, NoReading, TodayFor
<1> QED BY <1>2, <1>3, <1>4 DEF TodayHolds, MetricsWithin

LEMMA TodayStep ==
  ASSUME EngineHolds, EngineHolds', TodayHolds, [ReadNext]_allVars
  PROVE  TodayHolds'
<1>1. Tabled(db) /\ Tabled(db')
  BY TabledHere, TabledNext
<1>2. CASE [Next]_vars /\ UNCHANGED readVars
  <2>1. Moves(db, db') /\ SegsGrow(db.segs, db'.segs)
    BY <1>2, EngineStep DEF EngineHolds, Moves
  <2>2. ClockBound'
    BY <1>2, ClockStep DEF TodayHolds
  <2>3. MetricsWithin(db')
    BY <1>1, <2>1, MetricsMove DEF TodayHolds
  <2>4. TodayFor(reading, db')
    BY <1>1, <2>1, TodayMoves DEF TodayHolds
  <2> QED BY <1>2, <2>2, <2>3, <2>4 DEF readVars, TodayHolds
<1>3. CASE ReaderNext /\ UNCHANGED vars
  <2>1. db' = db /\ clock' = clock
    BY <1>3 DEF vars
  <2>2. ASSUME NEW d \in Dates, OpenTimeline(d) PROVE reading'.kind = "timeline"
    BY <2>2 DEF OpenTimeline, Starts
  <2>3. ASSUME NextPage PROVE TodayFor(reading', db)
    <3>1. reading.kind = "timeline"
      BY <2>3 DEF NextPage
    <3>2. reading'.kind = "timeline"
      BY <2>3, <3>1 DEF NextPage
    <3> QED BY <3>2 DEF TodayFor
  <2>4. ASSUME OpenToday PROVE TodayFor(reading', db)
    BY <2>4, TodayOpens DEF TodayHolds
  <2>5. ASSUME NextStatement PROVE TodayFor(reading', db)
    BY <2>5, TodayAsks DEF TodayHolds
  <2>6. ASSUME FixTime PROVE reading'.kind = "statistics"
    BY <2>6 DEF FixTime, Starts
  <2>7. ASSUME Close PROVE reading'.kind = "none"
    BY <2>7 DEF Close, Finishes, NoReading
  <2>8. reading'.kind # "today" => TodayFor(reading', db)
    BY DEF TodayFor
  <2>9. TodayFor(reading', db)
    BY <1>3, <2>2, <2>3, <2>4, <2>5, <2>6, <2>7, <2>8 DEF ReaderNext
  <2> QED BY <2>1, <2>9 DEF TodayHolds, ClockBound
<1> QED BY <1>2, <1>3, ReadSplit

(* The Today page adds up although its six statements see six states of    *)
(* the database: in the order the code asks them the longest Work Block is *)
(* never longer than the day's total, nor the total more than the sum of   *)
(* the applications shown with it.  For each answer is what the active     *)
(* segments of the day made of it when it was asked, and what the segments *)
(* say of a day only becomes more, whatever is inserted, extended, closed  *)
(* or recovered in between (reader.rs:46-116).                             *)
THEOREM ReadSpecTodayAddsUp == ReadSpec => []TodayAddsUp
<1>1. ReadInit => TodayHolds
  BY TodayBegins
<1>2. EngineHolds /\ EngineHolds' /\ TodayHolds /\ [ReadNext]_allVars => TodayHolds'
  BY TodayStep
<1>3. TodayHolds => TodayAddsUp
  BY TodaySays DEF TodayHolds
<1>4. ReadSpec => ReadInit /\ [][ReadNext]_allVars
  BY PTL DEF ReadSpec, allVars
<1> QED BY <1>1, <1>2, <1>3, <1>4, ReadSpecEngineHolds, PTL

-----------------------------------------------------------------------------
(***************************************************************************)
(* Live numbers.  Until a moment of a day, and for the whole day, the      *)
(* active time is the number of active ticks, whichever way it is summed.  *)
(***************************************************************************)
TicksOn(segs, lo, hi) == TicksOf(segs, ActiveOf(segs, lo, hi), lo, hi)

Positive(row) == row.start < row.end

LEMMA TickOf ==
  ASSUME NEW segs, Whole(segs), NEW lo \in Int, NEW hi \in Int, NEW it
  PROVE  it \in TicksOn(segs, lo, hi) <=>
           /\ it \in (DOMAIN segs) \X (lo .. hi - 1)
           /\ segs[it[1]].state = "active"
           /\ segs[it[1]].start <= it[2] /\ it[2] < segs[it[1]].end
<1>1. CASE it \in (DOMAIN segs) \X (lo .. hi - 1)
  <2>1. it[1] \in DOMAIN segs /\ it[2] \in lo .. hi - 1 /\ it = <<it[1], it[2]>>
    BY <1>1
  <2>2. segs[it[1]].start \in Int /\ segs[it[1]].end \in Int
        /\ segs[it[1]].start <= segs[it[1]].end
    BY <2>1 DEF Whole, Segments, IsSegment, SegTimes
  <2>3. segs[it[1]].start <= it[2] /\ it[2] < segs[it[1]].end
          => segs[it[1]].end > lo /\ segs[it[1]].start < hi
    BY <2>1, <2>2
  <2>4. it[1] \in ActiveOf(segs, lo, hi) <=>
          /\ segs[it[1]].state = "active" /\ segs[it[1]].end > lo /\ segs[it[1]].start < hi
    BY <2>1, <2>2 DEF ActiveOf, Touches
  <2>5. it \in ActiveOf(segs, lo, hi) \X (lo .. hi - 1) <=> it[1] \in ActiveOf(segs, lo, hi)
    BY <2>1
  <2> QED BY <2>1, <2>3, <2>4, <2>5 DEF TicksOn, TicksOf
<1>2. CASE it \notin (DOMAIN segs) \X (lo .. hi - 1)
  BY <1>2 DEF TicksOn, TicksOf, ActiveOf
<1> QED BY <1>1, <1>2

LEMMA TicksOnFinite ==
  ASSUME NEW segs, Whole(segs), NEW lo \in Int, NEW hi \in Int
  PROVE  IsFiniteSet(TicksOn(segs, lo, hi)) /\ Cardinality(TicksOn(segs, lo, hi)) \in Nat
<1> DEFINE S == ActiveOf(segs, lo, hi)
<1>1. IsFiniteSet(DOMAIN segs) /\ S \subseteq DOMAIN segs
  BY HitsFinite DEF ActiveOf, Whole
<1>2. IsFiniteSet(S)
  BY <1>1, FS_Subset
<1> HIDE DEF S
<1>3. IsFiniteSet(TicksOf(segs, S, lo, hi))
  BY <1>2, TicksOfFinite
<1> QED BY <1>3, FS_CardinalityType DEF TicksOn, S

(* A sum over active segments that misses none with a length counts all    *)
(* ticks.                                                                  *)
LEMMA ActiveTotal ==
  ASSUME NEW segs, Whole(segs), NEW lo \in Int, NEW hi \in Int, lo <= hi,
         NEW S, S \subseteq ActiveOf(segs, lo, hi),
         \A i \in ActiveOf(segs, lo, hi) : Positive(segs[i]) => i \in S
  PROVE  Total(segs, S, lo, hi) = Cardinality(TicksOn(segs, lo, hi))
<1>1. \A i \in ActiveOf(segs, lo, hi) :
        /\ i \in DOMAIN segs /\ segs[i].start \in Int /\ segs[i].end \in Int
        /\ Touches(segs[i], lo, hi)
  BY DEF ActiveOf, Whole, Segments, IsSegment
<1>2. IsFiniteSet(S)
  <2>1. S \subseteq DOMAIN segs
    BY <1>1
  <2>2. IsFiniteSet(DOMAIN segs)
    BY HitsFinite DEF Whole
  <2> QED BY <2>1, <2>2, FS_Subset
<1>3. Total(segs, S, lo, hi) = Cardinality(TicksOf(segs, S, lo, hi))
  BY <1>1, <1>2, TotalCountsTicks
<1>4. TicksOf(segs, S, lo, hi) = TicksOn(segs, lo, hi)
  <2>1. ASSUME NEW it \in TicksOn(segs, lo, hi)
        PROVE  it[1] \in S
    <3>1. /\ it[1] \in ActiveOf(segs, lo, hi) /\ it[2] \in Int
          /\ segs[it[1]].start <= it[2] /\ it[2] < segs[it[1]].end
      BY DEF TicksOn, TicksOf
    <3>2. Positive(segs[it[1]])
      BY <1>1, <3>1 DEF Positive
    <3> QED BY <3>1, <3>2
  <2> QED BY <2>1 DEF TicksOn, TicksOf
<1> QED BY <1>3, <1>4

(* Until a moment of the day there are some of its ticks, and all of them  *)
(* if no segment ends later.                                               *)
LEMMA TicksUntil ==
  ASSUME NEW segs, Whole(segs), NEW lo \in Int, NEW cut \in Int, NEW hi \in Int, cut <= hi
  PROVE  /\ TicksOn(segs, lo, cut) \subseteq TicksOn(segs, lo, hi)
         /\ (\A i \in DOMAIN segs : segs[i].end <= cut) =>
              TicksOn(segs, lo, cut) = TicksOn(segs, lo, hi)
<1>1. ASSUME NEW it \in TicksOn(segs, lo, cut)
      PROVE  it \in TicksOn(segs, lo, hi)
  <2>1. lo .. cut - 1 \subseteq lo .. hi - 1
    OBVIOUS
  <2>2. it \in (DOMAIN segs) \X (lo .. cut - 1)
    BY TickOf
  <2>3. it \in (DOMAIN segs) \X (lo .. hi - 1)
    BY <2>1, <2>2
  <2> QED BY <2>3, TickOf
<1>2. ASSUME \A i \in DOMAIN segs : segs[i].end <= cut, NEW it \in TicksOn(segs, lo, hi)
      PROVE  it \in TicksOn(segs, lo, cut)
  <2>1. /\ it \in (DOMAIN segs) \X (lo .. hi - 1) /\ it[1] \in DOMAIN segs
        /\ it[2] \in lo .. hi - 1 /\ it[2] < segs[it[1]].end
    BY TickOf
  <2>2. segs[it[1]].end \in Int
    BY <2>1 DEF Whole, Segments, IsSegment
  <2>3. it[2] \in lo .. cut - 1
    BY <1>2, <2>1, <2>2
  <2>4. it \in (DOMAIN segs) \X (lo .. cut - 1)
    BY <2>1, <2>3
  <2> QED BY <2>4, TickOf
<1> QED BY <1>1, <1>2

(***************************************************************************)
(* Work Blocks.  Every active segment with a length is one of some block.  *)
(***************************************************************************)
Stored(d) == Tabled(d) /\ Fresh(d) /\ BlocksOK(d)

LEMMA StoredHere ==
  ASSUME EngineHolds
  PROVE  Stored(db)
<1>1. Fresh(db) /\ BlocksOK(db)
  BY HereNow DEF EngineHolds, EngineInv, Consistent, TablesOK
<1> QED BY <1>1, TabledHere DEF Stored

LEMMA StoredNext ==
  ASSUME EngineHolds'
  PROVE  Stored(db')
<1>1. TablesOK(Here'.db)
  BY DEF EngineHolds, EngineInv, Consistent
<1>2. Here'.db = db'
  BY DEF Here, Begin
<1>3. Fresh(db') /\ BlocksOK(db')
  BY <1>1, <1>2 DEF TablesOK
<1> QED BY <1>3, TabledNext DEF Stored

LEMMA StoredRows ==
  ASSUME NEW d, Stored(d)
  PROVE  /\ Whole(d.segs)
         /\ \A b \in DOMAIN d.blocks : AddsUp(d.blocks[b], d.segs)
BY DEF Stored, Tabled, BlocksOK, Whole

InRow(row, i) == i \in row.first .. row.last

Covered(d) ==
  \A i \in DOMAIN d.segs :
    d.segs[i].state = "active" /\ Positive(d.segs[i]) =>
      \E b \in DOMAIN d.blocks : InRow(d.blocks[b], i)

LEMMA CoveredMoves ==
  ASSUME NEW d, Stored(d), NEW e, Stored(e), Moves(d, e), Covered(d)
  PROVE  Covered(e)
<1> SUFFICES ASSUME NEW i \in DOMAIN e.segs, e.segs[i].state = "active", Positive(e.segs[i])
             PROVE  \E b \in DOMAIN e.blocks : InRow(e.blocks[b], i)
  BY DEF Covered
<1>1. CASE e.segs[i].end # EndOf(d.segs, i, e.segs[i])
  BY <1>1 DEF Moves, BlocksGo, InRow
<1>2. CASE e.segs[i].end = EndOf(d.segs, i, e.segs[i])
  <2>1. e.segs[i].start \in Int /\ e.segs[i].end \in Int
    BY DEF Stored, Tabled, Segments, IsSegment
  <2>2. i \in DOMAIN d.segs /\ d.segs[i].end = e.segs[i].end
    BY <1>2, <2>1 DEF EndOf, Positive
  <2>3. d.segs[i].state = "active" /\ d.segs[i].start = e.segs[i].start
    BY <2>2 DEF Moves, SegsGrow
  <2>4. PICK b \in DOMAIN d.blocks : InRow(d.blocks[b], i)
    BY <2>2, <2>3 DEF Covered, Positive
  <2>5. /\ b \in DOMAIN e.blocks /\ e.blocks[b].first = d.blocks[b].first
        /\ d.blocks[b].last <= e.blocks[b].last
    BY DEF Moves, BlocksGo
  <2>6. d.blocks[b].first \in Int /\ d.blocks[b].last \in Int /\ e.blocks[b].last \in Int
    BY <2>5, StoredRows DEF AddsUp
  <2>7. InRow(e.blocks[b], i)
    BY <2>4, <2>5, <2>6 DEF InRow
  <2> QED BY <2>5, <2>7
<1> QED BY <1>1, <1>2

(* The stored active time counts the segments in blocks: these have all    *)
(* the ticks.                                                              *)
LEMMA InBlocksCounts ==
  ASSUME NEW d, Stored(d), Covered(d), NEW lo \in Int, NEW hi \in Int, lo <= hi
  PROVE  Total(d.segs, InSomeBlock(d, "active", lo, hi), lo, hi)
           = Cardinality(TicksOn(d.segs, lo, hi))
<1> DEFINE S == InSomeBlock(d, "active", lo, hi)
<1>1. Whole(d.segs)
  BY StoredRows
<1>2. S \subseteq ActiveOf(d.segs, lo, hi)
  BY <1>1 DEF InSomeBlock, ActiveOf, Touches, Whole, SegTimes
<1>3. ASSUME NEW i \in ActiveOf(d.segs, lo, hi), Positive(d.segs[i])
      PROVE  i \in S
  <2>1. /\ i \in DOMAIN d.segs /\ d.segs[i].state = "active"
        /\ d.segs[i].end > lo /\ d.segs[i].start < hi
    BY DEF ActiveOf, Touches
  <2>2. PICK b \in DOMAIN d.blocks : InRow(d.blocks[b], i)
    BY <1>3, <2>1 DEF Covered
  <2>3. AddsUp(d.blocks[b], d.segs)
    BY StoredRows
  <2>4. d.blocks[b].start <= d.segs[i].start /\ d.segs[i].end <= d.blocks[b].end
    BY <2>1, <2>2, <2>3 DEF AddsUp, ActiveIn, InRow
  <2>5. d.blocks[b].end \in Int /\ d.segs[i].end \in Int
    BY <1>1, <2>1, <2>3 DEF AddsUp, Whole, Segments, IsSegment
  <2>6. d.blocks[b].end >= d.segs[i].end
    BY <2>4, <2>5
  <2> QED BY <2>1, <2>4, <2>6 DEF InSomeBlock
<1> HIDE DEF S
<1>4. Total(d.segs, S, lo, hi) = Cardinality(TicksOn(d.segs, lo, hi))
  BY <1>1, <1>2, <1>3, ActiveTotal
<1> QED BY <1>4 DEF S

(* The blocks with an active tick, and for segments in sequence these are  *)
(* the blocks with active time.                                            *)
Worked(d, lo, hi) ==
  {b \in DOMAIN d.blocks : \E it \in TicksOn(d.segs, lo, hi) : InRow(d.blocks[b], it[1])}

Inside(d, b, lo, hi) ==
  {i \in DOMAIN d.segs :
     /\ d.segs[i].state = "active"
     /\ d.segs[i].start >= d.blocks[b].start
     /\ d.segs[i].end <= d.blocks[b].end
     /\ d.segs[i].end > lo /\ d.segs[i].start < hi}

LEMMA BlockCounts ==
  ASSUME NEW d, Stored(d), NEW b \in DOMAIN d.blocks, NEW lo \in Int, NEW hi \in Int, lo <= hi
  PROVE  /\ BlockActive(d, b, lo, hi) > 0 <=> TicksOf(d.segs, Inside(d, b, lo, hi), lo, hi) # {}
         /\ Inside(d, b, lo, hi) \subseteq ActiveOf(d.segs, lo, hi)
<1> DEFINE S == Inside(d, b, lo, hi)
           ticks == TicksOf(d.segs, S, lo, hi)
<1>1. Whole(d.segs)
  BY StoredRows
<1>2. S \subseteq ActiveOf(d.segs, lo, hi)
  BY <1>1 DEF Inside, ActiveOf, Touches, Whole, SegTimes
<1>3. \A i \in S : d.segs[i].start \in Int /\ d.segs[i].end \in Int /\ Touches(d.segs[i], lo, hi)
  BY <1>1, <1>2 DEF ActiveOf, Whole, Segments, IsSegment
<1>4. IsFiniteSet(S)
  <2>1. S \subseteq DOMAIN d.segs
    BY DEF Inside
  <2>2. IsFiniteSet(DOMAIN d.segs)
    BY <1>1, HitsFinite DEF Whole
  <2> QED BY <2>1, <2>2, FS_Subset
<1>5. BlockActive(d, b, lo, hi) = Total(d.segs, S, lo, hi)
  BY DEF BlockActive, Inside
<1> HIDE DEF S
<1>6. Total(d.segs, S, lo, hi) = Cardinality(ticks)
  BY <1>3, <1>4, TotalCountsTicks
<1>7. IsFiniteSet(ticks)
  BY <1>4, TicksOfFinite
<1> HIDE DEF ticks
<1>8. Cardinality(ticks) \in Nat /\ (Cardinality(ticks) = 0 <=> ticks = {})
  BY <1>7, FS_CardinalityType, FS_EmptySet
<1>9. BlockActive(d, b, lo, hi) > 0 <=> ticks # {}
  BY <1>5, <1>6, <1>8
<1> QED BY <1>2, <1>9 DEF S, ticks

LEMMA InsideInSequence ==
  ASSUME NEW segs, Whole(segs), InSequence(segs), NEW row, AddsUp(row, segs),
         NEW i \in DOMAIN segs, segs[i].state = "active", Positive(segs[i])
  PROVE  segs[i].start >= row.start /\ segs[i].end <= row.end <=> InRow(row, i)
<1>1. /\ Len(segs) \in Nat /\ DOMAIN segs = 1 .. Len(segs) /\ i \in 1 .. Len(segs)
      /\ segs[i].start \in Int /\ segs[i].end \in Int
  BY WholeRows DEF Timed
<1>2. /\ row.first \in 1 .. Len(segs) /\ row.last \in 1 .. Len(segs)
      /\ row.start \in Int /\ row.end \in Int
      /\ row.start = segs[row.first].start /\ row.end <= segs[row.last].end
  BY <1>1 DEF AddsUp
<1>3. segs[row.last].end \in Int
  BY <1>2, WholeRows DEF Timed
<1>4. ASSUME InRow(row, i)
      PROVE  segs[i].start >= row.start /\ segs[i].end <= row.end
  BY <1>1, <1>2, <1>4 DEF AddsUp, ActiveIn, InRow
<1>5. ASSUME segs[i].start >= row.start, segs[i].end <= row.end
      PROVE  InRow(row, i)
  <2>1. CASE i < row.first
    <3>1. segs[i].end <= segs[row.first].start
      BY <1>1, <1>2, <2>1 DEF InSequence
    <3> QED BY <1>1, <1>2, <1>5, <3>1 DEF Positive
  <2>2. CASE row.last < i
    <3>1. segs[row.last].end <= segs[i].start
      BY <1>1, <1>2, <2>2 DEF InSequence
    <3> QED BY <1>1, <1>2, <1>3, <1>5, <3>1 DEF Positive
  <2> QED BY <1>1, <1>2, <2>1, <2>2 DEF InRow
<1> QED BY <1>4, <1>5

LEMMA WorkedBlocks ==
  ASSUME NEW d, Stored(d), InSequence(d.segs), NEW b \in DOMAIN d.blocks,
         NEW lo \in Int, NEW hi \in Int, lo <= hi
  PROVE  /\ BlockActive(d, b, lo, hi) > 0 <=> b \in Worked(d, lo, hi)
         /\ b \in Worked(d, lo, hi) => d.blocks[b].end > lo /\ d.blocks[b].start < hi
<1> DEFINE S == Inside(d, b, lo, hi)
<1>1. Whole(d.segs) /\ AddsUp(d.blocks[b], d.segs)
  BY StoredRows
<1>2. ASSUME NEW it \in TicksOn(d.segs, lo, hi)
      PROVE  /\ InRow(d.blocks[b], it[1]) <=> it[1] \in S
             /\ InRow(d.blocks[b], it[1]) => d.blocks[b].end > lo /\ d.blocks[b].start < hi
  <2> DEFINE i == it[1]
             k == it[2]
             row == d.blocks[b]
  <2>1. /\ i \in DOMAIN d.segs /\ k \in lo .. hi - 1 /\ d.segs[i].state = "active"
        /\ d.segs[i].start <= k /\ k < d.segs[i].end
    BY <1>1, TickOf
  <2>2. /\ d.segs[i].start \in Int /\ d.segs[i].end \in Int /\ row.start \in Int /\ row.end \in Int
    BY <1>1, <2>1 DEF Whole, Segments, IsSegment, AddsUp
  <2> HIDE DEF i, k
  <2>3. Positive(d.segs[i]) /\ d.segs[i].end > lo /\ d.segs[i].start < hi
    BY <2>1, <2>2 DEF Positive
  <2>4. d.segs[i].start >= row.start /\ d.segs[i].end <= row.end <=> InRow(row, i)
    BY <1>1, <2>1, <2>3, InsideInSequence
  <2>5. i \in S <=> d.segs[i].start >= row.start /\ d.segs[i].end <= row.end
    BY <2>1, <2>3 DEF Inside
  <2>6. InRow(row, i) => row.end > lo /\ row.start < hi
    BY <2>2, <2>3, <2>4
  <2> QED BY <2>4, <2>5, <2>6 DEF i
<1>3. TicksOf(d.segs, S, lo, hi) # {} <=> \E it \in TicksOn(d.segs, lo, hi) : it[1] \in S
  <2>1. S \subseteq ActiveOf(d.segs, lo, hi)
    BY BlockCounts
  <2> HIDE DEF S
  <2>2. TicksOf(d.segs, S, lo, hi) = {it \in TicksOn(d.segs, lo, hi) : it[1] \in S}
    BY <2>1 DEF TicksOn, TicksOf
  <2> QED BY <2>2
<1>4. BlockActive(d, b, lo, hi) > 0 <=> TicksOf(d.segs, S, lo, hi) # {}
  BY BlockCounts
<1>5. b \in Worked(d, lo, hi) <=> \E it \in TicksOn(d.segs, lo, hi) : InRow(d.blocks[b], it[1])
  BY DEF Worked
<1> HIDE DEF S
<1> QED BY <1>2, <1>3, <1>4, <1>5

LEMMA BlocksFinite ==
  ASSUME NEW d, Stored(d)
  PROVE  IsFiniteSet(DOMAIN d.blocks)
BY RowsLen, FS_Interval DEF Stored, Tabled

LEMMA WorkedFinite ==
  ASSUME NEW d, Stored(d), NEW lo, NEW hi
  PROVE  IsFiniteSet(Worked(d, lo, hi)) /\ Cardinality(Worked(d, lo, hi)) \in Nat
<1>1. IsFiniteSet(DOMAIN d.blocks)
  BY BlocksFinite
<1>2. Worked(d, lo, hi) \subseteq DOMAIN d.blocks
  BY DEF Worked
<1> QED BY <1>1, <1>2, FS_Subset, FS_CardinalityType

LEMMA WorkedUntil ==
  ASSUME NEW d, Stored(d), NEW lo \in Int, NEW cut \in Int, NEW hi \in Int, cut <= hi
  PROVE  /\ Worked(d, lo, cut) \subseteq Worked(d, lo, hi)
         /\ (\A i \in DOMAIN d.segs : d.segs[i].end <= cut) =>
              Worked(d, lo, cut) = Worked(d, lo, hi)
<1>1. Whole(d.segs)
  BY StoredRows
<1>2. /\ TicksOn(d.segs, lo, cut) \subseteq TicksOn(d.segs, lo, hi)
      /\ (\A i \in DOMAIN d.segs : d.segs[i].end <= cut) =>
           TicksOn(d.segs, lo, cut) = TicksOn(d.segs, lo, hi)
  BY <1>1, TicksUntil
<1> QED BY <1>2 DEF Worked

(***************************************************************************)
(* A date that is not rebuilt has the ticks and the worked blocks it had.  *)
(***************************************************************************)
DayTicksOf(d, x) == TicksOn(d.segs, DayStart(x), DayEnd(x))
DayWorked(d, x) == Worked(d, DayStart(x), DayEnd(x))

LEMMA TicksStay ==
  ASSUME NEW d, Stored(d), NEW e, Stored(e), SegsGrow(d.segs, e.segs), NEW x \in Dates,
         e.daily[x] = d.daily[x]
  PROVE  DayTicksOf(e, x) = DayTicksOf(d, x)
<1> DEFINE lo == DayStart(x)
           hi == DayEnd(x)
<1>1. lo \in Int /\ hi \in Int /\ lo < hi
  BY DayBounds
<1>2. Whole(d.segs) /\ Whole(e.segs)
  BY StoredRows
<1>3. ASSUME NEW a \in Apps
      PROVE  /\ AppTicks(d.segs, {a}, x) = AppTicks(e.segs, {a}, x)
  <2> DEFINE D == HitsIn(d.segs, a, "active", lo, hi)
             E == HitsIn(e.segs, a, "active", lo, hi)
  <2>1. Usage(d.segs, lo, hi)[a].active = Usage(e.segs, lo, hi)[a].active
    BY DEF Stored, Fresh, DateUsage
  <2> HIDE DEF lo, hi
  <2>2. Total(d.segs, D, lo, hi) = Total(e.segs, E, lo, hi)
    BY <2>1, UsageByHits
  <2>3. Cardinality(TicksOf(d.segs, D, lo, hi)) = Cardinality(TicksOf(e.segs, E, lo, hi))
    BY <1>1, <1>2, <2>2, HitsTotal DEF Whole
  <2>4. D = RowsOfApps(d.segs, {a}, lo, hi) /\ E = RowsOfApps(e.segs, {a}, lo, hi)
    BY DEF HitsIn, Hits, RowsOfApps
  <2> HIDE DEF D, E
  <2>5. Cardinality(AppTicks(d.segs, {a}, x)) = Cardinality(AppTicks(e.segs, {a}, x))
    BY <2>3, <2>4 DEF AppTicks, lo, hi
  <2>6. AppTicks(d.segs, {a}, x) \subseteq AppTicks(e.segs, {a}, x)
    <3>1. ASSUME NEW i \in RowsOfApps(d.segs, {a}, lo, hi)
          PROVE  i \in RowsOfApps(e.segs, {a}, lo, hi) /\ e.segs[i].start = d.segs[i].start
                 /\ d.segs[i].end \in Int /\ e.segs[i].end \in Int /\ d.segs[i].end <= e.segs[i].end
      <4>1. /\ i \in DOMAIN d.segs /\ i \in DOMAIN e.segs /\ d.segs[i].start \in Int
            /\ d.segs[i].end \in Int /\ e.segs[i].end \in Int
            /\ e.segs[i].app = d.segs[i].app
            /\ e.segs[i].state = d.segs[i].state /\ e.segs[i].start = d.segs[i].start
            /\ e.segs[i].end = d.segs[i].end \/ d.segs[i].end < e.segs[i].end
        BY <1>2 DEF RowsOfApps, SegsGrow, Whole, Segments, IsSegment
      <4> QED BY <1>1, <4>1 DEF RowsOfApps, Meets
    <3> SUFFICES ASSUME NEW it \in AppTicks(d.segs, {a}, x) PROVE it \in AppTicks(e.segs, {a}, x)
      OBVIOUS
    <3>2. /\ it \in RowsOfApps(d.segs, {a}, lo, hi) \X (lo .. hi - 1)
          /\ d.segs[it[1]].start <= it[2] /\ it[2] < d.segs[it[1]].end
      BY DEF AppTicks, TicksOf, lo, hi
    <3>3. it[1] \in RowsOfApps(d.segs, {a}, lo, hi) /\ it[2] \in lo .. hi - 1
      BY <3>2
    <3>4. it[2] < e.segs[it[1]].end
      <4>1. it[2] \in Int /\ it[2] < d.segs[it[1]].end
        BY <1>1, <3>2, <3>3
      <4>2. /\ d.segs[it[1]].end \in Int /\ e.segs[it[1]].end \in Int
            /\ d.segs[it[1]].end <= e.segs[it[1]].end
        BY <3>1, <3>3
      <4> QED BY <4>1, <4>2
    <3>5. it \in RowsOfApps(e.segs, {a}, lo, hi) \X (lo .. hi - 1)
      BY <3>1, <3>2
    <3> QED BY <3>1, <3>2, <3>3, <3>4, <3>5 DEF AppTicks, TicksOf, lo, hi
  <2>7. IsFiniteSet(AppTicks(e.segs, {a}, x))
    BY <1>2, AppTicksFinite DEF Whole
  <2> QED BY <2>5, <2>6, <2>7, FS_Subset
<1> HIDE DEF lo, hi
<1>4. ASSUME NEW segs, Whole(segs), NEW it
      PROVE  it \in TicksOn(segs, lo, hi) <=> \E a \in Apps : it \in AppTicks(segs, {a}, x)
  <2>1. ASSUME it \in TicksOn(segs, lo, hi)
        PROVE  \E a \in Apps : it \in AppTicks(segs, {a}, x)
    <3> DEFINE i == it[1]
    <3>1. /\ it \in (DOMAIN segs) \X (lo .. hi - 1) /\ i \in DOMAIN segs /\ it[2] \in lo .. hi - 1
          /\ segs[i].state = "active" /\ segs[i].start <= it[2] /\ it[2] < segs[i].end
      BY <1>1, <1>4, <2>1, TickOf
    <3>2. segs[i].app \in Apps /\ segs[i].start \in Int /\ segs[i].end \in Int
      BY <1>4, <3>1 DEF Whole, Segments, IsSegment
    <3>3. Meets(segs[i], lo, hi)
      BY <1>1, <3>1, <3>2 DEF Meets
    <3>4. i \in RowsOfApps(segs, {segs[i].app}, lo, hi)
      BY <3>1, <3>3 DEF RowsOfApps
    <3>5. it \in AppTicks(segs, {segs[i].app}, x)
      BY <3>1, <3>4 DEF AppTicks, TicksOf, lo, hi
    <3> QED BY <3>2, <3>5
  <2>2. ASSUME NEW a \in Apps, it \in AppTicks(segs, {a}, x)
        PROVE  it \in TicksOn(segs, lo, hi)
    <3>1. /\ it \in RowsOfApps(segs, {a}, lo, hi) \X (lo .. hi - 1)
          /\ segs[it[1]].start <= it[2] /\ it[2] < segs[it[1]].end
      BY <2>2 DEF AppTicks, TicksOf, lo, hi
    <3>2. it \in (DOMAIN segs) \X (lo .. hi - 1) /\ segs[it[1]].state = "active"
      BY <3>1 DEF RowsOfApps
    <3> QED BY <1>1, <1>4, <3>1, <3>2, TickOf
  <2> QED BY <2>1, <2>2
<1>5. TicksOn(e.segs, lo, hi) = TicksOn(d.segs, lo, hi)
  <2>1. \A it : it \in TicksOn(e.segs, lo, hi) <=> \E a \in Apps : it \in AppTicks(e.segs, {a}, x)
    BY <1>2, <1>4
  <2>2. \A it : it \in TicksOn(d.segs, lo, hi) <=> \E a \in Apps : it \in AppTicks(d.segs, {a}, x)
    BY <1>2, <1>4
  <2>3. \A it : it \in TicksOn(e.segs, lo, hi) <=> it \in TicksOn(d.segs, lo, hi)
    BY <1>3, <2>1, <2>2
  <2> QED BY <2>3
<1> QED BY <1>5 DEF DayTicksOf, lo, hi

LEMMA SequenceBefore ==
  ASSUME NEW d, Stored(d), NEW e, Stored(e), SegsGrow(d.segs, e.segs), InSequence(e.segs)
  PROVE  InSequence(d.segs)
<1> SUFFICES ASSUME NEW i \in DOMAIN d.segs, NEW j \in DOMAIN d.segs, i < j
             PROVE  d.segs[i].end <= d.segs[j].start
  BY DEF InSequence
<1>1. /\ i \in DOMAIN e.segs /\ j \in DOMAIN e.segs /\ e.segs[j].start = d.segs[j].start
      /\ e.segs[i].end = d.segs[i].end \/ d.segs[i].end < e.segs[i].end
  BY DEF SegsGrow
<1>2. e.segs[i].end <= e.segs[j].start
  BY <1>1 DEF InSequence
<1>3. d.segs[i].end \in Int /\ e.segs[i].end \in Int /\ d.segs[j].start \in Int
  BY <1>1 DEF Stored, Tabled, Segments, IsSegment
<1> QED BY <1>1, <1>2, <1>3

LEMMA WorkedStays ==
  ASSUME NEW d, Stored(d), NEW e, Stored(e), Moves(d, e), NEW x \in Dates,
         e.daily[x] = d.daily[x]
  PROVE  DayWorked(e, x) = DayWorked(d, x)
<1> DEFINE lo == DayStart(x)
           hi == DayEnd(x)
<1>1. lo \in Int /\ hi \in Int
  BY DayBounds
<1>2. TicksOn(e.segs, lo, hi) = TicksOn(d.segs, lo, hi)
  BY TicksStay DEF Moves, DayTicksOf
<1>3. Whole(d.segs)
  BY StoredRows
<1> HIDE DEF lo, hi
<1>4. ASSUME NEW it \in TicksOn(d.segs, lo, hi)
      PROVE  it[1] \in DOMAIN d.segs /\ d.segs[it[1]].state = "active"
             /\ d.segs[it[1]].start # d.segs[it[1]].end
  <2>1. /\ it[1] \in DOMAIN d.segs /\ it[2] \in lo .. hi - 1
        /\ d.segs[it[1]].state = "active"
        /\ d.segs[it[1]].start <= it[2] /\ it[2] < d.segs[it[1]].end
    BY <1>1, <1>3, TickOf
  <2>2. d.segs[it[1]].start \in Int /\ d.segs[it[1]].end \in Int
    BY <1>3, <2>1 DEF Whole, Segments, IsSegment
  <2>3. it[2] \in Int
    BY <1>1, <2>1
  <2> QED BY <2>1, <2>2, <2>3
<1>5. ASSUME NEW b \in DOMAIN d.blocks
      PROVE  /\ b \in DOMAIN e.blocks /\ e.blocks[b].first = d.blocks[b].first
             /\ d.blocks[b].last <= e.blocks[b].last
             /\ NoTimeIn(d.segs, d.blocks[b].last + 1, e.blocks[b].last)
             /\ d.blocks[b].first \in Int /\ d.blocks[b].last \in Int
             /\ d.blocks[b].first <= d.blocks[b].last
             /\ e.blocks[b].last \in Int
  <2>1. b \in DOMAIN e.blocks
    BY DEF Moves, BlocksGo
  <2> QED BY <2>1, StoredRows DEF Moves, BlocksGo, AddsUp
<1>6. ASSUME NEW b \in DOMAIN d.blocks, NEW it \in TicksOn(d.segs, lo, hi)
      PROVE  InRow(e.blocks[b], it[1]) <=> InRow(d.blocks[b], it[1])
  <2>1. it[1] \in Int
    BY <1>3, <1>4, WholeRows
  <2>2. it[1] \notin (d.blocks[b].last + 1) .. e.blocks[b].last
    BY <1>4, <1>5 DEF NoTimeIn, ActiveIn
  <2> QED BY <1>5, <2>1, <2>2 DEF InRow
<1>7. ASSUME NEW b \in DOMAIN e.blocks \ DOMAIN d.blocks, NEW it \in TicksOn(d.segs, lo, hi)
      PROVE  ~ InRow(e.blocks[b], it[1])
  <2>1. NoTimeIn(d.segs, e.blocks[b].first, e.blocks[b].last)
    BY DEF Moves, BlocksGo
  <2> QED BY <1>4, <2>1 DEF NoTimeIn, ActiveIn, InRow
<1>8. Worked(e, lo, hi) = Worked(d, lo, hi)
  BY <1>2, <1>5, <1>6, <1>7 DEF Worked
<1> QED BY <1>8 DEF DayWorked, lo, hi

(***************************************************************************)
(* What the projection of a date tells: exactly what the rows do.          *)
(***************************************************************************)
DayTold(d, x) ==
  /\ x \notin d.recorded => d.metrics[x].active = 0 /\ d.metrics[x].blocks = 0
  /\ d.metrics[x].active = Cardinality(DayTicksOf(d, x))
  /\ InSequence(d.segs) => d.metrics[x].blocks = Cardinality(DayWorked(d, x))

DaysTold(d) == Covered(d) /\ \A x \in Dates : DayTold(d, x)

LEMMA RebuiltTells ==
  ASSUME NEW d, Stored(d), Covered(d), NEW x \in Dates, NEW m, m = WorkMetrics(d, x)
  PROVE  /\ m.active = Cardinality(DayTicksOf(d, x))
         /\ InSequence(d.segs) => m.blocks = Cardinality(DayWorked(d, x))
<1> DEFINE lo == DayStart(x)
           hi == DayEnd(x)
<1>1. lo \in Int /\ hi \in Int /\ lo <= hi
  <2>1. lo \in Int /\ hi \in Int /\ lo < hi
    BY DayBounds
  <2> QED BY <2>1
<1>2. /\ m.active = Total(d.segs, InSomeBlock(d, "active", lo, hi), lo, hi)
      /\ m.blocks = Cardinality({b \in DOMAIN d.blocks : BlockActive(d, b, lo, hi) > 0})
  BY DEF WorkMetrics
<1> HIDE DEF lo, hi
<1>3. m.active = Cardinality(TicksOn(d.segs, lo, hi))
  BY <1>1, <1>2, InBlocksCounts
<1>4. ASSUME InSequence(d.segs)
      PROVE  {b \in DOMAIN d.blocks : BlockActive(d, b, lo, hi) > 0} = Worked(d, lo, hi)
  <2>1. \A b \in DOMAIN d.blocks : BlockActive(d, b, lo, hi) > 0 <=> b \in Worked(d, lo, hi)
    BY <1>1, <1>4, WorkedBlocks
  <2>2. Worked(d, lo, hi) \subseteq DOMAIN d.blocks
    BY DEF Worked
  <2> QED BY <2>1, <2>2
<1>5. InSequence(d.segs) => m.blocks = Cardinality(Worked(d, lo, hi))
  BY <1>2, <1>4
<1> QED BY <1>3, <1>5 DEF DayTicksOf, DayWorked, lo, hi

(* A date that loses its row had no active time to lose.                   *)
LEMMA NoRowNoWork ==
  ASSUME NEW d, Stored(d), Covered(d), NEW x \in Dates, NEW m, m = WorkMetrics(d, x), ~WorthARow(m)
  PROVE  m.active = 0 /\ m.blocks = 0
<1> DEFINE lo == DayStart(x)
           hi == DayEnd(x)
           counted == {b \in DOMAIN d.blocks : BlockActive(d, b, lo, hi) > 0}
<1>1. m.active \in Nat
  <2>1. m.active = Cardinality(TicksOn(d.segs, lo, hi))
    BY RebuiltTells DEF DayTicksOf
  <2>2. lo \in Int /\ hi \in Int
    BY DayBounds
  <2> QED BY <2>1, <2>2, StoredRows, TicksOnFinite
<1>2. m.blocks \in Nat
  <2>1. m.blocks = Cardinality(counted)
    BY DEF WorkMetrics
  <2>2. IsFiniteSet(DOMAIN d.blocks)
    BY BlocksFinite
  <2>3. IsFiniteSet(counted)
    BY <2>2, FS_Subset
  <2> QED BY <2>1, <2>3, FS_CardinalityType
<1>3. ~(m.active > 0) /\ ~(m.blocks > 0)
  BY DEF WorthARow
<1> QED BY <1>1, <1>2, <1>3

LEMMA DaysToldMoves ==
  ASSUME NEW d, Stored(d), NEW e, Stored(e), DaysTold(d), Moves(d, e)
  PROVE  DaysTold(e)
<1>1. Covered(e)
  BY CoveredMoves DEF DaysTold
<1> SUFFICES ASSUME NEW x \in Dates PROVE DayTold(e, x)
  BY <1>1 DEF DaysTold
<1>2. DayTold(d, x)
  BY DEF DaysTold
<1>3. CASE /\ e.daily[x] = d.daily[x] /\ e.metrics[x] = d.metrics[x]
           /\ x \in e.recorded <=> x \in d.recorded
  <2>1. DayTicksOf(e, x) = DayTicksOf(d, x)
    BY <1>3, TicksStay DEF Moves
  <2>2. DayWorked(e, x) = DayWorked(d, x)
    BY <1>3, WorkedStays
  <2>3. InSequence(e.segs) => InSequence(d.segs)
    BY SequenceBefore DEF Moves
  <2> QED BY <1>2, <1>3, <2>1, <2>2, <2>3 DEF DayTold
<1>4. CASE /\ e.metrics[x] = WorkMetrics(e, x)
           /\ x \in e.recorded <=> WorthARow(WorkMetrics(e, x))
  <2>1. x \notin e.recorded => e.metrics[x].active = 0 /\ e.metrics[x].blocks = 0
    <3> SUFFICES ASSUME x \notin e.recorded
                 PROVE  e.metrics[x].active = 0 /\ e.metrics[x].blocks = 0
      OBVIOUS
    <3>1. ~WorthARow(WorkMetrics(e, x))
      BY <1>4
    <3> QED BY <1>1, <1>4, <3>1, NoRowNoWork
  <2> QED BY <1>1, <1>4, <2>1, RebuiltTells DEF DayTold
<1> QED BY <1>3, <1>4 DEF Moves, RowsFrom

(* Same moment: inside the day.                                            *)
LEMMA SameMomentInDay ==
  ASSUME NEW now \in Int, NEW x \in Dates
  PROVE  /\ SameMoment(x, now) \in Int
         /\ DayStart(x) <= SameMoment(x, now) /\ SameMoment(x, now) <= DayEnd(x)
<1> DEFINE lo == DayStart(x)
           hi == DayEnd(x)
           y == DateOf(now)
           z == now + ZoneOffset
           gone == now - DayStart(y)
<1>1. lo \in Int /\ hi \in Int /\ lo < hi
  BY DayBounds
<1>2. z \in Int /\ ZoneOffset \in Int /\ DayTicks \in Nat \ {0} /\ y = z \div DayTicks
  BY ProjectionConstants DEF DateOf
<1> HIDE DEF y
<1>3. y \in Int
  BY <1>2, InBucket
<1>4. y * DayTicks <= z /\ z < (y + 1) * DayTicks
  <2> HIDE DEF z
  <2>1. y <= z \div DayTicks /\ z \div DayTicks <= y
    BY <1>2, <1>3
  <2> QED BY <1>2, <1>3, <2>1, InBucket
<1>5. y * DayTicks \in Int /\ (y + 1) * DayTicks \in Int
  BY <1>2, <1>3
<1>6. DayStart(y) \in Int /\ DayStart(y) <= now /\ now < DayEnd(y)
  <2> DEFINE p == y * DayTicks
             q == (y + 1) * DayTicks
  <2>1. DayStart(y) = p - ZoneOffset /\ DayEnd(y) = q - ZoneOffset
    BY DEF DayStart, DayEnd
  <2>2. p \in Int /\ q \in Int /\ p <= now + ZoneOffset /\ now + ZoneOffset < q
    BY <1>4, <1>5
  <2> HIDE DEF p, q
  <2> QED BY <1>2, <2>1, <2>2
<1>7. CASE x = y
  <2>1. SameMoment(x, now) = now
    BY <1>7 DEF SameMoment, y
  <2>2. hi \in Int /\ lo <= now /\ now < hi
    BY <1>1, <1>6, <1>7
  <2> QED BY <2>1, <2>2
<1>8. CASE x # y
  <2>1. SameMoment(x, now) = Min({lo + gone, hi - 1})
    BY <1>8 DEF SameMoment, y
  <2>2. gone \in Int /\ 0 <= gone
    BY <1>6
  <2> HIDE DEF lo, hi, gone
  <2>3. lo + gone \in Int /\ hi - 1 \in Int /\ lo <= lo + gone /\ lo <= hi - 1
    BY <1>1, <2>2
  <2>4. /\ Min({lo + gone, hi - 1}) \in {lo + gone, hi - 1}
        /\ Min({lo + gone, hi - 1}) <= hi - 1
    BY <2>3, MinOfTwo
  <2>5. /\ SameMoment(x, now) \in Int /\ lo <= SameMoment(x, now)
        /\ SameMoment(x, now) <= hi
    BY <1>1, <2>1, <2>3, <2>4
  <2> QED BY <2>5 DEF lo, hi
<1> QED BY <1>7, <1>8

LEMMA LiveCounts ==
  ASSUME NEW x \in Dates, NEW now \in Int, Stored(db), NEW cut, cut = SameMoment(x, now),
         NEW lo, lo = DayStart(x)
  PROVE  /\ Cutoff(x, now).active = Cardinality(TicksOn(db.segs, lo, cut))
         /\ InSequence(db.segs) => Cutoff(x, now).blocks = Cardinality(Worked(db, lo, cut))
<1> DEFINE S == {i \in DOMAIN db.segs : db.segs[i].state = "active" /\ Meets(db.segs[i], lo, cut)}
           C == {b \in DOMAIN db.blocks : /\ db.blocks[b].end > lo /\ db.blocks[b].start < cut
                                          /\ BlockActive(db, b, lo, cut) > 0}
<1>1. lo \in Int /\ cut \in Int /\ lo <= cut
  BY SameMomentInDay, DayBounds
<1>2. Whole(db.segs)
  BY StoredRows
<1>3. Cutoff(x, now).active = Total(db.segs, S, lo, cut) /\ Cutoff(x, now).blocks = Cardinality(C)
  BY DEF Cutoff
<1>4. S \subseteq ActiveOf(db.segs, lo, cut)
  <2>1. \A i \in DOMAIN db.segs : db.segs[i].start <= db.segs[i].end
    BY <1>2 DEF Whole, SegTimes
  <2> QED BY <2>1 DEF ActiveOf, Meets, Touches
<1>5. \A i \in ActiveOf(db.segs, lo, cut) : Positive(db.segs[i]) => i \in S
  <2>1. \A i \in DOMAIN db.segs : db.segs[i].start \in Int /\ db.segs[i].end \in Int
    BY <1>2 DEF Whole, Segments, IsSegment
  <2> QED BY <2>1 DEF ActiveOf, Meets, Touches, Positive
<1> HIDE DEF S
<1>6. Total(db.segs, S, lo, cut) = Cardinality(TicksOn(db.segs, lo, cut))
  BY <1>1, <1>2, <1>4, <1>5, ActiveTotal
<1>7. ASSUME InSequence(db.segs)
      PROVE  C = Worked(db, lo, cut)
  <2>1. \A b \in DOMAIN db.blocks :
          /\ BlockActive(db, b, lo, cut) > 0 <=> b \in Worked(db, lo, cut)
          /\ b \in Worked(db, lo, cut) => db.blocks[b].end > lo /\ db.blocks[b].start < cut
    BY <1>1, <1>7, WorkedBlocks
  <2>2. Worked(db, lo, cut) \subseteq DOMAIN db.blocks
    BY DEF Worked
  <2> QED BY <2>1, <2>2
<1> HIDE DEF C
<1> QED BY <1>3, <1>6, <1>7

LEMMA LiveHolds ==
  ASSUME EngineHolds, TimeFixed, DaysTold(db)
  PROVE  LiveMatchesProjection
<1> SUFFICES ASSUME Asked, NEW x \in Dates
             PROVE  LET live == Cutoff(x, reading.now)
                        cut == SameMoment(x, reading.now)
                        later == {i \in DOMAIN db.segs : db.segs[i].end > cut}
                    IN  /\ live.active <= DailyRow(x).active
                        /\ later = {} => live.active = DailyRow(x).active
                        /\ InSequence(db.segs) =>
                             /\ live.blocks <= DailyRow(x).blocks
                             /\ later = {} => live.blocks = DailyRow(x).blocks
  BY DEF LiveMatchesProjection
<1> DEFINE now == reading.now
           live == Cutoff(x, now)
           row == DailyRow(x)
           lo == DayStart(x)
           hi == DayEnd(x)
           cut == SameMoment(x, now)
           later == {i \in DOMAIN db.segs : db.segs[i].end > cut}
           A == TicksOn(db.segs, lo, cut)
           B == TicksOn(db.segs, lo, hi)
           V == Worked(db, lo, cut)
           W == Worked(db, lo, hi)
<1>1. Stored(db) /\ Whole(db.segs)
  BY StoredHere, StoredRows
<1>2. now \in Int
  BY DEF TimeFixed, Asked
<1>3. lo \in Int /\ cut \in Int /\ hi \in Int /\ lo <= cut /\ cut <= hi
  <2> HIDE DEF now
  <2> QED BY <1>2, SameMomentInDay, DayBounds
<1>4. row.active = db.metrics[x].active /\ row.blocks = db.metrics[x].blocks
  BY DEF DaysTold, DayTold, DailyRow, MetricsOf, NoMetrics
<1>5. row.active = Cardinality(B) /\ (InSequence(db.segs) => row.blocks = Cardinality(W))
  <2> HIDE DEF row
  <2> QED BY <1>4 DEF DaysTold, DayTold, DayTicksOf, DayWorked
<1>6. live.active = Cardinality(A) /\ (InSequence(db.segs) => live.blocks = Cardinality(V))
  <2> HIDE DEF now
  <2> QED BY <1>1, <1>2, LiveCounts
<1>7. later = {} => \A i \in DOMAIN db.segs : db.segs[i].end <= cut
  <2>1. \A i \in DOMAIN db.segs : db.segs[i].end \in Int
    BY <1>1 DEF Whole, Segments, IsSegment
  <2> HIDE DEF cut
  <2> QED BY <1>3, <2>1
<1> HIDE DEF live, row, lo, hi, cut, later
<1>8. A \subseteq B /\ (later = {} => A = B)
  BY <1>1, <1>3, <1>7, TicksUntil
<1>9. V \subseteq W /\ (later = {} => V = W)
  BY <1>1, <1>3, <1>7, WorkedUntil
<1>10. IsFiniteSet(B) /\ IsFiniteSet(W)
  BY <1>1, <1>3, TicksOnFinite, WorkedFinite
<1> HIDE DEF A, B, V, W
<1>11. Cardinality(A) <= Cardinality(B) /\ Cardinality(V) <= Cardinality(W)
  BY <1>8, <1>9, <1>10, FS_Subset
<1>12. /\ live.active <= row.active
       /\ later = {} => live.active = row.active
       /\ InSequence(db.segs) => /\ live.blocks <= row.blocks
                                 /\ later = {} => live.blocks = row.blocks
  BY <1>5, <1>6, <1>8, <1>9, <1>11
<1> QED BY <1>12 DEF live, row, cut, later

LiveHeld == TimeFixed /\ DaysTold(db)

LEMMA LiveBegins ==
  ASSUME ReadInit
  PROVE  LiveHeld
<1>1. EngineHolds
  BY InitHolds DEF ReadInit, EngineHolds
<1>2. Whole(db.segs)
  BY <1>1, StoredHere, StoredRows
<1>3. db.segs = <<>> /\ db.blocks = <<>> /\ db.metrics = [x \in Dates |-> NoMetrics]
  BY DEF ReadInit, Init, Bootstrapped
<1>4. DOMAIN db.segs = {} /\ DOMAIN db.blocks = {}
  BY <1>3
<1>5. ASSUME NEW x \in Dates
      PROVE  DayTold(db, x)
  <2>1. DayTicksOf(db, x) = {}
    BY <1>4 DEF DayTicksOf, TicksOn, TicksOf, ActiveOf
  <2>2. DayWorked(db, x) = {}
    BY <1>4 DEF DayWorked, Worked
  <2>3. db.metrics[x] = NoMetrics /\ NoMetrics.active = 0 /\ NoMetrics.blocks = 0
    BY <1>3 DEF NoMetrics
  <2>4. Cardinality({}) = 0
    BY FS_EmptySet
  <2> QED BY <2>1, <2>2, <2>3, <2>4 DEF DayTold
<1>6. Covered(db)
  BY <1>4 DEF Covered
<1>7. TimeFixed
  BY DEF ReadInit, NoReading, TimeFixed
<1> QED BY <1>5, <1>6, <1>7 DEF LiveHeld, DaysTold

LEMMA LiveStep ==
  ASSUME EngineHolds, EngineHolds', LiveHeld, [ReadNext]_allVars
  PROVE  LiveHeld'
<1>1. Stored(db) /\ Stored(db')
  BY StoredHere, StoredNext
<1>2. TimeFixed'
  BY TimeFixedStep DEF LiveHeld
<1>3. DaysTold(db')
  <2>1. CASE [Next]_vars
    <3>1. Moves(db, db')
      BY <2>1, EngineStep DEF EngineHolds
    <3> QED BY <1>1, <3>1, DaysToldMoves DEF LiveHeld
  <2>2. CASE UNCHANGED vars
    BY <2>2 DEF vars, LiveHeld
  <2> QED BY <2>1, <2>2, ReadSplit
<1> QED BY <1>2, <1>3 DEF LiveHeld

(* The live numbers of the statistics page and the bars of its history     *)
(* come from different tables and agree: on every day the time and, unless *)
(* the clock was set back, the Work Blocks counted until the same moment   *)
(* are not more than the stored ones, and are the stored ones when nothing *)
(* came later - whatever was inserted, extended, closed or recovered, and  *)
(* though a transaction rebuilds only the dates it touches (reader.rs:768, *)
(* recompute.rs:79-125, query.rs:188).                                     *)
THEOREM ReadSpecLiveMatchesProjection == ReadSpec => []LiveMatchesProjection
<1>1. ReadInit => LiveHeld
  BY LiveBegins
<1>2. EngineHolds /\ EngineHolds' /\ LiveHeld /\ [ReadNext]_allVars => LiveHeld'
  BY LiveStep
<1>3. EngineHolds /\ LiveHeld => LiveMatchesProjection
  BY LiveHolds DEF LiveHeld
<1>4. ReadSpec => ReadInit /\ [][ReadNext]_allVars
  BY PTL DEF ReadSpec, allVars
<1> QED BY <1>1, <1>2, <1>3, <1>4, ReadSpecEngineHolds, PTL

-----------------------------------------------------------------------------
(***************************************************************************)
(* The rows, the memory and the dates that have been rebuilt all lie in    *)
(* the time the clock has run through.                                     *)
(***************************************************************************)
Present == 0 .. MaxUtc

SegsIn(rows) == \A i \in DOMAIN rows : rows[i].start \in Present /\ rows[i].end \in Present

StartsIn(rows) == \A i \in DOMAIN rows : rows[i].start \in Present

BeatsIn(runs) ==
  \A i \in DOMAIN runs : runs[i].beat \in Present /\ runs[i].write \in Present \cup {NoTime}

MemIn(m) == /\ m.seg = NoSegment \/ m.seg.end \in Present
            /\ m.point = NoPoint \/ m.point.utc \in Present

DbIn(d) == SegsIn(d.segs) /\ StartsIn(d.gaps) /\ BeatsIn(d.runs) /\ d.recorded \subseteq Dates

InTime(t) == DbIn(t.db) /\ MemIn(t.mem)

LEMMA PresentDate ==
  ASSUME NEW x \in Present
  PROVE  x \in Int /\ DateOf(x) \in Dates
<1> DEFINE f == 0 + ZoneOffset
           g == x + ZoneOffset
           h == MaxUtc + ZoneOffset
           p == f \div DayTicks
           q == g \div DayTicks
           r == h \div DayTicks
<1>1. /\ f \in Int /\ g \in Int /\ h \in Int /\ f <= g /\ g <= h
      /\ DayTicks \in Nat \ {0}
  BY ProjectionConstants, EngineConstants DEF Present
<1>2. DateOf(0) = p /\ DateOf(x) = q /\ DateOf(MaxUtc) = r
  BY DEF DateOf
<1> HIDE DEF f, g, h
<1>3. p \in Int /\ q \in Int /\ r \in Int
  BY <1>1, InBucket
<1> HIDE DEF p, q, r
<1>4. p * DayTicks <= f /\ q * DayTicks <= g
  BY <1>1, <1>3, InBucket DEF p, q
<1>5. p * DayTicks <= g /\ q * DayTicks <= h
  <2>1. p * DayTicks \in Int /\ q * DayTicks \in Int
    BY <1>1, <1>3
  <2> QED BY <1>1, <1>4, <2>1
<1>6. p <= q
  BY <1>1, <1>3, <1>5, InBucket DEF q
<1>7. q <= r
  BY <1>1, <1>3, <1>5, InBucket DEF r
<1> QED BY <1>2, <1>3, <1>6, <1>7 DEF Dates, Present

LEMMA ClosedIn ==
  ASSUME NEW rows, Segments(rows), SegsIn(rows), NEW new, new \in {rows, Closed(rows)}
  PROVE  SegsIn(new)
BY ClosedSegments DEF SegsIn

LEMMA AppendedIn ==
  ASSUME NEW rows, IsRows(rows), NEW row, NEW new, new = Append(rows, row)
  PROVE  /\ SegsIn(rows) /\ row.start \in Present /\ row.end \in Present => SegsIn(new)
         /\ StartsIn(rows) /\ row.start \in Present => StartsIn(new)
<1>1. LET n == Len(rows) + 1
      IN  /\ DOMAIN new = DOMAIN rows \cup {n}
          /\ \A i \in DOMAIN rows : new[i] = rows[i]
          /\ new[n] = row
  BY RowsAppended
<1> QED BY <1>1 DEF SegsIn, StartsIn

LEMMA CloseGapIn ==
  ASSUME NEW t, Typed(t), StartsIn(t.db.gaps), NEW at, NEW u, u = CloseGap(t, at)
  PROVE  StartsIn(u.db.gaps)
<1> DEFINE rows == t.db.gaps
           new == ClosedAt(rows, at)
<1>1. u.db.gaps = new
  BY DEF CloseGap, Typed, Shaped
<1>2. Gaps(rows)
  BY DEF Typed, GapsTyped
<1> HIDE DEF rows
<1>3. DOMAIN new = DOMAIN rows
  BY DEF ClosedAt
<1>4. GapsKept(rows, new)
  BY <1>2, GapsKeptClosed
<1> HIDE DEF new
<1> QED BY <1>1, <1>3, <1>4 DEF StartsIn, GapsKept, rows

LEMMA OpenGapIn ==
  ASSUME NEW t, Typed(t), StartsIn(t.db.gaps), NEW kind, NEW at \in Present,
         NEW u, u = OpenGap(t, kind, at)
  PROVE  StartsIn(u.db.gaps)
<1> DEFINE row == [run |-> t.run, kind |-> kind, start |-> at, end |-> NoTime,
                   status |-> "open", events |-> 1]
<1>1. u.db.gaps = Append(t.db.gaps, row) /\ IsRows(t.db.gaps)
  BY DEF OpenGap, Typed, Shaped, GapsTyped, Gaps
<1>2. row.start \in Present
  OBVIOUS
<1> HIDE DEF row
<1> QED BY <1>1, <1>2, AppendedIn

LEMMA InsertGapIn ==
  ASSUME NEW t, Typed(t), StartsIn(t.db.gaps), NEW kind, NEW from \in Present, NEW to,
         NEW u, u = InsertGap(t, kind, from, to)
  PROVE  StartsIn(u.db.gaps)
<1> DEFINE row == [run |-> t.run, kind |-> kind, start |-> from, end |-> to,
                   status |-> "closed", events |-> 1]
<1>1. u.db.gaps = Append(t.db.gaps, row) /\ IsRows(t.db.gaps)
  BY DEF InsertGap, Typed, Shaped, GapsTyped, Gaps
<1>2. row.start \in Present
  OBVIOUS
<1> HIDE DEF row
<1> QED BY <1>1, <1>2, AppendedIn

LEMMA ExtendGapIn ==
  ASSUME NEW t, Typed(t), StartsIn(t.db.gaps), NEW u, u = ExtendGap(t)
  PROVE  StartsIn(u.db.gaps)
<1> DEFINE rows == t.db.gaps
           new == Extended(rows)
<1>1. u.db.gaps = new
  BY DEF ExtendGap, Typed, Shaped
<1>2. Gaps(rows)
  BY DEF Typed, GapsTyped
<1>3. GapsKept(rows, u.db.gaps)
  BY ExtendGapEffect
<1> HIDE DEF rows
<1>4. DOMAIN new = DOMAIN rows
  BY DEF Extended
<1> HIDE DEF new
<1> QED BY <1>1, <1>3, <1>4 DEF StartsIn, GapsKept, rows

LEMMA StartSegmentIn ==
  ASSUME NEW t, Typed(t), SegsIn(t.db.segs), NEW s, s.utc \in Present,
         NEW u, u = StartSegment(t, s)
  PROVE  SegsIn(u.db.segs)
<1> DEFINE epoch == Max({t.cont.epoch, s.epoch})
           row == [run |-> t.run, app |-> s.app, state |-> s.state, epoch |-> epoch,
                   start |-> s.utc, end |-> s.utc, status |-> "open"]
<1> HIDE DEF epoch
<1>1. u.db.segs = Append(t.db.segs, row) /\ IsRows(t.db.segs)
  BY DEF StartSegment, Typed, Shaped, SegsTyped, Segments, epoch
<1>2. row.start \in Present /\ row.end \in Present
  OBVIOUS
<1> HIDE DEF row
<1> QED BY <1>1, <1>2, AppendedIn

LEMMA RecomputeIn ==
  ASSUME NEW t, Typed(t), InTime(t), NEW from \in Present, NEW to \in Present,
         NEW u, u = Recompute(t, from, to)
  PROVE  InTime(u)
<1>1. SegsAs(t, u) /\ GapsAs(t, u) /\ LogAs(t, u) /\ u.mem = t.mem
  BY RecomputeEffect
<1>2. u.db.recorded \subseteq t.db.recorded \cup Dates
  <2> DEFINE dates == {DateOf(from), DateOf(to)}
             metrics == [d \in Dates |-> IF d \in dates THEN WorkMetrics(t.db, d)
                                                      ELSE t.db.metrics[d]]
             told == {d \in Dates \cap dates : WorthARow(metrics[d])}
  <2>1. u.db.recorded = (t.db.recorded \ dates) \cup told
    BY Zenon DEF Recompute, Typed, Shaped
  <2>2. told \subseteq Dates
    OBVIOUS
  <2> HIDE DEF dates, told
  <2> QED BY <2>1, <2>2
<1>3. u.db.recorded \subseteq Dates
  BY <1>2 DEF InTime, DbIn
<1> QED BY <1>1, <1>3 DEF InTime, DbIn, SegsAs, GapsAs, LogAs

LEMMA AttributeIn ==
  ASSUME NEW t, Typed(t), IsMemSegment(t.mem.seg), SegsIn(t.db.segs), NEW s, s.utc \in Present,
         t.mem.seg.state = s.state, 0 < s.utc - t.mem.seg.end, NEW v, v = Attribute(t, s)
  PROVE  SegsIn(v.db.segs)
<1> DEFINE seg == t.mem.seg
           old == t.db.segs
           delta == s.utc - seg.end
           u == Lengthened(t, s)
<1>1. \/ seg.state = "active" /\ v = CountActive(u, delta, s.utc)
      \/ seg.state = "idle" /\ v = CountIdle(u, delta, s.utc)
      \/ seg.state = "unknown" /\ v = u
  BY DEF Attribute, Lengthened, IsMemSegment, States
<1>2. Shaped(t) /\ Segments(old) /\ s.utc \in Int
  BY DEF Typed, SegsTyped, Present
<1>3. Shaped(u)
  BY <1>2 DEF Shaped, Lengthened
<1>4. WorkAs(t, u) /\ GapsAs(t, u) /\ LogAs(t, u) /\ RestAs(t, u) /\ IdleAs(t, u)
  BY <1>2 DEF Shaped, WorkAs, GapsAs, LogAs, RestAs, SeenAs, IdleAs, Lengthened
<1>5. u.db.segs = [old EXCEPT ![seg.id] = [@ EXCEPT !.end = s.utc]]
  BY <1>2 DEF Shaped, Lengthened
<1>6. u.mem.seg = [seg EXCEPT !.end = s.utc]
  BY <1>2 DEF Shaped, Lengthened
<1>7. delta \in Nat
  BY <1>2 DEF IsMemSegment
<1> HIDE DEF u, delta
<1>8. IsMemSegment(u.mem.seg)
  BY <1>2, <1>6 DEF IsMemSegment
<1> HIDE DEF old, seg
<1>9. DOMAIN u.db.segs = DOMAIN old /\ u.db.segs = [i \in DOMAIN u.db.segs |-> u.db.segs[i]]
  BY <1>5
<1>10. ASSUME NEW i \in DOMAIN old
       PROVE  /\ IsSegment(u.db.segs[i]) /\ u.db.segs[i].start = old[i].start
              /\ u.db.segs[i].end \in {old[i].end, s.utc}
  <2>1. IsSegment(old[i])
    BY <1>2 DEF Segments
  <2>2. CASE i = seg.id
    <3>1. u.db.segs[i] = [old[i] EXCEPT !.end = s.utc]
      BY <1>5, <2>2
    <3>2. u.db.segs[i] = [run |-> old[i].run, app |-> old[i].app, state |-> old[i].state,
                          epoch |-> old[i].epoch, start |-> old[i].start, end |-> s.utc,
                          status |-> old[i].status]
      BY <2>1, <3>1 DEF IsSegment
    <3> QED BY <1>2, <2>1, <3>2 DEF IsSegment
  <2>3. CASE i # seg.id
    BY <1>5, <2>1, <2>3
  <2> QED BY <2>2, <2>3
<1>11. Segments(u.db.segs)
  BY <1>2, <1>9, <1>10, RowsRebuilt DEF Segments
<1>12. Typed(u)
  BY <1>3, <1>4, <1>8, <1>11, TypedAs DEF Typed, SegsTyped
<1>13. SegsAs(u, v)
  <2>1. CASE seg.state = "active" /\ v = CountActive(u, delta, s.utc)
    BY <1>12, <2>1, CountActiveEffect
  <2>2. CASE seg.state = "idle" /\ v = CountIdle(u, delta, s.utc)
    BY <1>7, <1>8, <1>12, <2>2, CountIdleEffect
  <2>3. CASE v = u
    BY <2>3 DEF SegsAs
  <2> QED BY <1>1, <2>1, <2>2, <2>3
<1> QED BY <1>9, <1>10, <1>13 DEF SegsAs, SegsIn, old

LEMMA ApplySampleIn ==
  ASSUME NEW t, Typed(t), SegsIn(t.db.segs), StartsIn(t.db.gaps), MemIn(t.mem),
         NEW s, s.app \in Apps, s.utc \in Present, s.state \in States,
         NEW v, v = ApplySample(t, s)
  PROVE  SegsIn(v.db.segs) /\ StartsIn(v.db.gaps)
<1> DEFINE seg == t.mem.seg
           same == /\ seg.app = s.app /\ seg.state = s.state /\ seg.epoch = s.epoch
                   /\ 0 < s.utc - seg.end /\ s.utc - seg.end <= GapCap
           ended == [t EXCEPT !.db.segs = Closed(@)]
           cut == InsertGap(ended, "sampling_transition", seg.end, s.utc)
           changed == IF seg.state = s.state THEN cut ELSE ChangeState(cut, seg.state, s.state)
           free == [changed EXCEPT !.mem.seg = NoSegment]
<1>1. v = IF seg = NoSegment THEN StartSegment(t, s)
          ELSE IF same THEN Attribute(t, s) ELSE StartSegment(free, s)
  BY DEF ApplySample
<1>utc. s.utc \in Int
  BY PresentDate
<1>2. CASE seg = NoSegment
  <2>1. v = StartSegment(t, s)
    BY <1>1, <1>2
  <2>2. GapsAs(t, v)
    BY <1>utc, <2>1, StartSegmentEffect
  <2>3. SegsIn(v.db.segs)
    BY <2>1, StartSegmentIn
  <2> QED BY <2>2, <2>3 DEF GapsAs
<1>3. CASE seg # NoSegment /\ same
  <2>1. v = Attribute(t, s) /\ IsMemSegment(t.mem.seg)
    BY <1>1, <1>3 DEF Typed, SegsTyped
  <2>2. GapsAs(t, v)
    BY <1>3, <1>utc, <2>1, AttributeEffect
  <2>3. SegsIn(v.db.segs)
    BY <1>3, <2>1, AttributeIn
  <2> QED BY <2>2, <2>3 DEF GapsAs
<1>4. CASE seg # NoSegment /\ ~same
  <2>1. v = StartSegment(free, s) /\ IsMemSegment(seg) /\ seg.end \in Present
    BY <1>1, <1>4 DEF Typed, SegsTyped, MemIn
  <2>2. seg.state \in States
    BY <2>1 DEF IsMemSegment
  <2> HIDE DEF same
  <2>3. /\ Typed(ended) /\ GapsAs(t, ended) /\ ended.db.segs = Closed(t.db.segs)
    <3>1. Shaped(ended)
      BY DEF Typed, Shaped
    <3>2. /\ WorkAs(t, ended) /\ GapsAs(t, ended) /\ LogAs(t, ended) /\ IdleAs(t, ended)
          /\ RestAs(t, ended)
      BY DEF Typed, Shaped, WorkAs, GapsAs, LogAs, IdleAs, RestAs, SeenAs
    <3>3. ended.db.segs = Closed(t.db.segs) /\ ended.mem.seg = t.mem.seg
      BY DEF Typed, Shaped
    <3> HIDE DEF ended
    <3>4. SegsTyped(ended)
      BY <3>3, ClosedSegments DEF Typed, SegsTyped
    <3> QED BY <3>1, <3>2, <3>3, <3>4, TypedAs DEF Typed
  <2> HIDE DEF ended
  <2>4. Typed(cut) /\ SegsAs(ended, cut) /\ StartsIn(cut.db.gaps)
    <3>1. seg.end \in Int
      BY <2>1 DEF IsMemSegment
    <3>2. StartsIn(ended.db.gaps)
      BY <2>3 DEF GapsAs
    <3> HIDE DEF seg
    <3> QED BY <2>1, <2>3, <3>1, <3>2, InsertGapEffect, InsertGapIn
  <2> HIDE DEF cut
  <2>5. Typed(changed) /\ SegsAs(cut, changed) /\ GapsAs(cut, changed)
    <3>1. CASE seg.state = s.state
      BY <2>4, <3>1 DEF SegsAs, GapsAs
    <3>2. CASE seg.state # s.state
      <4>1. changed = ChangeState(cut, seg.state, s.state)
        BY <3>2
      <4> HIDE DEF changed, seg
      <4> QED BY <2>2, <2>4, <3>2, <4>1, ChangeStateEffect
    <3> QED BY <3>1, <3>2
  <2> HIDE DEF changed
  <2>6. /\ Typed(free) /\ free.db.segs = changed.db.segs /\ GapsAs(changed, free)
    <3>1. Shaped(free)
      BY <2>5 DEF Typed, Shaped
    <3>2. /\ WorkAs(changed, free) /\ GapsAs(changed, free) /\ LogAs(changed, free)
          /\ IdleAs(changed, free) /\ RestAs(changed, free)
      BY <2>5 DEF Typed, Shaped, WorkAs, GapsAs, LogAs, IdleAs, RestAs, SeenAs
    <3>3. free.db.segs = changed.db.segs /\ free.mem.seg = NoSegment
      BY <2>5 DEF Typed, Shaped
    <3> HIDE DEF free
    <3>4. SegsTyped(free)
      BY <2>5, <3>3 DEF Typed, SegsTyped
    <3> QED BY <2>5, <3>1, <3>2, <3>3, <3>4, TypedAs DEF Typed
  <2> HIDE DEF free
  <2>7. SegsIn(free.db.segs)
    <3>1. free.db.segs = Closed(t.db.segs)
      BY <2>3, <2>4, <2>5, <2>6 DEF SegsAs
    <3> QED BY <3>1, ClosedIn DEF Typed, SegsTyped
  <2>8. StartsIn(free.db.gaps)
    BY <2>4, <2>5, <2>6 DEF GapsAs
  <2>9. GapsAs(free, v)
    BY <1>utc, <2>1, <2>6, StartSegmentEffect
  <2>10. SegsIn(v.db.segs)
    BY <2>1, <2>6, <2>7, StartSegmentIn
  <2> QED BY <2>8, <2>9, <2>10 DEF GapsAs
<1> QED BY <1>2, <1>3, <1>4

LEMMA ResumedIn ==
  ASSUME NEW t, Typed(t), StartsIn(t.db.gaps), NEW at, NEW u, u = Resumed(t, at)
  PROVE  StartsIn(u.db.gaps)
<1>1. CASE t.mem.gap = "none"
  BY <1>1 DEF Resumed
<1>2. CASE t.mem.gap # "none"
  <2> DEFINE q == CloseGap(t, at)
  <2>1. Typed(q) /\ StartsIn(q.db.gaps)
    BY CloseGapEffect, CloseGapIn
  <2>2. u = [q EXCEPT !.mem.gap = "none"]
    BY <1>2 DEF Resumed
  <2> HIDE DEF q
  <2>3. u.db.gaps = q.db.gaps
    BY <2>1, <2>2 DEF Typed, Shaped
  <2> QED BY <2>1, <2>3
<1> QED BY <1>1, <1>2

LEMMA GapStartIn ==
  ASSUME NEW m, MemIn(m), NEW s, s.utc \in Present
  PROVE  GapStart(m, s) \in Present
BY DEF GapStart, MemIn

LEMMA BoundaryGapIn ==
  ASSUME NEW t, Typed(t), StartsIn(t.db.gaps), MemIn(t.mem), NEW s, s.utc \in Present, NEW b,
         NEW kind, b \in {"queue_drop", "stale_epoch", "clock_changed", "capture_delayed"},
         NEW u, u = InsertBoundaryGap(t, b, kind, s)
  PROVE  StartsIn(u.db.gaps)
<1> DEFINE from == GapStart(t.mem, s)
           to == Max({from, s.utc})
<1>1. from \in Present
  BY GapStartIn
<1>2. \/ u = InsertGap(t, kind, from, s.utc)
      \/ u = InsertGap(t, "clock_changed", from, to)
      \/ u = InsertGap(t, "capture_delayed", from, s.utc)
  BY DEF InsertBoundaryGap
<1> HIDE DEF from, to
<1> QED BY <1>1, <1>2, InsertGapIn

LEMMA OnSampleIn ==
  ASSUME NEW t, Typed(t), InTime(t), NEW s, s.app \in Apps, s.utc \in Present, s.state \in States,
         s.epoch \in Int, NEW v, v = OnSample(t, s)
  PROVE  InTime(v)
<1> DEFINE resumed == Resumed(t, s.utc)
           stored == [resumed EXCEPT !.db.obs = Append(@, [run |-> t.run, epoch |-> s.epoch,
                                                           utc |-> s.utc, app |-> s.app,
                                                           state |-> s.state])]
           b == BoundaryAt(t.mem, s)
           noted == Classified(stored, b)
           closed == CloseRows(noted)
           gapped == InsertBoundaryGap(closed, b, DropKind(t.mem, t.cont), s)
           applied == IF b = "none" THEN ApplySample(noted, s) ELSE StartSegment(gapped, s)
           moved == [applied EXCEPT !.mem.point = [utc |-> s.utc, mono |-> s.mono],
                                    !.mem.seen = Max({@, s.epoch})]
           from == TouchedFrom(t.mem, b, s)
<1>1. v = Recompute(moved, from, Max({from, s.utc}))
  BY DEF OnSample, Resumed
<1>2. b \in {"none", "queue_drop", "stale_epoch", "clock_changed", "capture_delayed"}
  BY DEF BoundaryAt
<1>utc. s.utc \in Int
  BY PresentDate
<1>from. from \in Present /\ Max({from, s.utc}) \in Present
  <2>1. from \in Present
    <3>1. GapStart(t.mem, s) \in Present
      BY GapStartIn DEF InTime
    <3> HIDE DEF b
    <3> QED BY <3>1 DEF TouchedFrom, InTime, MemIn
  <2> HIDE DEF from
  <2>2. from \in Int
    BY <2>1, PresentDate
  <2> QED BY <1>utc, <2>1, <2>2, MaxOfTwo
<1> HIDE DEF b, from
<1>3. /\ Typed(resumed) /\ Follows(t, resumed)
      /\ SegsAs(t, resumed) /\ LogAs(t, resumed) /\ RestAs(t, resumed)
      /\ StartsIn(resumed.db.gaps)
  BY ResumedEffect, ResumedIn DEF InTime, DbIn
<1> HIDE DEF resumed
<1>4. /\ Typed(stored) /\ stored.db.gaps = resumed.db.gaps /\ stored.db.segs = resumed.db.segs
      /\ stored.mem = resumed.mem /\ stored.db.runs = resumed.db.runs
      /\ stored.db.recorded = resumed.db.recorded
  <2>1. Shaped(stored) /\ stored.db.recorded = resumed.db.recorded /\ stored.mem = resumed.mem
    BY <1>3 DEF Typed, Shaped
  <2>2. /\ SegsAs(resumed, stored) /\ WorkAs(resumed, stored) /\ GapsAs(resumed, stored)
        /\ IdleAs(resumed, stored) /\ RestAs(resumed, stored)
    BY <1>3 DEF Typed, Shaped, SegsAs, WorkAs, GapsAs, IdleAs, RestAs, SeenAs
  <2>3. /\ stored.db.runs = resumed.db.runs
        /\ stored.db.obs = Append(resumed.db.obs, Observation(t, s))
    BY <1>3 DEF Typed, Shaped, Observation
  <2> HIDE DEF stored
  <2>4. LogTyped(stored)
    BY <1>3, <2>3, RowsAppended DEF Typed, LogTyped
  <2>5. Typed(stored)
    BY <1>3, <2>1, <2>2, <2>4, TypedAs DEF Typed
  <2> QED BY <2>1, <2>2, <2>3, <2>5 DEF SegsAs, GapsAs
<1> HIDE DEF stored
<1>5. /\ Typed(noted) /\ Follows(stored, noted)
      /\ SegsAs(stored, noted) /\ GapsAs(stored, noted) /\ LogAs(stored, noted)
      /\ noted.mem.point = stored.mem.point
  <2>1. noted.mem.point = stored.mem.point
    BY <1>4 DEF Classified, Typed, Shaped
  <2> QED BY <1>4, <2>1, ClassifiedEffect
<1> HIDE DEF noted
<1>6. /\ SegsIn(noted.db.segs) /\ StartsIn(noted.db.gaps) /\ MemIn(noted.mem)
      /\ BeatsIn(noted.db.runs) /\ noted.db.recorded \subseteq Dates
  BY <1>3, <1>4, <1>5 DEF InTime, DbIn, SegsAs, GapsAs, LogAs, Follows, RestAs, MemIn
<1>7. /\ Typed(applied) /\ Follows(noted, applied) /\ LogAs(noted, applied)
      /\ applied.mem.seg.end = s.utc
      /\ SegsIn(applied.db.segs) /\ StartsIn(applied.db.gaps)
  <2>1. CASE b = "none"
    <3>1. applied = ApplySample(noted, s)
      BY <2>1
    <3> HIDE DEF applied
    <3>2. /\ Typed(applied) /\ Follows(noted, applied) /\ LogAs(noted, applied)
          /\ SampleStep(noted, applied, s)
      BY <1>5, <1>utc, <3>1, ApplySampleEffect
    <3>3. SegsIn(applied.db.segs) /\ StartsIn(applied.db.gaps)
      BY <1>5, <1>6, <3>1, ApplySampleIn
    <3> QED BY <3>2, <3>3 DEF SampleStep
  <2>2. CASE b # "none"
    <3>1. applied = StartSegment(gapped, s)
      BY <2>2
    <3>2. /\ Typed(closed) /\ Follows(noted, closed)
          /\ GapsAs(noted, closed) /\ LogAs(noted, closed) /\ RestAs(noted, closed)
          /\ closed.mem.seg = NoSegment
          /\ closed.db.segs \in {noted.db.segs, Closed(noted.db.segs)}
      BY <1>5, CloseRowsEffect
    <3>3. SegsIn(closed.db.segs) /\ StartsIn(closed.db.gaps) /\ MemIn(closed.mem)
      BY <1>5, <1>6, <3>2, ClosedIn DEF Typed, SegsTyped, GapsAs, RestAs, MemIn
    <3> HIDE DEF closed
    <3>4. /\ Typed(gapped) /\ Follows(closed, gapped)
          /\ SegsAs(closed, gapped) /\ LogAs(closed, gapped)
      BY <1>2, <1>utc, <2>2, <3>2, BoundaryGapEffect
    <3>5. StartsIn(gapped.db.gaps)
      BY <1>2, <2>2, <3>2, <3>3, BoundaryGapIn
    <3> HIDE DEF gapped, applied
    <3>6. /\ Typed(applied) /\ Follows(gapped, applied)
          /\ GapsAs(gapped, applied) /\ LogAs(gapped, applied)
          /\ applied.mem.seg.end = s.utc
      BY <1>utc, <3>1, <3>4, StartSegmentEffect
    <3>7. SegsIn(applied.db.segs)
      BY <3>1, <3>3, <3>4, StartSegmentIn DEF SegsAs
    <3> QED BY <3>2, <3>4, <3>5, <3>6, <3>7 DEF Follows, LogAs, GapsAs
  <2> QED BY <2>1, <2>2
<1> HIDE DEF applied
<1>8. Typed(moved) /\ InTime(moved)
  <2> DEFINE seen == Max({applied.mem.seen, s.epoch})
  <2>1. seen \in Int
    <3>1. applied.mem.seen \in Int
      BY <1>7 DEF Typed, RestTyped
    <3> QED BY <3>1, MaxOfTwo
  <2>2. moved.mem.seen = seen /\ moved.cont = applied.cont /\ moved.mem.point.utc = s.utc
    BY <1>7 DEF Typed, Shaped
  <2> HIDE DEF seen
  <2>3. Shaped(moved) /\ Follows(applied, moved)
    BY <1>7 DEF Typed, Shaped, Follows
  <2>4. /\ SegsAs(applied, moved) /\ WorkAs(applied, moved) /\ GapsAs(applied, moved)
        /\ LogAs(applied, moved) /\ IdleAs(applied, moved)
    BY <1>7 DEF Typed, Shaped, SegsAs, WorkAs, GapsAs, LogAs, IdleAs
  <2> HIDE DEF moved
  <2>5. RestTyped(moved)
    BY <1>7, <1>utc, <2>1, <2>2 DEF Typed, RestTyped
  <2>6. Typed(moved)
    BY <1>7, <2>3, <2>4, <2>5, TypedAs DEF Typed
  <2>7. DbIn(moved.db)
    BY <1>6, <1>7, <2>3, <2>4 DEF DbIn, SegsAs, GapsAs, LogAs, Follows
  <2>8. MemIn(moved.mem)
    BY <1>7, <2>2, <2>4 DEF MemIn, SegsAs
  <2> QED BY <2>6, <2>7, <2>8 DEF InTime
<1> HIDE DEF moved
<1> QED BY <1>1, <1>8, <1>from, RecomputeIn

LEMMA ForgottenIn ==
  ASSUME NEW t, Typed(t), InTime(t), NEW u, u = Forgotten(t)
  PROVE  /\ InTime(u) /\ u.mem.seg = NoSegment /\ u.mem.point = NoPoint
<1>1. /\ Typed(u) /\ Follows(t, u) /\ GapsAs(t, u) /\ LogAs(t, u)
      /\ u.mem.seg = NoSegment
      /\ u.db.segs \in {t.db.segs, Closed(t.db.segs)}
  BY ForgottenEffect
<1>2. u.mem.point = NoPoint
  <2> DEFINE q == CloseRows(t)
  <2>1. u = [q EXCEPT !.mem.point = NoPoint] /\ Typed(q)
    BY CloseRowsEffect DEF Forgotten
  <2> HIDE DEF q
  <2> QED BY <2>1 DEF Typed, Shaped
<1>3. SegsIn(u.db.segs)
  BY <1>1, ClosedIn DEF InTime, DbIn, Typed, SegsTyped
<1> QED BY <1>1, <1>2, <1>3 DEF InTime, DbIn, MemIn, Follows, GapsAs, LogAs

LEMMA SegsAsIn ==
  ASSUME NEW t, InTime(t), NEW u, Follows(t, u), SegsAs(t, u), LogAs(t, u), RestAs(t, u),
         StartsIn(u.db.gaps)
  PROVE  InTime(u)
BY DEF InTime, DbIn, MemIn, Follows, SegsAs, LogAs, RestAs

LEMMA OnGapEventIn ==
  ASSUME NEW t, Typed(t), InTime(t), NEW kind \in GapNames \ {"none"}, NEW at \in Present,
         NEW v, v = OnGapEvent(t, kind, at)
  PROVE  InTime(v)
<1> DEFINE cut == Forgotten(t)
           from == IF t.mem.point = NoPoint THEN at ELSE t.mem.point.utc
           ended == CloseGap(cut, at)
           opened == IF t.mem.gap = kind THEN ExtendGap(cut)
                     ELSE IF t.mem.gap = "none" THEN OpenGap(cut, kind, at)
                     ELSE OpenGap(ended, kind, at)
<1>1. v = IF kind \in Absorbed /\ t.mem.gap \in Absorbing THEN cut
          ELSE Recompute(opened, from, at)
  BY DEF OnGapEvent, Forgotten
<1>from. from \in Present /\ at \in Int
  BY PresentDate DEF InTime, MemIn
<1> HIDE DEF from
<1>2. Typed(cut) /\ InTime(cut)
  BY ForgottenEffect, ForgottenIn
<1> HIDE DEF cut
<1>3. Typed(opened) /\ InTime(opened)
  <2>0. StartsIn(cut.db.gaps)
    BY <1>2 DEF InTime, DbIn
  <2>1. CASE opened = ExtendGap(cut)
    <3> HIDE DEF opened
    <3>1. /\ Typed(opened) /\ Follows(cut, opened) /\ SegsAs(cut, opened) /\ LogAs(cut, opened)
          /\ RestAs(cut, opened) /\ StartsIn(opened.db.gaps)
      BY <1>2, <2>0, <2>1, ExtendGapEffect, ExtendGapIn
    <3> QED BY <1>2, <3>1, SegsAsIn
  <2>2. CASE opened = OpenGap(cut, kind, at)
    <3> HIDE DEF opened
    <3>1. /\ Typed(opened) /\ Follows(cut, opened) /\ SegsAs(cut, opened) /\ LogAs(cut, opened)
          /\ RestAs(cut, opened)
      BY <1>2, <1>from, <2>2, OpenGapEffect
    <3>2. StartsIn(opened.db.gaps)
      BY <1>2, <2>0, <2>2, OpenGapIn
    <3> QED BY <1>2, <3>1, <3>2, SegsAsIn
  <2>3. CASE opened = OpenGap(ended, kind, at)
    <3> HIDE DEF opened
    <3>1. /\ Typed(ended) /\ Follows(cut, ended) /\ SegsAs(cut, ended) /\ LogAs(cut, ended)
          /\ RestAs(cut, ended) /\ StartsIn(ended.db.gaps)
      BY <1>2, <2>0, CloseGapEffect, CloseGapIn
    <3>2. InTime(ended)
      BY <1>2, <3>1, SegsAsIn
    <3> HIDE DEF ended
    <3>3. /\ Typed(opened) /\ Follows(ended, opened) /\ SegsAs(ended, opened)
          /\ LogAs(ended, opened) /\ RestAs(ended, opened)
      BY <1>from, <2>3, <3>1, OpenGapEffect
    <3>4. StartsIn(opened.db.gaps)
      BY <2>3, <3>1, OpenGapIn
    <3> QED BY <3>2, <3>3, <3>4, SegsAsIn
  <2> QED BY <2>1, <2>2, <2>3
<1> HIDE DEF opened
<1> QED BY <1>1, <1>2, <1>3, <1>from, RecomputeIn

LEMMA RunEndedIn ==
  ASSUME NEW runs, Runs(runs), BeatsIn(runs), NEW r, NEW at, NEW new, new = EndedAt(runs, r, at)
  PROVE  BeatsIn(new)
<1>1. DOMAIN new = DOMAIN runs
  BY DEF EndedAt
<1>2. ASSUME NEW i \in DOMAIN runs
      PROVE  new[i].beat = runs[i].beat /\ new[i].write = runs[i].write
  <2>1. IsRun(runs[i])
    BY DEF Runs
  <2>2. new[i] = runs[i] \/ new[i] = [runs[i] EXCEPT !.ended = at]
    BY DEF EndedAt
  <2> QED BY <2>1, <2>2 DEF IsRun
<1> QED BY <1>1, <1>2 DEF BeatsIn

LEMMA RunBeatsIn ==
  ASSUME NEW runs, Runs(runs), BeatsIn(runs), NEW r, NEW now \in Present,
         NEW new, new = BeatAt(runs, r, now)
  PROVE  BeatsIn(new)
<1>1. DOMAIN new = DOMAIN runs
  BY DEF BeatAt
<1>2. ASSUME NEW i \in DOMAIN runs
      PROVE  new[i].beat \in {runs[i].beat, now} /\ new[i].write \in {runs[i].write, now}
  <2>1. IsRun(runs[i])
    BY DEF Runs
  <2>2. CASE i = r
    <3>1. new[i] = [[runs[i] EXCEPT !.beat = now] EXCEPT !.write = now]
      BY <2>2 DEF BeatAt
    <3> QED BY <2>1, <3>1 DEF IsRun
  <2>3. CASE i # r
    BY <2>3 DEF BeatAt
  <2> QED BY <2>2, <2>3
<1> QED BY <1>1, <1>2 DEF BeatsIn

LEMMA RunAddedIn ==
  ASSUME NEW runs, Runs(runs), BeatsIn(runs), NEW now \in Present, NEW new,
         new = Append(runs, [started |-> now, ended |-> NoTime, beat |-> now, write |-> NoTime])
  PROVE  BeatsIn(new)
<1> DEFINE row == [started |-> now, ended |-> NoTime, beat |-> now, write |-> NoTime]
           n == Len(runs) + 1
<1>1. row.beat = now /\ row.write = NoTime /\ IsRows(runs) /\ new = Append(runs, row)
  BY DEF Runs
<1> HIDE DEF row
<1>2. DOMAIN new = DOMAIN runs \cup {n} /\ (\A i \in DOMAIN runs : new[i] = runs[i]) /\ new[n] = row
  BY <1>1, RowsAppended
<1> QED BY <1>1, <1>2 DEF BeatsIn

LEMMA OnShutdownIn ==
  ASSUME NEW t, Typed(t), InTime(t), NEW at \in Present, NEW v, v = OnShutdown(t, at)
  PROVE  InTime(v)
<1> DEFINE cut == Forgotten(t)
           closed == Resumed(cut, at)
           ended == [closed EXCEPT !.db.runs[t.run].ended = at]
           from == IF t.mem.point = NoPoint THEN at ELSE t.mem.point.utc
<1>1. /\ Typed(cut) /\ GapsAs(t, cut) /\ InTime(cut)
  BY ForgottenEffect, ForgottenIn
<1>2. v = Recompute(ended, from, at)
  BY <1>1 DEF OnShutdown, Forgotten, Resumed, GapsAs
<1>from. from \in Present
  BY DEF InTime, MemIn
<1> HIDE DEF cut, from
<1>3. /\ Typed(closed) /\ Follows(cut, closed)
      /\ SegsAs(cut, closed) /\ LogAs(cut, closed) /\ RestAs(cut, closed)
      /\ StartsIn(closed.db.gaps)
  BY <1>1, ResumedEffect, ResumedIn DEF InTime, DbIn
<1>4. InTime(closed)
  BY <1>1, <1>3, SegsAsIn
<1> HIDE DEF closed
<1>5. Typed(ended) /\ InTime(ended)
  <2>1. Shaped(ended) /\ Follows(closed, ended)
    BY <1>3 DEF Typed, Shaped, Follows
  <2>2. /\ SegsAs(closed, ended) /\ WorkAs(closed, ended) /\ GapsAs(closed, ended)
        /\ IdleAs(closed, ended) /\ RestAs(closed, ended) /\ ended.db.obs = closed.db.obs
    BY <1>3 DEF Typed, Shaped, SegsAs, WorkAs, GapsAs, IdleAs, RestAs, SeenAs
  <2>3. ended.db.runs = EndedAt(closed.db.runs, t.run, at)
    BY <1>3 DEF Typed, Shaped, EndedAt
  <2> HIDE DEF ended
  <2>4. Runs(ended.db.runs) /\ BeatsIn(ended.db.runs)
    BY <1>3, <1>4, <2>3, RunEnded, RunEndedIn DEF Typed, LogTyped, InTime, DbIn
  <2>5. LogTyped(ended)
    BY <1>3, <2>2, <2>4 DEF Typed, LogTyped
  <2>6. Typed(ended)
    BY <1>3, <2>1, <2>2, <2>5, TypedAs DEF Typed
  <2>7. InTime(ended)
    BY <1>4, <2>1, <2>2, <2>4 DEF InTime, DbIn, MemIn, Follows, SegsAs, GapsAs, RestAs
  <2> QED BY <2>6, <2>7
<1> HIDE DEF ended
<1> QED BY <1>2, <1>5, <1>from, RecomputeIn

LEMMA ReferenceIn ==
  ASSUME NEW d, Runs(d.runs), Segments(d.segs), Gaps(d.gaps), DbIn(d)
  PROVE  Reference(d) \in Present
<1> DEFINE last == d.runs[LatestRuntime(d.runs)]
           wrote == IF last.write = NoTime THEN last.beat ELSE last.write
           S == OpenRows(d.segs)
           G == OpenRows(d.gaps)
           f == [i \in S |-> d.segs[i].end]
           g == [i \in G |-> d.gaps[i].start]
           all == {wrote} \cup {f[i] : i \in S} \cup {g[i] : i \in G}
<1>1. wrote \in Present
  BY LatestRun DEF DbIn, BeatsIn
<1>2. IsFiniteSet(S) /\ IsFiniteSet(G)
  BY OpenRowsFinite DEF Segments, Gaps
<1>3. (\A i \in S : f[i] \in Present) /\ (\A i \in G : g[i] \in Present)
  <2>1. \A i \in S : d.segs[i].end \in Present
    BY DEF OpenRows, DbIn, SegsIn
  <2>2. \A i \in G : d.gaps[i].start \in Present
    BY DEF OpenRows, DbIn, StartsIn
  <2> QED BY <2>1, <2>2
<1>4. Reference(d) = Max(all)
  BY DEF Reference
<1> HIDE DEF wrote, S, G, f, g
<1>5. IsFiniteSet({f[i] : i \in S}) /\ IsFiniteSet({g[i] : i \in G})
  BY <1>2, ImageFinite
<1>6. IsFiniteSet(all)
  <2>1. IsFiniteSet({wrote})
    BY FS_Singleton
  <2>2. IsFiniteSet({wrote} \cup {f[i] : i \in S})
    BY <1>5, <2>1, FS_Union
  <2> QED BY <1>5, <2>2, FS_Union
<1>7. all \subseteq Present /\ all # {}
  BY <1>1, <1>3
<1>8. all \in SUBSET Int
  BY <1>7, PresentDate
<1> HIDE DEF all
<1> QED BY <1>4, <1>6, <1>7, <1>8, MaxOfSet

LEMMA RecoveredIn ==
  ASSUME NEW t, Typed(t), t.mem.seg = NoSegment, t.mem.work = NoWork, t.mem.idleStart = NoTime,
         InTime(t), NEW now \in Present, NEW v, v = Recovered(t, now)
  PROVE  InTime(v)
<1> DEFINE legacy == LatestRuntime(t.db.runs)
           at == Reference(t.db)
           gaps == OpenRows(t.db.gaps)
           ended == CloseGap(t, at)
           closed == [ended EXCEPT !.db.segs = Closed(@), !.db.blocks = Closed(@),
                        !.db.runs[legacy].ended = IF @ = NoTime THEN t.db.runs[legacy].beat ELSE @]
           added == [closed EXCEPT !.db.runs = Append(@, [started |-> now, ended |-> NoTime,
                                                          beat |-> now, write |-> NoTime])]
           opened == OpenGap(added, "agent_restart", at)
           first == Min({t.db.gaps[i].start : i \in gaps})
<1>1. v = IF gaps = {} THEN opened ELSE Recompute(opened, first, at)
  BY DEF Recovered
<1>at. at \in Present /\ at \in Int /\ now \in Int
  BY ReferenceIn, PresentDate DEF Typed, SegsTyped, GapsTyped, LogTyped, InTime
<1>first. ASSUME gaps # {}
          PROVE  first \in Present
  <2> DEFINE g == [i \in gaps |-> t.db.gaps[i].start]
             all == {g[i] : i \in gaps}
  <2>1. IsFiniteSet(gaps)
    BY OpenRowsFinite DEF Typed, GapsTyped, Gaps
  <2>2. \A i \in gaps : g[i] \in Present
    BY DEF OpenRows, InTime, DbIn, StartsIn
  <2>3. first = Min(all)
    OBVIOUS
  <2> HIDE DEF gaps, g, first
  <2>4. IsFiniteSet(all)
    BY <2>1, ImageFinite
  <2>5. all \subseteq Present /\ all # {}
    BY <1>first, <2>2
  <2>6. all \in SUBSET Int
    BY <2>5, PresentDate
  <2> HIDE DEF all
  <2> QED BY <2>3, <2>4, <2>5, <2>6, MinOfSet
<1> HIDE DEF first, at, gaps
<1>2. /\ Typed(ended) /\ Follows(t, ended)
      /\ SegsAs(t, ended) /\ WorkAs(t, ended) /\ LogAs(t, ended) /\ IdleAs(t, ended)
      /\ RestAs(t, ended) /\ StartsIn(ended.db.gaps)
  BY CloseGapEffect, CloseGapIn DEF InTime, DbIn
<1>in. InTime(ended)
  BY <1>2, SegsAsIn
<1> HIDE DEF ended, legacy
<1>3. Typed(added) /\ InTime(added)
  <2>1. /\ Shaped(closed) /\ closed.run = ended.run /\ closed.mem = ended.mem
        /\ closed.cont = ended.cont
    BY <1>2 DEF Typed, Shaped
  <2>2. closed.db.segs = Closed(ended.db.segs) /\ closed.db.blocks = Closed(ended.db.blocks)
    BY <1>2 DEF Typed, Shaped
  <2>3. /\ closed.db.gaps = ended.db.gaps /\ closed.db.obs = ended.db.obs
        /\ closed.db.hourly = ended.db.hourly /\ closed.db.daily = ended.db.daily
        /\ closed.db.metrics = ended.db.metrics /\ closed.db.recorded = ended.db.recorded
    BY <1>2 DEF Typed, Shaped
  <2> DEFINE ends == IF ended.db.runs[legacy].ended = NoTime THEN t.db.runs[legacy].beat
                     ELSE ended.db.runs[legacy].ended
  <2>4. closed.db.runs = EndedAt(ended.db.runs, legacy, ends)
    BY <1>2 DEF Typed, Shaped, EndedAt
  <2> HIDE DEF closed, ends
  <2>5. Runs(closed.db.runs) /\ BeatsIn(closed.db.runs)
    BY <1>2, <1>in, <2>4, RunEnded, RunEndedIn DEF Typed, LogTyped, InTime, DbIn
  <2>6. /\ Shaped(added) /\ added.run = closed.run /\ added.mem = closed.mem
        /\ added.cont = closed.cont
    BY <2>1 DEF Shaped
  <2>7. /\ added.db.segs = closed.db.segs /\ added.db.blocks = closed.db.blocks
        /\ added.db.gaps = closed.db.gaps /\ added.db.obs = closed.db.obs
        /\ added.db.recorded = closed.db.recorded
        /\ added.db.runs = Append(closed.db.runs, [started |-> now, ended |-> NoTime, beat |-> now,
                                                   write |-> NoTime])
    BY <2>1 DEF Shaped
  <2> HIDE DEF added
  <2>8. Runs(added.db.runs) /\ BeatsIn(added.db.runs)
    BY <1>at, <2>5, <2>7, RunAdded, RunAddedIn
  <2>9. /\ GapsAs(ended, added) /\ IdleAs(ended, added) /\ RestAs(ended, added)
        /\ LogTyped(added)
    BY <1>2, <2>1, <2>3, <2>6, <2>7, <2>8 DEF Typed, LogTyped, GapsAs, IdleAs, RestAs, SeenAs
  <2>10. SegsTyped(added) /\ WorkTyped(added)
    <3>1. Segments(added.db.segs) /\ Blocks(added.db.blocks)
      BY <1>2, <2>2, <2>7, ClosedSegments, ClosedBlocks DEF Typed, SegsTyped, WorkTyped
    <3> QED BY <1>2, <2>1, <2>6, <3>1 DEF Typed, SegsTyped, WorkTyped
  <2>11. Typed(added)
    BY <1>2, <2>6, <2>9, <2>10, TypedAs DEF Typed
  <2>12. SegsIn(added.db.segs)
    BY <1>2, <1>in, <2>2, <2>7, ClosedIn DEF InTime, DbIn, Typed, SegsTyped
  <2>13. InTime(added)
    BY <1>in, <2>1, <2>3, <2>6, <2>7, <2>8, <2>12 DEF InTime, DbIn
  <2> QED BY <2>11, <2>13
<1> HIDE DEF added
<1>4. Typed(opened) /\ InTime(opened)
  <2>1. "agent_restart" \in GapNames
    BY DEF GapNames
  <2>2. /\ Typed(opened) /\ Follows(added, opened) /\ SegsAs(added, opened)
        /\ LogAs(added, opened) /\ RestAs(added, opened)
    BY <1>at, <1>3, <2>1, OpenGapEffect
  <2>3. StartsIn(opened.db.gaps)
    BY <1>at, <1>3, OpenGapIn DEF InTime, DbIn
  <2> QED BY <1>3, <2>2, <2>3, SegsAsIn
<1> HIDE DEF opened
<1> QED BY <1>1, <1>4, <1>at, <1>first, RecomputeIn

(* Events are dated by the clock, and so is the one that waits for its     *)
(* retry.                                                                  *)
EventIn(e) ==
  /\ e.kind = "sample" => e.sample.utc \in Present
  /\ e.kind \notin {"sample", "none"} => e.at \in Present

LEMMA HandledIn ==
  ASSUME EngineInv, NEW e, SampleEvent(e, cont) \/ GapEvent(e), EventIn(e), InTime(Here)
  PROVE  InTime(Handled(e))
<1> DEFINE t == Here
           v == Handled(e)
<1>1. Typed(t) /\ InTime(t)
  BY DEF EngineInv, Consistent
<1> HIDE DEF t
<1>2. CASE SampleEvent(e, cont)
  <2>1. v = OnSample(t, e.sample)
    BY <1>2 DEF SampleEvent, Handled, Here, t
  <2>2. /\ e.sample.app \in Apps /\ e.sample.utc \in Present /\ e.sample.state \in States
        /\ e.sample.epoch \in Int
    BY <1>2 DEF SampleEvent, EventIn
  <2> HIDE DEF v
  <2>3. InTime(v)
    BY <1>1, <2>1, <2>2, OnSampleIn
  <2> QED BY <2>3 DEF v
<1>3. CASE GapEvent(e)
  <2>1. e.kind \notin {"sample", "shutdown", "none"} /\ e.kind \in GapNames
    BY <1>3, EngineConstants DEF GapEvent, GapNames, DataEvents
  <2>2. v = OnGapEvent(t, e.kind, e.at) /\ e.at \in Present
    BY <2>1 DEF Handled, Here, t, EventIn
  <2> HIDE DEF v
  <2>3. InTime(v)
    BY <1>1, <2>1, <2>2, OnGapEventIn
  <2> QED BY <2>3 DEF v
<1> QED BY <1>2, <1>3

LEMMA HandleIn ==
  ASSUME EngineInv, NEW e, SampleEvent(e, cont) \/ GapEvent(e), EventIn(e), DbIn(db), MemIn(mem),
         Handle(e)
  PROVE  DbIn(db') /\ MemIn(mem') /\ EventIn(inflight')
<1> DEFINE t == Here
           v == Handled(e)
           gone == Forgotten(t)
<1>1. Typed(t) /\ InTime(t) /\ t.mem = mem
  BY HereNow DEF EngineInv, Consistent, InTime
<1>2. InTime(v)
  BY <1>1, HandledIn
<1>3. InTime(gone)
  BY <1>1, ForgottenIn
<1>4. Restored(mem, v.mem) = mem
  BY Unrestored
<1>5. LeftBehind(e, v) \subseteq {mem, gone.mem, v.mem}
  BY <1>4 DEF LeftBehind, Forgotten, Here
<1>6. Commits(v) \/ BacksOff(e, v) \/ Fails(e, v)
  BY DEF Handle
<1>7. EventIn(NoEvent)
  BY DEF EventIn, NoEvent
<1> HIDE DEF t, v, gone
<1>8. CASE Commits(v)
  BY <1>2, <1>7, <1>8 DEF Commits, InTime
<1>9. CASE BacksOff(e, v)
  <2>1. db' = db /\ mem' = mem /\ inflight' = [e EXCEPT !.tries = @ + 1]
    BY <1>4, <1>9 DEF BacksOff
  <2>2. CASE SampleEvent(e, cont)
    <3>1. inflight'.kind = e.kind /\ inflight'.sample = e.sample /\ e.kind = "sample"
      BY <2>1, <2>2 DEF SampleEvent
    <3>2. e.sample.utc \in Present
      BY <3>1 DEF EventIn
    <3> QED BY <2>1, <3>1, <3>2 DEF EventIn
  <2>3. CASE GapEvent(e)
    <3>1. inflight'.kind = e.kind /\ inflight'.at = e.at /\ e.kind \notin {"sample", "none"}
      BY <2>1, <2>3, EngineConstants DEF GapEvent
    <3>2. e.at \in Present
      BY <3>1 DEF EventIn
    <3> QED BY <2>1, <3>1, <3>2 DEF EventIn
  <2> QED BY <2>2, <2>3
<1>10. CASE Fails(e, v)
  <2>1. db' = db /\ mem' \in {mem, gone.mem, v.mem} /\ inflight' = NoEvent
    BY <1>5, <1>10 DEF Fails
  <2> QED BY <1>2, <1>3, <1>7, <2>1 DEF InTime
<1> QED BY <1>6, <1>8, <1>9, <1>10

TimeIn == DbIn(db) /\ MemIn(mem) /\ EventIn(inflight) /\ ClockBound

LEMMA TimeBegins == Init => TimeIn
<1> SUFFICES ASSUME Init PROVE TimeIn
  OBVIOUS
<1> DEFINE row == [started |-> Start, ended |-> NoTime, beat |-> Start, write |-> NoTime]
<1>1. /\ db = Bootstrapped /\ mem = FreshMemory /\ inflight = NoEvent
      /\ clock = [utc |-> Start, mono |-> 0]
  BY DEF Init
<1>2. DbIn(db)
  <2>1. row.beat = Start /\ row.write = NoTime /\ Start \in Present
    BY EngineConstants DEF Present
  <2>2. db.segs = <<>> /\ db.gaps = <<>> /\ db.runs = <<row>> /\ db.recorded = {}
    BY <1>1 DEF Bootstrapped
  <2> HIDE DEF row
  <2>3. \A i \in DOMAIN <<row>> : <<row>>[i] = row
    OBVIOUS
  <2>4. BeatsIn(<<row>>)
    BY <2>1, <2>3 DEF BeatsIn
  <2>5. DOMAIN <<>> = {}
    OBVIOUS
  <2> QED BY <2>2, <2>4, <2>5 DEF DbIn, SegsIn, StartsIn
<1>3. MemIn(mem)
  BY <1>1 DEF MemIn, FreshMemory
<1>4. EventIn(inflight)
  BY <1>1 DEF EventIn, NoEvent
<1>5. ClockBound
  BY <1>1, EngineConstants DEF ClockBound
<1> QED BY <1>2, <1>3, <1>4, <1>5 DEF TimeIn

LEMMA TimeStep ==
  ASSUME EngineHolds, TimeIn, [Next]_vars
  PROVE  TimeIn'
<1>1. ClockBound' /\ EngineInv /\ Typed(Here) /\ InTime(Here)
  BY ClockStep, HereNow DEF TimeIn, EngineHolds, EngineInv, Consistent, InTime
<1>2. clock.utc \in Present /\ clock'.utc \in Present /\ clock.utc \in Int
  BY <1>1, PresentDate DEF TimeIn, ClockBound, Present
<1>quiet. ASSUME UNCHANGED <<db, mem, inflight>>
          PROVE  TimeIn'
  BY <1>1, <1>quiet DEF TimeIn
<1>3. ASSUME NEW k \in Kinds, NEW d \in Steps, Sample(k, d)
      PROVE  TimeIn'
  <2>1. PICK ep \in floor .. cont.epoch :
          LET s == [app |-> k.app, state |-> k.state, epoch |-> ep,
                    utc |-> clock.utc + d, mono |-> clock.mono + d]
          IN  Handle([kind |-> "sample", sample |-> s, tries |-> 0])
    BY <1>3 DEF Sample
  <2> DEFINE s == [app |-> k.app, state |-> k.state, epoch |-> ep,
                   utc |-> clock.utc + d, mono |-> clock.mono + d]
             e == [kind |-> "sample", sample |-> s, tries |-> 0]
  <2>2. cont \in Counters
    BY HereNow DEF EngineHolds, EngineInv, Consistent, Typed, RestTyped
  <2>3. /\ s.app \in Apps /\ s.utc \in Int /\ s.state \in States
        /\ s.epoch \in Int /\ s.epoch <= cont.epoch
    BY <2>2, EngineConstants DEF EngineHolds, WorldInv, Counters
  <2>4. s.utc \in Present
    <3>1. s.utc = clock'.utc
      BY <1>3 DEF Sample, After
    <3> QED BY <1>2, <3>1
  <2> HIDE DEF s
  <2>5. SampleEvent(e, cont) /\ EventIn(e) /\ Handle(e)
    BY <2>1, <2>3, <2>4 DEF SampleEvent, EventIn, s
  <2> HIDE DEF e
  <2> QED BY <1>1, <2>5, HandleIn DEF TimeIn
<1>4. ASSUME NEW kind \in Masks, NEW d \in Steps, Masked(kind, d)
      PROVE  TimeIn'
  <2> DEFINE e == [kind |-> kind, at |-> clock.utc + d, tries |-> 0]
  <2>1. GapEvent(e) /\ Handle(e)
    BY <1>4, EngineConstants DEF GapEvent, Masked, EngineHolds, WorldInv
  <2>2. e.at \in Present /\ e.kind # "sample"
    <3>1. e.at = clock'.utc
      BY <1>4 DEF Masked, After
    <3> QED BY <1>2, <3>1, EngineConstants
  <2> HIDE DEF e
  <2> QED BY <1>1, <2>1, <2>2, HandleIn DEF TimeIn, EventIn
<1>5. ASSUME NEW kind \in Lifecycle, NEW lag \in Lags, Boundary(kind, lag)
      PROVE  TimeIn'
  <2> DEFINE e == [kind |-> kind, at |-> clock.utc - lag, tries |-> 0]
  <2>1. GapEvent(e) /\ Handle(e)
    BY <1>5, EngineConstants DEF GapEvent, Boundary, EngineHolds, WorldInv
  <2>2. e.at \in Present /\ e.kind # "sample"
    <3>1. lag \in Nat /\ clock.utc >= lag
      BY <1>5, EngineConstants DEF Boundary
    <3> QED BY <1>2, <3>1, EngineConstants DEF Present
  <2> HIDE DEF e
  <2> QED BY <1>1, <2>1, <2>2, HandleIn DEF TimeIn, EventIn
<1>6. ASSUME TriesAgain
      PROVE  TimeIn'
  <2>1. Handle(inflight) /\ (SampleEvent(inflight, cont) \/ GapEvent(inflight))
    BY <1>6 DEF TriesAgain, EngineHolds, EngineInv
  <2> QED BY <1>1, <2>1, HandleIn DEF TimeIn
<1>7. ASSUME NEW lane \in {"capture", "writer"}, NEW d \in Steps, Drop(lane, d)
      PROVE  TimeIn'
  BY <1>7, <1>quiet DEF Drop
<1>8. ASSUME Heartbeat
      PROVE  TimeIn'
  <2>1. /\ db' = [db EXCEPT !.runs[agent.run].beat = clock.utc,
                            !.runs[agent.run].write = clock.utc]
        /\ UNCHANGED <<mem, inflight>>
    BY <1>8 DEF Heartbeat
  <2>2. DOMAIN db = {"segs", "blocks", "gaps", "obs", "runs", "hourly", "daily", "metrics",
                     "recorded"}
    BY <1>1, HereNow DEF Typed, Shaped
  <2>3. /\ db'.segs = db.segs /\ db'.gaps = db.gaps /\ db'.recorded = db.recorded
        /\ db'.runs = BeatAt(db.runs, agent.run, clock.utc)
    BY <2>1, <2>2 DEF BeatAt
  <2>4. Runs(db.runs) /\ BeatsIn(db.runs)
    BY <1>1, HereNow DEF Typed, LogTyped, TimeIn, DbIn
  <2>5. BeatsIn(db'.runs)
    BY <1>2, <2>3, <2>4, RunBeatsIn
  <2> QED BY <1>1, <2>1, <2>3, <2>5 DEF TimeIn, DbIn
<1>9. ASSUME NEW j \in Jumps, SetClock(j)
      PROVE  TimeIn'
  BY <1>9, <1>quiet DEF SetClock
<1>10. ASSUME Shutdown
       PROVE  TimeIn'
  <2> DEFINE v == OnShutdown(Here, clock.utc)
  <2>1. (db' = v.db \/ db' = db) /\ UNCHANGED <<mem, inflight>>
    BY <1>10 DEF Shutdown, Handled, Here
  <2>2. InTime(v)
    BY <1>1, <1>2, OnShutdownIn
  <2> HIDE DEF v
  <2> QED BY <1>1, <2>1, <2>2 DEF TimeIn, InTime
<1>11. ASSUME Crash
       PROVE  TimeIn'
  BY <1>11, <1>quiet DEF Crash
<1>12. ASSUME NEW d \in Steps, StartAgent(d)
       PROVE  TimeIn'
  <2> DEFINE zero == [epoch |-> 0, capture |-> 0, writer |-> 0]
             run == Len(db.runs) + 1
             t == [db |-> db, mem |-> FreshMemory, run |-> run, ok |-> TRUE, cont |-> zero]
             v == Recovered(t, clock.utc + d)
  <2>1. db' = v.db /\ mem' = v.mem /\ inflight' = NoEvent
    BY <1>12 DEF StartAgent
  <2>2. Typed(Here) /\ Here.db = db
    BY <1>1, HereNow
  <2>3. Typed(t)
    <3>1. Shaped(t)
      BY <2>2 DEF Typed, Shaped, FreshMemory
    <3>2. SegsTyped(t) /\ WorkTyped(t) /\ LogTyped(t)
      BY <2>2 DEF Typed, SegsTyped, WorkTyped, LogTyped, FreshMemory
    <3>3. GapsTyped(t)
      BY <2>2 DEF Typed, GapsTyped, GapNames, FreshMemory
    <3>4. IdleTyped(t) /\ RestTyped(t)
      BY DEF IdleTyped, RestTyped, FreshMemory, NoPoint, NoTime, NoEpoch, Counters
    <3> QED BY <3>1, <3>2, <3>3, <3>4 DEF Typed
  <2>4. t.mem.seg = NoSegment /\ t.mem.work = NoWork /\ t.mem.idleStart = NoTime /\ InTime(t)
    BY DEF FreshMemory, InTime, MemIn, TimeIn
  <2>5. clock.utc + d \in Present
    <3>1. clock.utc + d = clock'.utc
      BY <1>12 DEF StartAgent, After
    <3> QED BY <1>2, <3>1
  <2> HIDE DEF t
  <2>6. InTime(v)
    BY <2>3, <2>4, <2>5, RecoveredIn
  <2> HIDE DEF v
  <2>7. EventIn(inflight')
    BY <2>1 DEF EventIn, NoEvent
  <2> QED BY <1>1, <2>1, <2>6, <2>7 DEF TimeIn, InTime
<1>13. CASE UNCHANGED vars
  BY <1>13, <1>quiet DEF vars
<1> QED BY <1>3, <1>4, <1>5, <1>6, <1>7, <1>8, <1>9, <1>10, <1>11, <1>12, <1>13 DEF Next

-----------------------------------------------------------------------------
(***************************************************************************)
(* Sums by counting.  A sum over a finite set is the one the folds of      *)
(* SumOver compute; if every summand counts a set and no two of them meet, *)
(* it counts their union.                                                  *)
(***************************************************************************)
SumOf(h, S) == (CHOOSE f : Adds(h, f, S))[S]

Family(F, S) == UNION {F[x] : x \in S}

Counts(h, F, S) ==
  /\ \A x \in S : IsFiniteSet(F[x]) /\ h[x] = Cardinality(F[x])
  /\ \A x, y \in S : x # y => F[x] \cap F[y] = {}

LEMMA SumIs ==
  ASSUME NEW S, IsFiniteSet(S), NEW h, NEW g, Adds(h, g, S)
  PROVE  SumOf(h, S) = g[S]
<1> DEFINE f == CHOOSE f : Adds(h, f, S)
<1>1. Adds(h, f, S)
  OBVIOUS
<1> HIDE DEF f
<1>2. f = g
  BY <1>1, OneSum
<1> QED BY <1>2 DEF SumOf, f

LEMMA FamilyFinite ==
  ASSUME NEW S, IsFiniteSet(S), NEW F, \A x \in S : IsFiniteSet(F[x])
  PROVE  IsFiniteSet(Family(F, S)) /\ Cardinality(Family(F, S)) \in Nat
<1> DEFINE f == [x \in S |-> F[x]]
           T == {F[x] : x \in S}
<1>1. f \in Surjection(S, T)
  BY DEF Surjection
<1>2. IsFiniteSet(T)
  BY <1>1, FS_Surjection
<1>3. \A y \in T : IsFiniteSet(y)
  OBVIOUS
<1> HIDE DEF T
<1>4. IsFiniteSet(UNION T)
  BY <1>2, <1>3, FS_UNION
<1> QED BY <1>4, FS_CardinalityType DEF Family, T

LEMMA FamilySum ==
  ASSUME NEW S, IsFiniteSet(S), NEW h, NEW F, Counts(h, F, S)
  PROVE  SumOf(h, S) = Cardinality(Family(F, S)) /\ SumOf(h, S) \in Nat
<1> DEFINE g == [s \in SUBSET S |-> Cardinality(Family(F, s))]
<1>1. ASSUME NEW s \in SUBSET S, s # {}
      PROVE  g[s] = h[Chosen(s)] + g[s \ {Chosen(s)}]
  <2> DEFINE x == Chosen(s)
             A == F[x]
             B == Family(F, s \ {x})
  <2>1. x \in s /\ x \in S
    BY <1>1 DEF Chosen
  <2>2. IsFiniteSet(A) /\ Cardinality(A) = h[x] /\ Cardinality(A) \in Nat
    BY <2>1, FS_CardinalityType DEF Counts
  <2>3. IsFiniteSet(B) /\ Cardinality(B) \in Nat
    <3>1. IsFiniteSet(s \ {x}) /\ \A y \in s \ {x} : IsFiniteSet(F[y])
      BY FS_Subset DEF Counts
    <3> QED BY <3>1, FamilyFinite
  <2>4. Family(F, s) = A \cup B
    BY <2>1 DEF Family
  <2>5. A \cap B = {}
    BY <2>1 DEF Family, Counts
  <2>6. g[s] = Cardinality(Family(F, s)) /\ g[s \ {x}] = Cardinality(B)
    OBVIOUS
  <2> HIDE DEF A, B, x, g
  <2>7. Cardinality(A \cup B) = Cardinality(A) + Cardinality(B) - Cardinality(A \cap B)
    BY <2>2, <2>3, FS_Union
  <2>8. Cardinality(A \cap B) = 0
    BY <2>5, FS_EmptySet, Zenon
  <2>9. Cardinality(A \cup B) = h[x] + Cardinality(B)
    BY <2>2, <2>3, <2>7, <2>8
  <2>10. g[s] = h[x] + g[s \ {x}]
    BY <2>4, <2>6, <2>9
  <2> QED BY <2>10 DEF x
<1>2. g[{}] = 0
  <2>1. Family(F, {}) = {}
    BY DEF Family
  <2> QED BY <2>1, FS_EmptySet
<1>3. Adds(h, g, S)
  <2>1. \A s \in SUBSET S : g[s] = IF s = {} THEN 0 ELSE h[Chosen(s)] + g[s \ {Chosen(s)}]
    BY <1>1, <1>2
  <2>2. g = [s \in SUBSET S |-> g[s]]
    OBVIOUS
  <2> QED BY <2>1, <2>2 DEF Adds
<1>4. g[S] = Cardinality(Family(F, S))
  OBVIOUS
<1> HIDE DEF g
<1>5. Cardinality(Family(F, S)) \in Nat
  BY FamilyFinite DEF Counts
<1> QED BY <1>3, <1>4, <1>5, SumIs

(* The sums of the page, one by one.                                       *)
LEMMA AppsSumOf ==
  ASSUME NEW apps
  PROVE  AppsSum(apps) = SumOf(apps, DOMAIN apps)
<1> DEFINE S == DOMAIN apps
           Iter(k) ==
             k = [s \in SUBSET S |->
                    IF s = {} THEN 0
                    ELSE apps[CHOOSE x \in s : TRUE] + k[s \ {CHOOSE x \in s : TRUE}]]
<1>1. \A k : Iter(k) <=> Adds(apps, k, S)
  BY DEF Adds, Chosen
<1>2. AppsSum(apps) = (CHOOSE k : Iter(k))[S]
  BY DEF AppsSum, SumOver, MapThenSumSet, MapThenFoldSet
<1> HIDE DEF Iter
<1>3. (CHOOSE k : Iter(k)) = (CHOOSE k : Adds(apps, k, S))
  BY <1>1
<1> QED BY <1>2, <1>3 DEF SumOf

(* One application over some dates.                                        *)
ColumnSum(rows, a, S) == SumOver(S, LAMBDA d : rows[d][a])

LEMMA ColumnSumOf ==
  ASSUME NEW rows, NEW a, NEW S, NEW h, \A d \in S : h[d] = rows[d][a]
  PROVE  ColumnSum(rows, a, S) = SumOf(h, S)
<1> DEFINE Iter(k) ==
             k = [s \in SUBSET S |->
                    IF s = {} THEN 0
                    ELSE rows[CHOOSE x \in s : TRUE][a] + k[s \ {CHOOSE x \in s : TRUE}]]
<1>1. ASSUME NEW s \in SUBSET S, s # {}
      PROVE  h[Chosen(s)] = rows[CHOOSE x \in s : TRUE][a]
  BY <1>1 DEF Chosen
<1>2. \A k : Iter(k) <=> Adds(h, k, S)
  BY <1>1 DEF Adds, Chosen
<1>3. ColumnSum(rows, a, S) = (CHOOSE k : Iter(k))[S]
  BY DEF ColumnSum, SumOver, MapThenSumSet, MapThenFoldSet
<1> HIDE DEF Iter
<1>4. (CHOOSE k : Iter(k)) = (CHOOSE k : Adds(h, k, S))
  BY <1>2
<1> QED BY <1>3, <1>4 DEF SumOf

ActiveSum(a, S) == SumOver(S, LAMBDA d : ActiveOn(d, a))

LEMMA ActiveSumOf ==
  ASSUME NEW a, NEW S, NEW h, \A d \in S : h[d] = ActiveOn(d, a)
  PROVE  ActiveSum(a, S) = SumOf(h, S)
<1> DEFINE Iter(k) ==
             k = [s \in SUBSET S |->
                    IF s = {} THEN 0
                    ELSE ActiveOn(CHOOSE x \in s : TRUE, a) + k[s \ {CHOOSE x \in s : TRUE}]]
<1>1. ASSUME NEW s \in SUBSET S, s # {}
      PROVE  h[Chosen(s)] = ActiveOn(CHOOSE x \in s : TRUE, a)
  BY <1>1 DEF Chosen
<1>2. \A k : Iter(k) <=> Adds(h, k, S)
  BY <1>1 DEF Adds, Chosen
<1>3. ActiveSum(a, S) = (CHOOSE k : Iter(k))[S]
  BY DEF ActiveSum, SumOver, MapThenSumSet, MapThenFoldSet
<1> HIDE DEF Iter
<1>4. (CHOOSE k : Iter(k)) = (CHOOSE k : Adds(h, k, S))
  BY <1>2
<1> QED BY <1>3, <1>4 DEF SumOf

(* Every application of a set over some dates.                             *)
SquareSum(rows, T, S) == SumOver(T, LAMBDA a : ColumnSum(rows, a, S))

LEMMA SquareSumOf ==
  ASSUME NEW rows, NEW T, NEW S, NEW h, \A a \in T : h[a] = ColumnSum(rows, a, S)
  PROVE  SquareSum(rows, T, S) = SumOf(h, T)
<1> DEFINE Iter(k) ==
             k = [s \in SUBSET T |->
                    IF s = {} THEN 0
                    ELSE ColumnSum(rows, CHOOSE x \in s : TRUE, S)
                           + k[s \ {CHOOSE x \in s : TRUE}]]
<1>1. ASSUME NEW s \in SUBSET T, s # {}
      PROVE  h[Chosen(s)] = ColumnSum(rows, CHOOSE x \in s : TRUE, S)
  BY <1>1 DEF Chosen
<1>2. \A k : Iter(k) <=> Adds(h, k, T)
  BY <1>1 DEF Adds, Chosen
<1>3. SquareSum(rows, T, S) = (CHOOSE k : Iter(k))[T]
  BY DEF SquareSum, SumOver, MapThenSumSet, MapThenFoldSet
<1> HIDE DEF Iter
<1>4. (CHOOSE k : Iter(k)) = (CHOOSE k : Adds(h, k, T))
  BY <1>2
<1> QED BY <1>3, <1>4 DEF SumOf

BarSum(S) == SumOver(S, LAMBDA d : DailyRow(d).active)

LEMMA BarSumOf ==
  ASSUME NEW S, NEW h, \A d \in S : h[d] = DailyRow(d).active
  PROVE  BarSum(S) = SumOf(h, S)
<1> DEFINE Iter(k) ==
             k = [s \in SUBSET S |->
                    IF s = {} THEN 0
                    ELSE DailyRow(CHOOSE x \in s : TRUE).active + k[s \ {CHOOSE x \in s : TRUE}]]
<1>1. ASSUME NEW s \in SUBSET S, s # {}
      PROVE  h[Chosen(s)] = DailyRow(CHOOSE x \in s : TRUE).active
  BY <1>1 DEF Chosen
<1>2. \A k : Iter(k) <=> Adds(h, k, S)
  BY <1>1 DEF Adds, Chosen
<1>3. BarSum(S) = (CHOOSE k : Iter(k))[S]
  BY DEF BarSum, SumOver, MapThenSumSet, MapThenFoldSet
<1> HIDE DEF Iter
<1>4. (CHOOSE k : Iter(k)) = (CHOOSE k : Adds(h, k, S))
  BY <1>2
<1> QED BY <1>3, <1>4 DEF SumOf

(* Over rows or samples of active time.                                    *)
PointSum(points, S) == SumOver(S, LAMBDA j : points[j].active)

LEMMA PointSumOf ==
  ASSUME NEW points, NEW S, NEW h, \A j \in S : h[j] = points[j].active
  PROVE  PointSum(points, S) = SumOf(h, S)
<1> DEFINE Iter(k) ==
             k = [s \in SUBSET S |->
                    IF s = {} THEN 0
                    ELSE points[CHOOSE x \in s : TRUE].active + k[s \ {CHOOSE x \in s : TRUE}]]
<1>1. ASSUME NEW s \in SUBSET S, s # {}
      PROVE  h[Chosen(s)] = points[CHOOSE x \in s : TRUE].active
  BY <1>1 DEF Chosen
<1>2. \A k : Iter(k) <=> Adds(h, k, S)
  BY <1>1 DEF Adds, Chosen
<1>3. PointSum(points, S) = (CHOOSE k : Iter(k))[S]
  BY DEF PointSum, SumOver, MapThenSumSet, MapThenFoldSet
<1> HIDE DEF Iter
<1>4. (CHOOSE k : Iter(k)) = (CHOOSE k : Adds(h, k, S))
  BY <1>2
<1> QED BY <1>3, <1>4 DEF SumOf

(* Over the buckets of the composition.                                    *)
BucketTotal(bucket) == bucket.others + AppsSum(bucket.apps)

BucketSum(comp) == SumOver(DOMAIN comp, LAMBDA i : BucketTotal(comp[i]))

LEMMA BucketSumOf ==
  ASSUME NEW comp, NEW S, S = DOMAIN comp, NEW h, \A i \in S : h[i] = BucketTotal(comp[i])
  PROVE  BucketSum(comp) = SumOf(h, S)
<1> DEFINE Iter(k) ==
             k = [s \in SUBSET S |->
                    IF s = {} THEN 0
                    ELSE BucketTotal(comp[CHOOSE x \in s : TRUE]) + k[s \ {CHOOSE x \in s : TRUE}]]
<1>1. ASSUME NEW s \in SUBSET S, s # {}
      PROVE  h[Chosen(s)] = BucketTotal(comp[CHOOSE x \in s : TRUE])
  BY <1>1 DEF Chosen
<1>2. \A k : Iter(k) <=> Adds(h, k, S)
  BY <1>1 DEF Adds, Chosen
<1>3. BucketSum(comp) = (CHOOSE k : Iter(k))[S]
  BY DEF BucketSum, SumOver, MapThenSumSet, MapThenFoldSet
<1> HIDE DEF Iter
<1>4. (CHOOSE k : Iter(k)) = (CHOOSE k : Adds(h, k, S))
  BY <1>2
<1> QED BY <1>3, <1>4 DEF SumOf

(* Over the cells of the heat map.                                         *)
CellSum(cells) == SumOver(cells, LAMBDA cell : cell.active)

LEMMA CellSumOf ==
  ASSUME NEW cells, NEW h, \A cell \in cells : h[cell] = cell.active
  PROVE  CellSum(cells) = SumOf(h, cells)
<1> DEFINE S == cells
           Iter(k) ==
             k = [s \in SUBSET S |->
                    IF s = {} THEN 0
                    ELSE (CHOOSE x \in s : TRUE).active + k[s \ {CHOOSE x \in s : TRUE}]]
<1>1. ASSUME NEW s \in SUBSET S, s # {}
      PROVE  h[Chosen(s)] = (CHOOSE x \in s : TRUE).active
  BY <1>1 DEF Chosen
<1>2. \A k : Iter(k) <=> Adds(h, k, S)
  BY <1>1 DEF Adds, Chosen
<1>3. CellSum(cells) = (CHOOSE k : Iter(k))[S]
  BY DEF CellSum, SumOver, MapThenSumSet, MapThenFoldSet
<1> HIDE DEF Iter
<1>4. (CHOOSE k : Iter(k)) = (CHOOSE k : Adds(h, k, S))
  BY <1>2
<1> QED BY <1>3, <1>4 DEF SumOf

LEMMA HourSumOf ==
  ASSUME NEW u, NEW h, \A a \in Apps : h[a] = db.hourly[u][a]["active"]
  PROVE  HourTotal(u, "active") = SumOf(h, Apps)
<1> DEFINE S == Apps
           Iter(k) ==
             k = [s \in SUBSET S |->
                    IF s = {} THEN 0
                    ELSE db.hourly[u][CHOOSE x \in s : TRUE]["active"]
                           + k[s \ {CHOOSE x \in s : TRUE}]]
<1>1. ASSUME NEW s \in SUBSET S, s # {}
      PROVE  h[Chosen(s)] = db.hourly[u][CHOOSE x \in s : TRUE]["active"]
  BY <1>1 DEF Chosen
<1>2. \A k : Iter(k) <=> Adds(h, k, S)
  BY <1>1 DEF Adds, Chosen
<1>3. HourTotal(u, "active") = (CHOOSE k : Iter(k))[S]
  BY DEF HourTotal, SumOver, MapThenSumSet, MapThenFoldSet
<1> HIDE DEF Iter
<1>4. (CHOOSE k : Iter(k)) = (CHOOSE k : Adds(h, k, S))
  BY <1>2
<1> QED BY <1>3, <1>4 DEF SumOf

-----------------------------------------------------------------------------
(***************************************************************************)
(* What the tables count.  The active ticks of all the rows; a table has a *)
(* part of them in every bucket.                                           *)
(***************************************************************************)
AllTicks ==
  {it \in (DOMAIN db.segs) \X Present :
     /\ db.segs[it[1]].state = "active"
     /\ db.segs[it[1]].start <= it[2] /\ it[2] < db.segs[it[1]].end}

DatesTicks(S) == {it \in AllTicks : DateOf(it[2]) \in S}

AppOf(it) == db.segs[it[1]].app

AppDates(T, S) == {it \in DatesTicks(S) : AppOf(it) \in T}

HourTicksOf(u) == {it \in AllTicks : HourOf(it[2]) = u}

PageHolds == EngineHolds /\ LiveHeld /\ TimeIn

LEMMA TickIs ==
  ASSUME PageHolds, NEW it \in AllTicks
  PROVE  /\ it = <<it[1], it[2]>> /\ it[1] \in DOMAIN db.segs /\ it[2] \in Present
         /\ it[2] \in Int /\ DateOf(it[2]) \in Dates /\ AppOf(it) \in Apps
<1>1. it = <<it[1], it[2]>> /\ it[1] \in DOMAIN db.segs /\ it[2] \in Present
  BY DEF AllTicks
<1>2. it[2] \in Int /\ DateOf(it[2]) \in Dates
  BY <1>1, PresentDate
<1>3. AppOf(it) \in Apps
  BY <1>1, StoredHere, StoredRows DEF PageHolds, Whole, Segments, IsSegment, AppOf
<1> QED BY <1>1, <1>2, <1>3

LEMMA AllTicksFinite ==
  ASSUME PageHolds
  PROVE  /\ IsFiniteSet(AllTicks)
         /\ \A T : T \subseteq AllTicks => IsFiniteSet(T) /\ Cardinality(T) \in Nat
<1>1. IsFiniteSet(DOMAIN db.segs)
  BY StoredHere, StoredRows, HitsFinite DEF PageHolds, Whole
<1>2. IsFiniteSet(Present)
  <2>1. 0 \in Int /\ MaxUtc \in Int
    BY EngineConstants
  <2> QED BY <2>1, FS_Interval DEF Present
<1>3. IsFiniteSet((DOMAIN db.segs) \X Present)
  BY <1>1, <1>2, FS_Product
<1>4. AllTicks \subseteq (DOMAIN db.segs) \X Present
  BY DEF AllTicks
<1>5. IsFiniteSet(AllTicks)
  BY <1>3, <1>4, FS_Subset
<1> QED BY <1>5, FS_Subset, FS_CardinalityType

(* A time belongs to the date and the hour it lies in.                     *)
LEMMA InDate ==
  ASSUME NEW x \in Int, NEW k \in Int
  PROVE  /\ DateOf(k) \in Int /\ DayStart(x) \in Int /\ DayEnd(x) \in Int
         /\ DateOf(k) = x <=> DayStart(x) <= k /\ k < DayEnd(x)
<1> DEFINE t == k + ZoneOffset
           q == t \div DayTicks
           lo == x * DayTicks
           hi == (x + 1) * DayTicks
<1>1. t \in Int /\ ZoneOffset \in Int /\ DayTicks \in Nat \ {0}
  BY ProjectionConstants
<1>2. DateOf(k) = q /\ DayStart(x) = lo - ZoneOffset /\ DayEnd(x) = hi - ZoneOffset
  BY DEF DateOf, DayStart, DayEnd
<1>3. q \in Int /\ (t < hi <=> q <= x) /\ (lo <= t <=> x <= q)
  <2> HIDE DEF t
  <2> QED BY <1>1, InBucket
<1>4. lo \in Int /\ hi \in Int
  BY <1>1
<1> HIDE DEF q, lo, hi
<1> QED BY <1>1, <1>2, <1>3, <1>4

LEMMA InHour ==
  ASSUME NEW u \in Int, NEW k \in Int
  PROVE  /\ HourOf(k) \in Int /\ u * HourTicks \in Int /\ (u + 1) * HourTicks \in Int
         /\ HourOf(k) = u <=> u * HourTicks <= k /\ k < (u + 1) * HourTicks
<1> DEFINE q == k \div HourTicks
           lo == u * HourTicks
           hi == (u + 1) * HourTicks
<1>1. HourTicks \in Nat \ {0}
  BY ProjectionConstants
<1>2. q \in Int /\ (k < hi <=> q <= u) /\ (lo <= k <=> u <= q)
  BY <1>1, InBucket
<1>3. lo \in Int /\ hi \in Int
  BY <1>1
<1>4. HourOf(k) = q
  BY DEF HourOf
<1> HIDE DEF q, lo, hi
<1> QED BY <1>2, <1>3, <1>4 DEF lo, hi

(* The ticks of the rows in a stretch of time, whatever its bounds.        *)
LEMMA TicksBetween ==
  ASSUME PageHolds, NEW lo \in Int, NEW hi \in Int
  PROVE  TicksOn(db.segs, lo, hi) = {it \in AllTicks : lo <= it[2] /\ it[2] < hi}
<1>1. Whole(db.segs) /\ SegsIn(db.segs)
  BY StoredHere, StoredRows DEF PageHolds, TimeIn, DbIn
<1>2. ASSUME NEW it
      PROVE  it \in TicksOn(db.segs, lo, hi) <=> it \in AllTicks /\ lo <= it[2] /\ it[2] < hi
  <2>1. it \in TicksOn(db.segs, lo, hi) <=>
           /\ it \in (DOMAIN db.segs) \X (lo .. hi - 1)
           /\ db.segs[it[1]].state = "active"
           /\ db.segs[it[1]].start <= it[2] /\ it[2] < db.segs[it[1]].end
    BY <1>1, TickOf
  <2>2. ASSUME it \in TicksOn(db.segs, lo, hi)
        PROVE  it \in AllTicks /\ lo <= it[2] /\ it[2] < hi
    <3>1. it[1] \in DOMAIN db.segs /\ it[2] \in lo .. hi - 1 /\ it = <<it[1], it[2]>>
      BY <2>1, <2>2
    <3>2. db.segs[it[1]].start \in 0 .. MaxUtc /\ db.segs[it[1]].end \in 0 .. MaxUtc
      BY <1>1, <3>1 DEF SegsIn, Present
    <3>3. it[2] \in 0 .. MaxUtc /\ lo <= it[2] /\ it[2] < hi
      BY <2>1, <2>2, <3>1, <3>2, EngineConstants
    <3>4. it \in (DOMAIN db.segs) \X Present
      BY <3>1, <3>3 DEF Present
    <3> QED BY <2>1, <2>2, <3>3, <3>4 DEF AllTicks
  <2>3. ASSUME it \in AllTicks, lo <= it[2], it[2] < hi
        PROVE  it \in TicksOn(db.segs, lo, hi)
    <3>1. it = <<it[1], it[2]>> /\ it[1] \in DOMAIN db.segs /\ it[2] \in Int
      BY <2>3, TickIs
    <3>2. it[2] \in lo .. hi - 1
      BY <2>3, <3>1
    <3>3. it \in (DOMAIN db.segs) \X (lo .. hi - 1)
      BY <3>1, <3>2
    <3> QED BY <2>1, <2>3, <3>3 DEF AllTicks
  <2> QED BY <2>2, <2>3
<1> QED BY <1>2

LEMMA TicksOfDate ==
  ASSUME PageHolds, NEW x \in Int
  PROVE  TicksOn(db.segs, DayStart(x), DayEnd(x)) = DatesTicks({x})
<1>1. DayStart(x) \in Int /\ DayEnd(x) \in Int
  BY InDate
<1>2. ASSUME NEW it \in AllTicks
      PROVE  DayStart(x) <= it[2] /\ it[2] < DayEnd(x) <=> DateOf(it[2]) \in {x}
  <2>1. it[2] \in Int
    BY TickIs
  <2> QED BY <2>1, InDate
<1> QED BY <1>1, <1>2, TicksBetween DEF DatesTicks

LEMMA TicksOfHour ==
  ASSUME PageHolds, NEW u \in Int
  PROVE  TicksOn(db.segs, u * HourTicks, (u + 1) * HourTicks) = HourTicksOf(u)
<1>1. u * HourTicks \in Int /\ (u + 1) * HourTicks \in Int
  BY InHour
<1>2. ASSUME NEW it \in AllTicks
      PROVE  u * HourTicks <= it[2] /\ it[2] < (u + 1) * HourTicks <=> HourOf(it[2]) = u
  <2>1. it[2] \in Int
    BY TickIs
  <2> QED BY <2>1, InHour
<1> QED BY <1>1, <1>2, TicksBetween DEF HourTicksOf

(* Outside the dates of the tables there is nothing.                       *)
LEMMA NoTicksElsewhere ==
  ASSUME PageHolds, NEW x, x \notin Dates
  PROVE  DatesTicks({x}) = {}
BY TickIs DEF DatesTicks

LEMMA BarCounts ==
  ASSUME PageHolds, NEW x \in Int
  PROVE  DailyRow(x).active = Cardinality(DatesTicks({x}))
<1>1. CASE x \in Dates
  <2>1. DayTold(db, x)
    BY <1>1 DEF PageHolds, LiveHeld, DaysTold
  <2>2. DailyRow(x).active = db.metrics[x].active
    BY <2>1 DEF DayTold, DailyRow, MetricsOf, NoMetrics
  <2> HIDE DEF DailyRow
  <2> QED BY <2>1, <2>2, TicksOfDate DEF DayTold, DayTicksOf
<1>2. CASE x \notin Dates
  <2>1. x \notin db.recorded
    BY <1>2 DEF PageHolds, TimeIn, DbIn
  <2>2. DailyRow(x).active = 0
    BY <2>1 DEF DailyRow, MetricsOf, NoMetrics
  <2>3. DatesTicks({x}) = {}
    BY <1>2, NoTicksElsewhere
  <2> QED BY <2>2, <2>3, FS_EmptySet
<1> QED BY <1>1, <1>2

(* An hour or a date of one application.                                   *)
LEMMA AppTicksAre ==
  ASSUME NEW segs, Segments(segs), NEW a, NEW lo \in Int, NEW hi \in Int
  PROVE  TicksOf(segs, HitsIn(segs, a, "active", lo, hi), lo, hi)
           = {it \in TicksOn(segs, lo, hi) : segs[it[1]].app = a}
<1>1. ASSUME NEW i \in DOMAIN segs, NEW k \in lo .. hi - 1,
             segs[i].start <= k, k < segs[i].end
      PROVE  i \in HitsIn(segs, a, "active", lo, hi)
               <=> i \in ActiveOf(segs, lo, hi) /\ segs[i].app = a
  <2>1. segs[i].start \in Int /\ segs[i].end \in Int
    BY DEF Segments, IsSegment
  <2>2. segs[i].end > lo /\ segs[i].start < hi /\ segs[i].end > segs[i].start
    BY <1>1, <2>1
  <2>3. Meets(segs[i], lo, hi) /\ Touches(segs[i], lo, hi)
    BY <2>1, <2>2 DEF Meets, Touches
  <2> QED BY <2>3 DEF HitsIn, Hits, ActiveOf
<1>2. /\ HitsIn(segs, a, "active", lo, hi) \subseteq DOMAIN segs
      /\ ActiveOf(segs, lo, hi) \subseteq DOMAIN segs
  BY DEF HitsIn, Hits, ActiveOf
<1> QED BY <1>1, <1>2 DEF TicksOf, TicksOn

LEMMA ActiveCounts ==
  ASSUME PageHolds, NEW x \in Int, NEW a \in Apps
  PROVE  ActiveOn(x, a) = Cardinality(AppDates({a}, {x}))
<1>1. CASE x \in Dates
  <2> DEFINE lo == DayStart(x)
             hi == DayEnd(x)
             S == HitsIn(db.segs, a, "active", lo, hi)
  <2>1. Segments(db.segs)
    BY HereTyped DEF RowsTyped, PageHolds
  <2>2. lo \in Int /\ hi \in Int /\ lo < hi
    BY <1>1, DayBounds
  <2>3. db.daily[x] = Usage(db.segs, lo, hi)
    BY <1>1, HereNow DEF PageHolds, EngineHolds, EngineInv, Consistent, TablesOK, Fresh, DateUsage
  <2>4. TicksOn(db.segs, lo, hi) = DatesTicks({x})
    BY TicksOfDate
  <2>5. ActiveOn(x, a) = db.daily[x][a].active
    BY <1>1 DEF ActiveOn
  <2> HIDE DEF lo, hi
  <2>6. db.daily[x][a].active = Total(db.segs, S, lo, hi)
    BY <2>3, UsageByHits
  <2>7. Total(db.segs, S, lo, hi) = Cardinality(TicksOf(db.segs, S, lo, hi))
    BY <2>1, <2>2, HitsTotal
  <2>8. TicksOf(db.segs, S, lo, hi) = AppDates({a}, {x})
    BY <2>1, <2>2, <2>4, AppTicksAre DEF AppDates, AppOf
  <2> QED BY <2>5, <2>6, <2>7, <2>8
<1>2. CASE x \notin Dates
  <2>1. AppDates({a}, {x}) = {}
    BY <1>2, NoTicksElsewhere DEF AppDates
  <2> QED BY <1>2, <2>1, FS_EmptySet DEF ActiveOn
<1> QED BY <1>1, <1>2

LEMMA HourCounts ==
  ASSUME PageHolds, NEW u \in Hours
  PROVE  HourTotal(u, "active") = Cardinality(HourTicksOf(u)) /\ HourTotal(u, "active") \in Nat
<1> DEFINE lo == u * HourTicks
           hi == (u + 1) * HourTicks
           F == [a \in Apps |-> {it \in HourTicksOf(u) : AppOf(it) = a}]
           h == [a \in Apps |-> db.hourly[u][a]["active"]]
<1>1. Segments(db.segs)
  BY HereTyped DEF RowsTyped, PageHolds
<1>2. u \in Int /\ lo \in Int /\ hi \in Int /\ lo < hi
  BY BucketBounds
<1>3. db.hourly[u] = Usage(db.segs, lo, hi)
  BY HereNow DEF PageHolds, EngineHolds, EngineInv, Consistent, TablesOK, Fresh, HourUsage
<1>4. TicksOn(db.segs, lo, hi) = HourTicksOf(u)
  BY <1>2, TicksOfHour
<1>5. ASSUME NEW a \in Apps
      PROVE  IsFiniteSet(F[a]) /\ h[a] = Cardinality(F[a])
  <2> DEFINE S == HitsIn(db.segs, a, "active", lo, hi)
  <2>1. h[a] = Total(db.segs, S, lo, hi)
    <3>1. db.hourly[u][a].active = Total(db.segs, S, lo, hi)
      <4> HIDE DEF lo, hi
      <4> QED BY <1>3, UsageByHits
    <3> QED BY <3>1
  <2> HIDE DEF lo, hi
  <2>2. Total(db.segs, S, lo, hi) = Cardinality(TicksOf(db.segs, S, lo, hi))
    BY <1>1, <1>2, HitsTotal
  <2>3. TicksOf(db.segs, S, lo, hi) = F[a]
    BY <1>1, <1>2, <1>4, AppTicksAre DEF AppOf
  <2>4. F[a] \subseteq AllTicks
    BY DEF HourTicksOf
  <2>5. IsFiniteSet(F[a])
    BY <2>4, AllTicksFinite
  <2> QED BY <2>1, <2>2, <2>3, <2>5
<1>6. \A a, b \in Apps : a # b => F[a] \cap F[b] = {}
  OBVIOUS
<1>7. Family(F, Apps) = HourTicksOf(u)
  <2>1. \A it \in HourTicksOf(u) : AppOf(it) \in Apps
    BY TickIs DEF HourTicksOf
  <2> QED BY <2>1 DEF Family
<1>8. \A a \in Apps : h[a] = db.hourly[u][a]["active"]
  OBVIOUS
<1> HIDE DEF F, h
<1>9. Counts(h, F, Apps)
  BY <1>5, <1>6 DEF Counts
<1>10. HourTotal(u, "active") = SumOf(h, Apps)
  BY <1>8, HourSumOf
<1>11. IsFiniteSet(Apps)
  BY StatisticsConstants
<1> QED BY <1>7, <1>9, <1>10, <1>11, FamilySum

(* The summands h of S are the bars of the dates f of D, each once.        *)
BarsOf(h, S, f, D) ==
  /\ \A j \in S : f[j] \in Int /\ h[j] = DailyRow(f[j]).active
  /\ \A i, j \in S : i # j => f[i] # f[j]
  /\ \A x : x \in D <=> \E j \in S : x = f[j]

LEMMA DatesApart ==
  ASSUME PageHolds, NEW S, IsFiniteSet(S), NEW h, NEW f, NEW D, BarsOf(h, S, f, D)
  PROVE  SumOf(h, S) = Cardinality(DatesTicks(D)) /\ SumOf(h, S) \in Nat
<1> DEFINE F == [j \in S |-> DatesTicks({f[j]})]
<1>1. ASSUME NEW j \in S
      PROVE  IsFiniteSet(F[j]) /\ h[j] = Cardinality(F[j])
  <2>1. h[j] = Cardinality(F[j])
    BY BarCounts DEF BarsOf
  <2>2. F[j] \subseteq AllTicks
    BY DEF DatesTicks
  <2> QED BY <2>1, <2>2, AllTicksFinite
<1>2. \A i, j \in S : i # j => F[i] \cap F[j] = {}
  BY DEF DatesTicks, BarsOf
<1>3. Family(F, S) = DatesTicks(D)
  BY DEF Family, DatesTicks, BarsOf
<1> HIDE DEF F
<1>4. Counts(h, F, S)
  BY <1>1, <1>2 DEF Counts
<1> QED BY <1>3, <1>4, FamilySum

LEMMA BarSumCounts ==
  ASSUME PageHolds, NEW S, IsFiniteSet(S), S \subseteq Int
  PROVE  BarSum(S) = Cardinality(DatesTicks(S)) /\ BarSum(S) \in Nat
<1> DEFINE h == [x \in S |-> DailyRow(x).active]
           f == [x \in S |-> x]
<1>1. /\ \A x \in S : h[x] = DailyRow(x).active /\ f[x] = x
      /\ \A x : x \in S <=> \E y \in S : x = f[y]
  OBVIOUS
<1> HIDE DEF h, f
<1>2. BarsOf(h, S, f, S)
  BY <1>1 DEF BarsOf
<1>3. SumOf(h, S) = Cardinality(DatesTicks(S)) /\ SumOf(h, S) \in Nat
  BY <1>2, DatesApart
<1>4. BarSum(S) = SumOf(h, S)
  BY <1>1, BarSumOf
<1> QED BY <1>3, <1>4

-----------------------------------------------------------------------------
(***************************************************************************)
(* The bars.  What is said of a date does not depend on how many days one  *)
(* read covers, if it covers those the averages need.                      *)
(***************************************************************************)
LEMMA RowsRead ==
  ASSUME NEW from \in Int, NEW to \in Int, from <= to + 1, NEW daily,
         daily = DailyRows(from, to)
  PROVE  /\ DOMAIN daily = 1 .. to - from + 1
         /\ \A i \in DOMAIN daily : i \in Int /\ from + i - 1 \in from .. to
                                    /\ daily[i] = DailyRow(from + i - 1)
<1> DEFINE n == to - from + 1
<1>1. n \in Nat
  OBVIOUS
<1>2. daily = [i \in 1 .. n |-> DailyRow(from + i - 1)]
  BY DEF DailyRows
<1>3. \A i \in 1 .. n : i \in Int /\ from + i - 1 \in from .. to
  OBVIOUS
<1> HIDE DEF n
<1>4. DOMAIN daily = 1 .. n
  BY <1>2
<1> QED BY <1>2, <1>3, <1>4 DEF n

LEMMA RowsCount ==
  ASSUME NEW from \in Int, NEW to \in Int, from <= to + 1
  PROVE  Len(DailyRows(from, to)) = to - from + 1
<1> DEFINE daily == DailyRows(from, to)
           n == to - from + 1
           S == {DailyRow(from + i - 1) : i \in 1 .. n}
<1>1. n \in Nat
  OBVIOUS
<1>2. daily = [i \in 1 .. n |-> DailyRow(from + i - 1)]
  BY DEF DailyRows
<1> HIDE DEF daily, n
<1>3. daily \in [1 .. n -> S]
  BY <1>2
<1> HIDE DEF S
<1>4. daily \in Seq(S)
  BY <1>1, <1>3
<1>5. DOMAIN daily = 1 .. n
  BY <1>3
<1> QED BY <1>1, <1>4, <1>5, LenProperties DEF daily, n

(* Samples C of rows that begin at date from are those of the dates D.     *)
SamplesOf(points, C, from, D) ==
  /\ \A j \in C : j \in Int /\ points[j].active = DailyRow(from + j - 1).active
  /\ \A x : x \in D <=> \E j \in C : x = from + j - 1

LEMMA SamplesCount ==
  ASSUME PageHolds, NEW C, IsFiniteSet(C), NEW points, NEW from \in Int, NEW D,
         SamplesOf(points, C, from, D)
  PROVE  /\ Cardinality(C) = Cardinality(D) /\ Cardinality(D) \in Nat
         /\ PointSum(points, C) = Cardinality(DatesTicks(D))
<1> DEFINE f == [j \in C |-> from + j - 1]
           h == [j \in C |-> points[j].active]
<1>1. \A j \in C : j \in Int
  BY DEF SamplesOf
<1>3. \A i, j \in C : i # j => f[i] # f[j]
  BY <1>1
<1>4. \A j \in C : f[j] \in Int /\ h[j] = DailyRow(f[j]).active /\ h[j] = points[j].active
  BY <1>1 DEF SamplesOf
<1>5. \A x : x \in D <=> \E j \in C : x = f[j]
  BY DEF SamplesOf
<1>6. f \in Bijection(C, D)
  <2>1. \A j \in C : f[j] \in D
    BY <1>5
  <2>2. f \in [C -> D]
    BY <2>1
  <2> HIDE DEF f
  <2> QED BY <1>3, <1>5, <2>2 DEF Bijection, Injection, Surjection, IsInjective
<1> HIDE DEF f, h
<1>7. Cardinality(C) = Cardinality(D) /\ IsFiniteSet(D)
  <2>1. ExistsBijection(C, D)
    BY <1>6 DEF ExistsBijection
  <2> QED BY <2>1, FS_Bijection
<1>8. SumOf(h, C) = Cardinality(DatesTicks(D))
  <2>1. BarsOf(h, C, f, D)
    BY <1>3, <1>4, <1>5 DEF BarsOf
  <2> QED BY <2>1, DatesApart
<1>9. PointSum(points, C) = SumOf(h, C)
  BY <1>4, PointSumOf
<1> QED BY <1>5, <1>7, <1>8, <1>9, FS_CardinalityType

CountedDays(y, today) == {x \in y - AvgDays + 1 .. y : x \in db.recorded /\ x # today}

PointOf(y, today) ==
  LET days == Cardinality(CountedDays(y, today))
  IN  [date |-> y, active |-> DailyRow(y).active, blocks |-> DailyRow(y).blocks,
       hasData |-> y \in db.recorded, isToday |-> y = today,
       avg |-> IF y = today \/ days < MinDays THEN {}
               ELSE Average(Cardinality(DatesTicks(CountedDays(y, today))), days),
       avgDays |-> days]

LEMMA AverageOf ==
  ASSUME NEW points, NEW i, NEW C,
         C = {j \in {k \in DOMAIN points : i - AvgDays < k /\ k <= i} :
                points[j].hasData /\ ~ points[j].isToday}
  PROVE  MovingAverage(points, i) =
           [days |-> Cardinality(C),
            avg |-> IF points[i].isToday \/ Cardinality(C) < MinDays THEN {}
                    ELSE Average(PointSum(points, C), Cardinality(C))]
BY DEF MovingAverage, PointSum

LEMMA PointSame ==
  ASSUME PageHolds, NEW from \in Int, NEW to \in Int, NEW i \in Int, AvgDays <= i,
         i <= to - from + 1, NEW today \in Int, NEW y, y = from + i - 1
  PROVE  TrendPoint(DailyRows(from, to), i, today) = PointOf(y, today)
<1> DEFINE daily == DailyRows(from, to)
           points == Samples(daily, today)
           C == {j \in {k \in DOMAIN points : i - AvgDays < k /\ k <= i} :
                   points[j].hasData /\ ~ points[j].isToday}
           D == CountedDays(y, today)
<1>1. AvgDays \in Nat /\ AvgDays > 0
  BY StatisticsConstants
<1>2. from <= to + 1 /\ i \in 1 .. to - from + 1 /\ y \in Int
  BY <1>1
<1>3. /\ DOMAIN daily = 1 .. to - from + 1
      /\ \A j \in DOMAIN daily : j \in Int /\ daily[j] = DailyRow(from + j - 1)
  <2> HIDE DEF daily
  <2>1. daily = DailyRows(from, to)
    BY DEF daily
  <2>2. from <= to + 1
    BY <1>2
  <2> QED BY <2>1, <2>2, RowsRead
<1> HIDE DEF daily
<1>4. /\ DOMAIN points = 1 .. to - from + 1
      /\ \A j \in 1 .. to - from + 1 :
           /\ points[j].active = DailyRow(from + j - 1).active
           /\ points[j].hasData <=> from + j - 1 \in db.recorded
           /\ points[j].isToday <=> from + j - 1 = today
  <2>1. points = [j \in DOMAIN daily |-> [active |-> daily[j].active, hasData |-> daily[j].hasData,
                                          isToday |-> daily[j].date = today]]
    BY DEF Samples
  <2>2. \A j \in DOMAIN daily : daily[j].date = from + j - 1
                                /\ daily[j].hasData = (from + j - 1 \in db.recorded)
    BY <1>3 DEF DailyRow
  <2> HIDE DEF points
  <2>3. \A j \in DOMAIN daily : points[j].active = DailyRow(from + j - 1).active
    BY <1>3, <2>1
  <2> QED BY <1>3, <2>1, <2>2, <2>3
<1> HIDE DEF points
<1>5. (\A x : x \in D <=> \E j \in C : x = from + j - 1) /\ C \subseteq 1 .. to - from + 1
  <2>1. C \subseteq 1 .. to - from + 1
    BY <1>4
  <2>2. ASSUME NEW j \in C
        PROVE  from + j - 1 \in D
    <3>1. /\ j \in 1 .. to - from + 1 /\ i - AvgDays < j /\ j <= i
          /\ from + j - 1 \in db.recorded /\ from + j - 1 # today
      BY <1>4
    <3>2. from + j - 1 \in y - AvgDays + 1 .. y
      BY <1>1, <1>2, <3>1
    <3> QED BY <3>1, <3>2 DEF CountedDays
  <2>3. ASSUME NEW x \in D
        PROVE  \E j \in C : x = from + j - 1
    <3>1. x \in y - AvgDays + 1 .. y /\ x \in db.recorded /\ x # today
      BY DEF CountedDays
    <3> DEFINE j == x - from + 1
    <3>2. j \in 1 .. to - from + 1 /\ i - AvgDays < j /\ j <= i /\ from + j - 1 = x
      BY <1>1, <1>2, <3>1
    <3> HIDE DEF j
    <3>3. j \in C
      BY <1>4, <3>1, <3>2
    <3> QED BY <3>2, <3>3
  <2> HIDE DEF C, D
  <2> QED BY <2>1, <2>2, <2>3
<1>6. MovingAverage(points, i) =
        [days |-> Cardinality(C),
         avg |-> IF points[i].isToday \/ Cardinality(C) < MinDays THEN {}
                 ELSE Average(PointSum(points, C), Cardinality(C))]
  <2> HIDE DEF C
  <2>1. C = {j \in {k \in DOMAIN points : i - AvgDays < k /\ k <= i} :
               points[j].hasData /\ ~ points[j].isToday}
    BY DEF C
  <2> QED BY <2>1, AverageOf
<1> HIDE DEF C, D
<1>7. /\ Cardinality(C) = Cardinality(D)
      /\ PointSum(points, C) = Cardinality(DatesTicks(D))
  <2>1. SamplesOf(points, C, from, D)
    BY <1>4, <1>5 DEF SamplesOf
  <2>2. IsFiniteSet(C)
    <3>1. IsFiniteSet(1 .. to - from + 1)
      BY FS_Interval
    <3> QED BY <1>5, <3>1, FS_Subset
  <2> QED BY <2>1, <2>2, SamplesCount
<1>8. points[i].isToday <=> y = today
  BY <1>2, <1>4
<1>9. MovingAverage(points, i) =
        [days |-> Cardinality(D),
         avg |-> IF y = today \/ Cardinality(D) < MinDays THEN {}
                 ELSE Average(Cardinality(DatesTicks(D)), Cardinality(D))]
  BY <1>6, <1>7, <1>8
<1>10. daily[i] = DailyRow(y)
  BY <1>2, <1>3
<1>11. daily[i].date = y /\ daily[i].hasData = (y \in db.recorded)
  BY <1>10 DEF DailyRow
<1>12. TrendPoint(daily, i, today) =
         [date |-> y, active |-> DailyRow(y).active, blocks |-> DailyRow(y).blocks,
          hasData |-> (y \in db.recorded), isToday |-> (y = today),
          avg |-> MovingAverage(points, i).avg, avgDays |-> MovingAverage(points, i).days]
  BY <1>10, <1>11 DEF TrendPoint, points
<1> QED BY <1>9, <1>12 DEF PointOf, D, daily

LEMMA ReadDaysEnough ==
  ASSUME NEW days \in Nat \ {0}
  PROVE  /\ ReadDays(days) \in Int /\ ReadDays(days) >= days + AvgDays - 1
         /\ ReadDays(days) >= 2 * SummaryDays + 1 /\ ReadDays(days) >= 1
<1> DEFINE p == days + AvgDays - 1
           q == 2 * SummaryDays + 1
<1>1. AvgDays \in Nat \ {0} /\ SummaryDays \in Nat \ {0}
  BY StatisticsConstants, ReadConstants
<1>2. p \in Int /\ q \in Int /\ q >= 1
  BY <1>1
<1>3. ReadDays(days) = Max({p, q})
  BY DEF ReadDays
<1> HIDE DEF p, q
<1>4. Max({p, q}) \in {p, q} /\ Max({p, q}) >= p /\ Max({p, q}) >= q
  BY <1>2, MaxOfTwo
<1>5. ReadDays(days) \in Int /\ ReadDays(days) >= p /\ ReadDays(days) >= q /\ ReadDays(days) >= 1
  BY <1>2, <1>3, <1>4
<1> QED BY <1>5 DEF p, q

TodayIn(point, now) ==
  [point EXCEPT !.active = Cutoff(DateOf(now), now).active,
                !.blocks = Cutoff(DateOf(now), now).blocks]

TrendShown(y, now) ==
  IF y = DateOf(now) THEN TodayIn(PointOf(y, DateOf(now)), now) ELSE PointOf(y, DateOf(now))

RowsFor(days, today) == DailyRows(today - ReadDays(days) + 1, today)

LEMMA TrendSame ==
  ASSUME PageHolds, NEW now \in Int, NEW days \in Nat \ {0}, NEW k \in 1 .. days,
         NEW today \in Int, today = DateOf(now)
  PROVE  Trend(RowsFor(days, today), days, now)[k] = TrendShown(today - days + k, now)
<1> DEFINE n == ReadDays(days)
           from == today - n + 1
           i == n - days + k
           y == today - days + k
           point == TrendPoint(RowsFor(days, today), i, today)
<1>1. AvgDays \in Nat \ {0}
  BY StatisticsConstants
<1>2. n \in Int /\ n >= days + AvgDays - 1 /\ n >= 1
  BY ReadDaysEnough
<1> HIDE DEF n
<1>3. /\ from \in Int /\ i \in Int /\ AvgDays <= i /\ i <= today - from + 1 /\ y = from + i - 1
      /\ from <= today + 1 /\ today - from + 1 = n
  BY <1>1, <1>2
<1>4. RowsFor(days, today) = DailyRows(from, today)
  BY DEF RowsFor, n
<1> HIDE DEF from, i, y
<1>5. point = PointOf(y, today)
  BY <1>3, <1>4, PointSame
<1>6. Len(RowsFor(days, today)) = n
  BY <1>3, <1>4, RowsCount
<1> DEFINE rows == RowsFor(days, today)
           p(m) == TrendPoint(rows, Len(rows) - days + m, today)
<1>7. Trend(rows, days, now)[k] =
        IF p(k).isToday THEN TodayIn(p(k), now) ELSE p(k)
  <2> HIDE DEF rows
  <2> QED BY DEF Trend, TodayIn
<1>8. p(k) = point
  BY <1>6 DEF i
<1> HIDE DEF p, point
<1>9. Trend(rows, days, now)[k] =
        IF PointOf(y, today).isToday THEN TodayIn(PointOf(y, today), now) ELSE PointOf(y, today)
  BY <1>5, <1>7, <1>8
<1>10. PointOf(y, today).isToday = (y = today)
  BY DEF PointOf
<1>11. Trend(rows, days, now)[k] = TrendShown(y, now)
  BY <1>9, <1>10 DEF TrendShown
<1> QED BY <1>11 DEF y, rows

(* The bar of today on the page and in the poll.                           *)
LEMMA StatusSame ==
  ASSUME PageHolds, NEW now \in Int, NEW today \in Int, today = DateOf(now)
  PROVE  Status(now).today = TrendShown(today, now)
<1> DEFINE from == today - AvgDays + 1
           point == TrendPoint(DailyRows(from, today), AvgDays, today)
<1>1. AvgDays \in Nat \ {0}
  BY StatisticsConstants
<1>2. from \in Int /\ AvgDays <= today - from + 1 /\ today = from + AvgDays - 1 /\ AvgDays \in Int
  BY <1>1
<1>3. point = PointOf(today, today)
  <2> HIDE DEF from
  <2> QED BY <1>2, PointSame
<1>4. Status(now).today = [TodayIn(point, now) EXCEPT !.avg = {}]
  <2>1. Status(now).today = [point EXCEPT !.active = Cutoff(today, now).active,
                                          !.blocks = Cutoff(today, now).blocks, !.avg = {}]
    BY DEF Status
  <2> HIDE DEF point
  <2> QED BY <2>1 DEF TodayIn
<1> HIDE DEF point
<1>5. /\ DOMAIN TodayIn(PointOf(today, today), now) = DOMAIN PointOf(today, today)
      /\ TodayIn(PointOf(today, today), now).avg = {}
  BY DEF PointOf, TodayIn
<1>6. [TodayIn(PointOf(today, today), now) EXCEPT !.avg = {}] = TodayIn(PointOf(today, today), now)
  BY <1>5 DEF PointOf, TodayIn
<1> QED BY <1>3, <1>4, <1>6 DEF TrendShown

WindowOf(from, to) ==
  LET dates == db.recorded \cap from .. to
  IN  [days |-> Cardinality(dates),
       mean |-> Average(Cardinality(DatesTicks(dates)), Cardinality(dates))]

LEMMA WindowBy ==
  ASSUME NEW daily, NEW from, NEW to, NEW C,
         C = {i \in WithData(daily) : from <= daily[i].date /\ daily[i].date <= to}
  PROVE  Window(daily, from, to) =
           [days |-> Cardinality(C), mean |-> Average(PointSum(daily, C), Cardinality(C))]
BY DEF Window, PointSum

LEMMA WindowSame ==
  ASSUME PageHolds, NEW first \in Int, NEW last \in Int, first <= last + 1,
         NEW from \in Int, NEW to \in Int, first <= from, to <= last
  PROVE  Window(DailyRows(first, last), from, to) = WindowOf(from, to)
<1> DEFINE daily == DailyRows(first, last)
           C == {i \in WithData(daily) : from <= daily[i].date /\ daily[i].date <= to}
           D == db.recorded \cap from .. to
<1>1. /\ DOMAIN daily = 1 .. last - first + 1
      /\ \A j \in DOMAIN daily : j \in Int /\ daily[j] = DailyRow(first + j - 1)
  <2> HIDE DEF daily
  <2>1. daily = DailyRows(first, last)
    BY DEF daily
  <2> QED BY <2>1, RowsRead
<1> HIDE DEF daily
<1>2. \A j \in DOMAIN daily :
        /\ daily[j].date = first + j - 1 /\ daily[j].hasData = (first + j - 1 \in db.recorded)
        /\ daily[j].active = DailyRow(first + j - 1).active
  BY <1>1 DEF DailyRow
<1>3. C = {j \in 1 .. last - first + 1 :
             first + j - 1 \in db.recorded /\ from <= first + j - 1 /\ first + j - 1 <= to}
  BY <1>1, <1>2 DEF WithData
<1>4. Window(daily, from, to) =
        [days |-> Cardinality(C), mean |-> Average(PointSum(daily, C), Cardinality(C))]
  <2> HIDE DEF C
  <2>1. C = {i \in WithData(daily) : from <= daily[i].date /\ daily[i].date <= to}
    BY DEF C
  <2> QED BY <2>1, WindowBy
<1> HIDE DEF C
<1>5. \A x : x \in D <=> \E j \in C : x = first + j - 1
  <2>1. ASSUME NEW j \in C
        PROVE  first + j - 1 \in D
    BY <1>3
  <2>2. ASSUME NEW x \in D
        PROVE  \E j \in C : x = first + j - 1
    <3> DEFINE j == x - first + 1
    <3>1. x \in from .. to /\ x \in db.recorded
      OBVIOUS
    <3>2. /\ j \in 1 .. last - first + 1 /\ first + j - 1 = x /\ from <= x /\ x <= to
      BY <3>1
    <3> HIDE DEF j
    <3>3. j \in C
      BY <1>3, <3>1, <3>2
    <3> QED BY <3>2, <3>3
  <2> HIDE DEF D
  <2> QED BY <2>1, <2>2
<1> HIDE DEF D
<1>6. SamplesOf(daily, C, first, D)
  BY <1>1, <1>2, <1>3, <1>5 DEF SamplesOf
<1>7. IsFiniteSet(C)
  <2>1. IsFiniteSet(1 .. last - first + 1)
    BY FS_Interval
  <2>2. C \subseteq 1 .. last - first + 1
    BY <1>3
  <2> QED BY <2>1, <2>2, FS_Subset
<1>8. Cardinality(C) = Cardinality(D) /\ PointSum(daily, C) = Cardinality(DatesTicks(D))
  BY <1>6, <1>7, SamplesCount
<1>9. WindowOf(from, to) =
        [days |-> Cardinality(D), mean |-> Average(Cardinality(DatesTicks(D)), Cardinality(D))]
  BY DEF WindowOf, D
<1> QED BY <1>4, <1>8, <1>9 DEF daily

SummaryShown(today) ==
  LET recent == WindowOf(today - SummaryDays, today - 1)
      prior == WindowOf(today - 2 * SummaryDays, today - SummaryDays - 1)
  IN  SummaryOf(IF recent.days >= MinDays /\ prior.days >= MinDays
                THEN SummaryDirection(recent.mean, prior.mean) ELSE {},
                InertiaOf(today).peak, InertiaOf(today).reliability)

LEMMA SummarySame ==
  ASSUME PageHolds, NEW days \in Nat \ {0}, NEW today \in Int
  PROVE  Summary(RowsFor(days, today), today) = SummaryShown(today)
<1> DEFINE first == today - ReadDays(days) + 1
           rows == RowsFor(days, today)
<1>1. SummaryDays \in Nat \ {0}
  BY ReadConstants
<1>2. ReadDays(days) \in Int /\ ReadDays(days) >= 2 * SummaryDays + 1
  BY ReadDaysEnough
<1>3. /\ first \in Int /\ first <= today + 1
      /\ today - SummaryDays \in Int /\ first <= today - SummaryDays
      /\ today - 1 \in Int /\ today - 1 <= today
      /\ today - 2 * SummaryDays \in Int /\ first <= today - 2 * SummaryDays
      /\ today - SummaryDays - 1 \in Int /\ today - SummaryDays - 1 <= today
  BY <1>1, <1>2
<1>4. rows = DailyRows(first, today)
  BY DEF RowsFor
<1> HIDE DEF first, rows
<1>5. Window(rows, today - SummaryDays, today - 1) = WindowOf(today - SummaryDays, today - 1)
  BY <1>3, <1>4, WindowSame
<1>6. Window(rows, today - 2 * SummaryDays, today - SummaryDays - 1)
        = WindowOf(today - 2 * SummaryDays, today - SummaryDays - 1)
  <2> DEFINE a == today - 2 * SummaryDays
             b == today - SummaryDays - 1
  <2>1. a \in Int /\ b \in Int /\ first <= a /\ b <= today
    BY <1>3
  <2> HIDE DEF a, b
  <2>2. Window(rows, a, b) = WindowOf(a, b)
    BY <1>3, <1>4, <2>1, WindowSame
  <2> QED BY <2>2 DEF a, b
<1>7. Summary(rows, today) = SummaryShown(today)
  BY <1>5, <1>6, Zenon DEF Summary, SummaryShown
<1> QED BY <1>7 DEF rows

-----------------------------------------------------------------------------
(***************************************************************************)
(* The composition.  The slots of the palette and the weeks of the range   *)
(* are sets put in order.                                                  *)
(***************************************************************************)
Listing(f, n) == f = [i \in 1 .. n |-> f[i]]

LEMMA OrderedAscends ==
  ASSUME NEW S, IsFiniteSet(S), NEW R, StrictOrder(S, R), NEW rank, NEW f, NEW n,
         n = Cardinality(S), Ranked(S, R, rank, f), Listing(f, n)
  PROVE  /\ n \in Nat /\ f \in Seq(S) /\ Len(f) = n /\ DOMAIN f = 1 .. n
         /\ \A i \in 1 .. n : f[i] \in S
         /\ \A i, j \in 1 .. n : i < j => <<f[i], f[j]>> \in R
         /\ \A x \in S : \E i \in 1 .. n : x = f[i]
<1>2. n \in Nat
  BY FS_CardinalityType
<1>4. /\ \A i \in 1 .. n : f[i] \in S
      /\ \A i, j \in 1 .. n : i < j => <<f[i], f[j]>> \in R
      /\ \A x \in S : \E i \in 1 .. n : x = f[i]
  BY RankedAscends
<1>5. f \in Seq(S) /\ Len(f) = n /\ DOMAIN f = 1 .. n
  <2>1. f \in [1 .. n -> S]
    BY <1>4 DEF Listing
  <2>2. f \in Seq(S) /\ DOMAIN f = 1 .. n
    BY <1>2, <2>1
  <2> QED BY <1>2, <2>2, LenProperties
<1> QED BY <1>2, <1>4, <1>5

(* More time first, and among equals the smaller id.                       *)
MoreTime(total, S) ==
  {p \in S \X S : total[p[1]] > total[p[2]]
                    \/ (total[p[1]] = total[p[2]] /\ AppId[p[1]] < AppId[p[2]])}

LEMMA PaletteSlots ==
  ASSUME NEW S, S \subseteq Apps, NEW total, DOMAIN total = S, \A a \in S : total[a] \in Nat,
         NEW palette, palette = Palette(total)
  PROVE  \A i \in DOMAIN palette : palette[i] \in S
<1> DEFINE R == MoreTime(total, S)
           n == Cardinality(S)
           At(i) == CHOOSE x \in S : Cardinality({y \in S :
                      total[y] > total[x] \/ (total[y] = total[x] /\ AppId[y] < AppId[x])}) = i - 1
           order == [i \in 1 .. n |-> At(i)]
           m == Min({TopSlots, Len(order)})
           rank == [x \in S |-> Cardinality({y \in S :
                      total[y] > total[x] \/ (total[y] = total[x] /\ AppId[y] < AppId[x])})]
<1>1. IsFiniteSet(S)
  BY StatisticsConstants, FS_Subset
<1>2. \A x, y \in S : <<y, x>> \in R <=>
        total[y] > total[x] \/ (total[y] = total[x] /\ AppId[y] < AppId[x])
  BY DEF MoreTime
<1>3. \A x \in S : AppId[x] \in Nat /\ total[x] \in Nat
  BY StatisticsConstants
<1>4. \A x, y \in S : AppId[x] = AppId[y] => x = y
  BY StatisticsConstants DEF IsInjective
<1>5. StrictOrder(S, R)
  <2>1. ASSUME NEW x \in S, NEW y \in S
        PROVE  x = y \/ <<x, y>> \in R \/ <<y, x>> \in R
    <3>1. total[x] \in Nat /\ total[y] \in Nat /\ AppId[x] \in Nat /\ AppId[y] \in Nat
      BY <1>3
    <3>2. AppId[x] = AppId[y] => x = y
      BY <1>4
    <3>3. /\ <<x, y>> \in R <=> total[x] > total[y]
                                 \/ (total[x] = total[y] /\ AppId[x] < AppId[y])
          /\ <<y, x>> \in R <=> total[y] > total[x]
                                 \/ (total[y] = total[x] /\ AppId[y] < AppId[x])
      BY <1>2
    <3> HIDE DEF R
    <3> QED BY <3>1, <3>2, <3>3
  <2>2. \A x, y, z \in S : <<x, y>> \in R /\ <<y, z>> \in R => <<x, z>> \in R
    BY <1>2, <1>3
  <2>3. \A x \in S : <<x, x>> \notin R
    BY <1>2, <1>3
  <2> HIDE DEF R
  <2> QED BY <2>1, <2>2, <2>3 DEF StrictOrder, LinearOrder
<1>6. palette = SubSeq(order, 1, m)
  BY DEF Palette, Ordered
<1>7. Ranked(S, R, rank, order)
  <2>1. ASSUME NEW x \in S
        PROVE  rank[x] = Cardinality(Below(S, R, x))
    <3>1. Below(S, R, x) = {y \in S : total[y] > total[x]
                                        \/ (total[y] = total[x] /\ AppId[y] < AppId[x])}
      BY <1>2 DEF Below
    <3> QED BY <3>1
  <2>2. ASSUME NEW i \in 1 .. n, \E x \in S : rank[x] = i - 1
        PROVE  order[i] \in S /\ rank[order[i]] = i - 1
    <3> DEFINE Fits(x) == Cardinality({y \in S : total[y] > total[x]
                            \/ (total[y] = total[x] /\ AppId[y] < AppId[x])}) = i - 1
               z == CHOOSE x \in S : Fits(x)
    <3>1. \E x \in S : Fits(x)
      BY <2>2
    <3>2. z \in S /\ Fits(z)
      BY <3>1
    <3>3. order[i] = z
      OBVIOUS
    <3>4. \A x \in S : rank[x] = i - 1 <=> Fits(x)
      OBVIOUS
    <3> HIDE DEF z, Fits, rank, order
    <3> QED BY <3>2, <3>3, <3>4
  <2> HIDE DEF R, n, rank, order
  <2>3. n = Cardinality(S)
    BY DEF n
  <2> QED BY <2>1, <2>2, <2>3 DEF Ranked
<1>8. Listing(order, n)
  <2> HIDE DEF At, n
  <2> QED BY DEF Listing
<1> HIDE DEF order, R, n, rank
<1>9. n = Cardinality(S)
  BY DEF n
<1>10. n \in Nat /\ order \in Seq(S) /\ Len(order) = n /\ \A i \in 1 .. n : order[i] \in S
  BY <1>1, <1>5, <1>7, <1>8, <1>9, OrderedAscends
<1>11. m \in Nat /\ m <= n
  <2>1. TopSlots \in Nat
    BY StatisticsConstants
  <2>2. TopSlots \in Int /\ n \in Int
    BY <1>10, <2>1
  <2>3. Min({TopSlots, n}) \in {TopSlots, n} /\ Min({TopSlots, n}) <= n
    BY <2>2, MinOfTwo
  <2> QED BY <1>10, <2>1, <2>3
<1> HIDE DEF m
<1>12. \A i \in 1 .. m : order[i] \in S
  BY <1>10, <1>11
<1>13. palette \in Seq(S)
  <2>1. m \in Int /\ 1 \in Int
    BY <1>11
  <2> QED BY <1>6, <1>12, <2>1, SubSeqProperties
<1> QED BY <1>13, ElementOfSeq

-----------------------------------------------------------------------------
(* Applications over dates.                                                *)
LEMMA AppDatesFinite ==
  ASSUME PageHolds, NEW T, NEW S
  PROVE  /\ IsFiniteSet(AppDates(T, S)) /\ Cardinality(AppDates(T, S)) \in Nat
         /\ IsFiniteSet(DatesTicks(S)) /\ Cardinality(DatesTicks(S)) \in Nat
<1>1. AppDates(T, S) \subseteq AllTicks /\ DatesTicks(S) \subseteq AllTicks
  BY DEF AppDates, DatesTicks
<1> QED BY <1>1, AllTicksFinite

LEMMA AppOverDates ==
  ASSUME PageHolds, NEW a \in Apps, NEW S, IsFiniteSet(S), S \subseteq Int, NEW h,
         \A d \in S : h[d] = ActiveOn(d, a)
  PROVE  SumOf(h, S) = Cardinality(AppDates({a}, S)) /\ SumOf(h, S) \in Nat
<1> DEFINE F == [d \in S |-> AppDates({a}, {d})]
<1>1. \A d \in S : IsFiniteSet(F[d]) /\ h[d] = Cardinality(F[d])
  BY ActiveCounts, AppDatesFinite
<1>2. \A d, e \in S : d # e => F[d] \cap F[e] = {}
  BY DEF AppDates, DatesTicks
<1>3. Family(F, S) = AppDates({a}, S)
  BY DEF Family, AppDates, DatesTicks
<1> HIDE DEF F
<1>4. Counts(h, F, S)
  BY <1>1, <1>2 DEF Counts
<1> QED BY <1>3, <1>4, FamilySum

LEMMA AppsOverDates ==
  ASSUME PageHolds, NEW T, T \subseteq Apps, NEW S, NEW h,
         \A a \in T : h[a] = Cardinality(AppDates({a}, S))
  PROVE  SumOf(h, T) = Cardinality(AppDates(T, S)) /\ SumOf(h, T) \in Nat
<1> DEFINE F == [a \in T |-> AppDates({a}, S)]
<1>1. \A a \in T : IsFiniteSet(F[a]) /\ h[a] = Cardinality(F[a])
  BY AppDatesFinite
<1>2. \A a, b \in T : a # b => F[a] \cap F[b] = {}
  BY DEF AppDates
<1>3. Family(F, T) = AppDates(T, S)
  BY DEF Family, AppDates
<1>4. IsFiniteSet(T)
  BY StatisticsConstants, FS_Subset
<1> HIDE DEF F
<1>5. Counts(h, F, T)
  BY <1>1, <1>2 DEF Counts
<1> QED BY <1>3, <1>4, <1>5, FamilySum

LEMMA TotalsNatural ==
  ASSUME PageHolds, NEW a \in Apps, NEW S, IsFiniteSet(S), S \subseteq Int
  PROVE  ActiveSum(a, S) \in Nat
<1> DEFINE h == [d \in S |-> ActiveOn(d, a)]
<1>1. \A d \in S : h[d] = ActiveOn(d, a)
  OBVIOUS
<1> HIDE DEF h
<1>2. SumOf(h, S) \in Nat
  BY <1>1, AppOverDates
<1>3. ActiveSum(a, S) = SumOf(h, S)
  BY <1>1, ActiveSumOf
<1> QED BY <1>2, <1>3

RowsOf(rows, S) == \A d \in S, a \in Apps : rows[d][a] = ActiveOn(d, a)

LEMMA ColumnCounts ==
  ASSUME PageHolds, NEW rows, NEW S, IsFiniteSet(S), S \subseteq Int, RowsOf(rows, S),
         NEW a \in Apps
  PROVE  ColumnSum(rows, a, S) = Cardinality(AppDates({a}, S)) /\ ColumnSum(rows, a, S) \in Nat
<1> DEFINE h == [d \in S |-> rows[d][a]]
<1>1. \A d \in S : h[d] = rows[d][a] /\ h[d] = ActiveOn(d, a)
  BY DEF RowsOf
<1> HIDE DEF h
<1>2. SumOf(h, S) = Cardinality(AppDates({a}, S)) /\ SumOf(h, S) \in Nat
  BY <1>1, AppOverDates
<1>3. ColumnSum(rows, a, S) = SumOf(h, S)
  BY <1>1, ColumnSumOf
<1> QED BY <1>2, <1>3

(* A bucket shows the applications that have a slot and time in it, and    *)
(* the others together: all the time of its dates.                         *)
SlotsIn(palette) == \A i \in DOMAIN palette : palette[i] \in Apps

LEMMA BucketCounts ==
  ASSUME PageHolds, NEW rows, NEW from \in Int, NEW to \in Int, RowsOf(rows, from .. to),
         NEW palette, SlotsIn(palette), NEW recorded, NEW today,
         NEW bucket, bucket = Bucket(rows, from, to, palette, recorded, today)
  PROVE  /\ bucket.from = from /\ bucket.to = to
         /\ BucketTotal(bucket) = Cardinality(DatesTicks(from .. to))
<1> DEFINE slots == {palette[i] : i \in DOMAIN palette}
           S == from .. to
           shown == {b \in slots : ColumnSum(rows, b, S) > 0}
           rest == Apps \ slots
           A == AppDates(shown, S)
           B == AppDates(rest, S)
           h == [a \in rest |-> ColumnSum(rows, a, S)]
<1>1. slots \subseteq Apps
  BY DEF SlotsIn
<1>2. /\ bucket.from = from /\ bucket.to = to
      /\ bucket.apps = [a \in shown |-> ColumnSum(rows, a, S)]
      /\ bucket.others = SquareSum(rows, rest, S)
  BY DEF Bucket, ColumnSum, SquareSum
<1>3. IsFiniteSet(S) /\ S \subseteq Int
  BY FS_Interval
<1> HIDE DEF slots
<1>4. \A a \in Apps : ColumnSum(rows, a, S) = Cardinality(AppDates({a}, S))
                      /\ ColumnSum(rows, a, S) \in Nat
  <2> HIDE DEF S
  <2> QED BY <1>3, ColumnCounts DEF S
<1> HIDE DEF S
<1>5. shown \subseteq Apps /\ rest \subseteq Apps
  BY <1>1
<1>6. AppsSum(bucket.apps) = Cardinality(A)
  <2>1. DOMAIN bucket.apps = shown /\ \A a \in shown : bucket.apps[a] = ColumnSum(rows, a, S)
    BY <1>2
  <2> HIDE DEF shown
  <2>2. \A a \in shown : bucket.apps[a] = Cardinality(AppDates({a}, S))
    BY <1>4, <1>5, <2>1
  <2>3. SumOf(bucket.apps, shown) = Cardinality(A)
    BY <1>5, <2>2, AppsOverDates
  <2> QED BY <2>1, <2>3, AppsSumOf
<1>7. bucket.others = Cardinality(B)
  <2>1. \A a \in rest : h[a] = ColumnSum(rows, a, S)
    OBVIOUS
  <2> HIDE DEF rest, h
  <2>2. \A a \in rest : h[a] = Cardinality(AppDates({a}, S))
    BY <1>4, <1>5, <2>1
  <2>3. SumOf(h, rest) = Cardinality(B)
    BY <1>5, <2>2, AppsOverDates
  <2> QED BY <1>2, <2>1, <2>3, SquareSumOf
<1>8. A \cup B = DatesTicks(S) /\ A \cap B = {}
  <2>1. ASSUME NEW it \in DatesTicks(S), AppOf(it) \in slots
        PROVE  AppOf(it) \in shown
    <3> DEFINE a == AppOf(it)
    <3>1. a \in Apps
      BY <1>1, <2>1
    <3>2. it \in AppDates({a}, S)
      BY DEF AppDates
    <3> HIDE DEF a
    <3>3. IsFiniteSet(AppDates({a}, S)) /\ Cardinality(AppDates({a}, S)) \in Nat
      BY AppDatesFinite
    <3>4. Cardinality(AppDates({a}, S)) # 0
      BY <3>2, <3>3, FS_EmptySet
    <3>5. ColumnSum(rows, a, S) > 0
      BY <1>4, <3>1, <3>4
    <3> QED BY <2>1, <3>5 DEF a
  <2>2. \A it \in DatesTicks(S) : AppOf(it) \in Apps
    BY TickIs DEF DatesTicks
  <2>3. \A it \in DatesTicks(S) : AppOf(it) \in shown \/ AppOf(it) \in rest
    BY <2>1, <2>2
  <2>4. shown \cap rest = {}
    OBVIOUS
  <2> HIDE DEF shown, rest
  <2> QED BY <2>3, <2>4 DEF AppDates
<1> HIDE DEF A, B
<1>9. Cardinality(A \cup B) = Cardinality(A) + Cardinality(B)
  <2>1. IsFiniteSet(A) /\ IsFiniteSet(B) /\ Cardinality(A) \in Nat /\ Cardinality(B) \in Nat
    BY AppDatesFinite DEF A, B
  <2>2. Cardinality(A \cup B) = Cardinality(A) + Cardinality(B) - Cardinality(A \cap B)
    BY <2>1, FS_Union
  <2>3. Cardinality(A \cap B) = 0
    BY <1>8, FS_EmptySet, Zenon
  <2> QED BY <2>1, <2>2, <2>3
<1>10. BucketTotal(bucket) = Cardinality(B) + Cardinality(A)
  BY <1>6, <1>7 DEF BucketTotal
<1>11. Cardinality(A) \in Nat /\ Cardinality(B) \in Nat
  BY AppDatesFinite DEF A, B
<1>12. BucketTotal(bucket) = Cardinality(DatesTicks(S))
  <2>1. Cardinality(DatesTicks(S)) = Cardinality(A) + Cardinality(B)
    BY <1>8, <1>9, Zenon
  <2> QED BY <1>10, <1>11, <2>1
<1> QED BY <1>2, <1>12 DEF S

(* The buckets divide the dates of a window among them.                    *)
Span(bucket) == bucket.from .. bucket.to

Divides(comp, W) ==
  /\ IsFiniteSet(DOMAIN comp)
  /\ \A i \in DOMAIN comp :
       /\ comp[i].from \in Int /\ comp[i].to \in Int /\ Span(comp[i]) \subseteq W
       /\ BucketTotal(comp[i]) = Cardinality(DatesTicks(Span(comp[i])))
  /\ \A i, j \in DOMAIN comp : i # j => Span(comp[i]) \cap Span(comp[j]) = {}
  /\ \A x \in W : \E i \in DOMAIN comp : x \in Span(comp[i])

BucketOf(bucket, rows, from, to, palette) ==
  \E recorded, today : bucket = Bucket(rows, from, to, palette, recorded, today)

LEMMA BucketOfCounts ==
  ASSUME PageHolds, NEW rows, NEW from \in Int, NEW to \in Int, RowsOf(rows, from .. to),
         NEW palette, SlotsIn(palette), NEW bucket, BucketOf(bucket, rows, from, to, palette)
  PROVE  BucketTotal(bucket) = Cardinality(DatesTicks(from .. to))
<1>1. PICK recorded, today : bucket = Bucket(rows, from, to, palette, recorded, today)
  BY DEF BucketOf
<1> QED BY <1>1, BucketCounts

LEMMA DayBucketCounts ==
  ASSUME PageHolds, NEW rows, NEW d \in Int, RowsOf(rows, d .. d), NEW palette, SlotsIn(palette),
         NEW bucket, BucketOf(bucket, rows, d, d, palette)
  PROVE  BucketTotal(bucket) = Cardinality(DatesTicks(d .. d))
BY BucketOfCounts

LEMMA DaysDivide ==
  ASSUME PageHolds, NEW days \in Nat \ {0}, NEW today \in Int, NEW rows, NEW palette,
         SlotsIn(palette), NEW W, W = today - days + 1 .. today, RowsOf(rows, W),
         NEW comp, comp = DayBuckets(rows, palette, db.recorded, days, today)
  PROVE  Divides(comp, W)
<1>1. /\ DOMAIN comp = 1 .. days
      /\ \A i \in 1 .. days : comp[i] = Bucket(rows, today - days + i, today - days + i, palette,
                                               db.recorded, today)
  BY DEF DayBuckets
<1>2. ASSUME NEW i \in 1 .. days
      PROVE  /\ comp[i].from = today - days + i /\ comp[i].to = today - days + i
             /\ BucketTotal(comp[i]) = Cardinality(DatesTicks(Span(comp[i])))
             /\ Span(comp[i]) = {today - days + i} /\ today - days + i \in W
  <2> DEFINE d == today - days + i
  <2>1. d \in Int /\ d \in W /\ d .. d \subseteq W /\ d .. d = {d}
    OBVIOUS
  <2>2. comp[i] = Bucket(rows, d, d, palette, db.recorded, today)
    BY <1>1
  <2> HIDE DEF d
  <2>3. RowsOf(rows, d .. d)
    BY <2>1 DEF RowsOf
  <2>4. /\ comp[i].from = d /\ comp[i].to = d
        /\ BucketTotal(comp[i]) = Cardinality(DatesTicks(d .. d))
    <3>1. BucketOf(comp[i], rows, d, d, palette)
      BY <2>2 DEF BucketOf
    <3>2. d \in Int
      BY <2>1
    <3>3. comp[i].from = d /\ comp[i].to = d
      BY <2>2 DEF Bucket
    <3>4. BucketTotal(comp[i]) = Cardinality(DatesTicks(d .. d))
      BY <2>3, <3>1, <3>2, DayBucketCounts
    <3> QED BY <3>3, <3>4
  <2>5. Span(comp[i]) = d .. d
    BY <2>4 DEF Span
  <2> QED BY <2>1, <2>4, <2>5 DEF d
<1>3. IsFiniteSet(DOMAIN comp)
  BY <1>1, FS_Interval
<1>4. \A i, j \in 1 .. days : i # j => Span(comp[i]) \cap Span(comp[j]) = {}
  <2> SUFFICES ASSUME NEW i \in 1 .. days, NEW j \in 1 .. days, i # j
               PROVE  Span(comp[i]) \cap Span(comp[j]) = {}
    OBVIOUS
  <2>1. today - days + i # today - days + j
    OBVIOUS
  <2>2. Span(comp[i]) = {today - days + i} /\ Span(comp[j]) = {today - days + j}
    BY <1>2
  <2> QED BY <2>1, <2>2
<1>5. ASSUME NEW x \in W
      PROVE  \E i \in 1 .. days : x \in Span(comp[i])
  <2>1. x - today + days \in 1 .. days /\ today - days + (x - today + days) = x
    OBVIOUS
  <2> QED BY <1>2, <2>1
<1>6. \A i \in 1 .. days : /\ comp[i].from \in Int /\ comp[i].to \in Int
                           /\ Span(comp[i]) \subseteq W
  <2> SUFFICES ASSUME NEW i \in 1 .. days
               PROVE  /\ comp[i].from \in Int /\ comp[i].to \in Int
                      /\ Span(comp[i]) \subseteq W
    OBVIOUS
  <2>1. today - days + i \in Int
    OBVIOUS
  <2> QED BY <1>2, <2>1
<1>7. \A i \in 1 .. days : BucketTotal(comp[i]) = Cardinality(DatesTicks(Span(comp[i])))
  BY <1>2
<1> QED BY <1>1, <1>3, <1>4, <1>5, <1>6, <1>7 DEF Divides

(* Weeks.                                                                  *)
LEMMA WeekFacts ==
  ASSUME NEW d \in Int
  PROVE  /\ MondayOf(d) \in Int /\ MondayOf(d) <= d /\ d <= MondayOf(d) + WeekDays - 1
         /\ MondayOf(MondayOf(d)) = MondayOf(d)
<1> DEFINE k == d \div WeekDays
           m == k * WeekDays
<1>1. WeekDays \in Nat \ {0}
  BY StatisticsConstants
<1>2. k \in Int /\ d % WeekDays \in 0 .. WeekDays - 1 /\ d = k * WeekDays + (d % WeekDays)
  BY <1>1, DivMod
<1> HIDE DEF k
<1>3. m \in Int
  BY <1>1, <1>2
<1>4. m \div WeekDays = k
  <2>1. m < (k + 1) * WeekDays
    BY <1>1, <1>2
  <2>2. m <= m
    BY <1>3
  <2> HIDE DEF m
  <2>3. m \div WeekDays \in Int /\ m \div WeekDays <= k
    BY <1>1, <1>2, <1>3, <2>1, InBucket
  <2>4. k <= m \div WeekDays
    BY <1>1, <1>2, <1>3, <2>2, InBucket DEF m
  <2> QED BY <1>2, <2>3, <2>4
<1>5. MondayOf(d) = m
  BY <1>1, <1>2 DEF MondayOf
<1>6. m % WeekDays = 0
  <2> HIDE DEF m
  <2>1. m = (m \div WeekDays) * WeekDays + (m % WeekDays) /\ m % WeekDays \in Int
    BY <1>1, <1>3, DivMod
  <2>2. m = m + (m % WeekDays)
    BY <1>4, <2>1 DEF m
  <2> QED BY <1>3, <2>1, <2>2
<1>7. d = m + (d % WeekDays)
  BY <1>2
<1> HIDE DEF m
<1>8. m <= d /\ d <= m + WeekDays - 1
  BY <1>1, <1>2, <1>3, <1>7
<1>9. MondayOf(m) = m
  BY <1>3, <1>6 DEF MondayOf
<1> QED BY <1>3, <1>5, <1>8, <1>9

LEMMA WeeksApart ==
  ASSUME NEW p \in Int, NEW q \in Int, MondayOf(p) = p, MondayOf(q) = q, p < q
  PROVE  p + WeekDays <= q
<1> DEFINE k == p \div WeekDays
           l == q \div WeekDays
<1>1. WeekDays \in Nat \ {0}
  BY StatisticsConstants
<1>2. /\ k \in Int /\ p % WeekDays \in Int /\ p = k * WeekDays + (p % WeekDays)
      /\ l \in Int /\ q % WeekDays \in Int /\ q = l * WeekDays + (q % WeekDays)
  BY <1>1, DivMod
<1>3. p % WeekDays = 0 /\ q % WeekDays = 0
  BY <1>2 DEF MondayOf
<1>4. p = k * WeekDays /\ q = l * WeekDays
  <2> DEFINE a == k * WeekDays
             b == l * WeekDays
  <2>1. a \in Int /\ b \in Int
    BY <1>1, <1>2
  <2>2. p = a + 0 /\ q = b + 0
    BY <1>2, <1>3
  <2> HIDE DEF a, b
  <2> QED BY <2>1, <2>2 DEF a, b
<1>5. ~(l <= k)
  <2>1. ~(l * WeekDays <= p)
    BY <1>4
  <2> HIDE DEF l
  <2> QED BY <1>1, <1>2, <2>1, InBucket
<1>6. k + 1 \in Int /\ k + 1 <= l
  BY <1>2, <1>5
<1>7. (k + 1) * WeekDays <= q
  <2> HIDE DEF k
  <2> QED BY <1>1, <1>6, InBucket
<1>8. (k + 1) * WeekDays = k * WeekDays + WeekDays
  <2> HIDE DEF k
  <2> QED BY <1>1, <1>2
<1> HIDE DEF k
<1> QED BY <1>4, <1>7, <1>8

LaterDates(S) == {p \in S \X S : p[1] < p[2]}

Ascending(S) == Ordered(S, LAMBDA p, q : p < q)

GoesUp(f, n, S) ==
  /\ n \in Nat /\ DOMAIN f = 1 .. n
  /\ \A i \in 1 .. n : f[i] \in S
  /\ \A i, j \in 1 .. n : i < j => f[i] < f[j]
  /\ \A x \in S : \E i \in 1 .. n : x = f[i]

LEMMA DatesOrdered ==
  ASSUME NEW S, IsFiniteSet(S), S \subseteq Int, NEW f, f = Ascending(S),
         NEW n, n = Cardinality(S)
  PROVE  GoesUp(f, n, S)
<1> DEFINE R == LaterDates(S)
           At(i) == CHOOSE x \in S : Cardinality({y \in S : y < x}) = i - 1
           rank == [x \in S |-> Cardinality({y \in S : y < x})]
<1>1. \A x, y \in S : <<y, x>> \in R <=> y < x
  BY DEF LaterDates
<1>2. StrictOrder(S, R)
  <2> HIDE DEF R
  <2>1. \A x, y \in S : x = y \/ <<x, y>> \in R \/ <<y, x>> \in R
    <3> SUFFICES ASSUME NEW x \in S, NEW y \in S
                 PROVE  x = y \/ <<x, y>> \in R \/ <<y, x>> \in R
      OBVIOUS
    <3>1. x \in Int /\ y \in Int
      OBVIOUS
    <3>2. x = y \/ x < y \/ y < x
      BY <3>1
    <3> QED BY <1>1, <3>2
  <2>2. \A x, y, z \in S : <<x, y>> \in R /\ <<y, z>> \in R => <<x, z>> \in R
    BY <1>1
  <2>3. \A x \in S : <<x, x>> \notin R
    BY <1>1
  <2> QED BY <2>1, <2>2, <2>3 DEF StrictOrder, LinearOrder
<1>3. f = [i \in 1 .. n |-> At(i)]
  BY DEF Ascending, Ordered
<1>4. Listing(f, n)
  <2> HIDE DEF At
  <2> QED BY <1>3 DEF Listing
<1>5. Ranked(S, R, rank, f)
  <2>1. ASSUME NEW x \in S
        PROVE  rank[x] = Cardinality(Below(S, R, x))
    <3>1. Below(S, R, x) = {y \in S : y < x}
      BY <1>1 DEF Below
    <3> QED BY <3>1
  <2>2. ASSUME NEW i \in 1 .. n, \E x \in S : rank[x] = i - 1
        PROVE  f[i] \in S /\ rank[f[i]] = i - 1
    <3> DEFINE Fits(x) == Cardinality({y \in S : y < x}) = i - 1
               z == CHOOSE x \in S : Fits(x)
    <3>1. \E x \in S : Fits(x)
      BY <2>2
    <3>2. z \in S /\ Fits(z)
      BY <3>1
    <3>3. f[i] = z
      BY <1>3
    <3>4. \A x \in S : rank[x] = i - 1 <=> Fits(x)
      OBVIOUS
    <3> HIDE DEF z, Fits, rank
    <3> QED BY <3>2, <3>3, <3>4
  <2> HIDE DEF R, rank
  <2> QED BY <2>1, <2>2 DEF Ranked
<1> HIDE DEF R, rank
<1>6. /\ n \in Nat /\ DOMAIN f = 1 .. n
      /\ \A i \in 1 .. n : f[i] \in S
      /\ \A i, j \in 1 .. n : i < j => <<f[i], f[j]>> \in R
      /\ \A x \in S : \E i \in 1 .. n : x = f[i]
  BY <1>2, <1>4, <1>5, OrderedAscends
<1>7. \A i, j \in 1 .. n : i < j => f[i] < f[j]
  BY <1>1, <1>6
<1> QED BY <1>6, <1>7 DEF GoesUp

WeekFrom(order, i, start) == Max({order[i], start})
WeekTo(order, i, today) == Min({order[i] + WeekDays - 1, today})

LEMMA WeeksDivide ==
  ASSUME PageHolds, NEW days \in Nat \ {0}, NEW today \in Int, NEW rows, NEW palette,
         SlotsIn(palette), NEW W, W = today - days + 1 .. today, RowsOf(rows, W),
         NEW comp, comp = WeekBuckets(rows, palette, db.recorded, days, today)
  PROVE  Divides(comp, W)
<1> DEFINE start == today - days + 1
           mondays == {d \in FirstMonday(start) .. today : MondayOf(d) = d}
           order == Ascending(mondays)
           n == Cardinality(mondays)
           low(i) == WeekFrom(order, i, start)
           high(i) == WeekTo(order, i, today)
<1>1. /\ DOMAIN comp = DOMAIN order
      /\ \A i \in DOMAIN order :
           comp[i] = Bucket(rows, low(i), high(i), palette, db.recorded, today)
  BY DEF WeekBuckets, Ascending, WeekFrom, WeekTo
<1>2. start \in Int /\ start <= today /\ WeekDays \in Nat \ {0}
  BY StatisticsConstants
<1>3. MondayOf(start) \in Int /\ MondayOf(start) <= start
  BY <1>2, WeekFacts
<1> HIDE DEF start
<1>4. IsFiniteSet(mondays) /\ mondays \subseteq Int
  <2>1. IsFiniteSet(FirstMonday(start) .. today)
    BY <1>3, FS_Interval DEF FirstMonday
  <2>2. mondays \subseteq FirstMonday(start) .. today
    OBVIOUS
  <2>3. FirstMonday(start) .. today \subseteq Int
    BY <1>3 DEF FirstMonday
  <2> HIDE DEF mondays
  <2> QED BY <2>1, <2>2, <2>3, FS_Subset
<1>5. \A d \in mondays : d \in Int /\ MondayOf(d) = d /\ d <= today /\ MondayOf(start) <= d
  BY <1>3, <1>4 DEF FirstMonday
<1>6. \A d \in Int : MondayOf(d) = d /\ d <= today /\ MondayOf(start) <= d => d \in mondays
  BY <1>3 DEF FirstMonday
<1> HIDE DEF mondays, order
<1>7. /\ n \in Nat /\ DOMAIN order = 1 .. n
      /\ \A i \in 1 .. n : order[i] \in mondays
      /\ \A i, j \in 1 .. n : i < j => order[i] < order[j]
      /\ \A x \in mondays : \E i \in 1 .. n : x = order[i]
  <2>1. n = Cardinality(mondays) /\ order = Ascending(mondays)
    BY DEF order
  <2> HIDE DEF n
  <2>2. GoesUp(order, n, mondays)
    BY <1>4, <2>1, DatesOrdered
  <2> QED BY <2>2 DEF GoesUp
<1> HIDE DEF n
<1>8. ASSUME NEW i \in 1 .. n
      PROVE  /\ low(i) \in Int /\ high(i) \in Int /\ order[i] \in Int
             /\ start <= low(i) /\ order[i] <= low(i)
             /\ high(i) <= today /\ high(i) <= order[i] + WeekDays - 1
             /\ \A x \in Int : start <= x /\ order[i] <= x => low(i) <= x
             /\ \A x \in Int : x <= today /\ x <= order[i] + WeekDays - 1 => x <= high(i)
  <2>1. order[i] \in Int /\ order[i] + WeekDays - 1 \in Int
    BY <1>2, <1>5, <1>7
  <2>2. low(i) \in {order[i], start} /\ order[i] <= low(i) /\ start <= low(i)
    BY <1>2, <2>1, MaxOfTwo DEF WeekFrom
  <2> DEFINE e == order[i] + WeekDays - 1
  <2>3. e \in Int
    BY <2>1
  <2> HIDE DEF e
  <2>4. Min({e, today}) \in {e, today} /\ Min({e, today}) <= e /\ Min({e, today}) <= today
    BY <2>3, MinOfTwo
  <2>5. high(i) = Min({e, today})
    BY DEF WeekTo, e
  <2>6. high(i) \in {e, today} /\ high(i) <= e /\ high(i) <= today
    BY <2>4, <2>5
  <2>7. e = order[i] + WeekDays - 1
    BY DEF e
  <2> HIDE DEF low, high
  <2> QED BY <1>2, <2>1, <2>2, <2>3, <2>6, <2>7
<1> HIDE DEF low, high
<1>9. ASSUME NEW i \in 1 .. n
      PROVE  /\ comp[i].from = low(i) /\ comp[i].to = high(i)
             /\ Span(comp[i]) = low(i) .. high(i)
             /\ Span(comp[i]) \subseteq W
             /\ BucketTotal(comp[i]) = Cardinality(DatesTicks(Span(comp[i])))
  <2>1. comp[i] = Bucket(rows, low(i), high(i), palette, db.recorded, today)
    BY <1>1, <1>7
  <2>2. comp[i].from = low(i) /\ comp[i].to = high(i)
    BY <2>1 DEF Bucket
  <2>3. low(i) .. high(i) \subseteq W
    BY <1>2, <1>8 DEF start
  <2>4. RowsOf(rows, low(i) .. high(i))
    BY <2>3 DEF RowsOf
  <2>5. BucketOf(comp[i], rows, low(i), high(i), palette)
    BY <2>1 DEF BucketOf
  <2>6. low(i) \in Int /\ high(i) \in Int
    BY <1>8
  <2>7. BucketTotal(comp[i]) = Cardinality(DatesTicks(low(i) .. high(i)))
    BY <2>4, <2>5, <2>6, BucketOfCounts
  <2> QED BY <2>2, <2>3, <2>7 DEF Span
<1>10. IsFiniteSet(DOMAIN comp)
  BY <1>1, <1>7, FS_Interval
<1>11. \A i, j \in 1 .. n : i < j => Span(comp[i]) \cap Span(comp[j]) = {}
  <2> SUFFICES ASSUME NEW i \in 1 .. n, NEW j \in 1 .. n, i < j
               PROVE  Span(comp[i]) \cap Span(comp[j]) = {}
    OBVIOUS
  <2>1. order[i] < order[j] /\ order[i] \in mondays /\ order[j] \in mondays
    BY <1>7
  <2>2. /\ order[i] \in Int /\ MondayOf(order[i]) = order[i]
        /\ order[j] \in Int /\ MondayOf(order[j]) = order[j]
    BY <1>5, <2>1
  <2>3. order[i] + WeekDays <= order[j]
    BY <2>1, <2>2, WeeksApart
  <2>4. high(i) < low(j)
    <3>1. high(i) \in Int /\ high(i) <= order[i] + WeekDays - 1
      BY <1>8
    <3>2. low(j) \in Int /\ order[j] <= low(j)
      BY <1>8
    <3> QED BY <1>2, <2>2, <2>3, <3>1, <3>2
  <2>5. high(i) \in Int /\ low(j) \in Int /\ low(i) \in Int /\ high(j) \in Int
    BY <1>8
  <2>6. Span(comp[i]) = low(i) .. high(i) /\ Span(comp[j]) = low(j) .. high(j)
    BY <1>9
  <2> QED BY <2>4, <2>5, <2>6
<1>12. \A i, j \in 1 .. n : i # j => Span(comp[i]) \cap Span(comp[j]) = {}
  <2> SUFFICES ASSUME NEW i \in 1 .. n, NEW j \in 1 .. n, i # j
               PROVE  Span(comp[i]) \cap Span(comp[j]) = {}
    OBVIOUS
  <2>1. i < j \/ j < i
    BY <1>7
  <2> QED BY <1>11, <2>1
<1>13. ASSUME NEW x \in W
       PROVE  \E i \in 1 .. n : x \in Span(comp[i])
  <2>1. x \in Int /\ start <= x /\ x <= today
    BY <1>2 DEF start
  <2> DEFINE m == MondayOf(x)
  <2>2. m \in Int /\ m <= x /\ x <= m + WeekDays - 1 /\ MondayOf(m) = m
    BY <2>1, WeekFacts
  <2> HIDE DEF m
  <2>3. MondayOf(start) <= m
    <3> DEFINE k == MondayOf(start)
    <3>1. k \in Int /\ k <= start /\ MondayOf(k) = k
      BY <1>2, WeekFacts
    <3> HIDE DEF k
    <3>2. m < k => m + WeekDays <= k
      BY <2>2, <3>1, WeeksApart
    <3>3. ~(m < k)
      BY <1>2, <2>1, <2>2, <3>1, <3>2
    <3> QED BY <2>2, <3>1, <3>3 DEF k
  <2>4. m \in mondays
    BY <1>2, <1>6, <2>1, <2>2, <2>3
  <2>5. PICK i \in 1 .. n : m = order[i]
    BY <1>7, <2>4
  <2>6. low(i) <= x /\ x <= high(i) /\ low(i) \in Int /\ high(i) \in Int
    BY <1>8, <2>1, <2>2, <2>5
  <2>7. x \in Span(comp[i])
    BY <1>9, <2>1, <2>6
  <2> QED BY <2>7
<1>14. \A i \in 1 .. n : /\ comp[i].from \in Int /\ comp[i].to \in Int
                         /\ Span(comp[i]) \subseteq W
                         /\ BucketTotal(comp[i]) = Cardinality(DatesTicks(Span(comp[i])))
  BY <1>8, <1>9
<1> QED BY <1>1, <1>7, <1>10, <1>12, <1>13, <1>14 DEF Divides

LEMMA CompositionDivides ==
  ASSUME PageHolds, NEW days \in Nat \ {0}, NEW today \in Int,
         NEW W, W = today - days + 1 .. today, NEW comp, comp = Composition(days, today)
  PROVE  Divides(comp, W)
<1> DEFINE rows == [d \in W |-> [a \in Apps |-> ActiveOn(d, a)]]
           used == UNION {UsedOn(d) : d \in W}
           total == [a \in used |-> ActiveSum(a, W)]
           palette == Palette(total)
<1>1. comp = IF days = WeekRange THEN WeekBuckets(rows, palette, db.recorded, days, today)
             ELSE DayBuckets(rows, palette, db.recorded, days, today)
  BY DEF Composition, ActiveSum
<1>2. RowsOf(rows, W)
  BY DEF RowsOf
<1>3. IsFiniteSet(W) /\ W \subseteq Int
  BY FS_Interval
<1>4. used \subseteq Apps
  BY DEF UsedOn
<1>5. DOMAIN total = used
  OBVIOUS
<1>6. \A a \in used : total[a] = ActiveSum(a, W)
  OBVIOUS
<1>7. palette = Palette(total)
  OBVIOUS
<1> HIDE DEF rows, used, total, palette
<1>8. \A a \in used : total[a] \in Nat
  BY <1>3, <1>4, <1>6, TotalsNatural
<1>9. \A i \in DOMAIN palette : palette[i] \in used
  BY <1>4, <1>5, <1>7, <1>8, PaletteSlots
<1>10. SlotsIn(palette)
  BY <1>4, <1>9 DEF SlotsIn
<1>11. CASE days = WeekRange
  <2>1. comp = WeekBuckets(rows, palette, db.recorded, days, today)
    BY <1>1, <1>11
  <2> QED BY <1>2, <1>10, <2>1, WeeksDivide
<1>12. CASE days # WeekRange
  <2>1. comp = DayBuckets(rows, palette, db.recorded, days, today)
    BY <1>1, <1>12
  <2> QED BY <1>2, <1>10, <2>1, DaysDivide
<1> QED BY <1>11, <1>12

(* Every bucket holds the time of its bars.                                *)
LEMMA BucketsAreBars ==
  ASSUME PageHolds, NEW W, NEW comp, Divides(comp, W), NEW i \in DOMAIN comp
  PROVE  BucketTotal(comp[i]) = BarSum(comp[i].from .. comp[i].to)
<1> DEFINE S == Span(comp[i])
<1>1. S = comp[i].from .. comp[i].to
  BY DEF Span
<1>2. comp[i].from \in Int /\ comp[i].to \in Int /\ BucketTotal(comp[i]) = Cardinality(DatesTicks(S))
  BY DEF Divides
<1>3. IsFiniteSet(S) /\ S \subseteq Int
  BY <1>1, <1>2, FS_Interval
<1> HIDE DEF S
<1>4. BarSum(S) = Cardinality(DatesTicks(S))
  BY <1>3, BarSumCounts
<1> QED BY <1>1, <1>2, <1>4

(* All buckets hold the time of the window.                                *)
LEMMA BucketsAddUp ==
  ASSUME PageHolds, NEW W, NEW comp, Divides(comp, W)
  PROVE  BucketSum(comp) = Cardinality(DatesTicks(W))
<1> DEFINE S == DOMAIN comp
           h == [i \in S |-> BucketTotal(comp[i])]
           F == [i \in S |-> DatesTicks(Span(comp[i]))]
<1>1. /\ \A i \in S : h[i] = BucketTotal(comp[i])
      /\ \A i \in S : F[i] = DatesTicks(Span(comp[i]))
      /\ S = DOMAIN comp
  OBVIOUS
<1> HIDE DEF S, h, F
<1>2. IsFiniteSet(S)
  BY <1>1 DEF Divides
<1>3. ASSUME NEW i \in S
      PROVE  IsFiniteSet(F[i]) /\ h[i] = Cardinality(F[i])
  <2>1. DatesTicks(Span(comp[i])) \subseteq AllTicks
    BY DEF DatesTicks
  <2>2. IsFiniteSet(DatesTicks(Span(comp[i])))
    BY <2>1, AllTicksFinite
  <2> QED BY <1>1, <2>2 DEF Divides
<1>4. ASSUME NEW i \in S, NEW j \in S, i # j
      PROVE  F[i] \cap F[j] = {}
  <2>1. Span(comp[i]) \cap Span(comp[j]) = {}
    BY <1>1, <1>4 DEF Divides
  <2> QED BY <1>1, <2>1 DEF DatesTicks
<1>5. Counts(h, F, S)
  BY <1>3, <1>4 DEF Counts
<1>6. SumOf(h, S) = Cardinality(Family(F, S))
  BY <1>2, <1>5, FamilySum
<1>7. Family(F, S) = DatesTicks(W)
  <2>1. ASSUME NEW it \in DatesTicks(W)
        PROVE  it \in Family(F, S)
    <3>1. it \in AllTicks /\ DateOf(it[2]) \in W
      BY DEF DatesTicks
    <3>2. PICK i \in S : DateOf(it[2]) \in Span(comp[i])
      BY <1>1, <3>1 DEF Divides
    <3>3. it \in F[i]
      BY <1>1, <3>1, <3>2 DEF DatesTicks
    <3> QED BY <3>3 DEF Family
  <2>2. ASSUME NEW it \in Family(F, S)
        PROVE  it \in DatesTicks(W)
    <3>1. PICK i \in S : it \in F[i]
      BY DEF Family
    <3>2. it \in AllTicks /\ DateOf(it[2]) \in Span(comp[i])
      BY <1>1, <3>1 DEF DatesTicks
    <3>3. Span(comp[i]) \subseteq W
      BY <1>1 DEF Divides
    <3> QED BY <3>2, <3>3 DEF DatesTicks
  <2> QED BY <2>1, <2>2
<1>8. BucketSum(comp) = SumOf(h, S)
  BY <1>1, BucketSumOf
<1> QED BY <1>6, <1>7, <1>8

(* The heat map, in a zone of whole hours.                                 *)
WholeHours == ZoneOffset % HourTicks = 0

LEMMA DayOfHours ==
  ASSUME WholeHours, NEW d \in Int
  PROVE  \E p \in Int : DayStart(d) = p * HourTicks
<1> DEFINE n == HourTicks
           b == ZoneOffset \div n
           s == DaySize
<1>1. n \in Nat \ {0} /\ ZoneOffset \in Int /\ s \in Int /\ DayTicks = s * n
  <2>1. DayTicks \in Nat \ {0} /\ HourTicks \in Nat \ {0} /\ DayTicks % HourTicks = 0
    BY ProjectionConstants, StatisticsConstants
  <2>2. DaySize \in Int /\ DayTicks = DaySize * HourTicks
    BY <2>1, DivMod DEF DaySize
  <2> QED BY <2>1, <2>2, ProjectionConstants
<1>2. ZoneOffset % n = 0
  BY DEF WholeHours
<1> HIDE DEF n, s
<1>3. b \in Int /\ ZoneOffset = b * n + (ZoneOffset % n)
  BY <1>1, DivMod
<1>4. b \in Int /\ ZoneOffset = b * n
  <2>1. b * n \in Int
    BY <1>1, <1>3
  <2> HIDE DEF b
  <2> QED BY <1>2, <1>3, <2>1
<1> HIDE DEF b
<1>5. d * DayTicks - ZoneOffset = (d * s - b) * n
  <2>1. d * (s * n) = (d * s) * n
    BY <1>1
  <2>2. (d * s - b) * n = (d * s) * n - b * n
    <3> DEFINE e == d * s
    <3>1. e \in Int
      BY <1>1
    <3> HIDE DEF e
    <3>2. (e - b) * n = e * n - b * n
      BY <1>1, <1>4, <3>1
    <3> QED BY <3>2 DEF e
  <2> QED BY <1>1, <1>4, <2>1, <2>2
<1>6. d * s - b \in Int
  BY <1>1, <1>4
<1> QED BY <1>5, <1>6 DEF DayStart, n

(* An hour of the zone lies in one date: the one its start lies in.        *)
LEMMA HourDate ==
  ASSUME WholeHours, NEW k \in Int
  PROVE  DateOf(HourOf(k) * HourTicks) = DateOf(k)
<1> DEFINE u == HourOf(k)
           t == u * HourTicks
           d == DateOf(k)
<1>1. u \in Int /\ t \in Int /\ HourTicks \in Nat \ {0} /\ d \in Int
  <2>1. HourTicks \in Nat \ {0}
    BY ProjectionConstants
  <2>2. u \in Int /\ d \in Int
    BY <2>1, InBucket, InDate DEF HourOf
  <2> HIDE DEF u
  <2> QED BY <2>1, <2>2
<1>2. DayStart(d) <= k /\ k < DayEnd(d)
  BY <1>1, InDate
<1>3. t <= k
  BY <1>1, InHour
<1>4. PICK p \in Int : DayStart(d) = p * HourTicks
  BY <1>1, DayOfHours
<1>5. p <= u
  <2>1. p * HourTicks <= k
    BY <1>2, <1>4
  <2> QED BY <1>1, <2>1, InBucket DEF HourOf
<1>6. p * HourTicks <= t
  <2> HIDE DEF u, t
  <2>1. t \div HourTicks = u
    <3>1. HourOf(t) = u <=> u * HourTicks <= t /\ t < (u + 1) * HourTicks
      BY <1>1, InHour
    <3>2. (u + 1) * HourTicks = u * HourTicks + HourTicks
      BY <1>1
    <3>3. t = u * HourTicks
      BY DEF t
    <3> QED BY <1>1, <3>1, <3>2, <3>3 DEF HourOf
  <2> QED BY <1>1, <1>5, <2>1, InBucket
<1>7. DayStart(d) <= t /\ t < DayEnd(d)
  <2>1. DayStart(d) \in Int /\ DayEnd(d) \in Int
    BY <1>1, InDate
  <2> HIDE DEF d, t
  <2> QED BY <1>1, <1>2, <1>3, <1>4, <1>6, <2>1
<1> HIDE DEF d, t
<1>8. DateOf(t) = d
  BY <1>1, <1>7, InDate
<1> QED BY <1>8 DEF d, t

LEMMA LocalHourIs ==
  ASSUME WholeHours, NEW u \in Int, NEW p \in Int, DayStart(DateOf(u * HourTicks)) = p * HourTicks
  PROVE  LocalHour(u) = u - p
<1> DEFINE n == HourTicks
           t == u * n + ZoneOffset
           d == t \div DayTicks
<1>1. n \in Nat \ {0} /\ DayTicks \in Nat \ {0} /\ ZoneOffset \in Int
  BY ProjectionConstants
<1>2. u * n \in Int
  BY <1>1
<1>3. t \in Int
  BY <1>1, <1>2
<1>4. d \in Int /\ t % DayTicks \in Int /\ t = d * DayTicks + (t % DayTicks)
  <2> HIDE DEF t
  <2> QED BY <1>1, <1>3, DivMod
<1>5. d * DayTicks - ZoneOffset = p * n
  BY DEF DayStart, DateOf
<1>6. t % DayTicks = u * n - p * n
  <2> DEFINE e == d * DayTicks
             r == t % DayTicks
             v == u * n
             w == p * n
  <2>1. e \in Int /\ r \in Int /\ v \in Int /\ w \in Int
    BY <1>1, <1>4
  <2>2. v + ZoneOffset = e + r /\ e - ZoneOffset = w
    BY <1>4, <1>5
  <2> HIDE DEF e, r, v, w
  <2>3. r = v - w
    BY <1>1, <2>1, <2>2
  <2> QED BY <2>3 DEF r, v, w
<1>7. u * n - p * n = (u - p) * n
  BY <1>1
<1>8. ((u - p) * n) \div n = u - p
  <2> DEFINE c == u - p
             e == c * n
  <2>1. c \in Int
    OBVIOUS
  <2> HIDE DEF c
  <2>2. e \in Int /\ c * n <= e /\ e < (c + 1) * n
    BY <1>1, <2>1
  <2> HIDE DEF n, e
  <2>3. e \div n \in Int /\ e \div n <= c /\ c <= e \div n
    BY <1>1, <2>1, <2>2, InBucket
  <2>4. e \div n = c
    BY <2>1, <2>3
  <2> QED BY <2>4 DEF c, e
<1>9. LocalHour(u) = (t % DayTicks) \div n
  BY DEF LocalHour
<1> HIDE DEF t
<1> QED BY <1>6, <1>7, <1>8, <1>9

LEMMA OneCell ==
  ASSUME WholeHours, NEW u \in Int, NEW v \in Int,
         DateOf(u * HourTicks) = DateOf(v * HourTicks), LocalHour(u) = LocalHour(v)
  PROVE  u = v
<1> DEFINE d == DateOf(u * HourTicks)
<1>1. HourTicks \in Int
  BY ProjectionConstants
<1>2. u * HourTicks \in Int
  BY <1>1
<1>3. d \in Int
  BY <1>2, InDate
<1>4. PICK p \in Int : DayStart(d) = p * HourTicks
  BY <1>3, DayOfHours
<1>5. LocalHour(u) = u - p /\ LocalHour(v) = v - p
  BY <1>4, LocalHourIs
<1>6. u - p = v - p
  BY <1>5
<1> HIDE DEF d
<1> QED BY <1>6, SMT

HoursShown(W) ==
  UNION {{h \in HoursOn(d) : \E st \in States : HourTotal(h, st) > 0} : d \in W}

CellOf(u, most) ==
  [date |-> DateOf(u * HourTicks), hour |-> LocalHour(u), active |-> HourTotal(u, "active"),
   level |-> Intensity(HourTotal(u, "active"), most)]

InCell(cell) ==
  {it \in AllTicks : /\ DateOf(HourOf(it[2]) * HourTicks) = cell.date
                     /\ LocalHour(HourOf(it[2])) = cell.hour}

CellsOf(cells, W, most) == cells = {CellOf(u, most) : u \in HoursShown(W)}

LEMMA PresentHour ==
  ASSUME NEW x \in Present
  PROVE  HourOf(x) \in Hours
<1> DEFINE p == 0 \div HourTicks
           q == x \div HourTicks
           r == MaxUtc \div HourTicks
<1>1. HourTicks \in Nat \ {0} /\ MaxUtc \in Int /\ x \in Int /\ 0 <= x /\ x <= MaxUtc
  BY ProjectionConstants, EngineConstants DEF Present
<1>2. p \in Int /\ q \in Int /\ r \in Int
  BY <1>1, InBucket
<1>3. p * HourTicks <= 0 /\ q * HourTicks <= x
  <2> HIDE DEF p, q
  <2>1. p <= p /\ q <= q
    BY <1>2
  <2> QED BY <1>1, <1>2, <2>1, InBucket DEF p, q
<1>4. p * HourTicks \in Int /\ q * HourTicks \in Int
  <2> HIDE DEF p, q
  <2> QED BY <1>1, <1>2
<1>5. p * HourTicks <= x /\ q * HourTicks <= MaxUtc
  <2> HIDE DEF p, q
  <2> QED BY <1>1, <1>3, <1>4
<1>6. p <= q
  <2> HIDE DEF p
  <2> QED BY <1>1, <1>2, <1>5, InBucket
<1>7. q <= r
  <2> HIDE DEF q
  <2> QED BY <1>1, <1>2, <1>5, InBucket
<1>8. HourOf(0) = p /\ HourOf(x) = q /\ HourOf(MaxUtc) = r
  BY DEF HourOf
<1> HIDE DEF p, q, r
<1> QED BY <1>2, <1>6, <1>7, <1>8 DEF Hours

LEMMA HoursShownAre ==
  ASSUME PageHolds, WholeHours, NEW W, W \subseteq Int
  PROVE  /\ HoursShown(W) \subseteq Hours /\ IsFiniteSet(HoursShown(W))
         /\ \A u \in HoursShown(W) : u \in Int /\ DateOf(u * HourTicks) \in W
         /\ \A it \in DatesTicks(W) : HourOf(it[2]) \in HoursShown(W)
<1>1. HoursShown(W) \subseteq Hours
  BY DEF HoursShown, HoursOn
<1>2. HourOf(0) \in Int /\ HourOf(MaxUtc) \in Int
  BY EngineConstants, InHour
<1>3. IsFiniteSet(Hours) /\ Hours \subseteq Int
  BY <1>2, FS_Interval DEF Hours
<1>4. \A u \in HoursShown(W) : DateOf(u * HourTicks) \in W
  BY DEF HoursShown, HoursOn
<1>5. ASSUME NEW it \in DatesTicks(W)
      PROVE  HourOf(it[2]) \in HoursShown(W)
  <2> DEFINE u == HourOf(it[2])
  <2>1. it \in AllTicks /\ DateOf(it[2]) \in W
    BY DEF DatesTicks
  <2>2. it[2] \in Present /\ it[2] \in Int
    BY <2>1, TickIs
  <2>3. u \in Hours
    BY <2>2, PresentHour
  <2>4. DateOf(u * HourTicks) = DateOf(it[2])
    BY <2>2, HourDate
  <2>5. it \in HourTicksOf(u)
    BY <2>1 DEF HourTicksOf
  <2> HIDE DEF u
  <2>6. HourTotal(u, "active") = Cardinality(HourTicksOf(u)) /\ HourTotal(u, "active") \in Nat
    BY <2>3, HourCounts
  <2>7. IsFiniteSet(HourTicksOf(u))
    <3>1. HourTicksOf(u) \subseteq AllTicks
      BY DEF HourTicksOf
    <3> QED BY <3>1, AllTicksFinite
  <2>8. Cardinality(HourTicksOf(u)) # 0
    BY <2>5, <2>7, FS_EmptySet
  <2>9. HourTotal(u, "active") > 0
    BY <2>6, <2>8
  <2>10. "active" \in States
    BY DEF States
  <2>11. u \in HoursOn(DateOf(it[2]))
    BY <2>3, <2>4 DEF HoursOn
  <2> QED BY <2>1, <2>9, <2>10, <2>11 DEF HoursShown, u
<1>6. IsFiniteSet(HoursShown(W))
  BY <1>1, <1>3, FS_Subset
<1> QED BY <1>1, <1>3, <1>4, <1>5, <1>6

LEMMA CellsAddUp ==
  ASSUME PageHolds, WholeHours, NEW W, W \subseteq Int, NEW most,
         NEW cells, CellsOf(cells, W, most)
  PROVE  CellSum(cells) = Cardinality(DatesTicks(W))
<1> DEFINE f == [u \in HoursShown(W) |-> CellOf(u, most)]
           h == [cell \in cells |-> cell.active]
           F == [cell \in cells |-> InCell(cell)]
<1>1. /\ cells = {f[u] : u \in HoursShown(W)}
      /\ \A u \in HoursShown(W) : f[u] = CellOf(u, most)
      /\ \A cell \in cells : h[cell] = cell.active /\ F[cell] = InCell(cell)
  BY DEF CellsOf
<1> HIDE DEF f, h, F
<1>2. IsFiniteSet(cells)
  <2>1. IsFiniteSet(HoursShown(W))
    BY HoursShownAre
  <2> QED BY <1>1, <2>1, ImageFinite
<1>3. ASSUME NEW u \in HoursShown(W), NEW cell, cell = CellOf(u, most)
      PROVE  InCell(cell) = HourTicksOf(u) /\ cell.active = Cardinality(HourTicksOf(u))
  <2>1. /\ cell.date = DateOf(u * HourTicks) /\ cell.hour = LocalHour(u)
        /\ cell.active = HourTotal(u, "active")
    BY <1>3 DEF CellOf
  <2>2. u \in Int /\ u \in Hours
    BY HoursShownAre
  <2>3. HourTotal(u, "active") = Cardinality(HourTicksOf(u))
    BY <2>2, HourCounts
  <2>4. ASSUME NEW it \in AllTicks
        PROVE  it \in InCell(cell) <=> it \in HourTicksOf(u)
    <3> DEFINE v == HourOf(it[2])
    <3>1. v \in Int
      BY TickIs, InHour
    <3> HIDE DEF v
    <3>2. DateOf(v * HourTicks) = cell.date /\ LocalHour(v) = cell.hour <=> v = u
      BY <2>1, <2>2, <3>1, OneCell
    <3> QED BY <3>2 DEF InCell, HourTicksOf, v
  <2>5. InCell(cell) \subseteq AllTicks /\ HourTicksOf(u) \subseteq AllTicks
    BY DEF InCell, HourTicksOf
  <2> QED BY <2>1, <2>3, <2>4, <2>5
<1>4. \A cell \in cells : \E u \in HoursShown(W) : cell = CellOf(u, most)
  BY <1>1
<1>5. ASSUME NEW cell \in cells
      PROVE  IsFiniteSet(F[cell]) /\ h[cell] = Cardinality(F[cell])
  <2>1. PICK u \in HoursShown(W) : cell = CellOf(u, most)
    BY <1>4
  <2>2. InCell(cell) = HourTicksOf(u) /\ cell.active = Cardinality(HourTicksOf(u))
    BY <1>3, <2>1
  <2>3. InCell(cell) \subseteq AllTicks
    BY DEF InCell
  <2> QED BY <1>1, <2>2, <2>3, AllTicksFinite
<1>6. ASSUME NEW c \in cells, NEW d \in cells, c # d
      PROVE  F[c] \cap F[d] = {}
  <2>1. PICK u \in HoursShown(W) : c = CellOf(u, most)
    BY <1>4
  <2>2. PICK v \in HoursShown(W) : d = CellOf(v, most)
    BY <1>4
  <2>3. u # v
    BY <1>6, <2>1, <2>2
  <2>4. InCell(c) = HourTicksOf(u) /\ InCell(d) = HourTicksOf(v)
    BY <1>3, <2>1, <2>2
  <2>5. HourTicksOf(u) \cap HourTicksOf(v) = {}
    BY <2>3 DEF HourTicksOf
  <2> QED BY <1>1, <2>4, <2>5
<1>7. Counts(h, F, cells)
  BY <1>5, <1>6 DEF Counts
<1>8. SumOf(h, cells) = Cardinality(Family(F, cells))
  BY <1>2, <1>7, FamilySum
<1>9. Family(F, cells) = DatesTicks(W)
  <2>1. ASSUME NEW it \in DatesTicks(W)
        PROVE  it \in Family(F, cells)
    <3> DEFINE u == HourOf(it[2])
               cell == CellOf(u, most)
    <3>1. u \in HoursShown(W) /\ it \in HourTicksOf(u)
      BY HoursShownAre DEF DatesTicks, HourTicksOf
    <3> HIDE DEF u
    <3>2. cell \in cells
      BY <1>1, <3>1
    <3>3. InCell(cell) = HourTicksOf(u)
      BY <1>3, <3>1
    <3> HIDE DEF cell
    <3>4. it \in F[cell]
      BY <1>1, <3>1, <3>2, <3>3
    <3> QED BY <3>2, <3>4 DEF Family
  <2>2. ASSUME NEW it \in Family(F, cells)
        PROVE  it \in DatesTicks(W)
    <3>1. PICK cell \in cells : it \in F[cell]
      BY DEF Family
    <3>2. PICK u \in HoursShown(W) : cell = CellOf(u, most)
      BY <1>4
    <3>3. it \in HourTicksOf(u)
      BY <1>1, <1>3, <3>1, <3>2
    <3>4. it \in AllTicks /\ HourOf(it[2]) = u
      BY <3>3 DEF HourTicksOf
    <3>5. it[2] \in Int
      BY <3>4, TickIs
    <3>6. DateOf(it[2]) = DateOf(u * HourTicks)
      BY <3>4, <3>5, HourDate
    <3>7. DateOf(u * HourTicks) \in W
      BY HoursShownAre
    <3> QED BY <3>4, <3>6, <3>7 DEF DatesTicks
  <2> QED BY <2>1, <2>2
<1>10. CellSum(cells) = SumOf(h, cells)
  BY <1>1, CellSumOf
<1> QED BY <1>8, <1>9, <1>10

LEMMA HeatmapAddsUp ==
  ASSUME PageHolds, WholeHours, NEW days \in Nat \ {0}, NEW today \in Int,
         NEW W, W = today - days + 1 .. today
  PROVE  CellSum(Heatmap(today, days, 0)) = Cardinality(DatesTicks(W))
<1> DEFINE cells == Heatmap(today, days, 0)
           end == today + 0 * WeekDays
           most == Max({0} \cup {HourTotal(h, "active") : h \in HoursShown(W)})
<1>1. end = today
  BY StatisticsConstants
<1>2. cells = {CellOf(u, most) : u \in HoursShown(W)}
  <2>1. HoursShown(end - days + 1 .. end) = HoursShown(W)
    BY <1>1
  <2> QED BY <2>1 DEF Heatmap, HoursShown, CellOf
<1>3. CellsOf(cells, W, most)
  BY <1>2 DEF CellsOf
<1>4. W \subseteq Int
  OBVIOUS
<1> HIDE DEF cells, most
<1>5. CellSum(cells) = Cardinality(DatesTicks(W))
  BY <1>3, <1>4, CellsAddUp
<1> QED BY <1>5 DEF cells

LEMMA HomeIs ==
  ASSUME NEW days, NEW now, NEW today, today = DateOf(now), NEW home, home = Home(days, now)
  PROVE  /\ home.trend = Trend(RowsFor(days, today), days, now)
         /\ home.live = Live(now) /\ home.week = WeekProgress(now)
         /\ home.weekly = Weekly(now) /\ home.composition = Composition(days, today)
         /\ home.summary = Summary(RowsFor(days, today), today)
BY DEF Home, RowsFor

LEMMA StatusIs ==
  ASSUME NEW now
  PROVE  Status(now).live = Live(now) /\ Status(now).week = WeekProgress(now)
BY DEF Status

(* ViewsAgree, for one range of days.                                      *)
PageAgrees(days, now) ==
  LET home == Home(days, now)
      status == Status(now)
  IN  /\ home.trend[days] = status.today
      /\ home.live = status.live /\ home.week = status.week
      /\ home.weekly[Weeks].active = home.week.active
      /\ \A i \in DOMAIN home.composition :
           BucketTotal(home.composition[i])
             = BarSum(home.composition[i].from .. home.composition[i].to)
      /\ WholeHours =>
           BucketSum(home.composition) = CellSum(Heatmap(DateOf(now), days, 0))
      /\ \A many \in Ranges : many > days =>
           /\ home.summary = Home(many, now).summary
           /\ \A i \in 1 .. days : home.trend[i] = Home(many, now).trend[many - days + i]

LEMMA PageHoldsTogether ==
  ASSUME PageHolds, NEW days \in Ranges, NEW now \in Int
  PROVE  PageAgrees(days, now)
<1> DEFINE today == DateOf(now)
           home == Home(days, now)
           comp == home.composition
           W == today - days + 1 .. today
<1>1. today \in Int /\ Weeks \in Nat \ {0} /\ \A r \in Ranges : r \in Nat \ {0}
  BY InDate, ReadConstants
<1>2. days \in Nat \ {0}
  BY <1>1
<1>3. /\ home.trend = Trend(RowsFor(days, today), days, now)
      /\ home.live = Live(now) /\ home.week = WeekProgress(now)
      /\ home.weekly = Weekly(now) /\ comp = Composition(days, today)
      /\ home.summary = Summary(RowsFor(days, today), today)
  BY HomeIs
<1>4. \A r \in Ranges : \A k \in 1 .. r :
        Home(r, now).trend[k] = TrendShown(today - r + k, now)
  <2> SUFFICES ASSUME NEW r \in Ranges, NEW k \in 1 .. r
               PROVE  Home(r, now).trend[k] = TrendShown(today - r + k, now)
    OBVIOUS
  <2>1. Home(r, now).trend = Trend(RowsFor(r, today), r, now)
    BY HomeIs
  <2>2. r \in Nat \ {0}
    BY <1>1
  <2> QED BY <1>1, <2>1, <2>2, TrendSame
<1>5. \A r \in Ranges : Home(r, now).summary = SummaryShown(today)
  <2> SUFFICES ASSUME NEW r \in Ranges
               PROVE  Home(r, now).summary = SummaryShown(today)
    OBVIOUS
  <2>1. Home(r, now).summary = Summary(RowsFor(r, today), today)
    BY HomeIs
  <2>2. r \in Nat \ {0}
    BY <1>1
  <2> QED BY <1>1, <2>1, <2>2, SummarySame
<1>6. home.weekly[Weeks].active = home.week.active
  <2>1. Weeks \in 1 .. Weeks
    BY <1>1
  <2>2. Weekly(now)[Weeks].active = CurrentWeek(now).active
    BY <2>1 DEF Weekly
  <2>3. WeekProgress(now).active = CurrentWeek(now).active
    BY DEF WeekProgress
  <2> QED BY <1>3, <2>2, <2>3
<1> HIDE DEF home, today
<1>7. home.trend[days] = Status(now).today
  <2>1. days \in 1 .. days /\ today - days + days = today
    BY <1>1, <1>2
  <2>2. home.trend[days] = TrendShown(today - days + days, now)
    BY <1>4, <2>1 DEF home
  <2>3. home.trend[days] = TrendShown(today, now)
    BY <2>1, <2>2
  <2>4. Status(now).today = TrendShown(today, now)
    BY <1>1, StatusSame DEF today
  <2> QED BY <2>3, <2>4
<1> HIDE DEF W
<1>8. W = today - days + 1 .. today
  BY DEF W
<1>9. Divides(comp, W)
  <2> HIDE DEF comp
  <2>1. comp = Composition(days, today)
    BY <1>3
  <2> QED BY <1>1, <1>2, <1>8, <2>1, CompositionDivides
<1>10. \A i \in DOMAIN comp : BucketTotal(comp[i]) = BarSum(comp[i].from .. comp[i].to)
  <2> HIDE DEF comp
  <2> QED BY <1>9, BucketsAreBars
<1>11. WholeHours => BucketSum(comp) = CellSum(Heatmap(today, days, 0))
  <2> HIDE DEF comp
  <2> SUFFICES ASSUME WholeHours PROVE BucketSum(comp) = CellSum(Heatmap(today, days, 0))
    OBVIOUS
  <2>1. BucketSum(comp) = Cardinality(DatesTicks(W))
    BY <1>9, BucketsAddUp
  <2>2. CellSum(Heatmap(today, days, 0)) = Cardinality(DatesTicks(W))
    BY <1>1, <1>2, <1>8, HeatmapAddsUp
  <2> QED BY <2>1, <2>2
<1>12. ASSUME NEW many \in Ranges, many > days
       PROVE  /\ home.summary = Home(many, now).summary
              /\ \A i \in 1 .. days : home.trend[i] = Home(many, now).trend[many - days + i]
  <2>1. home.summary = Home(many, now).summary
    BY <1>5 DEF home
  <2>2. ASSUME NEW i \in 1 .. days
        PROVE  home.trend[i] = Home(many, now).trend[many - days + i]
    <3>1. many \in Nat \ {0}
      BY <1>1
    <3>2. /\ many - days + i \in 1 .. many
          /\ today - many + (many - days + i) = today - days + i
      BY <1>1, <1>2, <1>12, <3>1
    <3>3. Home(many, now).trend[many - days + i]
            = TrendShown(today - many + (many - days + i), now)
      BY <1>4, <3>2
    <3>4. home.trend[i] = TrendShown(today - days + i, now)
      BY <1>4 DEF home
    <3> QED BY <3>2, <3>3, <3>4
  <2> QED BY <2>1, <2>2
<1>13. home.live = Status(now).live /\ home.week = Status(now).week
  BY <1>3, StatusIs
<1> QED BY <1>6, <1>7, <1>10, <1>11, <1>12, <1>13 DEF PageAgrees, home, today

LEMMA PagesAgree ==
  ASSUME PageHolds
  PROVE  ViewsAgree
<1> SUFFICES ASSUME Asked PROVE ViewsAgree
  BY DEF ViewsAgree
<1>1. reading.now \in Int
  BY DEF PageHolds, LiveHeld, TimeFixed, Asked
<1>2. \A days \in Ranges : PageAgrees(days, reading.now)
  BY <1>1, PageHoldsTogether
<1> QED BY <1>2 DEF ViewsAgree, PageAgrees, BarSum, BucketSum, BucketTotal, AppsSum, CellSum, WholeHours

LEMMA TimeInStep ==
  ASSUME EngineHolds, TimeIn, [ReadNext]_allVars
  PROVE  TimeIn'
<1>1. CASE [Next]_vars
  BY <1>1, TimeStep
<1>2. CASE UNCHANGED vars
  BY <1>2 DEF vars, TimeIn, DbIn, SegsIn, StartsIn, BeatsIn, MemIn, EventIn, ClockBound
<1> QED BY <1>1, <1>2, ReadSplit

(* The parts of the statistics page are computed along different paths     *)
(* from different tables and tell one story, at every moment and for every *)
(* range the user picks: the poll shows today as the page does, the        *)
(* buckets and, in a zone of whole hours, the heat map hold exactly the    *)
(* time of the bars, this week is the same in its bar and in its progress, *)
(* and a longer range shows more days and the same numbers (query.rs:165,  *)
(* 176, doc 10 sections 4 and 5.3).                                        *)
THEOREM ReadSpecViewsAgree == ReadSpec => []ViewsAgree
<1>1. ReadInit => LiveHeld /\ TimeIn
  BY LiveBegins, TimeBegins DEF ReadInit
<1>2. EngineHolds /\ EngineHolds' /\ LiveHeld /\ [ReadNext]_allVars => LiveHeld'
  BY LiveStep
<1>3. EngineHolds /\ TimeIn /\ [ReadNext]_allVars => TimeIn'
  BY TimeInStep
<1>4. EngineHolds /\ LiveHeld /\ TimeIn => ViewsAgree
  BY PagesAgree DEF PageHolds
<1>5. ReadSpec => ReadInit /\ [][ReadNext]_allVars
  BY PTL DEF ReadSpec, allVars
<1> QED BY <1>1, <1>2, <1>3, <1>4, <1>5, ReadSpecEngineHolds, PTL
=============================================================================
