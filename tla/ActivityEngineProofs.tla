------------------------- MODULE ActivityEngineProofs -------------------------
(***************************************************************************)
(* Proofs about ActivityEngine, for any applications, clocks and bounds.   *)
(***************************************************************************)
EXTENDS ActivityEngine, SequenceTheorems, FiniteSetTheorems, TLAPS

(***************************************************************************)
(* Rows: a table as far as the mirror is concerned.                        *)
(***************************************************************************)
IsRows(rows) == \E S : rows \in Seq(S)

IsSegment(r) ==
  /\ r = [run |-> r.run, app |-> r.app, state |-> r.state, epoch |-> r.epoch,
          start |-> r.start, end |-> r.end, status |-> r.status]
  /\ r.app \in Apps /\ r.start \in Int /\ r.end \in Int

IsBlock(r) ==
  r = [run |-> r.run, start |-> r.start, end |-> r.end, active |-> r.active, short |-> r.short,
       first |-> r.first, last |-> r.last, status |-> r.status]

IsGap(r) ==
  /\ r = [run |-> r.run, kind |-> r.kind, start |-> r.start, end |-> r.end, status |-> r.status,
          events |-> r.events]
  /\ r.start \in Int /\ (r.status = "open" => r.end = NoTime)

IsRun(r) ==
  /\ r = [started |-> r.started, ended |-> r.ended, beat |-> r.beat, write |-> r.write]
  /\ r.started \in Int /\ r.beat \in Int /\ r.write \in Int

Segments(rows) == IsRows(rows) /\ \A i \in DOMAIN rows : IsSegment(rows[i])
Blocks(rows) == IsRows(rows) /\ \A i \in DOMAIN rows : IsBlock(rows[i])
Gaps(rows) == IsRows(rows) /\ \A i \in DOMAIN rows : IsGap(rows[i])
Runs(rows) == IsRows(rows) /\ Len(rows) > 0 /\ \A i \in DOMAIN rows : IsRun(rows[i])

OneOpen(rows) == \A i, j \in OpenRows(rows) : i = j

LEMMA RowsLen ==
  ASSUME NEW rows, IsRows(rows)
  PROVE  Len(rows) \in Nat /\ DOMAIN rows = 1 .. Len(rows)
BY LenProperties DEF IsRows

(* A table rebuilt row by row. *)
LEMMA RowsRebuilt ==
  ASSUME NEW rows, IsRows(rows), NEW new, DOMAIN new = DOMAIN rows,
         new = [i \in DOMAIN new |-> new[i]]
  PROVE  IsRows(new) /\ Len(new) = Len(rows)
<1>1. Len(rows) \in Nat /\ DOMAIN rows = 1 .. Len(rows)
  BY RowsLen
<1> DEFINE S == {new[i] : i \in DOMAIN new}
<1>2. new \in [1 .. Len(rows) -> S]
  BY <1>1
<1>3. new \in Seq(S)
  BY <1>1, <1>2
<1>4. Len(new) = Len(rows)
  BY <1>1, <1>2, <1>3, LenProperties
<1> QED BY <1>3, <1>4 DEF IsRows

LEMMA RowsAppended ==
  ASSUME NEW rows, IsRows(rows), NEW row
  PROVE  LET new == Append(rows, row)
             n == Len(rows) + 1
         IN  /\ IsRows(new) /\ Len(new) = n
             /\ DOMAIN new = DOMAIN rows \cup {n} /\ n \notin DOMAIN rows
             /\ \A i \in DOMAIN rows : new[i] = rows[i]
             /\ new[n] = row
<1>1. PICK S : rows \in Seq(S)
  BY DEF IsRows
<1> DEFINE T == S \cup {row}
           new == Append(rows, row)
<1>2. rows \in Seq(T) /\ row \in T
  BY <1>1
<1>3. Len(rows) \in Nat /\ DOMAIN rows = 1 .. Len(rows)
  BY RowsLen
<1> HIDE DEF T
<1>4. /\ new \in Seq(T) /\ Len(new) = Len(rows) + 1
      /\ \A i \in 1 .. Len(rows) : new[i] = rows[i]
      /\ new[Len(rows) + 1] = row
  BY <1>2, <1>3, AppendProperties
<1>5. DOMAIN new = 1 .. Len(rows) + 1
  BY <1>4, LenProperties
<1> QED BY <1>3, <1>4, <1>5 DEF IsRows

(* Closing rows opens none and keeps everything else of them.              *)
LEMMA ClosedRows ==
  ASSUME NEW rows, IsRows(rows), NEW new, NEW at, new \in {Closed(rows), ClosedAt(rows, at)},
         \A i \in DOMAIN rows : IsSegment(rows[i]) \/ IsBlock(rows[i]) \/ IsGap(rows[i])
  PROVE  /\ IsRows(new) /\ Len(new) = Len(rows) /\ DOMAIN new = DOMAIN rows
         /\ OpenRows(new) = {}
<1>1. DOMAIN new = DOMAIN rows /\ new = [i \in DOMAIN new |-> new[i]]
  BY DEF Closed, ClosedAt
<1>2. ASSUME NEW i \in DOMAIN rows
      PROVE  new[i].status # "open"
  <2>1. CASE IsOpen(rows, i)
    <3>1. \/ new[i] = [rows[i] EXCEPT !.status = "closed"]
          \/ new[i] = [rows[i] EXCEPT !.status = "closed", !.end = at]
      BY <2>1 DEF Closed, ClosedAt
    <3>2. new[i].status = "closed"
      BY <3>1 DEF IsSegment, IsBlock, IsGap
    <3> QED BY <3>2
  <2>2. CASE ~IsOpen(rows, i)
    BY <2>2 DEF Closed, ClosedAt, IsOpen
  <2> QED BY <2>1, <2>2
<1> QED BY <1>1, <1>2, RowsRebuilt DEF OpenRows, IsOpen

LEMMA ClosedSegments ==
  ASSUME NEW rows, Segments(rows)
  PROVE  /\ Segments(Closed(rows)) /\ OpenRows(Closed(rows)) = {}
         /\ Len(Closed(rows)) = Len(rows) /\ DOMAIN Closed(rows) = DOMAIN rows
         /\ \A i \in DOMAIN rows : /\ Closed(rows)[i].start = rows[i].start
                                   /\ Closed(rows)[i].end = rows[i].end
                                   /\ Closed(rows)[i].app = rows[i].app
                                   /\ Closed(rows)[i].state = rows[i].state
<1> DEFINE new == Closed(rows)
<1>1. IsRows(new) /\ Len(new) = Len(rows) /\ DOMAIN new = DOMAIN rows /\ OpenRows(new) = {}
  BY ClosedRows DEF Segments
<1>2. ASSUME NEW i \in DOMAIN rows
      PROVE  /\ IsSegment(new[i]) /\ new[i].start = rows[i].start /\ new[i].end = rows[i].end
             /\ new[i].app = rows[i].app /\ new[i].state = rows[i].state
  <2>1. IsSegment(rows[i])
    BY DEF Segments
  <2>2. new[i] = rows[i] \/ new[i] = [rows[i] EXCEPT !.status = "closed"]
    BY DEF Closed
  <2> QED BY <2>1, <2>2 DEF IsSegment
<1> QED BY <1>1, <1>2 DEF Segments

LEMMA ClosedBlocks ==
  ASSUME NEW rows, Blocks(rows), NEW new, NEW at, new \in {Closed(rows), ClosedAt(rows, at)}
  PROVE  Blocks(new) /\ OpenRows(new) = {}
<1>1. IsRows(new) /\ Len(new) = Len(rows) /\ DOMAIN new = DOMAIN rows /\ OpenRows(new) = {}
  BY ClosedRows DEF Blocks
<1>2. ASSUME NEW i \in DOMAIN rows
      PROVE  IsBlock(new[i])
  <2>1. IsBlock(rows[i])
    BY DEF Blocks
  <2>2. \/ new[i] = rows[i] \/ new[i] = [rows[i] EXCEPT !.status = "closed"]
        \/ new[i] = [rows[i] EXCEPT !.status = "closed", !.end = at]
    BY DEF Closed, ClosedAt
  <2> QED BY <2>1, <2>2 DEF IsBlock
<1> QED BY <1>1, <1>2 DEF Blocks

LEMMA ClosedGaps ==
  ASSUME NEW rows, Gaps(rows), NEW at
  PROVE  Gaps(ClosedAt(rows, at)) /\ OpenRows(ClosedAt(rows, at)) = {}
<1> DEFINE new == ClosedAt(rows, at)
<1>1. IsRows(new) /\ Len(new) = Len(rows) /\ DOMAIN new = DOMAIN rows /\ OpenRows(new) = {}
  BY ClosedRows DEF Gaps
<1>2. ASSUME NEW i \in DOMAIN rows
      PROVE  IsGap(new[i])
  <2>1. IsGap(rows[i])
    BY DEF Gaps
  <2>2. new[i] = rows[i] \/ new[i] = [rows[i] EXCEPT !.status = "closed", !.end = at]
    BY DEF ClosedAt
  <2> QED BY <2>1, <2>2 DEF IsGap
<1> QED BY <1>1, <1>2 DEF Gaps

(* A new row in a table without an open one is its only open row.          *)
LEMMA AppendedOpen ==
  ASSUME NEW rows, IsRows(rows), NEW row, row.status = "open", OpenRows(rows) = {}
  PROVE  OpenRows(Append(rows, row)) = {Len(rows) + 1}
BY RowsAppended DEF OpenRows, IsOpen

LEMMA AppendedClosed ==
  ASSUME NEW rows, IsRows(rows), NEW row, row.status = "closed"
  PROVE  OpenRows(Append(rows, row)) = OpenRows(rows)
BY RowsAppended DEF OpenRows, IsOpen

LEMMA AppendedRow ==
  ASSUME NEW rows, NEW row
  PROVE  /\ Segments(rows) /\ IsSegment(row) => Segments(Append(rows, row))
         /\ Blocks(rows) /\ IsBlock(row) => Blocks(Append(rows, row))
         /\ Gaps(rows) /\ IsGap(row) => Gaps(Append(rows, row))
<1>1. ASSUME Segments(rows), IsSegment(row) PROVE Segments(Append(rows, row))
  BY <1>1, RowsAppended DEF Segments
<1>2. ASSUME Blocks(rows), IsBlock(row) PROVE Blocks(Append(rows, row))
  BY <1>2, RowsAppended DEF Blocks
<1>3. ASSUME Gaps(rows), IsGap(row) PROVE Gaps(Append(rows, row))
  BY <1>3, RowsAppended DEF Gaps
<1> QED BY <1>1, <1>2, <1>3

(* At most one open row, as the type invariant counts them.                *)
LEMMA OneOpenCounts ==
  ASSUME NEW rows, OneOpen(rows)
  PROVE  Cardinality(OpenRows(rows)) <= 1
<1>1. CASE OpenRows(rows) = {}
  BY <1>1, FS_EmptySet
<1>2. CASE OpenRows(rows) # {}
  <2>1. PICK i : i \in OpenRows(rows)
    BY <1>2
  <2>2. OpenRows(rows) = {i}
    BY <2>1 DEF OneOpen
  <2> QED BY <2>2, FS_Singleton
<1> QED BY <1>1, <1>2

-----------------------------------------------------------------------------
(***************************************************************************)
(* Sums.  A sum of the library is a recursive function on the subsets of a *)
(* finite set; any function with the same recursion equation is that one,  *)
(* because a smallest set on which they differ would have to be empty.     *)
(***************************************************************************)
Chosen(s) == CHOOSE x \in s : TRUE

Adds(h, f, S) ==
  f = [s \in SUBSET S |-> IF s = {} THEN 0 ELSE h[Chosen(s)] + f[s \ {Chosen(s)}]]

LEMMA OneSum ==
  ASSUME NEW S, IsFiniteSet(S), NEW h, NEW f, Adds(h, f, S), NEW g, Adds(h, g, S)
  PROVE  f = g
<1> DEFINE T == {s \in SUBSET S : f[s] # g[s]}
<1>1. SUFFICES ASSUME T # {} PROVE FALSE
  BY DEF Adds
<1>2. IsWellFoundedOn(StrictSubsetOrdering(S), SUBSET S)
  BY FS_StrictSubsetOrderingWellFounded, FS_FiniteSubsetsOfFinite
<1>3. PICK s \in T : \A y \in T : <<y, s>> \notin StrictSubsetOrdering(S)
  <2>1. T \subseteq SUBSET S
    OBVIOUS
  <2> HIDE DEF T
  <2> QED BY <1>1, <1>2, <2>1, WFMin
<1>4. s # {}
  BY DEF Adds
<1> DEFINE x == Chosen(s)
<1>5. x \in s
  BY <1>4 DEF Chosen
<1>6. <<s \ {x}, s>> \in StrictSubsetOrdering(S)
  BY <1>5 DEF StrictSubsetOrdering
<1>7. f[s \ {x}] = g[s \ {x}]
  BY <1>3, <1>6
<1>8. f[s] = h[x] + f[s \ {x}] /\ g[s] = h[x] + g[s \ {x}]
  BY <1>4 DEF Adds
<1> QED BY <1>7, <1>8

LEMMA TotalIsSum ==
  ASSUME NEW S, IsFiniteSet(S), NEW rows, NEW lo, NEW hi, NEW h, NEW g, Adds(h, g, S),
         \A i \in S : h[i] = Clipped(rows[i], lo, hi)
  PROVE  Total(rows, S, lo, hi) = g[S]
<1> DEFINE Iter(f) ==
             f = [s \in SUBSET S |->
                    IF s = {} THEN 0
                    ELSE Clipped(rows[CHOOSE x \in s : TRUE], lo, hi)
                           + f[s \ {CHOOSE x \in s : TRUE}]]
           f == CHOOSE f : Iter(f)
<1>1. ASSUME NEW s \in SUBSET S, s # {}
      PROVE  h[Chosen(s)] = Clipped(rows[CHOOSE x \in s : TRUE], lo, hi)
  BY <1>1 DEF Chosen
<1>2. \A k : Iter(k) <=> Adds(h, k, S)
  BY <1>1 DEF Adds, Chosen
<1>3. Iter(f)
  BY <1>2, ZenonT(60)
<1>4. f = g
  BY <1>2, <1>3, OneSum
<1>5. Total(rows, S, lo, hi) = f[S]
  BY DEF Total, MapThenSumSet, MapThenFoldSet
<1> QED BY <1>4, <1>5

LEMMA MaxOfTwo ==
  ASSUME NEW a \in Int, NEW b \in Int
  PROVE  Max({a, b}) \in {a, b} /\ Max({a, b}) >= a /\ Max({a, b}) >= b
<1>1. \E x \in {a, b} : \A y \in {a, b} : x >= y
  <2>1. CASE a >= b
    BY <2>1
  <2>2. CASE ~(a >= b)
    BY <2>2
  <2> QED BY <2>1, <2>2
<1> QED BY <1>1 DEF Max

LEMMA MinOfTwo ==
  ASSUME NEW a \in Int, NEW b \in Int
  PROVE  Min({a, b}) \in {a, b} /\ Min({a, b}) <= a /\ Min({a, b}) <= b
<1>1. \E x \in {a, b} : \A y \in {a, b} : x <= y
  <2>1. CASE a <= b
    BY <2>1
  <2>2. CASE ~(a <= b)
    BY <2>2
  <2> QED BY <2>1, <2>2
<1> QED BY <1>1 DEF Min

(* A finite set in a linear order has a last element, and so has a finite  *)
(* set of integers.                                                        *)
LinearOrder(S, R) ==
  /\ \A x, y \in S : x = y \/ <<x, y>> \in R \/ <<y, x>> \in R
  /\ \A x, y, z \in S : <<x, y>> \in R /\ <<y, z>> \in R => <<x, z>> \in R

IsLast(R, T, m) == m \in T /\ \A y \in T : y = m \/ <<y, m>> \in R

LEMMA LastExists ==
  ASSUME NEW S, IsFiniteSet(S), S # {}, NEW R, LinearOrder(S, R)
  PROVE  \E m : IsLast(R, S, m)
<1> DEFINE Bad == {T \in SUBSET S : T # {} /\ ~\E m : IsLast(R, T, m)}
<1>1. SUFFICES ASSUME Bad # {} PROVE FALSE
  BY DEF Bad
<1>2. IsWellFoundedOn(StrictSubsetOrdering(S), SUBSET S)
  BY FS_StrictSubsetOrderingWellFounded, FS_FiniteSubsetsOfFinite
<1>3. PICK T \in Bad : \A y \in Bad : <<y, T>> \notin StrictSubsetOrdering(S)
  <2>1. Bad \subseteq SUBSET S
    OBVIOUS
  <2> HIDE DEF Bad
  <2> QED BY <1>1, <1>2, <2>1, WFMin
<1>4. PICK x : x \in T
  BY DEF Bad
<1>5. <<T \ {x}, T>> \in StrictSubsetOrdering(S)
  BY <1>4 DEF StrictSubsetOrdering
<1>6. CASE T \ {x} = {}
  BY <1>4, <1>6 DEF IsLast
<1>7. CASE T \ {x} # {}
  <2>1. T \ {x} \notin Bad
    BY <1>3, <1>5
  <2>2. PICK m : IsLast(R, T \ {x}, m)
    BY <1>7, <2>1
  <2>3. x \in S /\ m \in S /\ m \in T /\ T \subseteq S
    BY <1>4, <2>2 DEF IsLast
  <2>4. CASE <<x, m>> \in R \/ x = m
    BY <2>2, <2>3, <2>4 DEF IsLast
  <2>5. CASE <<m, x>> \in R
    <3>1. IsLast(R, T, x)
      BY <1>4, <2>2, <2>3, <2>5 DEF IsLast, LinearOrder
    <3> QED BY <3>1
  <2> QED BY <2>3, <2>4, <2>5 DEF LinearOrder
<1> QED BY <1>6, <1>7

LEMMA MaxOfSet ==
  ASSUME NEW S \in SUBSET Int, IsFiniteSet(S), S # {}
  PROVE  Max(S) \in S /\ \A x \in S : x <= Max(S)
<1> DEFINE R == {p \in S \X S : p[1] < p[2]}
<1>1. LinearOrder(S, R)
  BY DEF LinearOrder
<1>2. \E m : IsLast(R, S, m)
  <2> HIDE DEF R
  <2> QED BY <1>1, LastExists
<1>3. PICK m \in S : \A y \in S : y = m \/ y < m
  BY <1>2 DEF IsLast
<1>4. \A y \in S : m >= y
  BY <1>3
<1>5. Max(S) \in S /\ \A y \in S : Max(S) >= y
  BY <1>4 DEF Max
<1> QED BY <1>5

LEMMA MinOfSet ==
  ASSUME NEW S \in SUBSET Int, IsFiniteSet(S), S # {}
  PROVE  Min(S) \in S /\ \A x \in S : Min(S) <= x
<1> DEFINE R == {p \in S \X S : p[2] < p[1]}
<1>1. LinearOrder(S, R)
  BY DEF LinearOrder
<1>2. \E m : IsLast(R, S, m)
  <2> HIDE DEF R
  <2> QED BY <1>1, LastExists
<1>3. PICK m \in S : \A y \in S : y = m \/ m < y
  BY <1>2 DEF IsLast
<1>4. \A y \in S : m <= y
  BY <1>3
<1> QED BY <1>4 DEF Min

(* The values a function takes on a finite set.                            *)
LEMMA ImageFinite ==
  ASSUME NEW S, IsFiniteSet(S), NEW f
  PROVE  IsFiniteSet({f[i] : i \in S})
<1> DEFINE g == [i \in S |-> f[i]]
           T == {f[i] : i \in S}
<1>1. g \in Surjection(S, T)
  BY DEF Surjection
<1> HIDE DEF g, T
<1>2. IsFiniteSet(T)
  BY <1>1, FS_Surjection
<1> QED BY <1>2 DEF T

(* A row, possibly of length zero, that has a moment in (lo, hi). *)
Touches(row, lo, hi) == row.end > lo /\ row.start < hi /\ row.start <= row.end

(* The ticks of [lo, hi) in the rows with index in S. *)
TicksOf(rows, S, lo, hi) ==
  {it \in S \X (lo .. hi - 1) : rows[it[1]].start <= it[2] /\ it[2] < rows[it[1]].end}

LEMMA TicksOfOne ==
  ASSUME NEW rows, NEW i, NEW lo \in Int, NEW hi \in Int,
         rows[i].start \in Int, rows[i].end \in Int, Touches(rows[i], lo, hi), lo <= hi
  PROVE  /\ IsFiniteSet(TicksOf(rows, {i}, lo, hi))
         /\ Cardinality(TicksOf(rows, {i}, lo, hi)) = Clipped(rows[i], lo, hi)
         /\ Clipped(rows[i], lo, hi) \in Nat
<1> DEFINE first == Max({rows[i].start, lo})
           stop == Min({rows[i].end, hi})
<1>1. first \in {rows[i].start, lo} /\ first >= rows[i].start /\ first >= lo
  BY MaxOfTwo
<1>2. stop \in {rows[i].end, hi} /\ stop <= rows[i].end /\ stop <= hi
  BY MinOfTwo
<1>3. Clipped(rows[i], lo, hi) = stop - first
  BY DEF Clipped
<1> HIDE DEF first, stop
<1>4. first \in Int /\ stop \in Int
  BY <1>1, <1>2
<1>5. first <= stop
  BY <1>1, <1>2, <1>4 DEF Touches
<1>6. TicksOf(rows, {i}, lo, hi) = {i} \X (first .. stop - 1)
  <2>1. ASSUME NEW k \in Int
        PROVE  k \in first .. stop - 1
                 <=> k \in lo .. hi - 1 /\ rows[i].start <= k /\ k < rows[i].end
    BY <1>1, <1>2, <1>4
  <2> QED BY <2>1, <1>4 DEF TicksOf
<1>7. IsFiniteSet(first .. stop - 1) /\ Cardinality(first .. stop - 1) = stop - first
  <2>1. Cardinality(first .. stop - 1) = IF first > stop - 1 THEN 0 ELSE (stop - 1) - first + 1
    BY <1>4, FS_Interval
  <2>2. IsFiniteSet(first .. stop - 1)
    BY <1>4, FS_Interval
  <2> QED BY <1>4, <1>5, <2>1, <2>2
<1>8. IsFiniteSet({i}) /\ Cardinality({i}) = 1
  BY FS_Singleton
<1>9. /\ IsFiniteSet({i} \X (first .. stop - 1))
      /\ Cardinality({i} \X (first .. stop - 1)) = Cardinality({i}) * Cardinality(first .. stop - 1)
  BY <1>7, <1>8, FS_Product
<1>10. Cardinality({i} \X (first .. stop - 1)) = stop - first
  BY <1>4, <1>7, <1>8, <1>9
<1>11. Clipped(rows[i], lo, hi) \in Nat
  BY <1>3, <1>4, <1>5
<1>12. /\ IsFiniteSet(TicksOf(rows, {i}, lo, hi))
       /\ Cardinality(TicksOf(rows, {i}, lo, hi)) = stop - first
  BY <1>6, <1>9, <1>10, Zenon
<1> QED BY <1>3, <1>11, <1>12, Zenon

LEMMA TicksOfFinite ==
  ASSUME NEW S, IsFiniteSet(S), NEW rows, NEW lo \in Int, NEW hi \in Int
  PROVE  IsFiniteSet(TicksOf(rows, S, lo, hi))
<1>1. IsFiniteSet(lo .. hi - 1)
  BY FS_Interval
<1>2. IsFiniteSet(S \X (lo .. hi - 1))
  BY <1>1, FS_Product
<1> QED BY <1>2, FS_Subset DEF TicksOf

LEMMA TotalCountsTicks ==
  ASSUME NEW S, IsFiniteSet(S), NEW rows, NEW lo \in Int, NEW hi \in Int, lo <= hi,
         \A i \in S : rows[i].start \in Int /\ rows[i].end \in Int /\ Touches(rows[i], lo, hi)
  PROVE  Total(rows, S, lo, hi) = Cardinality(TicksOf(rows, S, lo, hi))
<1> DEFINE h == [i \in S |-> Clipped(rows[i], lo, hi)]
           g == [s \in SUBSET S |-> Cardinality(TicksOf(rows, s, lo, hi))]
<1>1. ASSUME NEW s \in SUBSET S, s # {}
      PROVE  g[s] = h[Chosen(s)] + g[s \ {Chosen(s)}]
  <2> DEFINE x == Chosen(s)
  <2>1. x \in s /\ x \in S
    BY <1>1 DEF Chosen
  <2> HIDE DEF x
  <2>2. IsFiniteSet(s) /\ IsFiniteSet(s \ {x})
    BY FS_Subset
  <2>3. TicksOf(rows, s, lo, hi) = TicksOf(rows, {x}, lo, hi) \cup TicksOf(rows, s \ {x}, lo, hi)
    BY <2>1 DEF TicksOf
  <2>4. TicksOf(rows, {x}, lo, hi) \cap TicksOf(rows, s \ {x}, lo, hi) = {}
    BY DEF TicksOf
  <2>5. /\ IsFiniteSet(TicksOf(rows, {x}, lo, hi))
        /\ Cardinality(TicksOf(rows, {x}, lo, hi)) = Clipped(rows[x], lo, hi)
        /\ Clipped(rows[x], lo, hi) \in Nat
    BY <2>1, TicksOfOne
  <2>6. IsFiniteSet(TicksOf(rows, s \ {x}, lo, hi))
    BY <2>2, TicksOfFinite
  <2>7. Cardinality({}) = 0
    BY FS_EmptySet
  <2>8. Cardinality(TicksOf(rows, s \ {x}, lo, hi)) \in Nat
    BY <2>6, FS_CardinalityType
  <2>9. Cardinality(TicksOf(rows, s, lo, hi))
          = Clipped(rows[x], lo, hi) + Cardinality(TicksOf(rows, s \ {x}, lo, hi))
    <3> DEFINE A == TicksOf(rows, {x}, lo, hi)
               B == TicksOf(rows, s \ {x}, lo, hi)
    <3>1. IsFiniteSet(A) /\ IsFiniteSet(B) /\ A \cap B = {}
      BY <2>4, <2>5, <2>6
    <3>2. Cardinality(A) \in Nat /\ Cardinality(B) \in Nat
      BY <2>5, <2>8
    <3>3. TicksOf(rows, s, lo, hi) = A \cup B /\ Cardinality(A) = Clipped(rows[x], lo, hi)
      BY <2>3, <2>5
    <3> HIDE DEF A, B
    <3>4. Cardinality(A \cup B) = Cardinality(A) + Cardinality(B) - Cardinality(A \cap B)
      BY <3>1, FS_Union
    <3>5. Cardinality(A \cup B) = Cardinality(A) + Cardinality(B)
      <4>1. Cardinality(A \cap B) = 0
        BY <2>7, <3>1, Zenon
      <4> QED BY <3>2, <3>4, <4>1
    <3>6. Cardinality(TicksOf(rows, s, lo, hi)) = Clipped(rows[x], lo, hi) + Cardinality(B)
      BY <3>3, <3>5
    <3> QED BY <3>6 DEF B
  <2> QED BY <2>1, <2>9 DEF x
<1>2. g[{}] = 0
  <2>1. TicksOf(rows, {}, lo, hi) = {}
    BY DEF TicksOf
  <2> QED BY <2>1, FS_EmptySet
<1>3. Adds(h, g, S)
  <2>1. \A s \in SUBSET S : g[s] = IF s = {} THEN 0 ELSE h[Chosen(s)] + g[s \ {Chosen(s)}]
    BY <1>1, <1>2
  <2>2. g = [s \in SUBSET S |-> g[s]]
    OBVIOUS
  <2> HIDE DEF g
  <2> QED BY <2>1, <2>2 DEF Adds
<1>4. \A i \in S : h[i] = Clipped(rows[i], lo, hi)
  OBVIOUS
<1>5. g[S] = Cardinality(TicksOf(rows, S, lo, hi))
  OBVIOUS
<1> HIDE DEF g, h
<1> QED BY <1>3, <1>4, <1>5, TotalIsSum

-----------------------------------------------------------------------------
(***************************************************************************)
(* Buckets of usage.                                                       *)
(***************************************************************************)
(* In [lo, hi) the rows of one table tell the same as those of the other.  *)
TellSame(rows, new, lo, hi) ==
  /\ DOMAIN rows \subseteq DOMAIN new
  /\ \A i \in DOMAIN new \ DOMAIN rows : ~Meets(new[i], lo, hi)
  /\ \A i \in DOMAIN rows :
       /\ new[i].app = rows[i].app /\ new[i].state = rows[i].state
       /\ new[i].start = rows[i].start
       /\ Meets(new[i], lo, hi) <=> Meets(rows[i], lo, hi)
       /\ Meets(rows[i], lo, hi) =>
            new[i].end = rows[i].end \/ (new[i].end >= hi /\ rows[i].end >= hi)

Hits(rows, a, lo, hi) == {i \in DOMAIN rows : rows[i].app = a /\ Meets(rows[i], lo, hi)}
HitsIn(rows, a, st, lo, hi) == {i \in Hits(rows, a, lo, hi) : rows[i].state = st}

LEMMA HitsFinite ==
  ASSUME NEW rows, Segments(rows), NEW a, NEW st, NEW lo, NEW hi
  PROVE  /\ IsFiniteSet(Hits(rows, a, lo, hi)) /\ IsFiniteSet(HitsIn(rows, a, st, lo, hi))
         /\ IsFiniteSet(DOMAIN rows)
<1>1. IsFiniteSet(DOMAIN rows)
  BY RowsLen, FS_Interval DEF Segments
<1>2. Hits(rows, a, lo, hi) \subseteq DOMAIN rows
      /\ HitsIn(rows, a, st, lo, hi) \subseteq DOMAIN rows
  BY DEF Hits, HitsIn
<1> QED BY <1>1, <1>2, FS_Subset

(* A bucket counts the ticks of its rows.                                  *)
LEMMA HitsTotal ==
  ASSUME NEW rows, Segments(rows), NEW a, NEW st, NEW lo \in Int, NEW hi \in Int, lo < hi
  PROVE  LET S == HitsIn(rows, a, st, lo, hi)
         IN  Total(rows, S, lo, hi) = Cardinality(TicksOf(rows, S, lo, hi))
<1> DEFINE S == HitsIn(rows, a, st, lo, hi)
<1>1. IsFiniteSet(S)
  BY HitsFinite
<1>2. \A i \in S : rows[i].start \in Int /\ rows[i].end \in Int /\ Touches(rows[i], lo, hi)
  BY DEF HitsIn, Hits, Segments, IsSegment, Meets, Touches
<1> HIDE DEF S
<1>3. Total(rows, S, lo, hi) = Cardinality(TicksOf(rows, S, lo, hi))
  BY <1>1, <1>2, TotalCountsTicks
<1> QED BY <1>3 DEF S

LEMMA UsageByHits ==
  ASSUME NEW rows, NEW lo, NEW hi
  PROVE  Usage(rows, lo, hi) =
           [a \in Apps |->
              [active  |-> Total(rows, HitsIn(rows, a, "active", lo, hi), lo, hi),
               idle    |-> Total(rows, HitsIn(rows, a, "idle", lo, hi), lo, hi),
               unknown |-> Total(rows, HitsIn(rows, a, "unknown", lo, hi), lo, hi),
               count   |-> Cardinality(Hits(rows, a, lo, hi))]]
BY DEF Usage, HitsIn, Hits

LEMMA SameUsage ==
  ASSUME NEW rows, Segments(rows), NEW new, Segments(new), NEW lo \in Int, NEW hi \in Int,
         lo < hi, TellSame(rows, new, lo, hi)
  PROVE  Usage(new, lo, hi) = Usage(rows, lo, hi)
<1>1. ASSUME NEW a
      PROVE  Hits(new, a, lo, hi) = Hits(rows, a, lo, hi)
  BY DEF Hits, TellSame
<1>2. ASSUME NEW a, NEW st
      PROVE  Total(new, HitsIn(new, a, st, lo, hi), lo, hi)
               = Total(rows, HitsIn(rows, a, st, lo, hi), lo, hi)
  <2> DEFINE S == HitsIn(rows, a, st, lo, hi)
  <2>1. HitsIn(new, a, st, lo, hi) = S
    BY <1>1 DEF HitsIn, Hits, TellSame
  <2>2. TicksOf(new, S, lo, hi) = TicksOf(rows, S, lo, hi)
    <3>1. ASSUME NEW i \in S, NEW k \in lo .. hi - 1
          PROVE  (new[i].start <= k /\ k < new[i].end) <=> (rows[i].start <= k /\ k < rows[i].end)
      <4>1. /\ i \in DOMAIN rows /\ i \in DOMAIN new /\ Meets(rows[i], lo, hi)
            /\ new[i].end \in Int /\ rows[i].end \in Int
        BY DEF HitsIn, Hits, TellSame, Segments, IsSegment
      <4>2. /\ new[i].start = rows[i].start
            /\ new[i].end = rows[i].end \/ (new[i].end >= hi /\ rows[i].end >= hi)
        BY <4>1 DEF TellSame
      <4> QED BY <4>1, <4>2
    <3> HIDE DEF S
    <3> QED BY <3>1 DEF TicksOf
  <2>3. Total(rows, S, lo, hi) = Cardinality(TicksOf(rows, S, lo, hi))
    BY HitsTotal
  <2>4. Total(new, S, lo, hi) = Cardinality(TicksOf(new, S, lo, hi))
    BY <2>1, HitsTotal
  <2> QED BY <2>1, <2>2, <2>3, <2>4
<1> QED BY <1>1, <1>2, UsageByHits

-----------------------------------------------------------------------------
(***************************************************************************)
(* Transactions.  The parts of one that the proofs speak of, and what it   *)
(* means for an operator to leave a part alone.                            *)
(***************************************************************************)
Shaped(t) ==
  /\ DOMAIN t = {"db", "mem", "cont", "run", "ok"}
  /\ DOMAIN t.db = {"segs", "blocks", "gaps", "obs", "runs", "hourly", "daily", "metrics",
                    "recorded"}
  /\ t.mem = [seg |-> t.mem.seg, work |-> t.mem.work, idleStart |-> t.mem.idleStart,
              idleSum |-> t.mem.idleSum, gap |-> t.mem.gap, point |-> t.mem.point,
              seen |-> t.mem.seen, capDrops |-> t.mem.capDrops, wrDrops |-> t.mem.wrDrops]

GapNames == Lifecycle \cup DataEvents \cup {"none", "agent_restart"}
Counters == [epoch : Nat, capture : Nat, writer : Nat]

IsMemSegment(g) ==
  /\ g = [id |-> g.id, app |-> g.app, state |-> g.state, epoch |-> g.epoch, start |-> g.start,
          end |-> g.end]
  /\ g.id \in Nat \ {0} /\ g.state \in States /\ g.start \in Int /\ g.end \in Int

IsMemBlock(w) ==
  /\ w = [id |-> w.id, end |-> w.end, active |-> w.active, short |-> w.short, last |-> w.last]
  /\ w.id \in Nat \ {0}

SegsTyped(t) == Segments(t.db.segs) /\ (t.mem.seg = NoSegment \/ IsMemSegment(t.mem.seg))
WorkTyped(t) == Blocks(t.db.blocks) /\ (t.mem.work = NoWork \/ IsMemBlock(t.mem.work))
GapsTyped(t) == Gaps(t.db.gaps) /\ t.mem.gap \in GapNames
LogTyped(t)  == IsRows(t.db.obs) /\ Runs(t.db.runs)
IdleTyped(t) == t.mem.idleStart \in Int /\ t.mem.idleSum \in Nat
RestTyped(t) == t.cont \in Counters /\ t.mem.seen \in Int /\ t.mem.point.utc \in Int

Typed(t) ==
  /\ Shaped(t) /\ SegsTyped(t) /\ WorkTyped(t) /\ GapsTyped(t)
  /\ LogTyped(t) /\ IdleTyped(t) /\ RestTyped(t)

SegsAs(t, u) == u.db.segs = t.db.segs /\ u.mem.seg = t.mem.seg
WorkAs(t, u) == u.db.blocks = t.db.blocks /\ u.mem.work = t.mem.work
GapsAs(t, u) == u.db.gaps = t.db.gaps /\ u.mem.gap = t.mem.gap
LogAs(t, u)  == u.db.obs = t.db.obs /\ u.db.runs = t.db.runs
IdleAs(t, u) == u.mem.idleStart = t.mem.idleStart /\ u.mem.idleSum = t.mem.idleSum
SeenAs(t, u) == u.cont = t.cont /\ u.mem.seen = t.mem.seen
RestAs(t, u) == SeenAs(t, u) /\ u.mem.point = t.mem.point

(* The same runtime; and a statement once refused stays refused.  Only the *)
(* recomputation touches the buckets of usage.                             *)
Goes(t, u) == u.run = t.run /\ (u.ok => t.ok)
Follows(t, u) ==
  /\ u.run = t.run /\ (u.ok => t.ok)
  /\ u.db.hourly = t.db.hourly /\ u.db.daily = t.db.daily /\ u.db.metrics = t.db.metrics
  /\ u.db.recorded = t.db.recorded

LEMMA TypedAs ==
  ASSUME NEW t, Typed(t), NEW u
  PROVE  /\ SegsAs(t, u) => SegsTyped(u)
         /\ WorkAs(t, u) => WorkTyped(u)
         /\ GapsAs(t, u) => GapsTyped(u)
         /\ LogAs(t, u) => LogTyped(u)
         /\ IdleAs(t, u) => IdleTyped(u)
         /\ RestAs(t, u) => RestTyped(u)
BY DEF Typed, SegsTyped, WorkTyped, GapsTyped, LogTyped, IdleTyped, RestTyped,
       SegsAs, WorkAs, GapsAs, LogAs, IdleAs, RestAs, SeenAs

-----------------------------------------------------------------------------
(* The three parts of the mirror, and what holds of the segment a memory   *)
(* still holds when the rest of the mirror is broken by a failure.         *)
SegMirror(t) ==
  /\ OpenRows(t.db.segs) = {t.mem.seg.id} \ {0}
  /\ t.mem.seg # NoSegment =>
       \A f \in {"app", "state", "epoch", "start", "end"} :
          t.db.segs[t.mem.seg.id][f] = t.mem.seg[f]
SegHeld(t) == t.mem.seg # NoSegment => SegMirror(t)

WorkMirror(t) ==
  /\ OpenRows(t.db.blocks) = {t.mem.work.id} \ {0}
  /\ t.mem.work # NoWork =>
       \A f \in {"end", "active", "short", "last"} : t.db.blocks[t.mem.work.id][f] = t.mem.work[f]

GapMirror(t) == {t.db.gaps[i].kind : i \in OpenRows(t.db.gaps)} = {t.mem.gap} \ {"none"}
GapHeld(t) == t.mem.gap = "none" => OpenRows(t.db.gaps) = {}

SegTimes(rows) == \A i \in DOMAIN rows : rows[i].start <= rows[i].end

(* The rows that were there tell the same, and a new one has length zero.  *)
EndsKept(rows, new) ==
  /\ DOMAIN rows \subseteq DOMAIN new
  /\ \A i \in DOMAIN rows : /\ new[i].app = rows[i].app /\ new[i].state = rows[i].state
                            /\ new[i].start = rows[i].start
  /\ \A i \in DOMAIN new : new[i].end = EndOf(rows, i, new[i])

(* Segments stay, and only their ends move on; gaps stay, and one that is  *)
(* closed never changes again.                                             *)
SegsGrow(rows, new) ==
  /\ DOMAIN rows \subseteq DOMAIN new
  /\ \A i \in DOMAIN rows :
       /\ new[i].app = rows[i].app /\ new[i].state = rows[i].state
       /\ new[i].start = rows[i].start
       /\ new[i].end = rows[i].end \/ rows[i].end < new[i].end

GapsKept(rows, new) ==
  /\ DOMAIN rows \subseteq DOMAIN new
  /\ \A i \in DOMAIN rows :
       /\ new[i].start = rows[i].start
       /\ ~IsOpen(rows, i) => ~IsOpen(new, i) /\ new[i].end = rows[i].end

(* The projections of a date are those of before or rebuilt from database  *)
(* d; a date that is rebuilt has a row of metrics if they say something.   *)
RowsFrom(c, d) ==
  \A x \in Dates :
    \/ /\ d.daily[x] = c.daily[x] /\ d.metrics[x] = c.metrics[x]
       /\ x \in d.recorded <=> x \in c.recorded
    \/ /\ d.daily[x] = DateUsage(d.segs, x) /\ d.metrics[x] = WorkMetrics(d, x)
       /\ x \in d.recorded <=> WorthARow(WorkMetrics(d, x))

(* Every bucket of usage says what the segments say.                       *)
Fresh(d) ==
  /\ d.hourly = [h \in Hours |-> HourUsage(d.segs, h)]
  /\ d.daily = [x \in Dates |-> DateUsage(d.segs, x)]

(* What a step of the Work Blocks preserves if nothing was refused.        *)
WorkStep(t, u) ==
  u.ok => /\ WorkMirror(t) => WorkMirror(u)
          /\ OneOpen(t.db.blocks) => OneOpen(u.db.blocks)

-----------------------------------------------------------------------------
(***************************************************************************)
(* What each operator changes.                                             *)
(***************************************************************************)
LEMMA GapsKeptSame ==
  ASSUME NEW rows
  PROVE  GapsKept(rows, rows)
BY DEF GapsKept

LEMMA GapsKeptTwice ==
  ASSUME NEW a, NEW b, NEW c, GapsKept(a, b), GapsKept(b, c)
  PROVE  GapsKept(a, c)
BY DEF GapsKept

LEMMA GapsKeptClosed ==
  ASSUME NEW rows, Gaps(rows), NEW at
  PROVE  GapsKept(rows, ClosedAt(rows, at))
<1> DEFINE new == ClosedAt(rows, at)
<1>1. DOMAIN new = DOMAIN rows
  BY DEF ClosedAt
<1>2. ASSUME NEW i \in DOMAIN rows
      PROVE  /\ new[i].start = rows[i].start
             /\ ~IsOpen(rows, i) => ~IsOpen(new, i) /\ new[i].end = rows[i].end
  <2>1. CASE IsOpen(rows, i)
    <3>1. new[i] = [rows[i] EXCEPT !.status = "closed", !.end = at] /\ IsGap(rows[i])
      BY <2>1 DEF ClosedAt, Gaps
    <3> QED BY <2>1, <3>1 DEF IsGap
  <2>2. CASE ~IsOpen(rows, i)
    BY <2>2 DEF ClosedAt, IsOpen
  <2> QED BY <2>1, <2>2
<1> QED BY <1>1, <1>2 DEF GapsKept

LEMMA GapsKeptAppended ==
  ASSUME NEW rows, Gaps(rows), NEW row
  PROVE  GapsKept(rows, Append(rows, row))
<1>1. IsRows(rows)
  BY DEF Gaps
<1> QED BY <1>1, RowsAppended DEF GapsKept, IsOpen

(* Runtime rows.                                                           *)
LEMMA RunAdded ==
  ASSUME NEW runs, Runs(runs), NEW now \in Int, NEW new,
         new = Append(runs, [started |-> now, ended |-> NoTime, beat |-> now, write |-> NoTime])
  PROVE  Runs(new) /\ Len(new) = Len(runs) + 1
<1> DEFINE row == [started |-> now, ended |-> NoTime, beat |-> now, write |-> NoTime]
<1>1. IsRun(row)
  BY DEF IsRun, NoTime
<1>2. new = Append(runs, row) /\ IsRows(runs) /\ Len(runs) \in Nat
  BY RowsLen DEF Runs
<1> HIDE DEF row
<1>3. /\ IsRows(new) /\ Len(new) = Len(runs) + 1
      /\ DOMAIN new = DOMAIN runs \cup {Len(runs) + 1}
      /\ \A i \in DOMAIN runs : new[i] = runs[i]
      /\ new[Len(runs) + 1] = row
  BY <1>2, RowsAppended
<1>4. \A i \in DOMAIN new : IsRun(new[i])
  BY <1>1, <1>3 DEF Runs
<1> QED BY <1>2, <1>3, <1>4 DEF Runs

LEMMA RunsChanged ==
  ASSUME NEW runs, Runs(runs), NEW new, DOMAIN new = DOMAIN runs,
         new = [i \in DOMAIN new |-> new[i]], \A i \in DOMAIN runs : IsRun(new[i])
  PROVE  Runs(new) /\ Len(new) = Len(runs)
<1>1. IsRows(new) /\ Len(new) = Len(runs)
  BY RowsRebuilt DEF Runs
<1> QED BY <1>1 DEF Runs

EndedAt(runs, r, at) == [runs EXCEPT ![r].ended = at]
BeatAt(runs, r, now) == [runs EXCEPT ![r].beat = now, ![r].write = now]

LEMMA RunEnded ==
  ASSUME NEW runs, Runs(runs), NEW r, NEW at, NEW new, new = EndedAt(runs, r, at)
  PROVE  Runs(new) /\ Len(new) = Len(runs)
<1>2. DOMAIN new = DOMAIN runs /\ new = [i \in DOMAIN new |-> new[i]]
  BY DEF EndedAt
<1>3. ASSUME NEW i \in DOMAIN runs
      PROVE  IsRun(new[i])
  <2>1. IsRun(runs[i])
    BY DEF Runs
  <2>2. new[i] = runs[i] \/ new[i] = [runs[i] EXCEPT !.ended = at]
    BY DEF EndedAt
  <2> QED BY <2>1, <2>2 DEF IsRun
<1> QED BY <1>2, <1>3, RunsChanged

LEMMA RunBeats ==
  ASSUME NEW runs, Runs(runs), NEW r, NEW now \in Int,
         NEW new, new = BeatAt(runs, r, now)
  PROVE  Runs(new) /\ Len(new) = Len(runs)
<1>2. DOMAIN new = DOMAIN runs /\ new = [i \in DOMAIN new |-> new[i]]
  BY DEF BeatAt
<1>3. ASSUME NEW i \in DOMAIN runs
      PROVE  IsRun(new[i])
  <2>1. IsRun(runs[i])
    BY DEF Runs
  <2>2. new[i] = runs[i] \/ new[i] = [runs[i] EXCEPT !.beat = now, !.write = now]
    BY DEF BeatAt
  <2> QED BY <2>1, <2>2 DEF IsRun
<1> QED BY <1>2, <1>3, RunsChanged

LEMMA CloseGapEffect ==
  ASSUME NEW t, Typed(t), NEW at, NEW u, u = CloseGap(t, at)
  PROVE  /\ Typed(u) /\ Follows(t, u)
         /\ SegsAs(t, u) /\ WorkAs(t, u) /\ LogAs(t, u) /\ IdleAs(t, u) /\ RestAs(t, u)
         /\ OpenRows(u.db.gaps) = {} /\ u.mem.gap = t.mem.gap
         /\ GapsKept(t.db.gaps, u.db.gaps)
<1>1. Shaped(t)
  BY DEF Typed
<1>2. Shaped(u)
  BY <1>1 DEF CloseGap, Shaped
<1>3. SegsAs(t, u) /\ WorkAs(t, u) /\ LogAs(t, u) /\ IdleAs(t, u) /\ RestAs(t, u)
  BY <1>1 DEF CloseGap, Shaped, SegsAs, WorkAs, LogAs, IdleAs, RestAs, SeenAs
<1>4. u.db.gaps = ClosedAt(t.db.gaps, at) /\ u.mem.gap = t.mem.gap
  BY <1>1 DEF CloseGap, Shaped
<1>5. Follows(t, u)
  BY <1>1 DEF CloseGap, Shaped, Follows
<1>6. GapsTyped(u) /\ OpenRows(u.db.gaps) = {} /\ GapsKept(t.db.gaps, u.db.gaps)
  BY <1>4, ClosedGaps, GapsKeptClosed DEF Typed, GapsTyped
<1> QED BY <1>2, <1>3, <1>4, <1>5, <1>6, TypedAs DEF Typed

LEMMA OpenGapEffect ==
  ASSUME NEW t, Typed(t), NEW kind \in GapNames, NEW at \in Int, NEW u,
         u = OpenGap(t, kind, at)
  PROVE  /\ Typed(u) /\ Follows(t, u)
         /\ SegsAs(t, u) /\ WorkAs(t, u) /\ LogAs(t, u) /\ IdleAs(t, u) /\ RestAs(t, u)
         /\ u.mem.gap = kind /\ GapsKept(t.db.gaps, u.db.gaps)
         /\ u.ok => /\ OpenRows(t.db.gaps) = {} /\ OneOpen(u.db.gaps)
                    /\ kind # "none" => GapMirror(u)
<1> DEFINE row == [run |-> t.run, kind |-> kind, start |-> at, end |-> NoTime,
                   status |-> "open", events |-> 1]
<1>1. Shaped(t)
  BY DEF Typed
<1>2. Shaped(u)
  BY <1>1 DEF OpenGap, Shaped
<1>3. SegsAs(t, u) /\ WorkAs(t, u) /\ LogAs(t, u) /\ IdleAs(t, u) /\ RestAs(t, u)
  BY <1>1 DEF OpenGap, Shaped, SegsAs, WorkAs, LogAs, IdleAs, RestAs, SeenAs
<1>4. u.db.gaps = Append(t.db.gaps, row) /\ u.mem.gap = kind
  BY <1>1 DEF OpenGap, Shaped
<1>5. Follows(t, u) /\ (u.ok => OpenRows(t.db.gaps) = {})
  BY <1>1 DEF OpenGap, Shaped, Follows
<1>6. IsGap(row) /\ row.status = "open" /\ row.kind = kind
  BY DEF IsGap
<1> HIDE DEF row
<1>7. Gaps(t.db.gaps) /\ IsRows(t.db.gaps)
  BY DEF Typed, GapsTyped, Gaps
<1>8. GapsTyped(u) /\ GapsKept(t.db.gaps, u.db.gaps)
  BY <1>4, <1>6, <1>7, AppendedRow, GapsKeptAppended DEF GapsTyped
<1>9. ASSUME u.ok
      PROVE  OneOpen(u.db.gaps) /\ (kind # "none" => GapMirror(u))
  <2>1. OpenRows(u.db.gaps) = {Len(t.db.gaps) + 1}
    BY <1>4, <1>5, <1>6, <1>7, <1>9, AppendedOpen
  <2>2. u.db.gaps[Len(t.db.gaps) + 1] = row
    BY <1>4, <1>7, RowsAppended
  <2>3. {u.db.gaps[i].kind : i \in OpenRows(u.db.gaps)} = {kind}
    BY <1>6, <2>1, <2>2
  <2> QED BY <1>4, <2>1, <2>3 DEF OneOpen, GapMirror
<1> QED BY <1>2, <1>3, <1>4, <1>5, <1>8, <1>9, TypedAs DEF Typed

LEMMA ExtendGapEffect ==
  ASSUME NEW t, Typed(t), NEW u, u = ExtendGap(t)
  PROVE  /\ Typed(u) /\ Follows(t, u)
         /\ SegsAs(t, u) /\ WorkAs(t, u) /\ LogAs(t, u) /\ IdleAs(t, u) /\ RestAs(t, u)
         /\ u.mem.gap = t.mem.gap /\ GapsKept(t.db.gaps, u.db.gaps)
         /\ OpenRows(u.db.gaps) = OpenRows(t.db.gaps)
         /\ \A i \in OpenRows(t.db.gaps) : u.db.gaps[i].kind = t.db.gaps[i].kind
<1> DEFINE old == t.db.gaps
           new == u.db.gaps
<1>1. Shaped(t)
  BY DEF Typed
<1>2. Shaped(u)
  BY <1>1 DEF ExtendGap, Shaped
<1>3. SegsAs(t, u) /\ WorkAs(t, u) /\ LogAs(t, u) /\ IdleAs(t, u) /\ RestAs(t, u)
  BY <1>1 DEF ExtendGap, Shaped, SegsAs, WorkAs, LogAs, IdleAs, RestAs, SeenAs
<1>4. u.mem.gap = t.mem.gap /\ Follows(t, u)
  BY <1>1 DEF ExtendGap, Shaped, Follows
<1>5. /\ DOMAIN new = DOMAIN old /\ new = [i \in DOMAIN new |-> new[i]]
      /\ \A i \in DOMAIN old : new[i] = old[i] \/ new[i] = [old[i] EXCEPT !.events = @ + 1]
  <2>1. new = Extended(old)
    BY <1>1 DEF ExtendGap, Shaped
  <2> HIDE DEF old, new
  <2> QED BY <2>1 DEF Extended
<1>6. Gaps(old)
  BY DEF Typed, GapsTyped
<1> HIDE DEF old, new
<1>7. ASSUME NEW i \in DOMAIN old
      PROVE  /\ IsGap(new[i]) /\ new[i].status = old[i].status /\ new[i].kind = old[i].kind
             /\ new[i].start = old[i].start /\ new[i].end = old[i].end
  <2>1. IsGap(old[i])
    BY <1>6 DEF Gaps
  <2> QED BY <1>5, <2>1 DEF IsGap
<1>8. Gaps(new)
  BY <1>5, <1>6, <1>7, RowsRebuilt DEF Gaps
<1>9. OpenRows(new) = OpenRows(old) /\ \A i \in OpenRows(old) : new[i].kind = old[i].kind
  BY <1>5, <1>7 DEF OpenRows, IsOpen
<1>10. GapsTyped(u)
  BY <1>4, <1>8 DEF Typed, GapsTyped, new
<1>11. GapsKept(old, new)
  BY <1>5, <1>7 DEF GapsKept, IsOpen
<1> QED BY <1>2, <1>3, <1>4, <1>9, <1>10, <1>11, TypedAs DEF Typed, old, new

LEMMA InsertGapEffect ==
  ASSUME NEW t, Typed(t), NEW kind, NEW from \in Int, NEW to, NEW u,
         u = InsertGap(t, kind, from, to)
  PROVE  /\ Typed(u) /\ Follows(t, u)
         /\ SegsAs(t, u) /\ WorkAs(t, u) /\ LogAs(t, u) /\ IdleAs(t, u) /\ RestAs(t, u)
         /\ u.mem.gap = t.mem.gap /\ GapsKept(t.db.gaps, u.db.gaps)
         /\ OpenRows(u.db.gaps) = OpenRows(t.db.gaps)
         /\ \A i \in OpenRows(t.db.gaps) : u.db.gaps[i].kind = t.db.gaps[i].kind
         /\ u.ok => from <= to
<1> DEFINE row == [run |-> t.run, kind |-> kind, start |-> from, end |-> to,
                   status |-> "closed", events |-> 1]
<1>1. Shaped(t)
  BY DEF Typed
<1>2. Shaped(u)
  BY <1>1 DEF InsertGap, Shaped
<1>3. SegsAs(t, u) /\ WorkAs(t, u) /\ LogAs(t, u) /\ IdleAs(t, u) /\ RestAs(t, u)
  BY <1>1 DEF InsertGap, Shaped, SegsAs, WorkAs, LogAs, IdleAs, RestAs, SeenAs
<1>4. u.db.gaps = Append(t.db.gaps, row) /\ u.mem.gap = t.mem.gap
  BY <1>1 DEF InsertGap, Shaped
<1>5. Follows(t, u) /\ (u.ok => from <= to)
  BY <1>1 DEF InsertGap, Shaped, Follows
<1>6. IsGap(row) /\ row.status = "closed"
  BY DEF IsGap
<1> HIDE DEF row
<1>7. Gaps(t.db.gaps) /\ IsRows(t.db.gaps)
  BY DEF Typed, GapsTyped, Gaps
<1>8. GapsTyped(u) /\ GapsKept(t.db.gaps, u.db.gaps)
  BY <1>4, <1>6, <1>7, AppendedRow, GapsKeptAppended DEF Typed, GapsTyped
<1>9. OpenRows(u.db.gaps) = OpenRows(t.db.gaps)
  BY <1>4, <1>6, <1>7, AppendedClosed
<1>10. \A i \in OpenRows(t.db.gaps) : u.db.gaps[i].kind = t.db.gaps[i].kind
  BY <1>4, <1>7, RowsAppended DEF OpenRows
<1> QED BY <1>2, <1>3, <1>4, <1>5, <1>8, <1>9, <1>10, TypedAs DEF Typed

LEMMA StartSegmentEffect ==
  ASSUME NEW t, Typed(t), NEW s, s.app \in Apps, s.utc \in Int, s.state \in States,
         NEW u, u = StartSegment(t, s)
  PROVE  /\ Typed(u) /\ Follows(t, u)
         /\ WorkAs(t, u) /\ GapsAs(t, u) /\ LogAs(t, u) /\ IdleAs(t, u) /\ RestAs(t, u)
         /\ u.mem.seg # NoSegment /\ u.mem.seg.end = s.utc
         /\ u.mem.seg.app = s.app /\ u.mem.seg.state = s.state
         /\ u.ok => /\ SegMirror(u) /\ OneOpen(u.db.segs)
                    /\ u.db.segs[u.mem.seg.id].run = t.run
                    /\ EndsKept(t.db.segs, u.db.segs)
                    /\ SegTimes(t.db.segs) => SegTimes(u.db.segs)
<1> DEFINE epoch == Max({t.cont.epoch, s.epoch})
           n == Len(t.db.segs) + 1
           row == [run |-> t.run, app |-> s.app, state |-> s.state, epoch |-> epoch,
                   start |-> s.utc, end |-> s.utc, status |-> "open"]
           held == [id |-> n, app |-> s.app, state |-> s.state, epoch |-> epoch,
                    start |-> s.utc, end |-> s.utc]
<1> HIDE DEF epoch
<1>1. Shaped(t)
  BY DEF Typed
<1>2. Shaped(u)
  BY <1>1 DEF StartSegment, Shaped
<1>3. WorkAs(t, u) /\ GapsAs(t, u) /\ LogAs(t, u) /\ IdleAs(t, u) /\ RestAs(t, u)
  BY <1>1 DEF StartSegment, Shaped, WorkAs, GapsAs, LogAs, IdleAs, RestAs, SeenAs
<1>4. u.db.segs = Append(t.db.segs, row) /\ u.mem.seg = held
  BY <1>1 DEF StartSegment, Shaped, epoch
<1>5. Follows(t, u) /\ (u.ok => OpenRows(t.db.segs) = {})
  BY <1>1 DEF StartSegment, Shaped, Follows
<1>6. Segments(t.db.segs) /\ IsRows(t.db.segs)
  BY DEF Typed, SegsTyped, Segments
<1>7. n \in Nat \ {0}
  BY <1>6, RowsLen
<1>8. IsSegment(row) /\ row.status = "open" /\ row.start = row.end /\ row.run = t.run
  BY DEF IsSegment
<1>9. /\ IsMemSegment(held) /\ held # NoSegment /\ held.id = n /\ held.end = s.utc
      /\ held.app = s.app /\ held.state = s.state
  BY <1>7 DEF IsMemSegment, NoSegment
<1>10. \A f \in {"app", "state", "epoch", "start", "end"} : row[f] = held[f]
  OBVIOUS
<1> HIDE DEF row, held, n
<1>11. SegsTyped(u)
  BY <1>4, <1>6, <1>8, <1>9, AppendedRow DEF SegsTyped
<1>12. /\ DOMAIN u.db.segs = DOMAIN t.db.segs \cup {n} /\ n \notin DOMAIN t.db.segs
       /\ \A i \in DOMAIN t.db.segs : u.db.segs[i] = t.db.segs[i]
       /\ u.db.segs[n] = row
  BY <1>4, <1>6, RowsAppended DEF n
<1>13. ASSUME u.ok
       PROVE  /\ SegMirror(u) /\ OneOpen(u.db.segs)
              /\ u.db.segs[u.mem.seg.id].run = t.run
              /\ EndsKept(t.db.segs, u.db.segs)
              /\ SegTimes(t.db.segs) => SegTimes(u.db.segs)
  <2>1. OpenRows(u.db.segs) = {n}
    BY <1>4, <1>5, <1>6, <1>8, <1>13, AppendedOpen DEF n
  <2>2. SegMirror(u) /\ OneOpen(u.db.segs)
    BY <1>4, <1>7, <1>9, <1>10, <1>12, <2>1 DEF SegMirror, OneOpen
  <2>3. EndsKept(t.db.segs, u.db.segs)
    BY <1>8, <1>12 DEF EndsKept, EndOf
  <2>4. SegTimes(t.db.segs) => SegTimes(u.db.segs)
    <3>1. row.start <= row.end
      BY <1>8 DEF IsSegment
    <3> QED BY <1>12, <3>1 DEF SegTimes
  <2> QED BY <1>4, <1>8, <1>9, <1>12, <2>2, <2>3, <2>4
<1> QED BY <1>2, <1>3, <1>4, <1>5, <1>9, <1>11, <1>13, TypedAs DEF Typed

LEMMA CloseRowsEffect ==
  ASSUME NEW t, Typed(t), NEW u, u = CloseRows(t)
  PROVE  /\ Typed(u) /\ Follows(t, u) /\ u.ok = t.ok
         /\ GapsAs(t, u) /\ LogAs(t, u) /\ RestAs(t, u)
         /\ u.mem.seg = NoSegment /\ u.mem.work = NoWork
         /\ u.db.segs \in {t.db.segs, Closed(t.db.segs)}
         /\ u.db.blocks \in {t.db.blocks, Closed(t.db.blocks)}
         /\ t.mem.seg # NoSegment => u.db.segs = Closed(t.db.segs)
         /\ SegMirror(t) => SegMirror(u)
         /\ WorkMirror(t) => WorkMirror(u)
<1>1. Shaped(t)
  BY DEF Typed
<1>2. Shaped(u)
  BY <1>1 DEF CloseRows, Shaped
<1>3. GapsAs(t, u) /\ LogAs(t, u) /\ RestAs(t, u) /\ u.ok = t.ok /\ Follows(t, u)
  BY <1>1 DEF CloseRows, Shaped, GapsAs, LogAs, RestAs, SeenAs, Follows
<1>4. /\ u.mem.seg = NoSegment /\ u.mem.work = NoWork
      /\ u.mem.idleStart = NoTime /\ u.mem.idleSum = 0
  BY <1>1 DEF CloseRows, Shaped
<1>5. u.db.segs = IF t.mem.seg = NoSegment THEN t.db.segs ELSE Closed(t.db.segs)
  BY <1>1 DEF CloseRows, Shaped
<1>6. u.db.blocks = IF t.mem.work = NoWork THEN t.db.blocks ELSE Closed(t.db.blocks)
  BY <1>1 DEF CloseRows, Shaped
<1>7. /\ Segments(Closed(t.db.segs)) /\ OpenRows(Closed(t.db.segs)) = {}
      /\ Blocks(Closed(t.db.blocks)) /\ OpenRows(Closed(t.db.blocks)) = {}
  BY ClosedSegments, ClosedBlocks DEF Typed, SegsTyped, WorkTyped
<1>8. SegsTyped(u) /\ WorkTyped(u) /\ IdleTyped(u)
  BY <1>4, <1>5, <1>6, <1>7 DEF Typed, SegsTyped, WorkTyped, IdleTyped, NoTime
<1>9. SegMirror(t) => SegMirror(u)
  BY <1>4, <1>5, <1>7 DEF SegMirror, NoSegment
<1>10. WorkMirror(t) => WorkMirror(u)
  BY <1>4, <1>6, <1>7 DEF WorkMirror, NoWork
<1> QED BY <1>2, <1>3, <1>4, <1>5, <1>6, <1>8, <1>9, <1>10, TypedAs DEF Typed

(* The buckets after a recomputation.                                      *)
RebuiltIn(t, from, to, u) ==
  /\ u.db.hourly =
       [h \in Hours |->
          IF HourOf(from) <= h /\ h <= HourOf(to) THEN HourUsage(t.db.segs, h)
                                                  ELSE t.db.hourly[h]]
  /\ u.db.daily =
       [x \in Dates |->
          IF x \in {DateOf(from), DateOf(to)} THEN DateUsage(t.db.segs, x) ELSE t.db.daily[x]]

LEMMA SameMetrics ==
  ASSUME NEW d, NEW e, e.segs = d.segs, e.blocks = d.blocks, e.gaps = d.gaps, e.obs = d.obs, NEW x
  PROVE  WorkMetrics(e, x) = WorkMetrics(d, x)
<1> DEFINE lo == DayStart(x)
           hi == DayEnd(x)
           C(f) == {b \in DOMAIN f.blocks : BlockActive(f, b, lo, hi) > 0}
           L(f) == {BlockActive(f, b, lo, hi) : b \in C(f)}
           M(f) == [active    |-> Total(f.segs, InSomeBlock(f, "active", lo, hi), lo, hi),
                    shortIdle |-> Total(f.segs, InSomeBlock(f, "idle", lo, hi), lo, hi),
                    blocks    |-> Cardinality(C(f)),
                    longest   |-> Max({0} \cup L(f)),
                    switches  |-> Cardinality(Switches(f, x)),
                    gaps      |-> Cardinality({g \in GapsNear(f, x) :
                                                 DateOf(f.gaps[g].start) = x})]
<1>0. WorkMetrics(d, x) = M(d) /\ WorkMetrics(e, x) = M(e)
  BY DEF WorkMetrics
<1>1. \A b : BlockActive(e, b, lo, hi) = BlockActive(d, b, lo, hi)
  BY DEF BlockActive
<1>2. \A st : InSomeBlock(e, st, lo, hi) = InSomeBlock(d, st, lo, hi)
  BY DEF InSomeBlock
<1>3. GapsNear(e, x) = GapsNear(d, x) /\ SamplesNear(e, x) = SamplesNear(d, x)
  BY DEF GapsNear, SamplesNear
<1>4. Switches(e, x) = Switches(d, x)
  BY <1>3 DEF Switches, ReadBefore
<1> HIDE DEF lo, hi
<1>5. C(e) = C(d)
  BY <1>1
<1>6. L(e) = L(d)
  BY <1>1, <1>5
<1>7. Total(e.segs, InSomeBlock(e, "active", lo, hi), lo, hi)
        = Total(d.segs, InSomeBlock(d, "active", lo, hi), lo, hi)
  BY <1>2
<1>8. Total(e.segs, InSomeBlock(e, "idle", lo, hi), lo, hi)
        = Total(d.segs, InSomeBlock(d, "idle", lo, hi), lo, hi)
  BY <1>2
<1>9. {g \in GapsNear(e, x) : DateOf(e.gaps[g].start) = x}
        = {g \in GapsNear(d, x) : DateOf(d.gaps[g].start) = x}
  BY <1>3
<1> HIDE DEF C, L
<1>10. M(e) = M(d)
  BY <1>4, <1>5, <1>6, <1>7, <1>8, <1>9
<1> QED BY <1>0, <1>10

LEMMA RecomputeRecords ==
  ASSUME NEW t, Shaped(t), NEW from, NEW to, NEW u, u = Recompute(t, from, to)
  PROVE  \A x \in Dates :
           x \in u.db.recorded <=> IF x \in {DateOf(from), DateOf(to)}
                                 THEN WorthARow(WorkMetrics(t.db, x))
                                 ELSE x \in t.db.recorded
<1> DEFINE dates == {DateOf(from), DateOf(to)}
           metrics == [d \in Dates |-> IF d \in dates THEN WorkMetrics(t.db, d) ELSE t.db.metrics[d]]
           told == {d \in Dates \cap dates : WorthARow(metrics[d])}
<1>1. u.db.recorded = (t.db.recorded \ dates) \cup told
  BY Zenon DEF Recompute, Shaped
<1>2. \A x \in Dates \cap dates : metrics[x] = WorkMetrics(t.db, x)
  OBVIOUS
<1> HIDE DEF metrics
<1>3. ASSUME NEW x \in Dates
      PROVE  x \in told <=> x \in dates /\ WorthARow(WorkMetrics(t.db, x))
  BY <1>2
<1> HIDE DEF told
<1> QED BY <1>1, <1>3

LEMMA RecomputeEffect ==
  ASSUME NEW t, Typed(t), NEW from, NEW to, NEW u, u = Recompute(t, from, to)
  PROVE  /\ Typed(u) /\ Goes(t, u) /\ u.mem = t.mem
         /\ SegsAs(t, u) /\ WorkAs(t, u) /\ GapsAs(t, u) /\ LogAs(t, u) /\ IdleAs(t, u)
         /\ RestAs(t, u)
         /\ Fresh(t.db) => Fresh(u.db)
         /\ RowsFrom(t.db, u.db)
<1>1. Shaped(t)
  BY DEF Typed
<1>2. Shaped(u) /\ u.mem = t.mem
  BY <1>1 DEF Recompute, Shaped
<1>3. Goes(t, u)
  BY <1>1 DEF Recompute, Shaped, Goes
<1>4. /\ SegsAs(t, u) /\ WorkAs(t, u) /\ GapsAs(t, u) /\ LogAs(t, u) /\ IdleAs(t, u)
      /\ RestAs(t, u)
  BY <1>1 DEF Recompute, Shaped, SegsAs, WorkAs, GapsAs, LogAs, IdleAs, RestAs, SeenAs
<1>5. Fresh(t.db) => Fresh(u.db)
  <2> SUFFICES ASSUME Fresh(t.db) PROVE Fresh(u.db)
    OBVIOUS
  <2>1. RebuiltIn(t, from, to, u)
    BY <1>1 DEF Recompute, Shaped, RebuiltIn
  <2>2. u.db.segs = t.db.segs
    BY <1>4 DEF SegsAs
  <2>3. u.db.hourly = [h \in Hours |-> HourUsage(t.db.segs, h)]
    BY <2>1 DEF RebuiltIn, Fresh
  <2>4. u.db.daily = [x \in Dates |-> DateUsage(t.db.segs, x)]
    BY <2>1 DEF RebuiltIn, Fresh
  <2> QED BY <2>2, <2>3, <2>4 DEF Fresh
<1>6. RowsFrom(t.db, u.db)
  <2>1. u.db.metrics =
          [x \in Dates |-> IF x \in {DateOf(from), DateOf(to)} THEN WorkMetrics(t.db, x)
                                                             ELSE t.db.metrics[x]]
    BY <1>1 DEF Recompute, Shaped
  <2>2. RebuiltIn(t, from, to, u)
    BY <1>1 DEF Recompute, Shaped, RebuiltIn
  <2>3. \A x : WorkMetrics(u.db, x) = WorkMetrics(t.db, x)
    BY <1>4, SameMetrics DEF SegsAs, WorkAs, GapsAs, LogAs
  <2>4. u.db.segs = t.db.segs
    BY <1>4 DEF SegsAs
  <2>5. ASSUME NEW x \in Dates, x \in {DateOf(from), DateOf(to)}
        PROVE  u.db.daily[x] = DateUsage(u.db.segs, x) /\ u.db.metrics[x] = WorkMetrics(u.db, x)
    <3>1. u.db.daily[x] = DateUsage(u.db.segs, x)
      BY <2>2, <2>4, <2>5 DEF RebuiltIn
    <3>2. u.db.metrics[x] = WorkMetrics(t.db, x)
      BY <2>1, <2>5
    <3> QED BY <2>3, <3>1, <3>2
  <2>6. ASSUME NEW x \in Dates, x \notin {DateOf(from), DateOf(to)}
        PROVE  u.db.daily[x] = t.db.daily[x] /\ u.db.metrics[x] = t.db.metrics[x]
    <3>1. u.db.daily[x] = t.db.daily[x]
      BY <2>2, <2>6 DEF RebuiltIn
    <3>2. u.db.metrics[x] = t.db.metrics[x]
      BY <2>1, <2>6
    <3> QED BY <3>1, <3>2
  <2>7. ASSUME NEW x \in Dates
        PROVE  x \in u.db.recorded <=> IF x \in {DateOf(from), DateOf(to)}
                                      THEN WorthARow(WorkMetrics(u.db, x))
                                      ELSE x \in t.db.recorded
    BY <1>1, <2>3, RecomputeRecords, Zenon
  <2> QED BY <2>5, <2>6, <2>7 DEF RowsFrom
<1> QED BY <1>2, <1>3, <1>4, <1>5, <1>6, TypedAs DEF Typed

-----------------------------------------------------------------------------
(* Work Blocks. *)
LEMMA OthersClosed ==
  ASSUME NEW rows, NEW id, OpenRows(rows) = {id}
  PROVE  \A b \in DOMAIN rows : b # id => ~IsOpen(rows, b)
BY DEF OpenRows

LEMMA UpdateBlockEffect ==
  ASSUME NEW t, Typed(t), NEW w, IsMemBlock(w), NEW u, u = UpdateBlock(t, w)
  PROVE  /\ Typed(u) /\ Follows(t, u)
         /\ SegsAs(t, u) /\ GapsAs(t, u) /\ LogAs(t, u) /\ IdleAs(t, u) /\ RestAs(t, u)
         /\ u.mem.work = w
         /\ OpenRows(u.db.blocks) = OpenRows(t.db.blocks)
         /\ w.id \in OpenRows(t.db.blocks) =>
              \A f \in {"end", "active", "short", "last"} : u.db.blocks[w.id][f] = w[f]
<1> DEFINE old == t.db.blocks
           new == u.db.blocks
<1>1. Shaped(t)
  BY DEF Typed
<1>2. Shaped(u) /\ u.mem.work = w
  BY <1>1 DEF UpdateBlock, Shaped
<1>3. SegsAs(t, u) /\ GapsAs(t, u) /\ LogAs(t, u) /\ IdleAs(t, u) /\ RestAs(t, u)
  BY <1>1 DEF UpdateBlock, Shaped, SegsAs, GapsAs, LogAs, IdleAs, RestAs, SeenAs
<1>4. Follows(t, u)
  BY <1>1 DEF UpdateBlock, Shaped, Follows
<1>5. new = [old EXCEPT ![w.id] = [@ EXCEPT !.end = w.end, !.active = w.active,
                                           !.short = w.short, !.last = w.last]]
  BY <1>1 DEF UpdateBlock, Shaped
<1>6. Blocks(old)
  BY DEF Typed, WorkTyped
<1> HIDE DEF old, new
<1>7. DOMAIN new = DOMAIN old /\ new = [i \in DOMAIN new |-> new[i]]
  BY <1>5
<1>8. ASSUME NEW i \in DOMAIN old
      PROVE  /\ IsBlock(new[i]) /\ new[i].status = old[i].status
             /\ i = w.id => \A f \in {"end", "active", "short", "last"} : new[i][f] = w[f]
  <2>1. IsBlock(old[i])
    BY <1>6 DEF Blocks
  <2>2. CASE i # w.id
    BY <1>5, <2>1, <2>2
  <2>3. CASE i = w.id
    <3>1. new[i] = [old[i] EXCEPT !.end = w.end, !.active = w.active,
                                  !.short = w.short, !.last = w.last]
      BY <1>5, <2>3
    <3> QED BY <2>1, <3>1 DEF IsBlock
  <2> QED BY <2>2, <2>3
<1>9. Blocks(new)
  BY <1>6, <1>7, <1>8, RowsRebuilt DEF Blocks
<1>10. OpenRows(new) = OpenRows(old)
  BY <1>7, <1>8 DEF OpenRows, IsOpen
<1>11. w.id \in OpenRows(old) =>
          \A f \in {"end", "active", "short", "last"} : new[w.id][f] = w[f]
  BY <1>8 DEF OpenRows
<1>12. WorkTyped(u)
  BY <1>2, <1>9 DEF WorkTyped, new
<1> QED BY <1>2, <1>3, <1>4, <1>10, <1>11, <1>12, TypedAs DEF Typed, old, new

LEMMA OpenBlockEffect ==
  ASSUME NEW t, Typed(t), NEW u, u = OpenBlock(t)
  PROVE  /\ Typed(u) /\ Follows(t, u)
         /\ SegsAs(t, u) /\ GapsAs(t, u) /\ LogAs(t, u) /\ IdleAs(t, u) /\ RestAs(t, u)
         /\ IsMemBlock(u.mem.work)
         /\ u.ok => WorkMirror(u) /\ OneOpen(u.db.blocks)
<1> DEFINE seg == t.mem.seg
           n == Len(t.db.blocks) + 1
           row == [run |-> t.run, start |-> seg.start, end |-> seg.start, active |-> 0,
                   short |-> 0, first |-> seg.id, last |-> seg.id, status |-> "open"]
           held == [id |-> n, end |-> seg.start, active |-> 0, short |-> 0, last |-> seg.id]
<1>1. Shaped(t)
  BY DEF Typed
<1>2. Shaped(u)
  BY <1>1 DEF OpenBlock, Shaped
<1>3. SegsAs(t, u) /\ GapsAs(t, u) /\ LogAs(t, u) /\ IdleAs(t, u) /\ RestAs(t, u)
  BY <1>1 DEF OpenBlock, Shaped, SegsAs, GapsAs, LogAs, IdleAs, RestAs, SeenAs
<1>4. u.db.blocks = Append(t.db.blocks, row) /\ u.mem.work = held
  BY <1>1 DEF OpenBlock, Shaped
<1>5. Follows(t, u) /\ (u.ok => OpenRows(t.db.blocks) = {})
  BY <1>1 DEF OpenBlock, Shaped, Follows
<1>6. Blocks(t.db.blocks) /\ IsRows(t.db.blocks)
  BY DEF Typed, WorkTyped, Blocks
<1>7. n \in Nat \ {0}
  BY <1>6, RowsLen
<1>8. IsBlock(row) /\ row.status = "open"
  BY DEF IsBlock
<1>9. IsMemBlock(held) /\ held # NoWork /\ held.id = n
  BY <1>7 DEF IsMemBlock, NoWork
<1>10. \A f \in {"end", "active", "short", "last"} : row[f] = held[f]
  OBVIOUS
<1> HIDE DEF row, held, n
<1>11. WorkTyped(u)
  BY <1>4, <1>6, <1>8, <1>9, AppendedRow DEF WorkTyped
<1>12. u.db.blocks[n] = row
  BY <1>4, <1>6, RowsAppended DEF n
<1>13. ASSUME u.ok
       PROVE  WorkMirror(u) /\ OneOpen(u.db.blocks)
  <2>1. OpenRows(u.db.blocks) = {n}
    BY <1>4, <1>5, <1>6, <1>8, <1>13, AppendedOpen DEF n
  <2> QED BY <1>4, <1>7, <1>9, <1>10, <1>12, <2>1 DEF WorkMirror, OneOpen
<1> QED BY <1>2, <1>3, <1>4, <1>5, <1>9, <1>11, <1>13, TypedAs DEF Typed

LEMMA BreakBlockEffect ==
  ASSUME NEW t, Typed(t), NEW at, NEW u, u = BreakBlock(t, at)
  PROVE  /\ Typed(u) /\ Follows(t, u)
         /\ SegsAs(t, u) /\ GapsAs(t, u) /\ LogAs(t, u) /\ RestAs(t, u)
         /\ WorkMirror(u) /\ OneOpen(u.db.blocks)
<1>1. Shaped(t)
  BY DEF Typed
<1>2. Shaped(u)
  BY <1>1 DEF BreakBlock, Shaped
<1>3. SegsAs(t, u) /\ GapsAs(t, u) /\ LogAs(t, u) /\ RestAs(t, u)
  BY <1>1 DEF BreakBlock, Shaped, SegsAs, GapsAs, LogAs, RestAs, SeenAs
<1>4. Follows(t, u)
  BY <1>1 DEF BreakBlock, Shaped, Follows
<1>5. /\ u.db.blocks = ClosedAt(t.db.blocks, at) /\ u.mem.work = NoWork
      /\ u.mem.idleStart = NoTime /\ u.mem.idleSum = 0
  BY <1>1 DEF BreakBlock, Shaped
<1>6. Blocks(u.db.blocks) /\ OpenRows(u.db.blocks) = {}
  BY <1>5, ClosedBlocks DEF Typed, WorkTyped
<1>7. WorkTyped(u) /\ IdleTyped(u)
  BY <1>5, <1>6 DEF WorkTyped, IdleTyped, NoTime
<1>8. WorkMirror(u) /\ OneOpen(u.db.blocks)
  BY <1>5, <1>6 DEF WorkMirror, OneOpen, NoWork
<1> QED BY <1>2, <1>3, <1>4, <1>7, <1>8, TypedAs DEF Typed

(* An update of the block in memory, and every way it is made.             *)
LEMMA MemBlockChanged ==
  ASSUME NEW w, IsMemBlock(w), NEW new, NEW active, NEW short, NEW end, NEW last,
         \/ new = [w EXCEPT !.active = active, !.end = end, !.last = last]
         \/ new = [w EXCEPT !.end = end, !.last = last]
         \/ new = [w EXCEPT !.short = short, !.last = last]
  PROVE  IsMemBlock(new) /\ new.id = w.id
<1>1. new.id = w.id
  BY DEF IsMemBlock
<1>2. new = [id |-> new.id, end |-> new.end, active |-> new.active, short |-> new.short,
             last |-> new.last]
  BY DEF IsMemBlock
<1> QED BY <1>1, <1>2 DEF IsMemBlock

LEMMA UpdateStep ==
  ASSUME NEW t, Typed(t), t.mem.work # NoWork, NEW w, IsMemBlock(w), w.id = t.mem.work.id,
         NEW u, u = UpdateBlock(t, w)
  PROVE  WorkStep(t, u)
<1>1. u.mem.work = w /\ OpenRows(u.db.blocks) = OpenRows(t.db.blocks)
  BY UpdateBlockEffect
<1>2. w.id \in OpenRows(t.db.blocks) =>
        \A f \in {"end", "active", "short", "last"} : u.db.blocks[w.id][f] = w[f]
  BY UpdateBlockEffect, SMTT(40)
<1>3. w.id # 0
  BY DEF IsMemBlock
<1>4. WorkMirror(t) => WorkMirror(u)
  BY <1>1, <1>2, <1>3 DEF WorkMirror
<1> QED BY <1>1, <1>4 DEF WorkStep, OneOpen

LEMMA CountActiveEffect ==
  ASSUME NEW t, Typed(t), NEW delta, NEW at, NEW v, v = CountActive(t, delta, at)
  PROVE  /\ Typed(v) /\ Follows(t, v) /\ WorkStep(t, v)
         /\ SegsAs(t, v) /\ GapsAs(t, v) /\ LogAs(t, v) /\ RestAs(t, v)
<1> DEFINE u == IF t.mem.work = NoWork THEN OpenBlock(t) ELSE t
           w == [u.mem.work EXCEPT !.active = @ + delta, !.end = at, !.last = t.mem.seg.id]
<1>1. v = UpdateBlock(u, w)
  BY DEF CountActive
<1>2. /\ Typed(u) /\ Follows(t, u) /\ IsMemBlock(u.mem.work)
      /\ SegsAs(t, u) /\ GapsAs(t, u) /\ LogAs(t, u) /\ RestAs(t, u)
      /\ WorkStep(t, u)
  <2>1. CASE t.mem.work = NoWork
    BY <2>1, OpenBlockEffect DEF WorkStep
  <2>2. CASE t.mem.work # NoWork
    BY <2>2 DEF WorkStep, Typed, WorkTyped, Follows, SegsAs, GapsAs, LogAs, RestAs, SeenAs
  <2> QED BY <2>1, <2>2
<1>3. IsMemBlock(w) /\ w.id = u.mem.work.id
  <2> HIDE DEF u
  <2>1. w = [u.mem.work EXCEPT !.active = u.mem.work.active + delta, !.end = at,
                               !.last = t.mem.seg.id]
    OBVIOUS
  <2> HIDE DEF w
  <2> QED BY <1>2, <2>1, MemBlockChanged
<1>4. u.mem.work # NoWork
  BY <1>2 DEF IsMemBlock, NoWork
<1> HIDE DEF u, w
<1>5. /\ Typed(v) /\ Follows(u, v)
      /\ SegsAs(u, v) /\ GapsAs(u, v) /\ LogAs(u, v) /\ RestAs(u, v)
  BY <1>1, <1>2, <1>3, UpdateBlockEffect
<1>6. WorkStep(u, v)
  BY <1>1, <1>2, <1>3, <1>4, UpdateStep
<1> QED BY <1>2, <1>5, <1>6 DEF Follows, WorkStep, SegsAs, GapsAs, LogAs, RestAs, SeenAs

LEMMA CountIdleEffect ==
  ASSUME NEW t, Typed(t), IsMemSegment(t.mem.seg), NEW delta \in Nat, NEW at,
         NEW v, v = CountIdle(t, delta, at)
  PROVE  /\ Typed(v) /\ Follows(t, v) /\ WorkStep(t, v)
         /\ SegsAs(t, v) /\ GapsAs(t, v) /\ LogAs(t, v) /\ RestAs(t, v)
<1> DEFINE start == IF t.mem.idleStart = NoTime THEN t.mem.seg.start ELSE t.mem.idleStart
           sum == (IF t.mem.idleStart = NoTime THEN 0 ELSE t.mem.idleSum) + delta
           q == [t EXCEPT !.mem.idleStart = start, !.mem.idleSum = sum]
           w == [t.mem.work EXCEPT !.end = at, !.last = t.mem.seg.id]
           u == UpdateBlock(q, w)
<1>1. v = IF t.mem.work = NoWork THEN t ELSE IF sum >= WorkBreak THEN BreakBlock(u, start) ELSE u
  BY DEF CountIdle
<1>2. start \in Int /\ sum \in Nat
  BY DEF Typed, IdleTyped, IsMemSegment
<1> HIDE DEF start, sum
<1>3. /\ Typed(q) /\ Follows(t, q)
      /\ SegsAs(t, q) /\ WorkAs(t, q) /\ GapsAs(t, q) /\ LogAs(t, q) /\ RestAs(t, q)
  <2>1. Shaped(q) /\ Follows(t, q)
    BY DEF Typed, Shaped, Follows
  <2>2. SegsAs(t, q) /\ WorkAs(t, q) /\ GapsAs(t, q) /\ LogAs(t, q) /\ RestAs(t, q)
    BY DEF Typed, Shaped, SegsAs, WorkAs, GapsAs, LogAs, RestAs, SeenAs
  <2>3. q.mem.idleStart = start /\ q.mem.idleSum = sum
    BY DEF Typed, Shaped
  <2>4. IdleTyped(q)
    BY <1>2, <2>3 DEF IdleTyped
  <2> QED BY <2>1, <2>2, <2>4, TypedAs DEF Typed
<1> HIDE DEF q
<1>4. CASE t.mem.work = NoWork
  BY <1>1, <1>4 DEF Follows, WorkStep, SegsAs, GapsAs, LogAs, RestAs, SeenAs
<1>5. CASE t.mem.work # NoWork
  <2>1. IsMemBlock(w) /\ w.id = t.mem.work.id
    BY <1>5, MemBlockChanged DEF Typed, WorkTyped
  <2> HIDE DEF w
  <2>2. q.mem.work = t.mem.work
    BY <1>3 DEF WorkAs
  <2>3. /\ Typed(u) /\ Follows(q, u)
        /\ SegsAs(q, u) /\ GapsAs(q, u) /\ LogAs(q, u) /\ RestAs(q, u)
    BY <1>3, <2>1, UpdateBlockEffect
  <2>4. WorkStep(q, u)
    BY <1>3, <1>5, <2>1, <2>2, UpdateStep
  <2>5. WorkStep(t, u)
    BY <1>3, <2>4 DEF WorkStep, WorkAs, WorkMirror
  <2> HIDE DEF u
  <2>6. CASE v = u
    BY <1>3, <2>3, <2>5, <2>6 DEF Follows, SegsAs, GapsAs, LogAs, RestAs, SeenAs
  <2>7. CASE v = BreakBlock(u, start)
    <3>1. /\ Typed(v) /\ Follows(u, v)
          /\ SegsAs(u, v) /\ GapsAs(u, v) /\ LogAs(u, v) /\ RestAs(u, v)
          /\ WorkMirror(v) /\ OneOpen(v.db.blocks)
      BY <2>3, <2>7, BreakBlockEffect
    <3> QED BY <1>3, <2>3, <3>1 DEF WorkStep, Follows, SegsAs, GapsAs, LogAs, RestAs, SeenAs
  <2> QED BY <1>1, <1>5, <2>6, <2>7
<1> QED BY <1>4, <1>5

LEMMA ChangeStateEffect ==
  ASSUME NEW t, Typed(t), NEW from \in States, NEW to \in States, from # to,
         NEW v, v = ChangeState(t, from, to)
  PROVE  /\ Typed(v) /\ Follows(t, v) /\ WorkStep(t, v)
         /\ SegsAs(t, v) /\ GapsAs(t, v) /\ LogAs(t, v) /\ RestAs(t, v)
<1> DEFINE settled == [t EXCEPT !.mem.idleStart = NoTime, !.mem.idleSum = 0]
           closed == [settled EXCEPT
                        !.db.blocks = IF t.mem.work = NoWork THEN @ ELSE Closed(@),
                        !.mem.work = NoWork]
           w == [t.mem.work EXCEPT !.short = @ + t.mem.idleSum, !.last = t.mem.seg.id]
<1>1. /\ Typed(settled) /\ Follows(t, settled)
      /\ SegsAs(t, settled) /\ WorkAs(t, settled) /\ GapsAs(t, settled) /\ LogAs(t, settled)
      /\ RestAs(t, settled)
  <2>1. Shaped(settled) /\ Follows(t, settled)
    BY DEF Typed, Shaped, Follows
  <2>2. /\ SegsAs(t, settled) /\ WorkAs(t, settled) /\ GapsAs(t, settled) /\ LogAs(t, settled)
        /\ RestAs(t, settled)
    BY DEF Typed, Shaped, SegsAs, WorkAs, GapsAs, LogAs, RestAs, SeenAs
  <2>3. settled.mem.idleStart = NoTime /\ settled.mem.idleSum = 0
    BY DEF Typed, Shaped
  <2>4. IdleTyped(settled)
    BY <2>3 DEF IdleTyped, NoTime
  <2> HIDE DEF settled
  <2> QED BY <2>1, <2>2, <2>4, TypedAs DEF Typed
<1>2. v = t \/ v = settled \/ v = closed
      \/ (v = UpdateBlock(settled, w) /\ t.mem.work # NoWork)
  BY DEF ChangeState, States
<1> HIDE DEF settled
<1>3. CASE v = t
  BY <1>3 DEF Follows, WorkStep, SegsAs, GapsAs, LogAs, RestAs, SeenAs
<1>4. CASE v = settled
  BY <1>1, <1>4 DEF WorkStep, WorkAs, WorkMirror
<1>5. CASE v = closed
  <2>1. Shaped(settled)
    BY <1>1 DEF Typed
  <2>2. Shaped(v) /\ Follows(settled, v)
    BY <1>5, <2>1 DEF Shaped, Follows
  <2>3. /\ SegsAs(settled, v) /\ GapsAs(settled, v) /\ LogAs(settled, v) /\ RestAs(settled, v)
        /\ IdleAs(settled, v)
    BY <1>5, <2>1 DEF Shaped, SegsAs, GapsAs, LogAs, RestAs, SeenAs, IdleAs
  <2>4. /\ v.db.blocks = IF t.mem.work = NoWork THEN settled.db.blocks
                          ELSE Closed(settled.db.blocks)
        /\ v.mem.work = NoWork
    BY <1>5, <2>1 DEF Shaped
  <2>5. /\ settled.db.blocks = t.db.blocks /\ Blocks(t.db.blocks)
        /\ Blocks(Closed(t.db.blocks)) /\ OpenRows(Closed(t.db.blocks)) = {}
    BY <1>1, ClosedBlocks DEF WorkAs, Typed, WorkTyped
  <2>6. WorkTyped(v) /\ WorkStep(t, v)
    BY <2>4, <2>5 DEF WorkTyped, WorkStep, WorkMirror, NoWork, OneOpen
  <2>7. Typed(v)
    BY <1>1, <2>2, <2>3, <2>6, TypedAs DEF Typed
  <2> QED BY <1>1, <2>2, <2>3, <2>6, <2>7 DEF Follows, SegsAs, GapsAs, LogAs, RestAs, SeenAs
<1>6. CASE v = UpdateBlock(settled, w) /\ t.mem.work # NoWork
  <2>1. IsMemBlock(w) /\ w.id = t.mem.work.id
    BY <1>6, MemBlockChanged DEF Typed, WorkTyped
  <2> HIDE DEF w
  <2>2. settled.mem.work = t.mem.work
    BY <1>1 DEF WorkAs
  <2>3. /\ Typed(v) /\ Follows(settled, v)
        /\ SegsAs(settled, v) /\ GapsAs(settled, v) /\ LogAs(settled, v) /\ RestAs(settled, v)
    BY <1>1, <1>6, <2>1, UpdateBlockEffect
  <2>4. WorkStep(settled, v)
    BY <1>1, <1>6, <2>1, <2>2, UpdateStep
  <2>5. WorkStep(t, v)
    BY <1>1, <2>4 DEF WorkStep, WorkAs, WorkMirror
  <2> QED BY <1>1, <2>3, <2>5 DEF Follows, SegsAs, GapsAs, LogAs, RestAs, SeenAs
<1> QED BY <1>2, <1>3, <1>4, <1>5, <1>6

LEMMA WorkStepAs ==
  ASSUME NEW t, NEW u, WorkAs(t, u)
  PROVE  WorkStep(t, u)
BY DEF WorkStep, WorkAs, WorkMirror

LEMMA WorkStepTwice ==
  ASSUME NEW t, NEW u, NEW v, WorkStep(t, u), WorkStep(u, v), Follows(u, v)
  PROVE  WorkStep(t, v)
BY DEF WorkStep, Follows

-----------------------------------------------------------------------------
(***************************************************************************)
(* Samples.  A sample leaves a held segment that ends with it; the only    *)
(* row whose end it moves is the segment held before, and only if the      *)
(* sample continues it.                                                    *)
(***************************************************************************)
HeldRun(t) == t.mem.seg # NoSegment => t.db.segs[t.mem.seg.id].run = t.run

Continues(t, v, s) ==
  LET id == t.mem.seg.id
  IN  /\ t.mem.seg # NoSegment /\ t.mem.seg.app = s.app /\ t.mem.seg.state = s.state
      /\ 0 < s.utc - t.mem.seg.end /\ s.utc - t.mem.seg.end <= GapCap
      /\ id \in DOMAIN t.db.segs /\ DOMAIN v.db.segs = DOMAIN t.db.segs
      /\ v.db.segs[id] = [t.db.segs[id] EXCEPT !.end = s.utc]
      /\ \A i \in DOMAIN v.db.segs : i # id => v.db.segs[i] = t.db.segs[i]

SampleStep(t, v, s) ==
  /\ v.mem.seg # NoSegment /\ v.mem.seg.end = s.utc
  /\ v.mem.seg.app = s.app /\ v.mem.seg.state = s.state
  /\ v.ok => /\ SegHeld(t) => SegMirror(v)
             /\ OneOpen(t.db.segs) => OneOpen(v.db.segs)
             /\ SegTimes(t.db.segs) => SegTimes(v.db.segs)
             /\ SegHeld(t) /\ HeldRun(t) => HeldRun(v)
             /\ EndsKept(t.db.segs, v.db.segs) \/ Continues(t, v, s)

LEMMA SampleStepAs ==
  ASSUME NEW t, NEW a, SegsAs(t, a), a.run = t.run, NEW v, NEW w, SegsAs(v, w), w.run = v.run,
         w.ok => v.ok, NEW s, SampleStep(a, v, s)
  PROVE  SampleStep(t, w, s)
<1>1. /\ SegHeld(t) => SegHeld(a)
      /\ HeldRun(t) => HeldRun(a)
      /\ SegMirror(v) => SegMirror(w)
      /\ HeldRun(v) => HeldRun(w)
      /\ Continues(a, v, s) => Continues(t, w, s)
  <2>1. /\ a.db.segs = t.db.segs /\ a.mem.seg = t.mem.seg /\ a.run = t.run
        /\ w.db.segs = v.db.segs /\ w.mem.seg = v.mem.seg /\ w.run = v.run
    BY DEF SegsAs
  <2>2. SegHeld(t) => SegHeld(a)
    BY <2>1 DEF SegHeld, SegMirror
  <2>3. HeldRun(t) => HeldRun(a)
    BY <2>1 DEF HeldRun
  <2>4. SegMirror(v) => SegMirror(w)
    BY <2>1 DEF SegMirror
  <2>5. HeldRun(v) => HeldRun(w)
    BY <2>1 DEF HeldRun
  <2>6. Continues(a, v, s) => Continues(t, w, s)
    BY <2>1 DEF Continues
  <2> QED BY <2>2, <2>3, <2>4, <2>5, <2>6
<1>2. a.db.segs = t.db.segs /\ w.db.segs = v.db.segs /\ w.mem.seg = v.mem.seg
  BY DEF SegsAs
<1> QED BY <1>1, <1>2 DEF SampleStep

(* Closing a table's rows leaves its times and its single open row alone.  *)
LEMMA ClosedKeeps ==
  ASSUME NEW rows, Segments(rows), NEW new, new \in {rows, Closed(rows)}
  PROVE  /\ EndsKept(rows, new)
         /\ SegTimes(rows) => SegTimes(new)
         /\ OneOpen(rows) => OneOpen(new)
<1>1. CASE new = rows
  BY <1>1 DEF EndsKept, EndOf
<1>2. CASE new = Closed(rows)
  <2>1. /\ OpenRows(new) = {} /\ DOMAIN new = DOMAIN rows
        /\ \A i \in DOMAIN rows : /\ new[i].start = rows[i].start /\ new[i].end = rows[i].end
                                  /\ new[i].app = rows[i].app /\ new[i].state = rows[i].state
    BY <1>2, ClosedSegments
  <2> QED BY <2>1 DEF EndsKept, EndOf, SegTimes, OneOpen
<1> QED BY <1>1, <1>2

(***************************************************************************)
(* Fresh buckets.  Rows that tell the same leave every bucket as it is; a  *)
(* sample that continues a segment changes only the buckets of the hours   *)
(* from the old end to the new, and of their two dates.                    *)
(***************************************************************************)
LEMMA InBucket ==
  ASSUME NEW t \in Int, NEW n \in Nat \ {0}, NEW q \in Int
  PROVE  /\ t \div n \in Int
         /\ t < (q + 1) * n <=> t \div n <= q
         /\ q * n <= t <=> q <= t \div n
<1> DEFINE k == t \div n
<1>1. k \in Int /\ n * k <= t /\ t < n * k + n
  OBVIOUS
<1> HIDE DEF k
<1>2. ASSUME NEW x \in Int, NEW y \in Int, x <= y
      PROVE  n * x <= n * y
  BY <1>2
<1>3. (q + 1) * n = n * q + n /\ q * n = n * q /\ n * q \in Int /\ n * k \in Int
  BY <1>1
<1>4. CASE k <= q
  BY <1>1, <1>2, <1>3, <1>4
<1>5. CASE ~(k <= q)
  BY <1>1, <1>2, <1>3, <1>5
<1> QED BY <1>1, <1>4, <1>5 DEF k

LEMMA BucketBounds ==
  /\ \A h \in Hours : /\ h \in Int /\ h * HourTicks \in Int /\ (h + 1) * HourTicks \in Int
                      /\ h * HourTicks < (h + 1) * HourTicks
  /\ \A x \in Dates : /\ x \in Int /\ DayStart(x) \in Int /\ DayEnd(x) \in Int
                      /\ DayStart(x) < DayEnd(x)
<1>1. ASSUME NEW h \in Int, NEW n \in Nat \ {0}
      PROVE  h * n \in Int /\ (h + 1) * n \in Int /\ h * n < (h + 1) * n
  <2>1. h * n \in Int /\ (h + 1) * n = h * n + n
    OBVIOUS
  <2> QED BY <2>1
<1>2. \A h \in Hours : h \in Int
  BY DEF Hours
<1>3. \A x \in Dates : x \in Int
  BY DEF Dates
<1> QED BY <1>1, <1>2, <1>3, ProjectionConstants DEF DayStart, DayEnd

LEMMA FreshBy ==
  ASSUME NEW d, Fresh(d), Segments(d.segs), NEW e, Segments(e.segs),
         e.hourly = d.hourly, e.daily = d.daily,
         \A h \in Hours : TellSame(d.segs, e.segs, h * HourTicks, (h + 1) * HourTicks),
         \A x \in Dates : TellSame(d.segs, e.segs, DayStart(x), DayEnd(x))
  PROVE  Fresh(e)
<1>1. \A h \in Hours : HourUsage(e.segs, h) = HourUsage(d.segs, h)
  BY BucketBounds, SameUsage DEF HourUsage
<1>2. \A x \in Dates : DateUsage(e.segs, x) = DateUsage(d.segs, x)
  BY BucketBounds, SameUsage DEF DateUsage
<1> QED BY <1>1, <1>2 DEF Fresh

LEMMA FreshKept ==
  ASSUME NEW d, Fresh(d), Segments(d.segs), NEW e, Segments(e.segs),
         e.hourly = d.hourly, e.daily = d.daily, EndsKept(d.segs, e.segs)
  PROVE  Fresh(e)
<1>1. ASSUME NEW lo, NEW hi
      PROVE  TellSame(d.segs, e.segs, lo, hi)
  <2>1. ASSUME NEW i \in DOMAIN e.segs \ DOMAIN d.segs
        PROVE  ~Meets(e.segs[i], lo, hi)
    <3>1. e.segs[i].end = e.segs[i].start /\ e.segs[i].start \in Int
      BY DEF EndsKept, EndOf, Segments, IsSegment
    <3> QED BY <3>1 DEF Meets
  <2>2. ASSUME NEW i \in DOMAIN d.segs
        PROVE  /\ e.segs[i].app = d.segs[i].app /\ e.segs[i].state = d.segs[i].state
               /\ e.segs[i].start = d.segs[i].start /\ e.segs[i].end = d.segs[i].end
    BY DEF EndsKept, EndOf
  <2>3. DOMAIN d.segs \subseteq DOMAIN e.segs
    BY DEF EndsKept
  <2> QED BY <2>1, <2>2, <2>3 DEF TellSame, Meets
<1> QED BY <1>1, FreshBy

LEMMA FreshClosed ==
  ASSUME NEW t, Typed(t), NEW u, Typed(u), u.db.segs \in {t.db.segs, Closed(t.db.segs)},
         u.db.hourly = t.db.hourly, u.db.daily = t.db.daily
  PROVE  Fresh(t.db) => Fresh(u.db)
<1>1. Segments(t.db.segs) /\ Segments(u.db.segs)
  BY DEF Typed, SegsTyped
<1>2. EndsKept(t.db.segs, u.db.segs)
  BY <1>1, ClosedKeeps
<1> QED BY <1>1, <1>2, FreshKept

(* Outside of the time a segment is continued over, it tells the same.     *)
LEMMA ContinuedElsewhere ==
  ASSUME NEW t, Segments(t.db.segs), SegHeld(t), NEW v, Segments(v.db.segs), NEW s,
         s.utc \in Int, Continues(t, v, s), NEW lo \in Int, NEW hi \in Int,
         lo < hi, hi <= t.mem.seg.end \/ s.utc <= lo
  PROVE  TellSame(t.db.segs, v.db.segs, lo, hi)
<1> DEFINE id == t.mem.seg.id
           old == t.db.segs
           new == v.db.segs
<1>1. /\ id \in DOMAIN old /\ DOMAIN new = DOMAIN old
      /\ new[id] = [old[id] EXCEPT !.end = s.utc]
      /\ \A i \in DOMAIN new : i # id => new[i] = old[i]
  BY DEF Continues
<1>2. old[id].end = t.mem.seg.end /\ t.mem.seg.end < s.utc
  <2>1. t.mem.seg # NoSegment /\ old[id].end = t.mem.seg.end
    BY DEF Continues, SegHeld, SegMirror
  <2>2. old[id].end \in Int
    BY <1>1 DEF Segments, IsSegment
  <2> QED BY <2>1, <2>2 DEF Continues
<1> HIDE DEF id, old, new
<1>3. IsSegment(old[id])
  BY <1>1 DEF Segments, old
<1>4. /\ new[id].app = old[id].app /\ new[id].state = old[id].state
      /\ new[id].start = old[id].start /\ new[id].end = s.utc
  BY <1>1, <1>3 DEF IsSegment
<1>5. /\ Meets(new[id], lo, hi) <=> Meets(old[id], lo, hi)
      /\ Meets(old[id], lo, hi) => new[id].end >= hi /\ old[id].end >= hi
  <2> DEFINE from == old[id].start
             till == old[id].end
  <2>1. /\ from \in Int /\ till \in Int
        /\ till < s.utc /\ lo < hi /\ (hi <= till \/ s.utc <= lo)
    BY <1>2, <1>3 DEF IsSegment
  <2>2. /\ Meets(old[id], lo, hi) <=> till > lo /\ from < hi /\ till > from
        /\ Meets(new[id], lo, hi) <=> s.utc > lo /\ from < hi /\ s.utc > from
        /\ new[id].end = s.utc /\ old[id].end = till
    BY <1>4 DEF Meets
  <2> HIDE DEF from, till
  <2>3. s.utc > lo /\ from < hi /\ s.utc > from <=> till > lo /\ from < hi /\ till > from
    BY <2>1
  <2>4. till > lo /\ from < hi => s.utc >= hi /\ till >= hi
    BY <2>1
  <2> QED BY <2>2, <2>3, <2>4
<1>6. TellSame(old, new, lo, hi)
  BY <1>1, <1>4, <1>5 DEF TellSame
<1> QED BY <1>6 DEF old, new

(* The touched hours and the two touched dates are all that meet the time  *)
(* from one sample to the next.                                            *)
LEMMA TouchedHours ==
  ASSUME NEW from \in Int, NEW to \in Int, NEW h \in Hours,
         ~(HourOf(from) <= h /\ h <= HourOf(to))
  PROVE  (h + 1) * HourTicks <= from \/ to <= h * HourTicks
<1>1. h \in Int /\ HourTicks \in Nat \ {0} /\ h * HourTicks \in Int /\ (h + 1) * HourTicks \in Int
  BY BucketBounds, ProjectionConstants
<1>2. CASE ~(HourOf(from) <= h)
  <2>1. ~(from < (h + 1) * HourTicks)
    BY <1>1, <1>2, InBucket DEF HourOf
  <2> QED BY <1>1, <2>1
<1>3. CASE ~(h <= HourOf(to))
  <2>1. ~(h * HourTicks <= to)
    BY <1>1, <1>3, InBucket DEF HourOf
  <2> QED BY <1>1, <2>1
<1> QED BY <1>2, <1>3

LEMMA TouchedDates ==
  ASSUME NEW from \in Int, NEW to \in Int, from < to, to - from <= GapCap, NEW x \in Dates,
         x \notin {DateOf(from), DateOf(to)}
  PROVE  DayEnd(x) <= from \/ to <= DayStart(x)
<1> DEFINE f == from + ZoneOffset
           g == to + ZoneOffset
<1>1. /\ x \in Int /\ DayTicks \in Nat \ {0} /\ ZoneOffset \in Nat /\ GapCap <= DayTicks
      /\ GapCap \in Nat
  BY BucketBounds, ProjectionConstants
<1>2. f \in Int /\ g \in Int /\ f < g /\ g - f <= DayTicks
  BY <1>1
<1>3. DateOf(from) = f \div DayTicks /\ DateOf(to) = g \div DayTicks
  BY DEF DateOf
<1> HIDE DEF f, g
<1> DEFINE p == f \div DayTicks
           q == g \div DayTicks
<1>4. p \in Int /\ q \in Int
  BY <1>1, <1>2, InBucket
<1>5. f < (p + 1) * DayTicks
  BY <1>1, <1>2, <1>4, InBucket
<1>6. g < (p + 2) * DayTicks
  <2>1. (p + 2) * DayTicks = (p + 1) * DayTicks + DayTicks /\ (p + 1) * DayTicks \in Int
    BY <1>1, <1>4
  <2> QED BY <1>1, <1>2, <1>5, <2>1
<1>7. q <= p + 1
  <2>1. p + 1 \in Int /\ (p + 1) + 1 = p + 2
    BY <1>4
  <2> QED BY <1>1, <1>2, <1>6, <2>1, InBucket
<1>8. x # p /\ x # q
  BY <1>3
<1>9. DayStart(x) = x * DayTicks - ZoneOffset /\ DayEnd(x) = (x + 1) * DayTicks - ZoneOffset
  BY DEF DayStart, DayEnd
<1>10. x * DayTicks \in Int /\ (x + 1) * DayTicks \in Int
  BY <1>1
<1>11. CASE x < p
  <2>1. ~(f < (x + 1) * DayTicks)
    BY <1>1, <1>2, <1>4, <1>11, InBucket
  <2> QED BY <1>1, <1>2, <1>9, <1>10, <2>1 DEF f
<1>12. CASE p < x
  <2>1. q < x
    BY <1>1, <1>4, <1>7, <1>8, <1>12
  <2>2. ~(x * DayTicks <= g)
    BY <1>1, <1>2, <1>4, <2>1, InBucket
  <2> QED BY <1>1, <1>2, <1>9, <1>10, <2>2 DEF g
<1> QED BY <1>1, <1>4, <1>8, <1>11, <1>12

LEMMA RecomputedAfter ==
  ASSUME NEW t, Typed(t), Fresh(t.db), SegHeld(t), NEW v, Typed(v), Follows(t, v),
         NEW s, s.utc \in Int, Continues(t, v, s),
         NEW u, u = Recompute(v, t.mem.seg.end, s.utc)
  PROVE  Fresh(u.db)
<1> DEFINE from == t.mem.seg.end
           old == t.db.segs
           new == v.db.segs
<1>1. Segments(old) /\ Segments(new)
  BY DEF Typed, SegsTyped
<1>2. from \in Int /\ from < s.utc /\ s.utc - from <= GapCap
  BY DEF Typed, SegsTyped, IsMemSegment, Continues
<1>3. u.db.segs = new
  BY RecomputeEffect DEF SegsAs
<1>4. RebuiltIn(v, from, s.utc, u)
  BY DEF Recompute, Typed, Shaped, RebuiltIn
<1>5. v.db.hourly = t.db.hourly /\ v.db.daily = t.db.daily
  BY DEF Follows
<1> HIDE DEF from
<1>6. ASSUME NEW h \in Hours, ~(HourOf(from) <= h /\ h <= HourOf(s.utc))
      PROVE  v.db.hourly[h] = HourUsage(new, h)
  <2>1. h * HourTicks \in Int /\ (h + 1) * HourTicks \in Int /\ h * HourTicks < (h + 1) * HourTicks
    BY BucketBounds
  <2>2. TellSame(old, new, h * HourTicks, (h + 1) * HourTicks)
    BY <1>1, <1>2, <1>6, <2>1, TouchedHours, ContinuedElsewhere DEF from
  <2>3. HourUsage(new, h) = HourUsage(old, h)
    BY <1>1, <2>1, <2>2, SameUsage DEF HourUsage
  <2> QED BY <1>5, <2>3 DEF Fresh
<1>7. ASSUME NEW x \in Dates, x \notin {DateOf(from), DateOf(s.utc)}
      PROVE  v.db.daily[x] = DateUsage(new, x)
  <2>1. DayStart(x) \in Int /\ DayEnd(x) \in Int /\ DayStart(x) < DayEnd(x)
    BY BucketBounds
  <2>2. TellSame(old, new, DayStart(x), DayEnd(x))
    BY <1>1, <1>2, <1>7, <2>1, TouchedDates, ContinuedElsewhere DEF from
  <2>3. DateUsage(new, x) = DateUsage(old, x)
    BY <1>1, <2>1, <2>2, SameUsage DEF DateUsage
  <2> QED BY <1>5, <2>3 DEF Fresh
<1>8. u.db.hourly = [h \in Hours |-> HourUsage(new, h)]
  BY <1>4, <1>6 DEF RebuiltIn
<1>9. u.db.daily = [x \in Dates |-> DateUsage(new, x)]
  BY <1>4, <1>7 DEF RebuiltIn
<1> QED BY <1>3, <1>8, <1>9 DEF Fresh

LEMMA NothingUsed ==
  ASSUME NEW lo, NEW hi
  PROVE  Usage(<<>>, lo, hi) = NoUsage
<1>1. ASSUME NEW a, NEW st
      PROVE  Hits(<<>>, a, lo, hi) = {} /\ HitsIn(<<>>, a, st, lo, hi) = {}
  BY DEF Hits, HitsIn
<1>2. Total(<<>>, {}, lo, hi) = 0
  <2> DEFINE g == [s \in SUBSET {} |-> 0]
  <2>1. Adds(<<>>, g, {}) /\ g[{}] = 0
    BY DEF Adds
  <2> HIDE DEF g
  <2> QED BY <2>1, TotalIsSum, FS_EmptySet
<1>3. Cardinality({}) = 0
  BY FS_EmptySet
<1> QED BY <1>1, <1>2, <1>3, UsageByHits DEF NoUsage

-----------------------------------------------------------------------------
(***************************************************************************)
(* Lengths.  The length of rows that do not end before they start is the   *)
(* number of their ticks.                                                  *)
(***************************************************************************)
Spans(rows, S) == {it \in S \X Int : rows[it[1]].start <= it[2] /\ it[2] < rows[it[1]].end}

Length(rows, S) == MapThenSumSet(LAMBDA i : rows[i].end - rows[i].start, S)

Timed(rows, S) ==
  \A i \in S : rows[i].start \in Int /\ rows[i].end \in Int /\ rows[i].start <= rows[i].end

LEMMA LengthIsSum ==
  ASSUME NEW S, IsFiniteSet(S), NEW rows, NEW h, NEW g, Adds(h, g, S),
         \A i \in S : h[i] = rows[i].end - rows[i].start
  PROVE  Length(rows, S) = g[S]
<1> DEFINE Iter(f) ==
             f = [s \in SUBSET S |->
                    IF s = {} THEN 0
                    ELSE (rows[CHOOSE x \in s : TRUE].end - rows[CHOOSE x \in s : TRUE].start)
                           + f[s \ {CHOOSE x \in s : TRUE}]]
           f == CHOOSE f : Iter(f)
<1>1. ASSUME NEW s \in SUBSET S, s # {}
      PROVE  h[Chosen(s)] = rows[CHOOSE x \in s : TRUE].end - rows[CHOOSE x \in s : TRUE].start
  BY <1>1 DEF Chosen
<1>2. \A k : Iter(k) <=> Adds(h, k, S)
  BY <1>1 DEF Adds, Chosen
<1>3. Iter(f)
  BY <1>2, ZenonT(60)
<1>4. f = g
  BY <1>2, <1>3, OneSum
<1>5. Length(rows, S) = f[S]
  BY DEF Length, MapThenSumSet, MapThenFoldSet
<1> QED BY <1>4, <1>5

LEMMA SpanOfOne ==
  ASSUME NEW rows, NEW i, Timed(rows, {i})
  PROVE  /\ IsFiniteSet(Spans(rows, {i}))
         /\ Cardinality(Spans(rows, {i})) = rows[i].end - rows[i].start
<1> DEFINE first == rows[i].start
           stop == rows[i].end
           T == first .. stop - 1
<1>1. first \in Int /\ stop \in Int /\ first <= stop
  BY DEF Timed
<1>2. Spans(rows, {i}) = {i} \X T
  BY <1>1 DEF Spans
<1> HIDE DEF first, stop
<1>3. IsFiniteSet(T) /\ Cardinality(T) = stop - first
  <2>1. Cardinality(T) = IF first > stop - 1 THEN 0 ELSE (stop - 1) - first + 1
    BY <1>1, FS_Interval
  <2>2. IsFiniteSet(T)
    BY <1>1, FS_Interval
  <2> QED BY <1>1, <2>1, <2>2
<1> HIDE DEF T
<1>4. IsFiniteSet({i}) /\ Cardinality({i}) = 1
  BY FS_Singleton
<1>5. IsFiniteSet({i} \X T) /\ Cardinality({i} \X T) = Cardinality({i}) * Cardinality(T)
  BY <1>3, <1>4, FS_Product
<1>6. Cardinality({i} \X T) = stop - first
  BY <1>1, <1>3, <1>4, <1>5
<1>7. IsFiniteSet(Spans(rows, {i})) /\ Cardinality(Spans(rows, {i})) = stop - first
  BY <1>2, <1>5, <1>6, Zenon
<1> QED BY <1>7 DEF first, stop

LEMMA SpansFinite ==
  ASSUME NEW S, IsFiniteSet(S), NEW rows, Timed(rows, S)
  PROVE  IsFiniteSet(Spans(rows, S))
<1> DEFINE T == {Spans(rows, {i}) : i \in S}
           f == [i \in S |-> Spans(rows, {i})]
<1>1. f \in Surjection(S, T)
  BY DEF Surjection
<1>2. IsFiniteSet(T)
  BY <1>1, FS_Surjection
<1>3. \A x \in T : IsFiniteSet(x)
  <2>1. \A i \in S : Timed(rows, {i})
    BY DEF Timed
  <2> QED BY <2>1, SpanOfOne
<1>4. Spans(rows, S) = UNION T
  BY DEF Spans
<1> HIDE DEF T
<1>5. IsFiniteSet(UNION T)
  BY <1>2, <1>3, FS_UNION
<1> QED BY <1>4, <1>5

(* Two sets of rows without a common one.                                  *)
LEMMA SpansApart ==
  ASSUME NEW S, IsFiniteSet(S), NEW T, IsFiniteSet(T), S \cap T = {},
         NEW rows, Timed(rows, S), Timed(rows, T)
  PROVE  Cardinality(Spans(rows, S \cup T))
           = Cardinality(Spans(rows, S)) + Cardinality(Spans(rows, T))
<1> DEFINE A == Spans(rows, S)
           B == Spans(rows, T)
<1>1. IsFiniteSet(A) /\ IsFiniteSet(B)
  BY SpansFinite
<1>2. A \cap B = {} /\ Spans(rows, S \cup T) = A \cup B
  BY DEF Spans
<1> HIDE DEF A, B
<1>3. Cardinality(A \cup B) = Cardinality(A) + Cardinality(B) - Cardinality(A \cap B)
  BY <1>1, FS_Union
<1>4. Cardinality(A) \in Nat /\ Cardinality(B) \in Nat /\ Cardinality({}) = 0
  BY <1>1, FS_CardinalityType, FS_EmptySet
<1>5. Cardinality(A \cap B) = 0
  BY <1>2, <1>4, Zenon
<1>6. Cardinality(A \cup B) = Cardinality(A) + Cardinality(B)
  BY <1>3, <1>4, <1>5
<1> QED BY <1>2, <1>6 DEF A, B

LEMMA LengthCountsSpans ==
  ASSUME NEW S, IsFiniteSet(S), NEW rows, Timed(rows, S)
  PROVE  Length(rows, S) = Cardinality(Spans(rows, S))
<1> DEFINE h == [i \in S |-> rows[i].end - rows[i].start]
           g == [s \in SUBSET S |-> Cardinality(Spans(rows, s))]
<1>1. ASSUME NEW s \in SUBSET S, s # {}
      PROVE  g[s] = h[Chosen(s)] + g[s \ {Chosen(s)}]
  <2> DEFINE x == Chosen(s)
  <2>1. x \in s /\ x \in S
    BY <1>1 DEF Chosen
  <2> HIDE DEF x
  <2>2. IsFiniteSet({x}) /\ IsFiniteSet(s \ {x}) /\ {x} \cap (s \ {x}) = {}
    BY FS_Subset, FS_Singleton
  <2>3. Timed(rows, {x}) /\ Timed(rows, s \ {x})
    BY <2>1 DEF Timed
  <2>4. s = {x} \cup (s \ {x})
    BY <2>1
  <2>5. Cardinality(Spans(rows, s))
          = Cardinality(Spans(rows, {x})) + Cardinality(Spans(rows, s \ {x}))
    BY <2>2, <2>3, <2>4, SpansApart
  <2>6. Cardinality(Spans(rows, {x})) = rows[x].end - rows[x].start
    BY <2>3, SpanOfOne
  <2> QED BY <2>1, <2>5, <2>6 DEF x
<1>2. g[{}] = 0
  <2>1. Spans(rows, {}) = {}
    BY DEF Spans
  <2> QED BY <2>1, FS_EmptySet
<1>3. Adds(h, g, S)
  <2>1. \A s \in SUBSET S : g[s] = IF s = {} THEN 0 ELSE h[Chosen(s)] + g[s \ {Chosen(s)}]
    BY <1>1, <1>2
  <2>2. g = [s \in SUBSET S |-> g[s]]
    OBVIOUS
  <2> HIDE DEF g
  <2> QED BY <2>1, <2>2 DEF Adds
<1>4. \A i \in S : h[i] = rows[i].end - rows[i].start
  OBVIOUS
<1>5. g[S] = Cardinality(Spans(rows, S))
  OBVIOUS
<1> HIDE DEF g, h
<1> QED BY <1>3, <1>4, <1>5, LengthIsSum

(* Rows with the same times; rows of length zero; and a row that grows.    *)
LEMMA SpansSame ==
  ASSUME NEW S, NEW rows, NEW new,
         \A i \in S : new[i].start = rows[i].start /\ new[i].end = rows[i].end
  PROVE  Spans(new, S) = Spans(rows, S)
BY DEF Spans

LEMMA SpansZero ==
  ASSUME NEW S, NEW T, S \subseteq T, NEW rows, Timed(rows, T),
         \A i \in T \ S : rows[i].start = rows[i].end
  PROVE  Spans(rows, T) = Spans(rows, S)
<1>1. ASSUME NEW it \in Spans(rows, T)
      PROVE  it[1] \in S
  <2>1. it[1] \in T /\ it[2] \in Int /\ rows[it[1]].start <= it[2] /\ it[2] < rows[it[1]].end
    BY DEF Spans
  <2>2. rows[it[1]].start \in Int /\ rows[it[1]].end \in Int
    BY <2>1 DEF Timed
  <2> QED BY <2>1, <2>2
<1> QED BY <1>1 DEF Spans

LEMMA SpansGrow ==
  ASSUME NEW S, IsFiniteSet(S), NEW rows, Timed(rows, S), NEW new, Timed(new, S), NEW n \in S,
         \A i \in S \ {n} : new[i].start = rows[i].start /\ new[i].end = rows[i].end,
         new[n].start = rows[n].start
  PROVE  Cardinality(Spans(new, S))
           = Cardinality(Spans(rows, S)) + (new[n].end - rows[n].end)
<1> DEFINE T == S \ {n}
<1>1. IsFiniteSet({n}) /\ IsFiniteSet(T) /\ {n} \cap T = {} /\ S = {n} \cup T
  BY FS_Subset, FS_Singleton
<1>2. Timed(rows, {n}) /\ Timed(rows, T) /\ Timed(new, {n}) /\ Timed(new, T)
  BY DEF Timed
<1>3. Spans(new, T) = Spans(rows, T)
  BY SpansSame
<1> HIDE DEF T
<1>4. /\ Cardinality(Spans(rows, S)) = Cardinality(Spans(rows, {n})) + Cardinality(Spans(rows, T))
      /\ Cardinality(Spans(new, S)) = Cardinality(Spans(new, {n})) + Cardinality(Spans(new, T))
  BY <1>1, <1>2, SpansApart
<1>5. /\ Cardinality(Spans(rows, {n})) = rows[n].end - rows[n].start
      /\ Cardinality(Spans(new, {n})) = new[n].end - new[n].start
  BY <1>2, SpanOfOne
<1>6. Cardinality(Spans(rows, T)) \in Nat
  BY <1>1, <1>2, SpansFinite, FS_CardinalityType
<1>7. rows[n].start \in Int /\ rows[n].end \in Int /\ new[n].end \in Int
  BY <1>2 DEF Timed
<1> QED BY <1>3, <1>4, <1>5, <1>6, <1>7

-----------------------------------------------------------------------------
(***************************************************************************)
(* Rows of Work Blocks.  AddsUp is the property, for one row; OpenRow is   *)
(* what else holds of the open one: where its later segments lie, that     *)
(* active ones it has not counted yet have length zero, and that none is   *)
(* active since the idle spell began.                                      *)
(***************************************************************************)
ActiveIn(segs, from, to) == {i \in from .. to : segs[i].state = "active"}

AddsUp(row, segs) ==
  /\ row.first \in Int /\ row.last \in Int /\ row.start \in Int /\ row.end \in Int
  /\ 1 <= row.first /\ row.first <= row.last /\ row.last <= Len(segs)
  /\ row.start = segs[row.first].start /\ row.end <= segs[row.last].end
  /\ row.active = Cardinality(Spans(segs, ActiveIn(segs, row.first, row.last)))
  /\ \A i \in ActiveIn(segs, row.first, row.last) :
       row.start <= segs[i].start /\ segs[i].end <= row.end

Settled(row, segs) == \A i \in ActiveIn(segs, row.first, row.last) : ~IsOpen(segs, i)

IdleFrom(seg, idle) == IF idle = NoTime THEN seg.start ELSE idle

OpenRow(row, segs, seg, idle) ==
  /\ AddsUp(row, segs)
  /\ \A i \in row.first .. seg.id : row.start <= segs[i].start /\ segs[i].end <= seg.end
  /\ \A i \in ActiveIn(segs, row.last + 1, seg.id) : segs[i].start = segs[i].end
  /\ seg.state = "idle" =>
       \A i \in ActiveIn(segs, row.first, seg.id) : segs[i].end <= IdleFrom(seg, idle)
  /\ idle # NoTime => ActiveIn(segs, row.last + 1, seg.id) = {} /\ idle <= seg.end

(* A table, and the segment a memory holds of it: its last row.            *)
Whole(segs) == Segments(segs) /\ SegTimes(segs)

HeldLast(segs, seg) ==
  /\ IsMemSegment(seg) /\ seg.id = Len(segs)
  /\ segs[seg.id].state = seg.state /\ segs[seg.id].start = seg.start /\ segs[seg.id].end = seg.end

(* The held segment grows to end at `at`; or a segment of length zero      *)
(* follows it.                                                             *)
Grown(segs, seg, new, to, at) ==
  /\ Len(new) = Len(segs) /\ \A i \in 1 .. Len(segs) : new[i].state = segs[i].state
  /\ \A i \in 1 .. Len(segs) : i # seg.id => new[i] = segs[i]
  /\ new[seg.id].start = seg.start /\ new[seg.id].end = at
  /\ to.id = seg.id /\ to.state = seg.state /\ to.start = seg.start /\ to.end = at

Begun(segs, new, to, at) ==
  /\ Len(new) = Len(segs) + 1
  /\ \A i \in 1 .. Len(segs) : /\ new[i].state = segs[i].state /\ new[i].start = segs[i].start
                               /\ new[i].end = segs[i].end
  /\ new[Len(new)].state = to.state /\ new[Len(new)].start = at /\ new[Len(new)].end = at
  /\ to.id = Len(new) /\ to.start = at /\ to.end = at

LEMMA WholeRows ==
  ASSUME NEW segs, Whole(segs)
  PROVE  /\ Len(segs) \in Nat /\ DOMAIN segs = 1 .. Len(segs)
         /\ Timed(segs, 1 .. Len(segs))
<1>1. Len(segs) \in Nat /\ DOMAIN segs = 1 .. Len(segs)
  BY RowsLen DEF Whole, Segments
<1>2. ASSUME NEW i \in 1 .. Len(segs)
      PROVE  segs[i].start \in Int /\ segs[i].end \in Int /\ segs[i].start <= segs[i].end
  BY <1>1 DEF Whole, Segments, IsSegment, SegTimes
<1> QED BY <1>1, <1>2 DEF Timed

LEMMA ActiveRows ==
  ASSUME NEW segs, Whole(segs), NEW from \in Int, NEW to \in Int, 1 <= from, to <= Len(segs)
  PROVE  /\ IsFiniteSet(ActiveIn(segs, from, to))
         /\ ActiveIn(segs, from, to) \subseteq 1 .. Len(segs)
         /\ Timed(segs, ActiveIn(segs, from, to))
<1>1. Len(segs) \in Nat /\ Timed(segs, 1 .. Len(segs))
  BY WholeRows
<1>2. ActiveIn(segs, from, to) \subseteq from .. to /\ from .. to \subseteq 1 .. Len(segs)
  BY <1>1 DEF ActiveIn
<1>3. IsFiniteSet(from .. to)
  BY FS_Interval
<1>4. IsFiniteSet(ActiveIn(segs, from, to))
  BY <1>2, <1>3, FS_Subset
<1> QED BY <1>1, <1>2, <1>4 DEF Timed

(* A row goes on adding up while the times of its active segments stay.    *)
LEMMA AddsUpKept ==
  ASSUME NEW segs, Whole(segs), NEW row, AddsUp(row, segs),
         NEW new, Whole(new), Len(segs) <= Len(new),
         \A i \in 1 .. Len(segs) : /\ new[i].state = segs[i].state
                                   /\ new[i].start = segs[i].start
                                   /\ segs[i].end <= new[i].end,
         \A i \in ActiveIn(segs, row.first, row.last) : new[i].end = segs[i].end
  PROVE  AddsUp(row, new)
<1> DEFINE S == ActiveIn(segs, row.first, row.last)
<1>1. Len(segs) \in Nat /\ Len(new) \in Nat
  BY WholeRows
<1>2. row.first .. row.last \subseteq 1 .. Len(segs)
  BY <1>1 DEF AddsUp
<1>3. ActiveIn(new, row.first, row.last) = S
  BY <1>2 DEF ActiveIn
<1>same. \A i \in S : new[i].start = segs[i].start /\ new[i].end = segs[i].end
  BY <1>2 DEF ActiveIn
<1>4. Spans(new, S) = Spans(segs, S)
  BY <1>same, SpansSame
<1>5. row.last <= Len(new)
  BY <1>1 DEF AddsUp
<1>6. row.start = new[row.first].start /\ row.end <= new[row.last].end
  <2>1. row.first \in 1 .. Len(segs) /\ row.last \in 1 .. Len(segs) /\ row.end \in Int
        /\ row.start = segs[row.first].start /\ row.end <= segs[row.last].end
    BY <1>1 DEF AddsUp
  <2>2. segs[row.last].end \in Int /\ segs[row.last].end <= new[row.last].end
    BY <2>1, WholeRows DEF Timed
  <2>3. new[row.last].end \in Int
    BY <1>1, <2>1, WholeRows DEF Timed
  <2> QED BY <2>1, <2>2, <2>3
<1> QED BY <1>same, <1>3, <1>4, <1>5, <1>6 DEF AddsUp

LEMMA SettledKept ==
  ASSUME NEW segs, Whole(segs), NEW row, AddsUp(row, segs), Settled(row, segs),
         NEW new,
         \A i \in 1 .. Len(segs) : /\ new[i].state = segs[i].state
                                   /\ IsOpen(new, i) => IsOpen(segs, i)
  PROVE  Settled(row, new)
<1>1. Len(segs) \in Nat
  BY WholeRows
<1>2. row.first .. row.last \subseteq 1 .. Len(segs)
  BY <1>1 DEF AddsUp
<1>3. ActiveIn(new, row.first, row.last) = ActiveIn(segs, row.first, row.last)
  BY <1>2 DEF ActiveIn
<1> QED BY <1>2, <1>3 DEF Settled, ActiveIn

(* Up to the held segment, an open row counts as far as its last.          *)
LEMMA OpenRowCounts ==
  ASSUME NEW segs, Whole(segs), NEW seg, HeldLast(segs, seg), NEW row, NEW idle,
         OpenRow(row, segs, seg, idle)
  PROVE  /\ row.active = Cardinality(Spans(segs, ActiveIn(segs, row.first, seg.id)))
         /\ row.active \in Nat
         /\ seg.id \in row.first .. seg.id /\ row.first .. seg.id \subseteq 1 .. Len(segs)
<1> DEFINE S == ActiveIn(segs, row.first, row.last)
           T == ActiveIn(segs, row.first, seg.id)
<1>1. /\ row.first \in Int /\ row.last \in Int
      /\ 1 <= row.first /\ row.first <= row.last /\ row.last <= Len(segs)
      /\ row.active = Cardinality(Spans(segs, S))
  BY DEF OpenRow, AddsUp
<1>2. seg.id = Len(segs) /\ Len(segs) \in Nat
  BY WholeRows DEF HeldLast
<1>3. IsFiniteSet(T) /\ Timed(segs, T) /\ IsFiniteSet(S) /\ Timed(segs, S)
  BY <1>1, <1>2, ActiveRows
<1>4. S \subseteq T
  BY <1>1, <1>2 DEF ActiveIn
<1>5. ASSUME NEW i \in T \ S
      PROVE  segs[i].start = segs[i].end
  <2>1. i \in ActiveIn(segs, row.last + 1, seg.id)
    BY <1>1, <1>2 DEF ActiveIn
  <2> QED BY <2>1 DEF OpenRow
<1> HIDE DEF S, T
<1>6. Spans(segs, T) = Spans(segs, S)
  BY <1>3, <1>4, <1>5, SpansZero
<1>7. Cardinality(Spans(segs, S)) \in Nat
  BY <1>3, SpansFinite, FS_CardinalityType
<1> QED BY <1>1, <1>2, <1>6, <1>7 DEF T

LEMMA CountedActive ==
  ASSUME NEW segs, Whole(segs), NEW seg, HeldLast(segs, seg), seg.state = "active",
         NEW new, Whole(new), NEW to, NEW at \in Int, seg.end <= at, Grown(segs, seg, new, to, at),
         NEW row, OpenRow(row, segs, seg, NoTime),
         NEW r, r.first = row.first, r.start = row.start, r.last = seg.id, r.end = at,
         r.active = row.active + (at - seg.end)
  PROVE  OpenRow(r, new, to, NoTime)
<1> DEFINE n == seg.id
           T == ActiveIn(segs, row.first, n)
<1>1. /\ row.active = Cardinality(Spans(segs, T)) /\ row.active \in Nat
      /\ n \in row.first .. n /\ row.first .. n \subseteq 1 .. Len(segs)
  BY OpenRowCounts
<1>2. /\ n = Len(segs) /\ n \in Int /\ seg.end \in Int /\ seg.start \in Int
      /\ segs[n].state = "active" /\ segs[n].end = seg.end /\ segs[n].start = seg.start
  BY DEF HeldLast, IsMemSegment
<1>3. row.first \in Int /\ 1 <= row.first /\ row.start \in Int
  BY DEF OpenRow, AddsUp
<1>4. ActiveIn(new, row.first, n) = T /\ n \in T
  BY <1>1, <1>2 DEF ActiveIn, Grown
<1>5. IsFiniteSet(T) /\ Timed(segs, T) /\ Timed(new, T)
  <2>1. Len(new) = Len(segs)
    BY DEF Grown
  <2> QED BY <1>2, <1>3, <1>4, <2>1, ActiveRows
<1>6. /\ \A i \in T \ {n} : new[i].start = segs[i].start /\ new[i].end = segs[i].end
      /\ new[n].start = segs[n].start /\ new[n].end = at
  BY <1>1, <1>2 DEF Grown, ActiveIn
<1>7. \A i \in row.first .. n : row.start <= new[i].start /\ new[i].end <= at
  <2> TAKE i \in row.first .. n
  <2>1. /\ row.start <= segs[i].start /\ segs[i].end <= seg.end
        /\ segs[i].start \in Int /\ segs[i].end \in Int
    BY <1>1, WholeRows DEF OpenRow, Timed
  <2>2. CASE i = n
    BY <1>2, <1>6, <2>1, <2>2
  <2>3. CASE i # n
    <3>1. new[i] = segs[i]
      BY <1>1, <2>3 DEF Grown
    <3> QED BY <1>2, <2>1, <3>1
  <2> QED BY <2>2, <2>3
<1> HIDE DEF T
<1>8. Cardinality(Spans(new, T)) = Cardinality(Spans(segs, T)) + (new[n].end - segs[n].end)
  BY <1>4, <1>5, <1>6, SpansGrow
<1>9. AddsUp(r, new)
  <2>1. r.active = Cardinality(Spans(new, ActiveIn(new, r.first, r.last)))
    BY <1>1, <1>2, <1>4, <1>6, <1>8
  <2>2. r.first <= r.last /\ r.last <= Len(new)
    BY <1>1, <1>2, <1>3 DEF Grown
  <2>3. r.start = new[r.first].start /\ r.end <= new[r.last].end
    BY <1>1, <1>2, <1>3, <1>6 DEF OpenRow, AddsUp, Grown
  <2> QED BY <1>2, <1>3, <1>7, <2>1, <2>2, <2>3 DEF AddsUp, ActiveIn
<1>10. ActiveIn(new, r.last + 1, to.id) = {}
  BY <1>2 DEF ActiveIn, Grown
<1>11. to.id = n /\ to.end = at /\ to.state = "active"
  BY DEF Grown
<1> QED BY <1>7, <1>9, <1>10, <1>11 DEF OpenRow

LEMMA CountedIdle ==
  ASSUME NEW segs, Whole(segs), NEW seg, HeldLast(segs, seg), seg.state = "idle",
         NEW new, Whole(new), NEW to, NEW at \in Int, seg.end <= at, Grown(segs, seg, new, to, at),
         NEW row, NEW idle \in Int, OpenRow(row, segs, seg, idle),
         NEW r, r.first = row.first, r.start = row.start, r.last = seg.id, r.end = at,
         r.active = row.active
  PROVE  /\ OpenRow(r, new, to, IdleFrom(seg, idle))
         /\ \A i \in ActiveIn(new, r.first, r.last) : new[i].end <= IdleFrom(seg, idle)
         /\ IdleFrom(seg, idle) <= new[r.last].end
<1> DEFINE n == seg.id
           T == ActiveIn(segs, row.first, n)
<1>1. /\ row.active = Cardinality(Spans(segs, T)) /\ row.active \in Nat
      /\ n \in row.first .. n /\ row.first .. n \subseteq 1 .. Len(segs)
  BY OpenRowCounts
<1>2. /\ n = Len(segs) /\ n \in Int /\ seg.end \in Int /\ seg.start \in Int
      /\ segs[n].state = "idle" /\ segs[n].end = seg.end /\ segs[n].start = seg.start
  BY DEF HeldLast, IsMemSegment
<1>3. row.first \in Int /\ 1 <= row.first /\ row.start \in Int
  BY DEF OpenRow, AddsUp
<1>4. ActiveIn(new, row.first, n) = T /\ n \notin T
  BY <1>1, <1>2 DEF ActiveIn, Grown
<1>5. \A i \in T : new[i] = segs[i]
  BY <1>1, <1>4 DEF Grown, ActiveIn
<1>6. \A i \in row.first .. n : row.start <= new[i].start /\ new[i].end <= at
  <2> TAKE i \in row.first .. n
  <2>1. /\ row.start <= segs[i].start /\ segs[i].end <= seg.end
        /\ segs[i].start \in Int /\ segs[i].end \in Int
    BY <1>1, WholeRows DEF OpenRow, Timed
  <2>2. CASE i = n
    <3>1. new[n].start = seg.start /\ new[n].end = at
      BY DEF Grown
    <3> QED BY <1>2, <2>1, <2>2, <3>1
  <2>3. CASE i # n
    <3>1. new[i] = segs[i]
      BY <1>1, <2>3 DEF Grown
    <3> QED BY <1>2, <2>1, <3>1
  <2> QED BY <2>2, <2>3
<1>7. \A i \in T : new[i].end <= IdleFrom(seg, idle)
  BY <1>5 DEF OpenRow
<1>8. Spans(new, T) = Spans(segs, T)
  BY <1>5, SpansSame
<1>9. AddsUp(r, new)
  <2>1. r.active = Cardinality(Spans(new, ActiveIn(new, r.first, r.last)))
    BY <1>1, <1>4, <1>8
  <2>2. r.first <= r.last /\ r.last <= Len(new)
    BY <1>1, <1>2, <1>3 DEF Grown
  <2>3. r.start = new[r.first].start /\ r.end <= new[r.last].end
    BY <1>1, <1>2, <1>3 DEF OpenRow, AddsUp, Grown
  <2> QED BY <1>2, <1>3, <1>6, <2>1, <2>2, <2>3 DEF AddsUp, ActiveIn
<1> HIDE DEF T
<1>10. ActiveIn(new, r.last + 1, to.id) = {}
  BY <1>2 DEF ActiveIn, Grown
<1>11. to.id = n /\ to.end = at /\ to.start = seg.start
  BY DEF Grown
<1>12. IdleFrom(to, IdleFrom(seg, idle)) = IdleFrom(seg, idle)
  BY <1>11 DEF IdleFrom
<1>13. IdleFrom(seg, idle) <= to.end /\ to.end = new[r.last].end
  <2>1. seg.start <= seg.end
    BY <1>1, <1>2, WholeRows DEF Timed
  <2>2. new[n].end = at
    BY DEF Grown
  <2> QED BY <1>2, <1>11, <2>1, <2>2 DEF IdleFrom, OpenRow
<1> QED BY <1>4, <1>6, <1>7, <1>9, <1>10, <1>11, <1>12, <1>13 DEF OpenRow

(* The next segment of a block that goes on.                               *)
LEMMA BlockGoesOn ==
  ASSUME NEW segs, Whole(segs), NEW seg, HeldLast(segs, seg), seg.state \in {"active", "idle"},
         NEW new, Whole(new), NEW to, NEW at \in Int, seg.end <= at, Begun(segs, new, to, at),
         to.state \in {"active", "idle"},
         NEW row, NEW idle \in Int, OpenRow(row, segs, seg, idle),
         seg.state # "idle" => idle = NoTime,
         NEW r, r.first = row.first, r.start = row.start, r.end = row.end, r.active = row.active,
         \/ r.last = row.last
         \/ r.last = seg.id /\ idle # NoTime /\ to.state # seg.state,
         NEW next,
         \/ next = idle /\ to.state = seg.state
         \/ next = NoTime /\ to.state # seg.state
  PROVE  OpenRow(r, new, to, next)
<1> DEFINE n == seg.id
<1>1. /\ n \in row.first .. n /\ row.first .. n \subseteq 1 .. Len(segs)
  BY OpenRowCounts
<1>2. /\ n = Len(segs) /\ n \in Nat /\ seg.end \in Int /\ seg.start \in Int /\ seg.start <= seg.end
      /\ to.id = n + 1
  BY WholeRows DEF HeldLast, IsMemSegment, Begun, Timed
<1>3. /\ row.first \in Int /\ 1 <= row.first /\ row.start \in Int /\ row.last \in Int
      /\ row.first <= row.last /\ row.last <= n
  BY <1>2 DEF OpenRow, AddsUp
<1>4. /\ \A i \in 1 .. n : /\ new[i].state = segs[i].state /\ new[i].start = segs[i].start
                           /\ new[i].end = segs[i].end
      /\ new[n + 1].state = to.state /\ new[n + 1].start = at /\ new[n + 1].end = at
  BY <1>2 DEF Begun
<1>5. AddsUp(row, new)
  <2>1. ActiveIn(segs, row.first, row.last) \subseteq 1 .. n
    BY <1>2, <1>3 DEF ActiveIn
  <2>2. AddsUp(row, segs) /\ Len(segs) <= Len(new)
    BY <1>2 DEF OpenRow, Begun
  <2>3. \A i \in 1 .. n : segs[i].end <= new[i].end
    BY <1>2, <1>4, WholeRows DEF Timed
  <2> QED BY <1>2, <1>4, <2>1, <2>2, <2>3, AddsUpKept
<1>6. AddsUp(r, new)
  <2>1. CASE r.last = row.last
    BY <1>5, <2>1 DEF AddsUp
  <2>2. CASE r.last = n /\ idle # NoTime
    <3>1. ActiveIn(segs, row.last + 1, n) = {}
      BY <2>2 DEF OpenRow
    <3>2. ActiveIn(new, row.first, n) = ActiveIn(new, row.first, row.last)
      BY <1>2, <1>3, <1>4, <3>1, SMTT(40) DEF ActiveIn
    <3>3. n <= Len(new)
      BY <1>2 DEF Begun
    <3>4. r.end <= new[n].end
      <4>1. row.last \in row.first .. n /\ row.last \in 1 .. n
        BY <1>1, <1>2, <1>3
      <4>2. row.end \in Int /\ row.end <= segs[row.last].end
        BY DEF OpenRow, AddsUp
      <4>3. segs[row.last].end <= seg.end /\ segs[row.last].end \in Int
        BY <1>2, <4>1, WholeRows DEF OpenRow, Timed
      <4>4. new[n].end = seg.end
        <5>1. n \in 1 .. n
          BY <1>1, <1>2
        <5>2. new[n].end = segs[n].end
          BY <1>4, <5>1
        <5> QED BY <5>2 DEF HeldLast
      <4> QED BY <1>2, <4>2, <4>3, <4>4
    <3>5. r.start = new[r.first].start
      BY <1>5 DEF AddsUp
    <3> QED BY <1>2, <1>3, <1>5, <2>2, <3>2, <3>3, <3>4, <3>5 DEF AddsUp
  <2> QED BY <2>1, <2>2
<1>7. \A i \in row.first .. n : row.start <= segs[i].start /\ segs[i].end <= seg.end
  BY DEF OpenRow
<1>8. \A i \in row.first .. n + 1 : row.start <= new[i].start /\ new[i].end <= at
  <2>1. row.start <= at
    <3>1. segs[n].start \in Int /\ segs[n].end \in Int /\ segs[n].start <= segs[n].end
      BY <1>1, WholeRows DEF Timed
    <3> QED BY <1>1, <1>2, <1>3, <1>7, <3>1
  <2> TAKE i \in row.first .. n + 1
  <2>2. CASE i = n + 1
    BY <1>4, <2>1, <2>2
  <2>3. CASE i # n + 1
    <3>1. i \in row.first .. n
      BY <1>2, <1>3, <2>3
    <3>2. segs[i].end \in Int
      BY <1>1, <3>1, WholeRows DEF Timed
    <3> QED BY <1>1, <1>2, <1>4, <1>7, <3>1, <3>2
  <2> QED BY <2>2, <2>3
<1>9. \A i \in ActiveIn(new, r.last + 1, n + 1) : new[i].start = new[i].end
  <2> TAKE i \in ActiveIn(new, r.last + 1, n + 1)
  <2>1. CASE i = n + 1
    BY <1>4, <2>1
  <2>2. CASE i # n + 1
    <3>1. r.last \in Int /\ row.last <= r.last
      BY <1>2, <1>3
    <3>2. i \in r.last + 1 .. n + 1 /\ new[i].state = "active"
      BY DEF ActiveIn
    <3> HIDE DEF n
    <3>3. i \in row.last + 1 .. n /\ i \in 1 .. n
      BY <1>2, <1>3, <2>2, <3>1, <3>2
    <3>4. i \in ActiveIn(segs, row.last + 1, n)
      BY <1>4, <3>2, <3>3 DEF ActiveIn
    <3> QED BY <1>4, <3>3, <3>4 DEF OpenRow, n
  <2> QED BY <2>1, <2>2
<1>10. ASSUME to.state = "idle", NEW i \in ActiveIn(new, row.first, n + 1)
       PROVE  new[i].end <= IdleFrom(to, next)
  <2>1. i \in ActiveIn(segs, row.first, n) /\ i \in row.first .. n /\ i \in 1 .. n
    BY <1>1, <1>2, <1>3, <1>4, <1>10 DEF ActiveIn
  <2>2. new[i].end = segs[i].end /\ segs[i].end <= seg.end /\ segs[i].end \in Int
    BY <1>2, <1>4, <1>7, <2>1, WholeRows DEF Timed
  <2>3. to.start = at
    BY DEF Begun
  <2>4. CASE next = NoTime
    BY <1>2, <2>2, <2>3, <2>4 DEF IdleFrom
  <2>5. CASE next # NoTime
    <3>1. next = idle /\ seg.state = "idle"
      BY <1>10, <2>5
    <3>2. segs[i].end <= IdleFrom(seg, idle)
      BY <2>1, <3>1 DEF OpenRow
    <3> QED BY <2>2, <2>5, <3>1, <3>2 DEF IdleFrom
  <2> QED BY <2>4, <2>5
<1>11. ASSUME next # NoTime
       PROVE  ActiveIn(new, r.last + 1, n + 1) = {} /\ next <= at
  <2>1. next = idle /\ to.state = seg.state /\ seg.state = "idle" /\ r.last = row.last
    BY <1>11
  <2>2. ActiveIn(segs, row.last + 1, n) = {} /\ idle <= seg.end
    BY <1>11, <2>1 DEF OpenRow
  <2> QED BY <1>2, <1>3, <1>4, <2>1, <2>2, SMTT(40) DEF ActiveIn
<1>12. to.id = n + 1 /\ to.end = at
  BY <1>2 DEF Begun
<1> HIDE DEF n
<1> QED BY <1>6, <1>8, <1>9, <1>10, <1>11, <1>12 DEF OpenRow

(* The blocks of a transaction: the open one is the memory's, and every    *)
(* other one is settled, so that nothing it counts will grow.              *)
Others(blocks, id, segs) ==
  \A b \in DOMAIN blocks : b # id => AddsUp(blocks[b], segs) /\ Settled(blocks[b], segs)

Served(t) ==
  /\ WorkMirror(t)
  /\ Others(t.db.blocks, t.mem.work.id, t.db.segs)
  /\ t.mem.work # NoWork =>
       /\ t.mem.seg.state # "unknown"
       /\ OpenRow(t.db.blocks[t.mem.work.id], t.db.segs, t.mem.seg, t.mem.idleStart)
  /\ t.mem.work = NoWork =>
       /\ t.mem.idleStart = NoTime
       /\ t.mem.seg.state = "active" => t.mem.seg.start = t.mem.seg.end
  /\ t.mem.seg.state # "idle" => t.mem.idleStart = NoTime

Unserved(t) == t.mem.seg = NoSegment /\ t.mem.work = NoWork /\ t.mem.idleStart = NoTime

BlockHeld(t) == IF t.mem.seg = NoSegment THEN Unserved(t) ELSE Served(t)

BlocksOK(d) ==
  /\ \A i \in OpenRows(d.segs) : i = Len(d.segs)
  /\ OpenRows(d.segs) = {} => OpenRows(d.blocks) = {}
  /\ \A b \in DOMAIN d.blocks :
       /\ AddsUp(d.blocks[b], d.segs)
       /\ ~IsOpen(d.blocks, b) => Settled(d.blocks[b], d.segs)

Sound(t) == SegHeld(t) /\ SegTimes(t.db.segs) /\ BlocksOK(t.db) /\ BlockHeld(t)

(* What a step may do to the rows of the blocks: the segments a block has  *)
(* more of were there with no time in them, if they were there and active, *)
(* and an active segment that grows is one of some block.                  *)
NoTimeIn(segs, from, to) ==
  \A i \in ActiveIn(segs, from, to) : i \in DOMAIN segs => segs[i].start = segs[i].end

SameEnds(rows, new) == \A i \in DOMAIN new : new[i].end = EndOf(rows, i, new[i])

BlocksGo(d, e) ==
  /\ DOMAIN d.blocks \subseteq DOMAIN e.blocks
  /\ \A b \in DOMAIN d.blocks :
       /\ e.blocks[b].first = d.blocks[b].first /\ d.blocks[b].last <= e.blocks[b].last
       /\ NoTimeIn(d.segs, d.blocks[b].last + 1, e.blocks[b].last)
  /\ \A b \in DOMAIN e.blocks \ DOMAIN d.blocks :
       NoTimeIn(d.segs, e.blocks[b].first, e.blocks[b].last)
  /\ \A i \in DOMAIN e.segs :
       e.segs[i].state = "active" /\ e.segs[i].end # EndOf(d.segs, i, e.segs[i]) =>
         \E b \in DOMAIN e.blocks : i \in e.blocks[b].first .. e.blocks[b].last

(* What a row of a block is to its segments does not depend on its status. *)
Alike(row, r) ==
  /\ r.first = row.first /\ r.last = row.last /\ r.active = row.active
  /\ r.start = row.start /\ r.end = row.end

(* The same rows, the ones that are not open unchanged, and maybe more.    *)
Later(segs, new) ==
  /\ Whole(segs) /\ Whole(new) /\ Len(segs) <= Len(new)
  /\ \A i \in 1 .. Len(segs) :
       /\ new[i].state = segs[i].state
       /\ new[i].start = segs[i].start /\ segs[i].end <= new[i].end
       /\ IsOpen(new, i) => IsOpen(segs, i)
       /\ ~IsOpen(segs, i) => new[i].end = segs[i].end

LEMMA SettledLater ==
  ASSUME NEW segs, NEW new, Later(segs, new),
         NEW row, AddsUp(row, segs), Settled(row, segs), NEW r, Alike(row, r)
  PROVE  AddsUp(r, new) /\ Settled(r, new)
<1>1. \A i \in ActiveIn(segs, row.first, row.last) :
         new[i].start = segs[i].start /\ new[i].end = segs[i].end
  <2> TAKE i \in ActiveIn(segs, row.first, row.last)
  <2>1. i \in 1 .. Len(segs)
    BY WholeRows DEF AddsUp, ActiveIn, Later
  <2> QED BY <2>1 DEF Settled, Later
<1>2. AddsUp(row, new)
  BY <1>1, AddsUpKept DEF Later
<1>3. Settled(row, new)
  BY SettledKept DEF Later
<1> QED BY <1>2, <1>3 DEF Alike, AddsUp, Settled

LEMMA OthersLater ==
  ASSUME NEW segs, NEW new, Later(segs, new), NEW blocks, NEW id, Others(blocks, id, segs),
         NEW next, NEW k,
         \A b \in DOMAIN next : b # k => b \in DOMAIN blocks /\ b # id /\ Alike(blocks[b], next[b])
  PROVE  Others(next, k, new)
<1> SUFFICES ASSUME NEW b \in DOMAIN next, b # k
             PROVE  AddsUp(next[b], new) /\ Settled(next[b], new)
  BY DEF Others
<1>1. AddsUp(blocks[b], segs) /\ Settled(blocks[b], segs) /\ Alike(blocks[b], next[b])
  BY DEF Others
<1> QED BY <1>1, SettledLater

(* The parts make the whole.                                               *)
LEMMA BlocksTogether ==
  ASSUME NEW t, Typed(t), Served(t), OpenRows(t.db.segs) # {},
         \A i \in OpenRows(t.db.segs) : i = Len(t.db.segs)
  PROVE  BlocksOK(t.db)
<1>1. ASSUME NEW b \in DOMAIN t.db.blocks
      PROVE  /\ AddsUp(t.db.blocks[b], t.db.segs)
             /\ ~IsOpen(t.db.blocks, b) => Settled(t.db.blocks[b], t.db.segs)
  <2>1. CASE b # t.mem.work.id
    BY <2>1 DEF Served, Others
  <2>2. CASE b = t.mem.work.id
    <3>1. b # 0
      BY RowsLen DEF Typed, WorkTyped, Blocks
    <3>2. t.mem.work # NoWork /\ IsOpen(t.db.blocks, b)
      BY <2>2, <3>1 DEF Served, WorkMirror, NoWork, OpenRows
    <3> QED BY <2>2, <3>2 DEF Served, OpenRow
  <2> QED BY <2>1, <2>2
<1> QED BY <1>1 DEF BlocksOK

LEMMA BlocksApart ==
  ASSUME NEW d, BlocksOK(d), NEW id, OpenRows(d.blocks) \subseteq {id}
  PROVE  Others(d.blocks, id, d.segs)
BY DEF BlocksOK, Others, OpenRows

(* Nothing but the segments, the blocks and the idle spell matter.         *)
LEMMA SoundAs ==
  ASSUME NEW t, NEW u, SegsAs(t, u), WorkAs(t, u), IdleAs(t, u)
  PROVE  Sound(t) <=> Sound(u)
<1>1. SegHeld(t) <=> SegHeld(u)
  BY DEF SegsAs, SegHeld, SegMirror
<1>2. SegTimes(t.db.segs) <=> SegTimes(u.db.segs)
  BY DEF SegsAs
<1>3. BlocksOK(t.db) <=> BlocksOK(u.db)
  BY DEF SegsAs, WorkAs, BlocksOK
<1>4. Served(t) <=> Served(u)
  BY DEF SegsAs, WorkAs, IdleAs, Served, WorkMirror
<1>5. Unserved(t) <=> Unserved(u)
  BY DEF SegsAs, WorkAs, IdleAs, Unserved
<1>6. t.mem.seg = u.mem.seg
  BY DEF SegsAs
<1> QED BY <1>1, <1>2, <1>3, <1>4, <1>5, <1>6 DEF Sound, BlockHeld

(* What a sound transaction that holds a segment knows of it.              *)
LEMMA SoundHolds ==
  ASSUME NEW t, Typed(t), Sound(t), t.mem.seg # NoSegment
  PROVE  /\ Whole(t.db.segs) /\ HeldLast(t.db.segs, t.mem.seg) /\ Served(t)
         /\ OpenRows(t.db.segs) = {t.mem.seg.id}
         /\ t.mem.seg.id \in DOMAIN t.db.segs
<1>1. Whole(t.db.segs)
  BY DEF Typed, SegsTyped, Sound, Whole
<1>2. IsMemSegment(t.mem.seg) /\ SegMirror(t)
  BY DEF Typed, SegsTyped, Sound, SegHeld
<1>3. t.mem.seg.id # 0
  BY <1>2 DEF IsMemSegment
<1>4. OpenRows(t.db.segs) = {t.mem.seg.id}
  BY <1>2, <1>3 DEF SegMirror
<1>5. t.mem.seg.id = Len(t.db.segs)
  BY <1>4 DEF Sound, BlocksOK
<1>6. /\ t.db.segs[t.mem.seg.id].state = t.mem.seg.state
      /\ t.db.segs[t.mem.seg.id].start = t.mem.seg.start
      /\ t.db.segs[t.mem.seg.id].end = t.mem.seg.end
  BY <1>2 DEF SegMirror
<1>7. t.mem.seg.id \in DOMAIN t.db.segs
  BY <1>4 DEF OpenRows
<1> QED BY <1>1, <1>2, <1>4, <1>5, <1>6, <1>7 DEF HeldLast, Sound, BlockHeld

(* The row an update changes, and the others.                              *)
UpdatedRow(old, new, w) ==
  /\ DOMAIN new = DOMAIN old
  /\ \A b \in DOMAIN old : b # w.id => new[b] = old[b]
  /\ w.id \in DOMAIN old =>
       LET r == new[w.id]
           row == old[w.id]
       IN  /\ r.first = row.first /\ r.start = row.start
           /\ r.last = w.last /\ r.end = w.end /\ r.active = w.active

LEMMA UpdateBlockRow ==
  ASSUME NEW t, Typed(t), NEW w, NEW u, u = UpdateBlock(t, w)
  PROVE  UpdatedRow(t.db.blocks, u.db.blocks, w)
<1> DEFINE old == t.db.blocks
           new == u.db.blocks
<1>1. new = [old EXCEPT ![w.id] = [@ EXCEPT !.end = w.end, !.active = w.active,
                                           !.short = w.short, !.last = w.last]]
  BY DEF UpdateBlock, Typed, Shaped
<1>2. Blocks(old)
  BY DEF Typed, WorkTyped
<1> HIDE DEF old, new
<1>3. DOMAIN new = DOMAIN old /\ \A b \in DOMAIN old : b # w.id => new[b] = old[b]
  BY <1>1
<1>4. ASSUME w.id \in DOMAIN old
      PROVE  /\ new[w.id].first = old[w.id].first /\ new[w.id].start = old[w.id].start
             /\ new[w.id].last = w.last /\ new[w.id].end = w.end /\ new[w.id].active = w.active
  <2>1. new[w.id] = [old[w.id] EXCEPT !.end = w.end, !.active = w.active,
                                      !.short = w.short, !.last = w.last]
    BY <1>1, <1>4
  <2>2. IsBlock(old[w.id])
    BY <1>2, <1>4 DEF Blocks
  <2> QED BY <2>1, <2>2 DEF IsBlock
<1> QED BY <1>3, <1>4 DEF UpdatedRow, old, new

LEMMA OpenBlockRow ==
  ASSUME NEW t, Typed(t), NEW u, u = OpenBlock(t)
  PROVE  LET n == Len(t.db.blocks) + 1
             row == u.db.blocks[n]
         IN  /\ DOMAIN u.db.blocks = DOMAIN t.db.blocks \cup {n} /\ n \notin DOMAIN t.db.blocks
             /\ \A b \in DOMAIN t.db.blocks : u.db.blocks[b] = t.db.blocks[b]
             /\ u.mem.work.id = n /\ n \in Nat \ {0} /\ u.mem.work.active = 0
             /\ row.first = t.mem.seg.id /\ row.last = t.mem.seg.id /\ row.active = 0
             /\ row.start = t.mem.seg.start /\ row.end = t.mem.seg.start
<1> DEFINE seg == t.mem.seg
           n == Len(t.db.blocks) + 1
           row == [run |-> t.run, start |-> seg.start, end |-> seg.start, active |-> 0,
                   short |-> 0, first |-> seg.id, last |-> seg.id, status |-> "open"]
           held == [id |-> n, end |-> seg.start, active |-> 0, short |-> 0, last |-> seg.id]
<1>1. u.db.blocks = Append(t.db.blocks, row) /\ u.mem.work = held
  BY DEF OpenBlock, Typed, Shaped
<1>2. IsRows(t.db.blocks)
  BY DEF Typed, WorkTyped, Blocks
<1>3. n \in Nat \ {0}
  BY <1>2, RowsLen
<1>4. /\ row.first = seg.id /\ row.last = seg.id /\ row.active = 0
      /\ row.start = seg.start /\ row.end = seg.start
      /\ held.id = n /\ held.active = 0
  OBVIOUS
<1> HIDE DEF row, held
<1>5. LET new == Append(t.db.blocks, row)
      IN  /\ DOMAIN new = DOMAIN t.db.blocks \cup {n} /\ n \notin DOMAIN t.db.blocks
          /\ \A i \in DOMAIN t.db.blocks : new[i] = t.db.blocks[i]
          /\ new[n] = row
  BY <1>2, RowsAppended
<1> QED BY <1>1, <1>3, <1>4, <1>5

(* Closing: which rows were open, they are told apart by their status, and *)
(* when closed at a time by their end.                                     *)
LEMMA ClosedRow ==
  ASSUME NEW rows, Blocks(rows)
  PROVE  /\ DOMAIN Closed(rows) = DOMAIN rows
         /\ \A b \in DOMAIN rows : Alike(rows[b], Closed(rows)[b])
<1>1. DOMAIN Closed(rows) = DOMAIN rows
  BY DEF Closed
<1>2. ASSUME NEW b \in DOMAIN rows
      PROVE  Alike(rows[b], Closed(rows)[b])
  <2>1. IsBlock(rows[b])
    BY DEF Blocks
  <2>2. Closed(rows)[b] = rows[b] \/ Closed(rows)[b] = [rows[b] EXCEPT !.status = "closed"]
    BY DEF Closed
  <2> QED BY <2>1, <2>2 DEF IsBlock, Alike
<1> QED BY <1>1, <1>2

LEMMA ClosedAtRow ==
  ASSUME NEW rows, Blocks(rows), NEW at, NEW new, new = ClosedAt(rows, at)
  PROVE  /\ DOMAIN new = DOMAIN rows
         /\ \A b \in DOMAIN rows : ~IsOpen(rows, b) => new[b] = rows[b]
         /\ \A b \in OpenRows(rows) :
              /\ new[b].first = rows[b].first /\ new[b].last = rows[b].last
              /\ new[b].active = rows[b].active /\ new[b].start = rows[b].start
              /\ new[b].end = at
<1>1. DOMAIN new = DOMAIN rows /\ \A b \in DOMAIN rows : ~IsOpen(rows, b) => new[b] = rows[b]
  BY DEF ClosedAt
<1>2. ASSUME NEW b \in OpenRows(rows)
      PROVE  /\ new[b].first = rows[b].first /\ new[b].last = rows[b].last
             /\ new[b].active = rows[b].active /\ new[b].start = rows[b].start
             /\ new[b].end = at
  <2>1. IsBlock(rows[b]) /\ b \in DOMAIN rows /\ IsOpen(rows, b)
    BY DEF Blocks, OpenRows
  <2>2. new[b] = [rows[b] EXCEPT !.status = "closed", !.end = at]
    BY <2>1 DEF ClosedAt
  <2> QED BY <2>1, <2>2 DEF IsBlock
<1> QED BY <1>1, <1>2

(* No block has more segments, and none grows.                             *)
LEMMA BlocksStay ==
  ASSUME NEW d, BlocksOK(d), NEW e, SameEnds(d.segs, e.segs),
         DOMAIN e.blocks = DOMAIN d.blocks,
         \A b \in DOMAIN d.blocks : /\ e.blocks[b].first = d.blocks[b].first
                                    /\ e.blocks[b].last = d.blocks[b].last
  PROVE  BlocksGo(d, e)
<1>1. ASSUME NEW b \in DOMAIN d.blocks
      PROVE  /\ d.blocks[b].last <= e.blocks[b].last
             /\ NoTimeIn(d.segs, d.blocks[b].last + 1, e.blocks[b].last)
  <2>1. d.blocks[b].last \in Int /\ e.blocks[b].last = d.blocks[b].last
    BY DEF BlocksOK, AddsUp
  <2> QED BY <2>1 DEF NoTimeIn, ActiveIn
<1>2. \A i \in DOMAIN e.segs : e.segs[i].end = EndOf(d.segs, i, e.segs[i])
  BY DEF SameEnds
<1> QED BY <1>1, <1>2 DEF BlocksGo

LEMMA BlocksStayClosed ==
  ASSUME NEW d, BlocksOK(d), Blocks(d.blocks), NEW e, SameEnds(d.segs, e.segs),
         e.blocks \in {d.blocks, Closed(d.blocks)}
  PROVE  BlocksGo(d, e)
<1>1. /\ DOMAIN e.blocks = DOMAIN d.blocks
      /\ \A b \in DOMAIN d.blocks : /\ e.blocks[b].first = d.blocks[b].first
                                    /\ e.blocks[b].last = d.blocks[b].last
  BY ClosedRow DEF Alike
<1> QED BY <1>1, BlocksStay

LEMMA EndsKeptSame ==
  ASSUME NEW rows, NEW new, EndsKept(rows, new)
  PROVE  SameEnds(rows, new)
BY DEF EndsKept, SameEnds

LEMMA BlocksGoAs ==
  ASSUME NEW d, NEW e, BlocksGo(d, e), NEW c, c.segs = d.segs, c.blocks = d.blocks,
         NEW f, f.segs = e.segs, f.blocks = e.blocks
  PROVE  BlocksGo(c, f)
BY DEF BlocksGo

-----------------------------------------------------------------------------
(* A segment that grows with its sample.                                   *)
Lengthened(t, s) ==
  [t EXCEPT !.db.segs[t.mem.seg.id].end = s.utc, !.mem.seg.end = s.utc,
            !.ok = @ /\ IsOpen(t.db.segs, t.mem.seg.id) /\ t.db.segs[t.mem.seg.id].end <= s.utc]

(* What is known of a transaction and of the one in which its segment grew.*)
Grows(t, u, at) ==
  /\ Typed(t) /\ Sound(t) /\ t.mem.seg # NoSegment /\ at \in Int /\ t.mem.seg.end <= at
  /\ Typed(u) /\ WorkAs(t, u) /\ IdleAs(t, u) /\ SegMirror(u) /\ SegTimes(u.db.segs)
  /\ OpenRows(u.db.segs) = OpenRows(t.db.segs) /\ Len(u.db.segs) = Len(t.db.segs)
  /\ Grown(t.db.segs, t.mem.seg, u.db.segs, u.mem.seg, at)

LEMMA LengthenedSound ==
  ASSUME NEW t, Typed(t), Sound(t), t.mem.seg # NoSegment, NEW s, s.utc \in Int,
         t.mem.seg.end <= s.utc, NEW u, u = Lengthened(t, s), Typed(u), SegMirror(u),
         SegTimes(u.db.segs), WorkAs(t, u), IdleAs(t, u)
  PROVE  Grows(t, u, s.utc)
<1> DEFINE id == t.mem.seg.id
           old == t.db.segs
           new == u.db.segs
<1>1. /\ new = [old EXCEPT ![id] = [@ EXCEPT !.end = s.utc]]
      /\ u.mem.seg = [t.mem.seg EXCEPT !.end = s.utc]
  BY DEF Lengthened, Typed, Shaped
<1>2. /\ HeldLast(old, t.mem.seg) /\ OpenRows(old) = {id} /\ id \in DOMAIN old /\ Whole(old)
  BY SoundHolds
<1>3. /\ u.mem.seg.id = id /\ u.mem.seg.state = t.mem.seg.state /\ u.mem.seg.start = t.mem.seg.start
      /\ u.mem.seg.end = s.utc
  BY <1>1, <1>2 DEF HeldLast, IsMemSegment
<1>4. DOMAIN new = DOMAIN old /\ \A i \in DOMAIN old : i # id => new[i] = old[i]
  BY <1>1
<1>5. /\ new[id].state = old[id].state /\ new[id].start = old[id].start /\ new[id].end = s.utc
  <2>1. IsSegment(old[id])
    BY <1>2 DEF Whole, Segments
  <2>2. new[id] = [old[id] EXCEPT !.end = s.utc]
    BY <1>1, <1>2
  <2> QED BY <2>1, <2>2 DEF IsSegment
<1>6. OpenRows(new) = OpenRows(old)
  <2>1. OpenRows(new) = {u.mem.seg.id} \ {0} /\ id # 0
    BY <1>2 DEF SegMirror, HeldLast, IsMemSegment
  <2> QED BY <1>2, <1>3, <2>1
<1>7. Len(new) = Len(old) /\ DOMAIN old = 1 .. Len(old)
  BY <1>4, RowsLen DEF Typed, SegsTyped, Segments
<1> HIDE DEF old, new, id
<1>8. Grown(old, t.mem.seg, new, u.mem.seg, s.utc)
  BY <1>2, <1>3, <1>4, <1>5, <1>7 DEF Grown, HeldLast, id
<1> QED BY <1>6, <1>7, <1>8 DEF Grows, old, new

LEMMA GrowsLater ==
  ASSUME NEW t, NEW u, NEW at, Grows(t, u, at)
  PROVE  /\ Later(t.db.segs, u.db.segs)
         /\ Whole(t.db.segs) /\ Whole(u.db.segs) /\ HeldLast(t.db.segs, t.mem.seg) /\ Served(t)
         /\ IsMemSegment(t.mem.seg) /\ IsMemSegment(u.mem.seg) /\ u.mem.seg # NoSegment
         /\ OpenRows(u.db.segs) = {Len(u.db.segs)}
         /\ u.db.blocks = t.db.blocks /\ u.mem.work = t.mem.work
         /\ u.mem.idleStart = t.mem.idleStart
<1>1. /\ Whole(t.db.segs) /\ HeldLast(t.db.segs, t.mem.seg) /\ Served(t)
      /\ OpenRows(t.db.segs) = {t.mem.seg.id} /\ t.mem.seg.id \in DOMAIN t.db.segs
  BY SoundHolds DEF Grows
<1>2. Whole(u.db.segs)
  BY DEF Grows, Typed, SegsTyped, Whole
<1>3. IsMemSegment(t.mem.seg)
  BY DEF Grows, Typed, SegsTyped
<1>4. Grown(t.db.segs, t.mem.seg, u.db.segs, u.mem.seg, at)
  BY DEF Grows
<1>5. u.mem.seg # NoSegment /\ IsMemSegment(u.mem.seg)
  <2>1. t.mem.seg.id # 0 /\ u.mem.seg.id = t.mem.seg.id
    BY <1>3, <1>4 DEF IsMemSegment, Grown
  <2> QED BY <2>1 DEF NoSegment, Grows, Typed, SegsTyped
<1>6. Later(t.db.segs, u.db.segs)
  <2>1. Len(u.db.segs) = Len(t.db.segs) /\ Len(t.db.segs) \in Nat
    BY <1>1, WholeRows DEF Grows
  <2>2. ASSUME NEW i \in 1 .. Len(t.db.segs)
        PROVE  /\ u.db.segs[i].state = t.db.segs[i].state
               /\ u.db.segs[i].start = t.db.segs[i].start
               /\ t.db.segs[i].end <= u.db.segs[i].end
               /\ IsOpen(u.db.segs, i) => IsOpen(t.db.segs, i)
               /\ ~IsOpen(t.db.segs, i) => u.db.segs[i].end = t.db.segs[i].end
    <3>1. i \in OpenRows(u.db.segs) <=> i \in OpenRows(t.db.segs)
      BY DEF Grows
    <3>2. DOMAIN t.db.segs = 1 .. Len(t.db.segs) /\ DOMAIN u.db.segs = 1 .. Len(u.db.segs)
      BY <1>1, <1>2, WholeRows
    <3>3. IsOpen(t.db.segs, i) <=> i = t.mem.seg.id
      BY <1>1, <3>2 DEF OpenRows
    <3>4. /\ u.db.segs[i].start = t.db.segs[i].start
          /\ t.db.segs[i].end <= u.db.segs[i].end
      <4>1. t.db.segs[i].end \in Int
        BY <1>1, WholeRows DEF Timed
      <4>2. /\ t.db.segs[t.mem.seg.id].start = t.mem.seg.start
            /\ t.db.segs[t.mem.seg.id].end = t.mem.seg.end /\ t.mem.seg.end <= at
        BY <1>1 DEF HeldLast, Grows
      <4>3. CASE i = t.mem.seg.id
        BY <1>4, <4>2, <4>3 DEF Grown
      <4>4. CASE i # t.mem.seg.id
        BY <1>4, <4>1, <4>4 DEF Grown
      <4> QED BY <4>3, <4>4
    <3> QED BY <1>4, <2>1, <3>1, <3>2, <3>3, <3>4 DEF Grown, OpenRows
  <2> QED BY <1>1, <1>2, <2>1, <2>2 DEF Later
<1>7. OpenRows(u.db.segs) = {Len(u.db.segs)}
  BY <1>1 DEF Grows, HeldLast
<1> QED BY <1>1, <1>2, <1>3, <1>5, <1>6, <1>7 DEF Grows, WorkAs, IdleAs

LEMMA GrownSound ==
  ASSUME NEW t, NEW u, NEW at, Grows(t, u, at), NEW v, Typed(v), SegsAs(u, v), Served(v)
  PROVE  Sound(v)
<1>1. OpenRows(u.db.segs) = {Len(u.db.segs)} /\ u.mem.seg # NoSegment
  BY GrowsLater
<1>2. /\ v.db.segs = u.db.segs /\ v.mem.seg = u.mem.seg
  BY DEF SegsAs
<1>3. SegHeld(v) /\ SegTimes(v.db.segs)
  BY <1>2 DEF Grows, SegHeld, SegMirror
<1>4. BlocksOK(v.db)
  BY <1>1, <1>2, BlocksTogether
<1> QED BY <1>1, <1>2, <1>3, <1>4 DEF Sound, BlockHeld

(* The block that counts the grown segment has it for its last.            *)
LEMMA GrownCounted ==
  ASSUME NEW t, NEW u, NEW at, Grows(t, u, at), NEW v, SegsAs(u, v), NEW id,
         DOMAIN v.db.blocks = DOMAIN t.db.blocks \cup {id},
         \A b \in DOMAIN t.db.blocks : /\ v.db.blocks[b].first = t.db.blocks[b].first
                                       /\ b # id => v.db.blocks[b].last = t.db.blocks[b].last,
         t.mem.seg.id \in v.db.blocks[id].first .. v.db.blocks[id].last,
         id \in DOMAIN t.db.blocks =>
            /\ t.db.blocks[id].last <= v.db.blocks[id].last
            /\ NoTimeIn(t.db.segs, t.db.blocks[id].last + 1, v.db.blocks[id].last),
         id \notin DOMAIN t.db.blocks =>
            NoTimeIn(t.db.segs, v.db.blocks[id].first, v.db.blocks[id].last)
  PROVE  BlocksGo(t.db, v.db)
<1>1. /\ v.db.segs = u.db.segs /\ BlocksOK(t.db)
      /\ DOMAIN t.db.segs = 1 .. Len(t.db.segs) /\ DOMAIN u.db.segs = 1 .. Len(u.db.segs)
      /\ Grown(t.db.segs, t.mem.seg, u.db.segs, u.mem.seg, at)
  BY GrowsLater, WholeRows DEF Grows, Sound, SegsAs
<1>2. ASSUME NEW i \in DOMAIN v.db.segs, v.db.segs[i].end # EndOf(t.db.segs, i, v.db.segs[i])
      PROVE  i = t.mem.seg.id
  BY <1>1, <1>2 DEF Grown, EndOf
<1>3. ASSUME NEW b \in DOMAIN t.db.blocks, b # id
      PROVE  /\ t.db.blocks[b].last <= v.db.blocks[b].last
             /\ NoTimeIn(t.db.segs, t.db.blocks[b].last + 1, v.db.blocks[b].last)
  <2>1. AddsUp(t.db.blocks[b], t.db.segs)
    BY <1>1 DEF BlocksOK
  <2>2. t.db.blocks[b].last \in Int /\ v.db.blocks[b].last = t.db.blocks[b].last
    BY <1>3, <2>1 DEF AddsUp
  <2> QED BY <2>2 DEF NoTimeIn, ActiveIn
<1>4. DOMAIN t.db.blocks \subseteq DOMAIN v.db.blocks
  OBVIOUS
<1>5. ASSUME NEW b \in DOMAIN t.db.blocks
      PROVE  /\ v.db.blocks[b].first = t.db.blocks[b].first
             /\ t.db.blocks[b].last <= v.db.blocks[b].last
             /\ NoTimeIn(t.db.segs, t.db.blocks[b].last + 1, v.db.blocks[b].last)
  BY <1>3
<1>6. ASSUME NEW b \in DOMAIN v.db.blocks \ DOMAIN t.db.blocks
      PROVE  NoTimeIn(t.db.segs, v.db.blocks[b].first, v.db.blocks[b].last)
  <2>1. b = id
    OBVIOUS
  <2> QED BY <2>1
<1>7. ASSUME NEW i \in DOMAIN v.db.segs, v.db.segs[i].end # EndOf(t.db.segs, i, v.db.segs[i])
      PROVE  \E b \in DOMAIN v.db.blocks : i \in v.db.blocks[b].first .. v.db.blocks[b].last
  BY <1>2, <1>7
<1> QED BY <1>4, <1>5, <1>6, <1>7 DEF BlocksGo

LEMMA OnlyOpenOther ==
  ASSUME NEW t, Sound(t), t.mem.seg # NoSegment, t.mem.work = NoWork
  PROVE  OpenRows(t.db.blocks) = {} /\ \A id : Others(t.db.blocks, id, t.db.segs)
<1>1. OpenRows(t.db.blocks) = {}
  BY DEF Sound, BlockHeld, Served, WorkMirror, NoWork
<1> QED BY <1>1, BlocksApart DEF Sound

(* A block that opens with its first active interval counts the interval:  *)
(* its segment had length zero.                                            *)
LEMMA OpenedRow ==
  ASSUME NEW segs, Whole(segs), NEW seg, HeldLast(segs, seg), seg.state = "active",
         seg.start = seg.end, NEW row,
         row.first = seg.id, row.last = seg.id, row.active = 0,
         row.start = seg.start, row.end = seg.start
  PROVE  OpenRow(row, segs, seg, NoTime)
<1> DEFINE n == seg.id
<1>1. /\ n = Len(segs) /\ n \in Nat \ {0} /\ seg.start \in Int
      /\ segs[n].start = seg.start /\ segs[n].end = seg.start /\ segs[n].state = "active"
  BY WholeRows DEF HeldLast, IsMemSegment
<1>2. ActiveIn(segs, n, n) = {n} /\ ActiveIn(segs, n + 1, n) = {}
  BY <1>1 DEF ActiveIn
<1>3. Cardinality(Spans(segs, {n})) = 0
  <2>1. Timed(segs, {n})
    BY <1>1 DEF Timed
  <2> QED BY <1>1, <2>1, SpanOfOne
<1>4. AddsUp(row, segs)
  BY <1>1, <1>2, <1>3 DEF AddsUp
<1> QED BY <1>1, <1>2, <1>4 DEF OpenRow

LEMMA CountActiveSound ==
  ASSUME NEW t, NEW u, NEW at, Grows(t, u, at), u.mem.seg.state = "active",
         NEW v, v = CountActive(u, at - t.mem.seg.end, at), v.ok
  PROVE  Sound(v) /\ BlocksGo(t.db, v.db)
<1> DEFINE q == IF u.mem.work = NoWork THEN OpenBlock(u) ELSE u
           delta == at - t.mem.seg.end
           w == [q.mem.work EXCEPT !.active = @ + delta, !.end = at, !.last = u.mem.seg.id]
           id == q.mem.work.id
           row == q.db.blocks[id]
<1>1. v = UpdateBlock(q, w)
  BY DEF CountActive
<1>2. /\ Later(t.db.segs, u.db.segs)
      /\ Whole(t.db.segs) /\ Whole(u.db.segs) /\ HeldLast(t.db.segs, t.mem.seg) /\ Served(t)
      /\ u.mem.seg # NoSegment /\ u.db.blocks = t.db.blocks /\ u.mem.work = t.mem.work
      /\ u.mem.idleStart = t.mem.idleStart
  BY GrowsLater
<1>3. /\ u.mem.seg.id = t.mem.seg.id /\ t.mem.seg.state = "active"
      /\ u.mem.seg.start = t.mem.seg.start
  BY DEF Grows, Grown
<1>4. t.mem.idleStart = NoTime
  BY <1>2, <1>3 DEF Served
<1>5. /\ Typed(q) /\ SegsAs(u, q) /\ IdleAs(u, q)
      /\ IsMemBlock(q.mem.work) /\ id \in DOMAIN q.db.blocks
      /\ Others(q.db.blocks, id, t.db.segs)
      /\ OpenRow(row, t.db.segs, t.mem.seg, NoTime)
      /\ q.mem.work.active = row.active
      /\ DOMAIN q.db.blocks = DOMAIN t.db.blocks \cup {id}
      /\ \A b \in DOMAIN t.db.blocks : q.db.blocks[b] = t.db.blocks[b]
      /\ id \notin DOMAIN t.db.blocks =>
           row.first = t.mem.seg.id /\ t.mem.seg.start = t.mem.seg.end
  <2>1. CASE t.mem.work = NoWork
    <3> DEFINE n == Len(u.db.blocks) + 1
    <3>1. q = OpenBlock(u)
      BY <1>2, <2>1
    <3> HIDE DEF q
    <3>2. Typed(q) /\ SegsAs(u, q) /\ IdleAs(u, q) /\ IsMemBlock(q.mem.work)
      BY <3>1, OpenBlockEffect DEF Grows
    <3>3. /\ DOMAIN q.db.blocks = DOMAIN u.db.blocks \cup {n} /\ n \notin DOMAIN u.db.blocks
          /\ \A b \in DOMAIN u.db.blocks : q.db.blocks[b] = u.db.blocks[b]
          /\ id = n /\ q.mem.work.active = 0
          /\ row.first = u.mem.seg.id /\ row.last = u.mem.seg.id /\ row.active = 0
          /\ row.start = u.mem.seg.start /\ row.end = u.mem.seg.start
      BY <3>1, OpenBlockRow DEF Grows
    <3>4. Others(t.db.blocks, id, t.db.segs)
      BY <2>1, OnlyOpenOther DEF Grows
    <3>5. Others(q.db.blocks, id, t.db.segs)
      BY <1>2, <3>3, <3>4 DEF Others
    <3>6. t.mem.seg.start = t.mem.seg.end
      BY <1>2, <1>3, <2>1 DEF Served
    <3> HIDE DEF row
    <3>7. OpenRow(row, t.db.segs, t.mem.seg, NoTime)
      BY <1>2, <1>3, <3>3, <3>6, OpenedRow
    <3>8. row.first = t.mem.seg.id
      BY <1>3, <3>3
    <3> QED BY <1>2, <3>2, <3>3, <3>5, <3>6, <3>7, <3>8
  <2>2. CASE t.mem.work # NoWork
    <3>1. q = u
      BY <1>2, <2>2
    <3> HIDE DEF q
    <3>2. Typed(q) /\ SegsAs(u, q) /\ IdleAs(u, q) /\ IsMemBlock(q.mem.work)
      BY <1>2, <2>2, <3>1 DEF Grows, SegsAs, IdleAs, Typed, WorkTyped
    <3>3. /\ q.db.blocks = t.db.blocks /\ q.mem.work = t.mem.work
      BY <1>2, <3>1
    <3>4. id \in DOMAIN q.db.blocks /\ q.mem.work.active = row.active
      BY <1>2, <2>2, <3>2, <3>3 DEF Served, WorkMirror, OpenRows, IsMemBlock
    <3> QED BY <1>2, <1>4, <2>2, <3>2, <3>3, <3>4 DEF Served
  <2> QED BY <2>1, <2>2
<1>6. /\ w.id = id /\ w.end = at /\ w.last = t.mem.seg.id /\ w.active = row.active + delta
      /\ IsMemBlock(w)
  <2> HIDE DEF q
  <2>1. w = [q.mem.work EXCEPT !.active = q.mem.work.active + delta, !.end = at,
                               !.last = u.mem.seg.id]
    OBVIOUS
  <2>2. IsMemBlock(w) /\ w.id = id
    BY <1>5, <2>1, MemBlockChanged, ZenonT(60)
  <2>3. w.end = at /\ w.last = u.mem.seg.id /\ w.active = q.mem.work.active + delta
    BY <1>5 DEF IsMemBlock
  <2> QED BY <1>3, <1>5, <2>2, <2>3
<1>7. Typed(v) /\ SegsAs(u, v) /\ WorkMirror(v)
  <2>1. /\ Typed(v) /\ WorkStep(u, v) /\ SegsAs(u, v)
    BY CountActiveEffect DEF Grows
  <2>2. WorkMirror(u)
    BY <1>2 DEF Served, WorkMirror
  <2> QED BY <2>1, <2>2 DEF WorkStep
<1> HIDE DEF q, w
<1>8. v.mem.work = w /\ v.mem.idleStart = NoTime
  <2>1. w.id = id /\ IsMemBlock(w) /\ Typed(q) /\ q.mem.idleStart = NoTime
        /\ v = UpdateBlock(q, w)
    BY <1>1, <1>2, <1>4, <1>5, <1>6 DEF IdleAs
  <2>2. v.mem.work = w /\ IdleAs(q, v)
    BY <2>1, UpdateBlockEffect
  <2> QED BY <2>1, <2>2 DEF IdleAs
<1>9. UpdatedRow(q.db.blocks, v.db.blocks, w)
  BY <1>1, <1>5, UpdateBlockRow
<1> DEFINE r == v.db.blocks[id]
<1>10. OpenRow(r, u.db.segs, u.mem.seg, NoTime)
  <2>1. /\ r.first = row.first /\ r.start = row.start
        /\ r.last = t.mem.seg.id /\ r.end = at /\ r.active = row.active + (at - t.mem.seg.end)
    BY <1>5, <1>6, <1>9 DEF UpdatedRow
  <2> HIDE DEF r, row
  <2>2. /\ at \in Int /\ t.mem.seg.end <= at
        /\ Grown(t.db.segs, t.mem.seg, u.db.segs, u.mem.seg, at)
    BY DEF Grows
  <2> QED BY <1>2, <1>3, <1>5, <2>1, <2>2, CountedActive
<1>11. Others(v.db.blocks, id, u.db.segs)
  <2>1. \A b \in DOMAIN v.db.blocks : b # id =>
          b \in DOMAIN q.db.blocks /\ Alike(q.db.blocks[b], v.db.blocks[b])
    BY <1>6, <1>9 DEF UpdatedRow, Alike
  <2> HIDE DEF id
  <2> QED BY <1>2, <1>5, <2>1, OthersLater
<1>12. w # NoWork /\ w.id = id
  BY <1>6 DEF IsMemBlock, NoWork
<1>13. Served(v)
  <2>1. v.db.segs = u.db.segs /\ v.mem.seg = u.mem.seg
    BY <1>7 DEF SegsAs
  <2> QED BY <1>7, <1>8, <1>10, <1>11, <1>12, <2>1 DEF Served
<1>14. BlocksGo(t.db, v.db)
  <2>a. r.first = row.first /\ r.last = t.mem.seg.id
    <3>1. /\ r.first = row.first /\ r.start = row.start
          /\ r.last = t.mem.seg.id /\ r.end = at /\ r.active = row.active + (at - t.mem.seg.end)
      BY <1>5, <1>6, <1>9 DEF UpdatedRow
    <3> QED BY <3>1
  <2>b. /\ DOMAIN v.db.blocks = DOMAIN q.db.blocks
        /\ \A b \in DOMAIN q.db.blocks : b # id => v.db.blocks[b] = q.db.blocks[b]
    <3> HIDE DEF id
    <3> QED BY <1>6, <1>9 DEF UpdatedRow
  <2>c. /\ DOMAIN v.db.blocks = DOMAIN t.db.blocks \cup {id}
        /\ \A b \in DOMAIN t.db.blocks : b # id => v.db.blocks[b] = t.db.blocks[b]
    <3> HIDE DEF id, row
    <3> QED BY <1>5, <2>b
  <2>1. /\ r.first = row.first /\ r.last = t.mem.seg.id
        /\ DOMAIN v.db.blocks = DOMAIN t.db.blocks \cup {id}
        /\ \A b \in DOMAIN t.db.blocks : b # id => v.db.blocks[b] = t.db.blocks[b]
    BY <2>a, <2>c
  <2>2. /\ row.first \in Int /\ row.last \in Int /\ row.first <= row.last
        /\ row.last <= t.mem.seg.id /\ t.mem.seg.id \in Int
        /\ NoTimeIn(t.db.segs, row.last + 1, t.mem.seg.id)
    <3> HIDE DEF row
    <3> QED BY <1>2, <1>5 DEF OpenRow, AddsUp, NoTimeIn, HeldLast, IsMemSegment
  <2>3. t.mem.seg.id \in r.first .. r.last
    <3>1. row.first <= t.mem.seg.id
      <4> HIDE DEF row
      <4> QED BY <2>2
    <3> HIDE DEF r, row
    <3> QED BY <2>a, <2>2, <3>1
  <2>4. id \in DOMAIN t.db.blocks => t.db.blocks[id] = row
    BY <1>5
  <2>5. ASSUME id \notin DOMAIN t.db.blocks
        PROVE  NoTimeIn(t.db.segs, r.first, r.last)
    <3>1. r.first = t.mem.seg.id /\ r.last = t.mem.seg.id
      BY <1>5, <2>1, <2>5
    <3>2. t.db.segs[t.mem.seg.id].start = t.db.segs[t.mem.seg.id].end
      BY <1>2, <1>5, <2>5 DEF HeldLast
    <3> HIDE DEF r
    <3> QED BY <2>2, <3>1, <3>2 DEF NoTimeIn, ActiveIn
  <2>6. \A b \in DOMAIN t.db.blocks : /\ v.db.blocks[b].first = t.db.blocks[b].first
                                      /\ b # id => v.db.blocks[b].last = t.db.blocks[b].last
    BY <2>1, <2>4
  <2>7. id \in DOMAIN t.db.blocks =>
           /\ t.db.blocks[id].last <= v.db.blocks[id].last
           /\ NoTimeIn(t.db.segs, t.db.blocks[id].last + 1, v.db.blocks[id].last)
    BY <2>1, <2>2, <2>4
  <2>8. id \notin DOMAIN t.db.blocks =>
           NoTimeIn(t.db.segs, v.db.blocks[id].first, v.db.blocks[id].last)
    BY <2>5
  <2> HIDE DEF id, row
  <2> QED BY <1>7, <2>1, <2>3, <2>6, <2>7, <2>8, GrownCounted
<1> QED BY <1>7, <1>13, <1>14, GrownSound

(* Without a block there is nothing to count, unless the segment is active.*)
LEMMA GrownUnserved ==
  ASSUME NEW t, NEW u, NEW at, Grows(t, u, at), u.mem.seg.state # "active", u.mem.work = NoWork
  PROVE  Sound(u) /\ BlocksGo(t.db, u.db)
<1>1. /\ Later(t.db.segs, u.db.segs) /\ Served(t)
      /\ u.db.blocks = t.db.blocks /\ u.mem.work = t.mem.work
      /\ u.mem.idleStart = t.mem.idleStart
  BY GrowsLater
<1>2. Others(u.db.blocks, u.mem.work.id, u.db.segs)
  <2>1. Others(t.db.blocks, t.mem.work.id, t.db.segs)
    BY <1>1 DEF Served
  <2>2. \A b \in DOMAIN t.db.blocks : Alike(t.db.blocks[b], t.db.blocks[b])
    BY DEF Alike
  <2> QED BY <1>1, <2>1, <2>2, OthersLater
<1>3. Served(u)
  BY <1>1, <1>2 DEF Served, WorkMirror
<1>4. Typed(u) /\ SegsAs(u, u)
  BY DEF Grows, SegsAs
<1>5. BlocksGo(t.db, u.db)
  <2>1. /\ BlocksOK(t.db) /\ DOMAIN t.db.segs = 1 .. Len(t.db.segs)
        /\ DOMAIN u.db.segs = 1 .. Len(u.db.segs)
        /\ Grown(t.db.segs, t.mem.seg, u.db.segs, u.mem.seg, at)
        /\ t.mem.seg.id \in DOMAIN t.db.segs /\ HeldLast(t.db.segs, t.mem.seg)
    BY GrowsLater, SoundHolds, WholeRows DEF Grows, Sound
  <2>2. ASSUME NEW b \in DOMAIN t.db.blocks
        PROVE  /\ t.db.blocks[b].last <= u.db.blocks[b].last
               /\ NoTimeIn(t.db.segs, t.db.blocks[b].last + 1, u.db.blocks[b].last)
    <3>1. t.db.blocks[b].last \in Int /\ u.db.blocks[b].last = t.db.blocks[b].last
      BY <1>1, <2>1 DEF BlocksOK, AddsUp
    <3> QED BY <3>1 DEF NoTimeIn, ActiveIn
  <2>3. ASSUME NEW i \in DOMAIN u.db.segs, u.db.segs[i].end # EndOf(t.db.segs, i, u.db.segs[i])
        PROVE  u.db.segs[i].state # "active"
    BY <2>1, <2>3 DEF Grown, EndOf, HeldLast
  <2> QED BY <1>1, <2>2, <2>3 DEF BlocksGo
<1> QED BY <1>3, <1>4, <1>5, GrownSound

LEMMA BreakBlockRow ==
  ASSUME NEW t, Typed(t), NEW at, NEW u, u = BreakBlock(t, at)
  PROVE  /\ u.mem.work = NoWork /\ u.mem.idleStart = NoTime
         /\ u.db.blocks = ClosedAt(t.db.blocks, at)
BY DEF BreakBlock, Typed, Shaped

LEMMA CountIdleSound ==
  ASSUME NEW t, NEW u, NEW at, Grows(t, u, at), u.mem.seg.state = "idle",
         NEW v, v = CountIdle(u, at - t.mem.seg.end, at), v.ok
  PROVE  Sound(v) /\ BlocksGo(t.db, v.db)
<1>1. /\ Later(t.db.segs, u.db.segs)
      /\ Whole(t.db.segs) /\ Whole(u.db.segs) /\ HeldLast(t.db.segs, t.mem.seg) /\ Served(t)
      /\ IsMemSegment(t.mem.seg) /\ IsMemSegment(u.mem.seg) /\ u.mem.seg # NoSegment
      /\ OpenRows(u.db.segs) = {Len(u.db.segs)}
      /\ u.db.blocks = t.db.blocks /\ u.mem.work = t.mem.work
      /\ u.mem.idleStart = t.mem.idleStart
  BY GrowsLater
<1>2. CASE u.mem.work = NoWork
  <2>1. v = u
    BY <1>2 DEF CountIdle
  <2> QED BY <1>2, <2>1, GrownUnserved
<1>3. CASE u.mem.work # NoWork
  <2> DEFINE idle == t.mem.idleStart
             start == IF u.mem.idleStart = NoTime THEN u.mem.seg.start ELSE u.mem.idleStart
             sum == (IF u.mem.idleStart = NoTime THEN 0 ELSE u.mem.idleSum) + (at - t.mem.seg.end)
             q == [u EXCEPT !.mem.idleStart = start, !.mem.idleSum = sum]
             w == [u.mem.work EXCEPT !.end = at, !.last = u.mem.seg.id]
             p == UpdateBlock(q, w)
             id == t.mem.work.id
             row == t.db.blocks[id]
             r == p.db.blocks[id]
  <2>1. v = IF sum >= WorkBreak THEN BreakBlock(p, start) ELSE p
    BY <1>3 DEF CountIdle
  <2>2. /\ u.mem.seg.id = t.mem.seg.id /\ t.mem.seg.state = "idle"
        /\ u.mem.seg.start = t.mem.seg.start /\ at - t.mem.seg.end \in Nat
        /\ u.mem.seg.id = Len(u.db.segs)
    BY <1>1 DEF Grows, Grown, HeldLast, IsMemSegment
  <2>3. start = IdleFrom(t.mem.seg, idle) /\ start \in Int /\ sum \in Nat
    BY <1>1, <2>2 DEF IdleFrom, Grows, Typed, IdleTyped, IsMemSegment
  <2> HIDE DEF start, sum
  <2>4. Typed(q) /\ SegsAs(u, q) /\ WorkAs(u, q) /\ q.mem.idleStart = start
    <3>1. Shaped(u)
      BY DEF Grows, Typed
    <3>2. Shaped(q)
      BY <3>1 DEF Shaped
    <3>3. /\ SegsAs(u, q) /\ WorkAs(u, q) /\ GapsAs(u, q) /\ LogAs(u, q) /\ RestAs(u, q)
      BY <3>1 DEF Shaped, SegsAs, WorkAs, GapsAs, LogAs, RestAs, SeenAs
    <3>4. q.mem.idleStart = start /\ q.mem.idleSum = sum
      BY <3>1 DEF Shaped
    <3>5. IdleTyped(q)
      BY <2>3, <3>4 DEF IdleTyped
    <3> HIDE DEF q
    <3> QED BY <3>2, <3>3, <3>4, <3>5, TypedAs DEF Grows, Typed
  <2> HIDE DEF q
  <2>5. /\ IsMemBlock(w) /\ w.id = id /\ w.end = at /\ w.last = t.mem.seg.id
        /\ w.active = t.mem.work.active
    <3>1. IsMemBlock(u.mem.work)
      BY <1>3 DEF Grows, Typed, WorkTyped
    <3>2. IsMemBlock(w) /\ w.id = u.mem.work.id
      BY <3>1, MemBlockChanged
    <3> QED BY <1>1, <2>2, <3>1, <3>2 DEF IsMemBlock
  <2> HIDE DEF w
  <2>6. /\ OpenRows(t.db.blocks) = {id} /\ id \in DOMAIN t.db.blocks
        /\ OpenRow(row, t.db.segs, t.mem.seg, idle) /\ t.mem.work.active = row.active
        /\ Others(t.db.blocks, id, t.db.segs)
    BY <1>1, <1>3, <2>5 DEF Served, WorkMirror, OpenRows, IsMemBlock
  <2>7. /\ Typed(p) /\ SegsAs(u, p) /\ p.mem.work = w /\ p.mem.idleStart = start
        /\ OpenRows(p.db.blocks) = {id}
    <3>1. /\ Typed(p) /\ SegsAs(q, p) /\ IdleAs(q, p) /\ p.mem.work = w
          /\ OpenRows(p.db.blocks) = OpenRows(q.db.blocks)
      BY <2>4, <2>5, UpdateBlockEffect
    <3> QED BY <1>1, <2>4, <2>6, <3>1 DEF SegsAs, WorkAs, IdleAs
  <2>8. UpdatedRow(t.db.blocks, p.db.blocks, w)
    BY <1>1, <2>4, UpdateBlockRow DEF WorkAs
  <2> HIDE DEF p
  <2>9. /\ OpenRow(r, u.db.segs, u.mem.seg, start)
        /\ \A i \in ActiveIn(u.db.segs, r.first, r.last) : u.db.segs[i].end <= start
        /\ start <= u.db.segs[r.last].end
    <3>1. /\ r.first = row.first /\ r.start = row.start
          /\ r.last = t.mem.seg.id /\ r.end = at /\ r.active = row.active
      BY <2>5, <2>6, <2>8 DEF UpdatedRow
    <3>idle. idle \in Int
      BY DEF Grows, Typed, IdleTyped
    <3> HIDE DEF r, row, idle
    <3>2. /\ at \in Int /\ t.mem.seg.end <= at
          /\ Grown(t.db.segs, t.mem.seg, u.db.segs, u.mem.seg, at)
      BY DEF Grows
    <3> QED BY <1>1, <2>2, <2>3, <2>6, <3>idle, <3>1, <3>2, CountedIdle
  <2>10. Others(p.db.blocks, id, u.db.segs)
    <3>1. \A b \in DOMAIN p.db.blocks : b # id =>
            b \in DOMAIN t.db.blocks /\ Alike(t.db.blocks[b], p.db.blocks[b])
      BY <2>5, <2>8 DEF UpdatedRow, Alike
    <3> HIDE DEF id
    <3> QED BY <1>1, <2>6, <3>1, OthersLater
  <2>11. Typed(v) /\ SegsAs(u, v) /\ WorkMirror(v)
    <3>1. /\ Typed(v) /\ WorkStep(u, v) /\ SegsAs(u, v)
      BY <1>1, <2>2, CountIdleEffect DEF Grows
    <3>2. WorkMirror(u)
      BY <1>1 DEF Served, WorkMirror
    <3> QED BY <3>1, <3>2 DEF WorkStep
  <2>12. v.db.segs = u.db.segs /\ v.mem.seg = u.mem.seg
    BY <2>11 DEF SegsAs
  <2> DEFINE Same == /\ DOMAIN v.db.blocks = DOMAIN p.db.blocks
                     /\ \A b \in DOMAIN p.db.blocks : b # id => v.db.blocks[b] = p.db.blocks[b]
                     /\ v.db.blocks[id].first = r.first /\ v.db.blocks[id].last = r.last
  <2>go. ASSUME Same
         PROVE  BlocksGo(t.db, v.db)
    <3>a. /\ DOMAIN p.db.blocks = DOMAIN t.db.blocks
          /\ \A b \in DOMAIN t.db.blocks : b # id => p.db.blocks[b] = t.db.blocks[b]
      <4> HIDE DEF id
      <4> QED BY <2>5, <2>8 DEF UpdatedRow
    <3>b. r.first = row.first /\ r.last = t.mem.seg.id
      BY <2>5, <2>6, <2>8 DEF UpdatedRow
    <3>c. v.db.blocks[id].first = row.first /\ v.db.blocks[id].last = t.mem.seg.id
      <4> HIDE DEF id, r, row
      <4> QED BY <2>go, <3>b
    <3>d. /\ DOMAIN v.db.blocks = DOMAIN t.db.blocks \cup {id}
          /\ \A b \in DOMAIN t.db.blocks : b # id => v.db.blocks[b] = t.db.blocks[b]
      <4> HIDE DEF id, r, row
      <4> QED BY <2>6, <2>go, <3>a
    <3>1. /\ DOMAIN v.db.blocks = DOMAIN t.db.blocks \cup {id}
          /\ \A b \in DOMAIN t.db.blocks : b # id => v.db.blocks[b] = t.db.blocks[b]
          /\ v.db.blocks[id].first = row.first /\ v.db.blocks[id].last = t.mem.seg.id
      BY <3>c, <3>d
    <3>2. /\ row.first \in Int /\ row.last \in Int /\ row.first <= row.last
          /\ row.last <= t.mem.seg.id /\ t.mem.seg.id \in Int
          /\ NoTimeIn(t.db.segs, row.last + 1, t.mem.seg.id)
      <4> HIDE DEF row, idle
      <4> QED BY <1>1, <2>6 DEF OpenRow, AddsUp, NoTimeIn, HeldLast, IsMemSegment
    <3>3. t.mem.seg.id \in v.db.blocks[id].first .. v.db.blocks[id].last
      <4>1. row.first <= t.mem.seg.id
        <5> HIDE DEF row
        <5> QED BY <3>2
      <4> HIDE DEF row, id
      <4> QED BY <3>c, <3>2, <4>1
    <3>4. \A b \in DOMAIN t.db.blocks : /\ v.db.blocks[b].first = t.db.blocks[b].first
                                        /\ b # id => v.db.blocks[b].last = t.db.blocks[b].last
      BY <3>1
    <3>5. /\ id \in DOMAIN t.db.blocks
          /\ t.db.blocks[id].last <= v.db.blocks[id].last
          /\ NoTimeIn(t.db.segs, t.db.blocks[id].last + 1, v.db.blocks[id].last)
      BY <2>6, <3>1, <3>2
    <3> HIDE DEF id, row
    <3> QED BY <2>11, <3>1, <3>3, <3>4, <3>5, GrownCounted
  <2>13. CASE v = p
    <3>1. v.mem.work # NoWork /\ v.mem.work.id = id
      BY <2>5, <2>7, <2>13 DEF IsMemBlock, NoWork
    <3>2. Served(v)
      BY <2>7, <2>9, <2>10, <2>11, <2>12, <2>13, <3>1, <1>3 DEF Served
    <3>3. Same
      BY <2>13
    <3> HIDE DEF Same
    <3> QED BY <2>11, <2>go, <3>2, <3>3, GrownSound
  <2>14. CASE v = BreakBlock(p, start)
    <3>1. v.mem.work = NoWork /\ v.mem.idleStart = NoTime
          /\ v.db.blocks = ClosedAt(p.db.blocks, start)
      BY <2>7, <2>14, BreakBlockRow
    <3>2. /\ DOMAIN v.db.blocks = DOMAIN p.db.blocks
          /\ \A b \in DOMAIN p.db.blocks :
               ~IsOpen(p.db.blocks, b) => v.db.blocks[b] = p.db.blocks[b]
          /\ \A b \in OpenRows(p.db.blocks) :
               /\ v.db.blocks[b].first = p.db.blocks[b].first
               /\ v.db.blocks[b].last = p.db.blocks[b].last
               /\ v.db.blocks[b].active = p.db.blocks[b].active
               /\ v.db.blocks[b].start = p.db.blocks[b].start
               /\ v.db.blocks[b].end = start
      <4> DEFINE rows == p.db.blocks
                 new == v.db.blocks
      <4>1. Blocks(rows)
        BY <2>7 DEF Typed, WorkTyped
      <4>2. new = ClosedAt(rows, start)
        BY <3>1
      <4> HIDE DEF rows, new
      <4>3. /\ DOMAIN new = DOMAIN rows
            /\ \A b \in DOMAIN rows : ~IsOpen(rows, b) => new[b] = rows[b]
            /\ \A b \in OpenRows(rows) :
                 /\ new[b].first = rows[b].first /\ new[b].last = rows[b].last
                 /\ new[b].active = rows[b].active
                 /\ new[b].start = rows[b].start /\ new[b].end = start
        BY <4>1, <4>2, ClosedAtRow
      <4> QED BY <4>3 DEF rows, new
    <3>3. \A b \in DOMAIN p.db.blocks : b # id => v.db.blocks[b] = p.db.blocks[b]
      <4>1. \A b \in DOMAIN p.db.blocks : b # id => ~IsOpen(p.db.blocks, b)
        <5> HIDE DEF id
        <5> QED BY <2>7, OthersClosed
      <4> HIDE DEF id
      <4> QED BY <3>2, <4>1
    <3> DEFINE c == v.db.blocks[id]
    <3>4. /\ c.first = r.first /\ c.last = r.last /\ c.active = r.active /\ c.start = r.start
          /\ c.end = start
      BY <2>7, <3>2
    <3>5. AddsUp(c, u.db.segs)
      <4> HIDE DEF c, r
      <4> QED BY <2>3, <2>9, <3>4 DEF OpenRow, AddsUp
    <3>6. Settled(c, u.db.segs)
      <4>1. ASSUME NEW i \in ActiveIn(u.db.segs, c.first, c.last)
            PROVE  ~IsOpen(u.db.segs, i)
        <5>1. u.db.segs[Len(u.db.segs)].state = "idle"
          <6>1. u.mem.seg.id \in 1 .. Len(t.db.segs) /\ t.db.segs[t.mem.seg.id].state = "idle"
            BY <1>1, <2>2, WholeRows DEF HeldLast, IsMemSegment
          <6> QED BY <1>1, <2>2, <6>1 DEF Later
        <5>2. i # Len(u.db.segs)
          BY <5>1 DEF ActiveIn
        <5>3. i \notin OpenRows(u.db.segs)
          BY <1>1, <5>2
        <5> QED BY <5>3 DEF OpenRows, IsOpen
      <4> QED BY <4>1 DEF Settled
    <3>7. Others(v.db.blocks, v.mem.work.id, u.db.segs)
      BY <2>10, <3>2, <3>3, <3>5, <3>6 DEF Others
    <3>8. Served(v)
      BY <2>2, <2>11, <2>12, <3>1, <3>7 DEF Served
    <3>9. Same
      BY <3>2, <3>3, <3>4
    <3> HIDE DEF Same
    <3>10. BlocksGo(t.db, v.db)
      BY <2>go, <3>9
    <3> QED BY <2>11, <3>8, <3>10, GrownSound
  <2> QED BY <2>1, <2>13, <2>14
<1> QED BY <1>2, <1>3

(* The segment that starts, after the rows of the one before were closed.  *)
SegmentStarts(t, q, s, v) ==
  /\ Typed(t) /\ SegTimes(t.db.segs) /\ Typed(q) /\ q.db.segs \in {t.db.segs, Closed(t.db.segs)}
  /\ s.app \in Apps /\ s.utc \in Int /\ s.state \in States /\ v = StartSegment(q, s) /\ v.ok

LEMMA StartedSegment ==
  ASSUME NEW t, NEW q, NEW s, NEW v, SegmentStarts(t, q, s, v)
  PROVE  /\ Whole(t.db.segs) /\ Whole(v.db.segs) /\ OpenRows(q.db.segs) = {}
         /\ Begun(t.db.segs, v.db.segs, v.mem.seg, s.utc)
         /\ OpenRows(v.db.segs) = {Len(v.db.segs)}
         /\ Typed(v) /\ SegMirror(v) /\ WorkAs(q, v) /\ IdleAs(q, v)
         /\ v.mem.seg # NoSegment /\ v.mem.seg.state = s.state
<1> DEFINE old == q.db.segs
           new == v.db.segs
           n == Len(old) + 1
           row == [run |-> q.run, app |-> s.app, state |-> s.state,
                   epoch |-> Max({q.cont.epoch, s.epoch}),
                   start |-> s.utc, end |-> s.utc, status |-> "open"]
           held == [id |-> n, app |-> s.app, state |-> s.state,
                    epoch |-> Max({q.cont.epoch, s.epoch}),
                    start |-> s.utc, end |-> s.utc]
<1>1. /\ v = StartSegment(q, s) /\ v.ok /\ Typed(q)
      /\ s.app \in Apps /\ s.utc \in Int /\ s.state \in States
  BY DEF SegmentStarts
<1>2. /\ Typed(v) /\ WorkAs(q, v) /\ IdleAs(q, v) /\ v.mem.seg # NoSegment /\ SegMirror(v)
      /\ v.mem.seg.state = s.state
      /\ SegTimes(old) => SegTimes(new)
  BY <1>1, StartSegmentEffect
<1>3. /\ Segments(t.db.segs) /\ IsRows(t.db.segs) /\ IsRows(old)
      /\ Len(old) = Len(t.db.segs) /\ DOMAIN old = DOMAIN t.db.segs
      /\ \A i \in DOMAIN t.db.segs : /\ old[i].start = t.db.segs[i].start
                                     /\ old[i].end = t.db.segs[i].end
                                     /\ old[i].state = t.db.segs[i].state
  BY ClosedSegments DEF SegmentStarts, Typed, SegsTyped, Segments
<1>4. SegTimes(old)
  BY <1>3 DEF SegmentStarts, SegTimes
<1>5. new = Append(old, row) /\ v.mem.seg = held
  BY <1>1 DEF StartSegment, Typed, Shaped
<1>6. OpenRows(old) = {}
  BY <1>1 DEF StartSegment, Typed, Shaped
<1>7. row.status = "open" /\ row.state = s.state /\ row.start = s.utc /\ row.end = s.utc
      /\ held.id = n /\ held.start = s.utc /\ held.end = s.utc /\ held.state = s.state
  OBVIOUS
<1> HIDE DEF row, held, old, new
<1>8. /\ Len(new) = n /\ new[n] = row /\ \A i \in DOMAIN old : new[i] = old[i]
      /\ OpenRows(new) = {n}
  BY <1>3, <1>5, <1>6, <1>7, RowsAppended, AppendedOpen
<1>9. Begun(t.db.segs, new, v.mem.seg, s.utc)
  <2>1. DOMAIN t.db.segs = 1 .. Len(t.db.segs)
    BY <1>3, RowsLen
  <2> QED BY <1>3, <1>5, <1>7, <1>8, <2>1 DEF Begun
<1>10. Whole(t.db.segs) /\ Whole(new)
  BY <1>2, <1>3, <1>4 DEF Whole, SegmentStarts, Typed, SegsTyped, new
<1> QED BY <1>2, <1>6, <1>8, <1>9, <1>10 DEF old, new

LEMMA StartedSound ==
  ASSUME NEW t, NEW q, NEW s, NEW v, SegmentStarts(t, q, s, v), Served(v)
  PROVE  Sound(v)
<1>1. /\ OpenRows(v.db.segs) = {Len(v.db.segs)} /\ Whole(v.db.segs) /\ SegMirror(v) /\ Typed(v)
      /\ v.mem.seg # NoSegment
  BY StartedSegment
<1>2. BlocksOK(v.db)
  BY <1>1, BlocksTogether
<1> QED BY <1>1, <1>2 DEF Sound, BlockHeld, SegHeld, Whole

LEMMA BegunSameEnds ==
  ASSUME NEW segs, Whole(segs), NEW new, Whole(new), NEW to, NEW at, Begun(segs, new, to, at)
  PROVE  SameEnds(segs, new)
<1>1. /\ Len(segs) \in Nat /\ DOMAIN segs = 1 .. Len(segs) /\ DOMAIN new = 1 .. Len(segs) + 1
  BY WholeRows DEF Begun
<1>2. \A i \in 1 .. Len(segs) + 1 : i \in 1 .. Len(segs) \/ i = Len(segs) + 1
  BY <1>1
<1> QED BY <1>1, <1>2 DEF SameEnds, Begun, EndOf

(* No block goes on: every one is settled.                                 *)
LEMMA BeginsAnew ==
  ASSUME NEW t, NEW q, NEW s, NEW v, SegmentStarts(t, q, s, v), BlocksOK(t.db),
         q.db.blocks \in {t.db.blocks, Closed(t.db.blocks)},
         OpenRows(q.db.segs) = {} => OpenRows(q.db.blocks) = {},
         q.mem.work = NoWork, q.mem.idleStart = NoTime
  PROVE  Sound(v) /\ BlocksGo(t.db, v.db)
<1>1. /\ Whole(t.db.segs) /\ Whole(v.db.segs) /\ OpenRows(q.db.segs) = {}
      /\ Begun(t.db.segs, v.db.segs, v.mem.seg, s.utc)
      /\ OpenRows(v.db.segs) = {Len(v.db.segs)}
      /\ WorkAs(q, v) /\ IdleAs(q, v)
  BY StartedSegment
<1>2. /\ v.mem.work = NoWork /\ v.mem.idleStart = NoTime
      /\ v.db.blocks = q.db.blocks /\ OpenRows(v.db.blocks) = {}
  BY <1>1 DEF WorkAs, IdleAs
<1>3. ASSUME NEW b \in DOMAIN v.db.blocks
      PROVE  AddsUp(v.db.blocks[b], v.db.segs) /\ Settled(v.db.blocks[b], v.db.segs)
  <2> DEFINE row == t.db.blocks[b]
             r == v.db.blocks[b]
  <2>1. b \in DOMAIN t.db.blocks /\ Alike(row, r)
    BY <1>2, ClosedRow DEF Alike, SegmentStarts, Typed, WorkTyped
  <2>2. AddsUp(row, t.db.segs)
    BY <2>1 DEF BlocksOK
  <2> HIDE DEF row
  <2>3. row.last \in Int /\ row.last <= Len(t.db.segs) /\ Len(t.db.segs) \in Nat
        /\ Len(v.db.segs) = Len(t.db.segs) + 1
    BY <1>1, <2>2, WholeRows DEF AddsUp, Begun
  <2>4. AddsUp(row, v.db.segs)
    <3>1. \A i \in ActiveIn(t.db.segs, row.first, row.last) : i \in 1 .. Len(t.db.segs)
      BY <2>2, <2>3 DEF AddsUp, ActiveIn
    <3>2. \A i \in 1 .. Len(t.db.segs) : /\ v.db.segs[i].state = t.db.segs[i].state
                                         /\ v.db.segs[i].start = t.db.segs[i].start
                                         /\ v.db.segs[i].end = t.db.segs[i].end
      BY <1>1 DEF Begun
    <3>3. Len(t.db.segs) <= Len(v.db.segs)
      BY <2>3
    <3>4. \A i \in 1 .. Len(t.db.segs) : t.db.segs[i].end <= v.db.segs[i].end
      BY <1>1, <3>2, WholeRows DEF Timed
    <3>5. \A i \in 1 .. Len(t.db.segs) : /\ v.db.segs[i].state = t.db.segs[i].state
                                         /\ v.db.segs[i].start = t.db.segs[i].start
                                         /\ t.db.segs[i].end <= v.db.segs[i].end
      BY <3>2, <3>4
    <3>6. \A i \in ActiveIn(t.db.segs, row.first, row.last) :
            v.db.segs[i].end = t.db.segs[i].end
      BY <3>1, <3>2
    <3> DEFINE old == t.db.segs
               new == v.db.segs
    <3>7. Whole(old) /\ Whole(new) /\ AddsUp(row, old) /\ Len(old) <= Len(new)
      BY <1>1, <2>2, <3>3
    <3>8. /\ \A i \in 1 .. Len(old) : /\ new[i].state = old[i].state
                                      /\ new[i].start = old[i].start
                                      /\ old[i].end <= new[i].end
          /\ \A i \in ActiveIn(old, row.first, row.last) : new[i].end = old[i].end
      BY <3>5, <3>6
    <3> HIDE DEF old, new
    <3>9. AddsUp(row, new)
      BY <3>7, <3>8, AddsUpKept
    <3> QED BY <3>9 DEF new
  <2>5. Settled(row, v.db.segs)
    <3>1. ASSUME NEW i \in ActiveIn(v.db.segs, row.first, row.last)
          PROVE  ~IsOpen(v.db.segs, i)
      <4>1. i # Len(v.db.segs)
        BY <2>2, <2>3 DEF ActiveIn, AddsUp
      <4>2. i \notin OpenRows(v.db.segs)
        BY <1>1, <4>1
      <4> QED BY <4>2 DEF OpenRows, IsOpen
    <3> QED BY <3>1 DEF Settled
  <2> HIDE DEF r
  <2>6. AddsUp(r, v.db.segs) /\ Settled(r, v.db.segs)
    BY <2>1, <2>4, <2>5 DEF Alike, AddsUp, Settled
  <2> QED BY <2>6 DEF r
<1>4. v.mem.seg.state = "active" => v.mem.seg.start = v.mem.seg.end
  BY <1>1 DEF Begun
<1>5. WorkMirror(v)
  BY <1>2 DEF WorkMirror, NoWork
<1>6. Served(v)
  BY <1>2, <1>3, <1>4, <1>5 DEF Served, Others
<1>7. BlocksGo(t.db, v.db)
  <2>1. SameEnds(t.db.segs, v.db.segs)
    BY <1>1, BegunSameEnds
  <2>2. Blocks(t.db.blocks)
    BY DEF SegmentStarts, Typed, WorkTyped
  <2> QED BY <1>2, <2>1, <2>2, BlocksStayClosed
<1> QED BY <1>6, <1>7, StartedSound

(* How the open block is left to the next segment.                         *)
Handed(t, from, to, q) ==
  LET id == t.mem.work.id
      r == q.db.blocks[id]
      row == t.db.blocks[id]
  IN  /\ WorkMirror(q) /\ q.mem.work # NoWork /\ q.mem.work.id = id
      /\ DOMAIN q.db.blocks = DOMAIN t.db.blocks
      /\ \A b \in DOMAIN t.db.blocks : b # id => q.db.blocks[b] = t.db.blocks[b]
      /\ r.first = row.first /\ r.start = row.start /\ r.end = row.end /\ r.active = row.active
      /\ \/ r.last = row.last
         \/ r.last = t.mem.seg.id /\ t.mem.idleStart # NoTime /\ to # from
      /\ IF to = from THEN q.mem.idleStart = t.mem.idleStart ELSE q.mem.idleStart = NoTime

LEMMA BeginsOn ==
  ASSUME NEW t, NEW q, NEW s, NEW v, SegmentStarts(t, q, s, v), Sound(t), t.mem.seg # NoSegment,
         t.mem.work # NoWork, s.state # "unknown", t.mem.seg.end <= s.utc,
         Handed(t, t.mem.seg.state, s.state, q)
  PROVE  Sound(v) /\ BlocksGo(t.db, v.db)
<1> DEFINE id == t.mem.work.id
           row == t.db.blocks[id]
           r == q.db.blocks[id]
           seg == t.mem.seg
<1>1. /\ Whole(t.db.segs) /\ Whole(v.db.segs)
      /\ Begun(t.db.segs, v.db.segs, v.mem.seg, s.utc)
      /\ OpenRows(v.db.segs) = {Len(v.db.segs)}
      /\ WorkAs(q, v) /\ IdleAs(q, v) /\ v.mem.seg.state = s.state
      /\ s.app \in Apps /\ s.utc \in Int /\ s.state \in States
  BY StartedSegment DEF SegmentStarts
<1>2. Typed(t)
  BY DEF SegmentStarts
<1>3. HeldLast(t.db.segs, seg) /\ Served(t) /\ seg.state \in States
  BY <1>2, SoundHolds DEF HeldLast, IsMemSegment
<1>4. /\ OpenRow(row, t.db.segs, seg, t.mem.idleStart) /\ seg.state \in {"active", "idle"}
      /\ Others(t.db.blocks, id, t.db.segs) /\ t.mem.idleStart \in Int
      /\ seg.state # "idle" => t.mem.idleStart = NoTime
  BY <1>2, <1>3 DEF Served, States, Typed, IdleTyped
<1>5. v.db.blocks = q.db.blocks /\ v.mem.work = q.mem.work /\ v.mem.idleStart = q.mem.idleStart
  BY <1>1 DEF WorkAs, IdleAs
<1>6. OpenRow(r, v.db.segs, v.mem.seg, v.mem.idleStart)
  <2>1. /\ r.first = row.first /\ r.start = row.start /\ r.end = row.end /\ r.active = row.active
        /\ \/ r.last = row.last
           \/ r.last = seg.id /\ t.mem.idleStart # NoTime /\ v.mem.seg.state # seg.state
        /\ \/ v.mem.idleStart = t.mem.idleStart /\ v.mem.seg.state = seg.state
           \/ v.mem.idleStart = NoTime /\ v.mem.seg.state # seg.state
    BY <1>1, <1>5 DEF Handed
  <2>2. v.mem.seg.state \in {"active", "idle"}
    BY <1>1 DEF States
  <2>3. seg.end <= s.utc
    OBVIOUS
  <2> DEFINE idle == t.mem.idleStart
             next == v.mem.idleStart
  <2>4. /\ OpenRow(row, t.db.segs, seg, idle) /\ idle \in Int
        /\ seg.state # "idle" => idle = NoTime
        /\ \/ r.last = row.last
           \/ r.last = seg.id /\ idle # NoTime /\ v.mem.seg.state # seg.state
        /\ \/ next = idle /\ v.mem.seg.state = seg.state
           \/ next = NoTime /\ v.mem.seg.state # seg.state
    BY <1>4, <2>1
  <2> HIDE DEF r, row, seg, idle, next
  <2>5. OpenRow(r, v.db.segs, v.mem.seg, next)
    BY <1>1, <1>3, <1>4, <2>1, <2>2, <2>3, <2>4, BlockGoesOn
  <2> QED BY <2>5 DEF next
<1>7. Later(t.db.segs, v.db.segs)
  <2>1. Len(t.db.segs) \in Nat /\ Len(v.db.segs) = Len(t.db.segs) + 1
    BY <1>1, WholeRows DEF Begun
  <2>2. \A i \in 1 .. Len(t.db.segs) : ~IsOpen(v.db.segs, i)
    BY <1>1, <2>1 DEF OpenRows, IsOpen
  <2>3. \A i \in 1 .. Len(t.db.segs) : t.db.segs[i].end <= v.db.segs[i].end
    BY <1>1, WholeRows DEF Timed, Begun
  <2> QED BY <1>1, <2>1, <2>2, <2>3 DEF Later, Begun
<1>8. Others(v.db.blocks, id, v.db.segs)
  <2>1. \A b \in DOMAIN v.db.blocks : b # id =>
          b \in DOMAIN t.db.blocks /\ Alike(t.db.blocks[b], v.db.blocks[b])
    BY <1>5 DEF Handed, Alike
  <2> HIDE DEF id
  <2> QED BY <1>4, <1>7, <2>1, OthersLater
<1>9. WorkMirror(v) /\ v.mem.work # NoWork /\ v.mem.work.id = id
  BY <1>5 DEF Handed, WorkMirror
<1>10. v.mem.seg.state # "idle" => v.mem.idleStart = NoTime
  BY <1>1, <1>4, <1>5 DEF Handed
<1>11. Served(v)
  BY <1>1, <1>5, <1>6, <1>8, <1>9, <1>10 DEF Served
<1>12. BlocksGo(t.db, v.db)
  <2>1. /\ DOMAIN v.db.blocks = DOMAIN t.db.blocks
        /\ \A b \in DOMAIN t.db.blocks : b # id => v.db.blocks[b] = t.db.blocks[b]
    BY <1>5 DEF Handed
  <2>2. /\ r.first = row.first
        /\ r.last = row.last \/ (r.last = seg.id /\ t.mem.idleStart # NoTime)
    BY DEF Handed
  <2>3. /\ row.last \in Int /\ row.last <= seg.id
        /\ t.mem.idleStart # NoTime => ActiveIn(t.db.segs, row.last + 1, seg.id) = {}
    <3> HIDE DEF row
    <3> QED BY <1>3, <1>4 DEF OpenRow, AddsUp, HeldLast
  <2>id. seg.id \in Int
    BY <1>3 DEF HeldLast, IsMemSegment
  <2>4. row.last <= r.last /\ NoTimeIn(t.db.segs, row.last + 1, r.last)
    <3> HIDE DEF row, r, seg
    <3> QED BY <2>2, <2>3, <2>id DEF NoTimeIn, ActiveIn
  <2>5. ASSUME NEW b \in DOMAIN t.db.blocks
        PROVE  /\ v.db.blocks[b].first = t.db.blocks[b].first
               /\ t.db.blocks[b].last <= v.db.blocks[b].last
               /\ NoTimeIn(t.db.segs, t.db.blocks[b].last + 1, v.db.blocks[b].last)
    <3>1. CASE b = id
      <4>1. v.db.blocks[b] = r /\ t.db.blocks[b] = row
        BY <1>5, <3>1
      <4> HIDE DEF r, row
      <4> QED BY <2>2, <2>4, <4>1
    <3>2. CASE b # id
      <4>1. AddsUp(t.db.blocks[b], t.db.segs)
        BY DEF Sound, BlocksOK
      <4>2. t.db.blocks[b].last \in Int /\ v.db.blocks[b] = t.db.blocks[b]
        BY <2>1, <3>2, <4>1 DEF AddsUp
      <4> QED BY <4>2 DEF NoTimeIn, ActiveIn
    <3> QED BY <3>1, <3>2
  <2>6. SameEnds(t.db.segs, v.db.segs)
    BY <1>1, BegunSameEnds
  <2> QED BY <2>1, <2>5, <2>6 DEF BlocksGo, SameEnds
<1> QED BY <1>11, <1>12, StartedSound

LEMMA ChangeStateRows ==
  ASSUME NEW t, Typed(t), NEW from \in States, NEW to \in States, from # to,
         NEW v, v = ChangeState(t, from, to)
  PROVE  /\ t.mem.work = NoWork =>
              /\ v.db.blocks = t.db.blocks /\ v.mem.work = NoWork
              /\ v.mem.idleStart \in {NoTime, t.mem.idleStart}
         /\ t.mem.work # NoWork /\ to = "unknown" =>
              /\ v.db.blocks = Closed(t.db.blocks) /\ v.mem.work = NoWork
              /\ v.mem.idleStart = NoTime
<1> DEFINE settled == [t EXCEPT !.mem.idleStart = NoTime, !.mem.idleSum = 0]
           closed == [settled EXCEPT
                        !.db.blocks = IF t.mem.work = NoWork THEN @ ELSE Closed(@),
                        !.mem.work = NoWork]
<1>1. Shaped(t)
  BY DEF Typed
<1>2. /\ settled.db = t.db /\ settled.mem.work = t.mem.work /\ settled.mem.idleStart = NoTime
      /\ Shaped(settled)
  BY <1>1 DEF Shaped
<1>3. /\ to = "unknown" => v = closed
      /\ to # "unknown" /\ t.mem.work = NoWork => v = t \/ v = settled
  BY DEF ChangeState, States
<1> HIDE DEF settled
<1>4. closed.mem.work = NoWork /\ closed.mem.idleStart = NoTime
  BY <1>2 DEF Shaped
<1>5. closed.db.blocks = IF t.mem.work = NoWork THEN t.db.blocks ELSE Closed(t.db.blocks)
  BY <1>2 DEF Shaped
<1> HIDE DEF closed
<1> QED BY <1>2, <1>3, <1>4, <1>5

(* The only change of state that writes the open block is the one that     *)
(* counts the idle spell as short.                                         *)
LEMMA ChangeStateHands ==
  ASSUME NEW t, Typed(t), t.mem.work # NoWork, WorkMirror(t),
         NEW from \in States \ {"unknown"}, NEW to \in States \ {"unknown"}, from # to,
         NEW v, v = ChangeState(t, from, to)
  PROVE  v.ok => Handed(t, from, to, v)
<1> DEFINE settled == [t EXCEPT !.mem.idleStart = NoTime, !.mem.idleSum = 0]
           w == [t.mem.work EXCEPT !.short = @ + t.mem.idleSum, !.last = t.mem.seg.id]
           id == t.mem.work.id
<1>1. /\ Typed(settled) /\ WorkAs(t, settled) /\ settled.mem.idleStart = NoTime
  <2>1. Shaped(t) /\ Shaped(settled)
    BY DEF Typed, Shaped
  <2>2. /\ SegsAs(t, settled) /\ WorkAs(t, settled) /\ GapsAs(t, settled) /\ LogAs(t, settled)
        /\ RestAs(t, settled)
    BY <2>1 DEF Shaped, SegsAs, WorkAs, GapsAs, LogAs, RestAs, SeenAs
  <2>3. settled.mem.idleStart = NoTime /\ settled.mem.idleSum = 0
    BY <2>1 DEF Shaped
  <2>4. IdleTyped(settled)
    BY <2>3 DEF IdleTyped, NoTime
  <2> HIDE DEF settled
  <2> QED BY <2>1, <2>2, <2>3, <2>4, TypedAs DEF Typed
<1>2. \/ v = settled
      \/ v = UpdateBlock(settled, w) /\ t.mem.idleStart # NoTime
  BY DEF ChangeState, States
<1> HIDE DEF settled
<1>3. IsMemBlock(t.mem.work) /\ OpenRows(t.db.blocks) = {id} /\ id \in DOMAIN t.db.blocks
      /\ t.db.blocks[id].end = t.mem.work.end /\ t.db.blocks[id].active = t.mem.work.active
  BY DEF Typed, WorkTyped, WorkMirror, IsMemBlock, OpenRows
<1>4. CASE v = settled
  BY <1>1, <1>4 DEF Handed, WorkAs, WorkMirror
<1>5. CASE v = UpdateBlock(settled, w) /\ t.mem.idleStart # NoTime
  <2>1. /\ IsMemBlock(w) /\ w.id = id /\ w.end = t.mem.work.end /\ w.active = t.mem.work.active
        /\ w.last = t.mem.seg.id
    <3>1. IsMemBlock(w) /\ w.id = id
      BY <1>3, MemBlockChanged
    <3> QED BY <1>3, <3>1 DEF IsMemBlock
  <2> HIDE DEF w
  <2>2. w # NoWork
    BY <2>1 DEF IsMemBlock, NoWork
  <2>3. v.mem.work = w /\ v.mem.idleStart = NoTime
    BY <1>1, <1>5, <2>1, UpdateBlockEffect DEF IdleAs
  <2>4. UpdatedRow(t.db.blocks, v.db.blocks, w)
    BY <1>1, <1>5, UpdateBlockRow DEF WorkAs
  <2>5. v.ok => WorkMirror(v)
    <3>1. WorkStep(t, v)
      BY ChangeStateEffect
    <3> QED BY <3>1 DEF WorkStep
  <2> QED BY <1>3, <1>5, <2>1, <2>2, <2>3, <2>4, <2>5 DEF Handed, UpdatedRow
<1> QED BY <1>2, <1>4, <1>5

LEMMA HandedAs ==
  ASSUME NEW t, NEW cut, NEW changed, NEW q, NEW from, NEW to,
         Handed(cut, from, to, changed), cut.mem.seg = t.mem.seg,
         cut.db.blocks = t.db.blocks, cut.mem.work = t.mem.work,
         cut.mem.idleStart = t.mem.idleStart,
         q.db.blocks = changed.db.blocks, q.mem.work = changed.mem.work,
         q.mem.idleStart = changed.mem.idleStart
  PROVE  Handed(t, from, to, q)
<1>1. WorkMirror(q)
  BY DEF Handed, WorkMirror
<1> QED BY <1>1 DEF Handed

(* The sample that does not continue the segment that is held: the segment *)
(* is closed, a gap is cut, the state may change.                          *)
LEMMA CutSound ==
  ASSUME NEW t, Sound(t), t.mem.seg # NoSegment,
         NEW s, NEW cut, Typed(cut), WorkAs(t, cut), IdleAs(t, cut), cut.mem.seg = t.mem.seg,
         t.mem.seg.end <= s.utc,
         NEW changed, changed = IF t.mem.seg.state = s.state THEN cut
                                ELSE ChangeState(cut, t.mem.seg.state, s.state),
         changed.ok, NEW q, WorkAs(changed, q), IdleAs(changed, q),
         NEW v, SegmentStarts(t, q, s, v)
  PROVE  Sound(v) /\ BlocksGo(t.db, v.db)
<1> DEFINE from == t.mem.seg.state
           to == s.state
<1>1. Typed(t) /\ to \in States
  BY DEF SegmentStarts
<1>2. Served(t) /\ IsMemSegment(t.mem.seg) /\ from \in States
  BY <1>1, SoundHolds DEF HeldLast, IsMemSegment
<1>3. /\ cut.db.blocks = t.db.blocks /\ cut.mem.work = t.mem.work
      /\ cut.mem.idleStart = t.mem.idleStart
      /\ q.db.blocks = changed.db.blocks /\ q.mem.work = changed.mem.work
      /\ q.mem.idleStart = changed.mem.idleStart
  BY DEF WorkAs, IdleAs
<1>4. BlocksOK(t.db)
  BY DEF Sound
<1> HIDE DEF from, to
<1>5. CASE t.mem.work = NoWork
  <2>1. OpenRows(t.db.blocks) = {} /\ t.mem.idleStart = NoTime
    BY <1>2, <1>5 DEF Served, WorkMirror, NoWork
  <2>2. /\ changed.db.blocks = t.db.blocks /\ changed.mem.work = NoWork
        /\ changed.mem.idleStart = NoTime
    <3>1. CASE from = to
      <4>1. changed = cut
        BY <3>1 DEF from, to
      <4> QED BY <1>3, <1>5, <2>1, <4>1
    <3>2. CASE from # to
      <4>1. changed = ChangeState(cut, from, to)
        BY <3>2 DEF from, to
      <4> QED BY <1>1, <1>2, <1>3, <1>5, <2>1, <3>2, <4>1, ChangeStateRows
    <3> QED BY <3>1, <3>2
  <2> QED BY <1>3, <1>4, <2>1, <2>2, BeginsAnew
<1>6. CASE t.mem.work # NoWork /\ to = "unknown"
  <2>1. from # to
    BY <1>2, <1>6 DEF Served, from
  <2>2. changed = ChangeState(cut, from, to)
    BY <2>1 DEF from, to
  <2>3. /\ changed.db.blocks = Closed(t.db.blocks) /\ changed.mem.work = NoWork
        /\ changed.mem.idleStart = NoTime
    <3>1. cut.mem.work # NoWork
      BY <1>3, <1>6
    <3>2. /\ changed.db.blocks = Closed(cut.db.blocks) /\ changed.mem.work = NoWork
          /\ changed.mem.idleStart = NoTime
      BY <1>1, <1>2, <1>6, <2>1, <2>2, <3>1, ChangeStateRows
    <3> QED BY <1>3, <3>2
  <2>4. OpenRows(Closed(t.db.blocks)) = {}
    BY <1>1, ClosedBlocks DEF Typed, WorkTyped
  <2> QED BY <1>3, <1>4, <2>3, <2>4, BeginsAnew
<1>7. CASE t.mem.work # NoWork /\ to # "unknown"
  <2>1. from # "unknown" /\ WorkMirror(t) /\ WorkMirror(cut)
    BY <1>2, <1>3, <1>7 DEF Served, WorkMirror, from
  <2>2. Handed(t, from, to, q)
    <3>1. CASE from = to
      <4>1. changed = cut
        BY <3>1 DEF from, to
      <4> QED BY <1>3, <1>7, <2>1, <3>1, <4>1 DEF Handed, WorkMirror
    <3>2. CASE from # to
      <4>1. changed = ChangeState(cut, from, to)
        BY <3>2 DEF from, to
      <4>2. Handed(cut, from, to, changed)
        BY <1>1, <1>2, <1>3, <1>7, <2>1, <3>2, <4>1, ChangeStateHands
      <4>3. cut.mem.seg = t.mem.seg
        OBVIOUS
      <4> QED BY <1>3, <4>2, <4>3, HandedAs
    <3> QED BY <3>1, <3>2
  <2> QED BY <1>7, <2>2, BeginsOn DEF from, to
<1> QED BY <1>5, <1>6, <1>7

-----------------------------------------------------------------------------
(* All rows closed. *)
LEMMA ClosedOK ==
  ASSUME NEW t, Typed(t), SegTimes(t.db.segs), BlocksOK(t.db), NEW d, d.segs = Closed(t.db.segs),
         d.blocks \in {t.db.blocks, Closed(t.db.blocks)}, OpenRows(d.blocks) = {}
  PROVE  BlocksOK(d)
<1>1. /\ Segments(t.db.segs) /\ Segments(d.segs) /\ OpenRows(d.segs) = {}
      /\ Len(d.segs) = Len(t.db.segs) /\ DOMAIN d.segs = DOMAIN t.db.segs
      /\ \A i \in DOMAIN t.db.segs : /\ d.segs[i].start = t.db.segs[i].start
                                     /\ d.segs[i].end = t.db.segs[i].end
                                     /\ d.segs[i].state = t.db.segs[i].state
  BY ClosedSegments DEF Typed, SegsTyped
<1>2. Whole(t.db.segs) /\ Whole(d.segs)
  BY <1>1 DEF Whole, SegTimes
<1>3. DOMAIN t.db.segs = 1 .. Len(t.db.segs) /\ Len(t.db.segs) \in Nat
  BY <1>2, WholeRows
<1>4. ASSUME NEW b \in DOMAIN d.blocks
      PROVE  AddsUp(d.blocks[b], d.segs)
  <2> DEFINE row == t.db.blocks[b]
             r == d.blocks[b]
  <2>1. b \in DOMAIN t.db.blocks /\ Alike(row, r)
    BY ClosedRow DEF Alike, Typed, WorkTyped
  <2>2. AddsUp(row, t.db.segs)
    BY <2>1 DEF BlocksOK
  <2> HIDE DEF row, r
  <2>3. \A i \in ActiveIn(t.db.segs, row.first, row.last) : i \in 1 .. Len(t.db.segs)
    BY <1>3, <2>2 DEF AddsUp, ActiveIn
  <2>ends. \A i \in 1 .. Len(t.db.segs) : t.db.segs[i].end <= d.segs[i].end
    BY <1>1, <1>2, <1>3, WholeRows DEF Timed
  <2>4. AddsUp(row, d.segs)
    BY <1>1, <1>2, <1>3, <2>2, <2>3, <2>ends, AddsUpKept
  <2>5. AddsUp(r, d.segs)
    BY <2>1, <2>4 DEF Alike, AddsUp
  <2> QED BY <2>5 DEF r
<1>5. \A i : ~IsOpen(d.segs, i)
  BY <1>1 DEF OpenRows, IsOpen
<1> QED BY <1>1, <1>4, <1>5 DEF BlocksOK, Settled

(* What CloseRows leaves behind. *)
Left(t, u) ==
  /\ u.mem.seg = NoSegment /\ u.mem.work = NoWork /\ u.mem.idleStart = NoTime
  /\ t.mem.seg = NoSegment => u.db.segs = t.db.segs
  /\ t.mem.seg # NoSegment => u.db.segs = Closed(t.db.segs)
  /\ t.mem.work = NoWork => u.db.blocks = t.db.blocks
  /\ t.mem.work # NoWork => u.db.blocks = Closed(t.db.blocks)

LEMMA CloseRowsLeaves ==
  ASSUME NEW t, Typed(t), NEW u, u = CloseRows(t)
  PROVE  Left(t, u)
<1>1. Shaped(t)
  BY DEF Typed
<1>2. u.mem.seg = NoSegment /\ u.mem.work = NoWork /\ u.mem.idleStart = NoTime
  BY <1>1 DEF CloseRows, Shaped
<1>3. u.db.segs = IF t.mem.seg = NoSegment THEN t.db.segs ELSE Closed(t.db.segs)
  BY <1>1 DEF CloseRows, Shaped
<1>4. u.db.blocks = IF t.mem.work = NoWork THEN t.db.blocks ELSE Closed(t.db.blocks)
  BY <1>1 DEF CloseRows, Shaped
<1> QED BY <1>2, <1>3, <1>4 DEF Left

LEMMA LeftAs ==
  ASSUME NEW t, NEW u, Left(t, u), NEW v, SegsAs(u, v), WorkAs(u, v), IdleAs(u, v)
  PROVE  Left(t, v)
BY DEF Left, SegsAs, WorkAs, IdleAs

LEMMA LeftSound ==
  ASSUME NEW t, Typed(t), Sound(t), NEW u, Left(t, u)
  PROVE  /\ Sound(u) /\ (OpenRows(u.db.segs) = {} => OpenRows(u.db.blocks) = {})
         /\ BlocksGo(t.db, u.db)
<1>go. BlocksGo(t.db, u.db)
  <2>1. /\ u.db.segs \in {t.db.segs, Closed(t.db.segs)}
        /\ u.db.blocks \in {t.db.blocks, Closed(t.db.blocks)}
    BY DEF Left
  <2>2. /\ Segments(t.db.segs) /\ Blocks(t.db.blocks) /\ BlocksOK(t.db)
    BY DEF Typed, SegsTyped, WorkTyped, Sound
  <2>3. EndsKept(t.db.segs, u.db.segs)
    BY <2>1, <2>2, ClosedKeeps
  <2> QED BY <2>1, <2>2, <2>3, EndsKeptSame, BlocksStayClosed
<1>1. CASE t.mem.seg = NoSegment
  <2>1. t.mem.work = NoWork
    BY <1>1 DEF Sound, BlockHeld, Unserved
  <2>2. u.db.segs = t.db.segs /\ u.db.blocks = t.db.blocks
    BY <1>1, <2>1 DEF Left
  <2> QED BY <1>go, <2>2 DEF Left, Sound, SegHeld, BlockHeld, Unserved, BlocksOK
<1>2. CASE t.mem.seg # NoSegment
  <2>1. OpenRows(u.db.blocks) = {} /\ u.db.blocks \in {t.db.blocks, Closed(t.db.blocks)}
    <3>1. CASE t.mem.work = NoWork
      BY <1>2, <3>1, OnlyOpenOther DEF Left
    <3>2. CASE t.mem.work # NoWork
      BY <3>2, ClosedBlocks DEF Left, Typed, WorkTyped
    <3> QED BY <3>1, <3>2
  <2>2. u.db.segs = Closed(t.db.segs)
    BY <1>2 DEF Left
  <2>3. BlocksOK(u.db)
    BY <2>1, <2>2, ClosedOK DEF Sound
  <2>4. SegTimes(u.db.segs)
    <3>1. Segments(t.db.segs) /\ SegTimes(t.db.segs)
      BY DEF Typed, SegsTyped, Sound
    <3> QED BY <2>2, <3>1, ClosedKeeps
  <2> QED BY <1>go, <2>1, <2>3, <2>4 DEF Left, Sound, SegHeld, BlockHeld, Unserved
<1> QED BY <1>1, <1>2

-----------------------------------------------------------------------------
(* The sample that continues the held segment.                             *)
BlockStep(t, v) == v.ok /\ Sound(t) => Sound(v) /\ BlocksGo(t.db, v.db)

LEMMA AttributeEffect ==
  ASSUME NEW t, Typed(t), IsMemSegment(t.mem.seg), NEW s, s.utc \in Int,
         t.mem.seg.app = s.app, t.mem.seg.state = s.state,
         0 < s.utc - t.mem.seg.end, s.utc - t.mem.seg.end <= GapCap,
         NEW v, v = Attribute(t, s)
  PROVE  /\ Typed(v) /\ Follows(t, v) /\ WorkStep(t, v)
         /\ GapsAs(t, v) /\ LogAs(t, v) /\ RestAs(t, v)
         /\ SampleStep(t, v, s) /\ BlockStep(t, v)
<1> DEFINE seg == t.mem.seg
           old == t.db.segs
           delta == s.utc - seg.end
           u == [t EXCEPT !.db.segs[seg.id].end = s.utc, !.mem.seg.end = s.utc,
                     !.ok = @ /\ IsOpen(t.db.segs, seg.id) /\ t.db.segs[seg.id].end <= s.utc]
           new == u.db.segs
<1>1. /\ u = Lengthened(t, s)
      /\ \/ seg.state = "active" /\ v = CountActive(u, delta, s.utc)
         \/ seg.state = "idle" /\ v = CountIdle(u, delta, s.utc)
         \/ seg.state = "unknown" /\ v = u
  BY DEF Attribute, Lengthened, IsMemSegment, States
<1>2. Shaped(t)
  BY DEF Typed
<1>3. Shaped(u)
  BY <1>2 DEF Shaped
<1>4. WorkAs(t, u) /\ GapsAs(t, u) /\ LogAs(t, u) /\ RestAs(t, u) /\ IdleAs(t, u)
  BY <1>2 DEF Shaped, WorkAs, GapsAs, LogAs, RestAs, SeenAs, IdleAs
<1>5. /\ Follows(t, u)
      /\ u.ok => IsOpen(old, seg.id) /\ old[seg.id].end <= s.utc
  BY <1>2 DEF Shaped, Follows
<1>6. new = [old EXCEPT ![seg.id] = [@ EXCEPT !.end = s.utc]]
  BY <1>2 DEF Shaped
<1>7. u.mem.seg = [seg EXCEPT !.end = s.utc]
  BY <1>2 DEF Shaped
<1>8. delta \in Nat
  BY DEF IsMemSegment
<1> HIDE DEF u, delta
<1>9. IsMemSegment(u.mem.seg) /\ u.mem.seg.id = seg.id /\ u.mem.seg.end = s.utc
      /\ \A f \in {"app", "state", "epoch", "start"} : u.mem.seg[f] = seg[f]
  <2> HIDE DEF seg
  <2>1. u.mem.seg = [id |-> seg.id, app |-> seg.app, state |-> seg.state, epoch |-> seg.epoch,
                     start |-> seg.start, end |-> s.utc]
    BY <1>7 DEF IsMemSegment, seg
  <2> QED BY <2>1 DEF IsMemSegment, seg
<1>10. Segments(old)
  BY DEF Typed, SegsTyped
<1> HIDE DEF old, new
<1>11. DOMAIN new = DOMAIN old /\ new = [i \in DOMAIN new |-> new[i]]
  BY <1>6
<1>12. ASSUME NEW i \in DOMAIN old
       PROVE  /\ IsSegment(new[i]) /\ new[i].status = old[i].status
              /\ i = seg.id => /\ new[i] = [old[i] EXCEPT !.end = s.utc] /\ new[i].end = s.utc
                               /\ new[i].run = old[i].run
                               /\ \A f \in {"app", "state", "epoch", "start"} :
                                    new[i][f] = old[i][f]
              /\ i # seg.id => new[i] = old[i]
  <2>1. IsSegment(old[i])
    BY <1>10 DEF Segments
  <2>2. CASE i # seg.id
    BY <1>6, <2>1, <2>2
  <2>3. CASE i = seg.id
    <3>1. new[i] = [old[i] EXCEPT !.end = s.utc]
      BY <1>6, <2>3
    <3>2. new[i] = [run |-> old[i].run, app |-> old[i].app, state |-> old[i].state,
                    epoch |-> old[i].epoch, start |-> old[i].start, end |-> s.utc,
                    status |-> old[i].status]
      BY <2>1, <3>1 DEF IsSegment
    <3>3. IsSegment(new[i])
      BY <2>1, <3>2 DEF IsSegment
    <3> QED BY <2>3, <3>1, <3>2, <3>3
  <2> QED BY <2>2, <2>3
<1>13. Segments(new)
  BY <1>10, <1>11, <1>12, RowsRebuilt DEF Segments
<1>14. OpenRows(new) = OpenRows(old)
  BY <1>11, <1>12 DEF OpenRows, IsOpen
<1>15. Typed(u)
  <2>1. SegsTyped(u)
    BY <1>9, <1>13 DEF SegsTyped, new
  <2> QED BY <1>3, <1>4, <2>1, TypedAs DEF Typed
<1>16. seg # NoSegment /\ seg.id # 0 /\ u.mem.seg # NoSegment /\ u.mem.seg.id # 0
  BY <1>9 DEF IsMemSegment, NoSegment
<1>17. SampleStep(t, u, s)
  <2>1. ASSUME u.ok
        PROVE  /\ SegHeld(t) => SegMirror(u)
               /\ OneOpen(old) => OneOpen(new)
               /\ SegTimes(old) => SegTimes(new)
               /\ HeldRun(t) => HeldRun(u)
               /\ Continues(t, u, s)
    <3>1. seg.id \in DOMAIN old /\ old[seg.id].end <= s.utc
      BY <1>5, <2>1 DEF IsOpen
    <3>2. /\ new[seg.id].end = s.utc /\ new[seg.id].run = old[seg.id].run
          /\ \A f \in {"app", "state", "epoch", "start"} : new[seg.id][f] = old[seg.id][f]
      BY <1>12, <3>1
    <3>3. SegHeld(t) => SegMirror(u)
      <4> SUFFICES ASSUME SegMirror(t)
                   PROVE  /\ OpenRows(new) = {u.mem.seg.id} \ {0}
                          /\ \A f \in {"app", "state", "epoch", "start", "end"} :
                               new[u.mem.seg.id][f] = u.mem.seg[f]
        BY <1>16 DEF SegHeld, SegMirror, new
      <4>1. /\ OpenRows(old) = {seg.id} \ {0}
            /\ \A f \in {"app", "state", "epoch", "start"} : old[seg.id][f] = seg[f]
        BY <1>16 DEF SegMirror, old
      <4>2. OpenRows(new) = {u.mem.seg.id} \ {0}
        BY <1>9, <1>14, <4>1
      <4>3. new[u.mem.seg.id].end = u.mem.seg.end
        BY <1>9, <3>2
      <4>4. \A f \in {"app", "state", "epoch", "start"} : new[u.mem.seg.id][f] = u.mem.seg[f]
        BY <1>9, <3>2, <4>1
      <4> QED BY <4>2, <4>3, <4>4
    <3>4. SegTimes(old) => SegTimes(new)
      <4> SUFFICES ASSUME SegTimes(old), NEW i \in DOMAIN new PROVE new[i].start <= new[i].end
        BY DEF SegTimes
      <4>1. IsSegment(old[i]) /\ old[i].start <= old[i].end
        BY <1>10, <1>11 DEF Segments, SegTimes
      <4> QED BY <1>11, <1>12, <3>1, <4>1 DEF IsSegment
    <3>5. HeldRun(t) => HeldRun(u)
      BY <1>5, <1>9, <1>16, <3>2 DEF HeldRun, Follows, old, new
    <3>6. Continues(t, u, s)
      BY <1>11, <1>12, <1>16, <3>1 DEF Continues, old, new
    <3> QED BY <1>14, <3>3, <3>4, <3>5, <3>6 DEF OneOpen
  <2>2. u.mem.seg.app = s.app /\ u.mem.seg.state = s.state
    BY <1>9
  <2> QED BY <1>9, <1>16, <2>1, <2>2 DEF SampleStep, old, new
<1>18. /\ Typed(v) /\ Follows(u, v) /\ WorkStep(u, v)
       /\ SegsAs(u, v) /\ GapsAs(u, v) /\ LogAs(u, v) /\ RestAs(u, v)
  <2>1. CASE v = CountActive(u, delta, s.utc)
    BY <1>15, <2>1, CountActiveEffect
  <2>2. CASE v = CountIdle(u, delta, s.utc)
    BY <1>8, <1>9, <1>15, <2>2, CountIdleEffect
  <2>3. CASE v = u
    BY <1>15, <2>3 DEF Follows, WorkStep, SegsAs, GapsAs, LogAs, RestAs, SeenAs
  <2> QED BY <1>1, <2>1, <2>2, <2>3
<1>19. WorkStep(t, v) /\ Follows(t, v) /\ GapsAs(t, v) /\ LogAs(t, v) /\ RestAs(t, v)
  <2>1. WorkStep(t, v)
    BY <1>4, <1>18, WorkStepAs, WorkStepTwice
  <2> QED BY <1>4, <1>5, <1>18, <2>1 DEF Follows, GapsAs, LogAs, RestAs, SeenAs
<1>20. SampleStep(t, v, s)
  <2>1. SegsAs(t, t) /\ v.run = u.run /\ (v.ok => u.ok)
    BY <1>18 DEF SegsAs, Follows
  <2> QED BY <1>17, <1>18, <2>1, SampleStepAs
<1>21. BlockStep(t, v)
  <2> SUFFICES ASSUME v.ok, Sound(t) PROVE Sound(v) /\ BlocksGo(t.db, v.db)
    BY DEF BlockStep
  <2>1. /\ SegHeld(t) /\ SegTimes(t.db.segs) /\ u.ok
    BY <1>18 DEF Sound, Follows
  <2>2. SegMirror(u) /\ SegTimes(u.db.segs)
    BY <1>17, <2>1 DEF SampleStep
  <2>3. t.mem.seg.end <= s.utc
    BY DEF IsMemSegment
  <2>4. Grows(t, u, s.utc)
    BY <1>4, <1>15, <1>16, <1>1, <2>2, <2>3, LengthenedSound
  <2>5. u.mem.seg.state = seg.state /\ delta = s.utc - t.mem.seg.end
    BY <1>9 DEF delta
  <2>6. CASE seg.state = "active"
    BY <1>1, <2>4, <2>5, <2>6, CountActiveSound
  <2>7. CASE seg.state = "idle"
    BY <1>1, <2>4, <2>5, <2>7, CountIdleSound
  <2>8. CASE seg.state = "unknown"
    <3>1. v = u
      BY <1>1, <2>8
    <3>2. u.mem.work = NoWork
      BY <2>8, SoundHolds, <1>4, <1>16 DEF Served, WorkAs
    <3> QED BY <2>4, <2>5, <2>8, <3>1, <3>2, GrownUnserved
  <2> QED BY <1>1, <2>6, <2>7, <2>8
<1> QED BY <1>18, <1>19, <1>20, <1>21

(* A segment that starts after the rows of the one before were closed, or  *)
(* with no row open.                                                       *)
LEMMA FreshSegment ==
  ASSUME NEW t, Typed(t), NEW q, Typed(q), Follows(t, q),
         q.db.segs \in {t.db.segs, Closed(t.db.segs)},
         NEW s, s.app \in Apps, s.utc \in Int, s.state \in States, NEW v, v = StartSegment(q, s)
  PROVE  SampleStep(t, v, s) /\ (v.ok => EndsKept(t.db.segs, v.db.segs))
<1>1. /\ Follows(q, v)
      /\ v.mem.seg # NoSegment /\ v.mem.seg.end = s.utc
      /\ v.mem.seg.app = s.app /\ v.mem.seg.state = s.state
      /\ v.ok => /\ SegMirror(v) /\ OneOpen(v.db.segs)
                 /\ v.db.segs[v.mem.seg.id].run = q.run
                 /\ EndsKept(q.db.segs, v.db.segs)
                 /\ SegTimes(q.db.segs) => SegTimes(v.db.segs)
  BY StartSegmentEffect
<1>2. /\ DOMAIN q.db.segs = DOMAIN t.db.segs
      /\ \A i \in DOMAIN t.db.segs : /\ q.db.segs[i].start = t.db.segs[i].start
                                     /\ q.db.segs[i].end = t.db.segs[i].end
                                     /\ q.db.segs[i].app = t.db.segs[i].app
                                     /\ q.db.segs[i].state = t.db.segs[i].state
  BY ClosedSegments DEF Typed, SegsTyped
<1>3. SegTimes(t.db.segs) => SegTimes(q.db.segs)
  BY <1>2 DEF SegTimes
<1>4. EndsKept(q.db.segs, v.db.segs) => EndsKept(t.db.segs, v.db.segs)
  BY <1>2 DEF EndsKept, EndOf
<1>5. v.run = q.run
  BY <1>1 DEF Follows
<1> QED BY <1>1, <1>3, <1>4, <1>5 DEF SampleStep, HeldRun

GapsStay(t, u) ==
  /\ u.mem.gap = t.mem.gap
  /\ OpenRows(u.db.gaps) = OpenRows(t.db.gaps)
  /\ \A i \in OpenRows(t.db.gaps) : u.db.gaps[i].kind = t.db.gaps[i].kind
  /\ GapsKept(t.db.gaps, u.db.gaps)

LEMMA GapsStayAs ==
  ASSUME NEW t, NEW u, NEW v
  PROVE  /\ GapsAs(t, u) => GapsStay(t, u)
         /\ GapsStay(t, u) /\ GapsStay(u, v) => GapsStay(t, v)
<1>1. GapsAs(t, u) => GapsStay(t, u)
  BY GapsKeptSame DEF GapsAs, GapsStay
<1>2. GapsStay(t, u) /\ GapsStay(u, v) => GapsStay(t, v)
  BY GapsKeptTwice DEF GapsStay
<1> QED BY <1>1, <1>2

LEMMA ApplySampleEffect ==
  ASSUME NEW t, Typed(t), NEW s, s.app \in Apps, s.utc \in Int, s.state \in States,
         NEW v, v = ApplySample(t, s)
  PROVE  /\ Typed(v) /\ Follows(t, v) /\ WorkStep(t, v)
         /\ GapsStay(t, v) /\ LogAs(t, v) /\ RestAs(t, v)
         /\ SampleStep(t, v, s) /\ BlockStep(t, v)
<1> DEFINE seg == t.mem.seg
           same == /\ seg.app = s.app /\ seg.state = s.state /\ seg.epoch = s.epoch
                   /\ 0 < s.utc - seg.end /\ s.utc - seg.end <= GapCap
           ended == [t EXCEPT !.db.segs = Closed(@)]
           cut == InsertGap(ended, "sampling_transition", seg.end, s.utc)
           changed == IF seg.state = s.state THEN cut ELSE ChangeState(cut, seg.state, s.state)
           free == [changed EXCEPT !.mem.seg = NoSegment]
<1>1. v = IF seg = NoSegment THEN StartSegment(t, s)
          ELSE IF same THEN Attribute(t, s) ELSE StartSegment(free, s)
  BY DEF ApplySample
<1>2. CASE seg = NoSegment
  <2>1. v = StartSegment(t, s)
    BY <1>1, <1>2
  <2>2. /\ Typed(v) /\ Follows(t, v) /\ WorkAs(t, v) /\ GapsAs(t, v) /\ LogAs(t, v)
        /\ RestAs(t, v)
    BY <2>1, StartSegmentEffect
  <2>3. SampleStep(t, v, s)
    BY <2>1, FreshSegment DEF Follows
  <2>4. ASSUME v.ok, Sound(t)
        PROVE  Sound(v) /\ BlocksGo(t.db, v.db)
    <3>1. SegmentStarts(t, t, s, v)
      BY <2>1, <2>4 DEF SegmentStarts, Sound
    <3> QED BY <1>2, <2>4, <3>1, BeginsAnew DEF Sound, BlockHeld, Unserved, BlocksOK
  <2> QED BY <2>2, <2>3, <2>4, WorkStepAs, GapsStayAs DEF BlockStep
<1>3. CASE seg # NoSegment /\ same
  <2>1. v = Attribute(t, s) /\ IsMemSegment(t.mem.seg)
    BY <1>1, <1>3 DEF Typed, SegsTyped
  <2>2. /\ Typed(v) /\ Follows(t, v) /\ WorkStep(t, v)
        /\ GapsAs(t, v) /\ LogAs(t, v) /\ RestAs(t, v)
        /\ SampleStep(t, v, s) /\ BlockStep(t, v)
    BY <1>3, <2>1, AttributeEffect
  <2> QED BY <2>2, GapsStayAs
<1>4. CASE seg # NoSegment /\ ~same
  <2>1. v = StartSegment(free, s) /\ IsMemSegment(seg)
    BY <1>1, <1>4 DEF Typed, SegsTyped
  <2>2. seg.state \in States
    BY <2>1 DEF IsMemSegment
  <2> HIDE DEF same
  <2>3. /\ Typed(ended) /\ Follows(t, ended)
        /\ WorkAs(t, ended) /\ GapsAs(t, ended) /\ LogAs(t, ended) /\ IdleAs(t, ended)
        /\ RestAs(t, ended)
        /\ ended.db.segs = Closed(t.db.segs) /\ ended.mem.seg = t.mem.seg
    <3>1. Shaped(ended) /\ Follows(t, ended)
      BY DEF Typed, Shaped, Follows
    <3>2. /\ WorkAs(t, ended) /\ GapsAs(t, ended) /\ LogAs(t, ended) /\ IdleAs(t, ended)
          /\ RestAs(t, ended)
      BY DEF Typed, Shaped, WorkAs, GapsAs, LogAs, IdleAs, RestAs, SeenAs
    <3>3. ended.db.segs = Closed(t.db.segs) /\ ended.mem.seg = t.mem.seg
      BY DEF Typed, Shaped
    <3> HIDE DEF ended
    <3>4. SegsTyped(ended)
      BY <3>3, ClosedSegments DEF Typed, SegsTyped
    <3> QED BY <3>1, <3>2, <3>3, <3>4, TypedAs DEF Typed
  <2> HIDE DEF ended
  <2>4. /\ Typed(cut) /\ Follows(ended, cut)
        /\ SegsAs(ended, cut) /\ WorkAs(ended, cut) /\ LogAs(ended, cut) /\ IdleAs(ended, cut)
        /\ RestAs(ended, cut)
        /\ GapsStay(ended, cut) /\ (cut.ok => seg.end <= s.utc)
    <3>1. seg.end \in Int
      BY <2>1 DEF IsMemSegment
    <3> QED BY <2>3, <3>1, InsertGapEffect DEF GapsStay
  <2> HIDE DEF cut
  <2>5. /\ WorkAs(t, cut) /\ IdleAs(t, cut) /\ cut.mem.seg = t.mem.seg
         /\ changed = IF t.mem.seg.state = s.state THEN cut
                      ELSE ChangeState(cut, t.mem.seg.state, s.state)
    BY <2>3, <2>4 DEF WorkAs, IdleAs, SegsAs
  <2>6. /\ Typed(changed) /\ Follows(cut, changed) /\ WorkStep(cut, changed)
        /\ SegsAs(cut, changed) /\ GapsAs(cut, changed) /\ LogAs(cut, changed)
        /\ RestAs(cut, changed)
    <3>1. CASE seg.state = s.state
      BY <2>4, <3>1 DEF Follows, WorkStep, SegsAs, GapsAs, LogAs, RestAs, SeenAs
    <3>2. CASE seg.state # s.state
      <4>1. changed = ChangeState(cut, seg.state, s.state)
        BY <3>2
      <4> HIDE DEF changed, seg
      <4> QED BY <2>2, <2>4, <3>2, <4>1, ChangeStateEffect
    <3> QED BY <3>1, <3>2
  <2> HIDE DEF changed
  <2>7. /\ Typed(free) /\ Follows(changed, free) /\ free.db.segs = changed.db.segs
        /\ WorkAs(changed, free) /\ GapsAs(changed, free) /\ LogAs(changed, free)
        /\ IdleAs(changed, free) /\ RestAs(changed, free)
    <3>1. Shaped(free) /\ Follows(changed, free)
      BY <2>6 DEF Typed, Shaped, Follows
    <3>2. /\ WorkAs(changed, free) /\ GapsAs(changed, free) /\ LogAs(changed, free)
          /\ IdleAs(changed, free) /\ RestAs(changed, free)
      BY <2>6 DEF Typed, Shaped, WorkAs, GapsAs, LogAs, IdleAs, RestAs, SeenAs
    <3>3. free.db.segs = changed.db.segs /\ free.mem.seg = NoSegment
      BY <2>6 DEF Typed, Shaped
    <3> HIDE DEF free
    <3>4. SegsTyped(free)
      BY <2>6, <3>3 DEF Typed, SegsTyped
    <3> QED BY <2>6, <3>1, <3>2, <3>3, <3>4, TypedAs DEF Typed
  <2> HIDE DEF free
  <2>8. Follows(t, free) /\ free.db.segs = Closed(t.db.segs)
    BY <2>3, <2>4, <2>6, <2>7 DEF Follows, SegsAs
  <2>9. SampleStep(t, v, s)
    BY <2>1, <2>7, <2>8, FreshSegment
  <2>10. /\ Typed(v) /\ Follows(free, v) /\ WorkAs(free, v) /\ GapsAs(free, v)
        /\ LogAs(free, v) /\ RestAs(free, v)
    BY <2>1, <2>7, StartSegmentEffect
  <2>11. LogAs(t, v) /\ RestAs(t, v) /\ Follows(t, v)
    BY <2>3, <2>4, <2>6, <2>7, <2>10 DEF LogAs, RestAs, SeenAs, Follows
  <2>12. GapsStay(t, v)
    <3>1. GapsStay(t, cut)
      BY <2>3, <2>4, GapsStayAs
    <3>2. GapsStay(cut, v)
      BY <2>6, <2>7, <2>10, GapsStayAs DEF GapsAs
    <3> QED BY <3>1, <3>2, GapsStayAs
  <2>13. WorkStep(t, v)
    <3>1. WorkAs(t, cut) /\ WorkAs(changed, v)
      BY <2>3, <2>4, <2>7, <2>10 DEF WorkAs
    <3>2. WorkStep(t, changed)
      BY <2>6, <3>1, WorkStepAs, WorkStepTwice
    <3>3. Follows(changed, v)
      BY <2>7, <2>10 DEF Follows
    <3> QED BY <3>1, <3>2, <3>3, WorkStepAs, WorkStepTwice
  <2>14. ASSUME v.ok, Sound(t)
         PROVE  Sound(v) /\ BlocksGo(t.db, v.db)
    <3>1. /\ changed.ok /\ cut.ok
      BY <2>6, <2>7, <2>10, <2>14 DEF Follows
    <3>2. SegmentStarts(t, free, s, v)
      BY <2>1, <2>7, <2>8, <2>14 DEF SegmentStarts, Sound
    <3>3. t.mem.seg.end <= s.utc /\ t.mem.seg # NoSegment
      BY <1>4, <2>4, <3>1
    <3> QED BY <2>4, <2>7, <2>5, <2>14, <3>1, <3>2, <3>3, CutSound
  <2> QED BY <2>9, <2>10, <2>11, <2>12, <2>13, <2>14 DEF BlockStep
<1> QED BY <1>2, <1>3, <1>4

SeenOK(t) == t.mem.seen <= t.cont.epoch

EpochGrows(t, u) == t.cont.epoch <= u.cont.epoch /\ (SeenOK(t) => SeenOK(u))

LEMMA ClassifiedEffect ==
  ASSUME NEW t, Typed(t), NEW b, NEW u, u = Classified(t, b)
  PROVE  /\ Typed(u) /\ Follows(t, u) /\ EpochGrows(t, u)
         /\ SegsAs(t, u) /\ WorkAs(t, u) /\ GapsAs(t, u) /\ LogAs(t, u) /\ IdleAs(t, u)
<1> DEFINE noted == [t EXCEPT !.mem.capDrops = t.cont.capture, !.mem.wrDrops = t.cont.writer]
           moved == [t EXCEPT !.cont.epoch = @ + 1, !.mem.seen = t.cont.epoch + 1]
<1>1. u = noted \/ u = moved \/ u = t
  BY DEF Classified
<1>2. Shaped(t) /\ t.cont \in Counters /\ t.mem.seen \in Int /\ t.mem.point.utc \in Int
  BY DEF Typed, RestTyped
<1>3. CASE u = noted
  <2>1. Shaped(u) /\ Follows(t, u)
    BY <1>2, <1>3 DEF Shaped, Follows
  <2>2. /\ u.db = t.db /\ u.cont = t.cont
        /\ u.mem.seg = t.mem.seg /\ u.mem.work = t.mem.work /\ u.mem.gap = t.mem.gap
        /\ u.mem.idleStart = t.mem.idleStart /\ u.mem.idleSum = t.mem.idleSum
        /\ u.mem.seen = t.mem.seen /\ u.mem.point = t.mem.point
    <3>1. u.db = t.db /\ u.cont = t.cont
      BY <1>2, <1>3 DEF Shaped
    <3>2. u.mem = [t.mem EXCEPT !.capDrops = t.cont.capture, !.wrDrops = t.cont.writer]
      BY <1>2, <1>3 DEF Shaped
    <3> QED BY <1>2, <3>1, <3>2 DEF Shaped
  <2>3. Typed(u)
    BY <2>1, <2>2, TypedAs DEF Typed, SegsAs, WorkAs, GapsAs, LogAs, IdleAs, RestAs, SeenAs
  <2> QED BY <1>2, <2>1, <2>2, <2>3
          DEF SegsAs, WorkAs, GapsAs, LogAs, IdleAs, EpochGrows, SeenOK, Counters
<1>4. CASE u = moved
  <2>1. Shaped(u) /\ Follows(t, u)
    BY <1>2, <1>4 DEF Shaped, Follows
  <2>2. SegsAs(t, u) /\ WorkAs(t, u) /\ GapsAs(t, u) /\ LogAs(t, u) /\ IdleAs(t, u)
    BY <1>2, <1>4 DEF Shaped, SegsAs, WorkAs, GapsAs, LogAs, IdleAs
  <2>3. /\ u.cont = [t.cont EXCEPT !.epoch = @ + 1] /\ u.mem.seen = t.cont.epoch + 1
        /\ u.mem.point = t.mem.point
    BY <1>2, <1>4 DEF Shaped
  <2>4. RestTyped(u) /\ EpochGrows(t, u)
    BY <1>2, <2>3 DEF RestTyped, EpochGrows, SeenOK, Counters
  <2> QED BY <2>1, <2>2, <2>4, TypedAs DEF Typed
<1>5. CASE u = t
  BY <1>2, <1>5 DEF Follows, EpochGrows, SegsAs, WorkAs, GapsAs, LogAs, IdleAs, Counters
<1> QED BY <1>1, <1>3, <1>4, <1>5

LEMMA BoundaryGapEffect ==
  ASSUME NEW t, Typed(t), NEW b, NEW kind, NEW s, s.utc \in Int,
         b \in {"queue_drop", "stale_epoch", "clock_changed", "capture_delayed"},
         NEW u, u = InsertBoundaryGap(t, b, kind, s)
  PROVE  /\ Typed(u) /\ Follows(t, u) /\ GapsStay(t, u)
         /\ SegsAs(t, u) /\ WorkAs(t, u) /\ LogAs(t, u) /\ IdleAs(t, u)
         /\ RestAs(t, u)
<1>from. GapStart(t.mem, s) \in Int
  BY DEF GapStart, Typed, RestTyped
<1>1. \E k, to : u = InsertGap(t, k, GapStart(t.mem, s), to)
  <2>1. CASE b = "queue_drop"
    BY <2>1 DEF InsertBoundaryGap
  <2>2. CASE b \in {"clock_changed", "stale_epoch"}
    BY <2>2 DEF InsertBoundaryGap
  <2>3. CASE b = "capture_delayed"
    BY <2>3 DEF InsertBoundaryGap
  <2> QED BY <2>1, <2>2, <2>3
<1>2. PICK k, to : u = InsertGap(t, k, GapStart(t.mem, s), to)
  BY <1>1
<1> QED BY <1>from, <1>2, InsertGapEffect DEF GapsStay

(* The sample that ends a gap, and a shutdown: the open gap is closed.     *)
Resumed(t, at) ==
  IF t.mem.gap = "none" THEN t ELSE [CloseGap(t, at) EXCEPT !.mem.gap = "none"]

LEMMA ResumedEffect ==
  ASSUME NEW t, Typed(t), NEW at, NEW u, u = Resumed(t, at)
  PROVE  /\ Typed(u) /\ Follows(t, u)
         /\ SegsAs(t, u) /\ WorkAs(t, u) /\ LogAs(t, u) /\ IdleAs(t, u) /\ RestAs(t, u)
         /\ u.mem.gap = "none"
         /\ GapHeld(t) => OpenRows(u.db.gaps) = {}
         /\ OneOpen(t.db.gaps) => OneOpen(u.db.gaps)
         /\ GapsKept(t.db.gaps, u.db.gaps)
<1>1. CASE t.mem.gap = "none"
  BY <1>1, GapsKeptSame DEF Resumed, Follows, SegsAs, WorkAs, LogAs, IdleAs, RestAs, SeenAs, GapHeld
<1>2. CASE t.mem.gap # "none"
  <2> DEFINE q == CloseGap(t, at)
  <2>1. /\ Typed(q) /\ Follows(t, q) /\ OpenRows(q.db.gaps) = {} /\ GapsKept(t.db.gaps, q.db.gaps)
        /\ SegsAs(t, q) /\ WorkAs(t, q) /\ LogAs(t, q) /\ IdleAs(t, q) /\ RestAs(t, q)
    BY CloseGapEffect
  <2>2. u = [q EXCEPT !.mem.gap = "none"]
    BY <1>2 DEF Resumed
  <2> HIDE DEF q
  <2>3. Shaped(u) /\ Follows(q, u)
    BY <2>1, <2>2 DEF Typed, Shaped, Follows
  <2>4. SegsAs(q, u) /\ WorkAs(q, u) /\ LogAs(q, u) /\ IdleAs(q, u) /\ RestAs(q, u)
    BY <2>1, <2>2 DEF Typed, Shaped, SegsAs, WorkAs, LogAs, IdleAs, RestAs, SeenAs
  <2>5. u.mem.gap = "none" /\ u.db.gaps = q.db.gaps
    BY <2>1, <2>2 DEF Typed, Shaped
  <2>6. GapsTyped(u)
    BY <2>1, <2>5 DEF Typed, GapsTyped, GapNames
  <2>7. Typed(u)
    BY <2>1, <2>3, <2>4, <2>6, TypedAs DEF Typed
  <2> QED BY <2>1, <2>3, <2>4, <2>5, <2>7
          DEF Follows, SegsAs, WorkAs, LogAs, IdleAs, RestAs, SeenAs, OneOpen
<1> QED BY <1>1, <1>2

Observation(t, s) ==
  [run |-> t.run, epoch |-> s.epoch, utc |-> s.utc, app |-> s.app, state |-> s.state]

LEMMA OnSampleEffect ==
  ASSUME NEW t, Typed(t), NEW s, s.app \in Apps, s.utc \in Int, s.state \in States, s.epoch \in Int,
         NEW v, v = OnSample(t, s)
  PROVE  /\ Typed(v) /\ Goes(t, v) /\ WorkStep(t, v) /\ SampleStep(t, v, s) /\ BlockStep(t, v)
         /\ v.ok /\ Fresh(t.db) /\ SegHeld(t) => Fresh(v.db)
         /\ v.db.runs = t.db.runs /\ v.db.obs = Append(t.db.obs, Observation(t, s))
         /\ t.cont.epoch <= v.cont.epoch
         /\ SeenOK(t) /\ s.epoch <= t.cont.epoch => SeenOK(v)
         /\ v.mem.gap = "none"
         /\ GapHeld(t) => OpenRows(v.db.gaps) = {}
         /\ OneOpen(t.db.gaps) => OneOpen(v.db.gaps)
         /\ GapsKept(t.db.gaps, v.db.gaps) /\ RowsFrom(t.db, v.db)
<1> DEFINE resumed == Resumed(t, s.utc)
           stored == [resumed EXCEPT !.db.obs = Append(@, [run |-> t.run, epoch |-> s.epoch,
                                                           utc |-> s.utc, app |-> s.app,
                                                           state |-> s.state])]
           b == BoundaryAt(t.mem, s)
           noted == Classified(stored, b)
           closed == CloseRows(noted)
           gapped == InsertBoundaryGap(closed, b, DropKind(t.mem, t.cont), s)
           applied == IF b = "none" THEN ApplySample(noted, s) ELSE StartSegment(gapped, s)
           moved == [applied EXCEPT !.mem.point = [utc |-> s.utc, mono |-> s.mono],
                                    !.mem.seen = Max({@, s.epoch})]
           from == TouchedFrom(t.mem, b, s)
<1>1. v = Recompute(moved, from, Max({from, s.utc}))
  BY DEF OnSample, Resumed
<1>2. b \in {"none", "queue_drop", "stale_epoch", "clock_changed", "capture_delayed"}
  BY DEF BoundaryAt
<1> HIDE DEF b, from
<1>3. /\ Typed(resumed) /\ Follows(t, resumed)
      /\ SegsAs(t, resumed) /\ WorkAs(t, resumed) /\ LogAs(t, resumed) /\ IdleAs(t, resumed)
      /\ RestAs(t, resumed)
      /\ resumed.mem.gap = "none"
      /\ GapHeld(t) => OpenRows(resumed.db.gaps) = {}
      /\ OneOpen(t.db.gaps) => OneOpen(resumed.db.gaps)
      /\ GapsKept(t.db.gaps, resumed.db.gaps)
  BY ResumedEffect
<1> HIDE DEF resumed
<1>4. /\ Typed(stored) /\ Follows(t, stored)
      /\ SegsAs(t, stored) /\ WorkAs(t, stored) /\ GapsAs(resumed, stored) /\ IdleAs(t, stored)
      /\ RestAs(t, stored)
      /\ stored.db.runs = t.db.runs /\ stored.db.obs = Append(t.db.obs, Observation(t, s))
  <2>1. Shaped(stored) /\ Follows(resumed, stored)
    BY <1>3 DEF Typed, Shaped, Follows
  <2>2. /\ SegsAs(resumed, stored) /\ WorkAs(resumed, stored) /\ GapsAs(resumed, stored)
        /\ IdleAs(resumed, stored) /\ RestAs(resumed, stored)
    BY <1>3 DEF Typed, Shaped, SegsAs, WorkAs, GapsAs, IdleAs, RestAs, SeenAs
  <2>3. /\ stored.db.runs = resumed.db.runs
        /\ stored.db.obs = Append(resumed.db.obs, Observation(t, s))
    BY <1>3 DEF Typed, Shaped, Observation
  <2> HIDE DEF stored
  <2>4. LogTyped(stored)
    BY <1>3, <2>3, RowsAppended DEF Typed, LogTyped
  <2>5. Typed(stored)
    BY <1>3, <2>1, <2>2, <2>4, TypedAs DEF Typed
  <2> QED BY <1>3, <2>1, <2>2, <2>3, <2>5 DEF Follows, SegsAs, WorkAs, IdleAs, RestAs, SeenAs, LogAs
<1> HIDE DEF stored
<1>5. /\ Typed(noted) /\ Follows(stored, noted) /\ EpochGrows(stored, noted)
      /\ SegsAs(stored, noted) /\ WorkAs(stored, noted) /\ GapsAs(stored, noted)
      /\ LogAs(stored, noted) /\ IdleAs(stored, noted)
  BY <1>4, ClassifiedEffect
<1> HIDE DEF noted
<1>6. /\ Typed(applied) /\ Follows(noted, applied) /\ WorkStep(noted, applied)
      /\ GapsStay(noted, applied) /\ LogAs(noted, applied) /\ RestAs(noted, applied)
      /\ SampleStep(noted, applied, s) /\ BlockStep(noted, applied)
      /\ b # "none" /\ applied.ok => EndsKept(noted.db.segs, applied.db.segs)
  <2>1. CASE b = "none"
    BY <1>5, <2>1, ApplySampleEffect
  <2>2. CASE b # "none"
    <3>1. applied = StartSegment(gapped, s)
      BY <2>2
    <3>2. /\ Typed(closed) /\ Follows(noted, closed)
          /\ GapsAs(noted, closed) /\ LogAs(noted, closed) /\ RestAs(noted, closed)
          /\ closed.db.segs \in {noted.db.segs, Closed(noted.db.segs)}
          /\ closed.db.blocks \in {noted.db.blocks, Closed(noted.db.blocks)}
          /\ Left(noted, closed)
      BY <1>5, CloseRowsEffect, CloseRowsLeaves
    <3>3. WorkStep(noted, closed)
      <4>1. /\ WorkMirror(noted) => WorkMirror(closed)
            /\ closed.db.blocks \in {noted.db.blocks, Closed(noted.db.blocks)}
        BY <1>5, CloseRowsEffect
      <4>2. OpenRows(Closed(noted.db.blocks)) = {}
        BY <1>5, ClosedBlocks DEF Typed, WorkTyped
      <4> QED BY <4>1, <4>2 DEF WorkStep, OneOpen
    <3> HIDE DEF closed
    <3>4. /\ Typed(gapped) /\ Follows(closed, gapped) /\ GapsStay(closed, gapped)
          /\ SegsAs(closed, gapped) /\ WorkAs(closed, gapped) /\ LogAs(closed, gapped)
          /\ IdleAs(closed, gapped) /\ RestAs(closed, gapped)
      BY <1>2, <2>2, <3>2, BoundaryGapEffect
    <3> HIDE DEF gapped, applied
    <3>5. /\ Typed(applied) /\ Follows(gapped, applied)
          /\ WorkAs(gapped, applied) /\ GapsAs(gapped, applied) /\ LogAs(gapped, applied)
          /\ RestAs(gapped, applied)
      BY <3>1, <3>4, StartSegmentEffect
    <3>6. Follows(noted, gapped) /\ gapped.db.segs \in {noted.db.segs, Closed(noted.db.segs)}
      BY <3>2, <3>4 DEF Follows, SegsAs
    <3>7. SampleStep(noted, applied, s) /\ (applied.ok => EndsKept(noted.db.segs, applied.db.segs))
      BY <1>5, <3>1, <3>4, <3>6, FreshSegment
    <3>8. GapsStay(noted, applied)
      BY <3>2, <3>4, <3>5, GapsStayAs DEF GapsAs, GapsStay
    <3>9. WorkStep(noted, applied)
      <4>1. WorkAs(closed, applied) /\ Follows(closed, applied)
        BY <3>4, <3>5 DEF WorkAs, Follows
      <4> QED BY <3>3, <4>1, WorkStepAs, WorkStepTwice
    <3>10. ASSUME applied.ok, Sound(noted)
           PROVE  Sound(applied) /\ BlocksGo(noted.db, applied.db)
      <4>1. SegmentStarts(noted, gapped, s, applied)
        BY <1>5, <3>1, <3>4, <3>6, <3>10 DEF SegmentStarts, Sound
      <4>2. OpenRows(closed.db.segs) = {} => OpenRows(closed.db.blocks) = {}
        BY <1>5, <3>2, <3>10, LeftSound
      <4>3. /\ gapped.db.segs = closed.db.segs /\ gapped.db.blocks = closed.db.blocks
            /\ gapped.mem.work = NoWork /\ gapped.mem.idleStart = NoTime
        BY <3>2, <3>4 DEF Left, SegsAs, WorkAs, IdleAs
      <4> QED BY <3>2, <3>10, <4>1, <4>2, <4>3, BeginsAnew DEF Sound
    <3> QED BY <3>2, <3>4, <3>5, <3>7, <3>8, <3>9, <3>10
            DEF Follows, LogAs, RestAs, SeenAs, BlockStep
  <2> QED BY <2>1, <2>2
<1> HIDE DEF applied
<1>7. /\ Typed(moved) /\ Follows(applied, moved)
      /\ SegsAs(applied, moved) /\ WorkAs(applied, moved) /\ GapsAs(applied, moved)
      /\ LogAs(applied, moved) /\ IdleAs(applied, moved) /\ moved.cont = applied.cont
      /\ SeenOK(applied) /\ s.epoch <= applied.cont.epoch => SeenOK(moved)
  <2> DEFINE seen == Max({applied.mem.seen, s.epoch})
  <2>1. seen \in {applied.mem.seen, s.epoch} /\ seen \in Int
    <3>1. applied.mem.seen \in Int
      BY <1>6 DEF Typed, RestTyped
    <3> QED BY <3>1, MaxOfTwo
  <2>2. moved.mem.seen = seen /\ moved.cont = applied.cont /\ moved.mem.point.utc = s.utc
    BY <1>6 DEF Typed, Shaped
  <2> HIDE DEF seen
  <2>3. Shaped(moved) /\ Follows(applied, moved)
    BY <1>6 DEF Typed, Shaped, Follows
  <2>4. /\ SegsAs(applied, moved) /\ WorkAs(applied, moved) /\ GapsAs(applied, moved)
        /\ LogAs(applied, moved) /\ IdleAs(applied, moved)
    BY <1>6 DEF Typed, Shaped, SegsAs, WorkAs, GapsAs, LogAs, IdleAs
  <2> HIDE DEF moved
  <2>5. RestTyped(moved)
    BY <1>6, <2>1, <2>2 DEF Typed, RestTyped
  <2>6. Typed(moved)
    BY <1>6, <2>3, <2>4, <2>5, TypedAs DEF Typed
  <2>7. SeenOK(applied) /\ s.epoch <= applied.cont.epoch => SeenOK(moved)
    BY <2>1, <2>2 DEF SeenOK
  <2> QED BY <2>2, <2>3, <2>4, <2>6, <2>7
<1> HIDE DEF moved
<1>8. /\ Typed(v) /\ Goes(moved, v) /\ v.mem = moved.mem
      /\ SegsAs(moved, v) /\ WorkAs(moved, v) /\ GapsAs(moved, v) /\ LogAs(moved, v)
      /\ IdleAs(moved, v) /\ RestAs(moved, v)
      /\ Fresh(moved.db) => Fresh(v.db)
      /\ RowsFrom(moved.db, v.db)
  BY <1>1, <1>7, RecomputeEffect
<1>9. Goes(t, v) /\ Goes(applied, v) /\ Follows(t, moved)
  BY <1>4, <1>5, <1>6, <1>7, <1>8 DEF Follows, Goes
<1>10. WorkStep(t, v)
  <2>1. WorkAs(t, noted) /\ WorkAs(applied, v)
    BY <1>4, <1>5, <1>7, <1>8 DEF WorkAs
  <2>2. WorkStep(t, applied)
    BY <1>6, <2>1, WorkStepAs, WorkStepTwice
  <2> QED BY <1>9, <2>1, <2>2 DEF WorkStep, WorkAs, WorkMirror, Goes
<1>11. SampleStep(t, v, s)
  <2>1. SegsAs(t, noted) /\ SegsAs(applied, v) /\ t.run = noted.run /\ applied.run = v.run
    BY <1>4, <1>5, <1>6, <1>7, <1>8, <1>9 DEF SegsAs, Follows, Goes
  <2>2. v.ok => applied.ok
    BY <1>9 DEF Goes
  <2> QED BY <1>6, <2>1, <2>2, SampleStepAs
<1>12. v.db.runs = t.db.runs /\ v.db.obs = Append(t.db.obs, Observation(t, s))
  BY <1>4, <1>5, <1>6, <1>7, <1>8 DEF LogAs
<1>13. /\ t.cont.epoch <= v.cont.epoch
       /\ SeenOK(t) /\ s.epoch <= t.cont.epoch => SeenOK(v)
  <2>1. t.cont.epoch \in Nat /\ noted.cont.epoch \in Nat
    BY <1>5 DEF Typed, RestTyped, Counters
  <2>2. t.cont = stored.cont /\ t.mem.seen = stored.mem.seen
    BY <1>4 DEF RestAs, SeenAs
  <2>3. /\ stored.cont.epoch <= noted.cont.epoch /\ (SeenOK(stored) => SeenOK(noted))
    BY <1>5 DEF EpochGrows
  <2>4. /\ applied.cont = noted.cont /\ applied.mem.seen = noted.mem.seen
        /\ v.cont = moved.cont /\ v.mem.seen = moved.mem.seen /\ moved.cont = applied.cont
    BY <1>6, <1>7, <1>8 DEF RestAs, SeenAs
  <2> QED BY <1>7, <2>1, <2>2, <2>3, <2>4 DEF SeenOK
<1>14. /\ v.mem.gap = "none"
       /\ GapHeld(t) => OpenRows(v.db.gaps) = {}
       /\ OneOpen(t.db.gaps) => OneOpen(v.db.gaps)
       /\ GapsKept(t.db.gaps, v.db.gaps)
  <2>1. GapsAs(resumed, noted) /\ GapsAs(applied, v)
    BY <1>4, <1>5, <1>7, <1>8 DEF GapsAs
  <2>2. GapsStay(resumed, v)
    BY <1>6, <2>1 DEF GapsAs, GapsStay
  <2> QED BY <1>3, <2>2, GapsKeptTwice DEF GapsStay, OneOpen
<1>rows. RowsFrom(t.db, v.db)
  BY <1>8, <1>9 DEF Follows, RowsFrom
<1>15. ASSUME v.ok, Fresh(t.db), SegHeld(t)
       PROVE  Fresh(v.db)
  <2>1. CASE EndsKept(t.db.segs, v.db.segs)
    <3>1. Fresh(moved.db)
      BY <1>7, <1>8, <1>9, <1>15, <2>1, FreshKept DEF SegsAs, Follows, Typed, SegsTyped
    <3> QED BY <1>8, <3>1
  <2>2. CASE ~EndsKept(t.db.segs, v.db.segs)
    <3>1. Continues(t, moved, s) /\ b = "none"
      <4>1. applied.ok /\ noted.db.segs = t.db.segs /\ applied.db.segs = v.db.segs
        BY <1>4, <1>5, <1>7, <1>8, <1>9, <1>15 DEF SegsAs, Goes
      <4>2. b = "none"
        BY <1>6, <2>2, <4>1
      <4>3. Continues(t, v, s)
        BY <1>11, <1>15, <2>2 DEF SampleStep
      <4> QED BY <1>8, <4>2, <4>3 DEF Continues, SegsAs
    <3>2. from = t.mem.seg.end /\ t.mem.seg.end \in Int
      BY <3>1 DEF from, TouchedFrom, Continues, Typed, SegsTyped, IsMemSegment
    <3>3. Max({from, s.utc}) = s.utc
      <4>1. from \in Int /\ from < s.utc
        BY <3>1, <3>2 DEF Continues
      <4>2. Max({from, s.utc}) \in {from, s.utc} /\ Max({from, s.utc}) >= s.utc
        BY <4>1, MaxOfTwo
      <4> QED BY <4>1, <4>2
    <3>4. v = Recompute(moved, t.mem.seg.end, s.utc)
      BY <1>1, <3>2, <3>3
    <3> QED BY <1>7, <1>9, <1>15, <3>1, <3>4, RecomputedAfter
  <2> QED BY <2>1, <2>2
<1>16. BlockStep(t, v)
  <2>1. SegsAs(t, noted) /\ WorkAs(t, noted) /\ IdleAs(t, noted)
    BY <1>4, <1>5 DEF SegsAs, WorkAs, IdleAs
  <2>2. SegsAs(applied, v) /\ WorkAs(applied, v) /\ IdleAs(applied, v)
    BY <1>7, <1>8 DEF SegsAs, WorkAs, IdleAs
  <2>3. (Sound(t) <=> Sound(noted)) /\ (Sound(applied) <=> Sound(v))
    BY <2>1, <2>2, SoundAs
  <2>4. ASSUME BlocksGo(noted.db, applied.db)
        PROVE  BlocksGo(t.db, v.db)
    <3>1. /\ t.db.segs = noted.db.segs /\ t.db.blocks = noted.db.blocks
          /\ v.db.segs = applied.db.segs /\ v.db.blocks = applied.db.blocks
      BY <2>1, <2>2 DEF SegsAs, WorkAs
    <3> QED BY <2>4, <3>1, BlocksGoAs
  <2> QED BY <1>6, <1>9, <2>3, <2>4 DEF BlockStep, Goes
<1> QED BY <1>8, <1>9, <1>10, <1>11, <1>12, <1>13, <1>14, <1>15, <1>16, <1>rows

-----------------------------------------------------------------------------
(***************************************************************************)
(* Gap events, the shutdown and the recovery at startup.                   *)
(***************************************************************************)
(* What every one of them does first: forget the segment, the block and    *)
(* the last point.                                                         *)
Forgotten(t) == [CloseRows(t) EXCEPT !.mem.point = NoPoint]

LEMMA ForgottenEffect ==
  ASSUME NEW t, Typed(t), NEW u, u = Forgotten(t)
  PROVE  /\ Typed(u) /\ Follows(t, u)
         /\ GapsAs(t, u) /\ LogAs(t, u) /\ SeenAs(t, u)
         /\ u.mem.seg = NoSegment /\ Left(t, u)
         /\ u.db.segs \in {t.db.segs, Closed(t.db.segs)}
         /\ u.db.blocks \in {t.db.blocks, Closed(t.db.blocks)}
         /\ SegMirror(t) => SegMirror(u)
         /\ WorkMirror(t) => WorkMirror(u)
<1> DEFINE q == CloseRows(t)
<1>1. /\ Typed(q) /\ Follows(t, q)
      /\ GapsAs(t, q) /\ LogAs(t, q) /\ RestAs(t, q)
      /\ q.mem.seg = NoSegment
      /\ q.db.segs \in {t.db.segs, Closed(t.db.segs)}
      /\ q.db.blocks \in {t.db.blocks, Closed(t.db.blocks)}
      /\ SegMirror(t) => SegMirror(q)
      /\ WorkMirror(t) => WorkMirror(q)
      /\ Left(t, q)
  BY CloseRowsEffect, CloseRowsLeaves
<1>2. u = [q EXCEPT !.mem.point = NoPoint]
  BY DEF Forgotten
<1> HIDE DEF q
<1>3. Shaped(u) /\ Follows(q, u)
  BY <1>1, <1>2 DEF Typed, Shaped, Follows
<1>4. SegsAs(q, u) /\ WorkAs(q, u) /\ GapsAs(q, u) /\ LogAs(q, u) /\ IdleAs(q, u) /\ SeenAs(q, u)
  BY <1>1, <1>2 DEF Typed, Shaped, SegsAs, WorkAs, GapsAs, LogAs, IdleAs, SeenAs
<1>5. Typed(u)
  <2>1. u.mem.point = NoPoint
    BY <1>1, <1>2 DEF Typed, Shaped
  <2>2. RestTyped(u)
    BY <1>1, <1>4, <2>1 DEF Typed, RestTyped, SeenAs, NoPoint, NoTime
  <2> QED BY <1>1, <1>3, <1>4, <2>2, TypedAs DEF Typed
<1>6. SegMirror(q) => SegMirror(u)
  BY <1>4 DEF SegsAs, SegMirror
<1>7. WorkMirror(q) => WorkMirror(u)
  BY <1>4 DEF WorkAs, WorkMirror
<1>8. Left(t, u)
  BY <1>1, <1>4, LeftAs
<1> QED BY <1>1, <1>3, <1>4, <1>5, <1>6, <1>7, <1>8
        DEF Follows, SegsAs, WorkAs, GapsAs, LogAs, RestAs, SeenAs

(* Projections nobody has touched come from any database.                  *)
LEMMA RowsUntouched ==
  ASSUME NEW c, NEW d, d.daily = c.daily, d.metrics = c.metrics, d.recorded = c.recorded
  PROVE  RowsFrom(c, d)
BY DEF RowsFrom

LEMMA OnGapEventEffect ==
  ASSUME NEW t, Typed(t), NEW kind \in GapNames \ {"none"}, NEW at \in Int,
         NEW v, v = OnGapEvent(t, kind, at)
  PROVE  /\ Typed(v) /\ Goes(t, v) /\ (Fresh(t.db) => Fresh(v.db))
         /\ LogAs(t, v) /\ SeenAs(t, v)
         /\ GapsKept(t.db.gaps, v.db.gaps) /\ RowsFrom(t.db, v.db)
         /\ v.mem.seg = NoSegment /\ v.mem.gap # "none" /\ Left(t, v)
         /\ v.db.segs \in {t.db.segs, Closed(t.db.segs)}
         /\ v.db.blocks \in {t.db.blocks, Closed(t.db.blocks)}
         /\ SegMirror(t) => SegMirror(v)
         /\ WorkMirror(t) => WorkMirror(v)
         /\ v.ok => /\ GapMirror(t) => GapMirror(v)
                    /\ OneOpen(t.db.gaps) => OneOpen(v.db.gaps)
<1> DEFINE cut == Forgotten(t)
           from == IF t.mem.point = NoPoint THEN at ELSE t.mem.point.utc
           ended == CloseGap(cut, at)
           opened == IF t.mem.gap = kind THEN ExtendGap(cut)
                     ELSE IF t.mem.gap = "none" THEN OpenGap(cut, kind, at)
                     ELSE OpenGap(ended, kind, at)
<1>1. v = IF kind \in Absorbed /\ t.mem.gap \in Absorbing THEN cut
          ELSE Recompute(opened, from, at)
  BY DEF OnGapEvent, Forgotten
<1> HIDE DEF from
<1>2. /\ Typed(cut) /\ Follows(t, cut)
      /\ GapsAs(t, cut) /\ LogAs(t, cut) /\ SeenAs(t, cut)
      /\ cut.mem.seg = NoSegment /\ Left(t, cut)
      /\ cut.db.segs \in {t.db.segs, Closed(t.db.segs)}
      /\ cut.db.blocks \in {t.db.blocks, Closed(t.db.blocks)}
      /\ SegMirror(t) => SegMirror(cut)
      /\ WorkMirror(t) => WorkMirror(cut)
  BY ForgottenEffect
<1> HIDE DEF cut
<1>3. CASE v = cut /\ t.mem.gap \in Absorbing
  <2>1. RowsFrom(t.db, v.db) /\ GapsKept(t.db.gaps, v.db.gaps)
    BY <1>2, <1>3, RowsUntouched, GapsKeptSame DEF Follows, GapsAs
  <2> QED BY <1>2, <1>3, <2>1, FreshClosed DEF Absorbing, GapsAs, GapMirror, OneOpen, Goes, Follows
<1>4. CASE v = Recompute(opened, from, at)
  <2>1. /\ Typed(opened) /\ Follows(cut, opened)
        /\ SegsAs(cut, opened) /\ WorkAs(cut, opened) /\ IdleAs(cut, opened)
        /\ LogAs(cut, opened) /\ RestAs(cut, opened)
        /\ opened.mem.gap = kind /\ GapsKept(cut.db.gaps, opened.db.gaps)
        /\ opened.ok => /\ GapMirror(cut) => GapMirror(opened)
                        /\ OneOpen(cut.db.gaps) => OneOpen(opened.db.gaps)
    <3>1. CASE t.mem.gap = kind
      <4>1. opened = ExtendGap(cut) /\ cut.mem.gap = kind
        BY <1>2, <3>1 DEF GapsAs
      <4> HIDE DEF opened
      <4>2. /\ Typed(opened) /\ Follows(cut, opened)
            /\ SegsAs(cut, opened) /\ WorkAs(cut, opened) /\ IdleAs(cut, opened)
            /\ LogAs(cut, opened) /\ RestAs(cut, opened)
            /\ opened.mem.gap = kind /\ GapsKept(cut.db.gaps, opened.db.gaps)
            /\ OpenRows(opened.db.gaps) = OpenRows(cut.db.gaps)
            /\ \A i \in OpenRows(cut.db.gaps) : opened.db.gaps[i].kind = cut.db.gaps[i].kind
        BY <1>2, <4>1, ExtendGapEffect
      <4> QED BY <4>1, <4>2 DEF GapMirror, OneOpen
    <3>2. CASE t.mem.gap = "none"
      <4>1. opened = OpenGap(cut, kind, at)
        BY <3>2
      <4> HIDE DEF opened
      <4>2. /\ Typed(opened) /\ Follows(cut, opened)
            /\ SegsAs(cut, opened) /\ WorkAs(cut, opened) /\ IdleAs(cut, opened)
            /\ LogAs(cut, opened) /\ RestAs(cut, opened)
            /\ opened.mem.gap = kind /\ GapsKept(cut.db.gaps, opened.db.gaps)
            /\ opened.ok => OneOpen(opened.db.gaps) /\ GapMirror(opened)
        BY <1>2, <4>1, OpenGapEffect
      <4> QED BY <4>2
    <3>3. CASE t.mem.gap \notin {kind, "none"}
      <4>1. opened = OpenGap(ended, kind, at)
        BY <3>3
      <4>2. /\ Typed(ended) /\ Follows(cut, ended)
            /\ SegsAs(cut, ended) /\ WorkAs(cut, ended) /\ LogAs(cut, ended) /\ IdleAs(cut, ended)
            /\ RestAs(cut, ended) /\ GapsKept(cut.db.gaps, ended.db.gaps)
        BY <1>2, CloseGapEffect
      <4> HIDE DEF opened, ended
      <4>3. /\ Typed(opened) /\ Follows(ended, opened)
            /\ SegsAs(ended, opened) /\ WorkAs(ended, opened) /\ IdleAs(ended, opened)
            /\ LogAs(ended, opened) /\ RestAs(ended, opened)
            /\ opened.mem.gap = kind /\ GapsKept(ended.db.gaps, opened.db.gaps)
            /\ opened.ok => OneOpen(opened.db.gaps) /\ GapMirror(opened)
        BY <4>1, <4>2, OpenGapEffect
      <4>4. GapsKept(cut.db.gaps, opened.db.gaps)
        BY <4>2, <4>3, GapsKeptTwice
      <4> QED BY <4>2, <4>3, <4>4 DEF Follows, SegsAs, WorkAs, LogAs, IdleAs, RestAs, SeenAs
    <3> QED BY <3>1, <3>2, <3>3
  <2> HIDE DEF opened
  <2>2. /\ Typed(v) /\ Goes(opened, v) /\ (Fresh(opened.db) => Fresh(v.db))
        /\ SegsAs(opened, v) /\ WorkAs(opened, v) /\ GapsAs(opened, v) /\ LogAs(opened, v)
        /\ IdleAs(opened, v) /\ RestAs(opened, v)
        /\ RowsFrom(opened.db, v.db)
    BY <1>4, <2>1, RecomputeEffect
  <2>rows. RowsFrom(t.db, v.db) /\ GapsKept(t.db.gaps, v.db.gaps)
    BY <1>2, <2>1, <2>2 DEF Follows, GapsAs, RowsFrom
  <2>3. Goes(t, v) /\ SegsAs(cut, v) /\ WorkAs(cut, v) /\ LogAs(t, v) /\ SeenAs(t, v)
    BY <1>2, <2>1, <2>2 DEF Follows, Goes, SegsAs, WorkAs, LogAs, RestAs, SeenAs
  <2>4. /\ SegMirror(cut) => SegMirror(v)
        /\ WorkMirror(cut) => WorkMirror(v)
    BY <2>3 DEF SegsAs, WorkAs, SegMirror, WorkMirror
  <2>5. ASSUME v.ok
        PROVE  /\ GapMirror(t) => GapMirror(v)
               /\ OneOpen(t.db.gaps) => OneOpen(v.db.gaps)
    <3>1. opened.ok
      BY <2>2, <2>5 DEF Goes
    <3> QED BY <1>2, <2>1, <2>2, <3>1 DEF GapsAs, GapMirror, OneOpen
  <2>6. v.mem.gap = kind /\ v.mem.seg = cut.mem.seg
        /\ v.db.segs = cut.db.segs /\ v.db.blocks = cut.db.blocks
    BY <2>1, <2>2, <2>3 DEF GapsAs, SegsAs, WorkAs
  <2>7. Fresh(t.db) => Fresh(v.db)
    <3>1. /\ opened.db.segs \in {t.db.segs, Closed(t.db.segs)}
          /\ opened.db.hourly = t.db.hourly /\ opened.db.daily = t.db.daily
      BY <1>2, <2>1 DEF Follows, SegsAs
    <3> QED BY <2>1, <2>2, <3>1, FreshClosed
  <2>8. Left(t, v)
    BY <1>2, <2>1, <2>2, LeftAs
  <2> QED BY <1>2, <2>2, <2>3, <2>4, <2>5, <2>6, <2>7, <2>8, <2>rows
<1> QED BY <1>1, <1>3, <1>4

LEMMA OnShutdownEffect ==
  ASSUME NEW t, Typed(t), NEW at, NEW v, v = OnShutdown(t, at)
  PROVE  /\ Typed(v) /\ Goes(t, v) /\ (Fresh(t.db) => Fresh(v.db))
         /\ v.db.obs = t.db.obs /\ Len(v.db.runs) = Len(t.db.runs)
         /\ GapsKept(t.db.gaps, v.db.gaps) /\ RowsFrom(t.db, v.db)
         /\ v.db.segs \in {t.db.segs, Closed(t.db.segs)}
         /\ v.db.blocks \in {t.db.blocks, Closed(t.db.blocks)}
         /\ OneOpen(t.db.gaps) => OneOpen(v.db.gaps)
         /\ Left(t, v)
<1> DEFINE cut == Forgotten(t)
           closed == Resumed(cut, at)
           ended == [closed EXCEPT !.db.runs[t.run].ended = at]
           from == IF t.mem.point = NoPoint THEN at ELSE t.mem.point.utc
<1>1. /\ Typed(cut) /\ Follows(t, cut)
      /\ GapsAs(t, cut) /\ LogAs(t, cut) /\ SeenAs(t, cut)
      /\ cut.db.segs \in {t.db.segs, Closed(t.db.segs)}
      /\ cut.db.blocks \in {t.db.blocks, Closed(t.db.blocks)}
      /\ Left(t, cut)
  BY ForgottenEffect
<1>2. v = Recompute(ended, from, at)
  BY <1>1 DEF OnShutdown, Forgotten, Resumed, GapsAs
<1> HIDE DEF cut, from
<1>3. /\ Typed(closed) /\ Follows(cut, closed)
      /\ SegsAs(cut, closed) /\ WorkAs(cut, closed) /\ LogAs(cut, closed) /\ IdleAs(cut, closed)
      /\ OneOpen(cut.db.gaps) => OneOpen(closed.db.gaps)
      /\ GapsKept(cut.db.gaps, closed.db.gaps)
  BY <1>1, ResumedEffect
<1> HIDE DEF closed
<1>4. /\ Typed(ended) /\ Follows(closed, ended)
      /\ SegsAs(closed, ended) /\ WorkAs(closed, ended) /\ GapsAs(closed, ended)
      /\ IdleAs(closed, ended)
      /\ ended.db.obs = closed.db.obs /\ Len(ended.db.runs) = Len(closed.db.runs)
  <2>1. Shaped(ended) /\ Follows(closed, ended)
    BY <1>3 DEF Typed, Shaped, Follows
  <2>2. /\ SegsAs(closed, ended) /\ WorkAs(closed, ended) /\ GapsAs(closed, ended)
        /\ IdleAs(closed, ended) /\ RestAs(closed, ended) /\ ended.db.obs = closed.db.obs
    BY <1>3 DEF Typed, Shaped, SegsAs, WorkAs, GapsAs, IdleAs, RestAs, SeenAs
  <2>3. ended.db.runs = EndedAt(closed.db.runs, t.run, at)
    BY <1>3 DEF Typed, Shaped, EndedAt
  <2> HIDE DEF ended
  <2>4. Runs(ended.db.runs) /\ Len(ended.db.runs) = Len(closed.db.runs)
    BY <1>3, <2>3, RunEnded DEF Typed, LogTyped
  <2>5. LogTyped(ended)
    BY <1>3, <2>2, <2>4 DEF Typed, LogTyped
  <2> QED BY <1>3, <2>1, <2>2, <2>4, <2>5, TypedAs DEF Typed
<1> HIDE DEF ended
<1>5. /\ Typed(v) /\ Goes(ended, v) /\ (Fresh(ended.db) => Fresh(v.db))
      /\ SegsAs(ended, v) /\ WorkAs(ended, v) /\ GapsAs(ended, v) /\ LogAs(ended, v)
      /\ IdleAs(ended, v)
      /\ RowsFrom(ended.db, v.db)
  BY <1>2, <1>4, RecomputeEffect
<1>6. Follows(t, ended) /\ ended.db.segs \in {t.db.segs, Closed(t.db.segs)}
  BY <1>1, <1>3, <1>4 DEF Follows, SegsAs
<1>7. Fresh(t.db) => Fresh(v.db)
  <2>1. ended.db.hourly = t.db.hourly /\ ended.db.daily = t.db.daily
    BY <1>6 DEF Follows
  <2> QED BY <1>4, <1>5, <1>6, <2>1, FreshClosed
<1>rows. RowsFrom(t.db, v.db) /\ GapsKept(t.db.gaps, v.db.gaps)
  BY <1>1, <1>3, <1>4, <1>5, <1>6 DEF Follows, GapsAs, RowsFrom
<1>8. Left(t, v)
  <2>1. SegsAs(cut, v) /\ WorkAs(cut, v) /\ IdleAs(cut, v)
    BY <1>3, <1>4, <1>5 DEF SegsAs, WorkAs, IdleAs
  <2> QED BY <1>1, <2>1, LeftAs
<1> QED BY <1>1, <1>3, <1>4, <1>5, <1>7, <1>8, <1>rows
        DEF Follows, Goes, SegsAs, WorkAs, GapsAs, LogAs, OneOpen

(* The last runtime and the last time it is known to have written.         *)
LEMMA LatestRun ==
  ASSUME NEW runs, Runs(runs)
  PROVE  LatestRuntime(runs) \in DOMAIN runs
<1> DEFINE D == DOMAIN runs
           R == {p \in D \X D :
                   \/ runs[p[1]].started < runs[p[2]].started
                   \/ runs[p[1]].started = runs[p[2]].started /\ p[1] < p[2]}
<1>1. D = 1 .. Len(runs) /\ Len(runs) \in Nat /\ Len(runs) > 0
  BY RowsLen DEF Runs
<1>2. \A r \in D : runs[r].started \in Int /\ r \in Int
  BY <1>1 DEF Runs, IsRun
<1>3. IsFiniteSet(D) /\ D # {}
  <2>1. 1 \in Int /\ Len(runs) \in Int /\ 1 \in D
    BY <1>1
  <2>2. IsFiniteSet(1 .. Len(runs))
    BY <2>1, FS_Interval
  <2> QED BY <1>1, <2>1, <2>2
<1>4. LinearOrder(D, R)
  <2> HIDE DEF D
  <2> QED BY <1>2 DEF LinearOrder
<1>5. \E m : IsLast(R, D, m)
  <2> HIDE DEF D, R
  <2> QED BY <1>3, <1>4, LastExists
<1>6. \E r \in D : \A q \in D :
        \/ runs[q].started < runs[r].started
        \/ runs[q].started = runs[r].started /\ q <= r
  <2>1. PICK m : IsLast(R, D, m)
    BY <1>5
  <2> HIDE DEF D
  <2>2. \A q \in D :
          \/ runs[q].started < runs[m].started
          \/ runs[q].started = runs[m].started /\ q <= m
    <3>1. m \in D /\ \A q \in D : q = m \/ <<q, m>> \in R
      BY <2>1 DEF IsLast
    <3>2. \A q \in D : <<q, m>> \in R =>
            \/ runs[q].started < runs[m].started
            \/ runs[q].started = runs[m].started /\ q < m
      OBVIOUS
    <3>3. m \in Int /\ \A q \in D : q \in Int
      BY <1>2, <3>1
    <3> HIDE DEF R
    <3> TAKE q \in D
    <3>4. CASE q = m
      <4>1. q <= m
        BY <3>3, <3>4
      <4> QED BY <3>4, <4>1
    <3>5. CASE <<q, m>> \in R
      <4>1. q < m => q <= m
        BY <3>3
      <4> QED BY <3>2, <3>5, <4>1
    <3> QED BY <3>1, <3>4, <3>5
  <2> QED BY <2>1, <2>2 DEF IsLast
<1> QED BY <1>6 DEF LatestRuntime

LEMMA OpenRowsFinite ==
  ASSUME NEW rows, IsRows(rows)
  PROVE  IsFiniteSet(OpenRows(rows))
<1>1. DOMAIN rows = 1 .. Len(rows) /\ Len(rows) \in Nat
  BY RowsLen
<1>2. IsFiniteSet(DOMAIN rows) /\ OpenRows(rows) \in SUBSET DOMAIN rows
  BY <1>1, FS_Interval DEF OpenRows
<1> QED BY <1>2, FS_Subset

LEMMA ReferenceTyped ==
  ASSUME NEW d, Runs(d.runs), Segments(d.segs), Gaps(d.gaps)
  PROVE  Reference(d) \in Int
<1> DEFINE last == d.runs[LatestRuntime(d.runs)]
           wrote == IF last.write = NoTime THEN last.beat ELSE last.write
           S == OpenRows(d.segs)
           G == OpenRows(d.gaps)
           f == [i \in S |-> d.segs[i].end]
           g == [i \in G |-> d.gaps[i].start]
           all == {wrote} \cup {f[i] : i \in S} \cup {g[i] : i \in G}
<1>1. wrote \in Int
  BY LatestRun DEF Runs, IsRun
<1>2. IsFiniteSet(S) /\ IsFiniteSet(G)
  BY OpenRowsFinite DEF Segments, Gaps
<1>3. (\A i \in S : f[i] \in Int) /\ (\A i \in G : g[i] \in Int)
  <2>1. \A i \in S : d.segs[i].end \in Int
    BY DEF OpenRows, Segments, IsSegment
  <2>2. \A i \in G : d.gaps[i].start \in Int
    BY DEF OpenRows, Gaps, IsGap
  <2> QED BY <2>1, <2>2
<1>4. Reference(d) = Max(all)
  BY DEF Reference
<1> HIDE DEF wrote, S, G, f, g
<1>5. IsFiniteSet({f[i] : i \in S}) /\ IsFiniteSet({g[i] : i \in G})
  BY <1>2, ImageFinite
<1>6. IsFiniteSet(all)
  <2>1. IsFiniteSet({wrote})
    BY FS_Singleton
  <2>2. IsFiniteSet({wrote} \cup {f[i] : i \in S})
    BY <1>5, <2>1, FS_Union
  <2> QED BY <1>5, <2>2, FS_Union
<1>7. all \in SUBSET Int /\ all # {}
  BY <1>1, <1>3
<1> HIDE DEF all
<1> QED BY <1>4, <1>6, <1>7, MaxOfSet

(* After a recovery only the gap of the restart is open.                   *)
LEMMA RecoveredEffect ==
  ASSUME NEW t, Typed(t), t.mem.seg = NoSegment, t.mem.work = NoWork,
         t.mem.idleStart = NoTime,
         NEW now \in Int, NEW v, v = Recovered(t, now)
  PROVE  /\ Typed(v) /\ v.run = t.run /\ (Fresh(t.db) => Fresh(v.db))
         /\ v.mem.seg = NoSegment /\ v.mem.work = NoWork /\ v.mem.gap = "agent_restart"
         /\ RestAs(t, v)
         /\ v.db.obs = t.db.obs /\ Len(v.db.runs) = Len(t.db.runs) + 1
         /\ v.db.segs = Closed(t.db.segs) /\ v.db.blocks = Closed(t.db.blocks)
         /\ v.mem.idleStart = NoTime
         /\ SegMirror(v) /\ WorkMirror(v) /\ OneOpen(v.db.blocks)
         /\ v.ok => GapMirror(v) /\ OneOpen(v.db.gaps)
         /\ GapsKept(t.db.gaps, v.db.gaps) /\ RowsFrom(t.db, v.db)
<1> DEFINE legacy == LatestRuntime(t.db.runs)
           at == Reference(t.db)
           gaps == OpenRows(t.db.gaps)
           ended == CloseGap(t, at)
           closed == [ended EXCEPT !.db.segs = Closed(@), !.db.blocks = Closed(@),
                        !.db.runs[legacy].ended = IF @ = NoTime THEN t.db.runs[legacy].beat ELSE @]
           added == [closed EXCEPT !.db.runs = Append(@, [started |-> now, ended |-> NoTime,
                                                          beat |-> now, write |-> NoTime])]
           opened == OpenGap(added, "agent_restart", at)
           first == Min({t.db.gaps[i].start : i \in gaps})
<1>1. v = opened \/ v = Recompute(opened, first, at)
  BY DEF Recovered
<1>at. at \in Int
  BY ReferenceTyped DEF Typed, SegsTyped, GapsTyped, LogTyped
<1> HIDE DEF first, at
<1>2. /\ Typed(ended) /\ Follows(t, ended)
      /\ SegsAs(t, ended) /\ WorkAs(t, ended) /\ LogAs(t, ended) /\ IdleAs(t, ended)
      /\ RestAs(t, ended) /\ GapsKept(t.db.gaps, ended.db.gaps)
  BY CloseGapEffect
<1> HIDE DEF ended, legacy
<1>3. /\ Typed(added) /\ added.run = t.run
      /\ added.db.hourly = t.db.hourly /\ added.db.daily = t.db.daily
      /\ added.db.metrics = t.db.metrics /\ added.db.recorded = t.db.recorded
      /\ added.db.gaps = ended.db.gaps
      /\ added.mem.seg = NoSegment /\ added.mem.work = NoWork /\ RestAs(t, added)
      /\ added.mem.idleStart = NoTime
      /\ added.db.obs = t.db.obs /\ Len(added.db.runs) = Len(t.db.runs) + 1
      /\ added.db.segs = Closed(t.db.segs) /\ added.db.blocks = Closed(t.db.blocks)
  <2>1. /\ Shaped(closed) /\ closed.run = ended.run /\ closed.mem = ended.mem
        /\ closed.cont = ended.cont
    BY <1>2 DEF Typed, Shaped
  <2>2. closed.db.segs = Closed(ended.db.segs) /\ closed.db.blocks = Closed(ended.db.blocks)
    BY <1>2 DEF Typed, Shaped
  <2>3. /\ closed.db.gaps = ended.db.gaps /\ closed.db.obs = ended.db.obs
        /\ closed.db.hourly = ended.db.hourly /\ closed.db.daily = ended.db.daily
        /\ closed.db.metrics = ended.db.metrics /\ closed.db.recorded = ended.db.recorded
    BY <1>2 DEF Typed, Shaped
  <2> DEFINE ends == IF ended.db.runs[legacy].ended = NoTime THEN t.db.runs[legacy].beat
                     ELSE ended.db.runs[legacy].ended
  <2>4. closed.db.runs = EndedAt(ended.db.runs, legacy, ends)
    BY <1>2 DEF Typed, Shaped, EndedAt
  <2> HIDE DEF closed, ends
  <2>5. Runs(closed.db.runs) /\ Len(closed.db.runs) = Len(ended.db.runs)
    <3>1. Runs(ended.db.runs)
      BY <1>2 DEF Typed, LogTyped
    <3> QED BY <2>4, <3>1, RunEnded
  <2>6. /\ Shaped(added) /\ added.run = closed.run /\ added.mem = closed.mem
        /\ added.cont = closed.cont
    BY <2>1 DEF Shaped
  <2>7. /\ added.db.segs = closed.db.segs /\ added.db.blocks = closed.db.blocks
        /\ added.db.gaps = closed.db.gaps /\ added.db.obs = closed.db.obs
        /\ added.db.hourly = closed.db.hourly /\ added.db.daily = closed.db.daily
        /\ added.db.metrics = closed.db.metrics /\ added.db.recorded = closed.db.recorded
        /\ added.db.runs = Append(closed.db.runs, [started |-> now, ended |-> NoTime, beat |-> now,
                                                   write |-> NoTime])
    BY <2>1 DEF Shaped
  <2> HIDE DEF added
  <2>8. Runs(added.db.runs) /\ Len(added.db.runs) = Len(ended.db.runs) + 1
    <3>1. added.db.runs = Append(closed.db.runs, [started |-> now, ended |-> NoTime, beat |-> now,
                                                  write |-> NoTime])
      BY <2>7
    <3>2. Runs(added.db.runs) /\ Len(added.db.runs) = Len(closed.db.runs) + 1
      BY <2>5, <3>1, RunAdded
    <3> QED BY <2>5, <3>2
  <2>9. /\ GapsAs(ended, added) /\ IdleAs(ended, added) /\ RestAs(ended, added)
        /\ LogTyped(added)
    BY <1>2, <2>1, <2>3, <2>6, <2>7, <2>8 DEF Typed, LogTyped, GapsAs, IdleAs, RestAs, SeenAs
  <2>10. SegsTyped(added) /\ WorkTyped(added)
    <3>1. Segments(added.db.segs) /\ Blocks(added.db.blocks)
      BY <1>2, <2>2, <2>7, ClosedSegments, ClosedBlocks DEF Typed, SegsTyped, WorkTyped
    <3> QED BY <1>2, <2>1, <2>6, <3>1 DEF Typed, SegsTyped, WorkTyped
  <2>11. Typed(added)
    BY <1>2, <2>6, <2>9, <2>10, TypedAs DEF Typed
  <2> QED BY <1>2, <2>1, <2>2, <2>3, <2>6, <2>7, <2>8, <2>11
          DEF Follows, SegsAs, WorkAs, LogAs, IdleAs, RestAs, SeenAs
<1> HIDE DEF added
<1>4. /\ Typed(opened) /\ Follows(added, opened)
      /\ SegsAs(added, opened) /\ WorkAs(added, opened) /\ LogAs(added, opened)
      /\ IdleAs(added, opened) /\ RestAs(added, opened)
      /\ opened.mem.gap = "agent_restart" /\ GapsKept(added.db.gaps, opened.db.gaps)
      /\ opened.ok => OneOpen(opened.db.gaps) /\ GapMirror(opened)
  <2>1. "agent_restart" \in GapNames
    BY DEF GapNames
  <2> QED BY <1>at, <1>3, <2>1, OpenGapEffect
<1> HIDE DEF opened
<1>5. /\ Typed(v) /\ Goes(opened, v) /\ (Fresh(opened.db) => Fresh(v.db))
      /\ SegsAs(opened, v) /\ WorkAs(opened, v) /\ GapsAs(opened, v) /\ LogAs(opened, v)
      /\ IdleAs(opened, v) /\ RestAs(opened, v)
      /\ RowsFrom(opened.db, v.db)
  <2>1. CASE v = opened
    BY <1>4, <2>1, RowsUntouched DEF Goes, SegsAs, WorkAs, GapsAs, LogAs, IdleAs, RestAs, SeenAs
  <2>2. CASE v = Recompute(opened, first, at)
    BY <1>4, <2>2, RecomputeEffect
  <2> QED BY <1>1, <2>1, <2>2
<1>6. /\ v.mem.seg = NoSegment /\ v.mem.work = NoWork /\ v.mem.gap = "agent_restart"
      /\ v.db.obs = t.db.obs /\ Len(v.db.runs) = Len(t.db.runs) + 1
      /\ v.db.segs = Closed(t.db.segs) /\ v.db.blocks = Closed(t.db.blocks)
      /\ v.run = t.run /\ RestAs(t, v) /\ v.mem.idleStart = NoTime
  BY <1>3, <1>4, <1>5 DEF Follows, Goes, SegsAs, WorkAs, GapsAs, LogAs, IdleAs, RestAs, SeenAs
<1>7. OpenRows(v.db.segs) = {} /\ OpenRows(v.db.blocks) = {}
  BY <1>6, ClosedSegments, ClosedBlocks DEF Typed, SegsTyped, WorkTyped
<1>8. SegMirror(v) /\ WorkMirror(v) /\ OneOpen(v.db.blocks)
  BY <1>6, <1>7 DEF SegMirror, WorkMirror, OneOpen, NoSegment, NoWork
<1>9. v.ok => GapMirror(v) /\ OneOpen(v.db.gaps)
  BY <1>4, <1>5 DEF Goes, GapsAs, GapMirror
<1>10. Fresh(t.db) => Fresh(v.db)
  <2>1. opened.db.segs = Closed(t.db.segs) /\ opened.db.hourly = t.db.hourly
        /\ opened.db.daily = t.db.daily
    BY <1>3, <1>4 DEF Follows, SegsAs
  <2> QED BY <1>4, <1>5, <2>1, FreshClosed
<1>11. GapsKept(t.db.gaps, v.db.gaps)
  <2>1. GapsKept(t.db.gaps, added.db.gaps) /\ GapsKept(added.db.gaps, opened.db.gaps)
    BY <1>2, <1>3, <1>4
  <2>2. GapsKept(t.db.gaps, opened.db.gaps)
    BY <2>1, GapsKeptTwice
  <2> QED BY <1>5, <2>2 DEF GapsAs
<1>12. RowsFrom(t.db, v.db)
  BY <1>3, <1>4, <1>5 DEF Follows, RowsFrom
<1> QED BY <1>5, <1>6, <1>8, <1>9, <1>10, <1>11, <1>12

-----------------------------------------------------------------------------
(***************************************************************************)
(* The inductive invariant.  Consistent speaks of the rows and the types,  *)
(* Trusted of what the memory of a running process is right about even     *)
(* after a failure, and Mirrors of everything the fault-free one mirrors.  *)
(***************************************************************************)
LastObserved(t) ==
  t.mem.seg # NoSegment =>
    /\ t.mem.gap = "none" /\ Len(t.db.obs) > 0
    /\ LET o == t.db.obs[Len(t.db.obs)]
       IN  /\ o.run = t.run /\ o.utc = t.mem.seg.end
           /\ o.app = t.mem.seg.app /\ o.state = t.mem.seg.state

TablesOK(d) ==
  /\ SegTimes(d.segs) /\ OneOpen(d.segs) /\ OneOpen(d.blocks) /\ OneOpen(d.gaps)
  /\ Fresh(d) /\ BlocksOK(d)

Consistent(t) == Typed(t) /\ SeenOK(t) /\ TablesOK(t.db)
Trusted(t) == SegHeld(t) /\ HeldRun(t) /\ GapHeld(t) /\ LastObserved(t) /\ BlockHeld(t)
Mirrors(t) == SegMirror(t) /\ WorkMirror(t) /\ GapMirror(t)

SampleEvent(e, c) ==
  /\ e.kind = "sample" /\ e = [kind |-> e.kind, sample |-> e.sample, tries |-> e.tries]
  /\ e.sample.app \in Apps /\ e.sample.utc \in Int /\ e.sample.state \in States
  /\ e.sample.epoch \in Int /\ e.sample.epoch <= c.epoch

GapEvent(e) ==
  /\ e.kind \in Masks \cup Lifecycle /\ e.at \in Int
  /\ e = [kind |-> e.kind, at |-> e.at, tries |-> e.tries]

Here == Begin(agent.run)

EngineInv ==
  /\ Consistent(Here)
  /\ agent \in [up : BOOLEAN, run : 0 .. Len(db.runs), fault : {"none", "refused", "database"}]
  /\ agent.up => Trusted(Here)
  /\ agent.up /\ agent.fault = "none" => Mirrors(Here)
  /\ inflight = NoEvent \/ SampleEvent(inflight, cont) \/ GapEvent(inflight)

WorldInv == clock \in [utc : Int, mono : Int] /\ floor \in 0 .. cont.epoch

(* AttributedTimeWasSampled of one step between two databases.             *)
Sampled(d, e) ==
  \A i \in DOMAIN e.segs :
    LET seg == e.segs[i]
        n == Len(d.obs)
    IN  seg.end # EndOf(d.segs, i, seg) =>
          /\ OpenRows(d.gaps) = {}
          /\ n > 0 /\ Len(e.obs) = n + 1
          /\ LET p == d.obs[n]
                 q == e.obs[n + 1]
             IN  /\ p.utc = EndOf(d.segs, i, seg) /\ q.utc = seg.end
                 /\ 0 < q.utc - p.utc /\ q.utc - p.utc <= GapCap
                 /\ \A o \in {p, q} : /\ o.run = seg.run /\ o.app = seg.app
                                       /\ o.state = seg.state

(* What a step may do to the rows the read models are built from.          *)
Moves(d, e) ==
  /\ Sampled(d, e) /\ SegsGrow(d.segs, e.segs) /\ GapsKept(d.gaps, e.gaps)
  /\ RowsFrom(d, e) /\ BlocksGo(d, e)

LEMMA KeptEnds ==
  ASSUME NEW d, NEW e, EndsKept(d.segs, e.segs)
  PROVE  Sampled(d, e) /\ SegsGrow(d.segs, e.segs)
<1>1. Sampled(d, e)
  BY DEF Sampled, EndsKept
<1>2. SegsGrow(d.segs, e.segs)
  BY DEF SegsGrow, EndsKept, EndOf
<1> QED BY <1>1, <1>2

LEMMA MovesSame ==
  ASSUME NEW d, NEW e, e.segs = d.segs, e.gaps = d.gaps, e.daily = d.daily, e.metrics = d.metrics,
         e.recorded = d.recorded, e.blocks = d.blocks, BlocksOK(d)
  PROVE  Moves(d, e)
<1>1. EndsKept(d.segs, e.segs)
  BY DEF EndsKept, EndOf
<1>2. BlocksGo(d, e)
  BY <1>1, EndsKeptSame, BlocksStay
<1> QED BY <1>1, <1>2, KeptEnds, GapsKeptSame, RowsUntouched DEF Moves

(* The same rows, memory and runtime: nothing else is looked at.           *)
LEMMA SameParts ==
  ASSUME NEW t, NEW u, u.db = t.db, u.mem = t.mem, u.run = t.run
  PROVE  /\ Trusted(t) => Trusted(u)
         /\ Mirrors(t) => Mirrors(u)
<1>1. BlockHeld(t) => BlockHeld(u)
  BY DEF BlockHeld, Served, Unserved, WorkMirror
<1>2. Mirrors(t) => Mirrors(u)
  BY DEF Mirrors, SegMirror, WorkMirror, GapMirror
<1> QED BY <1>1, <1>2 DEF Trusted, SegHeld, SegMirror, HeldRun, GapHeld, LastObserved

LEMMA SoundHere ==
  ASSUME NEW t, Consistent(t), Trusted(t)
  PROVE  Sound(t)
BY DEF Consistent, TablesOK, Trusted, Sound

(* A transaction put together from the parts of typed ones.                *)
LEMMA Regrouped ==
  ASSUME NEW t, Typed(t), NEW q, Typed(q), NEW c, Typed(c), NEW u,
         DOMAIN u = {"db", "mem", "cont", "run", "ok"},
         u.db = t.db, u.mem = q.mem, u.cont = c.cont
  PROVE  Typed(u)
<1>1. Shaped(u)
  BY DEF Typed, Shaped
<1>2. SegsTyped(u) /\ WorkTyped(u) /\ GapsTyped(u)
  BY DEF Typed, SegsTyped, WorkTyped, GapsTyped
<1>3. LogTyped(u) /\ IdleTyped(u) /\ RestTyped(u)
  BY DEF Typed, LogTyped, IdleTyped, RestTyped
<1> QED BY <1>1, <1>2, <1>3 DEF Typed

LEMMA SampleOutcome ==
  ASSUME NEW t, Consistent(t), Trusted(t),
         NEW s, s.app \in Apps, s.utc \in Int, s.state \in States, s.epoch \in Int,
         s.epoch <= t.cont.epoch,
         NEW v, v = OnSample(t, s)
  PROVE  /\ Typed(v) /\ SeenOK(v) /\ v.run = t.run /\ v.db.runs = t.db.runs
         /\ t.cont.epoch <= v.cont.epoch
         /\ v.ok => /\ Consistent(v) /\ Trusted(v) /\ Moves(t.db, v.db)
                    /\ Mirrors(t) => Mirrors(v)
<1>1. /\ Typed(v) /\ Goes(t, v) /\ WorkStep(t, v) /\ SampleStep(t, v, s) /\ BlockStep(t, v)
      /\ v.ok => Fresh(v.db)
      /\ v.db.runs = t.db.runs /\ v.db.obs = Append(t.db.obs, Observation(t, s))
      /\ t.cont.epoch <= v.cont.epoch /\ SeenOK(v)
      /\ v.mem.gap = "none" /\ OpenRows(v.db.gaps) = {}
      /\ OneOpen(t.db.gaps) => OneOpen(v.db.gaps)
      /\ GapsKept(t.db.gaps, v.db.gaps) /\ RowsFrom(t.db, v.db)
  BY OnSampleEffect DEF Consistent, TablesOK, Trusted
<1>2. LET n == Len(t.db.obs)
      IN  /\ n \in Nat /\ Len(v.db.obs) = n + 1
          /\ v.db.obs[n + 1] = Observation(t, s)
          /\ n > 0 => v.db.obs[n] = t.db.obs[n]
  BY <1>1, RowsLen, RowsAppended DEF Consistent, Typed, LogTyped
<1>3. ASSUME v.ok
      PROVE  /\ Consistent(v) /\ Trusted(v) /\ Moves(t.db, v.db)
             /\ Mirrors(t) => Mirrors(v)
  <2>1. /\ v.mem.seg # NoSegment /\ v.mem.seg.end = s.utc
        /\ v.mem.seg.app = s.app /\ v.mem.seg.state = s.state
        /\ SegMirror(v) /\ OneOpen(v.db.segs) /\ SegTimes(v.db.segs) /\ HeldRun(v)
        /\ EndsKept(t.db.segs, v.db.segs) \/ Continues(t, v, s)
    BY <1>1, <1>3 DEF SampleStep, Consistent, TablesOK, Trusted
  <2>sound. BlocksOK(v.db) /\ BlockHeld(v) /\ BlocksGo(t.db, v.db)
    BY <1>1, <1>3, SoundHere DEF BlockStep, Sound
  <2>2. Consistent(v)
    BY <1>1, <1>3, <2>1, <2>sound DEF Consistent, TablesOK, WorkStep
  <2>3. Trusted(v)
    <3>1. LastObserved(v)
      BY <1>1, <1>2, <2>1 DEF LastObserved, Observation, Goes
    <3> QED BY <1>1, <2>1, <2>sound, <3>1 DEF Trusted, SegHeld, GapHeld
  <2>4. Mirrors(t) => Mirrors(v)
    BY <1>1, <1>3, <2>1 DEF Mirrors, WorkStep, GapMirror
  <2>5. Sampled(t.db, v.db) /\ SegsGrow(t.db.segs, v.db.segs)
    <3>1. CASE EndsKept(t.db.segs, v.db.segs)
      BY <3>1, KeptEnds
    <3>2. CASE Continues(t, v, s)
      <4> DEFINE id == t.mem.seg.id
                 row == t.db.segs[id]
                 n == Len(t.db.obs)
                 p == t.db.obs[n]
      <4>1. /\ t.mem.seg # NoSegment /\ t.mem.seg.app = s.app /\ t.mem.seg.state = s.state
            /\ 0 < s.utc - t.mem.seg.end /\ s.utc - t.mem.seg.end <= GapCap
            /\ id \in DOMAIN t.db.segs /\ DOMAIN v.db.segs = DOMAIN t.db.segs
            /\ v.db.segs[id] = [row EXCEPT !.end = s.utc]
            /\ \A i \in DOMAIN v.db.segs : i # id => v.db.segs[i] = t.db.segs[i]
        BY <3>2 DEF Continues
      <4>2. /\ OpenRows(t.db.gaps) = {} /\ n > 0
            /\ p.run = t.run /\ p.utc = t.mem.seg.end
            /\ p.app = t.mem.seg.app /\ p.state = t.mem.seg.state
        BY <4>1 DEF Trusted, GapHeld, LastObserved
      <4>3. /\ row.run = t.run /\ row.app = t.mem.seg.app /\ row.state = t.mem.seg.state
            /\ row.end = t.mem.seg.end /\ IsSegment(row)
        BY <4>1 DEF Trusted, SegHeld, SegMirror, HeldRun, Consistent, Typed, SegsTyped, Segments
      <4>4. LET new == v.db.segs[id]
            IN  new.run = row.run /\ new.app = row.app /\ new.state = row.state /\ new.end = s.utc
        BY <4>1, <4>3 DEF IsSegment
      <4>5. LET q == v.db.obs[n + 1]
            IN  q.run = t.run /\ q.app = s.app /\ q.state = s.state /\ q.utc = s.utc
        BY <1>2 DEF Observation
      <4>6. ASSUME NEW i \in DOMAIN v.db.segs, v.db.segs[i].end # EndOf(t.db.segs, i, v.db.segs[i])
            PROVE  i = id /\ EndOf(t.db.segs, i, v.db.segs[i]) = row.end
        BY <4>1, <4>6 DEF EndOf
      <4> DEFINE new == v.db.segs[id]
                 q == v.db.obs[n + 1]
      <4>7. /\ p.utc = row.end /\ q.utc = new.end
            /\ 0 < q.utc - p.utc /\ q.utc - p.utc <= GapCap
            /\ p.run = new.run /\ p.app = new.app /\ p.state = new.state
            /\ q.run = new.run /\ q.app = new.app /\ q.state = new.state
        <5> HIDE DEF id, row, n, p, new, q
        <5> QED BY <4>1, <4>2, <4>3, <4>4, <4>5 DEF new, q
      <4>grow. SegsGrow(t.db.segs, v.db.segs)
        <5>1. row.end < v.db.segs[id].end /\ v.db.segs[id].start = row.start
          <6>1. /\ row.end \in Int /\ v.db.segs[id].end = s.utc
                /\ v.db.segs[id].start = row.start
            BY <4>1, <4>3, <4>4 DEF IsSegment
          <6> HIDE DEF id, row
          <6> QED BY <4>1, <4>3, <6>1
        <5> HIDE DEF id
        <5> QED BY <4>1, <4>4, <5>1 DEF SegsGrow
      <4> SUFFICES ASSUME NEW i \in DOMAIN v.db.segs,
                          v.db.segs[i].end # EndOf(t.db.segs, i, v.db.segs[i])
                   PROVE  /\ OpenRows(t.db.gaps) = {} /\ n > 0 /\ Len(v.db.obs) = n + 1
                          /\ p.utc = EndOf(t.db.segs, i, v.db.segs[i])
                          /\ q.utc = v.db.segs[i].end
                          /\ 0 < q.utc - p.utc /\ q.utc - p.utc <= GapCap
                          /\ \A o \in {p, q} : /\ o.run = v.db.segs[i].run
                                               /\ o.app = v.db.segs[i].app
                                               /\ o.state = v.db.segs[i].state
        BY <4>grow DEF Sampled
      <4>8. v.db.segs[i] = new /\ EndOf(t.db.segs, i, v.db.segs[i]) = row.end
        BY <4>6
      <4> HIDE DEF id, row, n, p, new, q
      <4> QED BY <1>2, <4>2, <4>7, <4>8 DEF n
    <3> QED BY <2>1, <3>1, <3>2
  <2> QED BY <1>1, <2>2, <2>3, <2>4, <2>5, <2>sound DEF Moves
<1> QED BY <1>1, <1>3 DEF Goes

LEMMA GapOutcome ==
  ASSUME NEW t, Consistent(t), Trusted(t), NEW kind \in GapNames \ {"none"}, NEW at \in Int,
         NEW v, v = OnGapEvent(t, kind, at)
  PROVE  /\ Typed(v) /\ SeenOK(v) /\ v.run = t.run /\ v.db.runs = t.db.runs
         /\ t.cont.epoch <= v.cont.epoch
         /\ Unserved(v) /\ v.mem.gap # "none" /\ SeenAs(t, v)
         /\ v.ok => /\ Consistent(v) /\ Trusted(v) /\ Moves(t.db, v.db)
                    /\ Mirrors(t) => Mirrors(v)
<1>1. /\ Typed(v) /\ Goes(t, v) /\ Fresh(v.db) /\ LogAs(t, v) /\ SeenAs(t, v)
      /\ GapsKept(t.db.gaps, v.db.gaps) /\ RowsFrom(t.db, v.db)
      /\ v.mem.seg = NoSegment /\ v.mem.gap # "none" /\ Left(t, v)
      /\ v.db.segs \in {t.db.segs, Closed(t.db.segs)}
      /\ v.db.blocks \in {t.db.blocks, Closed(t.db.blocks)}
      /\ SegMirror(t) => SegMirror(v)
      /\ WorkMirror(t) => WorkMirror(v)
      /\ v.ok => /\ GapMirror(t) => GapMirror(v)
                 /\ OneOpen(t.db.gaps) => OneOpen(v.db.gaps)
  BY OnGapEventEffect DEF Consistent, TablesOK
<1>unserved. Unserved(v) /\ BlockHeld(v)
  BY <1>1 DEF Left, Unserved, BlockHeld
<1>blocks. BlocksOK(v.db) /\ BlocksGo(t.db, v.db)
  BY <1>1, SoundHere, LeftSound DEF Consistent, Sound
<1>2. SeenOK(v) /\ t.cont.epoch <= v.cont.epoch
  BY <1>1 DEF RestAs, SeenAs, Consistent, SeenOK, Typed, RestTyped, Counters
<1>3. /\ EndsKept(t.db.segs, v.db.segs) /\ SegTimes(v.db.segs) /\ OneOpen(v.db.segs)
  BY <1>1, ClosedKeeps DEF Consistent, Typed, SegsTyped, TablesOK
<1>4. OneOpen(v.db.blocks)
  BY <1>1, ClosedBlocks DEF Consistent, Typed, WorkTyped, TablesOK, OneOpen
<1>5. ASSUME v.ok
      PROVE  Consistent(v) /\ Trusted(v) /\ (Mirrors(t) => Mirrors(v))
  <2>1. Consistent(v)
    BY <1>1, <1>2, <1>3, <1>4, <1>5, <1>blocks DEF Consistent, TablesOK
  <2>2. Trusted(v)
    BY <1>1, <1>unserved DEF Trusted, SegHeld, HeldRun, GapHeld, LastObserved
  <2> QED BY <1>1, <1>5, <2>1, <2>2 DEF Mirrors
<1>6. Moves(t.db, v.db)
  BY <1>1, <1>3, <1>blocks, KeptEnds DEF Moves
<1> QED BY <1>1, <1>2, <1>5, <1>6, <1>unserved DEF Goes, LogAs

-----------------------------------------------------------------------------
(***************************************************************************)
(* Every step preserves the invariant.                                     *)
(***************************************************************************)
(* An event is handled once or once more; it commits, backs off or fails.  *)
HandledWell(e) ==
  LET v == Handled(e)
  IN  /\ Typed(v) /\ SeenOK(v) /\ v.run = agent.run /\ v.db.runs = db.runs
      /\ cont.epoch <= v.cont.epoch
      /\ v.ok => /\ Consistent(v) /\ Trusted(v) /\ Moves(db, v.db)
                 /\ Mirrors(Here) => Mirrors(v)
      /\ GapEvent(e) => Unserved(v) /\ v.mem.gap # "none" /\ SeenAs(Here, v)

LEMMA HandledOutcome ==
  ASSUME EngineInv, agent.up, NEW e, SampleEvent(e, cont) \/ GapEvent(e)
  PROVE  HandledWell(e)
<1> DEFINE t == Here
           v == Handled(e)
<1>1. /\ Consistent(t) /\ Trusted(t)
      /\ t.cont = cont /\ t.run = agent.run /\ t.db = db
  BY DEF EngineInv, Here, Begin
<1> HIDE DEF t
<1>2. CASE SampleEvent(e, cont)
  <2>1. v = OnSample(t, e.sample)
    BY <1>2 DEF SampleEvent, Handled, Here, t
  <2>2. ~GapEvent(e)
    BY <1>2, EngineConstants DEF SampleEvent, GapEvent
  <2>3. /\ e.sample.app \in Apps /\ e.sample.utc \in Int /\ e.sample.state \in States
        /\ e.sample.epoch \in Int /\ e.sample.epoch <= t.cont.epoch
    BY <1>1, <1>2 DEF SampleEvent
  <2> HIDE DEF v
  <2>4. /\ Typed(v) /\ SeenOK(v) /\ v.run = t.run /\ v.db.runs = t.db.runs
        /\ t.cont.epoch <= v.cont.epoch
        /\ v.ok => /\ Consistent(v) /\ Trusted(v) /\ Moves(t.db, v.db)
                   /\ Mirrors(t) => Mirrors(v)
    BY <1>1, <2>1, <2>3, SampleOutcome
  <2> QED BY <1>1, <2>2, <2>4 DEF HandledWell, v, t
<1>3. CASE GapEvent(e)
  <2>1. e.kind \notin {"sample", "shutdown", "none"} /\ e.kind \in GapNames /\ e.at \in Int
    BY <1>3, EngineConstants DEF GapEvent, GapNames, DataEvents
  <2>2. v = OnGapEvent(t, e.kind, e.at)
    BY <2>1 DEF Handled, Here, t
  <2> HIDE DEF v
  <2>3. /\ Typed(v) /\ SeenOK(v) /\ v.run = t.run /\ v.db.runs = t.db.runs
        /\ t.cont.epoch <= v.cont.epoch
        /\ Unserved(v) /\ v.mem.gap # "none" /\ SeenAs(t, v)
        /\ v.ok => /\ Consistent(v) /\ Trusted(v) /\ Moves(t.db, v.db)
                   /\ Mirrors(t) => Mirrors(v)
    BY <1>1, <2>1, <2>2, GapOutcome
  <2> QED BY <1>1, <2>3 DEF HandledWell, v, t
<1> QED BY <1>2, <1>3

LEMMA Unrestored ==
  ASSUME EngineInv, NEW used
  PROVE  Restored(mem, used) = mem
<1>1. mem = [seg |-> mem.seg, work |-> mem.work, idleStart |-> mem.idleStart,
             idleSum |-> mem.idleSum, gap |-> mem.gap, point |-> mem.point, seen |-> mem.seen,
             capDrops |-> mem.capDrops, wrDrops |-> mem.wrDrops]
  BY DEF EngineInv, Consistent, Typed, Shaped, Here, Begin
<1> QED BY <1>1 DEF Restored

(* The memory a failed event leaves: the old one, or one with neither      *)
(* segment nor Work Block and, unless it was so before, not without a gap. *)
LEMMA MemoryLeftBehind ==
  ASSUME EngineInv, agent.up, NEW e, SampleEvent(e, cont) \/ GapEvent(e),
         NEW m, m \in LeftBehind(e, Handled(e))
  PROVE  \/ m = mem
         \/ \E q : /\ Typed(q) /\ m = q.mem
                   /\ Unserved(q) /\ (m.gap = "none" => mem.gap = "none")
                   /\ m.seen = mem.seen
<1> DEFINE v == Handled(e)
           forgotten == Forgotten(Here)
<1>1. CASE e.kind \in DataEvents
  BY <1>1, Unrestored DEF LeftBehind
<1>2. CASE e.kind \notin DataEvents
  <2>1. m \in {mem, forgotten.mem, v.mem}
    BY <1>2 DEF LeftBehind, Forgotten, Here
  <2>2. GapEvent(e)
    BY <1>2 DEF SampleEvent, DataEvents
  <2>3. /\ Typed(v) /\ Unserved(v) /\ v.mem.gap # "none" /\ v.mem.seen = mem.seen
    BY <2>2, HandledOutcome DEF HandledWell, SeenAs, Here, Begin
  <2>4. Typed(Here)
    BY DEF EngineInv, Consistent
  <2>5. /\ Typed(forgotten) /\ Unserved(forgotten)
        /\ GapsAs(Here, forgotten) /\ SeenAs(Here, forgotten)
    BY <2>4, ForgottenEffect DEF Left, Unserved
  <2>6. forgotten.mem.gap = mem.gap /\ forgotten.mem.seen = mem.seen
    BY <2>5 DEF GapsAs, SeenAs, Here, Begin
  <2> HIDE DEF v, forgotten
  <2> QED BY <2>1, <2>3, <2>5, <2>6
<1> QED BY <1>1, <1>2

(* The state after a step, taken apart.                                    *)
LEMMA HereNext ==
  LET u == Here'
  IN  /\ DOMAIN u = {"db", "mem", "cont", "run", "ok"}
      /\ u.db = db' /\ u.mem = mem' /\ u.cont = cont' /\ u.run = agent'.run
BY DEF Here, Begin

LEMMA HereNow ==
  /\ DOMAIN Here = {"db", "mem", "cont", "run", "ok"}
  /\ Here.db = db /\ Here.mem = mem /\ Here.cont = cont /\ Here.run = agent.run
BY DEF Here, Begin

LEMMA HandleStep ==
  ASSUME EngineInv, agent.up, NEW e, SampleEvent(e, cont) \/ GapEvent(e), Handle(e)
  PROVE  EngineInv' /\ cont'.epoch \in Nat /\ cont.epoch <= cont'.epoch /\ Moves(db, db')
<1> DEFINE t == Here
           v == Handled(e)
           u == Here'
<1>1. /\ Consistent(t) /\ Trusted(t) /\ agent.run \in 0 .. Len(db.runs)
      /\ agent = [up |-> TRUE, run |-> agent.run, fault |-> agent.fault]
      /\ agent.fault \in {"none", "refused", "database"}
      /\ agent.fault = "none" => Mirrors(t)
      /\ t.db = db /\ t.mem = mem /\ t.cont = cont /\ t.run = agent.run
  BY HereNow DEF EngineInv
<1>2. /\ Typed(v) /\ SeenOK(v) /\ v.run = agent.run /\ v.db.runs = db.runs
      /\ cont.epoch <= v.cont.epoch
      /\ v.ok => /\ Consistent(v) /\ Trusted(v) /\ Moves(db, v.db)
                 /\ Mirrors(t) => Mirrors(v)
  BY HandledOutcome DEF HandledWell
<1>3. /\ DOMAIN u = {"db", "mem", "cont", "run", "ok"}
      /\ u.db = db' /\ u.mem = mem' /\ u.cont = cont' /\ u.run = agent'.run
  BY HereNext
<1>4. Commits(v) \/ BacksOff(e, v) \/ Fails(e, v)
  BY DEF Handle
<1>5. Typed(t) /\ cont \in Counters /\ v.cont \in Counters
  BY <1>1, <1>2 DEF Consistent, Typed, RestTyped
<1>6. \A m : m \in LeftBehind(e, v) =>
        \/ m = mem
        \/ \E q : /\ Typed(q) /\ m = q.mem
                  /\ Unserved(q) /\ (m.gap = "none" => mem.gap = "none")
                  /\ m.seen = mem.seen
  BY MemoryLeftBehind
<1>7. Restored(mem, v.mem) = mem
  BY Unrestored
<1> HIDE DEF t, v, u
<1>8. CASE Commits(v)
  <2>1. /\ v.ok /\ db' = v.db /\ mem' = v.mem /\ cont' = v.cont
        /\ inflight' = NoEvent /\ agent' = agent
    BY <1>8 DEF Commits
  <2>2. Typed(u)
    BY <1>2, <1>3, <2>1, Regrouped
  <2>3. Consistent(u)
    BY <1>2, <1>3, <2>1, <2>2 DEF Consistent, SeenOK
  <2>4. Trusted(u) /\ (Mirrors(v) => Mirrors(u))
    BY <1>2, <1>3, <2>1, SameParts
  <2>5. EngineInv'
    BY <1>1, <1>2, <2>1, <2>3, <2>4 DEF EngineInv, u
  <2> QED BY <1>2, <1>5, <2>1, <2>5 DEF Counters
<1>9. CASE BacksOff(e, v)
  <2>1. /\ db' = db /\ mem' = mem /\ cont' \in {cont, v.cont} /\ agent' = agent
        /\ inflight' = [e EXCEPT !.tries = @ + 1]
    BY <1>7, <1>9 DEF BacksOff
  <2>2. cont' \in Counters /\ cont.epoch <= cont'.epoch
    BY <1>2, <1>5, <2>1 DEF Counters
  <2>3. Typed(u)
    BY <1>1, <1>2, <1>3, <1>5, <2>1, Regrouped
  <2>4. Consistent(u)
    BY <1>1, <1>3, <1>5, <2>1, <2>2, <2>3
       DEF Consistent, SeenOK, Typed, RestTyped, Counters
  <2>5. Trusted(u) /\ (Mirrors(t) => Mirrors(u))
    BY <1>1, <1>3, <2>1, SameParts
  <2>6. SampleEvent(inflight', cont') \/ GapEvent(inflight')
    <3>1. CASE SampleEvent(e, cont)
      <4>1. /\ inflight'.kind = "sample" /\ inflight'.sample = e.sample
            /\ inflight' = [kind |-> inflight'.kind, sample |-> inflight'.sample,
                            tries |-> inflight'.tries]
        BY <2>1, <3>1 DEF SampleEvent
      <4> QED BY <1>5, <2>2, <3>1, <4>1 DEF SampleEvent, Counters
    <3>2. CASE GapEvent(e)
      BY <2>1, <3>2 DEF GapEvent
    <3> QED BY <3>1, <3>2
  <2>7. EngineInv'
    BY <1>1, <2>1, <2>4, <2>5, <2>6 DEF EngineInv, u
  <2>8. Moves(db, db')
    BY <1>1, <2>1, MovesSame DEF Consistent, TablesOK
  <2> QED BY <2>2, <2>7, <2>8 DEF Counters
<1>10. CASE Fails(e, v)
  <2>1. /\ db' = db /\ mem' \in LeftBehind(e, v) /\ cont' \in {cont, v.cont}
        /\ inflight' = NoEvent
        /\ \/ agent' = [agent EXCEPT !.fault = "refused"]
           \/ agent' = [agent EXCEPT !.fault = "database"]
    BY <1>10 DEF Fails
  <2>2. cont' \in Counters /\ cont.epoch <= cont'.epoch
    BY <1>2, <1>5, <2>1 DEF Counters
  <2>3. /\ agent'.up /\ agent'.run = agent.run /\ agent'.fault # "none"
        /\ agent' \in [up : BOOLEAN, run : 0 .. Len(db.runs),
                       fault : {"none", "refused", "database"}]
    BY <1>1, <2>1
  <2>4. PICK q : /\ Typed(q) /\ mem' = q.mem /\ mem'.seen = mem.seen
                 /\ mem' # mem => Unserved(q) /\ (mem'.gap = "none" => mem.gap = "none")
    BY <1>1, <1>5, <1>6, <2>1
  <2>5. Typed(u)
    BY <1>1, <1>2, <1>3, <1>5, <2>1, <2>4, Regrouped
  <2>6. Consistent(u)
    BY <1>1, <1>3, <1>5, <2>1, <2>2, <2>4, <2>5
       DEF Consistent, SeenOK, Typed, RestTyped, Counters
  <2>7. Trusted(u)
    <3>1. CASE mem' = mem
      BY <1>1, <1>3, <2>1, <2>3, <3>1, SameParts
    <3>2. CASE mem' # mem
      <4>1. Unserved(u)
        BY <1>3, <2>4, <3>2 DEF Unserved
      <4>2. BlockHeld(u)
        BY <4>1 DEF BlockHeld, Unserved
      <4> QED BY <1>1, <1>3, <2>1, <2>4, <3>2, <4>1, <4>2
              DEF Trusted, SegHeld, HeldRun, GapHeld, LastObserved, Unserved
    <3> QED BY <3>1, <3>2
  <2>8. EngineInv'
    BY <2>1, <2>3, <2>6, <2>7 DEF EngineInv, u
  <2>9. Moves(db, db')
    BY <1>1, <2>1, MovesSame DEF Consistent, TablesOK
  <2> QED BY <2>2, <2>8, <2>9 DEF Counters
<1> QED BY <1>4, <1>8, <1>9, <1>10

(* Steps that leave the rows of the mirror, the memory and the events as   *)
(* they are.                                                               *)
LEMMA QuietStep ==
  ASSUME EngineInv, UNCHANGED mem, agent' = agent,
         cont' \in Counters, cont.epoch <= cont'.epoch, UNCHANGED inflight,
         DOMAIN db' = DOMAIN db,
         db'.segs = db.segs, db'.blocks = db.blocks, db'.gaps = db.gaps, db'.obs = db.obs,
         Runs(db'.runs), Len(db'.runs) = Len(db.runs),
         db'.hourly = db.hourly, db'.daily = db.daily, db'.metrics = db.metrics,
         db'.recorded = db.recorded
  PROVE  EngineInv' /\ Moves(db, db')
<1> DEFINE t == Here
           u == Here'
<1>1. /\ t.db = db /\ t.mem = mem /\ t.cont = cont /\ t.run = agent.run
      /\ DOMAIN u = {"db", "mem", "cont", "run", "ok"}
      /\ u.db = db' /\ u.mem = mem' /\ u.cont = cont' /\ u.run = agent'.run
  BY HereNow, HereNext
<1>2. /\ Typed(t) /\ SeenOK(t) /\ TablesOK(t.db)
      /\ agent.up => Trusted(t)
      /\ agent.up /\ agent.fault = "none" => Mirrors(t)
  BY DEF EngineInv, Consistent
<1>3. inflight = NoEvent \/ SampleEvent(inflight, cont') \/ GapEvent(inflight)
  <2>1. cont.epoch \in Int
    BY <1>1, <1>2 DEF Typed, RestTyped, Counters
  <2> QED BY <2>1 DEF EngineInv, SampleEvent, Counters
<1> HIDE DEF t, u
<1>4. Typed(u)
  <2>1. Shaped(u)
    BY <1>1, <1>2 DEF Typed, Shaped
  <2>2. /\ SegsAs(t, u) /\ WorkAs(t, u) /\ GapsAs(t, u) /\ IdleAs(t, u)
    BY <1>1 DEF SegsAs, WorkAs, GapsAs, IdleAs
  <2>3. LogTyped(u) /\ RestTyped(u)
    BY <1>1, <1>2 DEF Typed, LogTyped, RestTyped
  <2> QED BY <1>2, <2>1, <2>2, <2>3, TypedAs DEF Typed
<1>5. Consistent(u)
  <2>1. SeenOK(u)
    BY <1>1, <1>2 DEF SeenOK, Typed, RestTyped, Counters
  <2>2. TablesOK(u.db)
    BY <1>1, <1>2 DEF TablesOK, Fresh, BlocksOK
  <2> QED BY <1>4, <2>1, <2>2 DEF Consistent
<1>6. Trusted(t) => Trusted(u)
  <2>1. /\ u.db.segs = t.db.segs /\ u.db.blocks = t.db.blocks /\ u.mem = t.mem
    BY <1>1
  <2>2. BlockHeld(t) => BlockHeld(u)
    BY <2>1 DEF BlockHeld, Served, Unserved, WorkMirror
  <2> QED BY <1>1, <2>2 DEF Trusted, SegHeld, SegMirror, HeldRun, GapHeld, LastObserved
<1>7. Mirrors(t) => Mirrors(u)
  <2>1. /\ u.db.segs = t.db.segs /\ u.db.blocks = t.db.blocks /\ u.db.gaps = t.db.gaps
        /\ u.mem = t.mem
    BY <1>1
  <2>2. SegMirror(t) => SegMirror(u)
    BY <2>1 DEF SegMirror
  <2>3. WorkMirror(t) => WorkMirror(u)
    BY <2>1 DEF WorkMirror
  <2>4. GapMirror(t) => GapMirror(u)
    BY <2>1, ZenonT(60) DEF GapMirror
  <2> QED BY <2>2, <2>3, <2>4 DEF Mirrors
<1>8. EngineInv'
  BY <1>2, <1>3, <1>5, <1>6, <1>7 DEF EngineInv, u
<1>9. Moves(db, db')
  BY <1>1, <1>2, MovesSame DEF TablesOK
<1> QED BY <1>8, <1>9

(* Steps that end the process: nothing is trusted until it starts again.   *)
LEMMA DownStep ==
  ASSUME EngineInv, UNCHANGED <<mem, cont, inflight>>, agent' = [agent EXCEPT !.up = FALSE],
         NEW v, Typed(v), db' = v.db, TablesOK(v.db), Len(v.db.runs) = Len(db.runs),
         Moves(db, v.db)
  PROVE  EngineInv' /\ Moves(db, db')
<1> DEFINE t == Here
           u == Here'
<1>1. /\ t.db = db /\ t.mem = mem /\ t.cont = cont
      /\ DOMAIN u = {"db", "mem", "cont", "run", "ok"}
      /\ u.db = db' /\ u.mem = mem' /\ u.cont = cont'
  BY HereNow, HereNext
<1>2. Typed(t) /\ SeenOK(t)
  BY DEF EngineInv, Consistent
<1> HIDE DEF t, u
<1>3. Typed(u)
  BY <1>1, <1>2, Regrouped
<1>4. Consistent(u)
  BY <1>1, <1>2, <1>3 DEF Consistent, SeenOK
<1>5. /\ ~agent'.up
      /\ agent' \in [up : BOOLEAN, run : 0 .. Len(db'.runs),
                     fault : {"none", "refused", "database"}]
  BY DEF EngineInv
<1>6. EngineInv'
  BY <1>4, <1>5 DEF EngineInv, u
<1> QED BY <1>6

LEMMA StartStep ==
  ASSUME EngineInv, NEW d, clock.utc + d \in Int, StartAgent(d)
  PROVE  EngineInv' /\ cont'.epoch = 0 /\ Moves(db, db')
<1> DEFINE zero == [epoch |-> 0, capture |-> 0, writer |-> 0]
           run == Len(db.runs) + 1
           t == [db |-> db, mem |-> FreshMemory, run |-> run, ok |-> TRUE, cont |-> zero]
           v == Recovered(t, clock.utc + d)
           u == Here'
<1>1. /\ v.ok /\ db' = v.db /\ mem' = v.mem /\ cont' = v.cont
      /\ agent' = [up |-> TRUE, run |-> run, fault |-> "none"] /\ inflight' = NoEvent
  BY DEF StartAgent
<1>2. Typed(Here) /\ Here.db = db /\ TablesOK(db)
  BY HereNow DEF EngineInv, Consistent
<1>3. Typed(t)
  <2>1. Shaped(t)
    BY <1>2 DEF Typed, Shaped, FreshMemory
  <2>2. SegsTyped(t) /\ WorkTyped(t) /\ LogTyped(t)
    BY <1>2 DEF Typed, SegsTyped, WorkTyped, LogTyped, FreshMemory
  <2>3. GapsTyped(t)
    BY <1>2 DEF Typed, GapsTyped, GapNames, FreshMemory
  <2>4. IdleTyped(t) /\ RestTyped(t)
    BY DEF IdleTyped, RestTyped, FreshMemory, NoPoint, NoTime, NoEpoch, Counters
  <2> QED BY <2>1, <2>2, <2>3, <2>4 DEF Typed
<1>4. /\ t.mem.seg = NoSegment /\ t.mem.work = NoWork /\ t.run = run /\ t.cont = zero
      /\ t.db = db /\ t.mem.seen = NoEpoch /\ t.mem.idleStart = NoTime
  BY DEF FreshMemory
<1> HIDE DEF t
<1>5. /\ Typed(v) /\ v.run = run /\ Fresh(v.db)
      /\ v.mem.seg = NoSegment /\ v.mem.work = NoWork /\ v.mem.gap = "agent_restart"
      /\ v.mem.idleStart = NoTime /\ RestAs(t, v)
      /\ v.db.obs = db.obs /\ Len(v.db.runs) = run
      /\ v.db.segs = Closed(db.segs) /\ v.db.blocks = Closed(db.blocks)
      /\ SegMirror(v) /\ WorkMirror(v) /\ OneOpen(v.db.blocks)
      /\ GapMirror(v) /\ OneOpen(v.db.gaps)
      /\ GapsKept(db.gaps, v.db.gaps) /\ RowsFrom(db, v.db)
  BY <1>1, <1>2, <1>3, <1>4, RecoveredEffect DEF TablesOK
<1>6. EndsKept(db.segs, v.db.segs) /\ SegTimes(v.db.segs) /\ OneOpen(v.db.segs)
  BY <1>2, <1>5, ClosedKeeps DEF Typed, SegsTyped, TablesOK
<1>blocks. BlocksOK(v.db)
  <2>1. OpenRows(v.db.blocks) = {}
    BY <1>3, <1>4, <1>5, ClosedBlocks DEF Typed, WorkTyped
  <2> QED BY <1>2, <1>3, <1>4, <1>5, <2>1, ClosedOK DEF TablesOK
<1>7. v.cont = zero /\ v.mem.seen = NoEpoch
  BY <1>4, <1>5 DEF RestAs, SeenAs
<1>8. /\ DOMAIN u = {"db", "mem", "cont", "run", "ok"}
      /\ u.db = db' /\ u.mem = mem' /\ u.cont = cont' /\ u.run = agent'.run
  BY HereNext
<1>9. run \in Nat
  BY <1>2, RowsLen DEF Typed, LogTyped
<1> HIDE DEF v, u, run
<1>10. Typed(u)
  BY <1>1, <1>5, <1>8, Regrouped
<1>11. Consistent(u)
  BY <1>1, <1>5, <1>6, <1>7, <1>8, <1>10, <1>blocks DEF Consistent, SeenOK, TablesOK, NoEpoch
<1>12. Trusted(u) /\ Mirrors(u)
  <2>1. Trusted(v)
    BY <1>5 DEF Trusted, SegHeld, HeldRun, GapHeld, LastObserved, BlockHeld, Unserved
  <2>2. u.run = v.run
    BY <1>1, <1>5, <1>8
  <2> QED BY <1>1, <1>5, <1>8, <2>1, <2>2, SameParts DEF Mirrors
<1>13. EngineInv'
  BY <1>1, <1>5, <1>9, <1>11, <1>12 DEF EngineInv, u
<1>14. Moves(db, db')
  <2>1. BlocksGo(db, v.db)
    BY <1>2, <1>5, <1>6, EndsKeptSame, BlocksStayClosed DEF TablesOK, Typed, WorkTyped
  <2> QED BY <1>1, <1>5, <1>6, <2>1, KeptEnds DEF Moves
<1> QED BY <1>1, <1>7, <1>13, <1>14

LEMMA InitHolds == Init => EngineInv /\ WorldInv
<1> SUFFICES ASSUME Init PROVE EngineInv /\ WorldInv
  OBVIOUS
<1>1. /\ db = Bootstrapped /\ mem = FreshMemory
      /\ cont = [epoch |-> 0, capture |-> 0, writer |-> 0]
      /\ clock = [utc |-> Start, mono |-> 0]
      /\ agent = [up |-> FALSE, run |-> 0, fault |-> "none"]
      /\ inflight = NoEvent /\ floor = 0
  BY DEF Init
<1> DEFINE t == Here
           row == [started |-> Start, ended |-> NoTime, beat |-> Start, write |-> NoTime]
<1>2. IsRows(<<>>) /\ DOMAIN <<>> = {} /\ Runs(<<row>>)
  <2>1. <<>> \in Seq({})
    OBVIOUS
  <2>2. <<row>> \in Seq({row})
    OBVIOUS
  <2>3. DOMAIN <<>> = {}
    OBVIOUS
  <2>4. IsRun(row)
    BY EngineConstants DEF IsRun, NoTime
  <2> HIDE DEF row
  <2>5. Runs(<<row>>)
    <3>1. Len(<<row>>) > 0 /\ \A i \in DOMAIN <<row>> : <<row>>[i] = row
      OBVIOUS
    <3> QED BY <2>2, <2>4, <3>1 DEF Runs, IsRows
  <2> QED BY <2>1, <2>3, <2>5 DEF IsRows
<1>3. /\ t.db.segs = <<>> /\ t.db.blocks = <<>> /\ t.db.gaps = <<>> /\ t.db.obs = <<>>
      /\ t.db.runs = <<row>> /\ t.mem = FreshMemory /\ t.cont = cont
      /\ DOMAIN t = {"db", "mem", "cont", "run", "ok"}
      /\ DOMAIN t.db = {"segs", "blocks", "gaps", "obs", "runs", "hourly", "daily", "metrics",
                        "recorded"}
      /\ t.db.hourly = [h \in Hours |-> NoUsage] /\ t.db.daily = [x \in Dates |-> NoUsage]
  BY <1>1 DEF Here, Begin, Bootstrapped
<1> HIDE DEF t, row
<1>4. Shaped(t)
  BY <1>3 DEF Shaped, FreshMemory
<1>5. SegsTyped(t) /\ WorkTyped(t) /\ GapsTyped(t) /\ LogTyped(t)
  BY <1>2, <1>3 DEF SegsTyped, Segments, WorkTyped, Blocks, GapsTyped, Gaps, GapNames, LogTyped,
                    FreshMemory
<1>6. IdleTyped(t) /\ RestTyped(t) /\ SeenOK(t)
  BY <1>1, <1>3 DEF IdleTyped, RestTyped, SeenOK, FreshMemory, NoPoint, NoTime, NoEpoch, Counters
<1>7. TablesOK(t.db)
  <2>1. Fresh(t.db)
    BY <1>3, NothingUsed DEF Fresh, HourUsage, DateUsage
  <2>2. OpenRows(t.db.segs) = {} /\ OpenRows(t.db.blocks) = {} /\ DOMAIN t.db.blocks = {}
    BY <1>2, <1>3 DEF OpenRows
  <2>3. BlocksOK(t.db)
    BY <2>2 DEF BlocksOK
  <2> QED BY <1>2, <1>3, <2>1, <2>3 DEF TablesOK, SegTimes, OneOpen, OpenRows
<1>8. agent \in [up : BOOLEAN, run : 0 .. Len(db.runs), fault : {"none", "refused", "database"}]
  <2>1. Len(db.runs) = 1
    BY <1>1 DEF Bootstrapped
  <2> QED BY <1>1, <2>1
<1>9. EngineInv
  BY <1>1, <1>4, <1>5, <1>6, <1>7, <1>8 DEF EngineInv, Consistent, Typed, t
<1>10. WorldInv
  BY <1>1, EngineConstants DEF WorldInv
<1> QED BY <1>9, <1>10

LEMMA EngineStep ==
  ASSUME EngineInv, WorldInv, [Next]_vars
  PROVE  EngineInv' /\ WorldInv' /\ Moves(db, db')
<1>1. cont \in Counters /\ Runs(db.runs)
  BY HereNow DEF EngineInv, Consistent, Typed, RestTyped, LogTyped
<1>2. ASSUME NEW k \in Kinds, NEW d \in Steps, Sample(k, d)
      PROVE  EngineInv' /\ WorldInv' /\ Moves(db, db')
  <2>1. PICK ep \in floor .. cont.epoch :
          LET s == [app |-> k.app, state |-> k.state, epoch |-> ep,
                    utc |-> clock.utc + d, mono |-> clock.mono + d]
          IN  /\ Handle([kind |-> "sample", sample |-> s, tries |-> 0])
              /\ floor' = ep
    BY <1>2 DEF Sample
  <2> DEFINE s == [app |-> k.app, state |-> k.state, epoch |-> ep,
                   utc |-> clock.utc + d, mono |-> clock.mono + d]
             e == [kind |-> "sample", sample |-> s, tries |-> 0]
  <2>2. /\ s.app \in Apps /\ s.utc \in Int /\ s.state \in States
        /\ s.epoch \in Int /\ s.epoch <= cont.epoch
    BY <1>1, EngineConstants DEF WorldInv, Counters
  <2>3. SampleEvent(e, cont)
    BY <2>2 DEF SampleEvent
  <2>4. agent.up /\ Handle(e)
    BY <1>2, <2>1 DEF Sample, Ready
  <2> HIDE DEF e
  <2>5. EngineInv' /\ cont'.epoch \in Nat /\ cont.epoch <= cont'.epoch /\ Moves(db, db')
    BY <2>3, <2>4, HandleStep
  <2>6. floor' \in 0 .. cont'.epoch
    BY <1>1, <2>1, <2>5 DEF WorldInv, Counters
  <2>7. clock' \in [utc : Int, mono : Int]
    BY <1>2, EngineConstants DEF Sample, After, WorldInv
  <2> QED BY <2>5, <2>6, <2>7 DEF WorldInv
<1>3. ASSUME NEW kind \in Masks, NEW d \in Steps, Masked(kind, d)
      PROVE  EngineInv' /\ WorldInv' /\ Moves(db, db')
  <2> DEFINE e == [kind |-> kind, at |-> clock.utc + d, tries |-> 0]
  <2>1. GapEvent(e) /\ agent.up /\ Handle(e)
    BY <1>3, EngineConstants DEF GapEvent, Masked, Ready, WorldInv
  <2> HIDE DEF e
  <2>2. EngineInv' /\ cont'.epoch \in Nat /\ cont.epoch <= cont'.epoch /\ Moves(db, db')
    BY <2>1, HandleStep
  <2>3. floor' = floor /\ clock' \in [utc : Int, mono : Int]
    BY <1>3, EngineConstants DEF Masked, After, WorldInv
  <2> QED BY <1>1, <2>2, <2>3 DEF WorldInv, Counters
<1>4. ASSUME NEW kind \in Lifecycle, NEW lag \in Lags, Boundary(kind, lag)
      PROVE  EngineInv' /\ WorldInv' /\ Moves(db, db')
  <2> DEFINE e == [kind |-> kind, at |-> clock.utc - lag, tries |-> 0]
  <2>1. GapEvent(e) /\ agent.up /\ Handle(e)
    BY <1>4, EngineConstants DEF GapEvent, Boundary, Ready, WorldInv
  <2> HIDE DEF e
  <2>2. EngineInv' /\ cont'.epoch \in Nat /\ cont.epoch <= cont'.epoch /\ Moves(db, db')
    BY <2>1, HandleStep
  <2>3. floor' = floor /\ clock' = clock
    BY <1>4 DEF Boundary
  <2> QED BY <1>1, <2>2, <2>3 DEF WorldInv, Counters
<1>5. ASSUME TriesAgain
      PROVE  EngineInv' /\ WorldInv' /\ Moves(db, db')
  <2>1. agent.up /\ Handle(inflight) /\ (SampleEvent(inflight, cont) \/ GapEvent(inflight))
    BY <1>5 DEF TriesAgain, EngineInv
  <2>2. EngineInv' /\ cont'.epoch \in Nat /\ cont.epoch <= cont'.epoch /\ Moves(db, db')
    BY <2>1, HandleStep
  <2>3. floor' = floor /\ clock' = clock
    BY <1>5 DEF TriesAgain
  <2> QED BY <1>1, <2>2, <2>3 DEF WorldInv, Counters
<1>6. ASSUME NEW lane \in {"capture", "writer"}, NEW d \in Steps, Drop(lane, d)
      PROVE  EngineInv' /\ WorldInv' /\ Moves(db, db')
  <2>1. /\ cont' = [cont EXCEPT !.epoch = @ + 1, ![lane] = @ + 1]
        /\ floor' \in {cont.epoch + 1, floor}
        /\ UNCHANGED <<db, mem, agent, inflight>>
    BY <1>6 DEF Drop
  <2>2. cont' \in Counters /\ cont'.epoch = cont.epoch + 1
    <3>1. CASE lane = "capture"
      <4>1. cont' = [epoch |-> cont.epoch + 1, capture |-> cont.capture + 1, writer |-> cont.writer]
        BY <1>1, <2>1, <3>1 DEF Counters
      <4> QED BY <1>1, <4>1 DEF Counters
    <3>2. CASE lane = "writer"
      <4>1. cont' = [epoch |-> cont.epoch + 1, writer |-> cont.writer + 1, capture |-> cont.capture]
        BY <1>1, <2>1, <3>2 DEF Counters
      <4> QED BY <1>1, <4>1 DEF Counters
    <3> QED BY <3>1, <3>2
  <2>3. clock' \in [utc : Int, mono : Int]
    BY <1>6, EngineConstants DEF Drop, After, WorldInv
  <2>4. EngineInv' /\ Moves(db, db')
    BY <1>1, <2>1, <2>2, QuietStep DEF Counters
  <2> QED BY <1>1, <2>1, <2>2, <2>3, <2>4 DEF WorldInv, Counters
<1>7. ASSUME Heartbeat
      PROVE  EngineInv' /\ WorldInv' /\ Moves(db, db')
  <2>1. /\ db' = [db EXCEPT !.runs[agent.run].beat = clock.utc,
                            !.runs[agent.run].write = clock.utc]
        /\ UNCHANGED <<mem, cont, clock, agent, inflight, floor>>
    BY <1>7 DEF Heartbeat
  <2>2. DOMAIN db = {"segs", "blocks", "gaps", "obs", "runs", "hourly", "daily", "metrics",
                     "recorded"}
    BY HereNow DEF EngineInv, Consistent, Typed, Shaped
  <2>3. /\ DOMAIN db' = DOMAIN db
        /\ db'.segs = db.segs /\ db'.blocks = db.blocks /\ db'.gaps = db.gaps
        /\ db'.obs = db.obs /\ db'.hourly = db.hourly /\ db'.daily = db.daily
        /\ db'.metrics = db.metrics /\ db'.recorded = db.recorded
    BY <2>1, <2>2
  <2>4. db'.runs = BeatAt(db.runs, agent.run, clock.utc)
    BY <2>1, <2>2 DEF BeatAt
  <2>utc. clock.utc \in Int
    BY DEF WorldInv
  <2>5. Runs(db'.runs) /\ Len(db'.runs) = Len(db.runs)
    BY <1>1, <2>4, <2>utc, RunBeats
  <2>6. EngineInv' /\ Moves(db, db')
    BY <1>1, <2>1, <2>3, <2>5, QuietStep DEF Counters
  <2> QED BY <2>1, <2>6 DEF WorldInv
<1>8. ASSUME NEW j \in Jumps, SetClock(j)
      PROVE  EngineInv' /\ WorldInv' /\ Moves(db, db')
  <2>1. UNCHANGED <<db, mem, cont, agent, inflight, floor>>
    BY <1>8 DEF SetClock
  <2>2. clock' \in [utc : Int, mono : Int]
    BY <1>8, EngineConstants DEF SetClock, WorldInv
  <2>3. EngineInv' /\ Moves(db, db')
    BY <1>1, <2>1, QuietStep DEF Counters
  <2> QED BY <2>1, <2>2, <2>3 DEF WorldInv
<1>9. ASSUME Shutdown
      PROVE  EngineInv' /\ WorldInv' /\ Moves(db, db')
  <2> DEFINE v == OnShutdown(Here, clock.utc)
  <2>1. /\ db' = v.db \/ db' = db
        /\ agent' = [agent EXCEPT !.up = FALSE]
        /\ UNCHANGED <<mem, cont, clock, inflight, floor>>
    BY <1>9 DEF Shutdown, Handled, Here
  <2>2. Consistent(Here) /\ Here.db = db
    BY HereNow DEF EngineInv
  <2>3. /\ Typed(v) /\ Len(v.db.runs) = Len(db.runs)
        /\ v.db.segs \in {db.segs, Closed(db.segs)}
        /\ v.db.blocks \in {db.blocks, Closed(db.blocks)}
        /\ OneOpen(db.gaps) => OneOpen(v.db.gaps)
        /\ Fresh(v.db) /\ Left(Here, v)
        /\ GapsKept(db.gaps, v.db.gaps) /\ RowsFrom(db, v.db)
    BY <2>2, OnShutdownEffect DEF Consistent, TablesOK
  <2> HIDE DEF v
  <2>4. /\ EndsKept(db.segs, v.db.segs) /\ SegTimes(v.db.segs) /\ OneOpen(v.db.segs)
    BY <2>2, <2>3, ClosedKeeps DEF Consistent, Typed, SegsTyped, TablesOK
  <2>5. OneOpen(v.db.blocks)
    BY <2>2, <2>3, ClosedBlocks DEF Consistent, Typed, WorkTyped, TablesOK, OneOpen
  <2>blocks. BlocksOK(v.db) /\ BlocksGo(db, v.db)
    <3>1. agent.up
      BY <1>9 DEF Shutdown, Ready
    <3>2. Sound(Here)
      BY <2>2, <3>1, SoundHere DEF EngineInv
    <3> QED BY <2>2, <2>3, <3>2, LeftSound DEF Consistent, Sound
  <2>moves. Moves(db, v.db) /\ Moves(db, db)
    <3>1. Moves(db, db)
      BY <2>2, MovesSame DEF Consistent, TablesOK
    <3> QED BY <2>3, <2>4, <2>blocks, <3>1, KeptEnds DEF Moves
  <2>6. TablesOK(v.db) /\ TablesOK(db)
    BY <2>2, <2>3, <2>4, <2>5, <2>blocks DEF Consistent, TablesOK
  <2>7. EngineInv' /\ Moves(db, db')
    <3>1. CASE db' = v.db
      BY <2>1, <2>3, <2>moves, <2>6, <3>1, DownStep
    <3>2. CASE db' = db
      BY <2>1, <2>2, <2>moves, <2>6, <3>2, DownStep DEF Consistent
    <3> QED BY <2>1, <3>1, <3>2
  <2> QED BY <2>1, <2>7 DEF WorldInv
<1>10. ASSUME Crash
       PROVE  EngineInv' /\ WorldInv' /\ Moves(db, db')
  <2>1. /\ agent' = [agent EXCEPT !.up = FALSE]
        /\ UNCHANGED <<db, mem, cont, clock, inflight, floor>>
    BY <1>10 DEF Crash
  <2>2. Consistent(Here) /\ Here.db = db
    BY HereNow DEF EngineInv
  <2>3. TablesOK(db) /\ Moves(db, db)
    BY <2>2, MovesSame DEF Consistent, TablesOK
  <2>4. EngineInv' /\ Moves(db, db')
    BY <2>1, <2>2, <2>3, DownStep DEF Consistent
  <2> QED BY <2>1, <2>4 DEF WorldInv
<1>11. ASSUME NEW d \in Steps, StartAgent(d)
       PROVE  EngineInv' /\ WorldInv' /\ Moves(db, db')
  <2>utc. clock.utc + d \in Int
    BY EngineConstants DEF WorldInv
  <2>1. EngineInv' /\ cont'.epoch = 0 /\ Moves(db, db')
    BY <1>11, <2>utc, StartStep
  <2>2. floor' = 0 /\ clock' \in [utc : Int, mono : Int]
    BY <1>11, EngineConstants DEF StartAgent, After, WorldInv
  <2> QED BY <2>1, <2>2 DEF WorldInv
<1>12. ASSUME UNCHANGED vars
       PROVE  EngineInv' /\ WorldInv' /\ Moves(db, db')
  <2>1. UNCHANGED <<db, mem, cont, clock, agent, inflight, floor>>
    BY <1>12 DEF vars
  <2>2. EngineInv' /\ Moves(db, db')
    BY <1>1, <2>1, QuietStep DEF Counters
  <2> QED BY <2>1, <2>2 DEF WorldInv
<1> QED BY <1>2, <1>3, <1>4, <1>5, <1>6, <1>7, <1>8, <1>9, <1>10, <1>11, <1>12 DEF Next

-----------------------------------------------------------------------------
(* EngineInv is an invariant of the engine.                                *)
THEOREM SpecEngineInv == Spec => [](EngineInv /\ WorldInv)
<1>1. EngineInv /\ WorldInv /\ [Next]_vars => (EngineInv /\ WorldInv)'
  BY EngineStep
<1> QED BY InitHolds, <1>1, PTL DEF Spec

(* The engine's memory, the counters and the open rows keep their types:   *)
(* the memory names a gap the schema knows, the Writer's epoch is never    *)
(* ahead of the shared one, no segment ends before it starts, and no table *)
(* ever has two open rows - whatever commits, fails or is retried.         *)
THEOREM SpecEngineTypeOK == Spec => []EngineTypeOK
<1>1. EngineInv /\ WorldInv => EngineTypeOK
  <2> SUFFICES ASSUME EngineInv, WorldInv PROVE EngineTypeOK
    OBVIOUS
  <2>1. /\ Typed(Here) /\ SeenOK(Here) /\ TablesOK(Here.db)
        /\ Here.db = db /\ Here.mem = mem /\ Here.cont = cont
    BY HereNow DEF EngineInv, Consistent
  <2>2. /\ mem.gap \in Lifecycle \cup DataEvents \cup {"none", "agent_restart"}
        /\ mem.idleSum \in Nat /\ mem.idleStart \in Int /\ mem.seen <= cont.epoch
        /\ cont \in [epoch : Nat, capture : Nat, writer : Nat]
    BY <2>1 DEF Typed, GapsTyped, GapNames, IdleTyped, RestTyped, SeenOK, Counters
  <2>3. /\ \A i \in DOMAIN db.segs : db.segs[i].start <= db.segs[i].end
        /\ \A rows \in {db.segs, db.blocks, db.gaps} : Cardinality(OpenRows(rows)) <= 1
    BY <2>1, OneOpenCounts DEF TablesOK, SegTimes
  <2> QED BY <2>2, <2>3 DEF EngineTypeOK, EngineInv, WorldInv
<1> QED BY <1>1, SpecEngineInv, PTL

(* While the Writer serves without a fault, the engine's memory is exactly *)
(* what is open in the database: the segment, the Work Block and the gap,  *)
(* with the fields it goes on to write - so the engine may decide without  *)
(* reading the rows again (activity.rs:91), through every rollback, retry, *)
(* gap, clock change, crash and recovery.                                  *)
THEOREM SpecMirrorMatchesDatabase == Spec => []MirrorMatchesDatabase
<1>1. EngineInv => MirrorMatchesDatabase
  BY HereNow DEF EngineInv, Mirrors, SegMirror, WorkMirror, GapMirror, MirrorMatchesDatabase
<1> QED BY <1>1, SpecEngineInv, PTL

(* No step lengthens a segment except by the time between two samples that *)
(* follow each other in the database, taken by the segment's own runtime,  *)
(* both showing its application in its state, no further apart than the    *)
(* gap cap, with no gap open: no time is counted across a gap, a restart,  *)
(* a masked sample or a changed clock (doc 09 section 6.4, 6.5).           *)
THEOREM SpecAttributedTimeWasSampled == Spec => AttributedTimeWasSampled
<1>1. EngineInv /\ WorldInv /\ [Next]_vars => [Sampled(db, db')]_vars
  BY EngineStep DEF Moves
<1>2. Spec => [][Sampled(db, db')]_vars
  BY <1>1, SpecEngineInv, PTL DEF Spec
<1> QED BY <1>2, PTL DEF AttributedTimeWasSampled, Sampled

(* A bucket that holds the usage of its segments tells their ticks.        *)
LEMMA UsageTells ==
  ASSUME Segments(db.segs), NEW lo \in Int, NEW hi \in Int, lo < hi,
         NEW bucket, bucket = Usage(db.segs, lo, hi)
  PROVE  Tells(bucket, lo, hi)
<1>1. ASSUME NEW a \in Apps, NEW st
      PROVE  Total(db.segs, HitsIn(db.segs, a, st, lo, hi), lo, hi) = TicksIn(a, st, lo, hi)
  <2> DEFINE S == HitsIn(db.segs, a, st, lo, hi)
             ticks == {it \in (DOMAIN db.segs) \X (lo .. hi - 1) :
                         /\ db.segs[it[1]].app = a /\ db.segs[it[1]].state = st
                         /\ db.segs[it[1]].start <= it[2] /\ it[2] < db.segs[it[1]].end}
  <2>1. Total(db.segs, S, lo, hi) = Cardinality(TicksOf(db.segs, S, lo, hi))
    BY HitsTotal
  <2>2. ASSUME NEW it \in ticks
        PROVE  it \in TicksOf(db.segs, S, lo, hi)
    <3>1. /\ it[1] \in DOMAIN db.segs /\ it[2] \in lo .. hi - 1
          /\ it \in (DOMAIN db.segs) \X (lo .. hi - 1)
      OBVIOUS
    <3>2. IsSegment(db.segs[it[1]])
      BY <3>1 DEF Segments
    <3>3. Meets(db.segs[it[1]], lo, hi)
      BY <3>1, <3>2 DEF Meets, IsSegment
    <3>4. it[1] \in S /\ it = <<it[1], it[2]>>
      BY <3>1, <3>3 DEF HitsIn, Hits
    <3> QED BY <3>1, <3>4 DEF TicksOf
  <2>3. ASSUME NEW it \in TicksOf(db.segs, S, lo, hi)
        PROVE  it \in ticks
    BY DEF TicksOf, HitsIn, Hits
  <2>4. TicksOf(db.segs, S, lo, hi) = ticks
    <3>1. ticks \subseteq TicksOf(db.segs, S, lo, hi)
      BY <2>2
    <3>2. TicksOf(db.segs, S, lo, hi) \subseteq ticks
      BY <2>3
    <3> QED BY <3>1, <3>2
  <2>5. TicksIn(a, st, lo, hi) = Cardinality(ticks)
    BY DEF TicksIn
  <2> HIDE DEF ticks, S
  <2>6. Total(db.segs, S, lo, hi) = TicksIn(a, st, lo, hi)
    BY <2>1, <2>4, <2>5, Zenon
  <2> QED BY <2>6 DEF S
<1>2. \A a \in Apps :
        /\ bucket[a].active = Total(db.segs, HitsIn(db.segs, a, "active", lo, hi), lo, hi)
        /\ bucket[a].idle = Total(db.segs, HitsIn(db.segs, a, "idle", lo, hi), lo, hi)
        /\ bucket[a].unknown = Total(db.segs, HitsIn(db.segs, a, "unknown", lo, hi), lo, hi)
  BY UsageByHits
<1> QED BY <1>1, <1>2 DEF Tells

(* The tables of usage are never stale: only the hours and the two dates a *)
(* transaction touched are rebuilt, and still every hour and every date    *)
(* holds, for every application and state, exactly the ticks the segments  *)
(* cover in it - also when a sample opens a segment, moves its end into    *)
(* another hour or another day, or the time is lost to a gap.              *)
THEOREM SpecUsageIsFresh == Spec => []UsageIsFresh
<1>1. EngineInv => UsageIsFresh
  <2> SUFFICES ASSUME EngineInv PROVE UsageIsFresh
    OBVIOUS
  <2>1. Segments(db.segs) /\ Fresh(db)
    BY HereNow DEF EngineInv, Consistent, Typed, SegsTyped, TablesOK
  <2>2. ASSUME NEW h \in Hours
        PROVE  Tells(db.hourly[h], h * HourTicks, (h + 1) * HourTicks)
    <3>1. db.hourly[h] = Usage(db.segs, h * HourTicks, (h + 1) * HourTicks)
      BY <2>1 DEF Fresh, HourUsage
    <3> QED BY <2>1, <3>1, BucketBounds, UsageTells
  <2>3. ASSUME NEW d \in Dates
        PROVE  Tells(db.daily[d], DayStart(d), DayEnd(d))
    <3>1. db.daily[d] = Usage(db.segs, DayStart(d), DayEnd(d))
      BY <2>1 DEF Fresh, DateUsage
    <3> QED BY <2>1, <3>1, BucketBounds, UsageTells
  <2> QED BY <2>2, <2>3 DEF UsageIsFresh
<1> QED BY <1>1, SpecEngineInv, PTL

(* Every Work Block, open or closed, counts in `active` exactly the length *)
(* of the active segments from its first to its last, and none of them     *)
(* lies outside the block: the engine only ever adds one interval to the   *)
(* memory's total, or the length of a segment it did not count yet, and    *)
(* still nothing is counted twice, skipped or lost when a short idle spell *)
(* is bridged, a block breaks, the application changes within an idle      *)
(* spell, or a gap, a shutdown or a recovery closes the block.             *)
THEOREM SpecBlockSumsItsSegments == Spec => []BlockSumsItsSegments
<1>1. EngineInv => BlockSumsItsSegments
  <2> SUFFICES ASSUME EngineInv, NEW b \in DOMAIN db.blocks
               PROVE  LET row == db.blocks[b]
                          part == ActiveIn(db.segs, row.first, row.last)
                      IN  /\ row.active = Length(db.segs, part)
                          /\ \A i \in part : /\ row.start <= db.segs[i].start
                                             /\ db.segs[i].end <= row.end
    BY DEF BlockSumsItsSegments, ActiveIn, Length
  <2> DEFINE row == db.blocks[b]
             part == ActiveIn(db.segs, row.first, row.last)
  <2>1. Whole(db.segs) /\ AddsUp(row, db.segs)
    BY HereNow DEF EngineInv, Consistent, Typed, SegsTyped, TablesOK, BlocksOK, Whole
  <2> HIDE DEF row
  <2>2. row.first \in Int /\ row.last \in Int /\ 1 <= row.first /\ row.last <= Len(db.segs)
    BY <2>1 DEF AddsUp
  <2>3. IsFiniteSet(part) /\ Timed(db.segs, part)
    BY <2>1, <2>2, ActiveRows
  <2> HIDE DEF part
  <2>4. Length(db.segs, part) = Cardinality(Spans(db.segs, part))
    BY <2>3, LengthCountsSpans
  <2> QED BY <2>1, <2>4 DEF AddsUp, part, row
<1> QED BY <1>1, SpecEngineInv, PTL
=============================================================================
