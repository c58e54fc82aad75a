--------------------------- MODULE LocalMapProofs ---------------------------
(***************************************************************************)
(* Proofs about LocalMap for any number of axes, any odd sizes, any size   *)
(* of a chunk and any values: the ring never puts two cells into one slot, *)
(* and shifts lose nothing.                                                *)
(***************************************************************************)
EXTENDS LocalMap, WellFoundedInduction, TLAPS

-----------------------------------------------------------------------------
(******************************* arithmetic ********************************)

\* A remainder by comparisons, as far as the index needs it
LEMMA SmallRemainder ==
  ASSUME NEW S \in Nat \ {0}, NEW x \in 0 .. 3 * S - 1
  PROVE  x % S = IF x < S THEN x ELSE IF x < 2 * S THEN x - S ELSE x - 2 * S
<1>1. x % S \in 0 .. S - 1 /\ x = S * (x \div S) + (x % S)
  OBVIOUS
<1> DEFINE q == x \div S
<1>2. q \in Int
  OBVIOUS
<1> HIDE DEF q
<1>3. x - S * q \in 0 .. S - 1
  BY <1>1 DEF q
<1>4. q >= 0
  <2>1. SUFFICES ASSUME q <= -1 PROVE FALSE
    BY <1>2
  <2>2. S * q <= -S
    BY <1>2, <2>1
  <2> QED
    BY <1>2, <1>3, <2>2
<1>5. q <= 2
  <2>1. SUFFICES ASSUME q >= 3 PROVE FALSE
    BY <1>2
  <2>2. S * q >= 3 * S
    BY <1>2, <2>1
  <2> QED
    BY <1>2, <1>3, <2>2
<1>6. q = 0 \/ q = 1 \/ q = 2
  BY <1>2, <1>4, <1>5
<1>7. x % S = x - S * q
  BY <1>1 DEF q
<1> QED
  BY <1>3, <1>6, <1>7

\* The index of x on an axis of size S, in a window around c
At(x, c, o, S) == (x - c + o + S) % S

LEMMA AtByComparison ==
  ASSUME NEW h \in Nat, NEW x \in Int, NEW c \in Int, x - c \in -h .. h,
         NEW o \in 0 .. 2 * h, NEW S \in Nat, S = 2 * h + 1
  PROVE  At(x, c, o, S) = IF x - c + o < 0 THEN x - c + o + S
                          ELSE IF x - c + o < S THEN x - c + o ELSE x - c + o - S
<1> DEFINE y == x - c + o + S
<1>1. y \in 0 .. 3 * S - 1 /\ S \in Nat \ {0}
  OBVIOUS
<1>2. y % S = IF y < S THEN y ELSE IF y < 2 * S THEN y - S ELSE y - 2 * S
  <2> HIDE DEF y
  <2> QED
    BY <1>1, SmallRemainder
<1>3. At(x, c, o, S) = y % S
  BY DEF At
<1> HIDE DEF At
<1> QED
  BY <1>2, <1>3

LEMMA AtInjective ==
  ASSUME NEW h \in Nat, NEW x \in Int, NEW y \in Int, NEW c \in Int,
         x - c \in -h .. h, y - c \in -h .. h, NEW o \in 0 .. 2 * h,
         NEW S \in Nat, S = 2 * h + 1, At(x, c, o, S) = At(y, c, o, S)
  PROVE  x = y
<1>1. At(x, c, o, S) = IF x - c + o < 0 THEN x - c + o + S
                       ELSE IF x - c + o < S THEN x - c + o ELSE x - c + o - S
  BY AtByComparison
<1>2. At(y, c, o, S) = IF y - c + o < 0 THEN y - c + o + S
                       ELSE IF y - c + o < S THEN y - c + o ELSE y - c + o - S
  BY AtByComparison
<1> QED
  BY <1>1, <1>2

\* Moving the window and its offset by the same distance moves no cell.
LEMMA AtMoved ==
  ASSUME NEW h \in Nat, NEW x \in Int, NEW c \in Int, NEW o \in 0 .. 2 * h,
         NEW S \in Nat, S = 2 * h + 1, NEW d \in -S .. S,
         x - c \in -h .. h, x - (c + d) \in -h .. h
  PROVE  At(x, c + d, (o + d + S) % S, S) = At(x, c, o, S)
<1> DEFINE y == o + d + S
           moved == y % S
<1>1. y \in 0 .. 3 * S - 1 /\ S \in Nat \ {0}
  OBVIOUS
<1>2. moved = IF y < S THEN y ELSE IF y < 2 * S THEN y - S ELSE y - 2 * S
  <2> HIDE DEF y
  <2> QED
    BY <1>1, SmallRemainder
<1> HIDE DEF moved
<1>3. moved = IF o + d < 0 THEN o + d + S ELSE IF o + d < S THEN o + d ELSE o + d - S
  BY <1>2
<1>4. moved \in 0 .. 2 * h /\ c + d \in Int
  BY <1>3
<1>5. At(x, c + d, moved, S) =
         IF x - (c + d) + moved < 0 THEN x - (c + d) + moved + S
         ELSE IF x - (c + d) + moved < S THEN x - (c + d) + moved
         ELSE x - (c + d) + moved - S
  BY <1>4, AtByComparison
<1>6. At(x, c, o, S) = IF x - c + o < 0 THEN x - c + o + S
                       ELSE IF x - c + o < S THEN x - c + o ELSE x - c + o - S
  BY AtByComparison
<1>7. At(x, c + d, moved, S) = At(x, c, o, S)
  BY <1>3, <1>4, <1>5, <1>6
<1> QED
  BY <1>7 DEF moved

-----------------------------------------------------------------------------
(***************************** save_load_area ******************************)

\* The loops over chunks, with a first and a last delta, visit every position
\* from the first one to the last one, and no other: a border of a chunk is
\* neither left out nor passed.
LEMMA VisitedIsInterval ==
  ASSUME NEW from \in Int, NEW to \in Int
  PROVE  Visited(from, to) = from .. to
<1> DEFINE C == ChunkSize
<1>0. C \in Nat \ {0}
  BY ChunkSizeAssumption
<1> HIDE DEF C
<1>1. ASSUME NEW x \in Int
      PROVE  /\ x \div C \in Int /\ x % C \in 0 .. C - 1
             /\ x = (x \div C) * C + (x % C)
  BY <1>0
<1>2. ASSUME NEW c \in Int, NEW e \in Int, c < e
      PROVE  c * C + C <= e * C /\ c * C \in Int /\ e * C \in Int
  <2>1. c + 1 <= e
    BY <1>2
  <2>2. (e - (c + 1)) * C >= 0
    BY <1>0, <2>1
  <2> QED
    BY <1>0, <2>2
<1> DEFINE f == from \div C
           t == to \div C
           first(c) == IF c = f THEN from % C ELSE 0
           last(c) == IF c = t THEN to % C ELSE C - 1
<1>3. Visited(from, to) = UNION {{c * C + d : d \in first(c) .. last(c)} : c \in f .. t}
  BY DEF Visited, C
<1>4. f \in Int /\ t \in Int /\ from % C \in 0 .. C - 1 /\ to % C \in 0 .. C - 1
      /\ from = f * C + (from % C) /\ to = t * C + (to % C)
  BY <1>1
<1> HIDE DEF f, t
<1>5. ASSUME NEW c \in f .. t, NEW d \in first(c) .. last(c)
      PROVE  c * C + d \in from .. to
  <2>1. c \in Int /\ d \in Int /\ d >= 0 /\ d <= C - 1 /\ c * C \in Int /\ f * C \in Int /\ t * C \in Int
    BY <1>0, <1>4
  <2>2. c * C + d >= from
    <3>1. CASE c = f
      BY <1>0, <1>4, <2>1, <3>1
    <3>2. CASE f < c
      <4>1. f * C + C <= c * C
        BY <1>2, <1>4, <2>1, <3>2
      <4> QED
        BY <1>0, <1>4, <2>1, <4>1
    <3> QED
      BY <1>4, <3>1, <3>2
  <2>3. c * C + d <= to
    <3>1. CASE c = t
      BY <1>0, <1>4, <2>1, <3>1
    <3>2. CASE c < t
      <4>1. c * C + C <= t * C
        BY <1>2, <1>4, <2>1, <3>2
      <4> QED
        BY <1>0, <1>4, <2>1, <4>1
    <3> QED
      BY <1>4, <3>1, <3>2
  <2> QED
    BY <2>1, <2>2, <2>3
<1>6. ASSUME NEW x \in from .. to
      PROVE  \E c \in f .. t : \E d \in first(c) .. last(c) : x = c * C + d
  <2> DEFINE c == x \div C
             d == x % C
  <2>1. x \in Int /\ c \in Int /\ d \in 0 .. C - 1 /\ x = c * C + d
    BY <1>1
  <2> HIDE DEF c, d
  <2>2. f * C \in Int /\ t * C \in Int /\ c * C \in Int
    BY <1>0, <1>4, <2>1
  <2>3. f <= c
    <3> SUFFICES ASSUME c < f PROVE FALSE
      BY <1>4, <2>1
    <3>1. c * C + C <= f * C
      BY <1>2, <1>4, <2>1
    <3> QED
      BY <1>0, <1>4, <2>1, <2>2, <3>1
  <2>4. c <= t
    <3> SUFFICES ASSUME t < c PROVE FALSE
      BY <1>4, <2>1
    <3>1. t * C + C <= c * C
      BY <1>2, <1>4, <2>1
    <3> QED
      BY <1>0, <1>4, <2>1, <2>2, <3>1
  <2>5. d \in first(c) .. last(c)
    <3>1. c = f => d >= from % C
      BY <1>0, <1>4, <2>1, <2>2
    <3>2. c = t => d <= to % C
      BY <1>0, <1>4, <2>1, <2>2
    <3> QED
      BY <1>0, <1>4, <2>1, <3>1, <3>2
  <2> QED
    BY <1>4, <2>1, <2>3, <2>4, <2>5
<1> HIDE DEF first, last
<1>7. ASSUME NEW x
      PROVE  x \in Visited(from, to) <=>
                \E c \in f .. t : \E d \in first(c) .. last(c) : x = c * C + d
  BY <1>3
<1>8. ASSUME NEW x, x \in Visited(from, to)
      PROVE  x \in from .. to
  <2>1. PICK c \in f .. t : \E d \in first(c) .. last(c) : x = c * C + d
    BY <1>7, <1>8
  <2>2. PICK d \in first(c) .. last(c) : x = c * C + d
    BY <2>1
  <2>3. c * C + d \in from .. to
    BY <1>5
  <2> QED
    BY <2>2, <2>3
<1>9. ASSUME NEW x, x \in from .. to
      PROVE  x \in Visited(from, to)
  <2>1. \E c \in f .. t : \E d \in first(c) .. last(c) : x = c * C + d
    BY <1>6, <1>9
  <2> QED
    BY <1>7, <2>1
<1> QED
  BY <1>8, <1>9

-----------------------------------------------------------------------------
(**************************** the size of things ***************************)

\* A set of natural numbers has a least one.
LEMMA Least ==
  ASSUME NEW T \in SUBSET Nat, T # {}
  PROVE  \E x \in T : \A y \in T : x <= y
<1> DEFINE R == OpToRel(<, Nat)
<1>1. IsWellFoundedOn(R, Nat)
  BY NatLessThanWellFounded
<1>2. \A x, y \in Nat : <<x, y>> \in R <=> x < y
  BY DEF OpToRel
<1> HIDE DEF R
<1>3. PICK x \in T : \A y \in T : <<y, x>> \notin R
  BY <1>1, WFMin
<1>4. ASSUME NEW y \in T
      PROVE  x <= y
  <2>1. x \in Nat /\ y \in Nat
    OBVIOUS
  <2>2. ~ (y < x)
    BY <1>2, <1>3, <2>1
  <2> QED
    BY <2>1, <2>2
<1> QED
  BY <1>4

\* Half is what the window reaches on both sides of its centre.
LEMMA Sizes ==
  ASSUME NEW a \in Axes
  PROVE  Half[a] \in Nat /\ Size[a] \in Nat /\ Size[a] = 2 * Half[a] + 1
<1>1. Size[a] \in Nat /\ Size[a] % 2 = 1
  BY SizeAssumption
<1>2. Half[a] = Size[a] \div 2
  BY DEF Half
<1> QED
  BY <1>1, <1>2

\* The axes are finitely many: one of them is the widest.
LEMMA OneIsWidest ==
  \E m \in Axes : \A a \in Axes : Size[a] <= Size[m]
<1> DEFINE Covers(n, m) == \A a \in Axes : a <= n => Size[a] <= Size[m]
           T == {n \in Nat : n <= NumAxes /\ ~ \E m \in Axes : Covers(n, m)}
<1>1. SUFFICES T = {}
  <2>1. ~ (NumAxes \in T) /\ NumAxes \in Nat
    BY <1>1, NumAxesAssumption
  <2>2. PICK m \in Axes : Covers(NumAxes, m)
    BY <2>1
  <2> QED
    BY <2>2, NumAxesAssumption DEF Axes
<1>2. SUFFICES ASSUME T # {} PROVE FALSE
  OBVIOUS
<1>3. PICK n \in T : \A k \in T : n <= k
  BY <1>2, Least
<1>4. n \in Nat /\ n <= NumAxes /\ 1 \in Axes
  BY <1>3, NumAxesAssumption DEF Axes
<1>5. n # 0
  <2>1. Covers(0, 1)
    BY DEF Axes
  <2> QED
    BY <1>3, <1>4, <2>1
<1>6. n - 1 \in Nat /\ n - 1 <= NumAxes /\ n \in Axes
  BY <1>4, <1>5, NumAxesAssumption DEF Axes
<1>7. PICK m \in Axes : Covers(n - 1, m)
  BY <1>3, <1>4, <1>6
<1>8. \A a \in Axes : Size[a] \in Nat
  BY Sizes
<1>9. \A a \in Axes : a <= n => a = n \/ a <= n - 1
  BY <1>4 DEF Axes
<1>10. Covers(n, m) \/ Covers(n, n)
  BY <1>6, <1>7, <1>8, <1>9
<1> QED
  BY <1>3, <1>6, <1>10

LEMMA WidestIsWidest ==
  Widest \in Nat /\ \A a \in Axes : Size[a] <= Widest
<1> DEFINE T == {Size[a] : a \in Axes}
<1>1. \E m \in T : \A n \in T : n <= m
  BY OneIsWidest
<1>2. Widest \in T /\ \A n \in T : n <= Widest
  BY <1>1 DEF Widest, Most
<1> QED
  BY <1>2, Sizes

\* The cells the window can reach, and the slots of the array, axis by axis
LEMMA CellsByAxis ==
  Cells = {p \in [Axes -> Int] : \A a \in Axes : /\ -(Reach + Half[a]) <= p[a]
                                                /\ p[a] <= Reach + Half[a]}
<1>1. \A a \in Axes : Half[a] \in Nat /\ Half[a] <= Widest
  BY Sizes, WidestIsWidest
<1>2. Widest \in Nat /\ Reach \in Nat
  BY WidestIsWidest, ReachAssumption
<1>3. ASSUME NEW p, p \in Cells
      PROVE  p \in [Axes -> Int] /\ \A a \in Axes : -(Reach + Half[a]) <= p[a] /\ p[a] <= Reach + Half[a]
  BY <1>1, <1>2, <1>3 DEF Cells
<1>4. ASSUME NEW p \in [Axes -> Int],
             \A a \in Axes : -(Reach + Half[a]) <= p[a] /\ p[a] <= Reach + Half[a]
      PROVE  p \in Cells
  <2>1. ASSUME NEW a \in Axes
        PROVE  /\ p[a] \in -(Reach + Half[a]) .. Reach + Half[a]
               /\ p[a] \in -(Reach + Widest) .. Reach + Widest
    BY <1>1, <1>2, <1>4
  <2> QED
    BY <2>1 DEF Cells
<1> QED
  BY <1>3, <1>4

LEMMA SlotsByAxis ==
  Slots = {i \in [Axes -> Int] : \A a \in Axes : 0 <= i[a] /\ i[a] < Size[a]}
<1>1. \A a \in Axes : Size[a] \in Nat /\ Size[a] <= Widest
  BY Sizes, WidestIsWidest
<1>2. Widest \in Nat
  BY WidestIsWidest
<1>3. ASSUME NEW i, i \in Slots
      PROVE  i \in [Axes -> Int] /\ \A a \in Axes : 0 <= i[a] /\ i[a] < Size[a]
  BY <1>1, <1>2, <1>3 DEF Slots
<1>4. ASSUME NEW i \in [Axes -> Int], \A a \in Axes : 0 <= i[a] /\ i[a] < Size[a]
      PROVE  i \in Slots
  <2>1. ASSUME NEW a \in Axes
        PROVE  i[a] \in 0 .. Widest - 1 /\ i[a] < Size[a]
    BY <1>1, <1>2, <1>4
  <2> QED
    BY <2>1 DEF Slots
<1> QED
  BY <1>3, <1>4

-----------------------------------------------------------------------------
(******************************** the window *******************************)

\* The cells of the window around a centre
In(p, centre) == \A a \in Axes : /\ centre[a] - Half[a] <= p[a]
                                 /\ p[a] <= centre[a] + Half[a]

LEMMA AroundIsIn ==
  ASSUME NEW p \in Cells, NEW centre \in Centres
  PROVE  (\A a \in Axes : Abs(p[a] - centre[a]) <= Half[a]) <=> In(p, centre)
<1>1. ASSUME NEW a \in Axes
      PROVE  Abs(p[a] - centre[a]) <= Half[a] <=>
                  centre[a] - Half[a] <= p[a] /\ p[a] <= centre[a] + Half[a]
  <2>1. centre[a] \in Int /\ p[a] \in Int /\ Half[a] \in Nat
    BY CellsByAxis, Sizes, ReachAssumption DEF Centres
  <2> QED
    BY <2>1 DEF Abs
<1> QED
  BY <1>1 DEF In

\* Wherever the centre is, an area between two corners is what the loops visit.
LEMMA AreaIsBox ==
  ASSUME NEW start \in [Axes -> Int], NEW end \in [Axes -> Int]
  PROVE  Area(start, end) = {p \in Cells : \A a \in Axes : start[a] <= p[a] /\ p[a] <= end[a]}
<1>1. ASSUME NEW a \in Axes
      PROVE  Visited(start[a], end[a]) = start[a] .. end[a] /\ start[a] \in Int /\ end[a] \in Int
  BY VisitedIsInterval
<1>2. \A p \in Cells : \A a \in Axes : p[a] \in Int
  BY CellsByAxis
<1>3. Area(start, end) = {p \in Cells : \A a \in Axes : p[a] \in Visited(start[a], end[a])}
  BY DEF Area
<1>4. ASSUME NEW p \in Cells, NEW a \in Axes
      PROVE  p[a] \in Visited(start[a], end[a]) <=> start[a] <= p[a] /\ p[a] <= end[a]
  BY <1>1, <1>2
<1> QED
  BY <1>3, <1>4

LEMMA IndexByAxis ==
  ASSUME NEW p, NEW centre, NEW off
  PROVE  Index(p, centre, off) = [a \in Axes |-> At(p[a], centre[a], off[a], Size[a])]
BY DEF Index, At

LEMMA OffByAxis ==
  ASSUME NEW off \in Slots, NEW a \in Axes
  PROVE  off[a] \in 0 .. 2 * Half[a]
BY SlotsByAxis, Sizes

LEMMA IndexIsSlot ==
  ASSUME NEW p \in [Axes -> Int], NEW centre \in [Axes -> Int], NEW off \in Slots
  PROVE  Index(p, centre, off) \in Slots
<1>1. ASSUME NEW a \in Axes
      PROVE  At(p[a], centre[a], off[a], Size[a]) \in Int
             /\ 0 <= At(p[a], centre[a], off[a], Size[a])
             /\ At(p[a], centre[a], off[a], Size[a]) < Size[a]
  <2>1. p[a] \in Int /\ centre[a] \in Int /\ off[a] \in Int /\ Size[a] \in Nat /\ Size[a] > 0
    BY OffByAxis, Sizes
  <2> QED
    BY <2>1 DEF At
<1> QED
  BY <1>1, IndexByAxis, SlotsByAxis

\* In a window no two cells share a slot ...
LEMMA IndexInjective ==
  ASSUME NEW p \in [Axes -> Int], NEW q \in [Axes -> Int], NEW centre \in [Axes -> Int],
         NEW off \in Slots, In(p, centre), In(q, centre),
         Index(p, centre, off) = Index(q, centre, off)
  PROVE  p = q
<1>1. ASSUME NEW a \in Axes
      PROVE  p[a] = q[a]
  <2>1. At(p[a], centre[a], off[a], Size[a]) = At(q[a], centre[a], off[a], Size[a])
    BY IndexByAxis
  <2>2. p[a] \in Int /\ q[a] \in Int /\ centre[a] \in Int /\ Half[a] \in Nat
    BY Sizes
  <2>3. p[a] - centre[a] \in -Half[a] .. Half[a] /\ q[a] - centre[a] \in -Half[a] .. Half[a]
    BY <2>2 DEF In
  <2> QED
    BY <2>1, <2>2, <2>3, Sizes, OffByAxis, AtInjective
<1> QED
  BY <1>1

\* ... and a cell that is in the window before and after a shift keeps its slot.
LEMMA IndexMoved ==
  ASSUME NEW p \in [Axes -> Int], NEW centre \in [Axes -> Int], offset \in Slots,
         NEW a \in Axes, NEW diff \in -Size[a] .. Size[a],
         In(p, centre), In(p, [centre EXCEPT ![a] = @ + diff])
  PROVE  Index(p, [centre EXCEPT ![a] = @ + diff], MovedOffset(a, diff)) = Index(p, centre, offset)
<1> DEFINE new == [centre EXCEPT ![a] = @ + diff]
           moved == MovedOffset(a, diff)
<1>1. offset[a] \in 0 .. 2 * Half[a] /\ centre[a] \in Int /\ p[a] \in Int /\ diff \in Int
      /\ Half[a] \in Nat /\ Size[a] \in Nat /\ Size[a] = 2 * Half[a] + 1
  BY OffByAxis, Sizes
<1>2. new[a] = centre[a] + diff /\ \A b \in Axes : b # a => new[b] = centre[b]
  OBVIOUS
<1>3. offset \in [Axes -> Int]
  BY SlotsByAxis
<1>4. moved[a] = (offset[a] + diff + Size[a]) % Size[a] /\ \A b \in Axes : b # a => moved[b] = offset[b]
  BY <1>3 DEF MovedOffset
<1>5. p[a] - centre[a] \in -Half[a] .. Half[a]
  BY <1>1 DEF In
<1>6. p[a] - (centre[a] + diff) \in -Half[a] .. Half[a]
  BY <1>1, <1>2 DEF In
<1> HIDE DEF new, moved
<1>7. At(p[a], new[a], moved[a], Size[a]) = At(p[a], centre[a], offset[a], Size[a])
  <2>1. diff \in -Size[a] .. Size[a]
    OBVIOUS
  <2>2. At(p[a], centre[a] + diff, (offset[a] + diff + Size[a]) % Size[a], Size[a])
          = At(p[a], centre[a], offset[a], Size[a])
    BY <1>1, <1>5, <1>6, <2>1, AtMoved
  <2> QED
    BY <1>2, <1>4, <2>2
<1>8. \A b \in Axes : At(p[b], new[b], moved[b], Size[b]) = At(p[b], centre[b], offset[b], Size[b])
  BY <1>2, <1>4, <1>7
<1>9. Index(p, new, moved) = Index(p, centre, offset)
  BY <1>8, IndexByAxis
<1> QED
  BY <1>9 DEF new, moved

LEMMA MovedOffsetIsSlot ==
  ASSUME offset \in Slots, NEW a \in Axes, NEW diff \in Int
  PROVE  MovedOffset(a, diff) \in Slots
<1>1. offset \in [Axes -> Int] /\ \A b \in Axes : 0 <= offset[b] /\ offset[b] < Size[b]
  BY SlotsByAxis
<1>2. Size[a] \in Nat /\ Size[a] > 0
  BY Sizes
<1>3. (offset[a] + diff + Size[a]) % Size[a] \in 0 .. Size[a] - 1
  BY <1>1, <1>2
<1> DEFINE moved == MovedOffset(a, diff)
<1>4. moved = [offset EXCEPT ![a] = (offset[a] + diff + Size[a]) % Size[a]]
  BY DEF MovedOffset
<1>5. moved \in [Axes -> Int] /\ \A b \in Axes : 0 <= moved[b] /\ moved[b] < Size[b]
  BY <1>1, <1>2, <1>3, <1>4
<1> QED
  BY <1>5, SlotsByAxis

-----------------------------------------------------------------------------
(********************************** shift **********************************)

Moved(centre, a, diff) == [centre EXCEPT ![a] = @ + diff]

\* Being in the window before and after a move differs on the moved axis only.
LEMMA InMoved ==
  ASSUME NEW p \in Cells, NEW centre \in [Axes -> Int], NEW a \in Axes, NEW diff \in Int,
         diff >= -Size[a], diff <= Size[a], diff # 0
  PROVE  /\ In(p, centre) /\ ~ In(p, Moved(centre, a, diff)) <=>
              /\ In(p, centre)
              /\ IF diff > 0 THEN p[a] <= centre[a] - Half[a] + diff - 1
                             ELSE centre[a] + Half[a] + diff + 1 <= p[a]
         /\ In(p, Moved(centre, a, diff)) /\ ~ In(p, centre) <=>
              /\ In(p, Moved(centre, a, diff))
              /\ IF diff > 0 THEN centre[a] + Half[a] + 1 <= p[a]
                             ELSE p[a] <= centre[a] - Half[a] - 1
<1> DEFINE new == Moved(centre, a, diff)
           Ax(b, c) == c[b] - Half[b] <= p[b] /\ p[b] <= c[b] + Half[b]
<1>1. centre[a] \in Int /\ p[a] \in Int /\ Half[a] \in Nat /\ Size[a] = 2 * Half[a] + 1
  BY CellsByAxis, Sizes
<1>2. new[a] = centre[a] + diff /\ \A b \in Axes : b # a => new[b] = centre[b]
  BY DEF Moved
<1> HIDE DEF new
<1>3. \A b \in Axes : b # a => (Ax(b, centre) <=> Ax(b, new))
  BY <1>2
<1>4. /\ Ax(a, centre) <=> centre[a] - Half[a] <= p[a] /\ p[a] <= centre[a] + Half[a]
      /\ Ax(a, new) <=> centre[a] + diff - Half[a] <= p[a] /\ p[a] <= centre[a] + diff + Half[a]
  BY <1>1, <1>2
<1>5. /\ In(p, centre) <=> \A b \in Axes : Ax(b, centre)
      /\ In(p, new) <=> \A b \in Axes : Ax(b, new)
  BY DEF In
<1> HIDE DEF Ax
<1>6. /\ In(p, centre) /\ ~ In(p, new) <=> In(p, centre) /\ ~ Ax(a, new)
      /\ In(p, new) /\ ~ In(p, centre) <=> In(p, new) /\ ~ Ax(a, centre)
      /\ In(p, centre) => Ax(a, centre)
      /\ In(p, new) => Ax(a, new)
  BY <1>3, <1>5
<1>7. /\ In(p, centre) /\ ~ In(p, new) <=>
              /\ In(p, centre)
              /\ IF diff > 0 THEN p[a] <= centre[a] - Half[a] + diff - 1
                             ELSE centre[a] + Half[a] + diff + 1 <= p[a]
  BY <1>1, <1>4, <1>6
<1>8. /\ In(p, new) /\ ~ In(p, centre) <=>
              /\ In(p, new)
              /\ IF diff > 0 THEN centre[a] + Half[a] + 1 <= p[a]
                             ELSE p[a] <= centre[a] - Half[a] - 1
  BY <1>1, <1>4, <1>6
<1> QED
  BY <1>7, <1>8 DEF new

LEMMA Corners ==
  ASSUME NEW centre \in [Axes -> Int]
  PROVE  /\ Low(centre) \in [Axes -> Int] /\ High(centre) \in [Axes -> Int]
         /\ \A a \in Axes : /\ Low(centre)[a] = centre[a] - Half[a]
                            /\ High(centre)[a] = centre[a] + Half[a]
BY Sizes DEF Low, High

\* write_back's area is the window.
LEMMA AllOfWindow ==
  ASSUME NEW centre \in [Axes -> Int]
  PROVE  Area(Low(centre), High(centre)) = {p \in Cells : In(p, centre)}
BY Corners, AreaIsBox DEF In

\* Step 1 saves what leaves the window, all of it and nothing else ...
LEMMA LeavingLeaves ==
  ASSUME pos \in [Axes -> Int], NEW a \in Axes, NEW diff \in Int,
         diff >= -Size[a], diff <= Size[a], diff # 0
  PROVE  Leaving(a, diff) = {p \in Cells : In(p, pos) /\ ~ In(p, Moved(pos, a, diff))}
<1>0. /\ Low(pos) \in [Axes -> Int] /\ High(pos) \in [Axes -> Int]
      /\ \A b \in Axes : /\ Low(pos)[b] = pos[b] - Half[b]
                         /\ High(pos)[b] = pos[b] + Half[b]
      /\ pos[a] \in Int /\ Half[a] \in Nat /\ Size[a] = 2 * Half[a] + 1
      /\ \A p \in Cells : p[a] \in Int
  BY Corners, Sizes, CellsByAxis
<1>1. CASE diff > 0
  <2> DEFINE end == [High(pos) EXCEPT ![a] = Low(pos)[a] + diff - 1]
  <2>1. end \in [Axes -> Int] /\ end[a] = pos[a] - Half[a] + diff - 1
        /\ \A b \in Axes : b # a => end[b] = pos[b] + Half[b]
    BY <1>0
  <2>2. Leaving(a, diff) = Area(Low(pos), end)
    BY <1>1 DEF Leaving
  <2> HIDE DEF end
  <2>3. ASSUME NEW p \in Cells
        PROVE  (\A b \in Axes : Low(pos)[b] <= p[b] /\ p[b] <= end[b]) <=>
                 In(p, pos) /\ p[a] <= pos[a] - Half[a] + diff - 1
    <3>1. end[a] <= pos[a] + Half[a] /\ p[a] \in Int
      BY <1>0, <2>1
    <3>2. ASSUME \A b \in Axes : Low(pos)[b] <= p[b] /\ p[b] <= end[b]
          PROVE  In(p, pos) /\ p[a] <= pos[a] - Half[a] + diff - 1
      <4>1. ASSUME NEW b \in Axes
            PROVE  pos[b] - Half[b] <= p[b] /\ p[b] <= pos[b] + Half[b]
        <5>1. CASE b = a
          BY <1>0, <2>1, <3>1, <3>2, <5>1
        <5>2. CASE b # a
          BY <1>0, <2>1, <3>2, <5>2
        <5> QED
          BY <5>1, <5>2
      <4> QED
        BY <2>1, <3>2, <4>1 DEF In
    <3>3. ASSUME In(p, pos), p[a] <= pos[a] - Half[a] + diff - 1, NEW b \in Axes
          PROVE  Low(pos)[b] <= p[b] /\ p[b] <= end[b]
      BY <1>0, <2>1, <3>3 DEF In
    <3> QED
      BY <3>2, <3>3
  <2>4. Area(Low(pos), end) = {p \in Cells : \A b \in Axes : Low(pos)[b] <= p[b] /\ p[b] <= end[b]}
    BY <1>0, <2>1, AreaIsBox
  <2>5. \A p \in Cells : In(p, pos) /\ ~ In(p, Moved(pos, a, diff)) <=>
                           In(p, pos) /\ p[a] <= pos[a] - Half[a] + diff - 1
    BY <1>1, InMoved
  <2> QED
    BY <2>2, <2>3, <2>4, <2>5
<1>2. CASE ~ (diff > 0)
  <2> DEFINE start == [Low(pos) EXCEPT ![a] = High(pos)[a] + diff + 1]
  <2>1. start \in [Axes -> Int] /\ start[a] = pos[a] + Half[a] + diff + 1
        /\ \A b \in Axes : b # a => start[b] = pos[b] - Half[b]
    BY <1>0
  <2>2. Leaving(a, diff) = Area(start, High(pos))
    BY <1>2 DEF Leaving
  <2> HIDE DEF start
  <2>3. ASSUME NEW p \in Cells
        PROVE  (\A b \in Axes : start[b] <= p[b] /\ p[b] <= High(pos)[b]) <=>
                 In(p, pos) /\ pos[a] + Half[a] + diff + 1 <= p[a]
    <3>1. pos[a] - Half[a] <= start[a] /\ p[a] \in Int
      BY <1>0, <2>1
    <3>2. ASSUME \A b \in Axes : start[b] <= p[b] /\ p[b] <= High(pos)[b]
          PROVE  In(p, pos) /\ pos[a] + Half[a] + diff + 1 <= p[a]
      <4>1. ASSUME NEW b \in Axes
            PROVE  pos[b] - Half[b] <= p[b] /\ p[b] <= pos[b] + Half[b]
        <5>1. CASE b = a
          BY <1>0, <2>1, <3>1, <3>2, <5>1
        <5>2. CASE b # a
          BY <1>0, <2>1, <3>2, <5>2
        <5> QED
          BY <5>1, <5>2
      <4> QED
        BY <2>1, <3>2, <4>1 DEF In
    <3>3. ASSUME In(p, pos), pos[a] + Half[a] + diff + 1 <= p[a], NEW b \in Axes
          PROVE  start[b] <= p[b] /\ p[b] <= High(pos)[b]
      BY <1>0, <2>1, <3>3 DEF In
    <3> QED
      BY <3>2, <3>3
  <2>4. Area(start, High(pos)) = {p \in Cells : \A b \in Axes : start[b] <= p[b] /\ p[b] <= High(pos)[b]}
    BY <1>0, <2>1, AreaIsBox
  <2>5. \A p \in Cells : In(p, pos) /\ ~ In(p, Moved(pos, a, diff)) <=>
                           In(p, pos) /\ pos[a] + Half[a] + diff + 1 <= p[a]
    BY <1>2, InMoved
  <2> QED
    BY <2>2, <2>3, <2>4, <2>5
<1> QED
  BY <1>1, <1>2

\* ... and step 3 loads what enters it.
LEMMA EnteringEnters ==
  ASSUME pos \in [Axes -> Int], NEW a \in Axes, NEW diff \in Int,
         diff >= -Size[a], diff <= Size[a], diff # 0
  PROVE  Entering(a, diff, Moved(pos, a, diff)) =
            {p \in Cells : In(p, Moved(pos, a, diff)) /\ ~ In(p, pos)}
<1> DEFINE new == Moved(pos, a, diff)
<1>1. new \in [Axes -> Int] /\ new[a] = pos[a] + diff
  BY DEF Moved
<1> HIDE DEF new
<1>2. /\ Low(new) \in [Axes -> Int] /\ High(new) \in [Axes -> Int]
      /\ \A b \in Axes : /\ Low(new)[b] = new[b] - Half[b]
                         /\ High(new)[b] = new[b] + Half[b]
      /\ pos[a] \in Int /\ Half[a] \in Nat /\ Size[a] = 2 * Half[a] + 1
      /\ \A p \in Cells : p[a] \in Int
  BY <1>1, Corners, Sizes, CellsByAxis
<1>3. CASE diff > 0
  <2> DEFINE start == [Low(new) EXCEPT ![a] = High(new)[a] - (diff - 1)]
  <2>1. start \in [Axes -> Int] /\ start[a] = pos[a] + Half[a] + 1
        /\ \A b \in Axes : b # a => start[b] = new[b] - Half[b]
    BY <1>1, <1>2
  <2>2. Entering(a, diff, new) = Area(start, High(new))
    BY <1>3 DEF Entering
  <2> HIDE DEF start
  <2>3. ASSUME NEW p \in Cells
        PROVE  (\A b \in Axes : start[b] <= p[b] /\ p[b] <= High(new)[b]) <=>
                 In(p, new) /\ pos[a] + Half[a] + 1 <= p[a]
    <3>1. new[a] - Half[a] <= start[a] /\ p[a] \in Int
      BY <1>1, <1>2, <1>3, <2>1
    <3>2. ASSUME \A b \in Axes : start[b] <= p[b] /\ p[b] <= High(new)[b]
          PROVE  In(p, new) /\ pos[a] + Half[a] + 1 <= p[a]
      <4>1. ASSUME NEW b \in Axes
            PROVE  new[b] - Half[b] <= p[b] /\ p[b] <= new[b] + Half[b]
        <5>1. CASE b = a
          BY <1>1, <1>2, <2>1, <3>1, <3>2, <5>1
        <5>2. CASE b # a
          BY <1>2, <2>1, <3>2, <5>2
        <5> QED
          BY <5>1, <5>2
      <4> QED
        BY <2>1, <3>2, <4>1 DEF In
    <3>3. ASSUME In(p, new), pos[a] + Half[a] + 1 <= p[a], NEW b \in Axes
          PROVE  start[b] <= p[b] /\ p[b] <= High(new)[b]
      BY <1>2, <2>1, <3>3 DEF In
    <3> QED
      BY <3>2, <3>3
  <2>4. Area(start, High(new)) = {p \in Cells : \A b \in Axes : start[b] <= p[b] /\ p[b] <= High(new)[b]}
    BY <1>2, <2>1, AreaIsBox
  <2>5. \A p \in Cells : In(p, new) /\ ~ In(p, pos) <=>
                           In(p, new) /\ pos[a] + Half[a] + 1 <= p[a]
    BY <1>3, InMoved DEF new
  <2>6. Entering(a, diff, new) = {p \in Cells : In(p, new) /\ ~ In(p, pos)}
    BY <2>2, <2>3, <2>4, <2>5
  <2> QED
    BY <2>6 DEF new
<1>4. CASE ~ (diff > 0)
  <2> DEFINE end == [High(new) EXCEPT ![a] = Low(new)[a] - diff - 1]
  <2>1. end \in [Axes -> Int] /\ end[a] = pos[a] - Half[a] - 1
        /\ \A b \in Axes : b # a => end[b] = new[b] + Half[b]
    BY <1>1, <1>2
  <2>2. Entering(a, diff, new) = Area(Low(new), end)
    BY <1>4 DEF Entering
  <2> HIDE DEF end
  <2>3. ASSUME NEW p \in Cells
        PROVE  (\A b \in Axes : Low(new)[b] <= p[b] /\ p[b] <= end[b]) <=>
                 In(p, new) /\ p[a] <= pos[a] - Half[a] - 1
    <3>1. end[a] <= new[a] + Half[a] /\ p[a] \in Int
      BY <1>1, <1>2, <1>4, <2>1
    <3>2. ASSUME \A b \in Axes : Low(new)[b] <= p[b] /\ p[b] <= end[b]
          PROVE  In(p, new) /\ p[a] <= pos[a] - Half[a] - 1
      <4>1. ASSUME NEW b \in Axes
            PROVE  new[b] - Half[b] <= p[b] /\ p[b] <= new[b] + Half[b]
        <5>1. CASE b = a
          BY <1>1, <1>2, <2>1, <3>1, <3>2, <5>1
        <5>2. CASE b # a
          BY <1>2, <2>1, <3>2, <5>2
        <5> QED
          BY <5>1, <5>2
      <4> QED
        BY <2>1, <3>2, <4>1 DEF In
    <3>3. ASSUME In(p, new), p[a] <= pos[a] - Half[a] - 1, NEW b \in Axes
          PROVE  Low(new)[b] <= p[b] /\ p[b] <= end[b]
      BY <1>2, <2>1, <3>3 DEF In
    <3> QED
      BY <3>2, <3>3
  <2>4. Area(Low(new), end) = {p \in Cells : \A b \in Axes : Low(new)[b] <= p[b] /\ p[b] <= end[b]}
    BY <1>2, <2>1, AreaIsBox
  <2>5. \A p \in Cells : In(p, new) /\ ~ In(p, pos) <=>
                           In(p, new) /\ p[a] <= pos[a] - Half[a] - 1
    BY <1>4, InMoved DEF new
  <2>6. Entering(a, diff, new) = {p \in Cells : In(p, new) /\ ~ In(p, pos)}
    BY <2>2, <2>3, <2>4, <2>5
  <2> QED
    BY <2>6 DEF new
<1> QED
  BY <1>3, <1>4

-----------------------------------------------------------------------------
(************************** the inductive invariant ************************)

\* A shift in progress has at most the size of the window to go on the axes
\* that it has not reached.
WithinReach ==
    \A a \in Axes : axis # 0 /\ axis <= a => /\ target[a] - pos[a] <= Size[a]
                                             /\ -Size[a] <= target[a] - pos[a]

IInv == TypeOK /\ WithinReach

LEMMA Types ==
  ASSUME TypeOK
  PROVE  /\ pos \in [Axes -> Int] /\ target \in [Axes -> Int] /\ offset \in Slots
         /\ \A a \in Axes : pos[a] \in Int /\ target[a] \in Int
BY ReachAssumption DEF TypeOK, Centres

\* What the world's cell p holds when the window is around centre
Held(p, centre, off, d, g) == IF In(p, centre) THEN d[Index(p, centre, off)] ELSE g[p]

LEMMA WorldIsHeld ==
  /\ TypeOK => World = [p \in Cells |-> Held(p, pos, offset, data, global)]
  /\ TypeOK' => World' = [p \in Cells |-> Held(p, pos', offset', data', global')]
<1>1. ASSUME TypeOK
      PROVE  World = [p \in Cells |-> Held(p, pos, offset, data, global)]
  BY <1>1, AroundIsIn DEF World, Held, TypeOK, InBounds
<1>2. ASSUME TypeOK'
      PROVE  World' = [p \in Cells |-> Held(p, pos', offset', data', global')]
  BY <1>2, AroundIsIn DEF World, Held, TypeOK, InBounds
<1> QED
  BY <1>1, <1>2

\* Saving cells of the window changes no cell of the world ...
LEMMA SavedHeld ==
  ASSUME NEW area \in SUBSET Cells, \A p \in area : In(p, pos), NEW p \in Cells
  PROVE  /\ p \in area => Saved(area)[p] = Held(p, pos, offset, data, global)
         /\ p \notin area => Saved(area)[p] = global[p]
BY DEF Saved, Held

\* ... and loading gives every slot the cell it belongs to.
LEMMA LoadedHeld ==
  ASSUME NEW area \in SUBSET Cells, NEW centre \in [Axes -> Int], NEW off \in Slots, NEW g,
         \A p \in area : In(p, centre), NEW p \in Cells, In(p, centre)
  PROVE  Loaded(area, g, centre, off)[Index(p, centre, off)] =
            IF p \in area THEN g[p] ELSE data[Index(p, centre, off)]
<1> DEFINE i == Index(p, centre, off)
           cells == {q \in area : Index(q, centre, off) = i}
<1>1. p \in [Axes -> Int] /\ \A q \in area : q \in [Axes -> Int]
  BY CellsByAxis
<1>2. i \in Slots
  BY <1>1, IndexIsSlot
<1>3. Loaded(area, g, centre, off)[i] = IF cells = {} THEN data[i] ELSE g[CHOOSE q \in cells : TRUE]
  BY <1>2 DEF Loaded
<1>4. ASSUME NEW q \in cells
      PROVE  q = p
  BY <1>1, IndexInjective
<1>5. CASE p \in area
  <2>1. cells = {p}
    BY <1>4, <1>5
  <2> HIDE DEF cells, i
  <2>2. (CHOOSE q \in cells : TRUE) = p
    BY <2>1
  <2>3. Loaded(area, g, centre, off)[i] = g[p]
    BY <1>3, <2>1, <2>2
  <2> QED
    BY <1>5, <2>3 DEF i
<1>6. CASE p \notin area
  <2>1. cells = {}
    BY <1>4, <1>6
  <2> HIDE DEF cells, i
  <2>2. Loaded(area, g, centre, off)[i] = data[i]
    BY <1>3, <2>1
  <2> QED
    BY <1>6, <2>2 DEF i
<1> QED
  BY <1>5, <1>6

LEMMA SavedType ==
  ASSUME TypeOK, NEW area \in SUBSET Cells
  PROVE  Saved(area) \in [Cells -> Values]
<1>1. ASSUME NEW p \in Cells
      PROVE  (IF p \in area THEN data[Index(p, pos, offset)] ELSE global[p]) \in Values
  <2>1. Index(p, pos, offset) \in Slots
    BY Types, CellsByAxis, IndexIsSlot
  <2> QED
    BY <2>1 DEF TypeOK
<1> QED
  BY <1>1 DEF Saved

LEMMA LoadedType ==
  ASSUME TypeOK, NEW area \in SUBSET Cells, NEW g \in [Cells -> Values], NEW centre, NEW off
  PROVE  Loaded(area, g, centre, off) \in [Slots -> Values]
<1>1. ASSUME NEW i \in Slots, NEW cells \in SUBSET Cells
      PROVE  (IF cells = {} THEN data[i] ELSE g[CHOOSE p \in cells : TRUE]) \in Values
  BY DEF TypeOK
<1> QED
  BY <1>1 DEF Loaded

LEMMA NextAxisOK ==
  ASSUME axis \in 0 .. NumAxes, axis # 0, NextAxis
  PROVE  /\ axis' \in 0 .. NumAxes
         /\ \A a \in Axes : axis' # 0 /\ axis' <= a => axis <= a /\ a # axis
BY NumAxesAssumption DEF NextAxis, Axes

\* One axis of a shift keeps the invariant and every cell of the world.
LEMMA ShiftAxisOK ==
  ASSUME IInv, ShiftAxis
  PROVE  IInv' /\ World' = World /\ ret' = ret
<1> DEFINE diff == target[axis] - pos[axis]
           new == Moved(pos, axis, diff)
           moved == MovedOffset(axis, diff)
           leaving == Leaving(axis, diff)
           entering == Entering(axis, diff, new)
           saved == Saved(leaving)
           loaded == Loaded(entering, saved, new, moved)
<1>0. TypeOK /\ axis \in Axes /\ axis \in 0 .. NumAxes /\ axis # 0
  BY NumAxesAssumption DEF IInv, TypeOK, ShiftAxis, Axes
<1>1. /\ pos \in [Axes -> Int] /\ offset \in Slots /\ data \in [Slots -> Values]
      /\ global \in [Cells -> Values]
      /\ pos[axis] \in Int /\ target[axis] \in Int
  BY <1>0, Types DEF TypeOK
<1>2. diff \in Int /\ diff <= Size[axis] /\ -Size[axis] <= diff /\ diff # 0 /\ diff \in -Size[axis] .. Size[axis]
  <2>1. diff \in Int /\ diff <= Size[axis] /\ -Size[axis] <= diff
    BY <1>0, <1>1 DEF IInv, WithinReach, Axes
  <2>2. diff # 0
    BY DEF ShiftAxis
  <2> QED
    BY <1>0, <2>1, <2>2, Sizes
<1>3. /\ global' = saved /\ pos' = new /\ offset' = moved /\ data' = loaded
      /\ NextAxis /\ target' = target /\ ret' = ret
  BY DEF ShiftAxis, Moved
<1>4. new \in [Axes -> Int] /\ moved \in Slots
  BY <1>0, <1>1, <1>2, MovedOffsetIsSlot DEF Moved
<1>5. /\ leaving = {p \in Cells : In(p, pos) /\ ~ In(p, new)}
      /\ entering = {p \in Cells : In(p, new) /\ ~ In(p, pos)}
  BY <1>0, <1>1, <1>2, LeavingLeaves, EnteringEnters
<1>7. ASSUME NEW p \in Cells, In(p, pos), In(p, new)
      PROVE  Index(p, new, moved) = Index(p, pos, offset)
  BY <1>0, <1>1, <1>2, <1>7, CellsByAxis, IndexMoved DEF Moved
<1>8. new[axis] = target[axis] /\ \A a \in Axes : a # axis => new[a] = pos[a]
  BY <1>0, <1>1 DEF Moved
<1>6. new \in Centres
  <2>1. ASSUME NEW a \in Axes
        PROVE  pos[a] \in -Reach .. Reach /\ target[a] \in -Reach .. Reach
    BY <1>0 DEF TypeOK, Centres
  <2>2. \A a \in Axes : new[a] \in -Reach .. Reach
    BY <1>8, <2>1
  <2> HIDE DEF new
  <2> QED
    BY <1>4, <2>2 DEF Centres
<1> HIDE DEF diff, new, moved, leaving, entering, saved, loaded
<1>9. saved \in [Cells -> Values] /\ loaded \in [Slots -> Values]
  <2>1. saved \in [Cells -> Values]
    BY <1>0, <1>5, SavedType DEF saved
  <2>2. loaded \in [Slots -> Values]
    BY <1>0, <1>5, <2>1, LoadedType DEF loaded
  <2> QED
    BY <2>1, <2>2
<1>10. TypeOK'
  BY <1>0, <1>3, <1>4, <1>6, <1>9, NextAxisOK DEF TypeOK
<1>11. WithinReach'
  <2>1. ASSUME NEW a \in Axes, axis' # 0, axis' <= a
        PROVE  target'[a] - pos'[a] <= Size[a] /\ -Size[a] <= target'[a] - pos'[a]
    <3>1. axis <= a /\ a # axis
      BY <1>0, <1>3, <2>1, NextAxisOK
    <3>2. pos'[a] = pos[a] /\ target'[a] = target[a]
      BY <1>3, <1>8, <3>1
    <3>3. target[a] - pos[a] <= Size[a] /\ -Size[a] <= target[a] - pos[a]
      BY <1>0, <3>1 DEF IInv, WithinReach
    <3> QED
      BY <3>2, <3>3
  <2> QED
    BY <2>1 DEF WithinReach
<1>12. ASSUME NEW p \in Cells
       PROVE  Held(p, new, moved, loaded, saved) = Held(p, pos, offset, data, global)
  <2>1. /\ leaving \in SUBSET Cells /\ \A q \in leaving : In(q, pos)
        /\ entering \in SUBSET Cells /\ \A q \in entering : In(q, new)
    BY <1>5
  <2>2. /\ p \in leaving => saved[p] = Held(p, pos, offset, data, global)
        /\ p \notin leaving => saved[p] = global[p]
    BY <2>1, SavedHeld DEF saved
  <2>3. CASE ~ In(p, new)
    <3>1. Held(p, new, moved, loaded, saved) = saved[p]
      BY <2>3 DEF Held
    <3>2. p \notin leaving => Held(p, pos, offset, data, global) = global[p]
      BY <1>5, <2>3 DEF Held
    <3> QED
      BY <2>2, <3>1, <3>2
  <2>4. CASE In(p, new)
    <3>1. loaded[Index(p, new, moved)] = IF p \in entering THEN saved[p] ELSE data[Index(p, new, moved)]
      BY <1>4, <2>1, <2>4, LoadedHeld DEF loaded
    <3>2. Held(p, new, moved, loaded, saved) = loaded[Index(p, new, moved)]
      BY <2>4 DEF Held
    <3>3. CASE In(p, pos)
      <4>1. p \notin entering
        BY <1>5, <3>3
      <4>2. Held(p, pos, offset, data, global) = data[Index(p, pos, offset)]
        BY <3>3 DEF Held
      <4> QED
        BY <1>7, <2>4, <3>1, <3>2, <3>3, <4>1, <4>2
    <3>4. CASE ~ In(p, pos)
      <4>1. p \in entering /\ p \notin leaving
        BY <1>5, <2>4, <3>4
      <4>2. Held(p, pos, offset, data, global) = global[p]
        BY <3>4 DEF Held
      <4> QED
        BY <2>2, <3>1, <3>2, <4>1, <4>2
    <3> QED
      BY <3>3, <3>4
  <2> QED
    BY <2>3, <2>4
<1>13. World' = World
  <2>1. World = [p \in Cells |-> Held(p, pos, offset, data, global)]
    BY <1>0, WorldIsHeld
  <2>2. World' = [p \in Cells |-> Held(p, pos', offset', data', global')]
    BY <1>10, WorldIsHeld
  <2> QED
    BY <1>3, <1>12, <2>1, <2>2
<1> QED
  BY <1>3, <1>10, <1>11, <1>13 DEF IInv

\* What leaves the window alone leaves the world alone.
LEMMA SameWorld ==
  ASSUME UNCHANGED <<pos, offset, data, global>>
  PROVE  World' = World
BY DEF World, InBounds

LEMMA ShiftOK ==
  ASSUME IInv, NEW new \in Centres, Shift(new)
  PROVE  IInv' /\ World' = World /\ ret' = ret
<1>1. TypeOK'
  BY NumAxesAssumption DEF IInv, TypeOK, Shift
<1>2. ASSUME NEW a \in Axes
      PROVE  new[a] - pos[a] <= Size[a] /\ -Size[a] <= new[a] - pos[a]
  <2>1. Abs(new[a] - pos[a]) <= Size[a]
    BY DEF Shift
  <2>2. new[a] \in Int /\ pos[a] \in Int
    BY Types, ReachAssumption DEF IInv, Centres
  <2> QED
    BY <2>1, <2>2, Sizes DEF Abs
<1>3. WithinReach'
  BY <1>2 DEF WithinReach, Shift
<1>4. World' = World
  BY SameWorld DEF Shift
<1> QED
  BY <1>1, <1>3, <1>4 DEF IInv, Shift

LEMMA SkipAxisOK ==
  ASSUME IInv, SkipAxis
  PROVE  IInv' /\ World' = World /\ ret' = ret
<1>1. axis \in 0 .. NumAxes /\ axis # 0 /\ NextAxis /\ UNCHANGED <<pos, offset, data, global, target, ret>>
  BY DEF IInv, TypeOK, SkipAxis
<1>2. TypeOK'
  BY <1>1, NextAxisOK DEF IInv, TypeOK
<1>3. WithinReach'
  BY <1>1, NextAxisOK DEF IInv, WithinReach
<1>4. World' = World
  BY <1>1, SameWorld
<1> QED
  BY <1>1, <1>2, <1>3, <1>4 DEF IInv

\* The value of a cell in the window is read where the world keeps it.
LEMMA GetOK ==
  ASSUME IInv, NEW p \in Cells, Get(p)
  PROVE  IInv' /\ World' = World /\ ret' = World[p]
<1>1. World' = World
  BY SameWorld DEF Get
<1>2. ret' = World[p]
  BY DEF Get, World
<1>3. Index(p, pos, offset) \in Slots
  BY Types, CellsByAxis, IndexIsSlot DEF IInv
<1>4. IInv'
  BY <1>3 DEF Get, IInv, TypeOK, WithinReach
<1> QED
  BY <1>1, <1>2, <1>4

\* A write changes that cell of the world and no other.
LEMMA SetOK ==
  ASSUME IInv, NEW p \in Cells, NEW v \in Values, Set(p, v)
  PROVE  IInv' /\ World' = [World EXCEPT ![p] = v] /\ ret' = Void
<1>0. TypeOK /\ InBounds(p) /\ data' = [data EXCEPT ![Index(p, pos, offset)] = v]
      /\ UNCHANGED <<pos, offset, global, target, axis>> /\ ret' = Void
  BY DEF IInv, Set
<1>1. Index(p, pos, offset) \in Slots /\ data \in [Slots -> Values]
  BY <1>0, Types, CellsByAxis, IndexIsSlot DEF TypeOK
<1>2. data' \in [Slots -> Values]
  BY <1>0, <1>1
<1>3. TypeOK'
  BY <1>0, <1>2 DEF TypeOK
<1>4. WithinReach'
  BY <1>0 DEF IInv, WithinReach
<1>5. In(p, pos)
  BY <1>0, AroundIsIn DEF InBounds, TypeOK
<1>6. ASSUME NEW q \in Cells
      PROVE  Held(q, pos', offset', data', global') =
               IF q = p THEN v ELSE Held(q, pos, offset, data, global)
  <2>1. CASE ~ In(q, pos)
    BY <1>0, <1>5, <2>1 DEF Held
  <2>2. CASE In(q, pos)
    <3>1. Index(q, pos, offset) = Index(p, pos, offset) => q = p
      BY <1>0, <1>5, <2>2, Types, CellsByAxis, IndexInjective
    <3>2. Index(q, pos, offset) \in Slots
      BY <1>0, Types, CellsByAxis, IndexIsSlot
    <3>3. data'[Index(q, pos, offset)] = IF q = p THEN v ELSE data[Index(q, pos, offset)]
      BY <1>0, <1>1, <3>1, <3>2
    <3> QED
      BY <1>0, <2>2, <3>3 DEF Held
  <2> QED
    BY <2>1, <2>2
<1>7. World' = [q \in Cells |-> IF q = p THEN v ELSE Held(q, pos, offset, data, global)]
  BY <1>3, <1>6, WorldIsHeld
<1>8. World = [q \in Cells |-> Held(q, pos, offset, data, global)]
  BY <1>0, WorldIsHeld
<1>9. World' = [World EXCEPT ![p] = v]
  BY <1>7, <1>8
<1> QED
  BY <1>0, <1>3, <1>4, <1>9 DEF IInv

\* write_back saves the window, all of it, and changes nothing.
LEMMA WriteBackOK ==
  ASSUME IInv, WriteBack
  PROVE  IInv' /\ World' = World /\ ret' = ret /\ global' = World
<1> DEFINE area == {p \in Cells : In(p, pos)}
<1>0. TypeOK /\ UNCHANGED <<pos, offset, data, target, axis, ret>>
  BY DEF IInv, WriteBack
<1>1. global' = Saved(area)
  BY <1>0, Types, AllOfWindow DEF WriteBack
<1>2. area \in SUBSET Cells /\ \A p \in area : In(p, pos)
  OBVIOUS
<1>3. ASSUME NEW p \in Cells
      PROVE  Saved(area)[p] = Held(p, pos, offset, data, global)
  BY <1>2, SavedHeld DEF Held
<1>4. Saved(area) \in [Cells -> Values]
  BY <1>0, <1>2, SavedType
<1> HIDE DEF area
<1>5. TypeOK'
  BY <1>0, <1>1, <1>4 DEF TypeOK
<1>6. WithinReach'
  BY <1>0 DEF IInv, WithinReach
<1>7. World = [p \in Cells |-> Held(p, pos, offset, data, global)]
  BY <1>0, WorldIsHeld
<1>8. global' = World
  <2>1. Saved(area) = [p \in Cells |-> Saved(area)[p]]
    BY <1>4
  <2> QED
    BY <1>1, <1>3, <1>7, <2>1
<1>9. ASSUME NEW p \in Cells
      PROVE  Held(p, pos', offset', data', global') = Held(p, pos, offset, data, global)
  BY <1>0, <1>1, <1>3 DEF Held
<1>10. World' = World
  BY <1>5, <1>7, <1>9, WorldIsHeld
<1> QED
  BY <1>0, <1>5, <1>6, <1>8, <1>10 DEF IInv

LEMMA InitOK == Init => IInv
<1> SUFFICES ASSUME Init PROVE IInv
  OBVIOUS
<1>1. Half \in Slots
  <2>1. \A a \in Axes : Half[a] \in Int /\ 0 <= Half[a] /\ Half[a] < Size[a]
    BY Sizes
  <2>2. Half \in [Axes -> Int]
    BY <2>1 DEF Half
  <2> QED
    BY <2>1, <2>2, SlotsByAxis
<1>2. [a \in Axes |-> 0] \in Centres
  BY ReachAssumption DEF Centres
<1>3. TypeOK
  BY <1>1, <1>2, DefaultAssumption, NumAxesAssumption DEF Init, TypeOK
<1>4. WithinReach
  BY DEF Init, WithinReach
<1> QED
  BY <1>3, <1>4 DEF IInv

LEMMA StepOK == IInv /\ [Next]_vars => IInv'
<1> SUFFICES ASSUME IInv, [Next]_vars PROVE IInv'
  OBVIOUS
<1>1. CASE UNCHANGED vars
  BY <1>1 DEF vars, IInv, TypeOK, WithinReach
<1>2. CASE Next
  <2>1. ASSUME NEW p \in Used, NEW v \in Values, Set(p, v)
        PROVE  IInv'
    BY <2>1, SetOK, UsedAssumption
  <2> QED
    BY <1>2, <2>1, ShiftOK, ShiftAxisOK, SkipAxisOK, GetOK, WriteBackOK DEF Next
<1> QED
  BY <1>1, <1>2

-----------------------------------------------------------------------------
(******************************** theorems *********************************)

\* No two cells of the window share a slot of the ring, whatever the shifts were
\* that moved it, and its offset stays inside the array.
THEOREM OneCellPerSlotAlways == Spec => []OneCellPerSlot
<1>1. IInv => OneCellPerSlot
  <2> SUFFICES ASSUME IInv PROVE OneCellPerSlot
    OBVIOUS
  <2>1. TypeOK
    BY DEF IInv
  <2>2. ASSUME NEW p \in Cells, NEW q \in Cells, InBounds(p), InBounds(q),
               Index(p, pos, offset) = Index(q, pos, offset)
        PROVE  p = q
    <3>1. In(p, pos) /\ In(q, pos)
      BY <2>1, <2>2, AroundIsIn DEF InBounds, TypeOK
    <3> QED
      BY <2>1, <2>2, <3>1, Types, CellsByAxis, IndexInjective
  <2> QED
    BY <2>1, <2>2 DEF OneCellPerSlot
<1> QED
  BY <1>1, InitOK, StepOK, PTL DEF Spec

LEMMA InitRefines == Init => WorldMap!Init
<1> SUFFICES ASSUME Init PROVE WorldMap!Init
  OBVIOUS
<1>1. TypeOK
  BY InitOK DEF IInv
<1>2. ASSUME NEW p \in Cells
      PROVE  Held(p, pos, offset, data, global) = Default
  <2>1. Index(p, pos, offset) \in Slots
    BY <1>1, Types, CellsByAxis, IndexIsSlot
  <2> QED
    BY <2>1 DEF Init, Held
<1>3. World = [p \in Cells |-> Default]
  BY <1>1, <1>2, WorldIsHeld
<1> QED
  BY <1>3 DEF WorldMap!Init, Init

LEMMA StepRefines ==
  ASSUME IInv, [Next]_vars
  PROVE  [WorldMap!Next]_(WorldMap!vars)
<1>1. ASSUME NEW p \in Cells, Get(p)
      PROVE  WorldMap!Read(p)
  BY <1>1, GetOK DEF WorldMap!Read
<1>2. ASSUME NEW p \in Used, NEW v \in Values, Set(p, v)
      PROVE  p \in Cells /\ WorldMap!Write(p, v)
  BY <1>2, SetOK, UsedAssumption DEF WorldMap!Write
<1>3. ASSUME World' = World, ret' = ret
      PROVE  UNCHANGED WorldMap!vars
  BY <1>3 DEF WorldMap!vars
<1>4. CASE UNCHANGED vars
  BY <1>3, <1>4, SameWorld DEF vars
<1> QED
  BY <1>1, <1>2, <1>3, <1>4, ShiftOK, ShiftAxisOK, SkipAxisOK, WriteBackOK
     DEF Next, WorldMap!Next

\* Through shifts in any direction, by any distance up to the size of the window
\* and axis by axis, every cell of the world holds what was written to it last.
THEOREM ShiftsKeepWorld == Spec => ImplementsMemory
<1>1. IInv /\ [Next]_vars => [WorldMap!Next]_(WorldMap!vars)
  BY StepRefines
<1> QED
  BY <1>1, InitOK, StepOK, InitRefines, PTL DEF Spec, ImplementsMemory, WorldMap!Spec

\* After write_back the global map alone holds the world.
THEOREM WriteBackSaves == Spec => WriteBackSavesAll
<1>1. IInv /\ [Next]_vars => [WriteBack => global' = World]_vars
  BY WriteBackOK
<1> QED
  BY <1>1, InitOK, StepOK, PTL DEF Spec, WriteBackSavesAll
=============================================================================
