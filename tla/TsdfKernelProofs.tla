-------------------------- MODULE TsdfKernelProofs --------------------------
(***************************************************************************)
(* Proofs about TsdfKernel for any number of lanes, any map, any constants *)
(* of the fixed-point arithmetic and any scans: what the racing lanes      *)
(* leave was offered, and the synchronisation treats every cell once and   *)
(* moves no value past the new one.                                        *)
(***************************************************************************)
EXTENDS TsdfKernel, FiniteSetTheorems, SequenceTheorems, WellFoundedInduction, TLAPS

-----------------------------------------------------------------------------
(******************************* arithmetic ********************************)

LEMMA Division ==
  ASSUME NEW x \in Int, NEW w \in Nat \ {0}
  PROVE  /\ x \div w \in Int
         /\ w * (x \div w) <= x
         /\ x < w * (x \div w) + w
<1>1. x \div w \in Int /\ (x % w) \in 0 .. w - 1 /\ x = w * (x \div w) + (x % w)
  OBVIOUS
<1>2. PICK q \in Int : q = x \div w
  BY <1>1
<1>3. PICK wq \in Int : wq = w * q
  OBVIOUS
<1>4. PICK r \in 0 .. w - 1 : x = wq + r
  BY <1>1, <1>2, <1>3
<1>5. wq <= x /\ x < wq + w
  BY <1>4
<1> QED
  BY <1>2, <1>3, <1>5

\* A quotient that is rounded down keeps to the bounds of what is divided.
LEMMA DivisionBounds ==
  ASSUME NEW x \in Int, NEW w \in Nat \ {0}, NEW lo \in Int, NEW hi \in Int,
         lo * w <= x, x <= hi * w
  PROVE  x \div w \in lo .. hi
<1>1. PICK q \in Int : q = x \div w
  BY Division
<1>2. w * q <= x /\ x < w * q + w
  BY <1>1, Division
<1>3. q <= hi
  <2> SUFFICES ASSUME q >= hi + 1 PROVE FALSE
    OBVIOUS
  <2>1. w * q >= w * (hi + 1)
    OBVIOUS
  <2>2. w * (hi + 1) = hi * w + w
    OBVIOUS
  <2> QED
    BY <1>2, <2>1, <2>2
<1>4. lo <= q
  <2> SUFFICES ASSUME q + 1 <= lo PROVE FALSE
    OBVIOUS
  <2>1. w * (q + 1) <= w * lo
    OBVIOUS
  <2>2. w * (q + 1) = w * q + w /\ w * lo = lo * w
    OBVIOUS
  <2> QED
    BY <1>2, <2>1, <2>2
<1> QED
  BY <1>1, <1>3, <1>4

LEMMA QuotBounds ==
  ASSUME NEW x \in Int, NEW w \in Nat \ {0}, NEW lo \in Int, NEW hi \in Int,
         lo * w <= x, x <= hi * w
  PROVE  Quot(x, w) \in lo .. hi
<1>1. CASE x >= 0
  <2>1. x \div w \in lo .. hi
    BY DivisionBounds
  <2> QED
    BY <1>1, <2>1 DEF Quot
<1>2. CASE x < 0
  <2>1. (-hi) * w <= -x /\ -x <= (-lo) * w
    <3>1. (-hi) * w = -(hi * w) /\ (-lo) * w = -(lo * w)
      OBVIOUS
    <3> QED
      BY <3>1
  <2>2. PICK m \in Int : m = -x
    OBVIOUS
  <2>3. m \div w \in -hi .. -lo
    BY <2>1, <2>2, DivisionBounds
  <2>4. Quot(x, w) = -(m \div w)
    BY <1>2, <2>2 DEF Quot
  <2>5. PICK q \in -hi .. -lo : q = m \div w
    BY <2>3
  <2> QED
    BY <2>4, <2>5
<1> QED
  BY <1>1, <1>2

LEMMA QuotIsInt ==
  ASSUME NEW x \in Int, NEW w \in Nat \ {0}
  PROVE  Quot(x, w) \in Int /\ (x >= 0 => Quot(x, w) >= 0)
<1>1. x \div w \in Int /\ (-x) \div w \in Int
  BY Division
<1>2. x >= 0 => x \div w >= 0
  <2> SUFFICES ASSUME x >= 0 PROVE x \div w >= 0
    OBVIOUS
  <2>1. PICK q \in Int : q = x \div w
    BY <1>1
  <2>2. x < w * q + w
    BY <2>1, Division
  <2>3. q >= 0
    <3> SUFFICES ASSUME q <= -1 PROVE FALSE
      OBVIOUS
    <3>1. w * q <= -w
      OBVIOUS
    <3> QED
      BY <2>2, <3>1
  <2> QED
    BY <2>1, <2>3
<1> QED
  BY <1>1, <1>2 DEF Quot

\* A mean with positive weights lies between the values.
LEMMA MeanBetween ==
  ASSUME NEW v \in Int, NEW u \in Int, NEW a \in Nat \ {0}, NEW b \in Nat \ {0}
  PROVE  Quot(v * a + u * b, a + b) \in Lower(v, u) .. -Lower(-v, -u)
<1>1. ASSUME NEW lo \in Int, NEW hi \in Int, lo <= v, lo <= u, v <= hi, u <= hi
      PROVE  Quot(v * a + u * b, a + b) \in lo .. hi
  <2>1. lo * a <= v * a /\ lo * b <= u * b /\ v * a <= hi * a /\ u * b <= hi * b
    BY <1>1
  <2>2. lo * (a + b) = lo * a + lo * b /\ hi * (a + b) = hi * a + hi * b
    OBVIOUS
  <2>3. PICK x \in Int : x = v * a + u * b
    OBVIOUS
  <2>4. PICK w \in Nat \ {0} : w = a + b
    OBVIOUS
  <2>5. lo * w <= x /\ x <= hi * w
    BY <2>1, <2>2, <2>3, <2>4
  <2>6. Quot(x, w) \in lo .. hi
    BY <2>5, QuotBounds
  <2> QED
    BY <2>3, <2>4, <2>6
<1>2. CASE v < u
  BY <1>1, <1>2 DEF Lower
<1>3. CASE ~(v < u)
  BY <1>1, <1>3 DEF Lower
<1> QED
  BY <1>2, <1>3

LEMMA Least ==
  ASSUME NEW T \in SUBSET Nat, T # {}
  PROVE  \E x \in T : \A y \in T : x <= y
<1> DEFINE R == OpToRel(<, Nat)
<1>1. IsWellFoundedOn(R, Nat)
  BY NatLessThanWellFounded
<1>2. \A x, y \in Nat : <<x, y>> \in R <=> x < y
  BY DEF OpToRel
<1> HIDE DEF R
<1>3. PICK x \in T : \A y \in T : <<y, x>> \notin R
  BY <1>1, WFMin
<1>4. ASSUME NEW y \in T
      PROVE  x <= y
  <2>1. x \in Nat /\ y \in Nat
    OBVIOUS
  <2>2. ~ (y < x)
    BY <1>2, <1>3, <2>1
  <2> QED
    BY <2>1, <2>2
<1> QED
  BY <1>4

\* The integer square root that Norm chooses exists.
LEMMA NormIsNat ==
  ASSUME NEW p \in Int \X Int
  PROVE  Norm(p) \in Nat /\ (p[1] # 0 => Norm(p) # 0)
<1>1. PICK a \in Nat : a = Abs(p[1])
  BY DEF Abs
<1>2. PICK b \in Nat : b = Abs(p[2])
  BY DEF Abs
<1>3. PICK n \in Nat : n = p[1] * p[1] + p[2] * p[2]
  <2>1. PICK x \in Int : x = p[1]
    OBVIOUS
  <2>2. PICK y \in Int : y = p[2]
    OBVIOUS
  <2>3. x * x \in Nat /\ y * y \in Nat
    OBVIOUS
  <2> QED
    BY <2>1, <2>2, <2>3
<1>4. n = a * a + b * b
  BY <1>1, <1>2, <1>3 DEF Abs
<1> DEFINE T == {r \in Nat : n <= r * r + r}
<1>5. a + b \in T
  <2>1. (a + b) * (a + b) = a * a + b * b + 2 * (a * b) /\ a * b \in Nat
    OBVIOUS
  <2> QED
    BY <1>4, <2>1
<1>6. PICK r \in T : \A s \in T : r <= s
  <2>1. T \in SUBSET Nat /\ T # {}
    BY <1>5
  <2> HIDE DEF T
  <2> QED
    BY <2>1, Least
<1>7. r \in 0 .. a + b /\ n <= r * r + r
  BY <1>5, <1>6
<1>8. r = 0 \/ r * r - r < n
  <2> SUFFICES ASSUME r # 0 PROVE r * r - r < n
    OBVIOUS
  <2>1. r - 1 \in Nat /\ r - 1 \notin T
    BY <1>6, <1>7
  <2>2. ~(n <= (r - 1) * (r - 1) + (r - 1))
    BY <2>1
  <2>3. (r - 1) * (r - 1) + (r - 1) = r * r - r
    BY <1>7
  <2>4. r * r - r \in Int
    BY <1>7
  <2> QED
    BY <2>2, <2>3, <2>4
<1>9. \E s \in 0 .. Abs(p[1]) + Abs(p[2]) : n <= s * s + s /\ (s = 0 \/ s * s - s < n)
  BY <1>1, <1>2, <1>7, <1>8
<1>10. Norm(p) \in 0 .. a + b /\ n <= Norm(p) * Norm(p) + Norm(p)
  BY <1>1, <1>2, <1>3, <1>9 DEF Norm
<1>11. p[1] # 0 => n > 0
  <2> SUFFICES ASSUME p[1] # 0 PROVE n > 0
    OBVIOUS
  <2>1. a > 0
    BY <1>1 DEF Abs
  <2>2. a * a > 0 /\ b * b >= 0
    BY <2>1
  <2> QED
    BY <1>4, <2>2
<1> QED
  BY <1>10, <1>11

-----------------------------------------------------------------------------
(********************************* messages ********************************)

LEMMA Constants ==
  /\ MapResolution \in Nat \ {0} /\ MatrixResolution \in Nat \ {0}
  /\ WeightResolution \in Nat \ {0} /\ Tau \in Nat \ {0} /\ MaxWeight \in Nat \ {0}
  /\ DzPerDistance \in Nat /\ SplitFactor \in Nat \ {0} /\ Radius[1] \in Nat /\ Radius[2] \in Nat
BY ResolutionAssumption, LanesAssumption

Plane == Int \X Int

LEMMA PlaneArithmetic ==
  ASSUME NEW p \in Plane, NEW q \in Plane, NEW n \in Int, NEW w \in Nat \ {0}
  PROVE  /\ Plus(p, q) \in Plane /\ Minus(p, q) \in Plane
         /\ Times(p, n) \in Plane /\ Divide(p, w) \in Plane
<1>1. p[1] \in Int /\ p[2] \in Int /\ q[1] \in Int /\ q[2] \in Int
  BY DEF Plane
<1>2. Plus(p, q) \in Plane /\ Minus(p, q) \in Plane /\ Times(p, n) \in Plane
  BY <1>1 DEF Plus, Minus, Times, Plane
<1>3. Divide(p, w) \in Plane
  <2>1. Quot(p[1], w) \in Int /\ Quot(p[2], w) \in Int
    BY <1>1, QuotIsInt
  <2> QED
    BY <2>1 DEF Divide, Plane
<1> QED
  BY <1>2, <1>3

LEMMA MapCells ==
  ASSUME NEW p \in Plane
  PROVE  ToMap(p) \in Plane /\ ToMm(p) \in Plane /\ Origin \in Plane
<1>1. <<0, 0>> \in Plane /\ <<MapResolution \div 2, MapResolution \div 2>> \in Plane
  BY Constants, Division DEF Plane
<1>2. ASSUME NEW q \in Plane PROVE ToMm(q) \in Plane
  <2>1. PICK t : t = Times(q, MapResolution)
    OBVIOUS
  <2>2. t \in Plane
    BY <2>1, Constants, PlaneArithmetic
  <2> QED
    BY <1>1, <2>1, <2>2, PlaneArithmetic DEF ToMm
<1>3. ToMap(p) \in Plane
  BY Constants, PlaneArithmetic DEF ToMap
<1> QED
  BY <1>1, <1>2, <1>3 DEF Origin

\* What the points of a scan must be for the arithmetic to be defined.
LEMMA PointsOK ==
  ASSUME NEW p \in Points
  PROVE  /\ p \in Plane /\ Direction(p) \in Plane
         /\ Norm(Direction(p)) \in Nat \ {0}
<1>1. PICK s \in Scans : p \in {s[i] : i \in 1 .. Len(s)}
  BY DEF Points
<1>2. PICK i \in 1 .. Len(s) : p = s[i]
  BY <1>1
<1>3. p \in Plane /\ Direction(p)[1] # 0
  <2>1. PICK S : S = {q \in Int \X Int : Direction(q)[1] # 0}
    OBVIOUS
  <2>2. s \in Seq(S)
    BY <2>1, ScansAssumption
  <2>3. p \in S
    BY <1>2, <2>2
  <2> QED
    BY <2>1, <2>3 DEF Plane
<1>4. Direction(p) \in Plane
  BY <1>3, MapCells, PlaneArithmetic DEF Direction
<1>5. PICK d : d = Direction(p)
  OBVIOUS
<1>6. d \in Int \X Int /\ d[1] # 0
  BY <1>3, <1>4, <1>5 DEF Plane
<1>7. Norm(d) \in Nat \ {0}
  BY <1>6, NormIsNat
<1> QED
  BY <1>3, <1>4, <1>5, <1>7

\* A message carries a value within the truncation distance, a weight and at least
\* one cell.
IsMessage(m) ==
    /\ m.value \in -Tau .. Tau
    /\ m.weight \in Nat \ {0}
    /\ Steps(m) \in Nat

LEMMA ValueInRange ==
  ASSUME NEW p \in Points, NEW len \in Int
  PROVE  Value(p, len) \in -Tau .. Tau
<1>1. Proj(p, len) \in Plane
  <2>1. PICK d : d = Direction(p)
    OBVIOUS
  <2>2. PICK w : w = Norm(d)
    OBVIOUS
  <2>3. d \in Plane /\ w \in Nat \ {0}
    BY <2>1, <2>2, PointsOK
  <2>4. PICK t : t = Times(d, len)
    OBVIOUS
  <2>5. t \in Plane
    BY <2>3, <2>4, PlaneArithmetic
  <2>6. PICK q : q = Divide(t, w)
    OBVIOUS
  <2>7. q \in Plane
    BY <2>3, <2>5, <2>6, PlaneArithmetic
  <2>8. Origin \in Plane
    BY PointsOK, MapCells
  <2> QED
    BY <2>1, <2>2, <2>4, <2>6, <2>7, <2>8, PlaneArithmetic DEF Proj
<1>2. PICK c : c = ToMap(Proj(p, len))
  OBVIOUS
<1>3. c \in Plane
  BY <1>1, <1>2, MapCells
<1>4. PICK x : x = Minus(p, ToMm(c))
  OBVIOUS
<1>5. x \in Int \X Int
  BY <1>3, <1>4, PointsOK, MapCells, PlaneArithmetic DEF Plane
<1>6. Norm(x) \in Nat
  BY <1>5, NormIsNat
<1>7. PICK v : v = Capped(Norm(x))
  OBVIOUS
<1>8. v \in 0 .. Tau
  BY <1>6, <1>7, Constants DEF Capped, Lower
<1>9. Value(p, len) \in {v, -v}
  BY <1>2, <1>4, <1>7 DEF Value
<1> QED
  BY <1>8, <1>9, Constants

LEMMA WeightIsNat ==
  ASSUME NEW v \in -Tau .. Tau
  PROVE  Weight(v) \in Nat
<1>1. PICK e \in Int : e = Epsilon /\ 10 * e <= Tau
  <2>1. 10 \in Nat \ {0} /\ Tau \in Int
    BY Constants
  <2> QED
    BY <2>1, Division DEF Epsilon
<1>2. PICK w : w = Tau - e
  OBVIOUS
<1>3. w \in Nat \ {0}
  BY <1>1, <1>2, Constants
<1>4. PICK x : x = WeightResolution * (Tau + v)
  OBVIOUS
<1>5. x \in Nat
  BY <1>4, Constants
<1>6. Quot(x, w) \in Nat
  BY <1>3, <1>5, QuotIsInt
<1> QED
  BY <1>1, <1>2, <1>4, <1>6, Constants DEF Weight

LEMMA MessageSteps ==
  ASSUME NEW p, NEW len \in Nat, Weight(Value(p, len)) # 0
  PROVE  Steps(Message(p, len)) \in Nat
<1>1. PICK deltaZ : deltaZ = (DzPerDistance * len) \div MatrixResolution
  OBVIOUS
<1>2. deltaZ \in Nat
  <2>1. PICK x : x = DzPerDistance * len
    OBVIOUS
  <2>2. x \in Nat
    BY <2>1, Constants
  <2> QED
    BY <1>1, <2>1, <2>2, Constants, QuotIsInt DEF Quot
<1>3. PICK last : last = (deltaZ * 2) \div MapResolution + 1
  OBVIOUS
<1>4. last \in Nat
  <2>1. PICK x : x = deltaZ * 2
    OBVIOUS
  <2>2. x \in Nat
    BY <1>2, <2>1
  <2>3. PICK q : q = x \div MapResolution
    OBVIOUS
  <2>4. q \in Nat
    BY <2>2, <2>3, Constants, QuotIsInt DEF Quot
  <2> QED
    BY <1>3, <2>1, <2>3, <2>4
<1>5. DOMAIN Interpolated(p, len) = 0 .. last
  BY <1>1, <1>3 DEF Interpolated
<1>6. PICK m : m = Message(p, len)
  OBVIOUS
<1>7. DOMAIN m.cells = 0 .. last /\ m.weight # 0
  BY <1>5, <1>6 DEF Message
<1>8. m # NoMessage
  BY <1>7 DEF NoMessage
<1>9. Cardinality(0 .. last) = last + 1
  BY <1>4, FS_Interval
<1> QED
  BY <1>4, <1>6, <1>7, <1>8, <1>9 DEF Steps

\* A ray sends messages only, from the nearest to the farthest.
LEMMA RaysOK ==
  ASSUME NEW p \in Points
  PROVE  /\ DOMAIN Rays[p] \in SUBSET Nat
         /\ \A n \in DOMAIN Rays[p] : IsMessage(Rays[p][n])
<1>1. PICK L : /\ Rays[p] = [len \in L |-> Message(p, len)]
               /\ L \in SUBSET {n \in Int : n >= MapResolution /\ Weight(Value(p, n)) # 0}
  <2>1. Rays[p] = Ray(p)
    BY DEF Rays
  <2> DEFINE end == Lower(Norm(Direction(p)) + Tau, MaxDistance)
             Sent(n) == /\ (n - MapResolution) % (MapResolution \div 2) = 0
                        /\ ToMap(Proj(p, n)) \in Cells
                        /\ Weight(Value(p, n)) # 0
             L == {n \in MapResolution .. end : Sent(n)}
  <2>2. Rays[p] = [len \in L |-> Message(p, len)]
    BY <2>1 DEF Ray
  <2>3. MapResolution \in Int /\ end \in Int
    <3>1. Norm(Direction(p)) \in Nat /\ MaxDistance \in Nat
      BY PointsOK, Constants DEF MaxDistance
    <3> QED
      BY <3>1, Constants DEF Lower
  <2>4. L \in SUBSET {n \in Int : n >= MapResolution /\ Weight(Value(p, n)) # 0}
    <3> HIDE DEF end
    <3> QED
      BY <2>3
  <2> QED
    BY <2>2, <2>4
<1>2. DOMAIN Rays[p] = L /\ L \in SUBSET Nat
  BY <1>1, Constants
<1>3. ASSUME NEW n \in L PROVE IsMessage(Rays[p][n])
  <2>1. n \in Nat /\ n \in Int /\ Weight(Value(p, n)) # 0 /\ Rays[p][n] = Message(p, n)
    BY <1>1, <1>2
  <2>2. Value(p, n) \in -Tau .. Tau
    BY <2>1, ValueInRange
  <2>3. Weight(Value(p, n)) \in Nat \ {0}
    BY <2>1, <2>2, WeightIsNat
  <2>4. Steps(Message(p, n)) \in Nat
    BY <2>1, MessageSteps
  <2>5. Message(p, n).value = Value(p, n) /\ Message(p, n).weight = Weight(Value(p, n))
    BY DEF Message
  <2> QED
    BY <2>1, <2>2, <2>3, <2>4, <2>5 DEF IsMessage
<1> QED
  BY <1>2, <1>3

-----------------------------------------------------------------------------
(************************* the shares of the lanes *************************)

LEMMA ShareOK ==
  ASSUME NEW s \in Scans, NEW l \in Lanes
  PROVE  LanePoints(s, l) \in Seq(Points)
<1>1. Len(s) \in Nat /\ \A i \in 1 .. Len(s) : s[i] \in Points
  <2>1. PICK S : S = {q \in Int \X Int : Direction(q)[1] # 0}
    OBVIOUS
  <2>2. s \in Seq(S)
    BY <2>1, ScansAssumption
  <2> QED
    BY <2>2 DEF Points
<1>2. PICK size : size = Len(s) \div SplitFactor
  OBVIOUS
<1>3. size \in Nat /\ SplitFactor * size <= Len(s)
  BY <1>1, <1>2, Constants, QuotIsInt, Division DEF Quot
<1>4. l \in Nat /\ l + 1 <= SplitFactor
  BY Constants DEF Lanes
<1>5. l * size \in Nat /\ (l + 1) * size \in Nat /\ (l + 1) * size <= SplitFactor * size
  BY <1>3, <1>4, Constants
<1>6. PICK m \in Int : m = l * size + 1 /\ m >= 1
  BY <1>5
<1>7. PICK n \in Int : n = (IF l = SplitFactor - 1 THEN Len(s) ELSE (l + 1) * size) /\ n <= Len(s)
  <2>1. SplitFactor * size \in Int
    BY <1>3, Constants
  <2> QED
    BY <1>1, <1>3, <1>5, <2>1
<1>8. \A i \in m .. n : s[i] \in Points
  BY <1>1, <1>6, <1>7
<1>9. SubSeq(s, m, n) \in Seq(Points)
  BY <1>8, SubSeqProperties
<1> QED
  BY <1>2, <1>6, <1>7, <1>9 DEF LanePoints

LEMMA Ranges ==
  /\ Total \in Nat /\ SyncStep \in Nat \ {0}
  /\ \A l \in Lanes : /\ Start(l) \in Nat /\ End(l) \in Nat
                      /\ Start(l) <= End(l) /\ End(l) <= Total
  /\ \A l, k \in Lanes : l < k => End(l) <= Start(k)
<1>1. Total \in Nat
  BY Constants DEF Total
<1>2. SyncStep \in Nat \ {0}
  <2>1. Total \div SplitFactor \in Nat
    BY <1>1, Constants, QuotIsInt DEF Quot
  <2> QED
    BY <2>1 DEF SyncStep
<1>3. PICK S \in Nat \ {0} : S = SyncStep
  BY <1>2
<1>4. PICK last \in Nat : last = SplitFactor - 1
  BY Constants
<1>5. last * S <= Total
  BY <1>3, <1>4, SizeAssumption
<1>6. \A l \in Lanes : l \in 0 .. last
  BY <1>4 DEF Lanes
<1>7. \A l \in Lanes : Start(l) = l * S /\ End(l) = IF l = last THEN Total ELSE (l + 1) * S
  BY <1>3, <1>4 DEF Start, End
<1>8. \A a, b \in Nat : a <= b => a * S <= b * S /\ a * S \in Nat
  OBVIOUS
<1>9. ASSUME NEW l \in Lanes
      PROVE  /\ Start(l) \in Nat /\ End(l) \in Nat
             /\ Start(l) <= End(l) /\ End(l) <= Total
  <2>1. CASE l = last
    BY <1>1, <1>5, <1>7, <1>8, <2>1
  <2>2. CASE l # last
    <3>1. l \in Nat /\ l + 1 \in Nat /\ l <= l + 1 /\ l + 1 <= last
      BY <1>6, <2>2
    <3>2. PICK a \in Nat : a = l * S
      BY <1>8, <3>1
    <3>3. PICK b \in Nat : b = (l + 1) * S
      BY <1>8, <3>1
    <3>4. PICK c \in Nat : c = last * S
      BY <1>8
    <3>5. a <= b /\ b <= c /\ c <= Total
      BY <1>5, <1>8, <3>1, <3>2, <3>3, <3>4
    <3> QED
      BY <1>1, <1>7, <2>2, <3>2, <3>3, <3>5
  <2> QED
    BY <2>1, <2>2
<1>10. ASSUME NEW l \in Lanes, NEW k \in Lanes, l < k
       PROVE  End(l) <= Start(k)
  <2>1. l \in Nat /\ k \in Nat /\ l # last /\ l + 1 <= k /\ l + 1 \in Nat
    BY <1>6, <1>10
  <2> QED
    BY <1>7, <1>8, <2>1
<1> QED
  BY <1>1, <1>2, <1>9, <1>10

\* The ranges of the lanes meet without a gap ...
LEMMA RangesCover ==
  ASSUME NEW i \in 0 .. Total - 1
  PROVE  \E l \in Lanes : i \in Start(l) .. End(l) - 1
<1>1. PICK S \in Nat \ {0} : S = SyncStep
  BY Ranges
<1>2. PICK last \in Nat : last = SplitFactor - 1 /\ last \in Lanes
  BY Constants DEF Lanes
<1>3. i \in Nat /\ Total \in Nat
  BY Ranges
<1>4. CASE i >= last * S
  <2>1. Start(last) = last * S /\ End(last) = Total
    BY <1>1, <1>2 DEF Start, End
  <2> QED
    BY <1>2, <1>3, <1>4, <2>1
<1>5. CASE i < last * S
  <2>1. PICK l : l = i \div S
    OBVIOUS
  <2>2. l \in Nat /\ S * l <= i /\ i < S * l + S
    BY <1>3, <2>1, QuotIsInt, Division DEF Quot
  <2>3. l < last
    <3> SUFFICES ASSUME last <= l PROVE FALSE
      BY <1>2, <2>2
    <3>1. S * last <= S * l
      BY <2>2
    <3>2. S * last = last * S /\ S * l \in Int
      BY <2>2
    <3> QED
      BY <1>3, <1>5, <2>2, <3>1, <3>2
  <2>4. l \in Lanes /\ l # SplitFactor - 1
    BY <1>2, <2>2, <2>3 DEF Lanes
  <2>5. Start(l) = S * l /\ End(l) = S * l + S
    BY <1>1, <2>2, <2>4 DEF Start, End
  <2>6. S * l \in Int
    BY <2>2
  <2> QED
    BY <1>3, <2>2, <2>4, <2>5, <2>6
<1> QED
  BY <1>3, <1>4, <1>5

\* ... and every cell has its own place in them.
LEMMA FlatIsOneToOne ==
  /\ \A c \in Cells : Flat(c) \in 0 .. Total - 1
  /\ \A c, d \in Cells : Flat(c) = Flat(d) => c = d
  /\ \A i \in 0 .. Total - 1 : CellAt[i] \in Cells /\ Flat(CellAt[i]) = i
<1>1. PICK h \in Nat : h = 2 * Radius[1]
  BY Constants
<1>2. PICK w \in Nat : w = 2 * Radius[2] + 1 /\ w >= 1
  BY Constants
<1>3. Total = (h + 1) * w /\ (h + 1) * w = h * w + w
  BY <1>1, <1>2 DEF Total
<1>4. ASSUME NEW c \in Cells
      PROVE  \E x \in 0 .. h, y \in 0 .. w - 1 :
                /\ x = c[1] + Radius[1] /\ y = c[2] + Radius[2] /\ Flat(c) = x * w + y
                /\ c = <<x - Radius[1], y - Radius[2]>>
  <2>1. /\ c[1] \in -Radius[1] .. Radius[1] /\ c[2] \in -Radius[2] .. Radius[2]
        /\ c = <<c[1], c[2]>>
    BY DEF Cells
  <2>2. PICK x : x = c[1] + Radius[1]
    OBVIOUS
  <2>3. x \in 0 .. h /\ c[1] = x - Radius[1]
    BY <1>1, <2>1, <2>2, Constants
  <2>4. PICK y : y = c[2] + Radius[2]
    OBVIOUS
  <2>5. y \in 0 .. w - 1 /\ c[2] = y - Radius[2]
    BY <1>2, <2>1, <2>4, Constants
  <2>6. PICK xw \in Int : xw = x * w
    BY <2>3
  <2>7. Flat(c) = xw + c[2] + Radius[2]
    BY <1>2, <2>2, <2>6 DEF Flat
  <2>8. Flat(c) = xw + y
    BY <2>1, <2>4, <2>7, Constants
  <2> QED
    BY <2>1, <2>2, <2>3, <2>4, <2>5, <2>6, <2>8
<1>5. ASSUME NEW x \in 0 .. h, NEW y \in 0 .. w - 1
      PROVE  x * w + y \in 0 .. Total - 1
  <2>1. x * w <= h * w /\ x * w \in Nat /\ h * w \in Nat
    OBVIOUS
  <2> QED
    BY <1>3, <2>1
<1>6. ASSUME NEW x \in 0 .. h, NEW y \in 0 .. w - 1, NEW u \in 0 .. h, NEW v \in 0 .. w - 1,
             x * w + y = u * w + v
      PROVE  x = u /\ y = v
  <2>1. ASSUME NEW a \in 0 .. h, NEW b \in 0 .. h, NEW i \in 0 .. w - 1, NEW j \in 0 .. w - 1,
               a < b
        PROVE  a * w + i # b * w + j
    <3>1. (a + 1) * w <= b * w /\ (a + 1) * w = a * w + w /\ a * w \in Int /\ b * w \in Int
      BY <2>1
    <3> QED
      BY <3>1
  <2>2. x = u
    BY <1>6, <2>1
  <2> QED
    BY <1>6, <2>2
<1>7. ASSUME NEW i \in 0 .. Total - 1
      PROVE  \E c \in Cells : Flat(c) = i
  <2>1. PICK x : x = i \div w
    OBVIOUS
  <2>2. Total \in Int /\ i \in Nat /\ w \in Nat \ {0}
    BY <1>2, Ranges
  <2>3. x \in Nat /\ w * x <= i /\ i < w * x + w
    BY <2>1, <2>2, QuotIsInt, Division DEF Quot
  <2>4. x <= h
    <3> SUFFICES ASSUME h + 1 <= x PROVE FALSE
      BY <2>3
    <3>1. w * (h + 1) <= w * x /\ w * (h + 1) = (h + 1) * w /\ w * x \in Int
      BY <2>3
    <3> QED
      BY <1>3, <2>2, <2>3, <3>1
  <2>5. PICK y \in 0 .. w - 1 : i = w * x + y
    <3>1. w * x \in Int
      BY <2>3
    <3>2. i - w * x \in 0 .. w - 1 /\ i = w * x + (i - w * x)
      BY <2>2, <2>3, <3>1
    <3> QED
      BY <3>2
  <2>6. PICK c : c = <<x - Radius[1], y - Radius[2]>>
    OBVIOUS
  <2>7. c \in Cells
    BY <1>1, <1>2, <2>3, <2>4, <2>6, Constants DEF Cells
  <2>8. PICK a \in 0 .. h, b \in 0 .. w - 1 :
           a = c[1] + Radius[1] /\ b = c[2] + Radius[2] /\ Flat(c) = a * w + b
    BY <1>4, <2>7
  <2>9. a = x /\ b = y
    BY <2>3, <2>6, <2>8, Constants
  <2>10. x * w = w * x
    BY <2>3
  <2> QED
    BY <2>5, <2>7, <2>8, <2>9, <2>10
<1>8. \A c \in Cells : Flat(c) \in 0 .. Total - 1
  BY <1>4, <1>5
<1>9. ASSUME NEW c \in Cells, NEW d \in Cells, Flat(c) = Flat(d) PROVE c = d
  <2>1. PICK x \in 0 .. h, y \in 0 .. w - 1 :
           Flat(c) = x * w + y /\ c = <<x - Radius[1], y - Radius[2]>>
    BY <1>4
  <2>2. PICK u \in 0 .. h, v \in 0 .. w - 1 :
           Flat(d) = u * w + v /\ d = <<u - Radius[1], v - Radius[2]>>
    BY <1>4
  <2> QED
    BY <1>6, <1>9, <2>1, <2>2
<1>10. \A i \in 0 .. Total - 1 : CellAt[i] \in Cells /\ Flat(CellAt[i]) = i
  BY <1>7 DEF CellAt
<1> QED
  BY <1>8, <1>9, <1>10

-----------------------------------------------------------------------------
(************************** the inductive invariant ************************)

Offers == [lane : Lanes, value : -Tau .. Tau, measured : BOOLEAN]

Arrays ==
    /\ points \in [Lanes -> Seq(Points)]
    /\ stream = [l \in Lanes |-> stream[l]] /\ msg = [l \in Lanes |-> msg[l]]
    /\ pc \in [Lanes -> {"loop", "write", "end"}] /\ step \in [Lanes -> Nat]

\* A lane works on a message that its rays sent, and is somewhere on its cells.
LaneOK(l) ==
    /\ DOMAIN stream[l] \in SUBSET Nat
    /\ \A n \in DOMAIN stream[l] : IsMessage(stream[l][n])
    /\ (msg[l] = NoMessage /\ step[l] = 1) \/ IsMessage(msg[l])
    /\ step[l] <= Steps(msg[l]) + 1
    /\ pc[l] = "write" => step[l] <= Steps(msg[l])

LanesOK == Arrays /\ \A l \in Lanes : LaneOK(l)

\* What lane l has read was offered, and is what the cell holds unless another lane
\* has offered something.
HasRead(l) ==
    /\ \/ oldEntry[l] = Empty
       \/ oldEntry[l].weight # 0 /\ \E o \in offered[index[l]] : o.value = oldEntry[l].value
    /\ (\A o \in offered[index[l]] : o.lane = l) => oldEntry[l] = entries[index[l]]

EntriesOK ==
    /\ entries \in [Cells -> Entries] /\ offered \in [Cells -> SUBSET Offers]
    /\ oldEntry \in [Lanes -> Entries] /\ index = [l \in Lanes |-> index[l]]
    /\ EntryWasOffered /\ SmallestWinsAlone
    /\ \A l \in Lanes : pc[l] = "write" /\ index[l] \in Cells => HasRead(l)

\* No lane begins to synchronise before all have ended, and every cell is as it was
\* or merged with what is now its entry.
SyncOK ==
    /\ before \in [Cells -> Entries] /\ map \in [Cells -> Entries]
    /\ syncAt \in [Lanes -> Int] /\ \A l \in Lanes : syncAt[l] \in Start(l) .. End(l)
    /\ (\E l \in Lanes : pc[l] # "end") => \A l \in Lanes : syncAt[l] = Start(l)
    /\ \A c \in Cells : map[c] = IF SyncedBy(c) = {} THEN before[c]
                                                    ELSE Synced(before[c], entries[c])

IInv == LanesOK /\ EntriesOK /\ SyncOK

\* A message that was merged with an entry lies between the two and is an entry.
LEMMA SyncedBetween ==
  ASSUME NEW e \in Entries, NEW f \in Entries
  PROVE  /\ Synced(e, f) \in Entries
         /\ Synced(e, f).value \in Lower(e.value, f.value) .. -Lower(-e.value, -f.value)
         /\ e.weight > 0 => Synced(e, f).weight > 0
         /\ e.weight > 0 /\ f.weight <= 0 => Synced(e, f) = e
<1>1. /\ e.value \in -Tau .. Tau /\ f.value \in -Tau .. Tau
      /\ e.weight \in Int /\ f.weight \in Int /\ Tau \in Nat
  BY Constants DEF Entries
<1>2. PICK lo \in Int : lo = Lower(e.value, f.value) /\ lo <= e.value /\ lo <= f.value /\ lo >= -Tau
  BY <1>1 DEF Lower
<1>3. PICK hi \in Int : hi = -Lower(-e.value, -f.value) /\ hi >= e.value /\ hi >= f.value /\ hi <= Tau
  BY <1>1 DEF Lower
<1>4. CASE f.weight > 0 /\ e.weight > 0
  <2>1. PICK w : w = e.weight + f.weight
    OBVIOUS
  <2>2. PICK v : v = Quot(e.value * e.weight + f.value * f.weight, w)
    OBVIOUS
  <2>3. v \in lo .. hi
    <3>1. PICK x \in Int : x = e.value
      BY <1>1
    <3>2. PICK y \in Int : y = f.value
      BY <1>1
    <3>3. PICK a \in Nat \ {0} : a = e.weight
      BY <1>1, <1>4
    <3>4. PICK b \in Nat \ {0} : b = f.weight
      BY <1>1, <1>4
    <3>5. Quot(x * a + y * b, a + b) \in Lower(x, y) .. -Lower(-x, -y)
      BY MeanBetween
    <3> QED
      BY <1>2, <1>3, <2>1, <2>2, <3>1, <3>2, <3>3, <3>4, <3>5
  <2>4. w \in Int /\ w > 0 /\ Lower(w, MaxWeight) \in Int /\ Lower(w, MaxWeight) > 0
    BY <1>1, <1>4, <2>1, Constants DEF Lower
  <2>5. Synced(e, f) = [value |-> v, weight |-> Lower(w, MaxWeight)]
    BY <1>4, <2>1, <2>2 DEF Synced, Mean
  <2> QED
    BY <1>1, <1>2, <1>3, <1>4, <2>3, <2>4, <2>5 DEF Entries
<1>5. CASE ~(f.weight > 0 /\ e.weight > 0) /\ f.weight # 0 /\ e.weight <= 0
  <2>1. Synced(e, f) = f
    BY <1>5 DEF Synced
  <2> QED
    BY <1>1, <1>2, <1>3, <1>5, <2>1
<1>6. CASE ~(f.weight > 0 /\ e.weight > 0) /\ ~(f.weight # 0 /\ e.weight <= 0)
  <2>1. Synced(e, f) = e
    BY <1>6 DEF Synced
  <2> QED
    BY <1>1, <1>2, <1>3, <1>6, <2>1
<1> QED
  BY <1>4, <1>5, <1>6

LEMMA InitIInv == Init => IInv
<1> SUFFICES ASSUME Init PROVE IInv
  OBVIOUS
<1>1. Steps(NoMessage) = 0
  BY DEF Steps
<1>2. LanesOK
  <2>1. points \in [Lanes -> Seq(Points)]
    BY ShareOK DEF Init
  <2>2. \A l \in Lanes : DOMAIN stream[l] = {}
    <3>1. \A q : q = <<>> => DOMAIN q = {}
      OBVIOUS
    <3> QED
      BY <3>1 DEF Init
  <2> QED
    BY <1>1, <2>1, <2>2 DEF Init, LanesOK, Arrays, LaneOK
<1>3. EntriesOK
  <2>1. Empty \in Entries
    BY Constants DEF Empty, Entries
  <2> QED
    BY <2>1 DEF Init, EntriesOK, EntryWasOffered, SmallestWinsAlone
<1>4. SyncOK
  <2>1. PICK e \in Olds : before = [c \in Cells |-> e]
    BY DEF Init
  <2>2. before \in [Cells -> Entries] /\ map = before
    BY <2>1, OldsAssumption DEF Init
  <2>3. /\ syncAt \in [Lanes -> Int]
        /\ \A l \in Lanes : syncAt[l] = Start(l) /\ syncAt[l] \in Start(l) .. End(l)
    BY Ranges DEF Init
  <2>4. \A l \in Lanes : Start(l) .. syncAt[l] - 1 = {}
    <3> TAKE l \in Lanes
    <3>1. Start(l) \in Nat /\ syncAt[l] = Start(l)
      BY <2>3, Ranges
    <3> QED
      BY <3>1
  <2>5. \A c \in Cells : SyncedBy(c) = {}
    BY <2>4 DEF SyncedBy
  <2> QED
    BY <2>2, <2>3, <2>5 DEF SyncOK
<1> QED
  BY <1>2, <1>3, <1>4 DEF IInv

LEMMA IInvImplies == IInv => EntriesAreOffered /\ SyncsEveryCellOnce /\ MapStaysBetween
<1> SUFFICES ASSUME IInv PROVE EntriesAreOffered /\ SyncsEveryCellOnce /\ MapStaysBetween
  OBVIOUS
<1>1. TypeOK
  <2>1. \A l \in Lanes : step[l] \in 0 .. Steps(msg[l]) + 1
    <3> TAKE l \in Lanes
    <3>1. Steps(NoMessage) = 0
      BY DEF Steps
    <3>2. Steps(msg[l]) \in Nat /\ step[l] \in Nat /\ step[l] <= Steps(msg[l]) + 1
      BY <3>1 DEF IInv, LanesOK, Arrays, LaneOK, IsMessage
    <3> QED
      BY <3>2
  <2> QED
    BY <2>1 DEF IInv, LanesOK, Arrays, EntriesOK, SyncOK, TypeOK
<1>2. EntriesAreOffered
  BY <1>1 DEF IInv, EntriesOK, EntriesAreOffered
<1>3. ASSUME Finished, NEW c \in Cells PROVE SyncedBy(c) # {}
  <2>1. PICK l \in Lanes : Flat(c) \in Start(l) .. End(l) - 1
    BY RangesCover, FlatIsOneToOne
  <2>2. syncAt[l] \in Int /\ syncAt[l] >= End(l) /\ Start(l) \in Nat /\ End(l) \in Nat
    BY <1>3, Ranges DEF Finished, IInv, SyncOK
  <2>3. Flat(c) \in Start(l) .. syncAt[l] - 1
    BY <2>1, <2>2
  <2> QED
    BY <2>3 DEF SyncedBy
<1>4. SyncsEveryCellOnce
  BY <1>3 DEF IInv, SyncOK, SyncsEveryCellOnce
<1>5. MapStaysBetween
  <2> SUFFICES ASSUME NEW c \in Cells
               PROVE  /\ map[c].value \in Lower(before[c].value, entries[c].value) ..
                                           -Lower(-before[c].value, -entries[c].value)
                      /\ before[c].weight > 0 => map[c].weight > 0
                      /\ before[c].weight > 0 /\ entries[c].weight <= 0 => map[c] = before[c]
    BY DEF MapStaysBetween
  <2>1. PICK e \in Entries : e = before[c]
    BY DEF IInv, SyncOK
  <2>2. PICK f \in Entries : f = entries[c]
    BY DEF IInv, EntriesOK
  <2>3. map[c] = e \/ map[c] = Synced(e, f)
    BY <2>1, <2>2 DEF IInv, SyncOK
  <2>4. e.value \in Lower(e.value, f.value) .. -Lower(-e.value, -f.value)
    <3>1. e.value \in Int /\ f.value \in Int
      BY Constants DEF Entries
    <3> QED
      BY <3>1 DEF Lower
  <2> QED
    BY <2>1, <2>2, <2>3, <2>4, SyncedBetween
<1> QED
  BY <1>2, <1>4, <1>5

-----------------------------------------------------------------------------
(******************************** the steps ********************************)

\* What the steps that touch no entry leave as it is
LEMMA EntriesKept ==
  ASSUME EntriesOK, UNCHANGED <<entries, offered, oldEntry>>, index' = [l \in Lanes |-> index'[l]],
         \A l \in Lanes : pc'[l] = "write" => pc[l] = "write" /\ index'[l] = index[l]
  PROVE  EntriesOK'
<1>1. EntryWasOffered'
  BY DEF EntriesOK, EntryWasOffered
<1>2. SmallestWinsAlone'
  BY DEF EntriesOK, SmallestWinsAlone
<1>3. ASSUME NEW l \in Lanes, pc'[l] = "write", index'[l] \in Cells PROVE HasRead(l)'
  <2>1. HasRead(l) /\ index'[l] = index[l]
    BY <1>3 DEF EntriesOK
  <2> QED
    BY <2>1 DEF HasRead
<1> QED
  BY <1>1, <1>2, <1>3 DEF EntriesOK

LEMMA SyncKept ==
  ASSUME SyncOK, UNCHANGED <<before, map, syncAt, entries>>,
         (\E l \in Lanes : pc'[l] # "end") => \E l \in Lanes : pc[l] # "end"
  PROVE  SyncOK'
<1>1. \A c \in Cells : SyncedBy(c)' = SyncedBy(c)
  BY DEF SyncedBy
<1> QED
  BY <1>1 DEF SyncOK

\* What a step of lane l leaves of the others
LEMMA OtherLanes ==
  ASSUME LanesOK, NEW l \in Lanes, Arrays',
         \A k \in Lanes \ {l} : UNCHANGED <<stream[k], msg[k], step[k], pc[k]>>,
         LaneOK(l)'
  PROVE  LanesOK'
<1> SUFFICES ASSUME NEW k \in Lanes, k # l PROVE LaneOK(k)'
  BY DEF LanesOK
<1>1. LaneOK(k) /\ UNCHANGED <<stream[k], msg[k], step[k], pc[k]>>
  BY DEF LanesOK
<1> QED
  BY <1>1 DEF LaneOK

LEMMA MarchStep == ASSUME IInv, NEW l \in Lanes, March(l) PROVE IInv'
<1>1. /\ DOMAIN stream[l] = {} /\ points[l] # <<>>
      /\ stream' = [stream EXCEPT ![l] = Rays[Head(points[l])]]
      /\ points' = [points EXCEPT ![l] = Tail(points[l])]
      /\ UNCHANGED <<scan, before, pc, msg, step, index, oldIndex, oldEntry, entries,
                     offered, syncAt, map>>
  BY DEF March
<1>2. points[l] \in Seq(Points)
  BY DEF IInv, LanesOK, Arrays
<1>3. Head(points[l]) \in Points /\ Tail(points[l]) \in Seq(Points)
  BY <1>1, <1>2, HeadTailProperties
<1>4. PICK ray : ray = Rays[Head(points[l])]
  OBVIOUS
<1>5. DOMAIN ray \in SUBSET Nat /\ \A n \in DOMAIN ray : IsMessage(ray[n])
  BY <1>3, <1>4, RaysOK
<1>6. LanesOK'
  <2>1. Arrays
    BY DEF IInv, LanesOK
  <2>2. Arrays'
    BY <1>1, <1>3, <2>1 DEF Arrays
  <2>3. stream'[l] = ray /\ \A k \in Lanes \ {l} : stream'[k] = stream[k]
    BY <1>1, <1>4, <2>1 DEF Arrays
  <2>4. LaneOK(l)'
    BY <1>1, <1>5, <2>3 DEF IInv, LanesOK, LaneOK
  <2> QED
    BY <1>1, <2>2, <2>3, <2>4, OtherLanes DEF IInv
<1>7. EntriesOK'
  BY <1>1, EntriesKept DEF IInv, EntriesOK
<1>8. SyncOK'
  BY <1>1, SyncKept DEF IInv
<1> QED
  BY <1>6, <1>7, <1>8 DEF IInv

LEMMA ReceiveStep == ASSUME IInv, NEW l \in Lanes, Receive(l) PROVE IInv'
<1>1. PICK first : first = First(stream[l])
  OBVIOUS
<1>2. /\ pc[l] = "loop" /\ DOMAIN stream[l] # {}
      /\ msg' = [msg EXCEPT ![l] = stream[l][first]]
      /\ stream' = [stream EXCEPT ![l] = [n \in (DOMAIN stream[l]) \ {first} |-> stream[l][n]]]
      /\ index' = [index EXCEPT ![l] = stream[l][first].index]
      /\ step' = [step EXCEPT ![l] = 0]
      /\ UNCHANGED <<scan, before, points, pc, oldEntry, entries, offered, syncAt, map>>
  BY <1>1 DEF Receive
<1>3. first \in DOMAIN stream[l]
  <2>1. PICK T : T = DOMAIN stream[l]
    OBVIOUS
  <2>2. T \in SUBSET Nat /\ T # {}
    BY <1>2, <2>1 DEF IInv, LanesOK, LaneOK
  <2>3. \E n \in T : \A k \in T : n <= k
    BY <2>2, Least
  <2> QED
    BY <1>1, <2>1, <2>3 DEF First
<1>4. PICK m : m = stream[l][first]
  OBVIOUS
<1>5. IsMessage(m)
  BY <1>3, <1>4 DEF IInv, LanesOK, LaneOK
<1>6. LanesOK'
  <2>1. PICK rest : rest = [n \in (DOMAIN stream[l]) \ {first} |-> stream[l][n]]
    OBVIOUS
  <2>2. DOMAIN rest \in SUBSET Nat /\ \A n \in DOMAIN rest : IsMessage(rest[n])
    BY <2>1 DEF IInv, LanesOK, LaneOK
  <2>3. Arrays
    BY DEF IInv, LanesOK
  <2>4. Arrays'
    BY <1>2, <2>3 DEF Arrays
  <2>5. /\ stream'[l] = rest /\ msg'[l] = m /\ step'[l] = 0
        /\ \A k \in Lanes \ {l} : UNCHANGED <<stream[k], msg[k], step[k], pc[k]>>
    BY <1>2, <1>4, <2>1, <2>3 DEF Arrays
  <2>6. Steps(m) \in Nat /\ pc'[l] = "loop"
    BY <1>2, <1>5 DEF IsMessage
  <2>7. LaneOK(l)'
    BY <1>5, <2>2, <2>5, <2>6 DEF LaneOK
  <2> QED
    BY <2>4, <2>5, <2>7, OtherLanes DEF IInv
<1>7. EntriesOK'
  <2>1. /\ index' = [k \in Lanes |-> index'[k]]
        /\ \A k \in Lanes : pc'[k] = "write" => pc[k] = "write" /\ index'[k] = index[k]
    BY <1>2 DEF IInv, EntriesOK
  <2> QED
    BY <1>2, <2>1, EntriesKept DEF IInv
<1>8. SyncOK'
  BY <1>2, SyncKept DEF IInv
<1> QED
  BY <1>6, <1>7, <1>8 DEF IInv

LEMMA ReceiveLastStep == ASSUME IInv, NEW l \in Lanes, ReceiveLast(l) PROVE IInv'
<1>1. /\ pc[l] = "loop" /\ pc' = [pc EXCEPT ![l] = "end"]
      /\ UNCHANGED <<scan, before, points, stream, msg, step, index, oldIndex, oldEntry,
                     entries, offered, syncAt, map>>
  BY DEF ReceiveLast
<1>2. Arrays /\ LaneOK(l)
  BY DEF IInv, LanesOK
<1>3. /\ Arrays' /\ pc'[l] = "end"
      /\ \A k \in Lanes \ {l} : pc'[k] = pc[k]
  BY <1>1, <1>2 DEF Arrays
<1>4. LaneOK(l)'
  BY <1>1, <1>2, <1>3 DEF LaneOK
<1>5. LanesOK'
  BY <1>1, <1>3, <1>4, OtherLanes DEF IInv
<1>6. EntriesOK'
  <2>1. index' = [k \in Lanes |-> index'[k]]
    BY <1>1 DEF IInv, EntriesOK
  <2> QED
    BY <1>1, <1>3, <2>1, EntriesKept DEF IInv
<1>7. SyncOK'
  BY <1>1, <1>3, SyncKept DEF IInv
<1> QED
  BY <1>5, <1>6, <1>7 DEF IInv

\* A lane that is not past its last step has received a message.
LEMMA HasMessage ==
  ASSUME IInv, NEW l \in Lanes, step[l] <= Steps(msg[l])
  PROVE  IsMessage(msg[l]) /\ Steps(msg[l]) \in Nat /\ step[l] \in Nat
<1>1. Steps(NoMessage) = 0
  BY DEF Steps
<1>2. IsMessage(msg[l]) /\ step[l] \in Nat
  BY <1>1 DEF IInv, LanesOK, Arrays, LaneOK
<1> QED
  BY <1>2 DEF IsMessage

LEMMA SkipStep == ASSUME IInv, NEW l \in Lanes, Skip(l) PROVE IInv'
<1>1. /\ pc[l] = "loop" /\ step[l] <= Steps(msg[l])
      /\ step' = [step EXCEPT ![l] = Steps(msg[l]) + 1]
      /\ UNCHANGED <<scan, before, points, stream, pc, msg, index, oldIndex, oldEntry,
                     entries, offered, syncAt, map>>
  BY DEF Skip
<1>2. PICK n \in Nat : n = Steps(msg[l])
  BY <1>1, HasMessage
<1>3. IsMessage(msg[l])
  BY <1>1, HasMessage
<1>4. LanesOK'
  <2>1. Arrays /\ LaneOK(l)
    BY DEF IInv, LanesOK
  <2>2. step' = [step EXCEPT ![l] = n + 1] /\ n + 1 \in Nat
    BY <1>1, <1>2
  <2>3. Arrays' /\ step'[l] = n + 1 /\ \A k \in Lanes \ {l} : step'[k] = step[k]
    BY <1>1, <2>1, <2>2 DEF Arrays
  <2>4. LaneOK(l)'
    BY <1>1, <1>2, <1>3, <2>1, <2>3 DEF LaneOK
  <2> QED
    BY <1>1, <2>3, <2>4, OtherLanes DEF IInv
<1>5. EntriesOK'
  BY <1>1, EntriesKept DEF IInv, EntriesOK
<1>6. SyncOK'
  BY <1>1, SyncKept DEF IInv
<1> QED
  BY <1>4, <1>5, <1>6 DEF IInv

LEMMA ReadEntryStep == ASSUME IInv, NEW l \in Lanes, ReadEntry(l) PROVE IInv'
<1>1. PICK cell : cell = msg[l].cells[step[l]]
  OBVIOUS
<1>2. PICK e : e = IF cell \in Cells THEN entries[cell] ELSE Empty
  OBVIOUS
<1>3. /\ pc[l] = "loop" /\ step[l] <= Steps(msg[l])
      /\ index' = [index EXCEPT ![l] = cell]
      /\ oldEntry' = [oldEntry EXCEPT ![l] = e]
      /\ pc' = [pc EXCEPT ![l] = "write"]
      /\ UNCHANGED <<scan, before, points, stream, msg, step, oldIndex, entries, offered,
                     syncAt, map>>
  BY <1>1, <1>2 DEF ReadEntry
<1>4. Arrays /\ LaneOK(l)
  BY DEF IInv, LanesOK
<1>5. /\ Arrays' /\ pc'[l] = "write"
      /\ \A k \in Lanes \ {l} : pc'[k] = pc[k]
  BY <1>3, <1>4 DEF Arrays
<1>6. LaneOK(l)'
  BY <1>3, <1>4, <1>5 DEF LaneOK
<1>7. LanesOK'
  BY <1>3, <1>5, <1>6, OtherLanes DEF IInv
<1>8. EntriesOK'
  <2>1. EntryWasOffered /\ SmallestWinsAlone
    BY DEF IInv, EntriesOK
  <2>2. EntryWasOffered'
    BY <1>3, <2>1 DEF EntryWasOffered
  <2>3. SmallestWinsAlone'
    BY <1>3, <2>1 DEF SmallestWinsAlone
  <2>4. e \in Entries
    BY <1>2, Constants DEF IInv, EntriesOK, Empty, Entries
  <2>5. /\ index'[l] = cell /\ oldEntry'[l] = e
        /\ index' = [k \in Lanes |-> index'[k]] /\ oldEntry' \in [Lanes -> Entries]
        /\ \A k \in Lanes \ {l} : index'[k] = index[k] /\ oldEntry'[k] = oldEntry[k]
    BY <1>3, <2>4 DEF IInv, EntriesOK
  <2>6. ASSUME NEW k \in Lanes, pc'[k] = "write", index'[k] \in Cells PROVE HasRead(k)'
    <3>1. CASE k = l
      <4>1. cell \in Cells /\ e = entries[cell]
        BY <1>2, <2>5, <2>6, <3>1
      <4>2. e = Empty \/ (e.weight # 0 /\ \E o \in offered[cell] : o.value = e.value)
        BY <2>1, <4>1 DEF EntryWasOffered
      <4> QED
        BY <1>3, <2>5, <3>1, <4>1, <4>2 DEF HasRead
    <3>2. CASE k # l
      <4>1. HasRead(k)
        BY <1>5, <2>5, <2>6, <3>2 DEF IInv, EntriesOK
      <4> QED
        BY <1>3, <2>5, <3>2, <4>1 DEF HasRead
    <3> QED
      BY <3>1, <3>2
  <2> QED
    BY <1>3, <2>2, <2>3, <2>5, <2>6 DEF IInv, EntriesOK
<1>9. SyncOK'
  <2>1. pc[l] # "end"
    BY <1>3
  <2> QED
    BY <1>3, <2>1, SyncKept DEF IInv
<1> QED
  BY <1>7, <1>8, <1>9 DEF IInv

\* What update_tsdf makes of the entry it has read
LEMMA MergedIsEntry ==
  ASSUME NEW m, IsMessage(m), NEW k, NEW e \in Entries
  PROVE  /\ Merged(m, k, e) \in Entries
         /\ Merged(m, k, e).weight # 0
         /\ Merged(m, k, e).value = IF IsBetter(m, e) THEN m.value ELSE e.value
         /\ IF e.weight > 0 THEN Merged(m, k, e).weight = e.weight
                            ELSE Merged(m, k, e).weight > 0 <=> k = m.middle
<1>1. PICK w \in Nat \ {0} : w = m.weight
  BY DEF IsMessage
<1>2. PICK v \in -Tau .. Tau : v = IF IsBetter(m, e) THEN m.value ELSE e.value
  BY DEF IsMessage, Entries
<1>3. e.weight \in Int
  BY DEF Entries
<1>4. PICK u \in Int : u = IF e.weight <= 0 THEN w * (IF k # m.middle THEN -1 ELSE 1) ELSE e.weight
  BY <1>3
<1>5. Merged(m, k, e) = [value |-> v, weight |-> u]
  BY <1>1, <1>2, <1>4 DEF Merged, IsInterpolated
<1>6. u # 0 /\ IF e.weight > 0 THEN u = e.weight ELSE u > 0 <=> k = m.middle
  <2>1. w * (-1) = -w /\ w * 1 = w
    OBVIOUS
  <2>2. CASE e.weight > 0
    BY <1>3, <1>4, <2>2
  <2>3. CASE ~(e.weight > 0) /\ k = m.middle
    BY <1>3, <1>4, <2>1, <2>3
  <2>4. CASE ~(e.weight > 0) /\ k # m.middle
    BY <1>3, <1>4, <2>1, <2>4
  <2> QED
    BY <2>2, <2>3, <2>4
<1> QED
  BY <1>2, <1>5, <1>6 DEF Entries

\* What EntriesOK says of one cell, which holds entry, and of what lane l read there
CellOK(entry, offers) ==
    /\ IF offers = {} THEN entry = Empty
       ELSE entry.weight # 0 /\ \E o \in offers : o.value = entry.value
    /\ (offers # {} /\ \A o, p \in offers : o.lane = p.lane) =>
           /\ \A o \in offers : Abs(entry.value) <= Abs(o.value)
           /\ entry.weight > 0 <=> \E o \in offers : o.measured

ReadOK(l, read, entry, offers) ==
    /\ read = Empty \/ (read.weight # 0 /\ \E o \in offers : o.value = read.value)
    /\ (\A o \in offers : o.lane = l) => read = entry

Offer(l, m, k) == [lane |-> l, value |-> m.value, measured |-> k = m.middle]
Written(m, k, read, entry) ==
    IF IsBetter(m, read) \/ IsInterpolated(read) THEN Merged(m, k, read) ELSE entry

LEMMA WrittenCell ==
  ASSUME NEW l \in Lanes, NEW m, IsMessage(m), NEW k, NEW e \in Entries, NEW f \in Entries,
         NEW offers \in SUBSET Offers, CellOK(f, offers), ReadOK(l, e, f, offers)
  PROVE  /\ Offer(l, m, k) \in Offers
         /\ Written(m, k, e, f) \in Entries
         /\ CellOK(Written(m, k, e, f), offers \cup {Offer(l, m, k)})
<1> PICK new : new = Offer(l, m, k)
  OBVIOUS
<1> PICK g : g = Written(m, k, e, f)
  OBVIOUS
<1>a. new = [lane |-> l, value |-> m.value, measured |-> k = m.middle]
  BY DEF Offer
<1>b. g = IF IsBetter(m, e) \/ IsInterpolated(e) THEN Merged(m, k, e) ELSE f
  BY DEF Written
<1>c. IF offers = {} THEN f = Empty
      ELSE f.weight # 0 /\ \E o \in offers : o.value = f.value
  BY DEF CellOK
<1>d. (offers # {} /\ \A o, p \in offers : o.lane = p.lane) =>
          /\ \A o \in offers : Abs(f.value) <= Abs(o.value)
          /\ f.weight > 0 <=> \E o \in offers : o.measured
  BY DEF CellOK
<1>e. /\ e = Empty \/ (e.weight # 0 /\ \E o \in offers : o.value = e.value)
      /\ (\A o \in offers : o.lane = l) => e = f
  BY DEF ReadOK
<1> SUFFICES
      /\ g \in Entries /\ g.weight # 0
      /\ new \in Offers
      /\ \E o \in offers \cup {new} : o.value = g.value
      /\ (\A o, p \in offers \cup {new} : o.lane = p.lane) =>
            /\ \A o \in offers \cup {new} : Abs(g.value) <= Abs(o.value)
            /\ g.weight > 0 <=> \E o \in offers \cup {new} : o.measured
  BY DEF CellOK
<1>1. /\ Empty \in Entries /\ Empty.weight = 0 /\ Empty.value = 0
  BY Constants DEF Empty, Entries
<1>2. /\ new \in Offers /\ new.lane = l /\ new.value = m.value /\ new.measured = (k = m.middle)
  BY <1>a DEF Offers, IsMessage
<1>3. PICK merged \in Entries :
         /\ merged = Merged(m, k, e) /\ merged.weight # 0
         /\ merged.value = IF IsBetter(m, e) THEN m.value ELSE e.value
         /\ IF e.weight > 0 THEN merged.weight = e.weight
                            ELSE merged.weight > 0 <=> k = m.middle
  BY MergedIsEntry
<1>4. /\ e.weight \in Int /\ f.weight \in Int /\ merged.weight \in Int
      /\ e.value \in Int /\ f.value \in Int /\ m.value \in Int
      /\ \A o \in Offers : o.value \in Int /\ o.measured \in BOOLEAN
  BY Constants DEF Entries, Offers, IsMessage
<1>5. IsBetter(m, e) <=> Abs(m.value) < Abs(e.value) \/ e.weight = 0
  BY DEF IsBetter
<1>6. IsInterpolated(e) <=> e.weight <= 0
  BY DEF IsInterpolated
<1>7. CASE ~IsBetter(m, e) /\ ~IsInterpolated(e)
  <2>1. g = f /\ e.weight > 0 /\ e # Empty
    BY <1>1, <1>4, <1>6, <1>7, <1>b
  <2>2. offers # {} /\ f.weight # 0 /\ \E o \in offers : o.value = f.value
    BY <1>c, <1>e, <2>1
  <2>3. ASSUME \A o, p \in offers \cup {new} : o.lane = p.lane
        PROVE  /\ \A o \in offers \cup {new} : Abs(g.value) <= Abs(o.value)
               /\ g.weight > 0 <=> \E o \in offers \cup {new} : o.measured
    <3>1. \A o \in offers : o.lane = l
      BY <1>2, <2>3
    <3>2. e = f /\ (\A o \in offers : Abs(f.value) <= Abs(o.value)) /\ \E o \in offers : o.measured
      BY <1>d, <1>e, <2>1, <2>2, <2>3, <3>1
    <3>3. Abs(f.value) <= Abs(new.value)
      BY <1>2, <1>4, <1>5, <1>7, <3>2 DEF Abs
    <3> QED
      BY <2>1, <3>2, <3>3
  <2> QED
    BY <1>2, <2>1, <2>2, <2>3
<1>8. CASE IsBetter(m, e) \/ IsInterpolated(e)
  <2>1. g = merged
    BY <1>3, <1>8, <1>b
  <2>2. \E o \in offers \cup {new} : o.value = g.value
    <3>1. CASE IsBetter(m, e)
      BY <1>2, <1>3, <2>1, <3>1
    <3>2. CASE ~IsBetter(m, e)
      <4>1. e # Empty
        BY <1>1, <1>5, <3>2
      <4> QED
        BY <1>3, <1>e, <2>1, <3>2, <4>1
    <3> QED
      BY <3>1, <3>2
  <2>3. ASSUME \A o, p \in offers \cup {new} : o.lane = p.lane
        PROVE  /\ \A o \in offers \cup {new} : Abs(g.value) <= Abs(o.value)
               /\ g.weight > 0 <=> \E o \in offers \cup {new} : o.measured
    <3>1. (\A o \in offers : o.lane = l) /\ e = f
      BY <1>2, <1>e, <2>3
    <3>2. CASE offers = {}
      <4>1. e.weight = 0
        BY <1>1, <1>c, <3>1, <3>2
      <4>2. g.value = m.value /\ (g.weight > 0 <=> k = m.middle)
        BY <1>3, <1>5, <2>1, <4>1
      <4> QED
        BY <1>2, <1>4, <3>2, <4>2 DEF Abs
    <3>3. CASE offers # {}
      <4>1. /\ \A o \in offers : Abs(e.value) <= Abs(o.value)
            /\ e.weight > 0 <=> \E o \in offers : o.measured
            /\ e.weight # 0
        BY <1>c, <1>d, <2>3, <3>1, <3>3
      <4>2. Abs(g.value) <= Abs(e.value) /\ Abs(g.value) <= Abs(new.value)
        <5>1. CASE Abs(m.value) < Abs(e.value)
          BY <1>2, <1>3, <1>4, <1>5, <2>1, <5>1 DEF Abs
        <5>2. CASE ~(Abs(m.value) < Abs(e.value))
          BY <1>2, <1>3, <1>4, <1>5, <2>1, <4>1, <5>2 DEF Abs
        <5> QED
          BY <5>1, <5>2
      <4>3. \A n \in Int : Abs(n) \in Int
        BY DEF Abs
      <4>4. \A o \in offers : Abs(g.value) <= Abs(o.value)
        <5> TAKE o \in offers
        <5>1. Abs(e.value) \in Int /\ Abs(g.value) \in Int /\ Abs(o.value) \in Int
          BY <1>3, <1>4, <2>1, <4>3
        <5> QED
          BY <4>1, <4>2, <5>1
      <4>5. g.weight > 0 <=> \E o \in offers \cup {new} : o.measured
        <5>1. CASE e.weight > 0
          BY <1>3, <2>1, <4>1, <5>1
        <5>2. CASE ~(e.weight > 0)
          BY <1>2, <1>3, <2>1, <4>1, <5>2
        <5> QED
          BY <5>1, <5>2
      <4> QED
        BY <4>2, <4>4, <4>5
    <3> QED
      BY <3>2, <3>3
  <2> QED
    BY <1>2, <1>3, <2>1, <2>2, <2>3
<1> QED
  BY <1>7, <1>8

LEMMA WriteEntryStep == ASSUME IInv, NEW l \in Lanes, WriteEntry(l) PROVE IInv'
<1>1. PICK m : m = msg[l]
  OBVIOUS
<1>2. PICK k : k = step[l]
  OBVIOUS
<1>3. PICK e : e = oldEntry[l]
  OBVIOUS
<1>4. PICK c : c = index[l]
  OBVIOUS
<1>5. PICK new : new = Offer(l, m, k)
  OBVIOUS
<1>6. /\ pc[l] = "write"
      /\ step' = [step EXCEPT ![l] = k + 1]
      /\ pc' = [pc EXCEPT ![l] = "loop"]
      /\ UNCHANGED <<scan, before, points, stream, msg, index, oldIndex, oldEntry, syncAt, map>>
      /\ IF c \in Cells
         THEN /\ entries' = IF IsBetter(m, e) \/ IsInterpolated(e)
                            THEN [entries EXCEPT ![c] = Merged(m, k, e)] ELSE entries
              /\ offered' = [offered EXCEPT ![c] = @ \cup {new}]
         ELSE UNCHANGED <<entries, offered>>
  <2>1. step' = [step EXCEPT ![l] = k + 1]
    BY <1>2 DEF WriteEntry
  <2> QED
    BY <1>1, <1>2, <1>3, <1>4, <1>5, <2>1 DEF WriteEntry, Offer
<1>7. Arrays /\ LaneOK(l) /\ EntriesOK /\ SyncOK
  BY DEF IInv, LanesOK
<1>8. k <= Steps(m)
  BY <1>1, <1>2, <1>6, <1>7 DEF LaneOK
<1>9. IsMessage(m) /\ Steps(m) \in Nat /\ k \in Nat
  BY <1>1, <1>2, <1>8, HasMessage
<1>10. /\ Arrays' /\ step'[l] = k + 1 /\ pc'[l] = "loop"
       /\ \A j \in Lanes \ {l} : step'[j] = step[j] /\ pc'[j] = pc[j]
  BY <1>6, <1>7, <1>9 DEF Arrays
<1>11. LanesOK'
  <2>1. LaneOK(l)'
    BY <1>1, <1>6, <1>7, <1>8, <1>9, <1>10 DEF LaneOK
  <2> QED
    BY <1>6, <1>10, <2>1, OtherLanes DEF IInv
<1>12. CASE c \notin Cells
  <2>1. UNCHANGED <<entries, offered>>
    BY <1>6, <1>12
  <2>2. index' = [j \in Lanes |-> index'[j]]
    BY <1>6, <1>7 DEF EntriesOK
  <2>3. \A j \in Lanes : pc'[j] = "write" => pc[j] = "write" /\ index'[j] = index[j]
    BY <1>6, <1>10
  <2>4. EntriesOK'
    BY <1>6, <1>7, <2>1, <2>2, <2>3, EntriesKept
  <2>5. SyncOK'
    <3>1. pc[l] # "end"
      BY <1>6
    <3> QED
      BY <1>6, <1>7, <2>1, <3>1, SyncKept
  <2> QED
    BY <1>11, <2>4, <2>5 DEF IInv
<1>13. CASE c \in Cells
  <2>1. PICK f \in Entries : f = entries[c]
    BY <1>7, <1>13 DEF EntriesOK
  <2>2. PICK offers \in SUBSET Offers : offers = offered[c]
    BY <1>7, <1>13 DEF EntriesOK
  <2>3. PICK g : g = Written(m, k, e, f)
    OBVIOUS
  <2>4. PICK after : after = offers \cup {new}
    OBVIOUS
  <2>5. e \in Entries /\ HasRead(l)
    BY <1>3, <1>4, <1>6, <1>7, <1>13 DEF EntriesOK
  <2>6. EntryWasOffered /\ SmallestWinsAlone
    BY <1>7 DEF EntriesOK
  <2>7. CellOK(f, offers)
    BY <1>13, <2>1, <2>2, <2>6 DEF EntryWasOffered, SmallestWinsAlone, CellOK
  <2>8. ReadOK(l, e, f, offers)
    BY <1>3, <1>4, <2>1, <2>2, <2>5 DEF HasRead, ReadOK
  <2>9. new \in Offers /\ g \in Entries /\ CellOK(g, after)
    BY <1>5, <1>9, <2>3, <2>4, <2>5, <2>7, <2>8, WrittenCell
  <2>10. /\ g.weight # 0
         /\ \E o \in after : o.value = g.value
         /\ (\A o, p \in after : o.lane = p.lane) =>
               /\ \A o \in after : Abs(g.value) <= Abs(o.value)
               /\ g.weight > 0 <=> \E o \in after : o.measured
    BY <2>4, <2>9 DEF CellOK
  <2>11. /\ entries' = [entries EXCEPT ![c] = g]
         /\ offered' = [offered EXCEPT ![c] = after]
    <3>1. entries' = [entries EXCEPT ![c] = g]
      <4>1. entries = [entries EXCEPT ![c] = f]
        BY <1>7, <1>13, <2>1 DEF EntriesOK
      <4> QED
        BY <1>6, <1>13, <2>3, <4>1 DEF Written
    <3>2. offered' = [offered EXCEPT ![c] = after]
      BY <1>6, <1>13, <2>2, <2>4
    <3> QED
      BY <3>1, <3>2
  <2>12. /\ entries' \in [Cells -> Entries] /\ entries'[c] = g
         /\ \A d \in Cells \ {c} : entries'[d] = entries[d]
    BY <1>7, <1>13, <2>9, <2>11 DEF EntriesOK
  <2>13. /\ offered' \in [Cells -> SUBSET Offers] /\ offered'[c] = after
         /\ \A d \in Cells \ {c} : offered'[d] = offered[d]
    <3>1. after \in SUBSET Offers
      BY <2>4, <2>9
    <3> QED
      BY <1>7, <1>13, <2>11, <3>1 DEF EntriesOK
  <2>14. EntriesOK'
    <3>1. EntryWasOffered'
      <4> SUFFICES ASSUME NEW d \in Cells
                   PROVE  IF offered'[d] = {} THEN entries'[d] = Empty
                          ELSE entries'[d].weight # 0 /\ \E o \in offered'[d] : o.value = entries'[d].value
        BY DEF EntryWasOffered, Empty
      <4>1. CASE d = c
        BY <2>4, <2>10, <2>12, <2>13, <4>1
      <4>2. CASE d # c
        BY <2>6, <2>12, <2>13, <4>2 DEF EntryWasOffered
      <4> QED
        BY <4>1, <4>2
    <3>2. SmallestWinsAlone'
      <4> SUFFICES ASSUME NEW d \in Cells,
                          offered'[d] # {} /\ \A o, p \in offered'[d] : o.lane = p.lane
                   PROVE  /\ \A o \in offered'[d] : Abs(entries'[d].value) <= Abs(o.value)
                          /\ entries'[d].weight > 0 <=> \E o \in offered'[d] : o.measured
        BY DEF SmallestWinsAlone
      <4>1. CASE d = c
        BY <2>10, <2>12, <2>13, <4>1
      <4>2. CASE d # c
        BY <2>6, <2>12, <2>13, <4>2 DEF SmallestWinsAlone
      <4> QED
        BY <4>1, <4>2
    <3>3. ASSUME NEW j \in Lanes, pc'[j] = "write", index'[j] \in Cells PROVE HasRead(j)'
      <4>1. j # l /\ HasRead(j) /\ index'[j] = index[j] /\ oldEntry'[j] = oldEntry[j]
        BY <1>6, <1>7, <1>10, <3>3 DEF EntriesOK
      <4>2. PICK d \in Cells : d = index[j]
        BY <3>3, <4>1
      <4>3. CASE d = c
        <5>1. new \in offered'[d] /\ new.lane # j /\ offered[d] \subseteq offered'[d]
          BY <1>5, <2>2, <2>4, <2>13, <4>1, <4>3 DEF Offer
        <5>2. oldEntry[j] = Empty \/ (oldEntry[j].weight # 0 /\ \E o \in offered[d] : o.value = oldEntry[j].value)
          BY <4>1, <4>2 DEF HasRead
        <5>3. oldEntry'[j] = Empty \/ (oldEntry'[j].weight # 0 /\ \E o \in offered'[d] : o.value = oldEntry'[j].value)
          BY <4>1, <5>1, <5>2
        <5> QED
          BY <4>1, <4>2, <5>1, <5>3 DEF HasRead
      <4>4. CASE d # c
        <5>1. offered'[d] = offered[d] /\ entries'[d] = entries[d]
          BY <2>12, <2>13, <4>4
        <5> QED
          BY <4>1, <4>2, <5>1 DEF HasRead
      <4> QED
        BY <4>3, <4>4
    <3>4. oldEntry' \in [Lanes -> Entries] /\ index' = [j \in Lanes |-> index'[j]]
      BY <1>6, <1>7 DEF EntriesOK
    <3> QED
      BY <2>12, <2>13, <3>1, <3>2, <3>3, <3>4 DEF EntriesOK
  <2>15. SyncOK'
    <3>1. \A j \in Lanes : syncAt[j] = Start(j)
      BY <1>6, <1>7 DEF SyncOK
    <3>2. \A d \in Cells : SyncedBy(d) = {}
      <4>1. \A j \in Lanes : Start(j) .. syncAt[j] - 1 = {}
        BY <3>1, Ranges
      <4> QED
        BY <4>1 DEF SyncedBy
    <3>3. \A d \in Cells : SyncedBy(d)' = {} /\ map'[d] = before'[d]
      <4>1. \A d \in Cells : SyncedBy(d)' = SyncedBy(d)
        BY <1>6 DEF SyncedBy
      <4> QED
        BY <1>6, <1>7, <3>2, <4>1 DEF SyncOK
    <3> QED
      BY <1>6, <1>7, <3>1, <3>3 DEF SyncOK
  <2> QED
    BY <1>11, <2>14, <2>15 DEF IInv
<1> QED
  BY <1>12, <1>13

LEMMA SyncCellStep == ASSUME IInv, NEW l \in Lanes, SyncCell(l) PROVE IInv'
<1>1. PICK i : i = syncAt[l]
  OBVIOUS
<1>2. PICK c : c = CellAt[i]
  OBVIOUS
<1>3. /\ \A k \in Lanes : pc[k] = "end"
      /\ i < End(l)
      /\ map' = [map EXCEPT ![c] = Synced(map[c], entries[c])]
      /\ syncAt' = [syncAt EXCEPT ![l] = i + 1]
      /\ UNCHANGED <<scan, before, updateVars>>
  BY <1>1, <1>2 DEF SyncCell
<1>4. LanesOK /\ EntriesOK /\ SyncOK
  BY DEF IInv
<1>5. i \in Start(l) .. End(l) - 1 /\ i \in 0 .. Total - 1
  BY <1>1, <1>3, <1>4, Ranges DEF SyncOK
<1>6. c \in Cells /\ Flat(c) = i
  BY <1>2, <1>5, FlatIsOneToOne
<1>7. LanesOK'
  BY <1>3, <1>4 DEF updateVars, LanesOK, Arrays, LaneOK
<1>8. EntriesOK'
  <2>1. index' = [k \in Lanes |-> index'[k]]
    BY <1>3, <1>4 DEF updateVars, EntriesOK
  <2> QED
    BY <1>3, <1>4, <2>1, EntriesKept DEF updateVars
<1>9. SyncOK'
  <2>1. /\ syncAt' \in [Lanes -> Int] /\ syncAt'[l] = i + 1
        /\ \A k \in Lanes \ {l} : syncAt'[k] = syncAt[k]
    BY <1>3, <1>4, <1>5 DEF SyncOK
  <2>2. \A k \in Lanes : syncAt'[k] \in Start(k) .. End(k)
    <3> TAKE k \in Lanes
    <3>1. CASE k = l
      BY <1>5, <2>1, <3>1, Ranges
    <3>2. CASE k # l
      BY <1>4, <2>1, <3>2 DEF SyncOK
    <3> QED
      BY <3>1, <3>2
  <2>3. SyncedBy(c) = {}
    <3> SUFFICES ASSUME NEW k \in Lanes, i \in Start(k) .. syncAt[k] - 1 PROVE FALSE
      BY <1>6 DEF SyncedBy
    <3>1. /\ Start(k) \in Nat /\ End(k) \in Nat /\ syncAt[k] \in Start(k) .. End(k)
          /\ Start(l) \in Nat /\ End(l) \in Nat
      BY <1>4, Ranges DEF SyncOK
    <3>2. k # l
      BY <1>1, <3>1
    <3>3. k < l \/ l < k
      BY <3>2, Constants DEF Lanes
    <3>4. CASE k < l
      BY <1>5, <3>1, <3>4, Ranges
    <3>5. CASE l < k
      BY <1>5, <3>1, <3>5, Ranges
    <3> QED
      BY <3>3, <3>4, <3>5
  <2>4. l \in SyncedBy(c)'
    BY <1>5, <1>6, <2>1, Ranges DEF SyncedBy
  <2>5. ASSUME NEW d \in Cells, d # c PROVE SyncedBy(d)' = SyncedBy(d)
    <3>1. Flat(d) # i /\ Flat(d) \in Int
      BY <1>6, <2>5, FlatIsOneToOne
    <3>2. ASSUME NEW k \in Lanes
          PROVE  Flat(d) \in Start(k) .. syncAt'[k] - 1 <=> Flat(d) \in Start(k) .. syncAt[k] - 1
      <4>1. CASE k = l
        <5>1. Start(l) \in Int /\ i \in Int
          BY <1>5, Ranges
        <5> QED
          BY <1>1, <2>1, <3>1, <4>1, <5>1
      <4>2. CASE k # l
        BY <2>1, <4>2
      <4> QED
        BY <4>1, <4>2
    <3> QED
      BY <3>2 DEF SyncedBy
  <2>6. PICK e \in Entries : e = before[c]
    BY <1>4, <1>6 DEF SyncOK
  <2>7. PICK f \in Entries : f = entries[c]
    BY <1>4, <1>6 DEF EntriesOK
  <2>8. map[c] = e
    BY <1>4, <1>6, <2>3, <2>6 DEF SyncOK
  <2>9. Synced(e, f) \in Entries
    BY SyncedBetween
  <2>10. /\ map' \in [Cells -> Entries] /\ map'[c] = Synced(e, f)
         /\ \A d \in Cells \ {c} : map'[d] = map[d]
    BY <1>3, <1>4, <1>6, <2>7, <2>8, <2>9 DEF SyncOK
  <2>11. before' = before /\ entries' = entries /\ pc' = pc
    BY <1>3 DEF updateVars
  <2>12. ASSUME NEW d \in Cells
         PROVE  map'[d] = IF SyncedBy(d)' = {} THEN before'[d] ELSE Synced(before'[d], entries'[d])
    <3>1. CASE d = c
      BY <2>4, <2>6, <2>7, <2>10, <2>11, <3>1
    <3>2. CASE d # c
      BY <1>4, <2>5, <2>10, <2>11, <3>2 DEF SyncOK
    <3> QED
      BY <3>1, <3>2
  <2> QED
    BY <1>3, <1>4, <2>1, <2>2, <2>10, <2>11, <2>12 DEF SyncOK
<1> QED
  BY <1>7, <1>8, <1>9 DEF IInv

LEMMA StutterStep == ASSUME IInv, UNCHANGED vars PROVE IInv'
<1>1. LanesOK'
  BY DEF IInv, vars, updateVars, LanesOK, Arrays, LaneOK
<1>2. EntriesOK'
  <2>1. index' = [k \in Lanes |-> index'[k]]
    BY DEF IInv, EntriesOK, vars, updateVars
  <2> QED
    BY <2>1, EntriesKept DEF IInv, vars, updateVars
<1>3. SyncOK'
  BY SyncKept DEF IInv, vars, updateVars
<1> QED
  BY <1>1, <1>2, <1>3 DEF IInv

LEMMA StepKeepsIInv == IInv /\ [Next]_vars => IInv'
<1> SUFFICES ASSUME IInv, [Next]_vars PROVE IInv'
  OBVIOUS
<1>1. ASSUME NEW l \in Lanes, UpdateLane(l) \/ SyncCell(l) PROVE IInv'
  <2>1. CASE March(l)
    BY <2>1, MarchStep
  <2>2. CASE Receive(l)
    BY <2>2, ReceiveStep
  <2>3. CASE ReceiveLast(l)
    BY <2>3, ReceiveLastStep
  <2>4. CASE Skip(l)
    BY <2>4, SkipStep
  <2>5. CASE ReadEntry(l)
    BY <2>5, ReadEntryStep
  <2>6. CASE WriteEntry(l)
    BY <2>6, WriteEntryStep
  <2>7. CASE SyncCell(l)
    BY <2>7, SyncCellStep
  <2> QED
    BY <1>1, <2>1, <2>2, <2>3, <2>4, <2>5, <2>6, <2>7 DEF UpdateLane
<1>2. CASE UNCHANGED vars
  BY <1>2, StutterStep
<1> QED
  BY <1>1, <1>2 DEF Next, Done

LEMMA IInvAlways == Spec => []IInv
<1> QED
  BY InitIInv, StepKeepsIInv, PTL DEF Spec

\* However the lanes overtake each other on the memory they share (update_tsdf reads
\* an entry and writes it back later), an entry is empty only if nothing was found for
\* its cell, its value is one that was found, and in a cell that a single lane had to
\* do with it is the smallest and stays a measured one.
THEOREM EntriesAreOfferedAlways == Spec => []EntriesAreOffered
<1> QED
  BY IInvAlways, IInvImplies, PTL

\* The ranges into which krnl_tsdf splits the cells for sync_loop leave out no cell
\* and synchronise none twice, for every size of the map and number of lanes.
THEOREM SyncsEveryCellOnceAlways == Spec => []SyncsEveryCellOnce
<1> QED
  BY IInvAlways, IInvImplies, PTL

\* What sync_loop makes of a cell lies between what the map held and what was found,
\* and what was only interpolated changes no measured cell.
THEOREM MapStaysBetweenAlways == Spec => []MapStaysBetween
<1> QED
  BY IInvAlways, IInvImplies, PTL
=============================================================================
