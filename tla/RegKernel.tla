----------------------------- MODULE RegKernel -----------------------------
(***************************************************************************)
(* The registration of one cloud: Preprocessing reduces the scan,          *)
(* Registration::register_cloud turns and moves the pose by what the imu   *)
(* says, and the kernel krnl_reg improves it, an iteration at a time.      *)
(*                                                                         *)
(* All rotations are by quarter turns, so that matrices have whole         *)
(* numbers.  Translations count half millimetres, so that conversions to   *)
(* whole millimetres round.  The solution of the normal equations is any   *)
(* of Motions; the solver itself is checked on the same equations modulo   *)
(* Prime.                                                                  *)
(***************************************************************************)
EXTENDS ScanFilters

CONSTANTS
    SplitFactor,        \* SPLIT_FACTOR
    MatrixResolution,   \* MATRIX_RESOLUTION, even
    Map,                \* sizeX .. offsetZ, as [size, pos, offset], each a triple
    Field,              \* the entry of every cell in the window, [value, weight]
    Scans,              \* the clouds that come from the sensor
    ImuMotions,         \* what the imu may have measured
    Motions,            \* what the solver may return: [axis, quarters, move]
    MaxIterations,      \* max_iterations
    WeightGradient,     \* it_weight_gradient
    Epsilon,            \* epsilon
    Prime,
    NaN                 \* what is not a number

ASSUME KernelAssumption ==
    /\ {SplitFactor, MaxIterations} \subseteq Nat \ {0}
    /\ MatrixResolution \in Nat \ {0} /\ MatrixResolution % 2 = 0
    /\ WeightGradient \in Int

\* Prime is one: every number but 0 has an inverse.
ASSUME PrimeAssumption ==
    /\ Prime \in Nat /\ Prime > 1
    /\ \A b \in 1 .. Prime - 1 : \E n \in 1 .. Prime - 1 : (b * n) % Prime = 1

\* LocalMap makes its size odd and keeps its offset within it.
ASSUME MapAssumption ==
    \A a \in Axes : /\ Map.size[a] \in Nat /\ Map.size[a] % 2 = 1
                    /\ Map.pos[a] \in Int /\ Map.offset[a] \in 0 .. Map.size[a] - 1

VARIABLES
    phase,      \* "scan", "imu", "run", "done" or "moved"
    cloud,      \* the points in the buffer
    pose,       \* total_transform: [turn, move], or NaN
    i,          \* the iteration
    alpha,
    previous,   \* previous_errors
    from,       \* history: the pose the last iteration began with
    motion,     \* history: what its solver returned
    sum,        \* h, g, error and count of the last iteration, of all lanes
    errors      \* history: the error of every iteration

regVars == <<phase, cloud, pose, i, alpha, previous, from, motion, sum, errors>>

-----------------------------------------------------------------------------
(******************************* LocalMapHW ********************************)

Unknown == [value |-> 0, weight |-> 0]

Overflow(val, max) ==
    IF val >= 2 * max THEN val - 2 * max ELSE IF val >= max THEN val - max ELSE val

\* Mutant: the window is a cell wider, and the ring comes round
InBoundsWide(c) ==
    \A a \in Axes : Magnitude(c[a] - Map.pos[a]) <= Map.size[a] \div 2 + 1

InBounds(c) ==
    \A a \in Axes : Magnitude(c[a] - Map.pos[a]) <= Map.size[a] \div 2

GetIndex(c) ==
    LET at(a) == Overflow(c[a] - Map.pos[a] + Map.offset[a] + Map.size[a], Map.size[a])
    IN  (at(1) * Map.size[2] + at(2)) * Map.size[3] + at(3)

\* The array as LocalMap fills it
Home(c) ==
    LET at(a) == (c[a] - Map.pos[a] + Map.offset[a] + Map.size[a]) % Map.size[a]
    IN  (at(1) * Map.size[2] + at(2)) * Map.size[3] + at(3)
Along(a) == Map.pos[a] - Map.size[a] \div 2 .. Map.pos[a] + Map.size[a] \div 2
Cells == Along(1) \X Along(2) \X Along(3)

\* An entry has two numbers.
ASSUME FieldAssumption == \A c \in Cells : Field[c].value \in Int /\ Field[c].weight \in Int

Data  == [n \in 0 .. Map.size[1] * Map.size[2] * Map.size[3] - 1 |->
            Field[CHOOSE c \in Cells : Home(c) = n]]

Get(c) == IF InBounds(c) THEN Data[GetIndex(c)] ELSE Unknown

-----------------------------------------------------------------------------
(****************************** transformations ****************************)

\* Vectors and matrices, by rows
Three(f(_))     == <<f(1), f(2), f(3)>>
Six(f(_))       == <<f(1), f(2), f(3), f(4), f(5), f(6)>>
Square3(f(_,_)) == Three(LAMBDA r : Three(LAMBDA c : f(r, c)))
Square6(f(_,_)) == Six(LAMBDA r : Six(LAMBDA c : f(r, c)))
SumOfSix(f(_)) == f(1) + f(2) + f(3) + f(4) + f(5) + f(6)

Identity      == Square3(LAMBDA r, c : IF r = c THEN 1 ELSE 0)
Transpose(m)  == Square3(LAMBDA r, c : m[c][r])
Turned(m, p)  == Three(LAMBDA r : m[r][1] * p[1] + m[r][2] * p[2] + m[r][3] * p[3])
Product(a, b) ==
    Square3(LAMBDA r, c : a[r][1] * b[1][c] + a[r][2] * b[2][c] + a[r][3] * b[3][c])

Vectors  == Int \X Int \X Int
Turns    == {m \in Vectors \X Vectors \X Vectors : Product(m, Transpose(m)) = Identity}
Poses    == [turn : Turns, move : Vectors]

\* The imu and the solver turn and move the scanner, and do not skew it.
ASSUME InputsAssumption ==
    /\ Scans \subseteq Seq(Vectors)
    /\ ImuMotions \subseteq Poses
    /\ \A xi \in Motions : /\ xi.axis \in Vectors /\ Square(xi.axis) = 1
                            /\ xi.quarters \in Int /\ xi.move \in Vectors
    /\ NaN \notin Poses

\* MatrixMul on transformations
Compose(next, total) ==
    [turn |-> Product(next.turn, total.turn),
     move |-> Add(Turned(next.turn, total.move), next.move)]

Sine(quarters)   == <<0, 1, 0, -1>>[(quarters % 4) + 1]
Cosine(quarters) == <<1, 0, -1, 0>>[(quarters % 4) + 1]

\* The rotation about an axis of length 1, from its cross product matrix
Rotation(axis, quarters) ==
    LET L == <<<<0, -axis[3], axis[2]>>, <<axis[3], 0, -axis[1]>>, <<-axis[2], axis[1], 0>>>>
        square == Product(L, L)
    IN  Square3(LAMBDA r, c :
            Sine(quarters) * L[r][c] + (1 - Cosine(quarters)) * square[r][c] + Identity[r][c])

\* Mutant: the rotation is about the origin of the map
XiAboutOrigin(xi, center) ==
    IF xi = NaN \/ xi.quarters = 0 THEN NaN
    ELSE [turn |-> Rotation(xi.axis, xi.quarters), move |-> xi.move]

\* The rotation is about the center of the scan.  Its axis is divided by the
\* angle: without a rotation it is not a number.
XiToTransform(xi, center) ==
    IF xi = NaN \/ xi.quarters = 0 THEN NaN
    ELSE LET turn  == Rotation(xi.axis, xi.quarters)
             shift == Turned(turn, Three(LAMBDA a : -2 * center[a]))
         IN  [turn |-> turn, move |-> Add(Add(shift, Add(center, center)), xi.move)]

\* register_cloud, before the kernel: the imu does not turn the position
Estimated(p, imu) == [turn |-> Product(imu.turn, p.turn), move |-> Add(p.move, imu.move)]

\* transform_point_cloud: to the nearest millimetre, halves away from zero
Rounded(n) == IF n < 0 THEN Quot(n - 1, 2) ELSE Quot(n + 1, 2)
Transformed(p, point) ==
    LET twice == Add(Turned(p.turn, Add(point, point)), p.move)
    IN  Three(LAMBDA a : Rounded(twice[a]))

-----------------------------------------------------------------------------
(***************************** one iteration *******************************)

\* int_transform, transform_point and the division by MATRIX_RESOLUTION
KernelPoint(p, point) ==
    LET turned == Turned(p.turn, point)
    IN  Three(LAMBDA a : Quot(turned[a] * MatrixResolution
                                  + Quot(p.move[a] * MatrixResolution, 2), MatrixResolution))
ScanCenter(p) == Three(LAMBDA a : Quot(p.move[a], 2))
CellOf(point) == Three(LAMBDA a : Quot(point[a], MapResolution))

Beside(c, a, n) == [c EXCEPT ![a] = @ + n]
Slope(last, next) ==
    IF last.weight # 0 /\ next.weight # 0 /\ (next.value > 0) = (last.value > 0)
    THEN Quot(next.value - last.value, 2) ELSE 0
Gradient(c) == Three(LAMBDA a : Slope(Get(Beside(c, a, -1)), Get(Beside(c, a, 1))))

Cross(p, q) == <<p[2] * q[3] - p[3] * q[2], p[3] * q[1] - p[1] * q[3], p[1] * q[2] - p[2] * q[1]>>

\* What one point adds: the products of its row of the Jacobian, and nothing
\* where the map knows nothing
Nothing == [h |-> Square6(LAMBDA r, c : 0), g |-> Six(LAMBDA r : 0), error |-> 0, count |-> 0]
Products(jacobi, value) ==
    [h     |-> Square6(LAMBDA r, c : jacobi[r] * jacobi[c]),
     g     |-> Six(LAMBDA r : jacobi[r] * value),
     error |-> Magnitude(value),
     count |-> 1]
Sample(p, point) ==
    LET at    == KernelPoint(p, point)
        entry == Get(CellOf(at))
        slope == Gradient(CellOf(at))
    IN  IF entry.weight = 0 THEN Nothing
        ELSE Products(Cross(Less(at, ScanCenter(p)), slope) \o slope, entry.value)

Both(s, t) ==
    [h     |-> Square6(LAMBDA r, c : s.h[r][c] + t.h[r][c]),
     g     |-> Six(LAMBDA r : s.g[r] + t.g[r]),
     error |-> s.error + t.error,
     count |-> s.count + t.count]

SumUpTo(f, N) ==
    LET upTo[n \in 0 .. N] == IF n = 0 THEN Nothing ELSE Both(upTo[n - 1], f[n])
    IN  upTo[N]

\* registration_step on length points behind offset
RegistrationStep(p, offset, length) ==
    SumUpTo([n \in 1 .. length |-> Sample(p, cloud[offset + n])], length)

Step     == Len(cloud) \div SplitFactor

\* Mutant: the last lane is as long as the others
SameStep == Step
LastStep == Len(cloud) - Step * (SplitFactor - 1)

\* reg_dataflow: the lanes, and the sum of their results
Lane(p, n) == RegistrationStep(p, (n - 1) * Step, IF n = SplitFactor THEN LastStep ELSE Step)
RegDataflow(p) == SumUpTo([n \in 1 .. SplitFactor |-> Lane(p, n)], SplitFactor)

\* An error is <<error, count>>
ErrorOf(s) == IF s.count = 0 THEN NaN ELSE <<s.error, s.count>>
Near(e, f) ==
    e # NaN /\ f # NaN /\
        Magnitude(e[1] * f[2] - f[1] * e[2]) <= Epsilon * e[2] * f[2]

\* Mutant: the last two errors are compared
SettledLast(e) == Near(e, previous[4]) /\ Near(e, previous[3])
Settled(e) == Near(e, previous[3]) /\ Near(e, previous[1])

-----------------------------------------------------------------------------
(****************************** linear_solver ******************************)

\* The numbers of the solver: modulo Prime, where 0 alone has no inverse
\* (the quotient is then any number; here 0)
Over(a, b) == (a * (IF b = 0 THEN 0 ELSE CHOOSE n \in 1 .. Prime - 1 : (b * n) % Prime = 1)) % Prime

\* One turn of lu_decomposition, in place: the column below the pivot becomes
\* that of the quotients, and the rows lose their parts of the pivot's row
Quotients(B, n) == Six(LAMBDA r : IF r <= n THEN 0 ELSE Over(B[r][n], B[n][n]))
Eliminated(B, L, n) ==
    Square6(LAMBDA r, c :
        IF r <= n \/ c < n THEN B[r][c]
        ELSE IF c = n THEN L[r] ELSE (B[r][c] - L[r] * B[n][c]) % Prime)
LuTurn(B, n) == Eliminated(B, Quotients(B, n), n)

LuTurns(A, N) ==
    LET turns[n \in 0 .. N] == IF n = 0 THEN A ELSE LuTurn(turns[n - 1], n)
    IN  turns[N]

\* Mutant: the outer loop ends a turn early
LuShort(A) == LuTurns(A, 4)
LuDecomposition(A) == LuTurns(A, 5)

\* What the variables of ks add to a row, and what the inner loops of lu_solve
\* leave of x[r]
Part(LU, r, ks, x)    == SumOfSix(LAMBDA k : IF k \in ks THEN LU[r][k] * x[k] ELSE 0)
Without(LU, x, r, ks) == (x[r] - Part(LU, r, ks, x)) % Prime

\* The first loop goes through the rows upwards, the second one downwards.
Forward(LU, b) ==
    LET x[n \in 0 .. 6] ==
            IF n = 0 THEN b ELSE [x[n - 1] EXCEPT ![n] = Without(LU, x[n - 1], n, 1 .. n - 1)]
    IN  x[6]
Backward(LU, y) ==
    LET x[n \in 0 .. 6] ==
            IF n = 0 THEN y
            ELSE LET r == 7 - n
                 IN  [x[n - 1] EXCEPT ![r] = Over(Without(LU, x[n - 1], r, r + 1 .. 6), LU[r][r])]
    IN  x[6]
LuSolve(LU, b) == Backward(LU, Forward(LU, b))

\* The normal equations of the last iteration, as krnl_reg makes them
Equations ==
    [A |-> Square6(LAMBDA r, c :
              (sum.h[r][c] + IF r = c THEN (alpha - WeightGradient) * sum.count ELSE 0) % Prime),
     b |-> Six(LAMBDA r : (-sum.g[r]) % Prime)]

-----------------------------------------------------------------------------

RegInit ==
    /\ phase = "scan"
    /\ cloud \in Scans
    /\ pose = [turn |-> Identity, move |-> Zero]
    /\ i = 0 /\ alpha = 0
    /\ previous = [n \in 1 .. 4 |-> <<0, 1>>]
    /\ from = NaN /\ motion = NaN /\ sum = NaN /\ errors = <<>>

\* Preprocessing::thread_run calls the filter; the order of its result is any
Reduce ==
    /\ phase = "scan"
    /\ cloud' \in SetToSeqs(ReduceClosest(cloud))
    /\ phase' = "imu"
    /\ UNCHANGED <<pose, i, alpha, previous, from, motion, sum, errors>>

ApplyImu ==
    /\ phase = "imu"
    /\ \E imu \in ImuMotions : pose' = Estimated(pose, imu)
    /\ phase' = "run"
    /\ UNCHANGED <<cloud, i, alpha, previous, from, motion, sum, errors>>

\* One turn of registration_loop.  The pose moves in the last turn, too.
\* Without a point in a known cell the equations are all 0.
Iterate ==
    /\ phase = "run"
    /\ pose # NaN
    /\ from' = pose
    /\ sum' = RegDataflow(pose)
    /\ \E xi \in (IF sum'.count = 0 THEN {} ELSE Motions) \cup {NaN} :
        LET next == XiToTransform(xi, ScanCenter(pose))
        IN  /\ pose' = IF next = NaN THEN NaN ELSE Compose(next, pose)
            /\ motion' = xi
    /\ alpha' = alpha + WeightGradient
    /\ errors' = Append(errors, ErrorOf(sum'))
    /\ IF Settled(ErrorOf(sum'))
       THEN phase' = "done" /\ UNCHANGED <<i, previous>>
       ELSE /\ previous' = Append(Tail(previous), ErrorOf(sum'))
            /\ i' = i + 1
            /\ phase' = IF i + 1 < MaxIterations THEN "run" ELSE "done"
    /\ UNCHANGED cloud

\* Once a pose is not a number, it stays that, whatever the points add up to
IterateNaN ==
    /\ phase = "run"
    /\ pose = NaN
    /\ \E n \in i .. MaxIterations : i' = n
    /\ phase' = "done"
    /\ UNCHANGED <<cloud, pose, alpha, previous, from, motion, sum, errors>>

\* register_cloud, after the kernel
MoveCloud ==
    /\ phase = "done"
    /\ pose # NaN
    /\ cloud' = [n \in 1 .. Len(cloud) |-> Transformed(pose, cloud[n])]
    /\ phase' = "moved"
    /\ UNCHANGED <<pose, i, alpha, previous, from, motion, sum, errors>>

RegNext == Reduce \/ ApplyImu \/ Iterate \/ IterateNaN \/ MoveCloud

RegSpec == RegInit /\ [][RegNext]_regVars
-----------------------------------------------------------------------------
(******************************** properties *******************************)

\* The reduced cloud has one point of the scan for every voxel that has one
\* within the bounds, and none is nearer to the center of the voxel: neither
\* the zero of a measurement without an echo nor a default is among them.
\* The closest and the random filter find nothing to change in their own results,
\* and the centers are the same after the closest filter as before.  The average
\* lies in the voxel it stands for, on both sides of 0, although the voxel is
\* rounded down and the average to 0.  (Filtering an average or a center again may
\* drop it: it may be the zero of no echo, or beyond the bounds.)
ReductionKeepsVoxels ==
    phase = "scan" =>
        /\ LET reduced == ReduceClosest(cloud)
           IN  /\ reduced \subseteq Passing(cloud)
               /\ Cardinality(reduced) = Cardinality(Voxels(Passing(cloud)))
               /\ \A p \in Passing(cloud) : \E q \in reduced :
                    /\ Voxel(p) = Voxel(q)
                    /\ Length(Less(q, Center(Voxel(q)))) <= Length(Less(p, Center(Voxel(p))))
               /\ ReduceClosest(SetToSeq(reduced)) = reduced
               /\ ReduceCenter(SetToSeq(reduced)) = ReduceCenter(cloud)
        /\ Voxels(ReduceAverage(cloud)) = Voxels(Passing(cloud))
        /\ \A S \in ReduceRandom(cloud) : S \in ReduceRandom(SetToSeq(S))

\* The median filter of a scan of several rings is the filter of every ring
\* alone, and turning the scanner by a column turns its result by a column
MedianStaysOnRing ==
    LET ring(scan, rings, r) == [k \in 1 .. Len(scan) \div rings |-> scan[(k - 1) * rings + r]]
        turned(scan, rings)  == SubSeq(scan, rings + 1, Len(scan)) \o SubSeq(scan, 1, rings)
    IN  phase = "scan" => \A rings \in 1 .. Len(cloud) : Len(cloud) % rings = 0 =>
            LET result == MedianFilter(cloud, rings, 3)
            IN  /\ \A r \in 1 .. rings :
                    ring(result, rings, r) = MedianFilter(ring(cloud, rings, r), 1, 3)
                /\ MedianFilter(turned(cloud, rings), rings, 3) = turned(result, rings)

\* The lanes together sample every point once, whatever the number of points
\* is by that of the lanes, and the sums are those of one lane over the cloud
LanesCoverCloud ==
    sum # NaN /\ phase \in {"run", "done"} => sum = RegistrationStep(from, 0, Len(cloud))

\* The kernel reads a cell where LocalMap has put it, for every position of
\* the ring offsets, reads nothing beyond the array, and knows nothing of the
\* cells around the window
ReadsTheMap ==
    \A x, y, z \in -1 .. 1 : sum # NaN /\ cloud # <<>> =>
        LET c == Add(CellOf(KernelPoint(from, cloud[1])), <<x, y, z>>)
        IN  Get(c) = IF c \in Cells THEN Field[c] ELSE Unknown

\* The loop ends before MaxIterations if and only if the error is a number and
\* near the one two turns ago and the one four turns ago, where the turns
\* before the first had the error 0; it never ends so while no point has a cell
StopsOnHistory ==
    LET ago(n, k) == IF n > k THEN errors[n - k] ELSE <<0, 1>>
        settled(n) == Near(errors[n], ago(n, 2)) /\ Near(errors[n], ago(n, 4))
    IN  /\ \A n \in 1 .. Len(errors) - 1 : ~settled(n)
        /\ phase = "done" /\ pose # NaN /\ i < MaxIterations => settled(Len(errors))
        /\ phase = "run" /\ errors # <<>> => ~settled(Len(errors))

\* The scanner is moved by the translation the solver returned, whatever the
\* rotation and the distance from the origin of the map: the rotation is about
\* the scanner, up to the fraction that its center in whole millimetres drops.
\* The matrix is never scaled or skewed.  The pose is lost exactly when the
\* solver had no rotation, or no number, for an iteration
ScannerMoves ==
    LET lost == motion = NaN \/ motion.quarters = 0
    IN  /\ phase \in {"scan", "imu", "run", "done", "moved"} /\ i \in 0 .. MaxIterations
        /\ (pose = NaN) = (from # NaN /\ lost)
        /\ pose # NaN => Product(pose.turn, Transpose(pose.turn)) = Identity
        /\ pose # NaN /\ from # NaN =>
            \A a \in Axes : Magnitude(pose.move[a] - from.move[a] - motion.move[a]) <= 2

\* What lu_decomposition and lu_solve make of the normal equations solves them
SolverSolves ==
    sum # NaN =>
        LET A  == Equations.A
            LU == LuDecomposition(A)
            x  == LuSolve(LU, Equations.b)
        IN  (\A r \in 1 .. 6 : LU[r][r] # 0) =>
                \A r \in 1 .. 6 : SumOfSix(LAMBDA c : A[r][c] * x[c]) % Prime = Equations.b[r]
=============================================================================
