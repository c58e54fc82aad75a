----------------------------- MODULE ScanFilters -----------------------------
(***************************************************************************)
(* The filters of Preprocessing, as functions on clouds.  A cloud is a     *)
(* sequence of points, a point a sequence of three coordinates in mm.  The *)
(* reduction filters collect one point per voxel in an unordered map, and  *)
(* deliver them in an order nobody knows: here their result is a set.      *)
(***************************************************************************)
EXTENDS Integers, FiniteSets, FiniteSetsExt, Sequences, SequencesExt

CONSTANTS
    MapResolution,  \* MAP_RESOLUTION
    MapBounds       \* map_bounds: half the size of the local map, in mm

ASSUME ScanAssumption == MapResolution \in Nat \ {0} /\ MapBounds \in Nat \X Nat \X Nat

Axes == 1 .. 3
Zero == <<0, 0, 0>>

\* C's division: towards zero
Quot(a, b) == IF a >= 0 THEN a \div b ELSE -((-a) \div b)
Magnitude(n) == IF n < 0 THEN -n ELSE n

Add(p, q)  == <<p[1] + q[1], p[2] + q[2], p[3] + q[3]>>
Less(p, q) == <<p[1] - q[1], p[2] - q[2], p[3] - q[3]>>
Square(p)  == p[1] * p[1] + p[2] * p[2] + p[3] * p[3]

\* norm() of a vector of int, or of float as an int
Length(p) ==
    CHOOSE n \in 0 .. Magnitude(p[1]) + Magnitude(p[2]) + Magnitude(p[3]) :
        n * n <= Square(p) /\ Square(p) < (n + 1) * (n + 1)

-----------------------------------------------------------------------------

\* Shared by the first three filters: the points that are there, and not beyond
\* the local map
Passes(p) == p # Zero /\ \A a \in Axes : Magnitude(p[a]) <= MapBounds[a]
Passing(cloud) == {p \in ToSet(cloud) : Passes(p)}

Voxel(p) == [a \in Axes |-> p[a] \div MapResolution]
Center(v) == [a \in Axes |-> v[a] * MapResolution + MapResolution \div 2]
Voxels(points) == {Voxel(p) : p \in points}

\* The turns of the loop over the points that come to voxel v
InVoxel(cloud, v) == {n \in DOMAIN cloud : Passes(cloud[n]) /\ Voxel(cloud[n]) = v}

\* Mutant: with a default that a corner of the voxel may not beat
NearDistance == MapResolution \div 2

\* The point that the loop leaves in the voxel: the first one that is nearest to
\* its center, as long as it is nearer than the default
DefaultDistance == 2 * MapResolution
Closest(cloud, v) ==
    LET distance(n) == Length(Less(cloud[n], Center(v)))
        near == {n \in InVoxel(cloud, v) : distance(n) < DefaultDistance}
    IN  IF near = {} THEN Zero
        ELSE cloud[CHOOSE n \in near : \A m \in near : \/ distance(n) < distance(m)
                                                       \/ distance(n) = distance(m) /\ n <= m]

\* What a loop that adds f[n] in turn n has after N turns
TotalUpTo(f, N) ==
    LET upTo[n \in 0 .. N] == IF n = 0 THEN 0 ELSE upTo[n - 1] + f[n]
    IN  upTo[N]

Average(cloud, v) ==
    LET here == InVoxel(cloud, v)
        added(a) == [n \in DOMAIN cloud |-> IF n \in here THEN cloud[n][a] ELSE 0]
        mean(a) == Quot(TotalUpTo(added(a), Len(cloud)), Cardinality(here))
    IN  <<mean(1), mean(2), mean(3)>>

ReduceClosest(cloud) == {Closest(cloud, v) : v \in Voxels(Passing(cloud))}
ReduceAverage(cloud) == {Average(cloud, v) : v \in Voxels(Passing(cloud))}
ReduceCenter(cloud)  == {Center(v) : v \in Voxels(Passing(cloud))}

\* The cloud is shuffled and the first point of a voxel stays: any choice of
\* one point per voxel.  This filter has no bounds.
ReduceRandom(cloud) ==
    LET points == ToSet(cloud) \ {Zero}
    IN  {{pick[v] : v \in Voxels(points)} :
            pick \in {f \in [Voxels(points) -> points] :
                        \A v \in Voxels(points) : Voxel(f[v]) = v}}

-----------------------------------------------------------------------------

\* median_from_array: norm() of a vector of int is an int, so that points less than
\* a millimetre apart in length may tie.  Which of several equally long points
\* nth_element leaves in the middle, the window alone decides.
Median(window) ==
    LET half == Len(window) \div 2
        nearer(i) == {j \in 1 .. Len(window) : Length(window[j]) < Length(window[i])}
        upTo(i) == {j \in 1 .. Len(window) : Length(window[j]) <= Length(window[i])}
    IN  window[CHOOSE i \in 1 .. Len(window) :
                  Cardinality(nearer(i)) <= half /\ half < Cardinality(upTo(i))]

\* Mutant: the window goes on in the same column
ColumnWindow(cloud, rings, size, i) ==
    [j \in 1 .. size |-> cloud[((i - 1 + (j - 1 - size \div 2)) % Len(cloud)) + 1]]

\* A cloud is a sequence of columns with one point per ring.  The window of a
\* point is on its own ring and goes round the scan.
Window(cloud, rings, size, i) ==
    [j \in 1 .. size |->
        cloud[((i - 1 + (j - 1 - size \div 2) * rings) % Len(cloud)) + 1]]

MedianFilter(cloud, rings, size) ==
    IF size % 2 = 0 THEN cloud
    ELSE [i \in 1 .. Len(cloud) |-> Median(Window(cloud, rings, size, i))]
=============================================================================
