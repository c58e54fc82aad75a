-------------------------------- MODULE Codec --------------------------------
(***************************************************************************)
(* What the programs of both sides of the network make of a measurement:   *)
(* the message the board sends of it, the parts of that message on the     *)
(* socket, and what a bridge reads out of them for ROS.                    *)
(*                                                                         *)
(* The board counts millimetres, times the scaling of a message; ROS's     *)
(* lengths are real numbers, here whole numbers of fractions of a          *)
(* millimetre.  The coordinates of a point of a cloud are all treated      *)
(* alike, so that a point is one number.                                   *)
(***************************************************************************)
EXTENDS Integers, SequencesExt

CONSTANTS
    Fractions,      \* of a millimetre
    PerSecond,      \* ticks of the clock
    Stdev,          \* params: the standard deviations of acc, ang and mag
    Rings,          \* PointCloud::rings_
    Resolution,     \* MAP_RESOLUTION
    Tau, Size,      \* TSDF::tau_, size_
    ThreadCount     \* thread_count

\* The deviations in params are not 0; LocalMap makes its sizes odd.
ASSUME CodecAssumption ==
    /\ {Fractions, PerSecond, Stdev.mag, ThreadCount} \subseteq Nat \ {0}
    /\ {Tau, Resolution} \subseteq Nat
    /\ \A a \in 1 .. 3 : Size[a] \in Nat /\ Size[a] % 2 = 1

Three(f(_)) == <<f(1), f(2), f(3)>>
Scaled(v, s) == [k \in DOMAIN v |-> v[k] * s]

-----------------------------------------------------------------------------
(***************************** lengths and times ***************************)

\* millimetres * 0.001 / scaling
FromBoard(x, scaling) == (x * Fractions) \div scaling
\* metres * 1000.f, assigned to an integer
ToBoard(x) == IF x >= 0 THEN x \div Fractions ELSE -((-x) \div Fractions)

\* seconds and nanoseconds
RosTime(tick) == <<tick \div PerSecond, tick % PerSecond>>

-----------------------------------------------------------------------------
(**************************** the local map's ring *************************)

\* get_tsdf_value
GetIndex(d, c) ==
    LET at(a) == (c[a] - d.pos[a] + d.offset[a] + d.size[a]) % d.size[a]
    IN  (at(1) * d.size[2] + at(2)) * d.size[3] + at(3)

\* left and right; the cells in the order of the loops
Left(d)  == Three(LAMBDA a : d.pos[a] - d.size[a] \div 2)
Right(d) == Three(LAMBDA a : d.pos[a] + d.size[a] \div 2)
Window(d) ==
    LET n == Three(LAMBDA a : Right(d)[a] - Left(d)[a] + 1)
    IN  [k \in 1 .. n[1] * n[2] * n[3] |->
            <<Left(d)[1] + ((k - 1) \div (n[2] * n[3])),
              Left(d)[2] + (((k - 1) \div n[3]) % n[2]),
              Left(d)[3] + ((k - 1) % n[3])>>]

-----------------------------------------------------------------------------
(************************** messages of the board **************************)

CloudOf(points, s) == [rings |-> Rings, points |-> Scaled(points, s), scaling |-> s]
TransformOf(m, s)  ==
    [rotation |-> m.rotation, translation |-> Scaled(m.translation, s), scaling |-> s]
\* map_thread: the array of the local map, as it is
TsdfOf(m, s) ==
    LET map == [size |-> Size, pos |-> m.pos, offset |-> m.offset]
    IN  [tau |-> Tau, size |-> Size, pos |-> m.pos, offset |-> m.offset, scaling |-> s,
         data |-> [n \in 0 .. Size[1] * Size[2] * Size[3] - 1 |->
                      m.field[CHOOSE c \in ToSet(Window(map)) : GetIndex(map, c) = n]]]

\* to_zmq_msg
CloudParts(d)     == <<d.rings, d.points, d.scaling>>
TsdfParts(d)      == <<d.tau, d.size, d.pos, d.offset, d.scaling, d.data>>
\* A Quaternionf is (w, x, y, z)
TransformParts(d) ==
    <<d.translation, <<d.rotation[2], d.rotation[3], d.rotation[4], d.rotation[1]>>, d.scaling>>

\* Mutant: the object's points stay
CloudFromPartsAppends(parts, held) ==
    [rings |-> parts[1], points |-> held.points \o parts[2], scaling |-> parts[3]]

\* from_zmq_msg, into an object that may hold the message before
CloudFromParts(parts, held) == [rings |-> parts[1], points |-> parts[2], scaling |-> parts[3]]
TsdfFromParts(parts, held) ==
    [tau |-> parts[1], size |-> parts[2], pos |-> parts[3], offset |-> parts[4],
     scaling |-> parts[5], data |-> parts[6]]
TransformFromParts(parts, held) ==
    LET q == parts[2]
    IN  [translation |-> parts[1], rotation |-> <<q[4], q[1], q[2], q[3]>>, scaling |-> parts[3]]

-----------------------------------------------------------------------------
(***************************** messages of ROS *****************************)

\* initCovariance: the variances on the diagonal
Covariance(stdev) ==
    [idx \in 0 .. 8 |-> IF idx \div 3 = idx % 3 THEN stdev * stdev ELSE 0]

ImuToRos(d) ==
    [raw |-> [acceleration |-> d.acc, velocity |-> d.ang,
              covariances |-> <<Covariance(Stdev.acc), Covariance(Stdev.ang)>>],
     mag |-> [field |-> d.mag, covariance |-> Covariance(Stdev.mag)]]

CloudToRos(d) == [k \in DOMAIN d.points |-> FromBoard(d.points[k], d.scaling)]

PoseToRos(d) ==
    [orientation |-> <<d.rotation[2], d.rotation[3], d.rotation[4], d.rotation[1]>>,
     position |-> Three(LAMBDA a : FromBoard(d.translation[a], d.scaling))]

\* One point of the marker; its colour is a share of tau, red or green.
Colour(d, v) == IF v >= 0 THEN [r |-> <<v, d.tau>>, g |-> 0] ELSE [r |-> 0, g |-> <<-v, d.tau>>]
Point(d, c)  == Three(LAMBDA a : FromBoard(c[a] * Resolution, d.scaling))
Shown(d, c)  ==
    LET val == d.data[GetIndex(d, c)]
    IN  val.weight # 0 /\ val.value < d.tau /\ -val.value < d.tau

\* What a turn of the loop pushes back
Pushed(d, c) ==
    IF Shown(d, c) THEN <<<<Point(d, c), Colour(d, d.data[GetIndex(d, c)].value)>>>> ELSE <<>>

\* schedule(static): contiguous shares of the loop, the first ones longer by one
ShareEnd(n, t) == t * (n \div ThreadCount) + (IF t < n % ThreadCount THEN t ELSE n % ThreadCount)
Share(d, t) ==
    LET w == Window(d)
        from == ShareEnd(Len(w), t - 1)
    IN  FlattenSeq([k \in 1 .. ShareEnd(Len(w), t) - from |-> Pushed(d, w[from + k])])

\* The results of the threads, each copied behind those of the threads before
MarkerToRos(d) == FlattenSeq([t \in 1 .. ThreadCount |-> Share(d, t)])

-----------------------------------------------------------------------------
(************************** messages of ROS, back **************************)

\* pcl1_callback and pcl2_callback; a new cloud has no rings and scaling 1.
CloudFromRos(points) == [rings |-> 0, points |-> [k \in DOMAIN points |-> ToBoard(points[k])],
                         scaling |-> 1]
\* imu_callback leaves the magnetic field at 0.
ImuFromRos(m) == [acc |-> m.acc, ang |-> m.ang, mag |-> 0]

-----------------------------------------------------------------------------
(**************************** files of poses *******************************)

\* Mutant: the position as KITTI has it, with y downwards
ToCameraYDown(pose) ==
    LET q == pose.orientation p == pose.position
    IN  [orientation |-> <<-q[2], -q[3], -q[1], q[4]>>, position |-> <<-p[2], -p[3], p[1]>>]
\* savePose: the pose in the frame of a camera.  The matrix that is written
\* stands for the quaternion it is made of.
ToCamera(pose) ==
    LET q == pose.orientation p == pose.position
    IN  [orientation |-> <<-q[2], -q[3], -q[1], q[4]>>, position |-> <<-p[2], p[3], p[1]>>]

\* pose_vis, matrix_mode
FromCamera(pose) ==
    LET q == pose.orientation p == pose.position
    IN  [orientation |-> <<-q[3], -q[1], -q[2], q[4]>>, position |-> <<p[3], -p[1], p[2]>>]
=============================================================================
