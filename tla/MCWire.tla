------------------------------- MODULE MCWire -------------------------------
(***************************************************************************)
(* Small measurements for Wire.                                            *)
(***************************************************************************)
EXTENDS Wire

Field(pos, known) ==
    [c \in (pos[1] - 1 .. pos[1] + 1) \X {pos[2]} \X (pos[3] - 1 .. pos[3] + 1) |->
        [value |-> c[1] - pos[1] + 2 * (c[3] - pos[3]), weight |-> IF c[1] = c[3] THEN known ELSE 1]]
WindowSize == <<3, 1, 3>>

Deviations == [acc |-> 2, ang |-> 3, mag |-> 4]

Turn == <<0, 0, 0, 1>>
NoTurn == <<1, 0, 0, 0>>

Imus   == {[m |-> [acc |-> 1, ang |-> 2, mag |-> 3], s |-> 1], [m |-> [acc |-> 4, ang |-> 5, mag |-> 6], s |-> 1]}
Clouds == {[m |-> <<>>, s |-> 1], [m |-> <<3>>, s |-> 2], [m |-> <<-1, 2>>, s |-> 1]}
Maps   ==
    {[m |-> [pos |-> <<0, 0, 0>>, offset |-> <<1, 0, 2>>, field |-> Field(<<0, 0, 0>>, 0)], s |-> 2],
     [m |-> [pos |-> <<1, 2, 0>>, offset |-> <<0, 0, 1>>, field |-> Field(<<1, 2, 0>>, 3)], s |-> 1],
     [m |-> [pos |-> <<0, 0, 0>>, offset |-> <<0, 0, 0>>,
             field |-> [c \in DOMAIN Field(<<0, 0, 0>>, 0) |-> [value |-> 0, weight |-> 0]]], s |-> 1]}
Poses  ==
    {[m |-> [rotation |-> NoTurn, translation |-> <<0, 0, 0>>], s |-> 1],
     [m |-> [rotation |-> Turn, translation |-> <<1, 2, -3>>], s |-> 2]}

Measurements ==
    "imu" :> Imus @@ "imu back" :> Imus @@ "cloud" :> Clouds @@ "cloud back" :> Clouds @@
    "tsdf" :> Maps @@ "transform" :> Poses @@
    "loam" :> {[m |-> <<1, 2, -3>>, s |-> 1], [m |-> <<4, 0, 1>>, s |-> 1]}

Parameters ==
    [k \in {"imu", "cloud", "tsdf"} |->
        {[discard |-> FALSE, save |-> FALSE], [discard |-> TRUE, save |-> FALSE]}] @@
    [k \in {"imu back", "cloud back"} |-> {[discard |-> FALSE, save |-> FALSE]}] @@
    [k \in {"transform", "loam"} |-> {[discard |-> FALSE, save |-> TRUE]}]

Messages == [k \in {"imu", "imu back", "cloud", "cloud back", "tsdf"} |-> 3] @@
            [k \in {"transform", "loam"} |-> 5]
=============================================================================
