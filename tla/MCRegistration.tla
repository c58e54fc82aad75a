--------------------------- MODULE MCRegistration ---------------------------
(***************************************************************************)
(* A map of 5 x 3 x 3 cells of 4 mm whose ring starts in the middle, a     *)
(* wall and a floor in it, and scans of up to five points.                 *)
(***************************************************************************)
EXTENDS RegKernel

MCMapBounds == <<8, 4, 4>>
MCMap == [size |-> <<5, 3, 3>>, pos |-> <<0, 1, 0>>, offset |-> <<3, 1, 2>>]
MCField == [c \in (-2 .. 2) \X (0 .. 2) \X (-1 .. 1) |->
               [value |-> 2 * c[1] + c[2] - 2 * c[3] + 1,
                weight |-> IF c[1] = -1 /\ c[2] = 0 THEN 0 ELSE 1]]

MCScans == {
    <<>>,
    <<<<5, 1, 2>>, <<-5, 2, -1>>, <<0, 0, 0>>, <<9, 0, 0>>, <<7, 2, 1>>>>,
    <<<<1, 1, 1>>, <<-1, -2, -1>>, <<6, 3, 3>>, <<-3, -1, -2>>>>,
    <<<<6, 3, 3>>, <<2, 3, -3>>, <<6, 2, 2>>, <<-7, 4, 4>>, <<3, -3, 1>>>>}

Turn(axis, n) == Rotation(axis, n)
MCImuMotions == {[turn |-> Identity, move |-> <<3, 0, 0>>],
                 [turn |-> Turn(<<0, 0, 1>>, 1), move |-> <<0, -1, 0>>]}
MCMotions == {[axis |-> <<0, 0, 1>>, quarters |-> 4, move |-> <<1, 0, -2>>],
              [axis |-> <<0, 0, -1>>, quarters |-> 1, move |-> <<0, 1, 0>>],
              [axis |-> <<1, 0, 0>>, quarters |-> 2, move |-> <<0, 0, 5>>],
              [axis |-> <<0, 0, 1>>, quarters |-> 0, move |-> <<1, 1, 1>>]}
=============================================================================
