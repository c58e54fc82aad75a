---------------------------- MODULE MCTsdfKernel ----------------------------
(***************************************************************************)
(* A map of 7 x 3 cells of 4 units for TsdfKernel, the scanner at          *)
(* <<2, 2>>, and two or three points, of which the last lane has the rest. *)
(***************************************************************************)
EXTENDS TsdfKernel

MCRadius == <<3, 1>>

MCPoints == {<<9, 2>>, <<11, 5>>, <<-10, 2>>, <<8, -1>>}
MCScans  == {<<p, q>> : p, q \in MCPoints} \cup
            {<<p, <<8, -1>>, <<9, 2>>>> : p \in {<<-10, 2>>, <<11, 5>>}}

MCOlds == {[value |-> 0, weight |-> 0], [value |-> 4, weight |-> -4],
           [value |-> -3, weight |-> 2], [value |-> 6, weight |-> 5]}
=============================================================================
