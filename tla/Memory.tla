------------------------------- MODULE Memory -------------------------------
(***************************************************************************)
(* What a map promises whoever stores values in it: every cell holds the   *)
(* value written to it last, or the default.  Chunks, files, windows and   *)
(* shifts are not visible.                                                 *)
(***************************************************************************)
CONSTANTS
    Cells,      \* the addresses
    Values,     \* what a cell can hold
    Default,    \* what it holds before the first write
    Void        \* what a write returns

VARIABLES
    mem,        \* mem[p]: the value of cell p
    ret         \* what the last call returned

vars == <<mem, ret>>

Init ==
    /\ mem = [p \in Cells |-> Default]
    /\ ret = Void

Read(p) == ret' = mem[p] /\ UNCHANGED mem

Write(p, v) == ret' = Void /\ mem' = [mem EXCEPT ![p] = v]

Next == \E p \in Cells : Read(p) \/ \E v \in Values : Write(p, v)

Spec == Init /\ [][Next]_vars
=============================================================================
