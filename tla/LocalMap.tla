------------------------------ MODULE LocalMap ------------------------------
(***************************************************************************)
(* map::LocalMap: a window of the global map around pos_, kept in an array *)
(* that is a ring on every axis.  A shift saves the cells that leave the   *)
(* window into the global map, moves the ring, and loads the cells that    *)
(* enter, one axis after the other.                                        *)
(*                                                                         *)
(* The global map is the memory that module GlobalMap implements.  A slot  *)
(* of the array is named by its index on every axis; get_index flattens it *)
(* one-to-one.                                                             *)
(***************************************************************************)
EXTENDS Integers

CONSTANTS
    NumAxes,    \* 3 in the code
    Size,       \* size_, which the constructor makes odd
    ChunkSize,  \* GlobalMap::CHUNK_SIZE
    Reach,      \* bound: how far from 0 the window's centre goes
    Used,       \* bound: the cells that are written
    Values,     \* values of a cell
    Default,    \* the global map's initial value
    Void        \* what a write returns

Axes == 1 .. NumAxes

ASSUME NumAxesAssumption   == NumAxes \in Nat \ {0}
ASSUME SizeAssumption      == Size \in [Axes -> Nat] /\ \A a \in Axes : Size[a] % 2 = 1
ASSUME ChunkSizeAssumption == ChunkSize \in Nat \ {0}
ASSUME ReachAssumption     == Reach \in Nat
ASSUME DefaultAssumption   == Default \in Values /\ Void \notin Values

VARIABLES
    pos, offset,    \* pos_ and offset_
    data,           \* data_
    global,         \* *map_
    target,         \* new_pos of the shift in progress
    axis,           \* its next axis; 0 between two shifts
    ret             \* what the last access returned

vars == <<pos, offset, data, global, target, axis, ret>>

Half    == [a \in Axes |-> Size[a] \div 2]
Centres == [Axes -> -Reach .. Reach]
Most(S) == CHOOSE m \in S : \A n \in S : n <= m
Widest  == Most({Size[a] : a \in Axes})
Cells   == {p \in [Axes -> -(Reach + Widest) .. Reach + Widest] :
               \A a \in Axes : p[a] \in -(Reach + Half[a]) .. Reach + Half[a]}
Slots   == {i \in [Axes -> 0 .. Widest - 1] : \A a \in Axes : i[a] < Size[a]}

ASSUME UsedAssumption == Used \subseteq Cells

Abs(n) == IF n < 0 THEN -n ELSE n

InBoundsRoundedUp(p) == \A a \in Axes : Abs(p[a] - pos[a]) <= (Size[a] + 1) \div 2
InBounds(p) == \A a \in Axes : Abs(p[a] - pos[a]) <= Half[a]

\* get_index
Index(p, centre, off) ==
    [a \in Axes |-> (p[a] - centre[a] + off[a] + Size[a]) % Size[a]]

Init ==
    /\ pos = [a \in Axes |-> 0] /\ offset = Half
    /\ global = [p \in Cells |-> Default]
    /\ data = [i \in Slots |-> Default]     \* get_value(0, 0, 0)
    /\ target = pos /\ axis = 0
    /\ ret = Void

-----------------------------------------------------------------------------
(***************************** save_load_area ******************************)

OpenEnds(from, to) ==
    UNION {{c * ChunkSize + d : d \in (IF c = from \div ChunkSize THEN from % ChunkSize ELSE 0)
                                      .. ChunkSize - 2}
           : c \in from \div ChunkSize .. to \div ChunkSize}
\* What the loops visit on one axis: chunk after chunk, the first one from
\* start_delta on, the last one up to end_delta.
Visited(from, to) ==
    UNION {{c * ChunkSize + d :
              d \in (IF c = from \div ChunkSize THEN from % ChunkSize ELSE 0)
                    .. (IF c = to \div ChunkSize THEN to % ChunkSize ELSE ChunkSize - 1)}
           : c \in from \div ChunkSize .. to \div ChunkSize}

Area(start, end) ==
    LET visited == [a \in Axes |-> Visited(start[a], end[a])]
    IN  {p \in Cells : \A a \in Axes : p[a] \in visited[a]}

Low(centre)  == [a \in Axes |-> centre[a] - Half[a]]
High(centre) == [a \in Axes |-> centre[a] + Half[a]]

\* The global map after the area was saved to it, and the array after the area
\* was loaded from g.  No two cells of the window share a slot.
Saved(area) == [p \in Cells |-> IF p \in area THEN data[Index(p, pos, offset)] ELSE global[p]]

Loaded(area, g, centre, off) ==
    [i \in Slots |-> LET cells == {p \in area : Index(p, centre, off) = i}
                     IN  IF cells = {} THEN data[i] ELSE g[CHOOSE p \in cells : TRUE]]

-----------------------------------------------------------------------------
(********************************** shift **********************************)

\* The assertion: beyond it the program aborts.
Shift(new) ==
    /\ axis = 0
    /\ \A a \in Axes : Abs(new[a] - pos[a]) <= Size[a]
    /\ target' = new /\ axis' = 1
    /\ UNCHANGED <<pos, offset, data, global, ret>>

LeavingLessOne(a, diff) ==
    IF diff > 0 THEN Area(Low(pos), [High(pos) EXCEPT ![a] = Low(pos)[a] + diff - 2])
                ELSE Area([Low(pos) EXCEPT ![a] = High(pos)[a] + diff + 2], High(pos))
\* Step 1: the cells that leave at one end ...
Leaving(a, diff) ==
    IF diff > 0 THEN Area(Low(pos), [High(pos) EXCEPT ![a] = Low(pos)[a] + diff - 1])
                ELSE Area([Low(pos) EXCEPT ![a] = High(pos)[a] + diff + 1], High(pos))

\* ... and step 3: those that enter at the other one.
Entering(a, diff, centre) ==
    IF diff > 0 THEN Area([Low(centre) EXCEPT ![a] = High(centre)[a] - (diff - 1)], High(centre))
                ELSE Area(Low(centre), [High(centre) EXCEPT ![a] = Low(centre)[a] - diff - 1])

MovedOffset(a, diff) == [offset EXCEPT ![a] = (@ + diff + Size[a]) % Size[a]]

NextAxis == axis' = IF axis = NumAxes THEN 0 ELSE axis + 1

ShiftAxis ==
    LET diff   == target[axis] - pos[axis]
        centre == [pos EXCEPT ![axis] = @ + diff]
        saved  == Saved(Leaving(axis, diff))
    IN  /\ axis # 0 /\ diff # 0
        /\ global' = saved
        /\ pos' = centre
        /\ offset' = MovedOffset(axis, diff)
        /\ data' = Loaded(Entering(axis, diff, centre), saved, centre, MovedOffset(axis, diff))
        /\ NextAxis
        /\ UNCHANGED <<target, ret>>

SkipAxis ==
    /\ axis # 0 /\ target[axis] = pos[axis]
    /\ NextAxis
    /\ UNCHANGED <<pos, offset, data, global, target, ret>>

-----------------------------------------------------------------------------
(*************************** value and write_back **************************)

\* value() throws out_of_range outside the window.
Get(p) ==
    /\ axis = 0 /\ InBounds(p)
    /\ ret' = data[Index(p, pos, offset)]
    /\ UNCHANGED <<pos, offset, data, global, target, axis>>

Set(p, v) ==
    /\ axis = 0 /\ InBounds(p)
    /\ data' = [data EXCEPT ![Index(p, pos, offset)] = v]
    /\ ret' = Void
    /\ UNCHANGED <<pos, offset, global, target, axis>>

WriteBack ==
    /\ axis = 0
    /\ global' = Saved(Area(Low(pos), High(pos)))
    /\ UNCHANGED <<pos, offset, data, target, axis, ret>>

Next ==
    \/ \E new \in Centres : Shift(new)
    \/ ShiftAxis \/ SkipAxis
    \/ \E p \in Cells : Get(p)
    \/ \E p \in Used, v \in Values : Set(p, v)
    \/ WriteBack

Spec == Init /\ [][Next]_vars

-----------------------------------------------------------------------------
(******************************* properties ********************************)

\* Every variable keeps its type; the offset stays inside the array.
TypeOK ==
    /\ pos \in Centres /\ target \in Centres
    /\ offset \in Slots
    /\ data \in [Slots -> Values]
    /\ global \in [Cells -> Values]
    /\ axis \in 0 .. NumAxes
    /\ ret \in Values \cup {Void}

\* No two cells of the window share a slot of the ring, wherever the shifts have
\* moved pos_ and offset_.
OneCellPerSlot ==
    /\ TypeOK
    /\ \A p, q \in {r \in Cells : InBounds(r)} :
           Index(p, pos, offset) = Index(q, pos, offset) => p = q

\* Every cell of the world, in the window or not, holds the value written to it
\* last: shifts, in any direction, forth and back, change none, not even between
\* two of their axes.
World == [p \in Cells |-> IF InBounds(p) THEN data[Index(p, pos, offset)] ELSE global[p]]
WorldMap == INSTANCE Memory WITH mem <- World
ImplementsMemory == WorldMap!Spec

\* After write_back the global map alone holds the world.
WriteBackSavesAll == [][WriteBack => global' = World]_vars
=============================================================================
