----------------------------- MODULE TsdfKernel -----------------------------
(***************************************************************************)
(* One run of krnl_tsdf.  Every lane marches along the rays of its share   *)
(* of the points (read_points) and puts what it finds, with the cells      *)
(* above and below that lie between two rings, into new_entries            *)
(* (update_tsdf).  All lanes use the same memory.  When all are done, each *)
(* merges a range of the cells into the map (sync_loop).                   *)
(*                                                                         *)
(* The rays lie in one plane, and points and cells have two coordinates.   *)
(* The scanner is in the cell <<0, 0>>.  An entry is the record of its     *)
(* value and its weight; a weight is positive for a measured value,        *)
(* negative for an interpolated one, 0 for none.                           *)
(***************************************************************************)
EXTENDS Integers, Sequences, FiniteSets

CONSTANTS
    SplitFactor,        \* TSDF_SPLIT_FACTOR
    Radius,             \* half the size of the map, on two axes
    MapResolution,      \* MAP_RESOLUTION
    MatrixResolution,   \* MATRIX_RESOLUTION
    WeightResolution,   \* WEIGHT_RESOLUTION
    Tau,                \* slam.max_distance
    MaxWeight,          \* slam.max_weight, in units of WeightResolution
    DzPerDistance,      \* the distance of two rings, as TSDFKernel computes it
    Scans,              \* sequences of points that may be given to a run, none of them
                        \* in line with the up vector, where the kernel divides by 0
    Olds                \* entries the map may hold before it

Lanes == 0 .. SplitFactor - 1
Cells == (-Radius[1] .. Radius[1]) \X (-Radius[2] .. Radius[2])
Total == (2 * Radius[1] + 1) * (2 * Radius[2] + 1)

ASSUME LanesAssumption ==
    SplitFactor \in Nat \ {0} /\ Radius \in Nat \X Nat
ASSUME ResolutionAssumption ==
    /\ {MapResolution, MatrixResolution, WeightResolution, Tau, MaxWeight} \subseteq Nat \ {0}
    /\ DzPerDistance \in Nat

VARIABLES
    scan,       \* the points
    before,     \* history: the map as it was
    points,     \* points[l]: what read_points has not yet marched to in lane l
    stream,     \* stream[l]: its messages that update_tsdf has not yet received, by length
    pc, msg, step, index, oldIndex,     \* update_tsdf in lane l
    oldEntry,   \* old_entry in lane l
    entries,    \* new_entries
    offered,    \* history: what the lanes had to offer for a cell
    syncAt,     \* sync_loop in lane l: index
    map

updateVars == <<points, stream, pc, msg, step, index, oldIndex, oldEntry, entries, offered>>
vars == <<scan, before, updateVars, syncAt, map>>

-----------------------------------------------------------------------------
(******************************* read_points *******************************)

\* C's division: towards zero
Quot(a, b) == IF a >= 0 THEN a \div b ELSE -((-a) \div b)
Abs(n) == IF n < 0 THEN -n ELSE n
Lower(a, b) == IF a < b THEN a ELSE b

Plus(p, q)   == <<p[1] + q[1], p[2] + q[2]>>
Minus(p, q)  == <<p[1] - q[1], p[2] - q[2]>>
Times(p, n)  == <<p[1] * n, p[2] * n>>
Divide(p, n) == <<Quot(p[1], n), Quot(p[2], n)>>

\* round(sqrt(x^2 + y^2))
Norm(p) ==
    LET n == p[1] * p[1] + p[2] * p[2]
    IN  CHOOSE r \in 0 .. Abs(p[1]) + Abs(p[2]) :
            n <= r * r + r /\ (r = 0 \/ r * r - r < n)

ToMap(p) == Divide(p, MapResolution)
ToMm(c)  == Plus(Times(c, MapResolution), <<MapResolution \div 2, MapResolution \div 2>>)

Origin == ToMm(<<0, 0>>)
Direction(point) == Minus(point, Origin)
MaxDistance == (Radius[1] + Radius[2]) * MapResolution

\* direction X (direction X up), with up = <<0, MatrixResolution>>
Interpolation(point) ==
    LET n == Divide(Times(Direction(point), MatrixResolution), Norm(Direction(point)))
        right == Quot(-n[1] * MatrixResolution, MatrixResolution)
        across == <<-n[2] * right, n[1] * right>>
    IN  Divide(Times(across, MatrixResolution), Norm(across))

Proj(point, len) ==
    Plus(Origin, Divide(Times(Direction(point), len), Norm(Direction(point))))

Capped(distance) == Lower(distance, Tau)
Value(point, len) ==
    LET value == Capped(Norm(Minus(point, ToMm(ToMap(Proj(point, len))))))
    IN  IF len > Norm(Direction(point)) THEN -value ELSE value

Epsilon == Tau \div 10
Weight(value) ==
    IF value < -Epsilon
    THEN Quot(WeightResolution * (Tau + value), Tau - Epsilon) ELSE WeightResolution

\* The cell of every step of update_tsdf's interpolation, from step 0
Interpolated(point, len) ==
    LET deltaZ == (DzPerDistance * len) \div MatrixResolution
        n      == Interpolation(point)
        lowest == Minus(Proj(point, len), Divide(Times(n, deltaZ), MatrixResolution))
    IN  [k \in 0 .. (deltaZ * 2) \div MapResolution + 1 |->
            ToMap(Plus(lowest, Divide(Times(n, k * MapResolution), MatrixResolution)))]

Message(point, len) ==
    [value  |-> Value(point, len),
     weight |-> Weight(Value(point, len)),
     index  |-> ToMap(Proj(point, len)),
     cells  |-> Interpolated(point, len),
     middle |-> ((DzPerDistance * len) \div MatrixResolution) \div MapResolution]

\* tsdf_loop: half a cell at a time, from the cell next to the scanner to a
\* truncation distance behind the point; what is sent, by the length it was found at
Ray(point) ==
    LET end  == Lower(Norm(Direction(point)) + Tau, MaxDistance)
        half == MapResolution \div 2
        Sent(len) == /\ (len - MapResolution) % half = 0
                     /\ ToMap(Proj(point, len)) \in Cells
                     /\ Weight(Value(point, len)) # 0
    IN  [len \in {n \in MapResolution .. end : Sent(n)} |-> Message(point, len)]

\* A point in line with the up vector has the coordinate of the scanner to the side.
ASSUME ScansAssumption ==
    Scans \subseteq Seq({p \in Int \X Int : Direction(p)[1] # 0})

Points == UNION {{s[i] : i \in 1 .. Len(s)} : s \in Scans}
Rays   == [p \in Points |-> Ray(p)]

-----------------------------------------------------------------------------

Entries == [value : -Tau .. Tau, weight : Int]
Empty   == [value |-> 0, weight |-> 0]

ASSUME OldsAssumption == Olds \subseteq Entries

\* krnl_tsdf: the share of the points, ...
LanePoints(s, l) ==
    LET size == Len(s) \div SplitFactor
    IN  SubSeq(s, l * size + 1, IF l = SplitFactor - 1 THEN Len(s) ELSE (l + 1) * size)

\* ... and of the cells
SyncStep  == Total \div SplitFactor + 1
Start(l)  == l * SyncStep
EndTooEarly(l) == (l + 1) * (Total \div SplitFactor)
End(l)    == IF l = SplitFactor - 1 THEN Total ELSE (l + 1) * SyncStep
Flat(c)   == (c[1] + Radius[1]) * (2 * Radius[2] + 1) + c[2] + Radius[2]
CellAt    == [i \in 0 .. Total - 1 |-> CHOOSE c \in Cells : Flat(c) = i]

\* Holds for four lanes from 9 cells on: with less, the ranges leave the map.
ASSUME SizeAssumption == (SplitFactor - 1) * SyncStep <= Total

NoMessage == [value |-> 0, weight |-> 0, index |-> <<0, 0>>, cells |-> << >>, middle |-> 0]

Init ==
    /\ scan \in Scans
    /\ \E e \in Olds : before = [c \in Cells |-> e]
    /\ points = [l \in Lanes |-> LanePoints(scan, l)]
    /\ stream = [l \in Lanes |-> <<>>]
    /\ pc = [l \in Lanes |-> "loop"]
    /\ msg = [l \in Lanes |-> NoMessage] /\ step = [l \in Lanes |-> 1]
    /\ index = [l \in Lanes |-> <<0, 0>>] /\ oldIndex = [l \in Lanes |-> <<0, 0>>]
    /\ oldEntry = [l \in Lanes |-> Empty]
    /\ entries = [c \in Cells |-> Empty]
    /\ offered = [c \in Cells |-> {}]
    /\ syncAt = [l \in Lanes |-> Start(l)]
    /\ map = before

March(l) ==
    /\ DOMAIN stream[l] = {} /\ points[l] # <<>>
    /\ stream' = [stream EXCEPT ![l] = Rays[Head(points[l])]]
    /\ points' = [points EXCEPT ![l] = Tail(points[l])]
    /\ UNCHANGED <<scan, before, pc, msg, step, index, oldIndex, oldEntry, entries,
                   offered, syncAt, map>>

-----------------------------------------------------------------------------
(******************************* update_tsdf *******************************)

Steps(m) == IF m = NoMessage THEN 0 ELSE Cardinality(DOMAIN m.cells) - 1

\* The shortest of the lengths left
First(messages) == CHOOSE n \in DOMAIN messages : \A k \in DOMAIN messages : n <= k

Receive(l) ==
    LET first == First(stream[l])
    IN  /\ pc[l] = "loop" /\ step[l] > Steps(msg[l]) /\ DOMAIN stream[l] # {}
        /\ msg' = [msg EXCEPT ![l] = stream[l][first]]
        /\ stream' = [stream EXCEPT ![l] = [n \in (DOMAIN stream[l]) \ {first} |-> stream[l][n]]]
        /\ oldIndex' = [oldIndex EXCEPT ![l] = index[l]]
        /\ index' = [index EXCEPT ![l] = stream[l][first].index]
        /\ step' = [step EXCEPT ![l] = 0]
        /\ UNCHANGED <<scan, before, points, pc, oldEntry, entries, offered, syncAt, map>>

\* The dummy message with weight 0.
ReceiveLast(l) ==
    /\ pc[l] = "loop" /\ step[l] > Steps(msg[l]) /\ DOMAIN stream[l] = {} /\ points[l] = <<>>
    /\ pc' = [pc EXCEPT ![l] = "end"]
    /\ UNCHANGED <<scan, before, points, stream, msg, step, index, oldIndex, oldEntry,
                   entries, offered, syncAt, map>>

\* The cell of this message has just been processed.
Skip(l) ==
    /\ pc[l] = "loop" /\ step[l] <= Steps(msg[l]) /\ index[l] = oldIndex[l]
    /\ step' = [step EXCEPT ![l] = Steps(msg[l]) + 1]
    /\ UNCHANGED <<scan, before, points, stream, pc, msg, index, oldIndex, oldEntry,
                   entries, offered, syncAt, map>>

\* Outside the map some other entry is read, and not used.
ReadEntry(l) ==
    LET cell == msg[l].cells[step[l]]
    IN  /\ pc[l] = "loop" /\ step[l] <= Steps(msg[l]) /\ index[l] # oldIndex[l]
        /\ index' = [index EXCEPT ![l] = cell]
        /\ oldEntry' = [oldEntry EXCEPT ![l] = IF cell \in Cells THEN entries[cell] ELSE Empty]
        /\ pc' = [pc EXCEPT ![l] = "write"]
        /\ UNCHANGED <<scan, before, points, stream, msg, step, oldIndex, entries, offered,
                       syncAt, map>>

IsInterpolated(e) == e.weight <= 0
SmallerOnly(m, e) == Abs(m.value) < Abs(e.value)
IsBetter(m, e) == Abs(m.value) < Abs(e.value) \/ e.weight = 0

Merged(m, k, e) ==
    [value  |-> IF IsBetter(m, e) THEN m.value ELSE e.value,
     weight |-> IF IsInterpolated(e) THEN m.weight * (IF k # m.middle THEN -1 ELSE 1)
                                     ELSE e.weight]

WriteEntry(l) ==
    LET e == oldEntry[l]
        c == index[l]
    IN  /\ pc[l] = "write"
        /\ IF c \in Cells
           THEN /\ entries' = IF IsBetter(msg[l], e) \/ IsInterpolated(e)
                              THEN [entries EXCEPT ![c] = Merged(msg[l], step[l], e)]
                              ELSE entries
                /\ offered' = [offered EXCEPT ![c] = @ \cup
                       {[lane |-> l, value |-> msg[l].value, measured |-> step[l] = msg[l].middle]}]
           ELSE UNCHANGED <<entries, offered>>
        /\ step' = [step EXCEPT ![l] = @ + 1]
        /\ pc' = [pc EXCEPT ![l] = "loop"]
        /\ UNCHANGED <<scan, before, points, stream, msg, index, oldIndex, oldEntry, syncAt, map>>

-----------------------------------------------------------------------------
(******************************** sync_loop ********************************)

CappedFirst(old, new) ==
    LET weight == Lower(old.weight + new.weight, MaxWeight)
    IN  [value |-> Quot(old.value * old.weight + new.value * new.weight, weight), weight |-> weight]
Mean(old, new) ==
    LET weight == old.weight + new.weight
    IN  [value  |-> Quot(old.value * old.weight + new.value * new.weight, weight),
         weight |-> Lower(weight, MaxWeight)]

Synced(old, new) ==
    IF new.weight > 0 /\ old.weight > 0 THEN Mean(old, new)
    ELSE IF new.weight # 0 /\ old.weight <= 0 THEN new ELSE old

SyncCell(l) ==
    LET c == CellAt[syncAt[l]]
    IN  /\ \A k \in Lanes : pc[k] = "end"
        /\ syncAt[l] < End(l)
        /\ map' = [map EXCEPT ![c] = Synced(map[c], entries[c])]
        /\ syncAt' = [syncAt EXCEPT ![l] = @ + 1]
        /\ UNCHANGED <<scan, before, updateVars>>

Finished == \A l \in Lanes : pc[l] = "end" /\ syncAt[l] >= End(l)
Done == Finished /\ UNCHANGED vars

UpdateLane(l) == March(l) \/ Receive(l) \/ ReceiveLast(l) \/ Skip(l) \/ ReadEntry(l) \/ WriteEntry(l)
Next == Done \/ \E l \in Lanes : UpdateLane(l) \/ SyncCell(l)

Spec == Init /\ [][Next]_vars

-----------------------------------------------------------------------------
(******************************* properties ********************************)

\* Every variable keeps its type.
TypeOK ==
    /\ pc \in [Lanes -> {"loop", "write", "end"}]
    /\ \A l \in Lanes : syncAt[l] \in Start(l) .. End(l) /\ step[l] \in 0 .. Steps(msg[l]) + 1
    /\ \A c \in Cells : {entries[c], map[c]} \subseteq Entries

\* However the lanes overtake each other between reading an entry and writing it
\* back, an entry is empty only if nothing was offered for its cell, and its value
\* is one that was.
EntryWasOffered ==
    \A c \in Cells :
        IF offered[c] = {} THEN entries[c] = Empty
        ELSE entries[c].weight # 0 /\ \E o \in offered[c] : o.value = entries[c].value

\* krnl_tsdf.cpp:226: "we always want the smallest tsdf value in each cell, even
\* from interpolated values", and what was measured stays so - in the cells that
\* only one lane has to do with.
SmallestWinsAlone ==
    \A c \in Cells :
        (offered[c] # {} /\ \A o, p \in offered[c] : o.lane = p.lane) =>
            /\ \A o \in offered[c] : Abs(entries[c].value) <= Abs(o.value)
            /\ entries[c].weight > 0 <=> \E o \in offered[c] : o.measured

\* What the racing lanes leave for the synchronisation.
EntriesAreOffered == TypeOK /\ EntryWasOffered /\ SmallestWinsAlone

SyncedBy(c) == {l \in Lanes : Flat(c) \in Start(l) .. syncAt[l] - 1}

\* The ranges of the lanes meet without a gap and without an overlap: no cell is
\* averaged twice, and none is left out.
SyncsEveryCellOnce ==
    \A c \in Cells :
        /\ map[c] = IF SyncedBy(c) = {} THEN before[c] ELSE Synced(before[c], entries[c])
        /\ Finished => SyncedBy(c) # {}

\* Averaging moves a value towards the new one and never past it, a measured cell
\* stays measured, and what was only interpolated changes no measured cell.
MapStaysBetween ==
    \A c \in Cells :
        /\ map[c].value \in Lower(before[c].value, entries[c].value) ..
                            -Lower(-before[c].value, -entries[c].value)
        /\ before[c].weight > 0 => map[c].weight > 0
        /\ before[c].weight > 0 /\ entries[c].weight <= 0 => map[c] = before[c]
=============================================================================
