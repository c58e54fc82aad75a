------------------------------ MODULE GlobalMap ------------------------------
(***************************************************************************)
(* map::GlobalMap: the map is cut into chunks, all of them live in a file, *)
(* and at most NumChunks of them are active in memory.  A chunk that is    *)
(* needed is activated, which may write another one back to the file.      *)
(*                                                                         *)
(* Cells lie on a line: what the code does per axis it does once here.     *)
(***************************************************************************)
EXTENDS Integers, Sequences

CONSTANTS
    Cells,      \* bound: the cells that are used
    ChunkSize,  \* CHUNK_SIZE
    NumChunks,  \* NUM_CHUNKS
    Values,     \* values of a cell
    Default,    \* initial_tsdf_value_
    Void        \* what set_value returns

ASSUME ChunkSizeAssumption == ChunkSize \in Nat \ {0}
ASSUME NumChunksAssumption == NumChunks \in Nat \ {0}
ASSUME CellsAssumption     == Cells \subseteq Int
ASSUME DefaultAssumption   == Default \in Values /\ Void \notin Values

VARIABLES
    active,     \* active_chunks_
    file,       \* the data sets of the file: a function of the chunk position
    ret         \* what the last call returned

vars == <<active, file, ret>>

\* floor_divide and index_from_pos on one axis; \div rounds down, as the code's
\* std::floor does.
ChunkPos(p) == p \div ChunkSize
IndexFromPos(p) == p - ChunkPos(p) * ChunkSize

Chunks  == {ChunkPos(p) : p \in Cells}
Indexes == 0 .. ChunkSize - 1
Blank   == [i \in Indexes |-> Default]
Slots   == DOMAIN active

Init ==
    /\ active = <<>> /\ file = <<>>
    /\ ret = Void

-----------------------------------------------------------------------------
(***************************** activate_chunk ******************************)

\* Younger slots than i grow older, and i becomes the youngest.
UpdateAges(slots, i) ==
    [j \in DOMAIN slots |->
        [slots[j] EXCEPT !.age = IF j = i THEN 0
                                 ELSE IF @ < slots[i].age THEN @ + 1 ELSE @]]

ForgetFile(c) == Blank
\* the chunk as it is in the file, or a new one
Fetch(c) == IF c \in DOMAIN file THEN file[c] ELSE Blank

CreateDataSet(f, slot) ==
    [c \in DOMAIN f \cup {slot.pos} |-> IF c = slot.pos THEN slot.data ELSE f[c]]
KeepOldDataSet(f, slot) == IF slot.pos \in DOMAIN f THEN f ELSE CreateDataSet(f, slot)
\* The chunk of a slot goes into its data set, if there is one, or into a new one.
WriteChunk(f, slot) ==
    IF slot.pos \in DOMAIN f THEN [f EXCEPT ![slot.pos] = slot.data]
    ELSE CreateDataSet(f, slot)

\* the first slot with the greatest age
Oldest ==
    CHOOSE i \in Slots : \A j \in Slots :
        active[j].age < active[i].age \/ (active[j].age = active[i].age /\ i <= j)

MissLastSlot(c) == {i \in Slots : active[i].pos = c /\ i < Len(active)}
Holding(c) == {i \in Slots : active[i].pos = c}

Hit(i) == [slots |-> UpdateAges(active, i), file |-> file, index |-> i]

\* The new slot starts with the greatest age, so that all others grow older.
Load(c) ==
    LET n    == Len(active) + 1
        slot == [pos |-> c, age |-> n - 1, data |-> Fetch(c)]
    IN  [slots |-> UpdateAges(Append(active, slot), n), file |-> file, index |-> n]

\* Here it starts with age 0, and no other slot grows older.
Replace(c) ==
    LET slot == [pos |-> c, age |-> 0, data |-> Fetch(c)]
    IN  [slots |-> UpdateAges([active EXCEPT ![Oldest] = slot], Oldest),
         file  |-> WriteChunk(file, active[Oldest]),
         index |-> Oldest]

\* What activating c does to the slots and the file, and the slot c then has.
Activations(c) ==
    IF Holding(c) # {} THEN {Hit(i) : i \in Holding(c)}
    ELSE IF Len(active) < NumChunks THEN {Load(c)}
    ELSE {Replace(c)}

-----------------------------------------------------------------------------

GetValue(p) ==
    \E a \in Activations(ChunkPos(p)) :
        /\ active' = a.slots /\ file' = a.file
        /\ ret' = a.slots[a.index].data[IndexFromPos(p)]

SetValue(p, v) ==
    \E a \in Activations(ChunkPos(p)) :
        /\ active' = [a.slots EXCEPT ![a.index].data[IndexFromPos(p)] = v]
        /\ file' = a.file
        /\ ret' = Void

\* The file after the loop over the active chunks, first to last
WriteActive ==
    LET written[n \in 0 .. Len(active)] ==
            IF n = 0 THEN file ELSE WriteChunk(written[n - 1], active[n])
    IN  written[Len(active)]

WriteBack ==
    /\ file' = WriteActive
    /\ UNCHANGED <<active, ret>>

Next ==
    \/ \E p \in Cells : GetValue(p) \/ \E v \in Values : SetValue(p, v)
    \/ WriteBack

Spec == Init /\ [][Next]_vars

-----------------------------------------------------------------------------
(******************************* properties ********************************)

\* Every variable keeps its type, and memory never holds more than NumChunks.
TypeOK ==
    /\ active \in Seq([pos : Chunks, age : 0 .. NumChunks - 1, data : [Indexes -> Values]])
    /\ Len(active) <= NumChunks
    /\ DOMAIN file \subseteq Chunks
    /\ file \in [DOMAIN file -> [Indexes -> Values]]
    /\ ret \in Values \cup {Void}

\* A chunk is never active twice: the two copies would diverge.
ActiveOnce ==
    /\ TypeOK
    /\ \A i, j \in Slots : active[i].pos = active[j].pos => i = j

\* The value of cell i of chunk c: in memory if the chunk is active, else in the
\* file, else the default.
InFile(f, c, i) == IF c \in DOMAIN f THEN f[c][i] ELSE Default
Content(slots, f, c, i) ==
    IF \E s \in DOMAIN slots : slots[s].pos = c
    THEN slots[CHOOSE s \in DOMAIN slots : slots[s].pos = c].data[i]
    ELSE InFile(f, c, i)

\* Whatever is activated, evicted, read again and written back in whatever
\* order, every cell holds the value written to it last.
Map == INSTANCE Memory WITH
    mem <- [p \in Cells |-> Content(active, file, ChunkPos(p), IndexFromPos(p))]
ImplementsMemory == Map!Spec

\* After write_back the file alone holds the map: the loop over the slots replaces
\* what eviction left of an active chunk, adds the chunks that were never evicted,
\* and leaves those alone that are not active.
WriteBackIsComplete ==
    [][WriteBack => \A p \in Cells :
          InFile(file', ChunkPos(p), IndexFromPos(p))
            = Content(active, file, ChunkPos(p), IndexFromPos(p))]_vars

=============================================================================
