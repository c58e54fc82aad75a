--------------------------- MODULE GlobalMapProofs ---------------------------
(***************************************************************************)
(* Proofs about GlobalMap for any cells, any size of a chunk, any number   *)
(* of slots and any values: a chunk is active once, and the write-back     *)
(* cache and the file together are one memory.                             *)
(***************************************************************************)
EXTENDS GlobalMap, WellFoundedInduction, SequenceTheorems, TLAPS

Slot == [pos : Chunks, age : 0 .. NumChunks - 1, data : [Indexes -> Values]]

\* The parts of the invariant, of any slots and any file
SlotsOK(slots) ==
    /\ slots \in Seq(Slot)
    /\ Len(slots) <= NumChunks
    /\ \A i, j \in DOMAIN slots : slots[i].pos = slots[j].pos => i = j

FileOK(f) ==
    /\ DOMAIN f \subseteq Chunks
    /\ f \in [DOMAIN f -> [Indexes -> Values]]

IInv == SlotsOK(active) /\ FileOK(file) /\ ret \in Values \cup {Void}

LEMMA IInvIsActiveOnce == IInv <=> ActiveOnce
BY DEF IInv, ActiveOnce, TypeOK, SlotsOK, FileOK, Slot, Slots

-----------------------------------------------------------------------------
(***************************** cells and chunks ****************************)

\* The two indexes are in range on both sides of 0 ...
LEMMA IndexesInRange ==
  ASSUME NEW p \in Cells
  PROVE  ChunkPos(p) \in Chunks /\ ChunkPos(p) \in Int /\ IndexFromPos(p) \in Indexes
<1>1. p \in Int /\ ChunkSize \in Nat /\ ChunkSize > 0
  BY CellsAssumption, ChunkSizeAssumption
<1>2. ChunkPos(p) \in Chunks
  BY DEF Chunks
<1>3. ChunkPos(p) \in Int
  BY <1>1 DEF ChunkPos
<1>4. IndexFromPos(p) \in Indexes
  BY <1>1 DEF IndexFromPos, ChunkPos, Indexes
<1> QED
  BY <1>2, <1>3, <1>4

\* ... and no two cells share them.
LEMMA IndexesDiffer ==
  ASSUME NEW p \in Cells, NEW q \in Cells,
         ChunkPos(p) = ChunkPos(q), IndexFromPos(p) = IndexFromPos(q)
  PROVE  p = q
<1>1. p \in Int /\ q \in Int /\ ChunkSize \in Int
  BY CellsAssumption, ChunkSizeAssumption
<1>2. ChunkPos(p) \in Int
  BY IndexesInRange
<1>3. ChunkPos(p) * ChunkSize \in Int
  BY <1>1, <1>2
<1> QED
  BY <1>1, <1>3 DEF IndexFromPos

-----------------------------------------------------------------------------
(******************************** contents *********************************)

Item(slot, i) == slot.data[i]

\* What the active copy of a chunk holds is what the chunk holds.
LEMMA ContentOfActive ==
  ASSUME NEW slots, NEW f, NEW c, NEW i, NEW s \in DOMAIN slots,
         SlotsOK(slots), slots[s].pos = c
  PROVE  Content(slots, f, c, i) = Item(slots[s], i)
<1>1. \A t \in DOMAIN slots : slots[t].pos = c => t = s
  BY DEF SlotsOK
<1>2. (CHOOSE t \in DOMAIN slots : slots[t].pos = c) = s
  BY <1>1
<1> QED
  BY <1>2 DEF Content, Item

LEMMA ContentOfInactive ==
  ASSUME NEW slots, NEW f, NEW c, NEW i, \A s \in DOMAIN slots : slots[s].pos # c
  PROVE  Content(slots, f, c, i) = InFile(f, c, i)
BY DEF Content

\* Ages do not matter to the contents.
LEMMA AgesKeepContents ==
  ASSUME NEW slots \in Seq(Slot), NEW i \in DOMAIN slots
  PROVE  LET aged == UpdateAges(slots, i)
         IN  /\ aged \in Seq(Slot) /\ Len(aged) = Len(slots)
             /\ DOMAIN aged = DOMAIN slots
             /\ \A j \in DOMAIN slots : aged[j].pos = slots[j].pos /\ aged[j].data = slots[j].data
<1> DEFINE aged == UpdateAges(slots, i)
<1>0. NumChunks \in Nat \ {0}
  BY NumChunksAssumption
<1>1. DOMAIN slots = 1 .. Len(slots) /\ Len(slots) \in Nat
  OBVIOUS
<1>2. DOMAIN aged = DOMAIN slots
  BY DEF UpdateAges
<1>3. ASSUME NEW j \in DOMAIN slots
      PROVE  aged[j] \in Slot /\ aged[j].pos = slots[j].pos /\ aged[j].data = slots[j].data
  <2> DEFINE age == IF j = i THEN 0
                    ELSE IF slots[j].age < slots[i].age THEN slots[j].age + 1 ELSE slots[j].age
  <2>1. slots[j] \in Slot /\ slots[i] \in Slot
    BY <1>1
  <2>2. age \in 0 .. NumChunks - 1
    BY <1>0, <2>1 DEF Slot
  <2>3. aged[j] = [slots[j] EXCEPT !.age = age]
    BY DEF UpdateAges
  <2> HIDE DEF age, aged
  <2>4. aged[j] = [pos |-> slots[j].pos, age |-> age, data |-> slots[j].data]
    BY <2>1, <2>3 DEF Slot
  <2> QED
    BY <2>1, <2>2, <2>4 DEF Slot
<1>4. aged = [j \in 1 .. Len(slots) |-> aged[j]]
  BY <1>1, <1>2 DEF UpdateAges
<1>5. aged \in Seq(Slot) /\ Len(aged) = Len(slots)
  <2> HIDE DEF aged
  <2>1. \A j \in 1 .. Len(slots) : aged[j] \in Slot
    BY <1>1, <1>3
  <2>2. aged \in [1 .. Len(slots) -> Slot]
    BY <1>4, <2>1
  <2> QED
    BY <1>1, <2>2
<1> QED
  BY <1>2, <1>3, <1>5

-----------------------------------------------------------------------------
(***************************** activate_chunk ******************************)

\* A set of natural numbers has a least one.
LEMMA Least ==
  ASSUME NEW T \in SUBSET Nat, T # {}
  PROVE  \E x \in T : \A y \in T : x <= y
<1> DEFINE R == OpToRel(<, Nat)
<1>1. IsWellFoundedOn(R, Nat)
  BY NatLessThanWellFounded
<1>2. \A x, y \in Nat : <<x, y>> \in R <=> x < y
  BY DEF OpToRel
<1> HIDE DEF R
<1>3. PICK x \in T : \A y \in T : <<y, x>> \notin R
  BY <1>1, WFMin
<1>4. ASSUME NEW y \in T
      PROVE  x <= y
  <2>1. x \in Nat /\ y \in Nat
    OBVIOUS
  <2>2. ~ (y < x)
    BY <1>2, <1>3, <2>1
  <2> QED
    BY <2>1, <2>2
<1> QED
  BY <1>4

\* There is an oldest slot as soon as there is a slot.
LEMMA OldestIsSlot ==
  ASSUME SlotsOK(active), Slots # {}
  PROVE  Oldest \in Slots
<1> DEFINE young(i) == NumChunks - active[i].age
<1>0. NumChunks \in Nat \ {0}
  BY NumChunksAssumption
<1>1. ASSUME NEW i \in Slots
      PROVE  active[i].age \in 0 .. NumChunks - 1 /\ i \in Nat
  <2>1. i \in 1 .. Len(active) /\ active \in Seq(Slot)
    BY DEF SlotsOK, Slots
  <2>2. active[i] \in Slot
    BY <2>1
  <2> QED
    BY <2>1, <2>2 DEF Slot
<1>2. PICK i \in Slots : \A j \in Slots : young(i) <= young(j)
  <2>1. {young(i) : i \in Slots} \in SUBSET Nat /\ {young(i) : i \in Slots} # {}
    BY <1>0, <1>1
  <2>2. PICK x \in {young(i) : i \in Slots} : \A y \in {young(i) : i \in Slots} : x <= y
    BY <2>1, Least
  <2> QED
    BY <2>2
<1> DEFINE eldest == {k \in Slots : active[k].age = active[i].age}
<1>3. PICK k \in eldest : \A j \in eldest : k <= j
  <2>1. eldest \in SUBSET Nat /\ eldest # {}
    BY <1>1
  <2> HIDE DEF eldest
  <2> QED
    BY <2>1, Least
<1>4. \A j \in Slots : active[j].age <= active[i].age
  BY <1>0, <1>1, <1>2
<1>5. k \in Slots /\ \A j \in Slots : active[j].age < active[k].age
                                      \/ (active[j].age = active[k].age /\ k <= j)
  BY <1>1, <1>3, <1>4
<1> QED
  BY <1>5 DEF Oldest

\* What activating chunk c promises
Activated(a, c) ==
    /\ SlotsOK(a.slots) /\ FileOK(a.file)
    /\ a.index \in DOMAIN a.slots /\ a.slots[a.index].pos = c
    /\ \A d \in Chunks, i \in Indexes :
            Content(a.slots, a.file, d, i) = Content(active, file, d, i)

LEMMA FetchOK ==
  ASSUME IInv, NEW c \in Chunks
  PROVE  Fetch(c) \in [Indexes -> Values] /\ \A i \in Indexes : Fetch(c)[i] = InFile(file, c, i)
BY DefaultAssumption DEF IInv, FileOK, Fetch, Blank, InFile

\* Writing a chunk, over its data set or into a new one, changes that chunk only.
LEMMA WriteChunkOK ==
  ASSUME NEW f, FileOK(f), NEW slot \in Slot, NEW g, g = WriteChunk(f, slot)
  PROVE  /\ FileOK(g)
         /\ \A i \in Indexes : InFile(g, slot.pos, i) = Item(slot, i)
         /\ \A d \in Chunks, i \in Indexes : d # slot.pos => InFile(g, d, i) = InFile(f, d, i)
<1>1. slot.pos \in Chunks /\ slot.data \in [Indexes -> Values]
  BY DEF Slot
<1>2. DOMAIN f \subseteq Chunks /\ f \in [DOMAIN f -> [Indexes -> Values]]
  BY DEF FileOK
<1>3. PICK pos, data : pos = slot.pos /\ data = slot.data
  OBVIOUS
<1>4. g = [d \in DOMAIN f \cup {pos} |-> IF d = pos THEN data ELSE f[d]]
  <2>1. CASE pos \in DOMAIN f
    <3>1. g = [f EXCEPT ![pos] = data]
      BY <1>3, <2>1 DEF WriteChunk
    <3>2. DOMAIN f \cup {pos} = DOMAIN f
      BY <2>1
    <3> QED
      BY <1>2, <2>1, <3>1, <3>2
  <2>2. CASE pos \notin DOMAIN f
    BY <1>3, <2>2 DEF WriteChunk, CreateDataSet
  <2> QED
    BY <2>1, <2>2
<1>5. /\ DOMAIN g = DOMAIN f \cup {pos} /\ g[pos] = data
      /\ \A d \in DOMAIN f : d # pos => g[d] = f[d]
  BY <1>4
<1>6. FileOK(g)
  <2>1. \A d \in DOMAIN g : g[d] \in [Indexes -> Values]
    BY <1>1, <1>2, <1>3, <1>5
  <2>2. g = [d \in DOMAIN g |-> g[d]]
    BY <1>4
  <2> QED
    BY <1>1, <1>2, <1>3, <1>5, <2>1, <2>2 DEF FileOK
<1> QED
  BY <1>3, <1>5, <1>6 DEF InFile, Item

LEMMA HitOK ==
  ASSUME IInv, NEW c \in Chunks, NEW s \in Holding(c)
  PROVE  Activated(Hit(s), c)
<1> DEFINE aged == UpdateAges(active, s)
<1>1. s \in DOMAIN active /\ active[s].pos = c /\ active \in Seq(Slot)
  BY DEF IInv, SlotsOK, Holding, Slots
<1>2. /\ aged \in Seq(Slot) /\ Len(aged) = Len(active) /\ DOMAIN aged = DOMAIN active
      /\ \A j \in DOMAIN active : aged[j].pos = active[j].pos /\ aged[j].data = active[j].data
  BY <1>1, AgesKeepContents
<1> HIDE DEF aged
<1>3. SlotsOK(aged) /\ FileOK(file)
  BY <1>2 DEF SlotsOK, IInv
<1>4. ASSUME NEW d \in Chunks, NEW i \in Indexes
      PROVE  Content(aged, file, d, i) = Content(active, file, d, i)
  <2>1. CASE \E t \in DOMAIN active : active[t].pos = d
    <3>1. PICK t \in DOMAIN active : active[t].pos = d
      BY <2>1
    <3>2. Content(active, file, d, i) = Item(active[t], i)
      BY <3>1, ContentOfActive DEF IInv
    <3>3. t \in DOMAIN aged /\ aged[t].pos = d /\ Item(aged[t], i) = Item(active[t], i)
      BY <1>2, <3>1 DEF Item
    <3>4. Content(aged, file, d, i) = Item(aged[t], i)
      BY <1>3, <3>3, ContentOfActive
    <3> QED
      BY <3>2, <3>3, <3>4
  <2>2. CASE \A t \in DOMAIN active : active[t].pos # d
    BY <1>2, <2>2, ContentOfInactive
  <2> QED
    BY <2>1, <2>2
<1>5. Hit(s) = [slots |-> aged, file |-> file, index |-> s]
  BY DEF Hit, aged
<1> QED
  BY <1>1, <1>2, <1>3, <1>4, <1>5 DEF Activated

\* A chunk that nobody holds comes into an empty slot ...
LEMMA LoadOK ==
  ASSUME IInv, NEW c \in Chunks, \A s \in Slots : active[s].pos # c,
         Len(active) < NumChunks
  PROVE  Activated(Load(c), c)
<1> DEFINE n == Len(active) + 1
           slot == [pos |-> c, age |-> n - 1, data |-> Fetch(c)]
           longer == Append(active, slot)
<1>0. /\ NumChunks \in Nat \ {0} /\ active \in Seq(Slot) /\ Len(active) \in Nat
      /\ DOMAIN active = 1 .. Len(active) /\ SlotsOK(active)
  BY NumChunksAssumption DEF IInv, SlotsOK
<1>1. slot \in Slot
  BY <1>0, FetchOK DEF Slot
<1>2. \A t \in DOMAIN active : active[t].pos # c
  BY DEF Slots
<1>3. /\ longer \in Seq(Slot) /\ Len(longer) = n /\ DOMAIN longer = 1 .. n
      /\ longer[n] = slot /\ \A t \in DOMAIN active : longer[t] = active[t]
  <2> HIDE DEF slot
  <2> QED
    BY <1>0, <1>1
<1>4. n \in DOMAIN longer
  BY <1>0, <1>3
<1>5. PICK aged : aged = UpdateAges(longer, n)
  OBVIOUS
<1> HIDE DEF longer
<1>10. /\ aged \in Seq(Slot) /\ Len(aged) = n /\ DOMAIN aged = 1 .. n
      /\ \A j \in DOMAIN longer : aged[j].pos = longer[j].pos /\ aged[j].data = longer[j].data
  BY <1>3, <1>4, <1>5, AgesKeepContents
<1>6. /\ aged[n].pos = c /\ aged[n].data = Fetch(c)
      /\ \A t \in DOMAIN active : aged[t].pos = active[t].pos /\ aged[t].data = active[t].data
  <2>1. longer[n].pos = c /\ longer[n].data = Fetch(c)
    BY <1>3
  <2>2. \A t \in DOMAIN active : t \in DOMAIN longer
    BY <1>0, <1>3
  <2> HIDE DEF n, slot
  <2> QED
    BY <1>3, <1>4, <1>10, <2>1, <2>2
<1>7. SlotsOK(aged)
  <2>1. ASSUME NEW j \in DOMAIN aged
        PROVE  j = n \/ j \in DOMAIN active
    BY <1>0, <1>10
  <2>2. Len(aged) <= NumChunks
    BY <1>0, <1>10
  <2> HIDE DEF n, slot
  <2>3. ASSUME NEW j \in DOMAIN aged, NEW k \in DOMAIN aged, aged[j].pos = aged[k].pos
        PROVE  j = k
    BY <1>0, <1>2, <1>6, <2>1, <2>3 DEF SlotsOK
  <2> QED
    BY <1>10, <2>2, <2>3 DEF SlotsOK
<1>8. ASSUME NEW d \in Chunks, NEW i \in Indexes
      PROVE  Content(aged, file, d, i) = Content(active, file, d, i)
  <2>0. n \in DOMAIN aged /\ \A j \in DOMAIN aged : j = n \/ j \in DOMAIN active
    BY <1>0, <1>10
  <2>1. CASE \E t \in DOMAIN active : active[t].pos = d
    <3>1. PICK t \in DOMAIN active : active[t].pos = d
      BY <2>1
    <3>2. Content(active, file, d, i) = Item(active[t], i)
      BY <3>1, ContentOfActive DEF IInv
    <3>3. t \in DOMAIN aged
      BY <1>0, <1>10
    <3>4. aged[t].pos = d
      BY <1>6, <3>1
    <3>5. Item(aged[t], i) = Item(active[t], i)
      BY <1>6 DEF Item
    <3>6. Content(aged, file, d, i) = Item(aged[t], i)
      <4> HIDE DEF n, slot
      <4> QED
        BY <1>7, <3>3, <3>4, ContentOfActive
    <3> QED
      BY <3>2, <3>5, <3>6
  <2>2. CASE d = c
    <3>0. Item(aged[n], i) = Fetch(c)[i]
      BY <1>6 DEF Item
    <3>1. Content(aged, file, d, i) = Item(aged[n], i)
      <4> HIDE DEF n, slot
      <4>1. n \in DOMAIN aged /\ aged[n].pos = d
        BY <1>6, <2>0, <2>2
      <4> QED
        BY <1>7, <4>1, ContentOfActive
    <3>2. Content(active, file, d, i) = InFile(file, c, i)
      BY <1>2, <2>2, ContentOfInactive
    <3> QED
      BY <3>0, <3>1, <3>2, FetchOK
  <2>3. CASE d # c /\ \A t \in DOMAIN active : active[t].pos # d
    <3>1. \A t \in DOMAIN aged : aged[t].pos # d
      BY <1>6, <2>0, <2>3
    <3> QED
      BY <2>3, <3>1, ContentOfInactive
  <2> QED
    BY <2>1, <2>2, <2>3
<1>9. Load(c) = [slots |-> aged, file |-> file, index |-> n]
  BY <1>5 DEF Load, longer
<1> QED
  <2>1. n \in DOMAIN aged
    BY <1>0, <1>10
  <2> HIDE DEF n, slot
  <2> QED
    BY <1>6, <1>7, <1>8, <1>9, <2>1 DEF Activated, IInv

\* ... or in place of the oldest, which goes into the file.
LEMMA ReplaceOK ==
  ASSUME IInv, NEW c \in Chunks, \A s \in Slots : active[s].pos # c,
         Len(active) >= NumChunks
  PROVE  Activated(Replace(c), c)
<1> DEFINE slot == [pos |-> c, age |-> 0, data |-> Fetch(c)]
<1>0. /\ NumChunks \in Nat \ {0} /\ active \in Seq(Slot) /\ Len(active) \in Nat
      /\ DOMAIN active = 1 .. Len(active) /\ Len(active) <= NumChunks
  BY NumChunksAssumption DEF IInv, SlotsOK
<1>1. SlotsOK(active) /\ FileOK(file)
  BY DEF IInv
<1>2. PICK k \in DOMAIN active : k = Oldest
  <2>1. 1 \in Slots
    BY <1>0 DEF Slots
  <2> QED
    BY <1>1, <2>1, OldestIsSlot DEF Slots
<1>3. PICK new : new = [active EXCEPT ![k] = slot]
  OBVIOUS
<1>4. slot \in Slot
  BY <1>0, FetchOK DEF Slot
<1>5. new \in Seq(Slot) /\ Len(new) = Len(active) /\ DOMAIN new = DOMAIN active
  <2> HIDE DEF slot
  <2> QED
    BY <1>0, <1>3, <1>4
<1>6. /\ new[k].pos = c /\ new[k].data = Fetch(c)
      /\ \A t \in DOMAIN active : t # k => new[t] = active[t]
  BY <1>3
<1>7. PICK aged : aged = UpdateAges(new, k)
  OBVIOUS
<1>8. /\ aged \in Seq(Slot) /\ Len(aged) = Len(active) /\ DOMAIN aged = DOMAIN active
      /\ \A j \in DOMAIN active : aged[j].pos = new[j].pos /\ aged[j].data = new[j].data
  BY <1>5, <1>7, AgesKeepContents
<1>9. /\ aged[k].pos = c /\ aged[k].data = Fetch(c)
      /\ \A t \in DOMAIN active : t # k => aged[t].pos = active[t].pos /\ aged[t].data = active[t].data
  BY <1>6, <1>8
<1>10. \A t \in DOMAIN active : active[t].pos # c
  BY DEF Slots
<1>11. SlotsOK(aged)
  <2>1. ASSUME NEW j \in DOMAIN aged, NEW l \in DOMAIN aged, aged[j].pos = aged[l].pos
        PROVE  j = l
    BY <1>1, <1>8, <1>9, <1>10, <2>1 DEF SlotsOK
  <2> QED
    BY <1>0, <1>8, <2>1 DEF SlotsOK
<1>12. PICK written : written = WriteChunk(file, active[k])
  OBVIOUS
<1>13. active[k] \in Slot
  BY <1>0
<1>14. /\ \A i \in Indexes : InFile(written, active[k].pos, i) = Item(active[k], i)
       /\ \A d \in Chunks, i \in Indexes :
             d # active[k].pos => InFile(written, d, i) = InFile(file, d, i)
       /\ FileOK(written)
  BY <1>1, <1>12, <1>13, WriteChunkOK
<1>15. FileOK(written)
  BY <1>14
<1>16. ASSUME NEW d \in Chunks, NEW i \in Indexes
       PROVE  Content(aged, written, d, i) = Content(active, file, d, i)
  <2>1. CASE d = c
    <3>1. Item(aged[k], i) = InFile(file, c, i)
      BY <1>9, FetchOK DEF Item
    <3>2. k \in DOMAIN aged /\ aged[k].pos = d
      BY <1>8, <1>9, <2>1
    <3>3. Content(aged, written, d, i) = Item(aged[k], i)
      BY <1>11, <3>2, ContentOfActive
    <3> QED
      BY <1>10, <2>1, <3>1, <3>3, ContentOfInactive
  <2>2. CASE d = active[k].pos
    <3>1. \A t \in DOMAIN aged : aged[t].pos # d
      BY <1>1, <1>8, <1>9, <1>10, <2>2 DEF SlotsOK
    <3>2. InFile(written, d, i) = Item(active[k], i)
      BY <1>14, <2>2
    <3>3. Content(active, file, d, i) = Item(active[k], i)
      BY <1>1, <2>2, ContentOfActive
    <3> QED
      BY <3>1, <3>2, <3>3, ContentOfInactive
  <2>3. CASE d # c /\ d # active[k].pos /\ \E t \in DOMAIN active : active[t].pos = d
    <3>1. PICK t \in DOMAIN active : active[t].pos = d
      BY <2>3
    <3>2. t \in DOMAIN aged /\ aged[t].pos = d
      BY <1>8, <1>9, <2>3, <3>1
    <3>3. Item(aged[t], i) = Item(active[t], i)
      BY <1>9, <2>3, <3>1 DEF Item
    <3>4. Content(aged, written, d, i) = Item(aged[t], i)
      BY <1>11, <3>2, ContentOfActive
    <3>5. Content(active, file, d, i) = Item(active[t], i)
      BY <1>1, <3>1, ContentOfActive
    <3> QED
      BY <3>3, <3>4, <3>5
  <2>4. CASE d # c /\ d # active[k].pos /\ \A t \in DOMAIN active : active[t].pos # d
    <3>1. \A t \in DOMAIN aged : aged[t].pos # d
      BY <1>8, <1>9, <2>4
    <3>2. InFile(written, d, i) = InFile(file, d, i)
      BY <1>14, <2>4
    <3> QED
      BY <2>4, <3>1, <3>2, ContentOfInactive
  <2> QED
    BY <2>1, <2>2, <2>3, <2>4
<1>17. Replace(c) = [slots |-> aged, file |-> written, index |-> k]
  BY <1>2, <1>3, <1>7, <1>12 DEF Replace
<1> QED
  BY <1>8, <1>9, <1>11, <1>15, <1>16, <1>17 DEF Activated

\* However chunk c is activated, it is in its slot and all contents are kept.
LEMMA ActivationsOK ==
  ASSUME IInv, NEW c \in Chunks, NEW a \in Activations(c)
  PROVE  Activated(a, c)
<1>1. CASE Holding(c) # {}
  <2>1. PICK s \in Holding(c) : a = Hit(s)
    BY <1>1 DEF Activations
  <2> QED
    BY <2>1, HitOK
<1>2. CASE Holding(c) = {}
  <2>1. \A s \in Slots : active[s].pos # c
    BY <1>2 DEF Holding
  <2>2. CASE Len(active) < NumChunks
    BY <1>2, <2>1, <2>2, LoadOK DEF Activations
  <2>3. CASE ~(Len(active) < NumChunks)
    <3>1. Len(active) >= NumChunks
      BY <2>3, NumChunksAssumption DEF IInv, SlotsOK
    <3>2. a = Replace(c)
      BY <1>2, <2>3 DEF Activations
    <3> QED
      BY <2>1, <3>1, <3>2, ReplaceOK
  <2> QED
    BY <2>2, <2>3
<1> QED
  BY <1>1, <1>2

-----------------------------------------------------------------------------
(******************************* operations ********************************)

ValueAt(p) == Content(active, file, ChunkPos(p), IndexFromPos(p))

\* What the slots and the file hold is a value of every cell.
LEMMA ContentIsValue ==
  ASSUME IInv, NEW c \in Chunks, NEW i \in Indexes
  PROVE  Content(active, file, c, i) \in Values
<1>1. CASE \E s \in DOMAIN active : active[s].pos = c
  <2>1. PICK s \in DOMAIN active : active[s].pos = c
    BY <1>1
  <2>2. Content(active, file, c, i) = Item(active[s], i)
    BY <2>1, ContentOfActive DEF IInv
  <2>3. active[s] \in Slot
    BY DEF IInv, SlotsOK
  <2> QED
    BY <2>2, <2>3 DEF Item, Slot
<1>2. CASE \A s \in DOMAIN active : active[s].pos # c
  <2>1. InFile(file, c, i) \in Values
    BY DefaultAssumption DEF IInv, FileOK, InFile
  <2> QED
    BY <1>2, <2>1, ContentOfInactive
<1> QED
  BY <1>1, <1>2

LEMMA GetValueOK ==
  ASSUME IInv, NEW p \in Cells, GetValue(p)
  PROVE  /\ IInv' /\ ret' = ValueAt(p)
         /\ \A q \in Cells : ValueAt(q)' = ValueAt(q)
<1> DEFINE c == ChunkPos(p)
           i == IndexFromPos(p)
<1>1. c \in Chunks /\ i \in Indexes
  BY IndexesInRange
<1>2. PICK a \in Activations(c) : /\ active' = a.slots /\ file' = a.file
                                  /\ ret' = Item(a.slots[a.index], i)
  BY DEF GetValue, Item
<1>3. Activated(a, c)
  BY <1>1, ActivationsOK
<1>4. \A q \in Cells : ValueAt(q)' = ValueAt(q)
  BY <1>2, <1>3, IndexesInRange DEF Activated, ValueAt
<1>5. ret' = ValueAt(p)
  <2>1. SlotsOK(a.slots) /\ a.index \in DOMAIN a.slots /\ a.slots[a.index].pos = c
    BY <1>3 DEF Activated
  <2>2. Content(a.slots, a.file, c, i) = Item(a.slots[a.index], i)
    BY <2>1, ContentOfActive
  <2>3. Content(a.slots, a.file, c, i) = Content(active, file, c, i)
    BY <1>1, <1>3 DEF Activated
  <2> QED
    BY <1>2, <2>2, <2>3 DEF ValueAt
<1>6. ret' \in Values
  BY <1>1, <1>5, ContentIsValue DEF ValueAt
<1>7. SlotsOK(active)' /\ FileOK(file)'
  BY <1>2, <1>3 DEF Activated, SlotsOK, FileOK
<1> QED
  BY <1>4, <1>5, <1>6, <1>7 DEF IInv

LEMMA SetValueOK ==
  ASSUME IInv, NEW p \in Cells, NEW v \in Values, SetValue(p, v)
  PROVE  /\ IInv' /\ ret' = Void
         /\ \A q \in Cells : ValueAt(q)' = IF q = p THEN v ELSE ValueAt(q)
<1> DEFINE c == ChunkPos(p)
           i == IndexFromPos(p)
<1>1. c \in Chunks /\ i \in Indexes
  BY IndexesInRange
<1>2. PICK a \in Activations(c) :
        /\ active' = [a.slots EXCEPT ![a.index].data[i] = v]
        /\ file' = a.file /\ ret' = Void
  BY DEF SetValue
<1>3. Activated(a, c)
  BY <1>1, ActivationsOK
<1>4. PICK slots, k, new : /\ slots = a.slots /\ k = a.index /\ new = active'
  OBVIOUS
<1>5. /\ SlotsOK(slots) /\ k \in DOMAIN slots /\ slots[k].pos = c
      /\ new = [slots EXCEPT ![k].data[i] = v]
  BY <1>2, <1>3, <1>4 DEF Activated
<1>6. /\ slots \in Seq(Slot) /\ DOMAIN slots = 1 .. Len(slots) /\ Len(slots) \in Nat
      /\ Len(slots) <= NumChunks
  BY <1>5 DEF SlotsOK
<1>7. slots[k] \in Slot
  BY <1>5, <1>6
<1>8. PICK slot : slot = [slots[k] EXCEPT !.data[i] = v]
  OBVIOUS
<1>9. slot = [pos |-> slots[k].pos, age |-> slots[k].age, data |-> [slots[k].data EXCEPT ![i] = v]]
  BY <1>7, <1>8 DEF Slot
<1>10. slot \in Slot
  BY <1>1, <1>7, <1>9 DEF Slot
<1>11. new = [slots EXCEPT ![k] = slot]
  BY <1>5, <1>8
<1>12. new \in Seq(Slot) /\ Len(new) = Len(slots) /\ DOMAIN new = DOMAIN slots
  BY <1>5, <1>6, <1>10, <1>11
<1>13. /\ \A j \in DOMAIN slots : j # k => new[j] = slots[j]
       /\ new[k] = slot
  BY <1>5, <1>11
<1>14. \A j \in DOMAIN slots : new[j].pos = slots[j].pos
  BY <1>9, <1>13
<1>15. SlotsOK(new)
  <2>1. ASSUME NEW j \in DOMAIN new, NEW l \in DOMAIN new, new[j].pos = new[l].pos
        PROVE  j = l
    BY <1>5, <1>12, <1>14, <2>1 DEF SlotsOK
  <2> QED
    BY <1>6, <1>12, <2>1 DEF SlotsOK
<1>16. ASSUME NEW q \in Cells
       PROVE  ValueAt(q)' = IF q = p THEN v ELSE ValueAt(q)
  <2> DEFINE d == ChunkPos(q)
             j == IndexFromPos(q)
  <2>1. d \in Chunks /\ j \in Indexes
    BY IndexesInRange
  <2>2. Content(slots, a.file, d, j) = ValueAt(q)
    BY <1>3, <1>4, <2>1 DEF Activated, ValueAt
  <2>3. ValueAt(q)' = Content(new, a.file, d, j)
    BY <1>2, <1>4 DEF ValueAt
  <2> HIDE DEF d, j
  <2>4. CASE d = c
    <3>1. k \in DOMAIN new /\ new[k].pos = d
      BY <1>5, <1>12, <1>14, <2>4
    <3>2. Content(new, a.file, d, j) = Item(new[k], j)
      BY <1>15, <3>1, ContentOfActive
    <3>3. Item(new[k], j) = IF j = i THEN v ELSE Item(slots[k], j)
      <4>1. Item(new[k], j) = [slots[k].data EXCEPT ![i] = v][j]
        BY <1>9, <1>13 DEF Item
      <4>2. slots[k].data \in [Indexes -> Values]
        BY <1>7 DEF Slot
      <4> QED
        BY <1>1, <2>1, <4>1, <4>2 DEF Item
    <3>4. Content(slots, a.file, d, j) = Item(slots[k], j)
      BY <1>5, <2>4, ContentOfActive
    <3>5. j = i <=> q = p
      BY <2>4, IndexesDiffer DEF d, j
    <3> QED
      BY <2>2, <2>3, <3>2, <3>3, <3>4, <3>5
  <2>5. CASE d # c
    <3>1. q # p
      BY <2>5 DEF d
    <3>2. CASE \E t \in DOMAIN slots : slots[t].pos = d
      <4>1. PICK t \in DOMAIN slots : slots[t].pos = d
        BY <3>2
      <4>2. t # k
        BY <1>5, <2>5, <4>1
      <4>3. t \in DOMAIN new /\ new[t].pos = d
        BY <1>12, <1>14, <4>1
      <4>4. Item(new[t], j) = Item(slots[t], j)
        BY <1>13, <4>2
      <4>5. Content(new, a.file, d, j) = Item(new[t], j)
        BY <1>15, <4>3, ContentOfActive
      <4>6. Content(slots, a.file, d, j) = Item(slots[t], j)
        BY <1>5, <4>1, ContentOfActive
      <4> QED
        BY <2>2, <2>3, <3>1, <4>4, <4>5, <4>6
    <3>3. CASE \A t \in DOMAIN slots : slots[t].pos # d
      <4>1. \A t \in DOMAIN new : new[t].pos # d
        BY <1>12, <1>14, <3>3
      <4> QED
        BY <2>2, <2>3, <3>1, <3>3, <4>1, ContentOfInactive
    <3> QED
      BY <3>2, <3>3
  <2> QED
    BY <2>4, <2>5
<1>17. FileOK(file)' /\ SlotsOK(active)' /\ ret' \in Values \cup {Void}
  <2>1. FileOK(a.file)
    BY <1>3 DEF Activated
  <2> QED
    BY <1>2, <1>4, <1>15, <2>1 DEF SlotsOK, FileOK
<1> QED
  BY <1>2, <1>16, <1>17 DEF IInv

LEMMA FromZeroUp ==
  ASSUME NEW S, NEW N \in Nat, 0 \in S, \A n \in 0 .. N - 1 : n \in S => n + 1 \in S
  PROVE  \A n \in 0 .. N : n \in S
<1> DEFINE out == {n \in 0 .. N : n \notin S}
<1> SUFFICES ASSUME out # {}
             PROVE  FALSE
  OBVIOUS
<1>1. out \in SUBSET Nat
  OBVIOUS
<1>2. PICK x \in out : \A y \in out : x <= y
  <2> HIDE DEF out
  <2> QED
    BY <1>1, Least
<1>3. x # 0 /\ x - 1 \in 0 .. N - 1
  BY <1>2
<1>4. x - 1 \in S
  BY <1>2, <1>3
<1> QED
  BY <1>2, <1>3, <1>4

\* The files of write_back's loop: t[n] after n slots
Written(t, N) ==
  t = [n \in 0 .. N |-> IF n = 0 THEN file ELSE WriteChunk(t[n - 1], active[n])]

LEMMA WrittenExists ==
  ASSUME NEW N \in Nat
  PROVE  \E t : Written(t, N)
<1> DEFINE S == {m \in 0 .. N : \E t : Written(t, m)}
<1>1. 0 \in S
  <2>1. Written([n \in 0 .. 0 |-> file], 0)
    BY DEF Written
  <2> QED
    BY <2>1
<1>2. ASSUME NEW m \in 0 .. N - 1, m \in S
      PROVE  m + 1 \in S
  <2>1. PICK g : Written(g, m)
    BY <1>2
  <2>2. \A k \in 0 .. m : g[k] = IF k = 0 THEN file ELSE WriteChunk(g[k - 1], active[k])
    BY <2>1 DEF Written
  <2> DEFINE h == [k \in 0 .. m + 1 |->
                     IF k = m + 1 THEN WriteChunk(g[m], active[m + 1]) ELSE g[k]]
  <2>3. ASSUME NEW k \in 0 .. m + 1
        PROVE  h[k] = IF k = 0 THEN file ELSE WriteChunk(h[k - 1], active[k])
    <3>1. CASE k = m + 1
      <4>1. h[k] = WriteChunk(g[m], active[m + 1]) /\ h[k - 1] = g[m]
        BY <3>1
      <4> HIDE DEF h
      <4> QED
        BY <4>1, <3>1
    <3>2. CASE k \in 1 .. m
      <4>1. h[k] = g[k] /\ h[k - 1] = g[k - 1]
        BY <3>2
      <4> HIDE DEF h
      <4> QED
        BY <4>1, <3>2, <2>2
    <3>3. CASE k = 0
      <4>1. h[k] = g[k]
        BY <3>3
      <4> HIDE DEF h
      <4> QED
        BY <4>1, <3>3, <2>2
    <3> QED
      BY <3>1, <3>2, <3>3
  <2>4. Written(h, m + 1)
    <3>1. h = [k \in 0 .. m + 1 |-> h[k]]
      OBVIOUS
    <3> HIDE DEF h
    <3> QED
      BY <2>3, <3>1 DEF Written
  <2> QED
    BY <2>4
<1>3. \A m \in 0 .. N : m \in S
  <2> HIDE DEF S
  <2> QED
    BY <1>1, <1>2, FromZeroUp
<1> QED
  BY <1>3

\* What the loop has done after n slots: their chunks are in the file as they are
\* in memory, all others as they were.
WroteSlots(f, n) ==
  /\ FileOK(f)
  /\ \A s \in 1 .. n, i \in Indexes : InFile(f, active[s].pos, i) = Item(active[s], i)
  /\ \A d \in Chunks, i \in Indexes :
        (\A s \in 1 .. n : active[s].pos # d) => InFile(f, d, i) = InFile(file, d, i)

LEMMA WroteOneMore ==
  ASSUME IInv, NEW n \in 0 .. Len(active) - 1, NEW f, WroteSlots(f, n),
         NEW g, g = WriteChunk(f, active[n + 1])
  PROVE  WroteSlots(g, n + 1)
<1>1. PICK m \in DOMAIN active : m = n + 1
  BY DEF IInv, SlotsOK
<1>2. \A s \in 1 .. m : s = m \/ s \in 1 .. n
  BY <1>1
<1>3. 1 .. n \subseteq 1 .. m /\ m \in 1 .. m /\ 1 .. m \subseteq DOMAIN active
      /\ \A s \in 1 .. n : s # m
  BY <1>1 DEF IInv, SlotsOK
<1>4. \A s \in DOMAIN active : active[s] \in Slot /\ active[s].pos \in Chunks
  <2>1. \A s \in DOMAIN active : active[s] \in Slot
    BY DEF IInv, SlotsOK
  <2> QED
    BY <2>1 DEF Slot
<1>5. \A s \in 1 .. n : active[s].pos # active[m].pos
  BY <1>1, <1>3 DEF IInv, SlotsOK
<1>6. /\ FileOK(g)
      /\ \A i \in Indexes : InFile(g, active[m].pos, i) = Item(active[m], i)
      /\ \A d \in Chunks, i \in Indexes :
            d # active[m].pos => InFile(g, d, i) = InFile(f, d, i)
  <2>1. active[m] \in Slot /\ FileOK(f) /\ g = WriteChunk(f, active[m])
    BY <1>1, <1>4 DEF WroteSlots
  <2> QED
    BY <2>1, WriteChunkOK
<1>7. ASSUME NEW s \in 1 .. m, NEW i \in Indexes
      PROVE  InFile(g, active[s].pos, i) = Item(active[s], i)
  <2>1. CASE s = m
    BY <1>6, <2>1
  <2>2. CASE s \in 1 .. n
    <3>1. InFile(f, active[s].pos, i) = Item(active[s], i)
      BY <2>2 DEF WroteSlots
    <3>2. active[s].pos \in Chunks /\ active[s].pos # active[m].pos
      BY <1>3, <1>4, <1>5, <2>2
    <3> QED
      BY <1>6, <3>1, <3>2
  <2> QED
    BY <1>2, <2>1, <2>2
<1>8. ASSUME NEW d \in Chunks, NEW i \in Indexes, \A s \in 1 .. m : active[s].pos # d
      PROVE  InFile(g, d, i) = InFile(file, d, i)
  <2>1. d # active[m].pos /\ \A s \in 1 .. n : active[s].pos # d
    BY <1>3, <1>8
  <2> QED
    BY <1>6, <2>1 DEF WroteSlots
<1>9. WroteSlots(g, m)
  BY <1>6, <1>7, <1>8 DEF WroteSlots
<1> QED
  BY <1>1, <1>9

\* When the loop is over, it has written all slots.
LEMMA LoopWritesAll ==
  ASSUME IInv
  PROVE  WroteSlots(WriteActive, Len(active))
<1>1. PICK N \in Nat : N = Len(active)
  BY DEF IInv, SlotsOK
<1> DEFINE t == CHOOSE u : u = [n \in 0 .. N |->
                                  IF n = 0 THEN file ELSE WriteChunk(u[n - 1], active[n])]
<1>2. WriteActive = t[N]
  BY <1>1 DEF WriteActive
<1>3. Written(t, N)
  <2>1. \E u : u = [n \in 0 .. N |->
                      IF n = 0 THEN file ELSE WriteChunk(u[n - 1], active[n])]
    BY WrittenExists DEF Written
  <2> QED
    BY <2>1 DEF Written
<1> HIDE DEF t
<1>4. t[0] = file /\ \A n \in 1 .. N : t[n] = WriteChunk(t[n - 1], active[n])
  BY <1>3 DEF Written
<1> DEFINE S == {n \in 0 .. N : WroteSlots(t[n], n)}
<1>5. 0 \in S
  BY <1>4 DEF WroteSlots, IInv
<1>6. ASSUME NEW n \in 0 .. N - 1, n \in S
      PROVE  n + 1 \in S
  <2>1. PICK m \in 1 .. N : m = n + 1
    OBVIOUS
  <2>2. t[m] = WriteChunk(t[n], active[n + 1])
    BY <1>4, <2>1
  <2>3. WroteSlots(t[n], n) /\ n \in 0 .. Len(active) - 1
    BY <1>1, <1>6
  <2>4. WroteSlots(t[m], n + 1)
    BY <2>2, <2>3, WroteOneMore
  <2> QED
    BY <2>1, <2>4
<1>7. \A n \in 0 .. N : n \in S
  <2> HIDE DEF S
  <2> QED
    BY <1>5, <1>6, FromZeroUp
<1> QED
  BY <1>1, <1>2, <1>7

LEMMA WriteBackOK ==
  ASSUME IInv, WriteBack
  PROVE  /\ IInv' /\ ret' = ret
         /\ \A q \in Cells : /\ ValueAt(q)' = ValueAt(q)
                             /\ InFile(file', ChunkPos(q), IndexFromPos(q)) = ValueAt(q)
<1>1. file' = WriteActive /\ active' = active /\ ret' = ret
  BY DEF WriteBack
<1>2. PICK f : f = file'
  OBVIOUS
<1>3. WroteSlots(f, Len(active))
  BY <1>1, <1>2, LoopWritesAll
<1>4. SlotsOK(active)
  BY DEF IInv
<1>5. DOMAIN active = 1 .. Len(active)
  BY <1>4 DEF SlotsOK
<1>6. ASSUME NEW d \in Chunks, NEW i \in Indexes
      PROVE  /\ InFile(f, d, i) = Content(active, file, d, i)
             /\ Content(active, f, d, i) = Content(active, file, d, i)
  <2>1. CASE \E s \in DOMAIN active : active[s].pos = d
    <3>1. PICK s \in DOMAIN active : active[s].pos = d
      BY <2>1
    <3>2. InFile(f, d, i) = Item(active[s], i)
      BY <1>3, <1>5, <3>1 DEF WroteSlots
    <3>3. Content(active, file, d, i) = Item(active[s], i)
      BY <1>4, <3>1, ContentOfActive
    <3>4. Content(active, f, d, i) = Item(active[s], i)
      BY <1>4, <3>1, ContentOfActive
    <3> QED
      BY <3>2, <3>3, <3>4
  <2>2. CASE \A s \in DOMAIN active : active[s].pos # d
    <3>1. InFile(f, d, i) = InFile(file, d, i)
      BY <1>3, <1>5, <2>2 DEF WroteSlots
    <3>2. /\ Content(active, file, d, i) = InFile(file, d, i)
          /\ Content(active, f, d, i) = InFile(f, d, i)
      BY <2>2, ContentOfInactive
    <3> QED
      BY <3>1, <3>2
  <2> QED
    BY <2>1, <2>2
<1>7. FileOK(file)'
  <2>1. FileOK(f)
    BY <1>3 DEF WroteSlots
  <2> QED
    BY <1>2, <2>1 DEF FileOK
<1>8. IInv'
  BY <1>1, <1>7 DEF IInv, SlotsOK
<1>9. ASSUME NEW q \in Cells
      PROVE  /\ ValueAt(q)' = ValueAt(q)
             /\ InFile(file', ChunkPos(q), IndexFromPos(q)) = ValueAt(q)
  BY <1>1, <1>2, <1>6, IndexesInRange DEF ValueAt
<1> QED
  BY <1>1, <1>8, <1>9

-----------------------------------------------------------------------------
(******************************** theorems *********************************)

LEMMA InitOK == Init => IInv
<1> SUFFICES ASSUME Init
             PROVE  IInv
  OBVIOUS
<1>1. SlotsOK(<<>>)
  BY NumChunksAssumption DEF SlotsOK
<1>2. FileOK(<<>>)
  BY DEF FileOK
<1> QED
  BY <1>1, <1>2 DEF Init, IInv

LEMMA StepOK == IInv /\ [Next]_vars => IInv'
<1> SUFFICES ASSUME IInv, [Next]_vars
             PROVE  IInv'
  OBVIOUS
<1>1. CASE UNCHANGED vars
  BY <1>1 DEF vars, IInv, SlotsOK, FileOK
<1> QED
  BY <1>1, GetValueOK, SetValueOK, WriteBackOK DEF Next

\* No chunk is ever active twice, and memory never holds more than NUM_CHUNKS:
\* activate_chunk replaces a slot when all are taken.
THEOREM ActiveOnceAlways == Spec => []ActiveOnce
<1>1. IInv => ActiveOnce
  BY IInvIsActiveOnce
<1> QED
  BY <1>1, InitOK, StepOK, PTL DEF Spec

LEMMA InitRefines == Init => Map!Init
BY DefaultAssumption DEF Init, Map!Init, Content, InFile

LEMMA StepRefines ==
  ASSUME IInv, [Next]_vars
  PROVE  [Map!Next]_(Map!vars)
<1> DEFINE mem == [p \in Cells |-> ValueAt(p)]
<1>0. mem = [p \in Cells |-> Content(active, file, ChunkPos(p), IndexFromPos(p))]
  BY DEF ValueAt
<1>1. ASSUME NEW p \in Cells, GetValue(p)
      PROVE  Map!Read(p)
  <2>1. ret' = ValueAt(p) /\ \A q \in Cells : ValueAt(q)' = ValueAt(q)
    BY <1>1, GetValueOK
  <2> QED
    BY <2>1 DEF Map!Read, ValueAt
<1>2. ASSUME NEW p \in Cells, NEW v \in Values, SetValue(p, v)
      PROVE  Map!Write(p, v)
  <2>1. ret' = Void /\ \A q \in Cells : ValueAt(q)' = IF q = p THEN v ELSE ValueAt(q)
    BY <1>2, SetValueOK
  <2> QED
    BY <2>1 DEF Map!Write, ValueAt
<1>3. ASSUME WriteBack
      PROVE  UNCHANGED Map!vars
  <2>1. ret' = ret /\ \A q \in Cells : ValueAt(q)' = ValueAt(q)
    BY <1>3, WriteBackOK
  <2> QED
    BY <2>1 DEF Map!vars, ValueAt
<1>4. CASE UNCHANGED vars
  BY <1>4 DEF vars, Map!vars, Content, InFile
<1> QED
  BY <1>1, <1>2, <1>3, <1>4 DEF Next, Map!Next

\* Whatever is activated, evicted into the file, fetched again and written back,
\* get_value returns what set_value stored last in that cell, and nothing else.
THEOREM CacheIsMemory == Spec => ImplementsMemory
<1>1. IInv /\ [Next]_vars => [Map!Next]_(Map!vars)
  BY StepRefines
<1> QED
  BY <1>1, InitOK, StepOK, InitRefines, PTL DEF Spec, ImplementsMemory, Map!Spec

\* When write_back returns, the file alone has all of the map.
THEOREM FileHasMap == Spec => WriteBackIsComplete
<1>1. IInv /\ [Next]_vars =>
        [WriteBack => \A p \in Cells :
            InFile(file', ChunkPos(p), IndexFromPos(p))
              = Content(active, file, ChunkPos(p), IndexFromPos(p))]_vars
  BY WriteBackOK DEF ValueAt
<1> QED
  BY <1>1, InitOK, StepOK, PTL DEF Spec, WriteBackIsComplete
=============================================================================
