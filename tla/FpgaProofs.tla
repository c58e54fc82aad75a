----------------------------- MODULE FpgaProofs -----------------------------
(***************************************************************************)
(* Proofs about the hardware and the registration kernel it runs.          *)
(*                                                                         *)
(* Fpga, for any buffers, memories, sizes, values and any of the kernels:  *)
(* a memory has one owner as long as it is mapped, and what a kernel       *)
(* returns is what it makes of its arguments.                              *)
(*                                                                         *)
(* RegKernel, for any map, clouds, lanes, motions and number of            *)
(* iterations: the reduced cloud has a point of every voxel, the lanes add *)
(* up to the cloud, the kernel reads a cell where it is, the solver solves *)
(* its equations, the kernel moves the scanner by what the solver returned *)
(* and ends its loop by the errors of two and four turns ago.              *)
(***************************************************************************)
EXTENDS Fpga, RegKernel, FiniteSetTheorems, WellFoundedInduction, TLAPS

-----------------------------------------------------------------------------
(********************************** owners *********************************)

Handle == {b \in [memory : Memories \cup {None}, size : Nat, address : BOOLEAN] :
              /\ b.size > 0 <=> b.address
              /\ b.address => b.memory \in Memories}

\* A Buffer without an address still keeps its memory from being allocated
\* again: no memory is reached by two.
OwnersOK(obj, map) ==
    /\ obj \in [Objects -> Handle \cup {None}]
    /\ map \in [Memories -> {0, 1}]
    /\ \A o, p \in Objects :
          obj[o] # None /\ obj[p] # None /\ obj[o].memory = obj[p].memory /\ obj[o].memory # None
             => o = p
    /\ \A m \in Memories :
          map[m] = 1 <=> \E o \in Objects : obj[o] # None /\ obj[o].address /\ obj[o].memory = m

Owned == OwnersOK(object, mapped) /\ manager \in {"empty", "loaded", "failed", "released"}

LEMMA HandleIsNotNone == None \notin Handle
BY NamesAssumption DEF Handle

LEMMA OwnedIsOneOwner == Owned => OneOwner
<1> SUFFICES ASSUME Owned PROVE OneOwner
  OBVIOUS
<1>1. ASSUME NEW o \in Live
      PROVE  object[o] \in Handle
  BY DEF Owned, OwnersOK, Live
<1>2. ASSUME NEW o \in Live
      PROVE  (object[o].size > 0) = object[o].address
  BY <1>1 DEF Handle
<1>3. ASSUME NEW m \in Memories
      PROVE  mapped[m] = Cardinality({o \in Live : Reach(o) = m /\ object[o].address}) /\ mapped[m] <= 1
  <2> DEFINE owners == {o \in Live : Reach(o) = m /\ object[o].address}
  <2>1. mapped[m] \in {0, 1} /\ (mapped[m] = 1 <=> owners # {})
    BY DEF Owned, OwnersOK, Live, Reach
  <2>2. ASSUME NEW o \in owners, NEW p \in owners
        PROVE  o = p
    BY NamesAssumption DEF Owned, OwnersOK, Live, Reach
  <2> HIDE DEF owners
  <2>3. CASE owners = {}
    <3>1. Cardinality(owners) = 0
      BY <2>3, FS_EmptySet
    <3> QED
      BY <2>1, <2>3, <3>1 DEF owners
  <2>4. CASE owners # {}
    <3>1. PICK o : o \in owners
      BY <2>4
    <3>2. owners = {o}
      BY <2>2, <3>1
    <3>3. Cardinality(owners) = 1
      BY <3>2, FS_Singleton
    <3> QED
      BY <2>1, <2>4, <3>3 DEF owners
  <2> QED
    BY <2>1, <2>3, <2>4 DEF owners
<1> QED
  BY <1>2, <1>3 DEF OneOwner, Owned

\* A place gets a Buffer of a memory that none reaches.
LEMMA OwnNew ==
  ASSUME OwnersOK(object, mapped), NEW o \in Objects, NEW m \in Memories, NEW n \in Nat \ {0},
         object[o] = None, ~Allocated(m)
  PROVE  OwnersOK([object EXCEPT ![o] = Fresh(m, n)], [mapped EXCEPT ![m] = 1])
<1> DEFINE obj == [object EXCEPT ![o] = Fresh(m, n)]
           map == [mapped EXCEPT ![m] = 1]
<1>1. /\ object \in [Objects -> Handle \cup {None}] /\ mapped \in [Memories -> {0, 1}]
      /\ \A p \in Objects : object[p] # None => object[p].memory # m
  BY DEF OwnersOK, Allocated, Live, Reach
<1>2. PICK b : b = Fresh(m, n)
  OBVIOUS
<1>3. b \in Handle /\ b # None /\ b.memory = m /\ b.address /\ m # None
  <2>1. b.memory = m /\ b.size = n /\ b.address = TRUE
    BY <1>2 DEF Fresh
  <2>2. b \in [memory : Memories \cup {None}, size : Nat, address : BOOLEAN]
    BY <1>2 DEF Fresh
  <2>3. b \in Handle
    BY <2>1, <2>2 DEF Handle
  <2> QED
    BY <2>1, <2>3, HandleIsNotNone, NamesAssumption
<1>4. /\ obj \in [Objects -> Handle \cup {None}] /\ obj[o] = b
      /\ \A p \in Objects : p # o => obj[p] = object[p]
  BY <1>1, <1>2, <1>3
<1>5. map \in [Memories -> {0, 1}] /\ map[m] = 1 /\ \A l \in Memories : l # m => map[l] = mapped[l]
  BY <1>1
<1> HIDE DEF obj, map
<1>6. ASSUME NEW p \in Objects, NEW q \in Objects, obj[p] # None, obj[q] # None,
             obj[p].memory = obj[q].memory, obj[p].memory # None
      PROVE  p = q
  BY <1>1, <1>3, <1>4, <1>6 DEF OwnersOK
<1>7. ASSUME NEW l \in Memories
      PROVE  map[l] = 1 <=> \E p \in Objects : obj[p] # None /\ obj[p].address /\ obj[p].memory = l
  <2>1. CASE l = m
    BY <1>3, <1>4, <1>5, <2>1
  <2>2. CASE l # m
    <3>1. map[l] = 1 <=> \E p \in Objects : object[p] # None /\ object[p].address /\ object[p].memory = l
      BY <1>5, <2>2 DEF OwnersOK
    <3> QED
      BY <1>3, <1>4, <2>2, <3>1
  <2> QED
    BY <2>1, <2>2
<1>8. OwnersOK(obj, map)
  BY <1>4, <1>5, <1>6, <1>7 DEF OwnersOK
<1> QED
  BY <1>8 DEF obj, map

\* Two places exchange what they have: move construction, move assignment to a
\* place that was cleared, and swap are of this form.
LEMMA OwnSwapped ==
  ASSUME NEW obj, NEW map, OwnersOK(obj, map), NEW o \in Objects, NEW p \in Objects
  PROVE  OwnersOK([obj EXCEPT ![o] = obj[p], ![p] = obj[o]], map)
<1> DEFINE new == [obj EXCEPT ![o] = obj[p], ![p] = obj[o]]
           other(q) == IF q = o THEN p ELSE IF q = p THEN o ELSE q
<1>1. obj \in [Objects -> Handle \cup {None}]
  BY DEF OwnersOK
<1>2. new \in [Objects -> Handle \cup {None}] /\ \A q \in Objects : new[q] = obj[other(q)]
  BY <1>1
<1>3. \A q \in Objects : other(q) \in Objects /\ other(other(q)) = q
  OBVIOUS
<1> HIDE DEF new, other
<1>4. ASSUME NEW q \in Objects, NEW r \in Objects, new[q] # None, new[r] # None,
             new[q].memory = new[r].memory, new[q].memory # None
      PROVE  q = r
  <2>1. other(q) = other(r)
    BY <1>2, <1>3, <1>4 DEF OwnersOK
  <2> QED
    BY <1>3, <2>1
<1>5. ASSUME NEW m \in Memories
      PROVE  map[m] = 1 <=> \E q \in Objects : new[q] # None /\ new[q].address /\ new[q].memory = m
  <2>1. map[m] = 1 <=> \E q \in Objects : obj[q] # None /\ obj[q].address /\ obj[q].memory = m
    BY DEF OwnersOK
  <2> QED
    BY <1>2, <1>3, <2>1
<1>6. OwnersOK(new, map)
  BY <1>2, <1>4, <1>5 DEF OwnersOK
<1> QED
  BY <1>6 DEF new

\* A place may be left without a Buffer, or with one that was moved away, when
\* what it had is unmapped.
LEMMA OwnDropped ==
  ASSUME OwnersOK(object, mapped), NEW o \in Objects, object[o] # None,
         NEW b \in Handle \cup {None},
         b # None => ~b.address /\ b.memory \in {None, object[o].memory}
  PROVE  OwnersOK([object EXCEPT ![o] = b], Unmapped(o))
<1> DEFINE obj == [object EXCEPT ![o] = b]
           map == Unmapped(o)
           m == Reach(o)
<1>1. /\ object \in [Objects -> Handle \cup {None}] /\ mapped \in [Memories -> {0, 1}]
      /\ object[o] \in Handle
  BY DEF OwnersOK
<1>2. object[o].address => m \in Memories /\ mapped[m] = 1
  <2>1. object[o].address => m \in Memories
    BY <1>1 DEF Handle, Reach
  <2> QED
    BY <2>1 DEF OwnersOK, Reach
<1>3. /\ obj \in [Objects -> Handle \cup {None}] /\ obj[o] = b
      /\ \A p \in Objects : p # o => obj[p] = object[p]
  BY <1>1
<1>4. /\ map \in [Memories -> {0, 1}]
      /\ \A l \in Memories : map[l] = IF object[o].address /\ l = m THEN 0 ELSE mapped[l]
  BY <1>1, <1>2 DEF Unmapped
<1> HIDE DEF obj, map
<1>5. ASSUME NEW p \in Objects, NEW q \in Objects, obj[p] # None, obj[q] # None,
             obj[p].memory = obj[q].memory, obj[p].memory # None
      PROVE  p = q
  BY <1>3, <1>5 DEF OwnersOK
<1>6. ASSUME NEW l \in Memories
      PROVE  map[l] = 1 <=> \E p \in Objects : obj[p] # None /\ obj[p].address /\ obj[p].memory = l
  <2>0. l # None
    BY NamesAssumption
  <2>1. mapped[l] = 1 <=> \E p \in Objects : object[p] # None /\ object[p].address /\ object[p].memory = l
    BY DEF OwnersOK
  <2>2. CASE object[o].address /\ l = m
    <3>1. \A p \in Objects : p # o /\ object[p] # None => object[p].memory # l
      BY <2>0, <2>2 DEF OwnersOK, Reach
    <3> QED
      BY <1>3, <1>4, <2>2, <3>1
  <2>3. CASE ~ (object[o].address /\ l = m)
    BY <1>3, <1>4, <2>1, <2>3 DEF Reach
  <2> QED
    BY <2>2, <2>3
<1>7. OwnersOK(obj, map)
  BY <1>3, <1>4, <1>5, <1>6 DEF OwnersOK
<1> QED
  BY <1>7 DEF obj, map

LEMMA EmptyIsHandle ==
  Empty \in Handle /\ Empty # None /\ ~Empty.address /\ Empty.memory = None
<1>1. Empty \in [memory : Memories \cup {None}, size : Nat, address : BOOLEAN]
  BY DEF Empty
<1>2. Empty.memory = None /\ Empty.size = 0 /\ Empty.address = FALSE
  BY DEF Empty
<1> QED
  BY <1>1, <1>2, HandleIsNotNone DEF Handle

LEMMA OwnEmpty ==
  ASSUME NEW obj, NEW map, OwnersOK(obj, map), NEW o \in Objects, obj[o] = None
  PROVE  OwnersOK([obj EXCEPT ![o] = Empty], map)
<1> DEFINE new == [obj EXCEPT ![o] = Empty]
<1>1. obj \in [Objects -> Handle \cup {None}]
  BY DEF OwnersOK
<1>2. /\ new \in [Objects -> Handle \cup {None}] /\ new[o] = Empty
      /\ \A p \in Objects : p # o => new[p] = obj[p]
  BY <1>1, EmptyIsHandle
<1> HIDE DEF new
<1>3. ASSUME NEW p \in Objects, NEW q \in Objects, new[p] # None, new[q] # None,
             new[p].memory = new[q].memory, new[p].memory # None
      PROVE  p = q
  BY <1>2, <1>3, EmptyIsHandle DEF OwnersOK
<1>4. ASSUME NEW m \in Memories
      PROVE  map[m] = 1 <=> \E p \in Objects : new[p] # None /\ new[p].address /\ new[p].memory = m
  <2>1. map[m] = 1 <=> \E p \in Objects : obj[p] # None /\ obj[p].address /\ obj[p].memory = m
    BY DEF OwnersOK
  <2> QED
    BY <1>2, <2>1, EmptyIsHandle
<1>5. OwnersOK(new, map)
  BY <1>2, <1>3, <1>4 DEF OwnersOK
<1> QED
  BY <1>5 DEF new

\* A move takes the Buffer away from one place and gives it to another.
LEMMA OwnMoved ==
  ASSUME NEW obj, NEW map, OwnersOK(obj, map), NEW o \in Objects, NEW p \in Objects, o # p,
         obj[o] \in {None, Empty}, obj[p] # None
  PROVE  OwnersOK([obj EXCEPT ![o] = obj[p], ![p] = Empty], map)
<1> DEFINE swapped == [obj EXCEPT ![o] = obj[p], ![p] = obj[o]]
<1>0. obj \in [Objects -> Handle \cup {None}]
  BY DEF OwnersOK
<1>1. OwnersOK(swapped, map)
  BY OwnSwapped
<1>2. swapped[p] = obj[o]
  BY <1>0
<1>3. CASE obj[o] = Empty
  BY <1>1, <1>3
<1>4. CASE obj[o] = None
  <2> DEFINE new == [swapped EXCEPT ![p] = Empty]
  <2>1. new = [obj EXCEPT ![o] = obj[p], ![p] = Empty]
    BY <1>0
  <2> HIDE DEF swapped
  <2>2. OwnersOK(new, map)
    BY <1>1, <1>2, <1>4, OwnEmpty
  <2> QED
    BY <2>1, <2>2
<1> QED
  BY <1>3, <1>4

LEMMA BufferStepOwns ==
  ASSUME Owned, BufferStep
  PROVE  Owned'
<1>0. OwnersOK(object, mapped) /\ object \in [Objects -> Handle \cup {None}]
  BY DEF Owned, OwnersOK
<1>1. ASSUME NEW o \in Objects, NEW n \in Sizes, Construct(o, n)
      PROVE  Owned'
  <2>1. n \in Nat \ {0}
    BY FpgaAssumption
  <2>2. PICK m \in Memories : /\ ~Allocated(m)
                             /\ object' = [object EXCEPT ![o] = Fresh(m, n)]
                             /\ mapped' = [mapped EXCEPT ![m] = 1]
    BY <1>1 DEF Construct
  <2>3. object[o] = None /\ manager' = manager
    BY <1>1 DEF Construct
  <2>4. OwnersOK([object EXCEPT ![o] = Fresh(m, n)], [mapped EXCEPT ![m] = 1])
    BY <1>0, <2>1, <2>2, <2>3, OwnNew
  <2> QED
    BY <2>2, <2>3, <2>4 DEF Owned
<1>2. ASSUME NEW o \in Objects, NEW other \in Objects, CopyConstruct(o, other)
      PROVE  Owned'
  <2>1. object[other] \in Handle /\ object[other].address
    BY <1>0, <1>2 DEF CopyConstruct, Quiet, Live
  <2>2. object[other].size \in Nat \ {0}
    BY <2>1 DEF Handle
  <2>3. PICK n \in Nat \ {0} : n = object[other].size
    BY <2>2
  <2>4. PICK m \in Memories : /\ ~Allocated(m)
                             /\ object' = [object EXCEPT ![o] = Fresh(m, n)]
                             /\ mapped' = [mapped EXCEPT ![m] = 1]
    BY <1>2, <2>3 DEF CopyConstruct
  <2>5. object[o] = None /\ manager' = manager
    BY <1>2 DEF CopyConstruct
  <2>6. OwnersOK([object EXCEPT ![o] = Fresh(m, n)], [mapped EXCEPT ![m] = 1])
    BY <1>0, <2>4, <2>5, OwnNew
  <2> QED
    BY <2>4, <2>5, <2>6 DEF Owned
<1>3. ASSUME NEW o \in Objects, NEW other \in Objects, MoveConstruct(o, other)
      PROVE  Owned'
  <2>1. object[o] = None /\ object[other] # None /\ o # other
    BY <1>3 DEF MoveConstruct, Quiet, Live
  <2> QED
    BY <1>0, <1>3, <2>1, OwnMoved DEF MoveConstruct, Owned
<1>4. ASSUME NEW o \in Objects, NEW other \in Objects, MoveAssign(o, other)
      PROVE  Owned'
  <2>1. object[o] \in Handle /\ object[o] # None /\ object[other] # None
    BY <1>0, <1>4 DEF MoveAssign, Quiet, Live
  <2>2. CASE o = other
    <3> DEFINE b == [object[o] EXCEPT !.size = 0, !.address = FALSE]
    <3>1. object[o] \in [memory : Memories \cup {None}, size : Nat, address : BOOLEAN]
      BY <2>1 DEF Handle
    <3>2. b \in [memory : Memories \cup {None}, size : Nat, address : BOOLEAN]
          /\ b.size = 0 /\ b.address = FALSE /\ b.memory = object[o].memory
      BY <3>1
    <3> HIDE DEF b
    <3>3. b \in Handle
      BY <3>2 DEF Handle
    <3>4. OwnersOK([object EXCEPT ![o] = b], Unmapped(o))
      BY <1>0, <2>1, <3>2, <3>3, OwnDropped
    <3>5. object' = [object EXCEPT ![o] = b] /\ mapped' = Unmapped(o) /\ manager' = manager
      BY <1>4, <2>2 DEF MoveAssign, b
    <3> QED
      BY <3>4, <3>5 DEF Owned
  <2>3. CASE o # other
    <3> DEFINE dropped == [object EXCEPT ![o] = Empty]
    <3>1. OwnersOK(dropped, Unmapped(o))
      BY <1>0, <2>1, EmptyIsHandle, OwnDropped
    <3>2. dropped[o] = Empty /\ dropped[other] = object[other]
          /\ [dropped EXCEPT ![o] = dropped[other], ![other] = Empty]
                = [object EXCEPT ![o] = object[other], ![other] = Empty]
      BY <1>0, <2>3
    <3> HIDE DEF dropped
    <3>3. OwnersOK([dropped EXCEPT ![o] = dropped[other], ![other] = Empty], Unmapped(o))
      BY <2>1, <2>3, <3>1, <3>2, OwnMoved
    <3> QED
      BY <1>4, <2>3, <3>2, <3>3 DEF MoveAssign, Owned
  <2> QED
    BY <2>2, <2>3
<1>5. ASSUME NEW o \in Objects, NEW p \in Objects, Swap(o, p)
      PROVE  Owned'
  BY <1>0, <1>5, OwnSwapped DEF Swap, Owned
<1>6. ASSUME NEW o \in Objects, Destroy(o)
      PROVE  Owned'
  BY <1>0, <1>6, OwnDropped DEF Destroy, Quiet, Live, Owned
<1>7. ASSUME UNCHANGED <<object, mapped, manager>>
      PROVE  Owned'
  BY <1>7 DEF Owned
<1> QED
  BY <1>1, <1>2, <1>3, <1>4, <1>5, <1>6, <1>7 DEF BufferStep, Write, FillFrom

-----------------------------------------------------------------------------
(********************************* kernels *********************************)

Places == Memories \cup Private

\* A job has the fields that Job gives it.
IsJob(job) ==
    job = [in |-> job.in, read |-> job.read, write |-> job.write, back |-> job.back, done |-> job.done]

\* How far a kernel has come, what it was promised to return, and what the host
\* and the device have for it.  Until it executes, the host has what the promise
\* was made of, and the device has the same once it was copied; from then on the
\* device has the result, and the host too once that was copied back.
JobOK(job, p, h, d) ==
    /\ IsJob(job)
    /\ job.in \subseteq Places /\ job.in # {} /\ job.write \subseteq Places
    /\ {job.read[1], job.read[2], job.read[3]} \subseteq job.in
    /\ job.back \in job.write /\ job.back # "new"
    /\ "execute" \notin job.done =>
          /\ "post" \notin job.done /\ p = Result(Seen(h, job.read))
          /\ "pre" \in job.done => \A m \in job.in : d[m] = h[m]
    /\ "execute" \in job.done => "pre" \in job.done /\ d[job.back] = p
    /\ "post" \in job.done => h[job.back] = p

\* Only the kernel that they belong to works on the private buffers ...
KeepsToIts(k) ==
    /\ "in" \in WorkedOn(k) \/ "out" \in WorkedOn(k) => k = "reg"
    /\ "new" \in WorkedOn(k) => k = "tsdf"

\* ... no two work on what one of them writes, and what they work on is not freed.
WorkOK ==
    /\ DOMAIN host = Places /\ DOMAIN device = Places
    /\ DOMAIN run = Kernels /\ DOMAIN promise = Kernels
    /\ \A k \in Running : JobOK(run[k], promise[k], host, device) /\ KeepsToIts(k)
    /\ \A k, l \in Running : k # l => WorkedOn(k) \cap run[l].write = {}
    /\ \A k \in Running : \A m \in WorkedOn(k) \cap Memories : \E o \in Live : Reach(o) = m

IInv == Owned /\ WorkOK

\* A job does not notice what is done elsewhere, nor that what it reads is copied
\* to the device once more.
LEMMA JobUndisturbed ==
  ASSUME NEW job, NEW p, NEW h, NEW d, NEW g, NEW e, JobOK(job, p, h, d),
         \A m \in job.in \cup job.write : g[m] = h[m],
         \A m \in job.write : e[m] = d[m],
         \A m \in job.in : e[m] = d[m] \/ (m \notin job.write /\ e[m] = h[m])
  PROVE  JobOK(job, p, g, e)
<1>1. job.back \in job.write /\ {job.read[1], job.read[2], job.read[3]} \subseteq job.in
  BY DEF JobOK
<1>2. Seen(g, job.read) = Seen(h, job.read)
  BY <1>1 DEF Seen
<1>3. g[job.back] = h[job.back] /\ e[job.back] = d[job.back]
  BY <1>1
<1> QED
  BY <1>1, <1>2, <1>3 DEF JobOK

LEMMA JobIsNotIdle ==
  ASSUME NEW job, NEW p, NEW h, NEW d, JobOK(job, p, h, d)
  PROVE  job # Idle
BY DEF JobOK, Idle

\* What the program does to buffers that no kernel works on
LEMMA QuietStep ==
  ASSUME WorkOK, run' = run, promise' = promise,
         DOMAIN host' = Places, DOMAIN device' = Places,
         \A o \in Objects : object'[o] = object[o] \/ object[o] = None \/ Quiet(o),
         \A m \in Places :
            \/ host'[m] = host[m] /\ device'[m] = device[m]
            \/ \A k \in Running : m \notin WorkedOn(k)
            \/ m \in Memories /\ ~\E o \in Objects : object'[o] # None /\ object'[o].memory = m
  PROVE  WorkOK'
<1>1. Running' = Running /\ \A k \in Running : WorkedOn(k)' = WorkedOn(k)
  BY DEF Running, WorkedOn
<1>2. ASSUME NEW k \in Running, NEW m \in WorkedOn(k) \cap Memories
      PROVE  \E o \in Objects : object'[o] # None /\ object'[o].memory = m
  <2>1. PICK o \in Live : Reach(o) = m
    BY <1>2 DEF WorkOK
  <2>2. o \in Objects /\ object[o] # None /\ ~Quiet(o)
    BY <1>2, <2>1 DEF Live, Quiet
  <2> QED
    BY <2>1, <2>2 DEF Reach
<1>3. ASSUME NEW k \in Running, NEW m \in WorkedOn(k)
      PROVE  host'[m] = host[m] /\ device'[m] = device[m]
  <2>1. m \in Places
    BY DEF WorkOK, JobOK, WorkedOn
  <2> QED
    BY <1>2, <2>1
<1>4. ASSUME NEW k \in Running
      PROVE  JobOK(run[k], promise[k], host', device')
  BY <1>3, JobUndisturbed DEF WorkOK, WorkedOn
<1>5. \A k \in Running : \A m \in WorkedOn(k) \cap Memories : \E o \in Live' : Reach(o)' = m
  BY <1>2 DEF Live, Reach
<1>6. \A k \in Running : KeepsToIts(k)'
  BY <1>1 DEF WorkOK, KeepsToIts
<1>7. \A k, l \in Running : k # l => WorkedOn(k) \cap run[l].write = {}
  BY DEF WorkOK
<1> QED
  BY <1>1, <1>4, <1>5, <1>6, <1>7 DEF WorkOK

LEMMA BufferStepWorks ==
  ASSUME IInv, BufferStep
  PROVE  WorkOK'
<1>0. WorkOK /\ DOMAIN host = Places /\ DOMAIN device = Places /\ DOMAIN object = Objects
  BY DEF IInv, WorkOK, Owned, OwnersOK
<1>1. ASSUME NEW o \in Objects, NEW n \in Sizes, Construct(o, n)
      PROVE  WorkOK'
  <2>1. /\ UNCHANGED <<host, device, run, promise>> /\ object[o] = None
        /\ \A p \in Objects : p # o => object'[p] = object[p]
    BY <1>0, <1>1 DEF Construct
  <2> QED
    BY <1>0, <2>1, QuietStep
<1>2. ASSUME NEW o \in Objects, NEW other \in Objects, CopyConstruct(o, other)
      PROVE  WorkOK'
  <2>1. PICK m \in Memories : /\ ~Allocated(m)
                             /\ object' = [object EXCEPT ![o] = Fresh(m, object[other].size)]
                             /\ host' = [host EXCEPT ![m] = host[Reach(other)]]
    BY <1>2 DEF CopyConstruct
  <2>2. UNCHANGED <<device, run, promise>> /\ object[o] = None
    BY <1>2 DEF CopyConstruct
  <2>3. \A k \in Running : m \notin WorkedOn(k)
    BY <1>0, <2>1 DEF WorkOK, Allocated
  <2>4. /\ DOMAIN host' = Places /\ \A l \in Places : l # m => host'[l] = host[l]
        /\ \A p \in Objects : p # o => object'[p] = object[p]
    BY <1>0, <2>1
  <2> QED
    BY <1>0, <2>2, <2>3, <2>4, QuietStep
<1>3. ASSUME NEW o \in Objects, NEW other \in Objects, MoveConstruct(o, other)
      PROVE  WorkOK'
  <2>1. /\ UNCHANGED <<host, device, run, promise>> /\ object[o] = None /\ Quiet(other)
        /\ \A p \in Objects : p # o /\ p # other => object'[p] = object[p]
    BY <1>0, <1>3 DEF MoveConstruct
  <2> QED
    BY <1>0, <2>1, QuietStep
<1>4. ASSUME UNCHANGED <<run, promise>>,
             host' = Forgotten(host, 0), device' = Forgotten(device, 1),
             \A p \in Objects : object'[p] = object[p] \/ Quiet(p)
      PROVE  WorkOK'
  <2>1. DOMAIN host' = Places /\ DOMAIN device' = Places
    BY <1>0, <1>4 DEF Forgotten
  <2>2. ASSUME NEW m \in Places
        PROVE  \/ host'[m] = host[m] /\ device'[m] = device[m]
               \/ m \in Memories /\ ~\E o \in Objects : object'[o] # None /\ object'[o].memory = m
    BY <1>0, <1>4 DEF Forgotten
  <2> QED
    BY <1>0, <1>4, <2>1, <2>2, QuietStep
<1>5. ASSUME NEW o \in Objects, NEW other \in Objects, MoveAssign(o, other)
      PROVE  WorkOK'
  <2>1. /\ UNCHANGED <<run, promise>> /\ Quiet(o) /\ Quiet(other)
        /\ host' = Forgotten(host, 0) /\ device' = Forgotten(device, 1)
        /\ \A p \in Objects : p # o /\ p # other => object'[p] = object[p]
    BY <1>0, <1>5 DEF MoveAssign
  <2> QED
    BY <1>4, <2>1
<1>6. ASSUME NEW o \in Objects, Destroy(o)
      PROVE  WorkOK'
  <2>1. /\ UNCHANGED <<run, promise>> /\ Quiet(o)
        /\ host' = Forgotten(host, 0) /\ device' = Forgotten(device, 1)
        /\ \A p \in Objects : p # o => object'[p] = object[p]
    BY <1>0, <1>6 DEF Destroy
  <2> QED
    BY <1>4, <2>1
<1>7. ASSUME NEW o \in Objects, NEW p \in Objects, Swap(o, p)
      PROVE  WorkOK'
  <2>1. /\ UNCHANGED <<host, device, run, promise>> /\ Quiet(o) /\ Quiet(p)
        /\ \A q \in Objects : q # o /\ q # p => object'[q] = object[q]
    BY <1>0, <1>7 DEF Swap
  <2> QED
    BY <1>0, <2>1, QuietStep
<1>8. ASSUME NEW o \in Objects, NEW v, Quiet(o), host' = [host EXCEPT ![Reach(o)] = v],
             UNCHANGED <<object, device, run, promise>>
      PROVE  WorkOK'
  <2>1. DOMAIN host' = Places /\ \A m \in Places : m # Reach(o) => host'[m] = host[m]
    BY <1>0, <1>8
  <2>2. \A k \in Running : Reach(o) \notin WorkedOn(k)
    BY <1>8 DEF Quiet
  <2> QED
    BY <1>0, <1>8, <2>1, <2>2, QuietStep
<1>9. ASSUME NEW o \in Objects, NEW other \in Objects, FillFrom(o, other)
      PROVE  WorkOK'
  BY <1>8, <1>9 DEF FillFrom
<1>10. ASSUME NEW o \in Objects, NEW v \in Values, Write(o, v)
       PROVE  WorkOK'
  BY <1>8, <1>10 DEF Write
<1> QED
  BY <1>1, <1>2, <1>3, <1>5, <1>6, <1>7, <1>9, <1>10 DEF BufferStep

\* A kernel may start on what no other one writes, and vice versa.
LEMMA StartOK ==
  ASSUME WorkOK, NEW k \in Kernels, NEW job, NEW filled, Start(k, job, filled),
         IsJob(job),
         job.in \subseteq Places, job.in # {}, job.write \subseteq Places, job.done = {},
         {job.read[1], job.read[2], job.read[3]} \subseteq job.in,
         job.back \in job.write, job.back # "new",
         "in" \in job.in \cup job.write \/ "out" \in job.in \cup job.write => k = "reg",
         "new" \in job.in \cup job.write => k = "tsdf",
         DOMAIN filled = Places,
         \A l \in Running : \A m \in WorkedOn(l) : filled[m] = host[m],
         \A m \in (job.in \cup job.write) \cap Memories : \E o \in Live : Reach(o) = m
  PROVE  WorkOK'
<1>1. /\ run[k] = Idle /\ run' = [run EXCEPT ![k] = job] /\ host' = filled
      /\ promise' = [promise EXCEPT ![k] = Result(Seen(filled, job.read))]
      /\ UNCHANGED <<object, device>>
      /\ \A l \in Running : /\ WorkedOn(l) \cap job.write = {}
                            /\ (job.in \cup job.write) \cap run[l].write = {}
  BY DEF Start
<1>2. /\ DOMAIN run = Kernels /\ DOMAIN promise = Kernels /\ DOMAIN device = Places
  BY DEF WorkOK
<1>3. /\ run'[k] = job /\ promise'[k] = Result(Seen(filled, job.read))
      /\ DOMAIN run' = Kernels /\ DOMAIN promise' = Kernels
      /\ \A l \in Kernels : l # k => run'[l] = run[l] /\ promise'[l] = promise[l]
  BY <1>1, <1>2
<1>4. JobOK(job, promise'[k], filled, device)
  BY <1>3 DEF JobOK
<1>5. k \notin Running /\ Running' = Running \cup {k}
  BY <1>1, <1>3, <1>4, JobIsNotIdle DEF Running
<1>6. /\ WorkedOn(k)' = job.in \cup job.write
      /\ \A l \in Running : l # k /\ l \in Kernels /\ WorkedOn(l)' = WorkedOn(l)
  BY <1>3, <1>5 DEF WorkedOn, Running
<1>7. ASSUME NEW l \in Running
      PROVE  JobOK(run[l], promise[l], filled, device) /\ KeepsToIts(l)'
  <2>1. JobOK(run[l], promise[l], host, device) /\ KeepsToIts(l)
    BY DEF WorkOK
  <2>2. JobOK(run[l], promise[l], filled, device)
    BY <2>1, JobUndisturbed DEF WorkedOn
  <2> QED
    BY <1>6, <2>1, <2>2 DEF KeepsToIts
<1>8. KeepsToIts(k)'
  BY <1>6 DEF KeepsToIts
<1>9. ASSUME NEW l \in Running', NEW j \in Running', l # j
      PROVE  WorkedOn(l)' \cap run'[j].write = {}
  <2>1. CASE l = k
    <3>1. j \in Running /\ run'[j] = run[j]
      BY <1>3, <1>5, <1>6, <1>9, <2>1
    <3> QED
      BY <1>1, <1>6, <2>1, <3>1
  <2>2. CASE j = k
    <3>1. l \in Running
      BY <1>5, <1>9, <2>2
    <3> QED
      BY <1>1, <1>3, <1>6, <2>2, <3>1
  <2>3. CASE l # k /\ j # k
    <3>1. l \in Running /\ j \in Running /\ run'[j] = run[j] /\ WorkedOn(l)' = WorkedOn(l)
      BY <1>3, <1>5, <1>6, <2>3
    <3> QED
      BY <1>9, <3>1 DEF WorkOK
  <2> QED
    BY <2>1, <2>2, <2>3
<1>10. ASSUME NEW l \in Running', NEW m \in WorkedOn(l)' \cap Memories
       PROVE  \E o \in Live' : Reach(o)' = m
  <2>1. \E o \in Live : Reach(o) = m
    BY <1>5, <1>6, <1>10 DEF WorkOK
  <2> QED
    BY <1>1, <2>1 DEF Live, Reach
<1>11. ASSUME NEW l \in Running'
       PROVE  JobOK(run'[l], promise'[l], host', device') /\ KeepsToIts(l)'
  BY <1>1, <1>3, <1>4, <1>5, <1>6, <1>7, <1>8
<1>12. DOMAIN host' = Places /\ DOMAIN device' = Places
  BY <1>1, <1>2
<1> QED
  BY <1>3, <1>9, <1>10, <1>11, <1>12 DEF WorkOK

LEMMA UsableReaches ==
  ASSUME Owned, NEW o \in Objects, Usable(o)
  PROVE  o \in Live /\ Reach(o) \in Memories /\ Reach(o) \in Places /\ Reach(o) \notin Private
<1>1. o \in Live /\ object[o] \in Handle /\ object[o].address
  BY DEF Usable, Live, Owned, OwnersOK
<1>2. Reach(o) \in Memories
  BY <1>1 DEF Handle, Reach
<1> QED
  BY <1>1, <1>2, NamesAssumption DEF Places

LEMMA JobFields ==
  ASSUME NEW in, NEW a, NEW b, NEW c, NEW write, NEW back,
         NEW job, job = Job(in, <<a, b, c>>, write, back)
  PROVE  /\ job.in = in /\ job.write = write /\ job.back = back /\ job.done = {}
         /\ job.read[1] = a /\ job.read[2] = b /\ job.read[3] = c
         /\ IsJob(job)
BY DEF Job, IsJob

LEMMA RunVaddOK ==
  ASSUME IInv, "vadd" \in Kernels, NEW a \in InputBuffer, NEW b \in InputBuffer, NEW c \in OutputBuffer,
         RunVadd(a, b, c)
  PROVE  WorkOK'
<1>1. a \in Objects /\ b \in Objects /\ c \in Objects /\ Usable(a) /\ Usable(b) /\ Usable(c)
  BY DEF Objects, Kinds, RunVadd
<1>2. PICK ma, mb, mc : ma = Reach(a) /\ mb = Reach(b) /\ mc = Reach(c)
  OBVIOUS
<1>3. /\ {ma, mb, mc} \subseteq Memories /\ {ma, mb, mc} \subseteq Places
      /\ ma \notin Private /\ mb \notin Private /\ mc \notin Private
      /\ \A m \in {ma, mb, mc} : \E o \in Live : Reach(o) = m
  BY <1>1, <1>2, UsableReaches DEF IInv
<1>4. PICK job : job = Job({ma, mb}, <<ma, ma, mb>>, {mc}, mc)
  OBVIOUS
<1>5. /\ job.in = {ma, mb} /\ job.write = {mc} /\ job.back = mc /\ job.done = {}
      /\ job.read[1] = ma /\ job.read[2] = ma /\ job.read[3] = mb
      /\ IsJob(job)
  BY <1>4, JobFields
<1>6. Start("vadd", job, host)
  BY <1>2, <1>4 DEF RunVadd
<1>7. DOMAIN host = Places /\ WorkOK
  BY DEF IInv, WorkOK
<1> QED
  BY <1>3, <1>5, <1>6, <1>7, StartOK DEF Private

LEMMA RunRegOK ==
  ASSUME IInv, "reg" \in Kernels, NEW map \in InputOutputBuffer, NEW points \in InputBuffer, NEW guess,
         RunReg(map, points, guess)
  PROVE  WorkOK'
<1>1. map \in Objects /\ points \in Objects /\ Usable(map) /\ Usable(points)
  BY DEF Objects, Kinds, RunReg
<1>2. PICK mm, mp : mm = Reach(map) /\ mp = Reach(points)
  OBVIOUS
<1>3. /\ {mm, mp} \subseteq Memories /\ {mm, mp, "in", "out"} \subseteq Places
      /\ mm \notin Private /\ mp \notin Private
      /\ "in" \notin Memories /\ "out" \notin Memories
      /\ \A m \in {mm, mp} : \E o \in Live : Reach(o) = m
  BY <1>1, <1>2, UsableReaches, NamesAssumption DEF IInv, Places, Private
<1>4. PICK job : job = Job({mm, mp, "in"}, <<mm, mp, "in">>, {"out"}, "out")
  OBVIOUS
<1>5. /\ job.in = {mm, mp, "in"} /\ job.write = {"out"} /\ job.back = "out" /\ job.done = {}
      /\ job.read[1] = mm /\ job.read[2] = mp /\ job.read[3] = "in"
      /\ IsJob(job)
  BY <1>4, JobFields
<1>6. PICK filled : filled = [host EXCEPT !["in"] = guess]
  OBVIOUS
<1>7. Start("reg", job, filled)
  BY <1>2, <1>4, <1>6 DEF RunReg
<1>8. DOMAIN host = Places /\ WorkOK
  BY DEF IInv, WorkOK
<1>9. \A l \in Running : "in" \notin WorkedOn(l)
  BY <1>7, <1>8 DEF WorkOK, KeepsToIts, Start, Running
<1>10. \A l \in Running : \A m \in WorkedOn(l) : m \in Places
  BY <1>8 DEF WorkOK, JobOK, WorkedOn
<1>11. DOMAIN filled = Places /\ \A l \in Running : \A m \in WorkedOn(l) : filled[m] = host[m]
  BY <1>6, <1>8, <1>9, <1>10
<1>12. "new" \notin job.in \cup job.write
  BY <1>3, <1>5 DEF Private
<1>13. \A m \in (job.in \cup job.write) \cap Memories : \E o \in Live : Reach(o) = m
  BY <1>3, <1>5
<1>14. job.in \subseteq Places /\ job.in # {} /\ job.write \subseteq Places /\ job.done = {}
       /\ {job.read[1], job.read[2], job.read[3]} \subseteq job.in
       /\ job.back \in job.write /\ job.back # "new"
  BY <1>3, <1>5
<1> QED
  BY <1>5, <1>7, <1>8, <1>11, <1>12, <1>13, <1>14, StartOK

LEMMA RunTsdfOK ==
  ASSUME IInv, "tsdf" \in Kernels, NEW map \in InputOutputBuffer, NEW points \in InputBuffer,
         RunTsdf(map, points)
  PROVE  WorkOK'
<1>1. map \in Objects /\ points \in Objects /\ Usable(map) /\ Usable(points)
  BY DEF Objects, Kinds, RunTsdf
<1>2. PICK mm, mp : mm = Reach(map) /\ mp = Reach(points)
  OBVIOUS
<1>3. /\ {mm, mp} \subseteq Memories /\ {mm, mp, "new"} \subseteq Places
      /\ mm \notin Private /\ mp \notin Private
      /\ "new" \notin Memories
      /\ \A m \in {mm, mp} : \E o \in Live : Reach(o) = m
  BY <1>1, <1>2, UsableReaches, NamesAssumption DEF IInv, Places, Private
<1>4. PICK job : job = Job({mm, mp, "new"}, <<mm, mp, "new">>, {mm, "new"}, mm)
  OBVIOUS
<1>5. /\ job.in = {mm, mp, "new"} /\ job.write = {mm, "new"} /\ job.back = mm /\ job.done = {}
      /\ job.read[1] = mm /\ job.read[2] = mp /\ job.read[3] = "new"
      /\ IsJob(job)
  BY <1>4, JobFields
<1>6. PICK filled : filled = [host EXCEPT !["new"] = 0]
  OBVIOUS
<1>7. Start("tsdf", job, filled)
  BY <1>2, <1>4, <1>6 DEF RunTsdf
<1>8. DOMAIN host = Places /\ WorkOK
  BY DEF IInv, WorkOK
<1>9. \A l \in Running : "new" \notin WorkedOn(l)
  BY <1>7, <1>8 DEF WorkOK, KeepsToIts, Start, Running
<1>10. \A l \in Running : \A m \in WorkedOn(l) : m \in Places
  BY <1>8 DEF WorkOK, JobOK, WorkedOn
<1>11. DOMAIN filled = Places /\ \A l \in Running : \A m \in WorkedOn(l) : filled[m] = host[m]
  BY <1>6, <1>8, <1>9, <1>10
<1>12. "in" \notin job.in \cup job.write /\ "out" \notin job.in \cup job.write
  BY <1>3, <1>5 DEF Private
<1>13. \A m \in (job.in \cup job.write) \cap Memories : \E o \in Live : Reach(o) = m
  BY <1>3, <1>5
<1>14. job.in \subseteq Places /\ job.in # {} /\ job.write \subseteq Places /\ job.done = {}
       /\ {job.read[1], job.read[2], job.read[3]} \subseteq job.in
       /\ job.back \in job.write /\ job.back # "new"
  BY <1>3, <1>5 DEF Private
<1> QED
  BY <1>5, <1>7, <1>8, <1>11, <1>12, <1>13, <1>14, StartOK

-----------------------------------------------------------------------------
(******************************** commands *********************************)

\* One more command of kernel k has run: what is left to show is what it did to
\* its own job, and that it left alone what the others work on.
LEMMA CommandStep ==
  ASSUME WorkOK, NEW k \in Running, NEW job, run' = [run EXCEPT ![k] = job],
         job.in = run[k].in, job.write = run[k].write, UNCHANGED <<object, promise>>,
         DOMAIN host' = Places, DOMAIN device' = Places,
         JobOK(job, promise[k], host', device'),
         \A l \in Running : l # k => JobOK(run[l], promise[l], host', device')
  PROVE  WorkOK'
<1>1. DOMAIN run = Kernels /\ k \in Kernels
  BY DEF WorkOK, Running
<1>2. /\ run'[k] = job /\ DOMAIN run' = Kernels
      /\ \A l \in Kernels : l # k => run'[l] = run[l]
  BY <1>1
<1>3. Running' = Running
  BY <1>2, JobIsNotIdle DEF Running
<1>4. \A l \in Running : WorkedOn(l)' = WorkedOn(l) /\ run'[l].write = run[l].write
  BY <1>2 DEF WorkedOn, Running
<1>5. \A l \in Running : JobOK(run'[l], promise'[l], host', device')
  BY <1>2 DEF Running
<1>6. \A l \in Running : KeepsToIts(l)'
  BY <1>4 DEF WorkOK, KeepsToIts
<1>7. \A l, j \in Running : l # j => WorkedOn(l)' \cap run'[j].write = {}
  BY <1>4 DEF WorkOK
<1>8. \A l \in Running : \A m \in WorkedOn(l)' \cap Memories : \E o \in Live' : Reach(o)' = m
  BY <1>4 DEF WorkOK, Live, Reach
<1>9. DOMAIN promise' = Kernels
  BY DEF WorkOK
<1> QED
  BY <1>2, <1>3, <1>5, <1>6, <1>7, <1>8, <1>9 DEF WorkOK

LEMMA IdleIsReadyForNothing ==
  ASSUME NEW k \in Kernels, NEW command \in {"pre", "execute", "post"}, Ready(k, command)
  PROVE  k \in Running
BY DEF Ready, Running, Idle

LEMMA DoneFields ==
  ASSUME WorkOK, NEW k \in Running, NEW command, NEW job,
         job = [run[k] EXCEPT !.done = @ \cup {command}]
  PROVE  /\ job.in = run[k].in /\ job.read = run[k].read /\ job.write = run[k].write
         /\ job.back = run[k].back /\ job.done = run[k].done \cup {command}
         /\ IsJob(job)
<1>1. PICK old : old = run[k]
  OBVIOUS
<1>2. old = [in |-> old.in, read |-> old.read, write |-> old.write, back |-> old.back, done |-> old.done]
  BY <1>1 DEF WorkOK, JobOK, IsJob
<1>3. job = [in |-> old.in, read |-> old.read, write |-> old.write, back |-> old.back,
             done |-> old.done \cup {command}]
  BY <1>1, <1>2
<1> QED
  BY <1>1, <1>3 DEF IsJob

\* The arguments are copied to the device; another kernel that has them there
\* finds them unchanged.
LEMMA MigrateInOK ==
  ASSUME WorkOK, NEW k \in Kernels, MigrateIn(k)
  PROVE  WorkOK'
<1>0. k \in Running
  BY IdleIsReadyForNothing DEF MigrateIn
<1>1. PICK job : job = [run[k] EXCEPT !.done = @ \cup {"pre"}]
  OBVIOUS
<1>2. /\ job.in = run[k].in /\ job.read = run[k].read /\ job.write = run[k].write
      /\ job.back = run[k].back /\ job.done = run[k].done \cup {"pre"}
      /\ IsJob(job)
  BY <1>0, <1>1, DoneFields
<1>3. /\ run' = [run EXCEPT ![k] = job] /\ "pre" \notin run[k].done
      /\ UNCHANGED <<object, host, promise>>
      /\ device' = [m \in Places |-> IF m \in run[k].in THEN host[m] ELSE device[m]]
  BY <1>1 DEF MigrateIn, Done, Ready, WorkOK
<1>4. JobOK(run[k], promise[k], host, device)
  BY <1>0 DEF WorkOK
<1>5. \A m \in job.in : device'[m] = host[m]
  BY <1>2, <1>3, <1>4 DEF JobOK
<1>6. JobOK(job, promise[k], host', device')
  BY <1>2, <1>3, <1>4, <1>5 DEF JobOK
<1>7. ASSUME NEW l \in Running, l # k
      PROVE  JobOK(run[l], promise[l], host', device')
  <2>1. JobOK(run[l], promise[l], host, device) /\ WorkedOn(k) \cap run[l].write = {}
    BY <1>0, <1>7 DEF WorkOK
  <2>2. run[l].in \subseteq Places /\ run[l].write \subseteq Places
    BY <2>1 DEF JobOK
  <2>3. \A m \in run[l].write : device'[m] = device[m]
    BY <1>3, <2>1, <2>2 DEF WorkedOn
  <2>4. \A m \in run[l].in : device'[m] = device[m] \/ (m \notin run[l].write /\ device'[m] = host[m])
    BY <1>3, <2>1, <2>2 DEF WorkedOn
  <2>5. \A m \in run[l].in \cup run[l].write : host'[m] = host[m]
    BY <1>3
  <2> QED
    BY <2>1, <2>3, <2>4, <2>5, JobUndisturbed
<1>8. DOMAIN host' = Places /\ DOMAIN device' = Places
  BY <1>3 DEF WorkOK
<1> QED
  BY <1>0, <1>2, <1>3, <1>6, <1>7, <1>8, CommandStep

LEMMA ExecuteOK ==
  ASSUME WorkOK, NEW k \in Kernels, Execute(k)
  PROVE  WorkOK'
<1>0. k \in Running
  BY IdleIsReadyForNothing DEF Execute
<1>1. PICK job : job = [run[k] EXCEPT !.done = @ \cup {"execute"}]
  OBVIOUS
<1>2. /\ job.in = run[k].in /\ job.read = run[k].read /\ job.write = run[k].write
      /\ job.back = run[k].back /\ job.done = run[k].done \cup {"execute"}
      /\ IsJob(job)
  BY <1>0, <1>1, DoneFields
<1>3. /\ run' = [run EXCEPT ![k] = job] /\ "execute" \notin run[k].done
      /\ UNCHANGED <<object, host, promise>>
      /\ device' = [m \in Places |-> IF m \in run[k].write
                                     THEN (IF m = "new" THEN 1 ELSE Result(Seen(device, run[k].read)))
                                     ELSE device[m]]
  BY <1>1 DEF Execute, Done, Ready, WorkOK
<1>4. "pre" \in run[k].done
  BY DEF Execute, Ready, WaitsFor
<1>5. JobOK(run[k], promise[k], host, device)
  BY <1>0 DEF WorkOK
<1>6. Seen(device, run[k].read) = Seen(host, run[k].read)
  BY <1>3, <1>4, <1>5 DEF JobOK, Seen
<1>7. device'[run[k].back] = promise[k]
  BY <1>3, <1>5, <1>6 DEF JobOK
<1>8. JobOK(job, promise[k], host', device')
  BY <1>2, <1>3, <1>4, <1>5, <1>7 DEF JobOK
<1>9. ASSUME NEW l \in Running, l # k
      PROVE  JobOK(run[l], promise[l], host', device')
  <2>1. JobOK(run[l], promise[l], host, device) /\ WorkedOn(l) \cap run[k].write = {}
    BY <1>0, <1>9 DEF WorkOK
  <2>2. \A m \in run[l].in \cup run[l].write : device'[m] = device[m] /\ host'[m] = host[m]
    BY <1>3, <2>1 DEF WorkedOn, JobOK
  <2> QED
    BY <2>1, <2>2, JobUndisturbed
<1>10. DOMAIN host' = Places /\ DOMAIN device' = Places
  BY <1>3 DEF WorkOK
<1> QED
  BY <1>0, <1>2, <1>3, <1>8, <1>9, <1>10, CommandStep

LEMMA MigrateOutOK ==
  ASSUME WorkOK, NEW k \in Kernels, MigrateOut(k)
  PROVE  WorkOK'
<1>0. k \in Running
  BY IdleIsReadyForNothing DEF MigrateOut
<1>1. PICK job : job = [run[k] EXCEPT !.done = @ \cup {"post"}]
  OBVIOUS
<1>2. /\ job.in = run[k].in /\ job.read = run[k].read /\ job.write = run[k].write
      /\ job.back = run[k].back /\ job.done = run[k].done \cup {"post"}
      /\ IsJob(job)
  BY <1>0, <1>1, DoneFields
<1>3. /\ run' = [run EXCEPT ![k] = job]
      /\ UNCHANGED <<object, device, promise>>
      /\ host' = [host EXCEPT ![run[k].back] = device[run[k].back]]
  BY <1>1 DEF MigrateOut, Done
<1>4. "execute" \in run[k].done
  BY DEF MigrateOut, Ready, WaitsFor
<1>5. JobOK(run[k], promise[k], host, device) /\ DOMAIN host = Places
  BY <1>0 DEF WorkOK
<1>6. run[k].back \in Places
  BY <1>5 DEF JobOK
<1>7. DOMAIN host' = Places /\ host'[run[k].back] = promise[k]
      /\ \A m \in Places : m # run[k].back => host'[m] = host[m]
  BY <1>3, <1>4, <1>5, <1>6 DEF JobOK
<1>8. JobOK(job, promise[k], host', device')
  BY <1>2, <1>3, <1>4, <1>5, <1>7 DEF JobOK
<1>9. ASSUME NEW l \in Running, l # k
      PROVE  JobOK(run[l], promise[l], host', device')
  <2>1. JobOK(run[l], promise[l], host, device) /\ WorkedOn(l) \cap run[k].write = {}
    BY <1>0, <1>9 DEF WorkOK
  <2>2. run[k].back \in run[k].write /\ run[l].in \subseteq Places /\ run[l].write \subseteq Places
    BY <1>5, <2>1 DEF JobOK
  <2>3. \A m \in run[l].in \cup run[l].write : host'[m] = host[m]
    BY <1>7, <2>1, <2>2 DEF WorkedOn
  <2>4. \A m \in run[l].in \cup run[l].write : device'[m] = device[m]
    BY <1>3
  <2> QED
    BY <2>1, <2>3, <2>4, JobUndisturbed
<1>10. DOMAIN device' = Places
  BY <1>3 DEF WorkOK
<1> QED
  BY <1>0, <1>2, <1>3, <1>7, <1>8, <1>9, <1>10, CommandStep

LEMMA WaitCompleteOK ==
  ASSUME WorkOK, NEW k \in Kernels, WaitComplete(k)
  PROVE  WorkOK'
<1>1. /\ run' = [run EXCEPT ![k] = Idle] /\ promise' = [promise EXCEPT ![k] = 0]
      /\ UNCHANGED <<object, host, device>> /\ DOMAIN run = Kernels /\ DOMAIN promise = Kernels
  BY DEF WaitComplete, WorkOK
<1>2. /\ DOMAIN run' = Kernels /\ DOMAIN promise' = Kernels /\ run'[k] = Idle
      /\ \A l \in Kernels : l # k => run'[l] = run[l] /\ promise'[l] = promise[l]
  BY <1>1
<1>3. /\ Running' = Running \ {k}
      /\ \A l \in Running' : l \in Running /\ l # k /\ run'[l] = run[l] /\ promise'[l] = promise[l]
                             /\ WorkedOn(l)' = WorkedOn(l)
  BY <1>2 DEF Running, WorkedOn
<1>4. \A l \in Running' : JobOK(run'[l], promise'[l], host', device') /\ KeepsToIts(l)'
  BY <1>1, <1>3 DEF WorkOK, KeepsToIts
<1>5. \A l, j \in Running' : l # j => WorkedOn(l)' \cap run'[j].write = {}
  BY <1>3 DEF WorkOK
<1>6. \A l \in Running' : \A m \in WorkedOn(l)' \cap Memories : \E o \in Live' : Reach(o)' = m
  BY <1>1, <1>3 DEF WorkOK, Live, Reach
<1>7. DOMAIN host' = Places /\ DOMAIN device' = Places
  BY <1>1 DEF WorkOK
<1> QED
  BY <1>2, <1>4, <1>5, <1>6, <1>7 DEF WorkOK

-----------------------------------------------------------------------------
(******************************** theorems *********************************)

LEMMA InitOK == Init => IInv
<1> SUFFICES ASSUME Init PROVE IInv
  OBVIOUS
<1>1. Owned
  BY DEF Init, Owned, OwnersOK
<1>2. Running = {}
  BY DEF Init, Running
<1>3. WorkOK
  BY <1>2 DEF Init, WorkOK, Places
<1> QED
  BY <1>1, <1>3 DEF IInv

LEMMA StepOK == IInv /\ [Next]_vars => IInv'
<1> SUFFICES ASSUME IInv, [Next]_vars PROVE IInv'
  OBVIOUS
<1>0. Owned /\ WorkOK
  BY DEF IInv
<1>1. ASSUME UNCHANGED <<object, host, device, run, promise>>
      PROVE  WorkOK'
  BY <1>0, <1>1, QuietStep DEF WorkOK
<1>2. CASE UNCHANGED vars
  BY <1>0, <1>1, <1>2 DEF vars, IInv, Owned
<1>3. CASE LoadXclbin \/ Release
  BY <1>0, <1>1, <1>3 DEF LoadXclbin, Release, IInv, Owned
<1>4. CASE BufferStep
  BY <1>0, <1>4, BufferStepOwns, BufferStepWorks DEF IInv
<1>5. CASE RunStep
  <2>1. WorkOK'
    BY <1>5, RunVaddOK, RunRegOK, RunTsdfOK DEF RunStep
  <2>2. UNCHANGED <<manager, object, mapped>>
    BY <1>5 DEF RunStep, RunVadd, RunReg, RunTsdf, Start
  <2>3. Owned'
    BY <1>0, <2>2 DEF Owned
  <2> QED
    BY <2>1, <2>3 DEF IInv
<1>6. ASSUME NEW k \in Kernels, MigrateIn(k) \/ Execute(k) \/ MigrateOut(k) \/ WaitComplete(k)
      PROVE  IInv'
  <2>1. WorkOK'
    BY <1>0, <1>6, MigrateInOK, ExecuteOK, MigrateOutOK, WaitCompleteOK
  <2>2. Owned'
    BY <1>0, <1>6 DEF MigrateIn, Execute, MigrateOut, WaitComplete, Owned
  <2> QED
    BY <2>1, <2>2 DEF IInv
<1> QED
  BY <1>2, <1>3, <1>4, <1>5, <1>6 DEF Next

\* Whatever was copied, moved, assigned, swapped or destroyed in whatever order,
\* a mapped memory is one that exactly one Buffer will unmap.
THEOREM OneOwnerAlways == Spec => []OneOwner
<1>1. IInv => OneOwner
  BY OwnedIsOneOwner DEF IInv
<1> QED
  BY <1>1, InitOK, StepOK, PTL DEF Spec

\* However the commands of all kernels interleave in the queue, what a caller
\* finds after waitComplete is what the kernel makes of its arguments, and no
\* kernel waits for itself.
THEOREM ReturnsResultAlways == Spec => []ReturnsResult
<1>1. IInv => ReturnsResult
  <2> SUFFICES ASSUME IInv, NEW k \in Running
               PROVE  IF WaitsUntil \subseteq run[k].done THEN host[run[k].back] = promise[k]
                      ELSE \E command \in {"pre", "execute", "post"} : Ready(k, command)
    BY DEF ReturnsResult
  <2>1. JobOK(run[k], promise[k], host, device)
    BY DEF IInv, WorkOK
  <2>2. CASE "post" \in run[k].done
    BY <2>1, <2>2 DEF WaitsUntil, JobOK
  <2>3. CASE "post" \notin run[k].done
    <3>1. Ready(k, "pre") \/ Ready(k, "execute") \/ Ready(k, "post")
      BY <2>3 DEF Ready, WaitsFor
    <3> QED
      BY <2>3, <3>1 DEF WaitsUntil
  <2> QED
    BY <2>2, <2>3
<1> QED
  BY <1>1, InitOK, StepOK, PTL DEF Spec


-----------------------------------------------------------------------------
(******************************* the map's ring ****************************)

\* The sizes of the window, and the reduction by comparison
LEMMA MapNumbers ==
  ASSUME NEW a \in Axes
  PROVE  /\ Map.size[a] \in Nat \ {0} /\ Map.pos[a] \in Int /\ Map.offset[a] \in 0 .. Map.size[a] - 1
         /\ \E h \in Nat : Map.size[a] = 2 * h + 1 /\ Map.size[a] \div 2 = h
<1>1. PICK m : m = Map.size[a]
  OBVIOUS
<1>2. m \in Nat /\ m % 2 = 1
  BY <1>1, MapAssumption
<1>3. m = 2 * (m \div 2) + 1 /\ m \div 2 \in Nat
  BY <1>2
<1> QED
  BY <1>1, <1>3, MapAssumption

LEMMA OverflowIsRemainder ==
  ASSUME NEW m \in Nat \ {0}, NEW v \in 0 .. 3 * m - 1
  PROVE  Overflow(v, m) = v % m /\ Overflow(v, m) \in 0 .. m - 1
<1>1. /\ v \div m \in Int /\ (v % m) \in 0 .. m - 1 /\ v = m * (v \div m) + (v % m)
  OBVIOUS
<1>2. PICK k \in Int, r \in 0 .. m - 1 : v = m * k + r /\ r = v % m
  BY <1>1
<1>3. k \in 0 .. 2
  <2>1. k < 0 => m * k <= -m
    OBVIOUS
  <2>2. k > 2 => m * k >= 3 * m
    OBVIOUS
  <2>3. m * k \in Int
    OBVIOUS
  <2> QED
    BY <1>2, <2>1, <2>2, <2>3
<1>4. k = 0 \/ k = 1 \/ k = 2
  BY <1>3
<1>5. (k = 0 => v = r) /\ (k = 1 => v = m + r) /\ (k = 2 => v = 2 * m + r)
  BY <1>2
<1> QED
  BY <1>2, <1>4, <1>5 DEF Overflow

At(c, a) == Overflow(c[a] - Map.pos[a] + Map.offset[a] + Map.size[a], Map.size[a])

LEMMA AtInRing ==
  ASSUME NEW c \in Vectors, InBounds(c), NEW a \in Axes
  PROVE  /\ At(c, a) \in 0 .. Map.size[a] - 1
         /\ At(c, a) = (c[a] - Map.pos[a] + Map.offset[a] + Map.size[a]) % Map.size[a]
<1>1. PICK m, p, o : m = Map.size[a] /\ p = Map.pos[a] /\ o = Map.offset[a]
  OBVIOUS
<1>2. c[a] \in Int
  BY DEF Vectors, Axes
<1>3. PICK n \in Int : n = c[a]
  BY <1>2
<1>4. PICK h \in Nat : m = 2 * h + 1 /\ m \div 2 = h /\ p \in Int /\ o \in 0 .. m - 1
  BY <1>1, MapNumbers
<1>5. -h <= n - p /\ n - p <= h
  <2>1. Magnitude(n - p) <= h
    BY <1>1, <1>3, <1>4 DEF InBounds
  <2> QED
    BY <1>4, <2>1 DEF Magnitude
<1>6. n - p + o + m \in 0 .. 3 * m - 1 /\ m \in Nat \ {0}
  BY <1>4, <1>5
<1> QED
  BY <1>1, <1>3, <1>6, OverflowIsRemainder DEF At

LEMMA AtDiffers ==
  ASSUME NEW c \in Vectors, NEW d \in Vectors, InBounds(c), InBounds(d), NEW a \in Axes,
         At(c, a) = At(d, a)
  PROVE  c[a] = d[a]
<1>1. PICK m, p, o : m = Map.size[a] /\ p = Map.pos[a] /\ o = Map.offset[a]
  OBVIOUS
<1>2. c[a] \in Int /\ d[a] \in Int
  BY DEF Vectors, Axes
<1>3. PICK n \in Int, k \in Int : n = c[a] /\ k = d[a]
  BY <1>2
<1>4. PICK h \in Nat : m = 2 * h + 1 /\ m \div 2 = h /\ p \in Int /\ o \in 0 .. m - 1
  BY <1>1, MapNumbers
<1>5. -h <= n - p /\ n - p <= h /\ -h <= k - p /\ k - p <= h
  <2>1. Magnitude(n - p) <= h /\ Magnitude(k - p) <= h
    BY <1>1, <1>3, <1>4 DEF InBounds
  <2> QED
    BY <1>4, <2>1 DEF Magnitude
<1>6. Overflow(n - p + o + m, m) = Overflow(k - p + o + m, m)
  BY <1>1, <1>3 DEF At
<1>7. n = k
  BY <1>4, <1>5, <1>6 DEF Overflow
<1> QED
  BY <1>3, <1>7

\* Two digits of a number with the second one below m
LEMMA TwoDigits ==
  ASSUME NEW x \in Int, NEW y \in Int, NEW m \in Nat \ {0},
         NEW r \in 0 .. m - 1, NEW s \in 0 .. m - 1, x * m + r = y * m + s
  PROVE  x = y /\ r = s
<1>1. ASSUME NEW b \in Int, NEW d \in Int, NEW v \in 0 .. m - 1, NEW w \in 0 .. m - 1, b < d
      PROVE  b * m + v # d * m + w
  <2>1. (b + 1) * m <= d * m /\ (b + 1) * m = b * m + m /\ b * m \in Int /\ d * m \in Int
    BY <1>1
  <2> QED
    BY <2>1
<1>2. x = y
  BY <1>1
<1>3. x * m \in Int
  OBVIOUS
<1> QED
  BY <1>2, <1>3

LEMMA DigitsBound ==
  ASSUME NEW n \in Nat, NEW m \in Nat, NEW x \in 0 .. n - 1, NEW r \in 0 .. m - 1
  PROVE  x * m + r \in 0 .. n * m - 1
<1>1. x * m <= (n - 1) * m /\ (n - 1) * m = n * m - m /\ x * m \in Nat /\ n * m \in Int
  OBVIOUS
<1> QED
  BY <1>1

\* GetIndex reduces by comparisons what LocalMap reduces by the remainder, never
\* leaves the array, and tells the cells of the window apart.
LEMMA IndexIsHome ==
  ASSUME NEW c \in Vectors, InBounds(c)
  PROVE  /\ GetIndex(c) = Home(c)
         /\ Home(c) \in 0 .. Map.size[1] * Map.size[2] * Map.size[3] - 1
         /\ \A d \in Vectors : InBounds(d) /\ Home(d) = Home(c) => d = c
<1>1. PICK s1, s2, s3 : s1 = Map.size[1] /\ s2 = Map.size[2] /\ s3 = Map.size[3]
  OBVIOUS
<1>2. s1 \in Nat \ {0} /\ s2 \in Nat \ {0} /\ s3 \in Nat \ {0}
  BY <1>1, MapNumbers DEF Axes
<1>3. ASSUME NEW d \in Vectors, InBounds(d)
      PROVE  /\ At(d, 1) \in 0 .. s1 - 1 /\ At(d, 2) \in 0 .. s2 - 1 /\ At(d, 3) \in 0 .. s3 - 1
             /\ GetIndex(d) = (At(d, 1) * s2 + At(d, 2)) * s3 + At(d, 3)
             /\ Home(d) = (At(d, 1) * s2 + At(d, 2)) * s3 + At(d, 3)
  <2>1. 1 \in Axes /\ 2 \in Axes /\ 3 \in Axes
    BY DEF Axes
  <2>2. At(d, 1) \in 0 .. s1 - 1 /\ At(d, 2) \in 0 .. s2 - 1 /\ At(d, 3) \in 0 .. s3 - 1
    BY <1>1, <1>3, <2>1, AtInRing
  <2>3. GetIndex(d) = (At(d, 1) * s2 + At(d, 2)) * s3 + At(d, 3)
    BY <1>1 DEF GetIndex, At
  <2>4. /\ At(d, 1) = (d[1] - Map.pos[1] + Map.offset[1] + Map.size[1]) % Map.size[1]
        /\ At(d, 2) = (d[2] - Map.pos[2] + Map.offset[2] + Map.size[2]) % Map.size[2]
        /\ At(d, 3) = (d[3] - Map.pos[3] + Map.offset[3] + Map.size[3]) % Map.size[3]
    BY <1>3, <2>1, AtInRing
  <2>5. Home(d) = (At(d, 1) * s2 + At(d, 2)) * s3 + At(d, 3)
    BY <1>1, <2>4 DEF Home
  <2> QED
    BY <2>2, <2>3, <2>5
<1>4. Home(c) \in 0 .. s1 * s2 * s3 - 1
  <2>1. At(c, 1) * s2 + At(c, 2) \in 0 .. s1 * s2 - 1
    BY <1>2, <1>3, DigitsBound
  <2>2. s1 * s2 \in Nat
    BY <1>2
  <2> QED
    BY <1>2, <1>3, <2>1, <2>2, DigitsBound
<1>5. ASSUME NEW d \in Vectors, InBounds(d), Home(d) = Home(c)
      PROVE  d = c
  <2>1. PICK x1 \in 0 .. s1 - 1, x2 \in 0 .. s2 - 1, x3 \in 0 .. s3 - 1 :
           x1 = At(c, 1) /\ x2 = At(c, 2) /\ x3 = At(c, 3)
    BY <1>3
  <2>2. PICK y1 \in 0 .. s1 - 1, y2 \in 0 .. s2 - 1, y3 \in 0 .. s3 - 1 :
           y1 = At(d, 1) /\ y2 = At(d, 2) /\ y3 = At(d, 3)
    BY <1>3, <1>5
  <2>3. (y1 * s2 + y2) * s3 + y3 = (x1 * s2 + x2) * s3 + x3
    BY <1>3, <1>5, <2>1, <2>2
  <2>4. PICK u \in Int, v \in Int : u = x1 * s2 + x2 /\ v = y1 * s2 + y2
    BY <1>2
  <2>5. v = u /\ y3 = x3
    BY <1>2, <2>3, <2>4, TwoDigits
  <2>6. y1 = x1 /\ y2 = x2
    <3>1. y1 * s2 + y2 = x1 * s2 + x2 /\ y1 \in Int /\ x1 \in Int
      BY <2>4, <2>5
    <3> QED
      BY <1>2, <3>1, TwoDigits
  <2>7. At(d, 1) = At(c, 1) /\ At(d, 2) = At(c, 2) /\ At(d, 3) = At(c, 3)
    BY <2>1, <2>2, <2>5, <2>6
  <2>8. d[1] = c[1] /\ d[2] = c[2] /\ d[3] = c[3]
    BY <1>5, <2>7, AtDiffers DEF Axes
  <2> QED
    BY <2>8 DEF Vectors
<1> QED
  BY <1>1, <1>3, <1>4, <1>5

LEMMA InBoundsIsCells ==
  /\ Cells \subseteq Vectors
  /\ \A c \in Vectors : InBounds(c) <=> c \in Cells
<1>1. ASSUME NEW a \in Axes
      PROVE  /\ Along(a) \subseteq Int
             /\ \A n \in Int : Magnitude(n - Map.pos[a]) <= Map.size[a] \div 2 <=> n \in Along(a)
  <2>1. PICK p \in Int : p = Map.pos[a]
    BY MapNumbers
  <2>2. PICK h \in Nat : h = Map.size[a] \div 2
    BY MapNumbers
  <2> QED
    BY <2>1, <2>2 DEF Along, Magnitude
<1>2. Along(1) \subseteq Int /\ Along(2) \subseteq Int /\ Along(3) \subseteq Int
  BY <1>1 DEF Axes
<1>3. Cells \subseteq Vectors
  BY <1>2 DEF Cells, Vectors
<1>4. ASSUME NEW c \in Vectors
      PROVE  InBounds(c) <=> c \in Cells
  <2>1. c[1] \in Int /\ c[2] \in Int /\ c[3] \in Int /\ c = <<c[1], c[2], c[3]>>
    BY DEF Vectors
  <2>2. InBounds(c) <=> c[1] \in Along(1) /\ c[2] \in Along(2) /\ c[3] \in Along(3)
    <3>1. InBounds(c) <=> /\ Magnitude(c[1] - Map.pos[1]) <= Map.size[1] \div 2
                          /\ Magnitude(c[2] - Map.pos[2]) <= Map.size[2] \div 2
                          /\ Magnitude(c[3] - Map.pos[3]) <= Map.size[3] \div 2
      <4>1. \A a : a \in Axes <=> a = 1 \/ a = 2 \/ a = 3
        BY DEF Axes
      <4> QED
        BY <4>1 DEF InBounds
    <3> QED
      BY <1>1, <2>1, <3>1 DEF Axes
  <2> QED
    BY <2>1, <2>2 DEF Cells
<1> QED
  BY <1>3, <1>4

\* Every cell of the window is read where it is, and no other is known.
LEMMA GetReads ==
  ASSUME NEW c \in Vectors
  PROVE  Get(c) = IF c \in Cells THEN Field[c] ELSE Unknown
<1>1. CASE ~InBounds(c)
  BY <1>1, InBoundsIsCells DEF Get
<1>2. CASE InBounds(c)
  <2>1. c \in Cells
    BY <1>2, InBoundsIsCells
  <2>2. PICK n : n = Home(c)
    OBVIOUS
  <2>3. n \in 0 .. Map.size[1] * Map.size[2] * Map.size[3] - 1 /\ GetIndex(c) = n
    BY <1>2, <2>2, IndexIsHome
  <2>4. \A d \in Cells : Home(d) = n => d = c
    BY <1>2, <2>2, IndexIsHome, InBoundsIsCells
  <2>5. (CHOOSE d \in Cells : Home(d) = n) = c
    BY <2>1, <2>2, <2>4
  <2>6. Data[n] = Field[c]
    BY <2>3, <2>5 DEF Data
  <2> QED
    BY <1>2, <2>1, <2>3, <2>6 DEF Get
<1> QED
  BY <1>1, <1>2

-----------------------------------------------------------------------------
(**************************** turns by quarters ****************************)

Dot(p, q) == p[1] * q[1] + p[2] * q[2] + p[3] * q[3]
Units == {<<1, 0, 0>>, <<-1, 0, 0>>, <<0, 1, 0>>, <<0, -1, 0>>, <<0, 0, 1>>, <<0, 0, -1>>}

LEMMA Coordinates ==
  /\ \A p \in Vectors : p[1] \in Int /\ p[2] \in Int /\ p[3] \in Int /\ p = <<p[1], p[2], p[3]>>
  /\ \A x, y, z \in Int : <<x, y, z>> \in Vectors
BY DEF Vectors

LEMMA UnitsAreAxes ==
  ASSUME NEW p \in Vectors, Dot(p, p) = 1
  PROVE  p \in Units
<1>1. PICK x \in Int, y \in Int, z \in Int : p = <<x, y, z>>
  BY Coordinates
<1>2. \A n \in Int : n * n >= 0 /\ (n > 1 \/ n < -1 => n * n > 1) /\ (n # 0 => n * n >= 1)
  <2> TAKE n \in Int
  <2>1. n > 0 => n * n >= n
    OBVIOUS
  <2>2. n < 0 => n * n >= -n
    OBVIOUS
  <2> QED
    BY <2>1, <2>2
<1>3. x * x + y * y + z * z = 1
  BY <1>1 DEF Dot
<1>4. x * x \in Int /\ y * y \in Int /\ z * z \in Int
  OBVIOUS
<1>5. x \in -1 .. 1 /\ y \in -1 .. 1 /\ z \in -1 .. 1
  <2>1. x * x <= 1 /\ y * y <= 1 /\ z * z <= 1
    BY <1>2, <1>3, <1>4
  <2> QED
    BY <1>2, <1>4, <2>1
<1>6. (x = -1 \/ x = 0 \/ x = 1) /\ (y = -1 \/ y = 0 \/ y = 1) /\ (z = -1 \/ z = 0 \/ z = 1)
  BY <1>5
<1> QED
  BY <1>1, <1>3, <1>6 DEF Units

\* A turn is a matrix whose rows are of length 1 and orthogonal.
LEMMA TurnsByRows ==
  ASSUME NEW m \in Vectors \X Vectors \X Vectors
  PROVE  m \in Turns <=> /\ Dot(m[1], m[1]) = 1 /\ Dot(m[2], m[2]) = 1 /\ Dot(m[3], m[3]) = 1
                         /\ Dot(m[1], m[2]) = 0 /\ Dot(m[1], m[3]) = 0 /\ Dot(m[2], m[3]) = 0
<1>1. m[1] \in Vectors /\ m[2] \in Vectors /\ m[3] \in Vectors
  OBVIOUS
<1>2. \A p, q \in Vectors : Dot(p, q) = Dot(q, p)
  BY Coordinates DEF Dot
<1>3. Product(m, Transpose(m)) =
        <<<<Dot(m[1], m[1]), Dot(m[1], m[2]), Dot(m[1], m[3])>>,
          <<Dot(m[2], m[1]), Dot(m[2], m[2]), Dot(m[2], m[3])>>,
          <<Dot(m[3], m[1]), Dot(m[3], m[2]), Dot(m[3], m[3])>>>>
  BY DEF Product, Transpose, Square3, Three, Dot
<1>4. Identity = <<<<1, 0, 0>>, <<0, 1, 0>>, <<0, 0, 1>>>>
  BY DEF Identity, Square3, Three
<1> QED
  BY <1>1, <1>2, <1>3, <1>4 DEF Turns

LEMMA RowsOfTurn ==
  ASSUME NEW m \in Turns
  PROVE  /\ m \in Vectors \X Vectors \X Vectors
         /\ \A r \in Axes : m[r] \in Units /\ m[r] \in Vectors
         /\ \A r, s \in Axes : Dot(m[r], m[s]) = IF r = s THEN 1 ELSE 0
<1>1. m \in Vectors \X Vectors \X Vectors
  BY DEF Turns
<1>2. \A r \in Axes : m[r] \in Vectors
  BY <1>1 DEF Axes
<1>3. \A p, q \in Vectors : Dot(p, q) = Dot(q, p)
  BY Coordinates DEF Dot
<1>4. /\ Dot(m[1], m[1]) = 1 /\ Dot(m[2], m[2]) = 1 /\ Dot(m[3], m[3]) = 1
      /\ Dot(m[1], m[2]) = 0 /\ Dot(m[1], m[3]) = 0 /\ Dot(m[2], m[3]) = 0
  BY <1>1, TurnsByRows
<1>5. \A r \in Axes : r = 1 \/ r = 2 \/ r = 3
  BY DEF Axes
<1>6. \A r, s \in Axes : Dot(m[r], m[s]) = IF r = s THEN 1 ELSE 0
  BY <1>1, <1>2, <1>3, <1>4, <1>5
<1>7. \A r \in Axes : m[r] \in Units
  BY <1>2, <1>6, UnitsAreAxes
<1> QED
  BY <1>1, <1>2, <1>6, <1>7

\* A unit vector picks a coordinate.
LEMMA UnitPicks ==
  ASSUME NEW u \in Units
  PROVE  \E k \in Axes, s \in {-1, 1} :
            /\ u[k] = s
            /\ \A x, y, z \in Int : u[1] * x + u[2] * y + u[3] * z = s * <<x, y, z>>[k]
<1>1. 1 \in Axes /\ 2 \in Axes /\ 3 \in Axes
  BY DEF Axes
<1>2. CASE u = <<1, 0, 0>>
  <2>1. u[1] = 1 /\ \A x, y, z \in Int : u[1] * x + u[2] * y + u[3] * z = 1 * <<x, y, z>>[1]
    BY <1>2
  <2> QED
    BY <1>1, <2>1
<1>3. CASE u = <<-1, 0, 0>>
  <2>1. u[1] = -1 /\ \A x, y, z \in Int : u[1] * x + u[2] * y + u[3] * z = -1 * <<x, y, z>>[1]
    BY <1>3
  <2> QED
    BY <1>1, <2>1
<1>4. CASE u = <<0, 1, 0>>
  <2>1. u[2] = 1 /\ \A x, y, z \in Int : u[1] * x + u[2] * y + u[3] * z = 1 * <<x, y, z>>[2]
    BY <1>4
  <2> QED
    BY <1>1, <2>1
<1>5. CASE u = <<0, -1, 0>>
  <2>1. u[2] = -1 /\ \A x, y, z \in Int : u[1] * x + u[2] * y + u[3] * z = -1 * <<x, y, z>>[2]
    BY <1>5
  <2> QED
    BY <1>1, <2>1
<1>6. CASE u = <<0, 0, 1>>
  <2>1. u[3] = 1 /\ \A x, y, z \in Int : u[1] * x + u[2] * y + u[3] * z = 1 * <<x, y, z>>[3]
    BY <1>6
  <2> QED
    BY <1>1, <2>1
<1>7. CASE u = <<0, 0, -1>>
  <2>1. u[3] = -1 /\ \A x, y, z \in Int : u[1] * x + u[2] * y + u[3] * z = -1 * <<x, y, z>>[3]
    BY <1>7
  <2> QED
    BY <1>1, <2>1
<1> QED
  BY <1>2, <1>3, <1>4, <1>5, <1>6, <1>7 DEF Units

\* The row of a product is a row of the second factor, or its opposite.
Row(u, m) == <<u[1] * m[1][1] + u[2] * m[2][1] + u[3] * m[3][1],
               u[1] * m[1][2] + u[2] * m[2][2] + u[3] * m[3][2],
               u[1] * m[1][3] + u[2] * m[2][3] + u[3] * m[3][3]>>

LEMMA RowIsRow ==
  ASSUME NEW u \in Units, NEW m \in Turns
  PROVE  /\ Row(u, m) \in Vectors
         /\ \E k \in Axes, s \in {-1, 1} :
                /\ u[k] = s
                /\ Row(u, m) = <<s * m[k][1], s * m[k][2], s * m[k][3]>>
<1>1. PICK k \in Axes, s \in {-1, 1} :
        /\ u[k] = s
        /\ \A x, y, z \in Int : u[1] * x + u[2] * y + u[3] * z = s * <<x, y, z>>[k]
  BY UnitPicks
<1>2. \A r \in Axes : m[r] \in Vectors
  BY RowsOfTurn
<1>3. \A r \in Axes : m[r][1] \in Int /\ m[r][2] \in Int /\ m[r][3] \in Int
  BY <1>2, Coordinates
<1>4. /\ m[1][1] \in Int /\ m[1][2] \in Int /\ m[1][3] \in Int
      /\ m[2][1] \in Int /\ m[2][2] \in Int /\ m[2][3] \in Int
      /\ m[3][1] \in Int /\ m[3][2] \in Int /\ m[3][3] \in Int
  BY <1>3 DEF Axes
<1>5. \A c \in Axes : <<m[1][c], m[2][c], m[3][c]>>[k] = m[k][c]
  BY DEF Axes
<1>6. Row(u, m) = <<s * m[k][1], s * m[k][2], s * m[k][3]>>
  <2>1. 1 \in Axes /\ 2 \in Axes /\ 3 \in Axes
    BY DEF Axes
  <2>2. u[1] * m[1][1] + u[2] * m[2][1] + u[3] * m[3][1] = s * m[k][1]
    <3>1. u[1] * m[1][1] + u[2] * m[2][1] + u[3] * m[3][1]
             = s * <<m[1][1], m[2][1], m[3][1]>>[k]
      BY <1>1, <1>4
    <3> QED
      BY <1>5, <2>1, <3>1
  <2>3. u[1] * m[1][2] + u[2] * m[2][2] + u[3] * m[3][2] = s * m[k][2]
    <3>1. u[1] * m[1][2] + u[2] * m[2][2] + u[3] * m[3][2]
             = s * <<m[1][2], m[2][2], m[3][2]>>[k]
      BY <1>1, <1>4
    <3> QED
      BY <1>5, <2>1, <3>1
  <2>4. u[1] * m[1][3] + u[2] * m[2][3] + u[3] * m[3][3] = s * m[k][3]
    <3>1. u[1] * m[1][3] + u[2] * m[2][3] + u[3] * m[3][3]
             = s * <<m[1][3], m[2][3], m[3][3]>>[k]
      BY <1>1, <1>4
    <3> QED
      BY <1>5, <2>1, <3>1
  <2> QED
    BY <2>2, <2>3, <2>4 DEF Row
<1>7. Row(u, m) \in Vectors
  <2>1. s * m[k][1] \in Int /\ s * m[k][2] \in Int /\ s * m[k][3] \in Int
    BY <1>3
  <2> QED
    BY <1>6, <2>1, Coordinates
<1> QED
  BY <1>1, <1>6, <1>7

LEMMA DotOfRows ==
  ASSUME NEW u \in Units, NEW v \in Units, NEW m \in Turns
  PROVE  /\ u = v => Dot(Row(u, m), Row(v, m)) = 1
         /\ Dot(u, v) = 0 => Dot(Row(u, m), Row(v, m)) = 0
<1>1. PICK k \in Axes, s \in {-1, 1} :
        u[k] = s /\ Row(u, m) = <<s * m[k][1], s * m[k][2], s * m[k][3]>>
  BY RowIsRow
<1>2. PICK l \in Axes, t \in {-1, 1} :
        v[l] = t /\ Row(v, m) = <<t * m[l][1], t * m[l][2], t * m[l][3]>>
  BY RowIsRow
<1>3. PICK x1 \in Int, x2 \in Int, x3 \in Int, y1 \in Int, y2 \in Int, y3 \in Int :
        /\ x1 = m[k][1] /\ x2 = m[k][2] /\ x3 = m[k][3]
        /\ y1 = m[l][1] /\ y2 = m[l][2] /\ y3 = m[l][3]
  BY RowsOfTurn, Coordinates
<1>4. x1 * y1 + x2 * y2 + x3 * y3 = IF k = l THEN 1 ELSE 0
  BY <1>3, RowsOfTurn DEF Dot
<1>5. Dot(Row(u, m), Row(v, m)) = (s * x1) * (t * y1) + (s * x2) * (t * y2) + (s * x3) * (t * y3)
  BY <1>1, <1>2, <1>3 DEF Dot
<1>6. (s = 1 \/ s = -1) /\ (t = 1 \/ t = -1)
  OBVIOUS
<1>7. Dot(Row(u, m), Row(v, m)) = IF k = l THEN s * t ELSE 0
  <2>1. CASE s = t
    <3>1. (s * x1) * (t * y1) = x1 * y1 /\ (s * x2) * (t * y2) = x2 * y2 /\ (s * x3) * (t * y3) = x3 * y3
      BY <1>6, <2>1
    <3> QED
      BY <1>4, <1>5, <1>6, <2>1, <3>1
  <2>2. CASE s # t
    <3>1. /\ (s * x1) * (t * y1) = -(x1 * y1) /\ (s * x2) * (t * y2) = -(x2 * y2)
          /\ (s * x3) * (t * y3) = -(x3 * y3)
      BY <1>6, <2>2
    <3>2. x1 * y1 \in Int /\ x2 * y2 \in Int /\ x3 * y3 \in Int
      OBVIOUS
    <3> QED
      BY <1>4, <1>5, <1>6, <2>2, <3>1, <3>2
  <2> QED
    BY <2>1, <2>2
<1>8. (u = v => k = l /\ s = t) /\ (Dot(u, v) = 0 => k # l)
  BY <1>1, <1>2, <1>6 DEF Units, Axes, Dot
<1> QED
  BY <1>6, <1>7, <1>8

LEMMA ProductIsTurn ==
  ASSUME NEW a \in Turns, NEW b \in Turns
  PROVE  Product(a, b) \in Turns
<1>1. Product(a, b) = <<Row(a[1], b), Row(a[2], b), Row(a[3], b)>>
  BY DEF Product, Square3, Three, Row
<1>2. a[1] \in Units /\ a[2] \in Units /\ a[3] \in Units
  BY RowsOfTurn DEF Axes
<1>3. Dot(a[1], a[2]) = 0 /\ Dot(a[1], a[3]) = 0 /\ Dot(a[2], a[3]) = 0
  BY RowsOfTurn DEF Axes
<1>4. PICK m : m = Product(a, b)
  OBVIOUS
<1>5. m \in Vectors \X Vectors \X Vectors /\ m[1] = Row(a[1], b) /\ m[2] = Row(a[2], b) /\ m[3] = Row(a[3], b)
  BY <1>1, <1>2, <1>4, RowIsRow
<1>6. /\ Dot(m[1], m[1]) = 1 /\ Dot(m[2], m[2]) = 1 /\ Dot(m[3], m[3]) = 1
      /\ Dot(m[1], m[2]) = 0 /\ Dot(m[1], m[3]) = 0 /\ Dot(m[2], m[3]) = 0
  BY <1>2, <1>3, <1>5, DotOfRows
<1> QED
  BY <1>4, <1>5, <1>6, TurnsByRows

LEMMA IdentityIsTurn == Identity \in Turns
<1>1. PICK m : m = <<<<1, 0, 0>>, <<0, 1, 0>>, <<0, 0, 1>>>>
  OBVIOUS
<1>2. Identity = m
  BY <1>1 DEF Identity, Square3, Three
<1>3. m \in Vectors \X Vectors \X Vectors
  BY <1>1 DEF Vectors
<1> QED
  BY <1>1, <1>2, <1>3, TurnsByRows DEF Dot

\* Rodrigues' formula about an axis of length 1
LEMMA SineAndCosine ==
  ASSUME NEW q \in Int
  PROVE  \/ Sine(q) = 0 /\ Cosine(q) = 1
         \/ Sine(q) = 1 /\ Cosine(q) = 0
         \/ Sine(q) = 0 /\ Cosine(q) = -1
         \/ Sine(q) = -1 /\ Cosine(q) = 0
<1>1. PICK r \in 0 .. 3 : r = q % 4
  OBVIOUS
<1>2. Sine(q) = <<0, 1, 0, -1>>[r + 1] /\ Cosine(q) = <<1, 0, -1, 0>>[r + 1]
  BY <1>1 DEF Sine, Cosine
<1>3. r + 1 = 1 \/ r + 1 = 2 \/ r + 1 = 3 \/ r + 1 = 4
  BY <1>1
<1> QED
  BY <1>2, <1>3

LEMMA RotationIsTurn ==
  ASSUME NEW axis \in Units, NEW q \in Int
  PROVE  Rotation(axis, q) \in Turns
<1>1. PICK s, c : s = Sine(q) /\ c = Cosine(q)
  OBVIOUS
<1>2. (s = 0 /\ c = 1) \/ (s = 1 /\ c = 0) \/ (s = 0 /\ c = -1) \/ (s = -1 /\ c = 0)
  BY <1>1, SineAndCosine
<1>3. s \in Int /\ c \in Int
  BY <1>2
<1>4. ASSUME NEW L, NEW square, NEW m,
             L = <<<<0, -axis[3], axis[2]>>, <<axis[3], 0, -axis[1]>>, <<-axis[2], axis[1], 0>>>>,
             square = Product(L, L),
             m = <<<<s * L[1][1] + (1 - c) * square[1][1] + 1,
                     s * L[1][2] + (1 - c) * square[1][2],
                     s * L[1][3] + (1 - c) * square[1][3]>>,
                   <<s * L[2][1] + (1 - c) * square[2][1],
                     s * L[2][2] + (1 - c) * square[2][2] + 1,
                     s * L[2][3] + (1 - c) * square[2][3]>>,
                   <<s * L[3][1] + (1 - c) * square[3][1],
                     s * L[3][2] + (1 - c) * square[3][2],
                     s * L[3][3] + (1 - c) * square[3][3] + 1>>>>
      PROVE  m \in Turns
  <2>1. PICK x \in Int, y \in Int, z \in Int :
           axis = <<x, y, z>> /\ x \in -1 .. 1 /\ y \in -1 .. 1 /\ z \in -1 .. 1
    BY DEF Units
  <2>2. L = <<<<0, -z, y>>, <<z, 0, -x>>, <<-y, x, 0>>>>
    BY <1>4, <2>1
  <2>3. \/ square = <<<<0, 0, 0>>, <<0, -1, 0>>, <<0, 0, -1>>>> /\ y = 0 /\ z = 0 /\ x * x = 1
        \/ square = <<<<-1, 0, 0>>, <<0, 0, 0>>, <<0, 0, -1>>>> /\ x = 0 /\ z = 0 /\ y * y = 1
        \/ square = <<<<-1, 0, 0>>, <<0, -1, 0>>, <<0, 0, 0>>>> /\ x = 0 /\ y = 0 /\ z * z = 1
    <3>1. square = <<<<L[1][1] * L[1][1] + L[1][2] * L[2][1] + L[1][3] * L[3][1],
                       L[1][1] * L[1][2] + L[1][2] * L[2][2] + L[1][3] * L[3][2],
                       L[1][1] * L[1][3] + L[1][2] * L[2][3] + L[1][3] * L[3][3]>>,
                     <<L[2][1] * L[1][1] + L[2][2] * L[2][1] + L[2][3] * L[3][1],
                       L[2][1] * L[1][2] + L[2][2] * L[2][2] + L[2][3] * L[3][2],
                       L[2][1] * L[1][3] + L[2][2] * L[2][3] + L[2][3] * L[3][3]>>,
                     <<L[3][1] * L[1][1] + L[3][2] * L[2][1] + L[3][3] * L[3][1],
                       L[3][1] * L[1][2] + L[3][2] * L[2][2] + L[3][3] * L[3][2],
                       L[3][1] * L[1][3] + L[3][2] * L[2][3] + L[3][3] * L[3][3]>>>>
      BY <1>4 DEF Product, Square3, Three
    <3>2. \/ axis = <<x, 0, 0>> /\ y = 0 /\ z = 0 /\ (x = 1 \/ x = -1)
          \/ axis = <<0, y, 0>> /\ x = 0 /\ z = 0 /\ (y = 1 \/ y = -1)
          \/ axis = <<0, 0, z>> /\ x = 0 /\ y = 0 /\ (z = 1 \/ z = -1)
      BY <2>1 DEF Units
    <3>3. ASSUME y = 0, z = 0, x = 1
          PROVE  square = <<<<0, 0, 0>>, <<0, -1, 0>>, <<0, 0, -1>>>> /\ x * x = 1
      <4>1. -y = 0 /\ -z = 0 /\ -x = -1
        <5>1. 0 - y = 0 /\ 0 - z = 0 /\ 0 - x = -1
          BY <3>3
        <5> QED
          BY <5>1
      <4>2. L = <<<<0, 0, 0>>, <<0, 0, -1>>, <<0, 1, 0>>>>
        BY <2>2, <3>3, <4>1
      <4> QED
        BY <3>1, <3>3, <4>2
    <3>4. ASSUME y = 0, z = 0, x = -1
          PROVE  square = <<<<0, 0, 0>>, <<0, -1, 0>>, <<0, 0, -1>>>> /\ x * x = 1
      <4>1. -y = 0 /\ -z = 0 /\ -x = 1
        <5>1. 0 - y = 0 /\ 0 - z = 0 /\ 0 - x = 1
          BY <3>4
        <5> QED
          BY <5>1
      <4>2. L = <<<<0, 0, 0>>, <<0, 0, 1>>, <<0, -1, 0>>>>
        BY <2>2, <3>4, <4>1
      <4> QED
        BY <3>1, <3>4, <4>2
    <3>5. ASSUME x = 0, z = 0, y = 1
          PROVE  square = <<<<-1, 0, 0>>, <<0, 0, 0>>, <<0, 0, -1>>>> /\ y * y = 1
      <4>1. -x = 0 /\ -z = 0 /\ -y = -1
        <5>1. 0 - x = 0 /\ 0 - z = 0 /\ 0 - y = -1
          BY <3>5
        <5> QED
          BY <5>1
      <4>2. L = <<<<0, 0, 1>>, <<0, 0, 0>>, <<-1, 0, 0>>>>
        BY <2>2, <3>5, <4>1
      <4> QED
        BY <3>1, <3>5, <4>2
    <3>6. ASSUME x = 0, z = 0, y = -1
          PROVE  square = <<<<-1, 0, 0>>, <<0, 0, 0>>, <<0, 0, -1>>>> /\ y * y = 1
      <4>1. -x = 0 /\ -z = 0 /\ -y = 1
        <5>1. 0 - x = 0 /\ 0 - z = 0 /\ 0 - y = 1
          BY <3>6
        <5> QED
          BY <5>1
      <4>2. L = <<<<0, 0, -1>>, <<0, 0, 0>>, <<1, 0, 0>>>>
        BY <2>2, <3>6, <4>1
      <4> QED
        BY <3>1, <3>6, <4>2
    <3>7. ASSUME x = 0, y = 0, z = 1
          PROVE  square = <<<<-1, 0, 0>>, <<0, -1, 0>>, <<0, 0, 0>>>> /\ z * z = 1
      <4>1. -x = 0 /\ -y = 0 /\ -z = -1
        <5>1. 0 - x = 0 /\ 0 - y = 0 /\ 0 - z = -1
          BY <3>7
        <5> QED
          BY <5>1
      <4>2. L = <<<<0, -1, 0>>, <<1, 0, 0>>, <<0, 0, 0>>>>
        BY <2>2, <3>7, <4>1
      <4> QED
        BY <3>1, <3>7, <4>2
    <3>8. ASSUME x = 0, y = 0, z = -1
          PROVE  square = <<<<-1, 0, 0>>, <<0, -1, 0>>, <<0, 0, 0>>>> /\ z * z = 1
      <4>1. -x = 0 /\ -y = 0 /\ -z = 1
        <5>1. 0 - x = 0 /\ 0 - y = 0 /\ 0 - z = 1
          BY <3>8
        <5> QED
          BY <5>1
      <4>2. L = <<<<0, 1, 0>>, <<-1, 0, 0>>, <<0, 0, 0>>>>
        BY <2>2, <3>8, <4>1
      <4> QED
        BY <3>1, <3>8, <4>2
    <3> QED
      BY <3>2, <3>3, <3>4, <3>5, <3>6, <3>7, <3>8
  <2>4. \/ m = <<<<1, 0, 0>>, <<0, c, -s * x>>, <<0, s * x, c>>>> /\ (x = 1 \/ x = -1)
        \/ m = <<<<c, 0, s * y>>, <<0, 1, 0>>, <<-s * y, 0, c>>>> /\ (y = 1 \/ y = -1)
        \/ m = <<<<c, -s * z, 0>>, <<s * z, c, 0>>, <<0, 0, 1>>>> /\ (z = 1 \/ z = -1)
    <3>1. CASE square = <<<<0, 0, 0>>, <<0, -1, 0>>, <<0, 0, -1>>>> /\ y = 0 /\ z = 0 /\ x * x = 1
      <4>1. x = 1 \/ x = -1
        BY <2>1, <3>1
      <4>2. m = <<<<1, 0, 0>>, <<0, c, -s * x>>, <<0, s * x, c>>>>
        BY <1>2, <1>4, <2>2, <3>1, <4>1
      <4> QED
        BY <4>1, <4>2
    <3>2. CASE square = <<<<-1, 0, 0>>, <<0, 0, 0>>, <<0, 0, -1>>>> /\ x = 0 /\ z = 0 /\ y * y = 1
      <4>1. y = 1 \/ y = -1
        BY <2>1, <3>2
      <4>2. m = <<<<c, 0, s * y>>, <<0, 1, 0>>, <<-s * y, 0, c>>>>
        BY <1>2, <1>4, <2>2, <3>2, <4>1
      <4> QED
        BY <4>1, <4>2
    <3>3. CASE square = <<<<-1, 0, 0>>, <<0, -1, 0>>, <<0, 0, 0>>>> /\ x = 0 /\ y = 0 /\ z * z = 1
      <4>1. z = 1 \/ z = -1
        BY <2>1, <3>3
      <4>2. m = <<<<c, -s * z, 0>>, <<s * z, c, 0>>, <<0, 0, 1>>>>
        BY <1>2, <1>4, <2>2, <3>3, <4>1
      <4> QED
        BY <4>1, <4>2
    <3> QED
      BY <2>3, <3>1, <3>2, <3>3
  <2>5. m \in Vectors \X Vectors \X Vectors
    BY <1>2, <2>4 DEF Vectors
  <2> QED
    BY <1>2, <2>4, <2>5, TurnsByRows DEF Dot
<1>5. PICK L :
        L = <<<<0, -axis[3], axis[2]>>, <<axis[3], 0, -axis[1]>>, <<-axis[2], axis[1], 0>>>>
  OBVIOUS
<1>6. PICK square : square = Product(L, L)
  OBVIOUS
<1>7. /\ axis[1] \in Int /\ axis[2] \in Int /\ axis[3] \in Int
      /\ \A j, k \in Axes : L[j][k] \in Int /\ square[j][k] \in Int
  <2>1. axis[1] \in Int /\ axis[2] \in Int /\ axis[3] \in Int
    BY DEF Units
  <2>2. PICK x \in Int, y \in Int, z \in Int : L = <<<<0, -z, y>>, <<z, 0, -x>>, <<-y, x, 0>>>>
    BY <1>5, <2>1
  <2>3. square = <<<<-z * z - y * y, y * x, z * x>>,
                   <<x * y, -z * z - x * x, z * y>>,
                   <<x * z, y * z, -y * y - x * x>>>>
    BY <1>6, <2>2 DEF Product, Square3, Three
  <2> QED
    BY <2>1, <2>2, <2>3 DEF Axes
<1>8. Rotation(axis, q) =
        <<<<s * L[1][1] + (1 - c) * square[1][1] + 1,
            s * L[1][2] + (1 - c) * square[1][2] + 0,
            s * L[1][3] + (1 - c) * square[1][3] + 0>>,
          <<s * L[2][1] + (1 - c) * square[2][1] + 0,
            s * L[2][2] + (1 - c) * square[2][2] + 1,
            s * L[2][3] + (1 - c) * square[2][3] + 0>>,
          <<s * L[3][1] + (1 - c) * square[3][1] + 0,
            s * L[3][2] + (1 - c) * square[3][2] + 0,
            s * L[3][3] + (1 - c) * square[3][3] + 1>>>>
  BY <1>1, <1>5, <1>6 DEF Rotation, Square3, Three, Identity
<1>9. Rotation(axis, q) =
        <<<<s * L[1][1] + (1 - c) * square[1][1] + 1,
            s * L[1][2] + (1 - c) * square[1][2],
            s * L[1][3] + (1 - c) * square[1][3]>>,
          <<s * L[2][1] + (1 - c) * square[2][1],
            s * L[2][2] + (1 - c) * square[2][2] + 1,
            s * L[2][3] + (1 - c) * square[2][3]>>,
          <<s * L[3][1] + (1 - c) * square[3][1],
            s * L[3][2] + (1 - c) * square[3][2],
            s * L[3][3] + (1 - c) * square[3][3] + 1>>>>
  <2>1. \A j, k \in Axes : s * L[j][k] + (1 - c) * square[j][k] + 0 = s * L[j][k] + (1 - c) * square[j][k]
    BY <1>2, <1>7
  <2> QED
    BY <1>8, <2>1 DEF Axes
<1> QED
  BY <1>4, <1>5, <1>6, <1>9

-----------------------------------------------------------------------------
(***************************** one pose's step *****************************)

LEMMA QuotIsInt ==
  ASSUME NEW n \in Int, NEW m \in Nat \ {0}
  PROVE  Quot(n, m) \in Int
BY DEF Quot

LEMMA HalfDrops ==
  ASSUME NEW n \in Int
  PROVE  Quot(n, 2) \in Int /\ n - 2 * Quot(n, 2) \in -1 .. 1
BY DEF Quot

\* A row of a turn picks a coordinate, or its opposite.
LEMMA TurnedPicks ==
  ASSUME NEW m \in Turns, NEW a \in Axes
  PROVE  \E k \in Axes, s \in {-1, 1} : \A p \in Vectors : Turned(m, p)[a] = s * p[k]
<1>1. m[a] \in Units
  BY RowsOfTurn
<1>2. PICK k \in Axes, s \in {-1, 1} :
        \A x, y, z \in Int : m[a][1] * x + m[a][2] * y + m[a][3] * z = s * <<x, y, z>>[k]
  BY <1>1, UnitPicks
<1>3. ASSUME NEW p \in Vectors
      PROVE  Turned(m, p)[a] = s * p[k]
  <2>1. PICK x \in Int, y \in Int, z \in Int : p = <<x, y, z>>
    BY Coordinates
  <2>2. p[1] = x /\ p[2] = y /\ p[3] = z
    BY <2>1
  <2>3. Turned(m, p)[a] = m[a][1] * p[1] + m[a][2] * p[2] + m[a][3] * p[3]
    BY DEF Turned, Three, Axes
  <2> QED
    BY <1>2, <2>1, <2>2, <2>3
<1> QED
  BY <1>3

LEMMA TurnedIsVector ==
  ASSUME NEW m \in Turns, NEW p \in Vectors
  PROVE  Turned(m, p) \in Vectors
<1>1. \A a \in Axes : Turned(m, p)[a] \in Int
  <2> TAKE a \in Axes
  <2>1. PICK k \in Axes, s \in {-1, 1} : \A q \in Vectors : Turned(m, q)[a] = s * q[k]
    BY TurnedPicks
  <2>2. p[k] \in Int
    BY Coordinates DEF Axes
  <2> QED
    BY <2>1, <2>2
<1>2. Turned(m, p) = <<Turned(m, p)[1], Turned(m, p)[2], Turned(m, p)[3]>>
  BY DEF Turned, Three
<1> QED
  BY <1>1, <1>2, Coordinates DEF Axes

LEMMA AddIsVector ==
  ASSUME NEW p \in Vectors, NEW q \in Vectors
  PROVE  /\ Add(p, q) \in Vectors
         /\ \A a \in Axes : Add(p, q)[a] = p[a] + q[a]
BY Coordinates DEF Add, Axes

LEMMA CenterIsVector ==
  ASSUME NEW p \in Poses
  PROVE  /\ p.move \in Vectors /\ ScanCenter(p) \in Vectors
         /\ \A a \in Axes : /\ p.move[a] \in Int /\ ScanCenter(p)[a] \in Int
                            /\ p.move[a] - 2 * ScanCenter(p)[a] \in -1 .. 1
<1>1. p.move \in Vectors
  BY DEF Poses
<1>2. \A a \in Axes : p.move[a] \in Int /\ ScanCenter(p)[a] = Quot(p.move[a], 2)
  BY <1>1, Coordinates DEF ScanCenter, Three, Axes
<1>3. \A a \in Axes : ScanCenter(p)[a] \in Int /\ p.move[a] - 2 * ScanCenter(p)[a] \in -1 .. 1
  BY <1>2, HalfDrops
<1>4. ScanCenter(p) = <<ScanCenter(p)[1], ScanCenter(p)[2], ScanCenter(p)[3]>>
  BY DEF ScanCenter, Three
<1> QED
  BY <1>1, <1>2, <1>3, <1>4, Coordinates DEF Axes

\* What an iteration makes of a pose: a pose, that has moved by the translation
\* of the solver, up to what the turned and the straight center drop.
LEMMA IterationMoves ==
  ASSUME NEW p \in Poses, NEW xi \in Motions, xi # NaN, xi.quarters # 0
  PROVE  LET next == XiToTransform(xi, ScanCenter(p))
         IN  /\ next \in Poses
             /\ Compose(next, p) \in Poses
             /\ \A a \in Axes :
                    Magnitude(Compose(next, p).move[a] - p.move[a] - xi.move[a]) <= 2
<1>1. xi.axis \in Vectors /\ Square(xi.axis) = 1 /\ xi.quarters \in Int /\ xi.move \in Vectors
  BY InputsAssumption
<1>2. PICK turn : turn = Rotation(xi.axis, xi.quarters)
  OBVIOUS
<1>3. turn \in Turns
  <2>1. Dot(xi.axis, xi.axis) = 1
    BY <1>1 DEF Dot, Square
  <2> QED
    BY <1>1, <1>2, <2>1, UnitsAreAxes, RotationIsTurn
<1>4. PICK center : center = ScanCenter(p)
  OBVIOUS
<1>5. /\ center \in Vectors
      /\ \A a \in Axes : /\ p.move[a] \in Int /\ center[a] \in Int
                         /\ p.move[a] - 2 * center[a] \in -1 .. 1
  BY <1>4, CenterIsVector
<1>6. PICK opposite : opposite = <<-2 * center[1], -2 * center[2], -2 * center[3]>>
  OBVIOUS
<1>7. opposite \in Vectors /\ \A a \in Axes : opposite[a] = -2 * center[a]
  BY <1>5, <1>6, Coordinates DEF Axes
<1>8. PICK next : next = XiToTransform(xi, center)
  OBVIOUS
<1>9. next = [turn |-> turn,
              move |-> Add(Add(Turned(turn, opposite), Add(center, center)), xi.move)]
  BY <1>2, <1>6, <1>8 DEF XiToTransform, Three
<1>10. Turned(turn, opposite) \in Vectors /\ Turned(turn, p.move) \in Vectors /\ p.move \in Vectors
  BY <1>3, <1>7, TurnedIsVector, CenterIsVector
<1>11. /\ next.move \in Vectors
       /\ \A a \in Axes : next.move[a] = Turned(turn, opposite)[a] + (center[a] + center[a]) + xi.move[a]
  <2>1. PICK both : both = Add(center, center)
    OBVIOUS
  <2>2. both \in Vectors /\ \A a \in Axes : both[a] = center[a] + center[a]
    BY <1>5, <2>1, AddIsVector
  <2>3. PICK shift : shift = Add(Turned(turn, opposite), both)
    OBVIOUS
  <2>4. shift \in Vectors /\ \A a \in Axes : shift[a] = Turned(turn, opposite)[a] + both[a]
    BY <1>10, <2>2, <2>3, AddIsVector
  <2>5. next.move = Add(shift, xi.move)
    BY <1>9, <2>1, <2>3
  <2> QED
    BY <1>1, <2>2, <2>4, <2>5, AddIsVector
<1>12. next \in Poses
  BY <1>3, <1>9, <1>11 DEF Poses
<1>13. PICK last : last = Compose(next, p)
  OBVIOUS
<1>14. last = [turn |-> Product(turn, p.turn), move |-> Add(Turned(turn, p.move), next.move)]
  BY <1>9, <1>13 DEF Compose
<1>15. /\ last.move \in Vectors
       /\ \A a \in Axes : last.move[a] = Turned(turn, p.move)[a] + next.move[a]
  BY <1>10, <1>11, <1>14, AddIsVector
<1>16. last \in Poses
  BY <1>3, <1>14, <1>15, ProductIsTurn DEF Poses
<1>17. ASSUME NEW a \in Axes
       PROVE  Magnitude(last.move[a] - p.move[a] - xi.move[a]) <= 2
  <2>1. PICK k \in Axes, s \in {-1, 1} : \A q \in Vectors : Turned(turn, q)[a] = s * q[k]
    BY <1>3, TurnedPicks
  <2>2. PICK x \in Int, y \in Int, u \in Int, v \in Int, w \in Int :
          /\ x = p.move[a] /\ y = p.move[k] /\ u = center[a] /\ v = center[k] /\ w = xi.move[a]
          /\ x - 2 * u \in -1 .. 1 /\ y - 2 * v \in -1 .. 1
    BY <1>1, <1>5, Coordinates DEF Axes
  <2>3. last.move[a] = s * y + (s * (-2 * v) + (u + u) + w)
    BY <1>7, <1>10, <1>11, <1>15, <2>1, <2>2
  <2>4. s = 1 \/ s = -1
    OBVIOUS
  <2>5. PICK n : n = last.move[a]
    OBVIOUS
  <2>6. n = y - 2 * v + 2 * u + w \/ n = 2 * v - y + 2 * u + w
    <3>1. CASE s = 1
      BY <2>3, <2>5, <3>1
    <3>2. CASE s = -1
      BY <2>3, <2>5, <3>2
    <3> QED
      BY <2>4, <3>1, <3>2
  <2>7. n \in Int /\ n - x - w \in -2 .. 2
    <3>1. PICK r \in -1 .. 1, t \in -1 .. 1 : r = x - 2 * u /\ t = y - 2 * v
      BY <2>2
    <3>2. n \in Int
      BY <2>6
    <3>3. n - x - w = t - r \/ n - x - w = -t - r
      BY <2>6, <3>1
    <3> QED
      BY <3>1, <3>2, <3>3
  <2> QED
    BY <2>2, <2>5, <2>7 DEF Magnitude
<1> QED
  BY <1>4, <1>8, <1>12, <1>13, <1>16, <1>17

\* What the imu makes of a pose.
LEMMA EstimateIsPose ==
  ASSUME NEW p \in Poses, NEW imu \in ImuMotions
  PROVE  Estimated(p, imu) \in Poses
<1>1. imu \in Poses
  BY InputsAssumption
<1> QED
  BY <1>1, ProductIsTurn, AddIsVector DEF Poses, Estimated

\* The cell of a point, and the points of the moved cloud.
LEMMA PointsAreVectors ==
  ASSUME NEW p \in Poses, NEW point \in Vectors
  PROVE  /\ KernelPoint(p, point) \in Vectors /\ CellOf(KernelPoint(p, point)) \in Vectors
         /\ Transformed(p, point) \in Vectors
<1>1. p.turn \in Turns /\ p.move \in Vectors /\ \A a \in Axes : p.move[a] \in Int
  BY Coordinates DEF Poses, Axes
<1>2. MatrixResolution \in Nat \ {0} /\ MapResolution \in Nat \ {0}
  BY KernelAssumption, ScanAssumption
<1>3. KernelPoint(p, point) \in Vectors
  <2>1. PICK turned : turned = Turned(p.turn, point)
    OBVIOUS
  <2>2. \A a \in Axes : turned[a] \in Int
    BY <1>1, <2>1, TurnedIsVector, Coordinates DEF Axes
  <2>3. \A a \in Axes : Quot(turned[a] * MatrixResolution + Quot(p.move[a] * MatrixResolution, 2),
                             MatrixResolution) \in Int
    <3> TAKE a \in Axes
    <3>1. p.move[a] * MatrixResolution \in Int /\ turned[a] * MatrixResolution \in Int
      BY <1>1, <1>2, <2>2
    <3>2. Quot(p.move[a] * MatrixResolution, 2) \in Int
      BY <3>1, QuotIsInt
    <3> QED
      BY <1>2, <3>1, <3>2, QuotIsInt
  <2> QED
    BY <2>1, <2>3, Coordinates DEF KernelPoint, Three, Axes
<1>4. \A q \in Vectors : CellOf(q) \in Vectors
  <2> TAKE q \in Vectors
  <2>1. \A a \in Axes : Quot(q[a], MapResolution) \in Int
    BY <1>2, QuotIsInt, Coordinates DEF Axes
  <2> QED
    BY <2>1, Coordinates DEF CellOf, Three, Axes
<1>5. Transformed(p, point) \in Vectors
  <2>1. PICK twice : twice = Add(Turned(p.turn, Add(point, point)), p.move)
    OBVIOUS
  <2>2. twice \in Vectors
    BY <1>1, <2>1, AddIsVector, TurnedIsVector
  <2>3. \A n \in Int : Rounded(n) \in Int
    BY QuotIsInt DEF Rounded
  <2> QED
    BY <2>1, <2>2, <2>3, Coordinates DEF Transformed, Three, Axes
<1> QED
  BY <1>3, <1>4, <1>5

-----------------------------------------------------------------------------
(***************************** the median filter ***************************)

LEMMA RemainderIs ==
  ASSUME NEW n \in Nat \ {0}, NEW q \in Int, NEW t \in 0 .. n - 1
  PROVE  (q * n + t) % n = t
<1>1. PICK x \in Int : x = q * n + t
  OBVIOUS
<1>2. x = n * (x \div n) + (x % n) /\ x \div n \in Int /\ (x % n) \in 0 .. n - 1
  BY <1>1
<1>3. PICK d \in Int, r \in 0 .. n - 1 : r = x % n /\ x = n * d + r
  BY <1>2
<1>4. d * n + r = q * n + t
  BY <1>1, <1>3
<1>5. r = t
  BY <1>4, TwoDigits
<1> QED
  BY <1>1, <1>3, <1>5

LEMMA HasRemainder ==
  ASSUME NEW n \in Nat \ {0}, NEW x \in Int
  PROVE  \E d \in Int, r \in 0 .. n - 1 : r = x % n /\ x = d * n + r
<1>1. x = n * (x \div n) + (x % n) /\ x \div n \in Int /\ (x % n) \in 0 .. n - 1
  OBVIOUS
<1>2. PICK d \in Int, r \in 0 .. n - 1 : r = x % n /\ x = n * d + r
  BY <1>1
<1>3. x = d * n + r
  BY <1>2
<1> QED
  BY <1>2, <1>3

LEMMA RemainderOfSum ==
  ASSUME NEW n \in Nat \ {0}, NEW x \in Int, NEW y \in Int
  PROVE  ((x % n) + y) % n = (x + y) % n
<1>1. PICK d \in Int, r \in 0 .. n - 1 : r = x % n /\ x = d * n + r
  BY HasRemainder
<1>2. PICK e \in Int, s \in 0 .. n - 1 : s = (r + y) % n /\ r + y = e * n + s
  <2>1. r + y \in Int
    OBVIOUS
  <2> QED
    BY <2>1, HasRemainder
<1>3. x + y = (d + e) * n + s
  <2>1. (d + e) * n = d * n + e * n /\ d * n \in Int /\ e * n \in Int
    OBVIOUS
  <2>2. PICK u \in Int, v \in Int : u = d * n /\ v = e * n
    BY <2>1
  <2>3. x = u + r /\ r + y = v + s /\ (d + e) * n = u + v
    BY <1>1, <1>2, <2>1, <2>2
  <2> QED
    BY <2>3
<1>4. ((d + e) * n + s) % n = s
  BY RemainderIs
<1> QED
  BY <1>1, <1>2, <1>3, <1>4

\* On a ring, the columns go round.
LEMMA RemainderOnRing ==
  ASSUME NEW rings \in Nat \ {0}, NEW columns \in Nat \ {0}, NEW m \in Int, NEW s \in 0 .. rings - 1
  PROVE  /\ (s + m * rings) % (rings * columns) = s + (m % columns) * rings
         /\ s + (m % columns) * rings \in 0 .. rings * columns - 1
<1>1. PICK d \in Int, c \in 0 .. columns - 1 : c = m % columns /\ m = d * columns + c
  BY HasRemainder
<1>2. PICK n \in Nat \ {0} : n = rings * columns
  OBVIOUS
<1>3. c * rings + s \in 0 .. n - 1
  <2>1. c * rings + s \in 0 .. columns * rings - 1
    BY DigitsBound
  <2> QED
    BY <1>2, <2>1
<1>4. PICK t \in 0 .. n - 1 : t = s + c * rings
  <2>1. c * rings \in Int
    OBVIOUS
  <2> QED
    BY <1>3, <2>1
<1>5. s + m * rings = d * n + t
  <2>1. m * rings = d * (rings * columns) + c * rings /\ c * rings \in Int
    BY <1>1
  <2>2. d * n \in Int
    OBVIOUS
  <2> QED
    BY <1>2, <1>4, <2>1, <2>2
<1>6. (d * n + t) % n = t
  BY RemainderIs
<1> QED
  BY <1>1, <1>2, <1>4, <1>5, <1>6

\* One ring of a scan, and the scan when the scanner is turned by a column
OneRing(scan, rings, r) == [k \in 1 .. Len(scan) \div rings |-> scan[(k - 1) * rings + r]]
ByColumn(scan, rings) == SubSeq(scan, rings + 1, Len(scan)) \o SubSeq(scan, 1, rings)

\* The windows of a ring are those of the scan.
LEMMA RingsAreFiltered ==
  ASSUME NEW S, NEW scan \in Seq(S), NEW rings \in 1 .. Len(scan), Len(scan) % rings = 0,
         NEW r \in 1 .. rings
  PROVE  OneRing(MedianFilter(scan, rings, 3), rings, r)
            = MedianFilter(OneRing(scan, rings, r), 1, 3)
<1>1. PICK columns \in Nat \ {0} : columns = Len(scan) \div rings /\ Len(scan) = rings * columns
  OBVIOUS
<1>2. PICK ring : ring = OneRing(scan, rings, r)
  OBVIOUS
<1>3. PICK result : result = MedianFilter(scan, rings, 3)
  OBVIOUS
<1>4. 3 % 2 = 1 /\ 3 \div 2 = 1
  OBVIOUS
<1>5. result = [at \in 1 .. Len(scan) |-> Median(Window(scan, rings, 3, at))]
  BY <1>3, <1>4 DEF MedianFilter
<1>6. Len(result) = Len(scan)
  <2>1. Len(scan) \in Nat
    OBVIOUS
  <2> QED
    BY <1>5, <2>1
<1>7. ASSUME NEW k \in 1 .. columns
      PROVE  (k - 1) * rings + r \in 1 .. Len(scan)
  <2>1. (k - 1) * rings + (r - 1) \in 0 .. columns * rings - 1
    BY DigitsBound
  <2>2. (k - 1) * rings \in Int /\ columns * rings = rings * columns
    OBVIOUS
  <2> QED
    BY <1>1, <2>1, <2>2
<1>8. ring = [k \in 1 .. columns |-> scan[(k - 1) * rings + r]]
  BY <1>1, <1>2 DEF OneRing
<1>9. Len(ring) = columns
  BY <1>8
<1>10. OneRing(result, rings, r) = [k \in 1 .. columns |-> result[(k - 1) * rings + r]]
  BY <1>1, <1>6 DEF OneRing
<1>11. MedianFilter(ring, 1, 3) = [k \in 1 .. columns |-> Median(Window(ring, 1, 3, k))]
  BY <1>4, <1>9 DEF MedianFilter
<1>12. ASSUME NEW k \in 1 .. columns
       PROVE  Window(scan, rings, 3, (k - 1) * rings + r) = Window(ring, 1, 3, k)
  <2>1. ASSUME NEW j \in 1 .. 3
        PROVE  scan[((((k - 1) * rings + r) - 1 + (j - 1 - 1) * rings) % Len(scan)) + 1]
                 = ring[((k - 1 + (j - 1 - 1) * 1) % columns) + 1]
    <3>1. PICK m \in Int : m = k + j - 3
      OBVIOUS
    <3>2. PICK c \in 0 .. columns - 1 : c = m % columns
      OBVIOUS
    <3>3. ((k - 1) * rings + r) - 1 + (j - 1 - 1) * rings = (r - 1) + m * rings
      <4>1. m * rings = (k - 1) * rings + (j - 1 - 1) * rings
        BY <3>1
      <4>2. (k - 1) * rings \in Int /\ (j - 1 - 1) * rings \in Int
        OBVIOUS
      <4> QED
        BY <4>1, <4>2
    <3>4. ((r - 1) + m * rings) % (rings * columns) = (r - 1) + c * rings
      <4>1. r - 1 \in 0 .. rings - 1
        OBVIOUS
      <4>2. PICK s \in 0 .. rings - 1 : s = r - 1
        BY <4>1
      <4>3. rings \in Nat \ {0}
        OBVIOUS
      <4>4. (s + m * rings) % (rings * columns) = s + (m % columns) * rings
        BY <4>3, RemainderOnRing
      <4> QED
        BY <3>2, <4>2, <4>4
    <3>5. scan[((((k - 1) * rings + r) - 1 + (j - 1 - 1) * rings) % Len(scan)) + 1]
             = scan[(r - 1) + c * rings + 1]
      BY <1>1, <3>3, <3>4
    <3>6. k - 1 + (j - 1 - 1) * 1 = m
      BY <3>1
    <3>7. c + 1 \in 1 .. columns
      BY <3>2
    <3>8. ring[((k - 1 + (j - 1 - 1) * 1) % columns) + 1] = scan[((c + 1) - 1) * rings + r]
      BY <1>8, <3>2, <3>6, <3>7
    <3>9. ((c + 1) - 1) * rings + r = (r - 1) + c * rings + 1
      <4>1. c * rings \in Int /\ (c + 1) - 1 = c
        OBVIOUS
      <4> QED
        BY <4>1
    <3> QED
      BY <3>5, <3>8, <3>9
  <2>2. Window(scan, rings, 3, (k - 1) * rings + r) =
          [j \in 1 .. 3 |-> scan[((((k - 1) * rings + r) - 1 + (j - 1 - 1) * rings) % Len(scan)) + 1]]
    BY <1>4 DEF Window
  <2>3. Window(ring, 1, 3, k) = [j \in 1 .. 3 |-> ring[((k - 1 + (j - 1 - 1) * 1) % columns) + 1]]
    BY <1>4, <1>9 DEF Window
  <2>4. PICK f, g : f = Window(scan, rings, 3, (k - 1) * rings + r) /\ g = Window(ring, 1, 3, k)
    OBVIOUS
  <2>5. f = [j \in 1 .. 3 |-> f[j]] /\ g = [j \in 1 .. 3 |-> g[j]]
    BY <2>2, <2>3, <2>4
  <2>6. ASSUME NEW j \in 1 .. 3
        PROVE  f[j] = g[j]
    <3>1. f[j] = scan[((((k - 1) * rings + r) - 1 + (j - 1 - 1) * rings) % Len(scan)) + 1]
      BY <2>2, <2>4
    <3>2. g[j] = ring[((k - 1 + (j - 1 - 1) * 1) % columns) + 1]
      BY <2>3, <2>4
    <3> QED
      BY <2>1, <3>1, <3>2
  <2> QED
    BY <2>4, <2>5, <2>6
<1>13. ASSUME NEW k \in 1 .. columns
       PROVE  result[(k - 1) * rings + r] = Median(Window(ring, 1, 3, k))
  BY <1>5, <1>7, <1>12
<1> QED
  BY <1>2, <1>3, <1>10, <1>11, <1>13

LEMMA ColumnIsTurned ==
  ASSUME NEW S, NEW scan \in Seq(S), NEW rings \in 1 .. Len(scan)
  PROVE  /\ ByColumn(scan, rings) \in Seq(S) /\ Len(ByColumn(scan, rings)) = Len(scan)
         /\ \A n \in 1 .. Len(scan) :
                ByColumn(scan, rings)[n] = scan[((n - 1 + rings) % Len(scan)) + 1]
<1>1. PICK all \in Nat \ {0} : all = Len(scan)
  OBVIOUS
<1>2. PICK front, back : front = SubSeq(scan, rings + 1, all) /\ back = SubSeq(scan, 1, rings)
  OBVIOUS
<1>3. /\ front \in Seq(S) /\ Len(front) = all - rings
      /\ \A n \in 1 .. all - rings : front[n] = scan[n + rings]
  BY <1>1, <1>2
<1>4. /\ back \in Seq(S) /\ Len(back) = rings
      /\ \A n \in 1 .. rings : back[n] = scan[n]
  BY <1>1, <1>2
<1>5. PICK turn : turn = front \o back /\ turn = ByColumn(scan, rings)
  BY <1>1, <1>2 DEF ByColumn
<1>6. /\ turn \in Seq(S) /\ Len(turn) = all
      /\ \A n \in 1 .. all : turn[n] = IF n <= all - rings THEN front[n] ELSE back[n - (all - rings)]
  <2>1. turn = front \o back /\ front \in Seq(S) /\ back \in Seq(S)
    BY <1>3, <1>4, <1>5
  <2>2. rings \in Nat /\ rings <= all
    BY <1>1
  <2>3. turn \in Seq(S)
    BY <2>1
  <2>4. Len(turn) = Len(front) + Len(back)
    BY <2>1
  <2>5. \A n \in 1 .. Len(turn) : turn[n] = IF n <= Len(front) THEN front[n] ELSE back[n - Len(front)]
    BY <2>1, <2>4
  <2> QED
    BY <1>3, <1>4, <2>2, <2>3, <2>4, <2>5
<1>7. ASSUME NEW n \in 1 .. all
      PROVE  turn[n] = scan[((n - 1 + rings) % all) + 1]
  <2>1. CASE n <= all - rings
    <3>1. turn[n] = scan[n + rings]
      <4>1. n \in 1 .. all - rings
        BY <1>1, <2>1
      <4> QED
        BY <1>3, <1>6, <2>1, <4>1
    <3>2. (0 * all + (n - 1 + rings)) % all = n - 1 + rings
      BY <1>1, <2>1, RemainderIs
    <3> QED
      BY <1>1, <3>1, <3>2
  <2>2. CASE n > all - rings
    <3>1. turn[n] = back[n - (all - rings)]
      BY <1>1, <1>6, <2>2
    <3>2. (1 * all + (n - 1 + rings - all)) % all = n - 1 + rings - all
      <4>1. n - 1 + rings - all \in 0 .. all - 1
        BY <1>1, <2>2
      <4> QED
        BY <4>1, RemainderIs
    <3>3. turn[n] = scan[n - (all - rings)]
      BY <1>1, <1>4, <2>2, <3>1
    <3> QED
      BY <1>1, <3>2, <3>3
  <2> QED
    BY <1>1, <2>1, <2>2
<1> QED
  BY <1>1, <1>5, <1>6, <1>7

LEMMA FilterTurns ==
  ASSUME NEW S, NEW scan \in Seq(S), NEW rings \in 1 .. Len(scan)
  PROVE  MedianFilter(ByColumn(scan, rings), rings, 3) = ByColumn(MedianFilter(scan, rings, 3), rings)
<1>1. PICK all \in Nat \ {0} : all = Len(scan)
  OBVIOUS
<1>2. PICK turn : turn = ByColumn(scan, rings)
  OBVIOUS
<1>3. /\ Len(turn) = all
      /\ \A n \in 1 .. all : turn[n] = scan[((n - 1 + rings) % all) + 1]
  BY <1>1, <1>2, ColumnIsTurned
<1>4. 3 % 2 = 1 /\ 3 \div 2 = 1
  OBVIOUS
<1>5. PICK result : result = [at \in 1 .. all |-> Median(Window(scan, rings, 3, at))]
  OBVIOUS
<1>6. MedianFilter(scan, rings, 3) = result
  BY <1>1, <1>4, <1>5 DEF MedianFilter
<1>7. PICK T : T = {result[at] : at \in 1 .. all}
  OBVIOUS
<1>8. result \in Seq(T) /\ Len(result) = all
  <2>1. result \in [1 .. all -> T]
    BY <1>5, <1>7
  <2> QED
    BY <1>1, <2>1
<1>9. /\ ByColumn(result, rings) \in Seq(T) /\ Len(ByColumn(result, rings)) = all
      /\ \A n \in 1 .. all : ByColumn(result, rings)[n] = result[((n - 1 + rings) % all) + 1]
  BY <1>1, <1>8, ColumnIsTurned
<1>10. MedianFilter(turn, rings, 3) = [n \in 1 .. all |-> Median(Window(turn, rings, 3, n))]
  BY <1>3, <1>4 DEF MedianFilter
<1>11. ASSUME NEW n \in 1 .. all
       PROVE  ByColumn(result, rings)[n] = Median(Window(turn, rings, 3, n))
  <2>1. PICK at \in 1 .. all : at = ((n - 1 + rings) % all) + 1
    OBVIOUS
  <2>2. result[at] = Median(Window(scan, rings, 3, at))
    BY <1>5
  <2>3. ASSUME NEW j \in 1 .. 3
        PROVE  scan[((at - 1 + (j - 1 - 1) * rings) % all) + 1]
                 = turn[((n - 1 + (j - 1 - 1) * rings) % all) + 1]
    <3>1. PICK y \in Int : y = (j - 1 - 1) * rings
      OBVIOUS
    <3>2. at - 1 = (n - 1 + rings) % all
      BY <2>1
    <3>3. n - 1 + rings \in Int /\ n - 1 + y \in Int /\ rings \in Int
      OBVIOUS
    <3>4. (((n - 1 + rings) % all) + y) % all = (n - 1 + rings + y) % all
      BY <3>3, RemainderOfSum
    <3>5. (((n - 1 + y) % all) + rings) % all = (n - 1 + y + rings) % all
      BY <3>3, RemainderOfSum
    <3>6. n - 1 + y + rings = n - 1 + rings + y
      OBVIOUS
    <3>7. PICK k \in 1 .. all : k = ((n - 1 + y) % all) + 1
      OBVIOUS
    <3>8. turn[k] = scan[((k - 1 + rings) % all) + 1] /\ k - 1 = (n - 1 + y) % all
      BY <1>3, <3>7
    <3> QED
      BY <3>1, <3>2, <3>4, <3>5, <3>6, <3>7, <3>8
  <2>4. Window(scan, rings, 3, at) = [j \in 1 .. 3 |-> scan[((at - 1 + (j - 1 - 1) * rings) % all) + 1]]
    BY <1>1, <1>4 DEF Window
  <2>5. Window(turn, rings, 3, n) = [j \in 1 .. 3 |-> turn[((n - 1 + (j - 1 - 1) * rings) % all) + 1]]
    BY <1>3, <1>4 DEF Window
  <2>6. Window(scan, rings, 3, at) = Window(turn, rings, 3, n)
    BY <2>3, <2>4, <2>5
  <2> QED
    BY <1>9, <2>1, <2>2, <2>6
<1>12. ByColumn(result, rings) = [n \in 1 .. all |-> ByColumn(result, rings)[n]]
  BY <1>9
<1> QED
  BY <1>2, <1>6, <1>10, <1>11, <1>12

-----------------------------------------------------------------------------
(*************************** the reduced cloud *****************************)

LEMMA SmallestOf ==
  ASSUME NEW S, S \subseteq Nat, S # {}
  PROVE  \E n \in S : \A m \in S : n <= m
<1>1. PICK n \in S : \A m \in S : <<m, n>> \notin OpToRel(<, Nat)
  BY NatLessThanWellFounded, WFMin
<1>2. \A m \in S : ~(m < n)
  BY <1>1 DEF OpToRel
<1> QED
  BY <1>2

\* The whole part of a square root is there, below the sum of the coordinates.
LEMMA LengthFits ==
  ASSUME NEW p \in Vectors
  PROVE  Length(p) \in Nat /\ Length(p) * Length(p) <= Square(p)
<1>1. PICK x \in Nat, y \in Nat, z \in Nat :
        x = Magnitude(p[1]) /\ y = Magnitude(p[2]) /\ z = Magnitude(p[3])
  BY Coordinates DEF Magnitude
<1>2. PICK q : q = Square(p)
  OBVIOUS
<1>3. q = x * x + y * y + z * z
  <2>1. \A n \in Int : Magnitude(n) * Magnitude(n) = n * n
    BY DEF Magnitude
  <2> QED
    BY <1>1, <1>2, <2>1, Coordinates DEF Square
<1>4. x * x \in Nat /\ y * y \in Nat /\ z * z \in Nat
  OBVIOUS
<1>5. q \in Nat
  BY <1>3, <1>4
<1>6. PICK w \in Nat : w = x + y + z
  OBVIOUS
<1>7. q < (w + 1) * (w + 1)
  <2>1. w * w = x * x + y * y + z * z + 2 * (x * y) + 2 * (x * z) + 2 * (y * z)
    BY <1>6
  <2>2. x * y \in Nat /\ x * z \in Nat /\ y * z \in Nat
    OBVIOUS
  <2>3. (w + 1) * (w + 1) = w * w + 2 * w + 1 /\ w * w \in Nat
    OBVIOUS
  <2> QED
    BY <1>3, <1>4, <2>1, <2>2, <2>3
<1>8. PICK S : S = {n \in Nat : q < (n + 1) * (n + 1)}
  OBVIOUS
<1>9. S \subseteq Nat /\ w \in S
  BY <1>7, <1>8
<1>10. PICK n \in S : \A m \in S : n <= m
  BY <1>9, SmallestOf
<1>11. n \in 0 .. w /\ q < (n + 1) * (n + 1)
  BY <1>8, <1>9, <1>10
<1>12. n * n <= q
  <2>1. CASE n = 0
    BY <1>5, <2>1
  <2>2. CASE n # 0
    <3>1. n - 1 \in Nat /\ n - 1 \notin S
      BY <1>9, <1>10, <2>2
    <3>2. n * n \in Nat
      BY <1>9
    <3> QED
      BY <1>5, <1>8, <3>1, <3>2
  <2> QED
    BY <2>1, <2>2
<1>13. n * n <= Square(p) /\ Square(p) < (n + 1) * (n + 1)
  BY <1>2, <1>11, <1>12
<1>14. n \in 0 .. Magnitude(p[1]) + Magnitude(p[2]) + Magnitude(p[3])
  BY <1>1, <1>6, <1>11
<1>15. Length(p) \in 0 .. w /\ Length(p) * Length(p) <= Square(p)
  <2>1. \E k \in 0 .. Magnitude(p[1]) + Magnitude(p[2]) + Magnitude(p[3]) :
            k * k <= Square(p) /\ Square(p) < (k + 1) * (k + 1)
    BY <1>13, <1>14
  <2> QED
    BY <1>1, <1>6, <2>1 DEF Length
<1> QED
  BY <1>15

LEMMA LengthIsNat ==
  ASSUME NEW p \in Vectors
  PROVE  Length(p) \in Nat
BY LengthFits

\* A voxel has the points from its corner on, up to the resolution.
IsIn(q, v) == \A a \in Axes : /\ v[a] * MapResolution <= q[a]
                              /\ q[a] < v[a] * MapResolution + MapResolution

LEMMA AxisIsInt ==
  ASSUME NEW q \in Vectors, NEW a \in Axes
  PROVE  q[a] \in Int
<1>1. PICK x \in Int, y \in Int, z \in Int : q = <<x, y, z>>
  BY Coordinates
<1>2. a = 1 \/ a = 2 \/ a = 3
  BY DEF Axes
<1> QED
  BY <1>1, <1>2

LEMMA VoxelHolds ==
  ASSUME NEW q \in Vectors
  PROVE  Voxel(q) \in [Axes -> Int] /\ IsIn(q, Voxel(q))
<1>1. PICK m \in Nat \ {0} : m = MapResolution
  BY ScanAssumption
<1>2. ASSUME NEW a \in Axes
      PROVE  Voxel(q)[a] \in Int /\ Voxel(q)[a] * m <= q[a] /\ q[a] < Voxel(q)[a] * m + m
  <2>1. PICK x \in Int : x = q[a]
    BY AxisIsInt
  <2>2. PICK d : d = x \div m
    OBVIOUS
  <2>3. d \in Int /\ x = m * d + (x % m) /\ (x % m) \in 0 .. m - 1
    BY <2>2
  <2>4. PICK r \in 0 .. m - 1 : x = d * m + r
    BY <2>3
  <2>5. d * m \in Int
    BY <2>3
  <2>6. Voxel(q)[a] = d
    BY <1>1, <2>1, <2>2 DEF Voxel
  <2> QED
    BY <2>1, <2>3, <2>4, <2>5, <2>6
<1>3. Voxel(q) \in [Axes -> Int]
  <2>1. PICK v : v = Voxel(q)
    OBVIOUS
  <2>2. v = [a \in Axes |-> v[a]] /\ \A a \in Axes : v[a] \in Int
    BY <1>2, <2>1 DEF Voxel
  <2> QED
    BY <2>1, <2>2
<1> QED
  BY <1>1, <1>2, <1>3 DEF IsIn

LEMMA VoxelIsOne ==
  ASSUME NEW q \in Vectors, NEW v \in [Axes -> Int], IsIn(q, v)
  PROVE  Voxel(q) = v
<1>1. PICK m \in Nat \ {0} : m = MapResolution
  BY ScanAssumption
<1>2. PICK w \in [Axes -> Int] : w = Voxel(q) /\ IsIn(q, w)
  BY VoxelHolds
<1>3. ASSUME NEW a \in Axes
      PROVE  w[a] = v[a]
  <2>1. PICK x \in Int : x = q[a]
    BY AxisIsInt
  <2>2. PICK d \in Int : d = w[a]
    OBVIOUS
  <2>3. PICK e \in Int : e = v[a]
    OBVIOUS
  <2>4. PICK r \in 0 .. m - 1 : x = d * m + r
    <3>1. d * m \in Int /\ d * m <= x /\ x < d * m + m
      BY <1>1, <1>2, <2>1, <2>2 DEF IsIn
    <3>2. x - d * m \in 0 .. m - 1 /\ x = d * m + (x - d * m)
      BY <3>1
    <3> QED
      BY <3>2
  <2>5. PICK s \in 0 .. m - 1 : x = e * m + s
    <3>1. e * m \in Int /\ e * m <= x /\ x < e * m + m
      BY <1>1, <2>1, <2>3 DEF IsIn
    <3>2. x - e * m \in 0 .. m - 1 /\ x = e * m + (x - e * m)
      BY <3>1
    <3> QED
      BY <3>2
  <2>6. d * m + r = e * m + s
    BY <2>4, <2>5
  <2>7. d = e
    BY <2>6, TwoDigits
  <2> QED
    BY <2>2, <2>3, <2>7
<1> QED
  BY <1>2, <1>3

\* No point of a voxel is as far from its center as the default.
LEMMA CenterIsNear ==
  ASSUME NEW q \in Vectors
  PROVE  /\ Length(Less(q, Center(Voxel(q)))) \in Nat
         /\ Length(Less(q, Center(Voxel(q)))) < DefaultDistance
<1>1. PICK m \in Nat \ {0} : m = MapResolution
  BY ScanAssumption
<1>2. PICK v \in [Axes -> Int] : v = Voxel(q) /\ IsIn(q, v)
  BY VoxelHolds
<1>3. PICK p : p = Less(q, Center(v))
  OBVIOUS
<1>4. ASSUME NEW a \in Axes
      PROVE  q[a] - Center(v)[a] \in -m .. m
  <2>1. PICK x \in Int : x = q[a]
    BY AxisIsInt
  <2>2. PICK d \in Int : d = v[a] * m
    <3>1. v[a] \in Int
      OBVIOUS
    <3> QED
      BY <3>1
  <2>3. d <= x /\ x < d + m
    BY <1>1, <1>2, <2>1, <2>2 DEF IsIn
  <2>4. PICK h \in 0 .. m : h = m \div 2
    OBVIOUS
  <2>5. Center(v)[a] = d + h
    BY <1>1, <2>2, <2>4 DEF Center
  <2> QED
    BY <2>1, <2>3, <2>5
<1>5. PICK x \in -m .. m, y \in -m .. m, z \in -m .. m : p = <<x, y, z>>
  <2>1. 1 \in Axes /\ 2 \in Axes /\ 3 \in Axes
    BY DEF Axes
  <2>2. /\ q[1] - Center(v)[1] \in -m .. m
        /\ q[2] - Center(v)[2] \in -m .. m
        /\ q[3] - Center(v)[3] \in -m .. m
    BY <1>4, <2>1
  <2> QED
    BY <1>3, <2>2 DEF Less
<1>6. p \in Vectors
  BY <1>5, Coordinates
<1>7. PICK n \in Nat : n = Length(p)
  BY <1>6, LengthIsNat
<1>8. n * n <= Square(p)
  BY <1>6, <1>7, LengthFits
<1>9. Square(p) < (2 * m) * (2 * m)
  <2>1. \A k \in -m .. m : k * k \in Nat /\ k * k <= m * m
    <3> TAKE k \in -m .. m
    <3>1. CASE k >= 0
      <4>1. k * k <= m * k /\ m * k <= m * m
        BY <3>1
      <4> QED
        BY <3>1, <4>1
    <3>2. CASE k < 0
      <4>1. PICK l \in 1 .. m : l = 0 - k
        BY <3>2
      <4>2. l * l <= m * l /\ m * l <= m * m
        BY <4>1
      <4>3. k * k = l * l
        BY <4>1
      <4> QED
        BY <4>2, <4>3
    <3> QED
      BY <3>1, <3>2
  <2>2. Square(p) = x * x + y * y + z * z
    BY <1>5 DEF Square
  <2>3. (2 * m) * (2 * m) = 4 * (m * m) /\ m * m > 0 /\ m * m \in Nat
    BY <1>1
  <2> QED
    BY <2>1, <2>2, <2>3
<1>10. n < 2 * m
  <2>1. CASE n >= 2 * m
    <3>1. PICK k \in Nat : k = 2 * m
      OBVIOUS
    <3>2. k * k <= n * k /\ n * k <= n * n /\ k * k \in Nat /\ n * n \in Nat /\ n * k \in Nat
      BY <2>1, <3>1
    <3>3. n * n < k * k
      <4>1. Square(p) \in Int
        BY <1>5 DEF Square
      <4> QED
        BY <1>8, <1>9, <3>1, <3>2, <4>1
    <3> QED
      BY <3>2, <3>3
  <2> QED
    BY <2>1
<1> QED
  BY <1>1, <1>2, <1>3, <1>7, <1>10 DEF DefaultDistance

\* What the loop compares
Distance(q, v) == Length(Less(q, Center(v)))

\* The loop leaves a point of the voxel, and none is nearer to its center.
LEMMA ClosestIsBest ==
  ASSUME NEW points \in Seq(Vectors), NEW p \in Passing(points), NEW v, v = Voxel(p)
  PROVE  /\ Closest(points, v) \in Passing(points)
         /\ Voxel(Closest(points, v)) = v
         /\ \A q \in Passing(points) : Voxel(q) = v => Distance(Closest(points, v), v) <= Distance(q, v)
<1>1. PICK here : here = InVoxel(points, v)
  OBVIOUS
<1>2. \A n \in here : /\ n \in DOMAIN points /\ n \in Nat /\ points[n] \in Vectors
                      /\ points[n] \in Passing(points) /\ Voxel(points[n]) = v
  <2> TAKE n \in here
  <2>1. n \in DOMAIN points /\ Passes(points[n]) /\ Voxel(points[n]) = v
    BY <1>1 DEF InVoxel
  <2> QED
    BY <2>1 DEF Passing, ToSet
<1>3. \A q \in Passing(points) : Voxel(q) = v => \E n \in here : points[n] = q
  BY <1>1 DEF InVoxel, Passing, ToSet
<1>4. \A n \in here : Distance(points[n], v) \in Nat /\ Distance(points[n], v) < DefaultDistance
  BY <1>2, CenterIsNear DEF Distance
<1>5. PICK d : d = [n \in here |-> Distance(points[n], v)]
  OBVIOUS
<1>6. here # {}
  BY <1>3
<1>7. Closest(points, v) =
         points[CHOOSE n \in here : \A m \in here :
                  \/ Distance(points[n], v) < Distance(points[m], v)
                  \/ Distance(points[n], v) = Distance(points[m], v) /\ n <= m]
  <2>1. here = {n \in InVoxel(points, v) : Length(Less(points[n], Center(v))) < DefaultDistance}
    BY <1>1, <1>4 DEF Distance
  <2> QED
    BY <1>6, <2>1 DEF Closest, Distance
<1>8. PICK D : D = {d[n] : n \in here}
  OBVIOUS
<1>9. D \subseteq Nat /\ D # {}
  BY <1>4, <1>5, <1>6, <1>8
<1>10. PICK least \in D : \A e \in D : least <= e
  BY <1>9, SmallestOf
<1>11. PICK N : N = {n \in here : d[n] = least}
  OBVIOUS
<1>12. N \subseteq Nat /\ N # {}
  BY <1>2, <1>8, <1>10, <1>11
<1>13. PICK first \in N : \A n \in N : first <= n
  BY <1>12, SmallestOf
<1>14. first \in here /\ \A m \in here : d[first] < d[m] \/ (d[first] = d[m] /\ first <= m)
  <2>1. first \in here /\ d[first] = least
    BY <1>11, <1>13
  <2> SUFFICES ASSUME NEW m \in here
               PROVE  d[first] < d[m] \/ (d[first] = d[m] /\ first <= m)
    BY <2>1
  <2>2. least <= d[m] /\ least \in Nat /\ d[m] \in Nat
    BY <1>4, <1>5, <1>8, <1>9, <1>10
  <2>3. CASE d[m] = least
    BY <1>11, <1>13, <2>1, <2>3
  <2>4. CASE d[m] # least
    BY <2>1, <2>2, <2>4
  <2> QED
    BY <2>3, <2>4
<1>15. \A m \in here : \/ Distance(points[first], v) < Distance(points[m], v)
                       \/ Distance(points[first], v) = Distance(points[m], v) /\ first <= m
  <2> TAKE m \in here
  <2>1. d[first] = Distance(points[first], v) /\ d[m] = Distance(points[m], v)
    BY <1>5, <1>14
  <2>2. d[first] < d[m] \/ (d[first] = d[m] /\ first <= m)
    BY <1>14
  <2> QED
    BY <2>1, <2>2
<1>16. PICK k : k = CHOOSE n \in here : \A m \in here :
                  \/ Distance(points[n], v) < Distance(points[m], v)
                  \/ Distance(points[n], v) = Distance(points[m], v) /\ n <= m
  OBVIOUS
<1>17. k \in here /\ \A m \in here : \/ Distance(points[k], v) < Distance(points[m], v)
                                     \/ Distance(points[k], v) = Distance(points[m], v) /\ k <= m
  <2>1. first \in here
    BY <1>14
  <2> QED
    BY <1>15, <1>16, <2>1
<1>18. Closest(points, v) = points[k]
  BY <1>7, <1>16
<1>19. \A m \in here : Distance(points[k], v) <= Distance(points[m], v)
  BY <1>4, <1>17
<1> QED
  BY <1>2, <1>3, <1>17, <1>18, <1>19

LEMMA PassingAreVectors ==
  ASSUME NEW points \in Seq(Vectors)
  PROVE  Passing(points) \subseteq Vectors /\ IsFiniteSet(Passing(points))
<1>1. PICK D : D = {n \in DOMAIN points : Passes(points[n])}
  OBVIOUS
<1>2. IsFiniteSet(D)
  <2>1. Len(points) \in Nat /\ DOMAIN points = 1 .. Len(points)
    OBVIOUS
  <2>2. IsFiniteSet(1 .. Len(points))
    BY <2>1, FS_Interval
  <2> QED
    BY <1>1, <2>1, <2>2, FS_Subset
<1>3. PICK f : f = [n \in D |-> points[n]]
  OBVIOUS
<1>4. Passing(points) = {points[n] : n \in D}
  BY <1>1 DEF Passing, ToSet
<1>5. f \in Surjection(D, Passing(points))
  BY <1>3, <1>4 DEF Surjection
<1>6. IsFiniteSet(Passing(points))
  BY <1>2, <1>5, FS_Surjection
<1> QED
  BY <1>1, <1>4, <1>6

\* The reduced cloud: one point of the scan for each of its voxels.
LEMMA ReducedIsOneEach ==
  ASSUME NEW points \in Seq(Vectors)
  PROVE  /\ ReduceClosest(points) \subseteq Passing(points)
         /\ IsFiniteSet(ReduceClosest(points))
         /\ Cardinality(ReduceClosest(points)) = Cardinality(Voxels(Passing(points)))
         /\ Voxels(ReduceClosest(points)) = Voxels(Passing(points))
         /\ \A q, r \in ReduceClosest(points) : Voxel(q) = Voxel(r) => q = r
<1>1. PICK P : P = Passing(points)
  OBVIOUS
<1>2. PICK V : V = Voxels(P)
  OBVIOUS
<1>3. PICK f : f = [v \in V |-> Closest(points, v)]
  OBVIOUS
<1>4. PICK R : R = ReduceClosest(points)
  OBVIOUS
<1>5. V = {Voxel(p) : p \in P}
  BY <1>2 DEF Voxels
<1>6. R = {f[v] : v \in V}
  BY <1>1, <1>2, <1>3, <1>4 DEF ReduceClosest
<1>7. \A v \in V : f[v] \in P /\ Voxel(f[v]) = v
  <2> TAKE v \in V
  <2>1. PICK p \in P : v = Voxel(p)
    BY <1>5
  <2> QED
    BY <1>1, <1>3, <2>1, ClosestIsBest
<1>8. R \subseteq P
  BY <1>6, <1>7
<1>9. \A q, r \in R : Voxel(q) = Voxel(r) => q = r
  BY <1>6, <1>7
<1>10. IsFiniteSet(P)
  BY <1>1, PassingAreVectors
<1>11. IsFiniteSet(R)
  BY <1>8, <1>10, FS_Subset
<1>12. IsFiniteSet(V)
  <2>1. PICK g : g = [p \in P |-> Voxel(p)]
    OBVIOUS
  <2>2. g \in Surjection(P, V)
    BY <1>5, <2>1 DEF Surjection
  <2> QED
    BY <1>10, <2>2, FS_Surjection
<1>13. f \in Bijection(V, R)
  <2>1. f \in [V -> R] /\ \A r \in R : \E v \in V : f[v] = r
    BY <1>3, <1>6
  <2>2. \A v, w \in V : f[v] = f[w] => v = w
    BY <1>7
  <2> QED
    BY <2>1, <2>2 DEF Bijection, Injection, Surjection, IsInjective
<1>14. Cardinality(R) = Cardinality(V)
  BY <1>12, <1>13, FS_Bijection DEF ExistsBijection
<1>15. Voxels(R) = V
  <2>1. \A v \in V : \E r \in R : Voxel(r) = v
    BY <1>6, <1>7
  <2>2. \A r \in R : Voxel(r) \in V
    BY <1>6, <1>7
  <2> QED
    BY <2>1, <2>2 DEF Voxels
<1> QED
  BY <1>1, <1>2, <1>4, <1>8, <1>9, <1>11, <1>14, <1>15

\* A finite set in any order is a sequence of its elements.
LEMMA OrderedIsSame ==
  ASSUME NEW S, IsFiniteSet(S)
  PROVE  SetToSeq(S) \in Seq(S) /\ ToSet(SetToSeq(S)) = S
<1>1. PICK n \in Nat : n = Cardinality(S) /\ ExistsBijection(1 .. n, S)
  BY FS_CardinalityType
<1>2. PICK s : s = SetToSeq(S)
  OBVIOUS
<1>3. s \in [1 .. n -> S] /\ IsInjective(s)
  <2>1. \E f \in [1 .. n -> S] : IsInjective(f)
    BY <1>1 DEF ExistsBijection, Bijection, Injection
  <2> QED
    BY <1>1, <1>2, <2>1 DEF SetToSeq
<1>4. s \in Surjection(1 .. n, S)
  <2>1. IsFiniteSet(1 .. n) /\ Cardinality(1 .. n) = n
    BY FS_Interval
  <2>2. s \in Injection(1 .. n, S)
    BY <1>3 DEF Injection
  <2> QED
    BY <1>1, <2>1, <2>2, FS_Injection
<1>5. ToSet(s) = S
  BY <1>3, <1>4 DEF ToSet, Surjection
<1> QED
  BY <1>2, <1>3, <1>5

\* Filtered again, the filtered cloud is the same.
LEMMA ReducedStays ==
  ASSUME NEW points \in Seq(Vectors)
  PROVE  /\ ReduceClosest(SetToSeq(ReduceClosest(points))) = ReduceClosest(points)
         /\ ReduceCenter(SetToSeq(ReduceClosest(points))) = ReduceCenter(points)
<1>1. PICK P : P = Passing(points)
  OBVIOUS
<1>2. PICK R : R = ReduceClosest(points)
  OBVIOUS
<1>3. /\ R \subseteq P /\ IsFiniteSet(R) /\ Voxels(R) = Voxels(P)
      /\ \A q, r \in R : Voxel(q) = Voxel(r) => q = r
  BY <1>1, <1>2, ReducedIsOneEach
<1>4. P \subseteq Vectors /\ \A p \in P : Passes(p)
  BY <1>1, PassingAreVectors DEF Passing
<1>5. PICK s : s = SetToSeq(R)
  OBVIOUS
<1>6. s \in Seq(Vectors) /\ ToSet(s) = R
  <2>1. s \in Seq(R) /\ ToSet(s) = R
    BY <1>3, <1>5, OrderedIsSame
  <2>2. R \subseteq Vectors
    BY <1>3, <1>4
  <2> QED
    BY <2>1, <2>2
<1>7. Passing(s) = R
  BY <1>3, <1>4, <1>6 DEF Passing
<1>8. \A r \in R : Closest(s, Voxel(r)) = r
  <2> TAKE r \in R
  <2>1. PICK q : q = Closest(s, Voxel(r))
    OBVIOUS
  <2>2. q \in R /\ Voxel(q) = Voxel(r)
    BY <1>6, <1>7, <2>1, ClosestIsBest
  <2> QED
    BY <1>3, <2>1, <2>2
<1>9. ReduceClosest(s) = R
  BY <1>7, <1>8 DEF ReduceClosest, Voxels
<1>10. ReduceCenter(s) = ReduceCenter(points)
  BY <1>1, <1>3, <1>7 DEF ReduceCenter
<1> QED
  BY <1>2, <1>5, <1>9, <1>10

\* One point of a voxel, whichever, is the choice among those that were chosen.
LEMMA RandomStays ==
  ASSUME NEW points \in Seq(Vectors), NEW S \in ReduceRandom(points)
  PROVE  S \in ReduceRandom(SetToSeq(S))
<1>1. PICK P : P = ToSet(points) \ {Zero}
  OBVIOUS
<1>2. PICK V : V = Voxels(P)
  OBVIOUS
<1>3. PICK pick \in [V -> P] : S = {pick[v] : v \in V} /\ \A v \in V : Voxel(pick[v]) = v
  BY <1>1, <1>2 DEF ReduceRandom
<1>4. IsFiniteSet(S)
  <2>1. PICK f : f = [n \in DOMAIN points |-> points[n]]
    OBVIOUS
  <2>2. f \in Surjection(DOMAIN points, ToSet(points))
    BY <2>1 DEF Surjection, ToSet
  <2>3. IsFiniteSet(DOMAIN points)
    <3>1. Len(points) \in Nat /\ DOMAIN points = 1 .. Len(points)
      OBVIOUS
    <3> QED
      BY <3>1, FS_Interval
  <2>4. IsFiniteSet(ToSet(points))
    BY <2>2, <2>3, FS_Surjection
  <2>5. S \subseteq ToSet(points)
    BY <1>1, <1>3
  <2> QED
    BY <2>4, <2>5, FS_Subset
<1>5. PICK s : s = SetToSeq(S)
  OBVIOUS
<1>6. ToSet(s) \ {Zero} = S
  <2>1. ToSet(s) = S
    BY <1>4, <1>5, OrderedIsSame
  <2>2. Zero \notin S
    BY <1>1, <1>3
  <2> QED
    BY <2>1, <2>2
<1>7. Voxels(S) = V
  BY <1>3 DEF Voxels
<1>8. pick \in [V -> S]
  BY <1>3
<1>9. S \in ReduceRandom(s)
  <2>1. PICK F : F = {f \in [V -> S] : \A v \in V : Voxel(f[v]) = v}
    OBVIOUS
  <2>2. pick \in F
    BY <1>3, <1>8, <2>1
  <2>3. ReduceRandom(s) = {{f[v] : v \in V} : f \in F}
    <3> DEFINE Q == ToSet(s) \ {Zero}
    <3> DEFINE W == Voxels(Q)
    <3>1. ReduceRandom(s) = {{f[v] : v \in W} : f \in {g \in [W -> Q] : \A v \in W : Voxel(g[v]) = v}}
      BY DEF ReduceRandom
    <3>2. Q = S
      BY <1>6
    <3>3. W = V
      BY <1>7, <3>2
    <3> HIDE DEF W
    <3> HIDE DEF Q
    <3> QED
      BY <2>1, <3>1, <3>2, <3>3
  <2> QED
    BY <1>3, <2>2, <2>3
<1> QED
  BY <1>5, <1>9

\* The filter makes a cloud of a cloud, whatever the order.
LEMMA ReducedIsCloud ==
  ASSUME NEW points \in Seq(Vectors), NEW result \in SetToSeqs(ReduceClosest(points))
  PROVE  result \in Seq(Vectors)
<1>1. PICK S : S = ReduceClosest(points)
  OBVIOUS
<1>2. S \subseteq Vectors /\ IsFiniteSet(S)
  BY <1>1, ReducedIsOneEach, PassingAreVectors
<1>3. Cardinality(S) \in Nat
  BY <1>2, FS_CardinalityType
<1>4. result \in [1 .. Cardinality(S) -> S]
  BY <1>1 DEF SetToSeqs
<1> QED
  BY <1>2, <1>3, <1>4

-----------------------------------------------------------------------------
(**************************** the lanes add up *****************************)

\* The sums of a lane, with the rows of its matrix
Rows == [1 .. 6 -> Int]
Sums == [h : [1 .. 6 -> Rows], g : Rows, error : Int, count : Int]

LEMMA SixIsRow ==
  ASSUME NEW a \in Int, NEW b \in Int, NEW c \in Int, NEW d \in Int, NEW e \in Int, NEW f \in Int
  PROVE  <<a, b, c, d, e, f>> \in Rows
BY DEF Rows

LEMMA SixRows ==
  ASSUME NEW a \in Rows, NEW b \in Rows, NEW c \in Rows, NEW d \in Rows, NEW e \in Rows, NEW f \in Rows
  PROVE  <<a, b, c, d, e, f>> \in [1 .. 6 -> Rows]
OBVIOUS

LEMMA NothingIsSum == Nothing \in Sums
<1>1. <<0, 0, 0, 0, 0, 0>> \in Rows
  BY SixIsRow
<1> QED
  BY <1>1, SixRows DEF Nothing, Sums, Six, Square6

LEMMA BothAdds ==
  ASSUME NEW s, NEW t
  PROVE  /\ \A r, c \in 1 .. 6 : Both(s, t).h[r][c] = s.h[r][c] + t.h[r][c]
         /\ \A r \in 1 .. 6 : Both(s, t).g[r] = s.g[r] + t.g[r]
         /\ Both(s, t).error = s.error + t.error
         /\ Both(s, t).count = s.count + t.count
<1>1. \A n \in 1 .. 6 : n = 1 \/ n = 2 \/ n = 3 \/ n = 4 \/ n = 5 \/ n = 6
  OBVIOUS
<1> QED
  BY <1>1 DEF Both, Six, Square6

LEMMA BothIsSum ==
  ASSUME NEW s \in Sums, NEW t \in Sums
  PROVE  Both(s, t) \in Sums
<1>1. \A r, c \in 1 .. 6 : s.h[r][c] + t.h[r][c] \in Int
  BY DEF Sums, Rows
<1>2. \A r \in 1 .. 6 : s.g[r] + t.g[r] \in Int
  BY DEF Sums, Rows
<1>3. {1, 2, 3, 4, 5, 6} = 1 .. 6
  OBVIOUS
<1>4. Both(s, t).g \in Rows
  BY <1>2, <1>3, SixIsRow DEF Both, Six
<1> DEFINE row(r) == <<s.h[r][1] + t.h[r][1], s.h[r][2] + t.h[r][2], s.h[r][3] + t.h[r][3],
                        s.h[r][4] + t.h[r][4], s.h[r][5] + t.h[r][5], s.h[r][6] + t.h[r][6]>>
<1>5. \A r \in 1 .. 6 : row(r) \in Rows
  BY <1>1, <1>3, SixIsRow
<1>6. Both(s, t).h = <<row(1), row(2), row(3), row(4), row(5), row(6)>>
  BY DEF Both, Square6, Six
<1>7. Both(s, t).h \in [1 .. 6 -> Rows]
  <2>1. row(1) \in Rows /\ row(2) \in Rows /\ row(3) \in Rows
        /\ row(4) \in Rows /\ row(5) \in Rows /\ row(6) \in Rows
    BY <1>5, <1>3
  <2> HIDE DEF row
  <2> QED
    BY <1>6, <2>1, SixRows
<1>8. Both(s, t).error \in Int /\ Both(s, t).count \in Int
  <2>1. s.error \in Int /\ t.error \in Int /\ s.count \in Int /\ t.count \in Int
    BY DEF Sums
  <2> QED
    BY <2>1, BothAdds
<1>9. Both(s, t) = [h |-> Both(s, t).h, g |-> Both(s, t).g, error |-> Both(s, t).error, count |-> Both(s, t).count]
  BY DEF Both
<1> QED
  BY <1>4, <1>7, <1>8, <1>9 DEF Sums

LEMMA SumsByEntry ==
  ASSUME NEW s \in Sums, NEW t \in Sums,
         \A r, c \in 1 .. 6 : s.h[r][c] = t.h[r][c],
         \A r \in 1 .. 6 : s.g[r] = t.g[r], s.error = t.error, s.count = t.count
  PROVE  s = t
<1>1. s.g = t.g
  BY DEF Sums, Rows
<1>2. \A r \in 1 .. 6 : s.h[r] = t.h[r]
  BY DEF Sums, Rows
<1>3. s.h = t.h
  BY <1>2 DEF Sums
<1> QED
  BY <1>1, <1>3 DEF Sums

LEMMA BothAssociates ==
  ASSUME NEW s \in Sums, NEW t \in Sums, NEW u \in Sums
  PROVE  Both(s, Both(t, u)) = Both(Both(s, t), u)
<1>1. /\ Both(s, Both(t, u)) \in Sums /\ Both(Both(s, t), u) \in Sums
      /\ Both(s, t) \in Sums /\ Both(t, u) \in Sums
  BY BothIsSum
<1>2. \A r, c \in 1 .. 6 : Both(s, Both(t, u)).h[r][c] = Both(Both(s, t), u).h[r][c]
  <2> SUFFICES ASSUME NEW r \in 1 .. 6, NEW c \in 1 .. 6
               PROVE  Both(s, Both(t, u)).h[r][c] = Both(Both(s, t), u).h[r][c]
    OBVIOUS
  <2>1. s.h[r][c] \in Int /\ t.h[r][c] \in Int /\ u.h[r][c] \in Int
    BY DEF Sums, Rows
  <2>2. Both(s, Both(t, u)).h[r][c] = s.h[r][c] + (t.h[r][c] + u.h[r][c])
    BY BothAdds
  <2>3. Both(Both(s, t), u).h[r][c] = (s.h[r][c] + t.h[r][c]) + u.h[r][c]
    BY BothAdds
  <2> QED
    BY <2>1, <2>2, <2>3
<1>3. \A r \in 1 .. 6 : Both(s, Both(t, u)).g[r] = Both(Both(s, t), u).g[r]
  <2> SUFFICES ASSUME NEW r \in 1 .. 6
               PROVE  Both(s, Both(t, u)).g[r] = Both(Both(s, t), u).g[r]
    OBVIOUS
  <2>1. s.g[r] \in Int /\ t.g[r] \in Int /\ u.g[r] \in Int
    BY DEF Sums, Rows
  <2>2. Both(s, Both(t, u)).g[r] = s.g[r] + (t.g[r] + u.g[r])
    BY BothAdds
  <2>3. Both(Both(s, t), u).g[r] = (s.g[r] + t.g[r]) + u.g[r]
    BY BothAdds
  <2> QED
    BY <2>1, <2>2, <2>3
<1>4. /\ Both(s, Both(t, u)).error = Both(Both(s, t), u).error
      /\ Both(s, Both(t, u)).count = Both(Both(s, t), u).count
  <2>1. {s.error, t.error, u.error, s.count, t.count, u.count} \subseteq Int
    BY DEF Sums
  <2> QED
    BY <2>1, BothAdds
<1> QED
  BY <1>1, <1>2, <1>3, <1>4, SumsByEntry

LEMMA NothingAdds ==
  ASSUME NEW s \in Sums
  PROVE  Both(s, Nothing) = s /\ Both(Nothing, s) = s
<1>1. /\ Both(s, Nothing) \in Sums /\ Both(Nothing, s) \in Sums
  BY BothIsSum, NothingIsSum
<1>0. \A n \in 1 .. 6 : n = 1 \/ n = 2 \/ n = 3 \/ n = 4 \/ n = 5 \/ n = 6
  OBVIOUS
<1>2. /\ \A r, c \in 1 .. 6 : Nothing.h[r][c] = 0
      /\ \A r \in 1 .. 6 : Nothing.g[r] = 0
      /\ Nothing.error = 0 /\ Nothing.count = 0
  BY <1>0 DEF Nothing, Six, Square6
<1>3. /\ \A r, c \in 1 .. 6 : s.h[r][c] \in Int
      /\ \A r \in 1 .. 6 : s.g[r] \in Int
      /\ s.error \in Int /\ s.count \in Int
  BY DEF Sums, Rows
<1>4. \A r, c \in 1 .. 6 : Both(s, Nothing).h[r][c] = s.h[r][c] /\ Both(Nothing, s).h[r][c] = s.h[r][c]
  BY <1>2, <1>3, BothAdds
<1>5. \A r \in 1 .. 6 : Both(s, Nothing).g[r] = s.g[r] /\ Both(Nothing, s).g[r] = s.g[r]
  BY <1>2, <1>3, BothAdds
<1>6. /\ Both(s, Nothing).error = s.error /\ Both(Nothing, s).error = s.error
      /\ Both(s, Nothing).count = s.count /\ Both(Nothing, s).count = s.count
  BY <1>2, <1>3, BothAdds
<1> QED
  BY <1>1, <1>4, <1>5, <1>6, SumsByEntry

LEMMA FromZeroUp ==
  ASSUME NEW S, NEW N \in Nat, 0 \in S, \A n \in 0 .. N - 1 : n \in S => n + 1 \in S
  PROVE  \A n \in 0 .. N : n \in S
<1> DEFINE out == {n \in 0 .. N : n \notin S}
<1> SUFFICES ASSUME out # {}
             PROVE  FALSE
  OBVIOUS
<1>1. out \in SUBSET Nat
  OBVIOUS
<1>2. PICK x \in out : \A y \in out : x <= y
  <2> HIDE DEF out
  <2> QED
    BY <1>1, SmallestOf
<1>3. x # 0 /\ x - 1 \in 0 .. N - 1
  BY <1>2
<1>4. x - 1 \in S
  BY <1>2, <1>3
<1> QED
  BY <1>2, <1>3, <1>4

SumFcn(f, upTo, N) ==
  upTo = [n \in 0 .. N |-> IF n = 0 THEN Nothing ELSE Both(upTo[n - 1], f[n])]

LEMMA SumsExist ==
  ASSUME NEW f, NEW N \in Nat
  PROVE  \E upTo : SumFcn(f, upTo, N)
<1> DEFINE S == {n \in Nat : \E upTo : SumFcn(f, upTo, n)}
<1>1. 0 \in S
  <2>1. SumFcn(f, [n \in 0 .. 0 |-> Nothing], 0)
    BY DEF SumFcn
  <2> QED
    BY <2>1
<1>2. ASSUME NEW n \in Nat, n \in S
      PROVE  n + 1 \in S
  <2>1. PICK g : SumFcn(f, g, n)
    BY <1>2
  <2> DEFINE h == [k \in 0 .. n + 1 |-> IF k = n + 1 THEN Both(g[n], f[n + 1]) ELSE g[k]]
  <2>2. \A k \in 0 .. n : g[k] = IF k = 0 THEN Nothing ELSE Both(g[k - 1], f[k])
    BY <2>1 DEF SumFcn
  <2>3. ASSUME NEW k \in 0 .. n + 1
        PROVE  h[k] = IF k = 0 THEN Nothing ELSE Both(h[k - 1], f[k])
    <3>1. CASE k = n + 1
      <4>1. h[k] = Both(g[n], f[n + 1]) /\ h[k - 1] = g[n]
        BY <3>1
      <4> HIDE DEF h
      <4> QED
        BY <4>1, <3>1
    <3>2. CASE k \in 1 .. n
      <4>1. h[k] = g[k] /\ h[k - 1] = g[k - 1]
        BY <3>2
      <4> HIDE DEF h
      <4> QED
        BY <4>1, <3>2, <2>2
    <3>3. CASE k = 0
      <4>1. h[k] = g[k]
        BY <3>3
      <4> HIDE DEF h
      <4> QED
        BY <4>1, <3>3, <2>2
    <3> QED
      BY <3>1, <3>2, <3>3
  <2>4. SumFcn(f, h, n + 1)
    <3>1. h = [k \in 0 .. n + 1 |-> h[k]]
      OBVIOUS
    <3> HIDE DEF h
    <3> QED
      BY <2>3, <3>1 DEF SumFcn
  <2> QED
    BY <2>4
<1>3. \A n \in 0 .. N : n \in S
  <2> HIDE DEF S
  <2> QED
    BY <1>1, <1>2, FromZeroUp
<1> QED
  BY <1>3

LEMMA SumIsFcn ==
  ASSUME NEW f, NEW N \in Nat
  PROVE  \E upTo : SumFcn(f, upTo, N) /\ SumUpTo(f, N) = upTo[N]
<1> DEFINE upTo == CHOOSE u : u = [n \in 0 .. N |-> IF n = 0 THEN Nothing ELSE Both(u[n - 1], f[n])]
<1>1. upTo = [n \in 0 .. N |-> IF n = 0 THEN Nothing ELSE Both(upTo[n - 1], f[n])]
  <2>1. \E u : u = [n \in 0 .. N |-> IF n = 0 THEN Nothing ELSE Both(u[n - 1], f[n])]
    BY SumsExist DEF SumFcn
  <2> QED
    BY <2>1
<1>2. SumUpTo(f, N) = upTo[N]
  BY DEF SumUpTo
<1> HIDE DEF upTo
<1> QED
  BY <1>1, <1>2 DEF SumFcn

LEMMA SumsAgree ==
  \A M \in Nat : \A N \in M .. M + 1 : \A f, g, u, v :
    (\A n \in 1 .. M : f[n] = g[n]) /\ SumFcn(f, u, M) /\ SumFcn(g, v, N) => u[M] = v[M]
<1> SUFFICES ASSUME NEW M \in Nat, NEW N \in M .. M + 1, NEW f, NEW g, NEW u, NEW v,
                    \A n \in 1 .. M : f[n] = g[n], SumFcn(f, u, M), SumFcn(g, v, N)
             PROVE  u[M] = v[M]
  OBVIOUS
<1> DEFINE S == {n \in 0 .. M : u[n] = v[n]}
<1>1. /\ \A n \in 0 .. M : u[n] = IF n = 0 THEN Nothing ELSE Both(u[n - 1], f[n])
      /\ \A n \in 0 .. N : v[n] = IF n = 0 THEN Nothing ELSE Both(v[n - 1], g[n])
  BY DEF SumFcn
<1>2. 0 \in S
  BY <1>1
<1>3. ASSUME NEW n \in 0 .. M - 1, n \in S
      PROVE  n + 1 \in S
  <2>1. u[n + 1] = Both(u[n], f[n + 1]) /\ v[n + 1] = Both(v[n], g[n + 1])
    BY <1>1
  <2>2. u[n] = v[n] /\ f[n + 1] = g[n + 1]
    BY <1>3
  <2> QED
    BY <2>1, <2>2
<1>4. \A n \in 0 .. M : n \in S
  <2> HIDE DEF S
  <2> QED
    BY <1>2, <1>3, FromZeroUp
<1> QED
  BY <1>4

\* The sum of none, of one more, and of others that are the same.
LEMMA SumOfNone ==
  ASSUME NEW f
  PROVE  SumUpTo(f, 0) = Nothing
<1>1. PICK u : SumFcn(f, u, 0) /\ SumUpTo(f, 0) = u[0]
  BY SumIsFcn
<1> QED
  BY <1>1 DEF SumFcn

LEMMA SumOfMore ==
  ASSUME NEW f, NEW N \in Nat
  PROVE  SumUpTo(f, N + 1) = Both(SumUpTo(f, N), f[N + 1])
<1>1. PICK u : SumFcn(f, u, N) /\ SumUpTo(f, N) = u[N]
  BY SumIsFcn
<1>2. PICK v : SumFcn(f, v, N + 1) /\ SumUpTo(f, N + 1) = v[N + 1]
  BY SumIsFcn
<1>3. u[N] = v[N]
  <2>2. \A a, b, g, h :
            (\A n \in 1 .. N : g[n] = h[n]) /\ SumFcn(g, a, N) /\ SumFcn(h, b, N + 1) => a[N] = b[N]
    <3>1. N + 1 \in N .. N + 1
      OBVIOUS
    <3> QED
      BY <3>1, SumsAgree
  <2>3. \A g, h :
            (\A n \in 1 .. N : g[n] = h[n]) /\ SumFcn(g, u, N) /\ SumFcn(h, v, N + 1) => u[N] = v[N]
    BY <2>2
  <2> QED
    BY <1>1, <1>2, <2>3
<1>4. v[N + 1] = Both(v[N], f[N + 1])
  BY <1>2 DEF SumFcn
<1> QED
  BY <1>1, <1>2, <1>3, <1>4

LEMMA SumOfSame ==
  ASSUME NEW f, NEW g, NEW N \in Nat, \A n \in 1 .. N : f[n] = g[n]
  PROVE  SumUpTo(f, N) = SumUpTo(g, N)
<1>1. PICK u : SumFcn(f, u, N) /\ SumUpTo(f, N) = u[N]
  BY SumIsFcn
<1>2. PICK v : SumFcn(g, v, N) /\ SumUpTo(g, N) = v[N]
  BY SumIsFcn
<1>4. u[N] = v[N]
  <2>2. \A a, b, h, k :
            (\A n \in 1 .. N : h[n] = k[n]) /\ SumFcn(h, a, N) /\ SumFcn(k, b, N) => a[N] = b[N]
    <3>1. N \in N .. N + 1
      OBVIOUS
    <3> QED
      BY <3>1, SumsAgree
  <2>3. \A h, k :
            (\A n \in 1 .. N : h[n] = k[n]) /\ SumFcn(h, u, N) /\ SumFcn(k, v, N) => u[N] = v[N]
    BY <2>2
  <2> QED
    BY <1>1, <1>2, <2>3
<1> QED
  BY <1>1, <1>2, <1>4

LEMMA SumIsSum ==
  ASSUME NEW f, NEW N \in Nat, \A n \in 1 .. N : f[n] \in Sums
  PROVE  SumUpTo(f, N) \in Sums
<1> DEFINE S == {n \in 0 .. N : SumUpTo(f, n) \in Sums}
<1>1. 0 \in S
  BY SumOfNone, NothingIsSum
<1>2. ASSUME NEW n \in 0 .. N - 1, n \in S
      PROVE  n + 1 \in S
  <2>1. SumUpTo(f, n + 1) = Both(SumUpTo(f, n), f[n + 1])
    BY SumOfMore
  <2> QED
    BY <2>1, <1>2, BothIsSum
<1>3. \A n \in 0 .. N : n \in S
  <2> HIDE DEF S
  <2> QED
    BY <1>1, <1>2, FromZeroUp
<1> QED
  BY <1>3

\* What is summed in two parts.
LEMMA SumOfParts ==
  \A M, N \in Nat : \A f, g :
    (\A n \in 1 .. M + N : f[n] \in Sums) /\ (\A n \in 1 .. N : g[n] = f[M + n])
        => SumUpTo(f, M + N) = Both(SumUpTo(f, M), SumUpTo(g, N))
<1> SUFFICES ASSUME NEW M \in Nat, NEW N \in Nat, NEW f, NEW g,
                    \A n \in 1 .. M + N : f[n] \in Sums,
                    \A n \in 1 .. N : g[n] = f[M + n]
             PROVE  SumUpTo(f, M + N) = Both(SumUpTo(f, M), SumUpTo(g, N))
  OBVIOUS
<1> DEFINE S == {n \in 0 .. N : SumUpTo(f, M + n) = Both(SumUpTo(f, M), SumUpTo(g, n))}
<1>0. SumUpTo(f, M) \in Sums
  BY SumIsSum
<1>1. 0 \in S
  BY <1>0, SumOfNone, NothingAdds
<1>2. ASSUME NEW n \in 0 .. N - 1, n \in S
      PROVE  n + 1 \in S
  <2>1. SumUpTo(g, n + 1) = Both(SumUpTo(g, n), g[n + 1])
    BY SumOfMore
  <2>2. SumUpTo(f, (M + n) + 1) = Both(SumUpTo(f, M + n), f[(M + n) + 1])
    BY SumOfMore
  <2>3. g[n + 1] = f[(M + n) + 1] /\ g[n + 1] \in Sums
    BY <1>2
  <2>4. SumUpTo(g, n) \in Sums
    BY SumIsSum
  <2>5. SumUpTo(f, (M + n) + 1) = Both(SumUpTo(f, M), Both(SumUpTo(g, n), g[n + 1]))
    BY <1>0, <1>2, <2>2, <2>3, <2>4, BothAssociates
  <2> QED
    BY <2>1, <2>5
<1>3. \A n \in 0 .. N : n \in S
  <2> HIDE DEF S
  <2> QED
    BY <1>1, <1>2, FromZeroUp
<1> QED
  BY <1>3

-----------------------------------------------------------------------------

LEMMA EntriesAreNumbers ==
  ASSUME NEW c \in Vectors
  PROVE  Get(c).value \in Int /\ Get(c).weight \in Int
<1>1. CASE c \in Cells
  BY <1>1, GetReads, FieldAssumption
<1>2. CASE c \notin Cells
  <2>1. Get(c) = Unknown
    BY <1>2, GetReads
  <2> QED
    BY <2>1 DEF Unknown
<1> QED
  BY <1>1, <1>2

LEMMA BesideIsVector ==
  ASSUME NEW c \in Vectors, NEW a \in Axes, NEW n \in Int
  PROVE  Beside(c, a, n) \in Vectors
<1>1. PICK x \in Int, y \in Int, z \in Int : c = <<x, y, z>>
  BY Coordinates
<1>2. a = 1 \/ a = 2 \/ a = 3
  BY DEF Axes
<1>3. CASE a = 1
  <2>1. Beside(c, a, n) = <<x + n, y, z>>
    BY <1>1, <1>3 DEF Beside
  <2> QED
    BY <2>1, Coordinates
<1>4. CASE a = 2
  <2>1. Beside(c, a, n) = <<x, y + n, z>>
    BY <1>1, <1>4 DEF Beside
  <2> QED
    BY <2>1, Coordinates
<1>5. CASE a = 3
  <2>1. Beside(c, a, n) = <<x, y, z + n>>
    BY <1>1, <1>5 DEF Beside
  <2> QED
    BY <2>1, Coordinates
<1> QED
  BY <1>2, <1>3, <1>4, <1>5

LEMMA GradientIsVector ==
  ASSUME NEW c \in Vectors
  PROVE  Gradient(c) \in Vectors
<1>1. ASSUME NEW a \in Axes
      PROVE  Slope(Get(Beside(c, a, -1)), Get(Beside(c, a, 1))) \in Int
  <2>1. Beside(c, a, -1) \in Vectors /\ Beside(c, a, 1) \in Vectors
    BY BesideIsVector
  <2>2. Get(Beside(c, a, -1)).value \in Int /\ Get(Beside(c, a, 1)).value \in Int
    BY <2>1, EntriesAreNumbers
  <2>3. PICK d \in Int : d = Get(Beside(c, a, 1)).value - Get(Beside(c, a, -1)).value
    BY <2>2
  <2>4. Quot(d, 2) \in Int
    BY QuotIsInt
  <2> QED
    BY <2>3, <2>4 DEF Slope
<1>2. 1 \in Axes /\ 2 \in Axes /\ 3 \in Axes
  BY DEF Axes
<1> QED
  BY <1>1, <1>2, Coordinates DEF Gradient, Three

LEMMA ProductsAreSum ==
  ASSUME NEW jacobi, \A n \in 1 .. 6 : jacobi[n] \in Int, NEW value \in Int
  PROVE  Products(jacobi, value) \in Sums
<1>1. /\ jacobi[1] \in Int /\ jacobi[2] \in Int /\ jacobi[3] \in Int
      /\ jacobi[4] \in Int /\ jacobi[5] \in Int /\ jacobi[6] \in Int
  OBVIOUS
<1> DEFINE row(n) == <<n * jacobi[1], n * jacobi[2], n * jacobi[3],
                       n * jacobi[4], n * jacobi[5], n * jacobi[6]>>
<1>2. ASSUME NEW n \in Int
      PROVE  row(n) \in Rows
  <2>1. /\ n * jacobi[1] \in Int /\ n * jacobi[2] \in Int /\ n * jacobi[3] \in Int
        /\ n * jacobi[4] \in Int /\ n * jacobi[5] \in Int /\ n * jacobi[6] \in Int
    BY <1>1
  <2> QED
    BY <2>1, SixIsRow
<1>3. Products(jacobi, value).h =
        <<row(jacobi[1]), row(jacobi[2]), row(jacobi[3]), row(jacobi[4]), row(jacobi[5]), row(jacobi[6])>>
  BY DEF Products, Square6, Six
<1>4. /\ row(jacobi[1]) \in Rows /\ row(jacobi[2]) \in Rows /\ row(jacobi[3]) \in Rows
      /\ row(jacobi[4]) \in Rows /\ row(jacobi[5]) \in Rows /\ row(jacobi[6]) \in Rows
  BY <1>1, <1>2
<1>5. Products(jacobi, value).h \in [1 .. 6 -> Rows]
  <2> HIDE DEF row
  <2> QED
    BY <1>3, <1>4, SixRows
<1>6. Products(jacobi, value).g \in Rows
  <2>1. Products(jacobi, value).g =
          <<jacobi[1] * value, jacobi[2] * value, jacobi[3] * value,
            jacobi[4] * value, jacobi[5] * value, jacobi[6] * value>>
    BY DEF Products, Six
  <2>2. PICK a \in Int, b \in Int, c \in Int : a = jacobi[1] * value /\ b = jacobi[2] * value /\ c = jacobi[3] * value
    BY <1>1
  <2>3. PICK d \in Int, e \in Int, f \in Int : d = jacobi[4] * value /\ e = jacobi[5] * value /\ f = jacobi[6] * value
    BY <1>1
  <2>4. Products(jacobi, value).g = <<a, b, c, d, e, f>>
    BY <2>1, <2>2, <2>3
  <2>5. <<a, b, c, d, e, f>> \in Rows
    <3>1. a \in Int /\ b \in Int /\ c \in Int /\ d \in Int /\ e \in Int /\ f \in Int
      BY <2>2, <2>3
    <3> HIDE <2>2, <2>3
    <3> QED
      BY <3>1, SixIsRow
  <2> QED
    BY <2>4, <2>5
<1>7. Products(jacobi, value).error \in Int /\ Products(jacobi, value).count \in Int
  <2>1. Products(jacobi, value).error = Magnitude(value) /\ Products(jacobi, value).count = 1
    BY DEF Products
  <2> QED
    BY <2>1 DEF Magnitude
<1>8. \E a, b, c, d : Products(jacobi, value) = [h |-> a, g |-> b, error |-> c, count |-> d]
  BY DEF Products
<1> QED
  BY <1>5, <1>6, <1>7, <1>8 DEF Sums

LEMMA ElementIsIn ==
  ASSUME NEW S, NEW s \in Seq(S)
  PROVE  \A n \in 1 .. Len(s) : s[n] \in S
OBVIOUS

LEMMA SampleIsSum ==
  ASSUME NEW p \in Poses, NEW point \in Vectors
  PROVE  Sample(p, point) \in Sums
<1>1. PICK at : at = KernelPoint(p, point)
  OBVIOUS
<1>2. CellOf(at) \in Vectors
  BY <1>1, PointsAreVectors
<1>3. PICK slope \in Vectors : slope = Gradient(CellOf(at))
  BY <1>2, GradientIsVector
<1>4. PICK value \in Int : value = Get(CellOf(at)).value
  BY <1>2, EntriesAreNumbers
<1>5. at \in Vectors /\ ScanCenter(p) \in Vectors
  BY <1>1, CenterIsVector, PointsAreVectors
<1>6. PICK arm : arm = Less(at, ScanCenter(p))
  OBVIOUS
<1>7. arm \in Vectors
  <2>1. PICK x \in Int, y \in Int, z \in Int : at = <<x, y, z>>
    BY <1>5, Coordinates
  <2>2. PICK u \in Int, v \in Int, w \in Int : ScanCenter(p) = <<u, v, w>>
    BY <1>5, Coordinates
  <2> QED
    BY <1>6, <2>1, <2>2, Coordinates DEF Less
<1>8. PICK x \in Int, y \in Int, z \in Int : arm = <<x, y, z>>
  BY <1>7, Coordinates
<1>9. PICK u \in Int, v \in Int, w \in Int : slope = <<u, v, w>>
  BY <1>3, Coordinates
<1>10. PICK jacobi : jacobi = Cross(arm, slope) \o slope
  OBVIOUS
<1>11. PICK k \in Int, l \in Int, m \in Int : Cross(arm, slope) = <<k, l, m>>
  BY <1>8, <1>9 DEF Cross
<1>12. jacobi = <<k, l, m>> \o <<u, v, w>>
  BY <1>9, <1>10, <1>11
<1>13. \A n \in 1 .. 6 : jacobi[n] \in Int
  <2>1. <<k, l, m>> \in Seq(Int) /\ <<u, v, w>> \in Seq(Int)
    OBVIOUS
  <2>2. Len(<<k, l, m>>) = 3 /\ Len(<<u, v, w>>) = 3
    OBVIOUS
  <2>3. jacobi \in Seq(Int) /\ Len(jacobi) = 6
    BY <1>12, <2>1, <2>2
  <2> QED
    BY <2>3, ElementIsIn
<1>14. Products(jacobi, value) \in Sums
  BY <1>13, ProductsAreSum
<1>15. Sample(p, point) = IF Get(CellOf(at)).weight = 0 THEN Nothing ELSE Products(jacobi, value)
  BY <1>1, <1>3, <1>4, <1>6, <1>10 DEF Sample
<1> QED
  BY <1>14, <1>15, NothingIsSum

LEMMA TimesGrows ==
  ASSUME NEW m \in Nat, NEW n \in Nat, NEW s \in Nat, m <= n
  PROVE  m * s <= n * s
<1>1. PICK d \in Nat : n = m + d
  <2>1. n - m \in Nat /\ n = m + (n - m)
    OBVIOUS
  <2> QED
    BY <2>1
<1>2. n * s = m * s + d * s
  BY <1>1
<1>3. d * s \in Nat /\ m * s \in Nat
  BY <1>1
<1> QED
  BY <1>2, <1>3

\* The samples of a whole cloud, and what a stretch of them adds to those before.
Samples(p) == [n \in 1 .. Len(cloud) |-> Sample(p, cloud[n])]

LEMMA StretchAdds ==
  ASSUME NEW p \in Poses, cloud \in Seq(Vectors),
         NEW offset \in Nat, NEW length \in Nat, offset + length <= Len(cloud)
  PROVE  SumUpTo(Samples(p), offset + length)
            = Both(SumUpTo(Samples(p), offset), RegistrationStep(p, offset, length))
<1>0. PICK f : f = Samples(p)
  OBVIOUS
<1>1. Len(cloud) \in Nat
  OBVIOUS
<1>2. \A n \in 1 .. Len(cloud) : cloud[n] \in Vectors /\ f[n] = Sample(p, cloud[n])
  BY <1>0, <1>1, ElementIsIn DEF Samples
<1>3. \A n \in 1 .. offset + length : f[n] \in Sums
  BY <1>1, <1>2, SampleIsSum
<1>4. PICK g : g = [n \in 1 .. length |-> Sample(p, cloud[offset + n])]
  OBVIOUS
<1>5. \A n \in 1 .. length : g[n] = f[offset + n]
  BY <1>1, <1>2, <1>4
<1>6. SumUpTo(f, offset + length) = Both(SumUpTo(f, offset), SumUpTo(g, length))
  BY <1>3, <1>5, SumOfParts
<1> QED
  BY <1>0, <1>4, <1>6 DEF RegistrationStep

\* Whatever the number of points is by that of the lanes: the lanes end where
\* the next ones begin, and the last one at the end of the cloud.
LEMMA LanesAreOne ==
  ASSUME NEW p \in Poses, cloud \in Seq(Vectors)
  PROVE  RegDataflow(p) = RegistrationStep(p, 0, Len(cloud))
<1>1. PICK N \in Nat : N = Len(cloud)
  OBVIOUS
<1>2. PICK K \in Nat : K = SplitFactor /\ K > 0
  BY KernelAssumption
<1>3. PICK s \in Nat : s = Step /\ K * s <= N
  <2>1. PICK s : s = N \div K
    OBVIOUS
  <2>2. s \in Nat /\ K * s <= N
    BY <1>1, <1>2, <2>1
  <2> QED
    BY <1>1, <1>2, <2>1, <2>2 DEF Step
<1>4. PICK f : f = Samples(p)
  OBVIOUS
<1>5. ASSUME NEW o \in Nat, NEW l \in Nat, o + l <= N
      PROVE  SumUpTo(f, o + l) = Both(SumUpTo(f, o), RegistrationStep(p, o, l))
  BY <1>1, <1>4, <1>5, StretchAdds
<1>6. PICK lanes : lanes = [n \in 1 .. SplitFactor |-> Lane(p, n)]
  OBVIOUS
<1>7. \A n \in 1 .. K : lanes[n] = RegistrationStep(p, (n - 1) * s, IF n = K THEN N - s * (K - 1) ELSE s)
  BY <1>1, <1>2, <1>3, <1>6 DEF Lane, LastStep
<1> DEFINE S == {n \in 0 .. K - 1 : SumUpTo(lanes, n) = SumUpTo(f, n * s)}
<1>8. 0 \in S
  <2>1. 0 * s = 0
    OBVIOUS
  <2> QED
    BY <1>2, <2>1, SumOfNone
<1>9. ASSUME NEW n \in 0 .. (K - 1) - 1, n \in S
      PROVE  n + 1 \in S
  <2>1. n \in Nat /\ n + 1 \in 1 .. K /\ n + 1 # K /\ (n + 1) - 1 = n
    BY <1>2
  <2>2. lanes[n + 1] = RegistrationStep(p, n * s, s)
    BY <1>7, <2>1
  <2>3. PICK o \in Nat : o = n * s
    BY <2>1
  <2>4. (n + 1) * s = o + s /\ (n + 1) * s <= K * s
    BY <1>2, <2>1, <2>3, TimesGrows
  <2>5. o + s <= N
    <3>1. PICK w \in Nat : w = K * s
      BY <1>2
    <3> QED
      BY <1>3, <2>4, <3>1
  <2>6. SumUpTo(f, o + s) = Both(SumUpTo(f, o), RegistrationStep(p, o, s))
    BY <1>5, <2>5
  <2>7. SumUpTo(lanes, n + 1) = Both(SumUpTo(lanes, n), lanes[n + 1])
    BY <2>1, SumOfMore
  <2>8. SumUpTo(lanes, n) = SumUpTo(f, o)
    BY <1>9, <2>3
  <2>9. SumUpTo(lanes, n + 1) = SumUpTo(f, (n + 1) * s)
    BY <2>2, <2>3, <2>4, <2>6, <2>7, <2>8
  <2> QED
    BY <1>2, <2>1, <2>9
<1>10. \A n \in 0 .. K - 1 : n \in S
  <2>1. K - 1 \in Nat
    BY <1>2
  <2> HIDE DEF S
  <2> QED
    BY <1>8, <1>9, <2>1, FromZeroUp
<1>11. PICK o \in Nat : o = (K - 1) * s
  BY <1>2
<1>12. SumUpTo(lanes, K - 1) = SumUpTo(f, o)
  <2>1. K - 1 \in S
    BY <1>2, <1>10
  <2> QED
    BY <1>11, <2>1
<1>13. o + s = K * s /\ s * (K - 1) = o
  BY <1>2, <1>11
<1>14. PICK last \in Nat : last = N - o
  <2>1. o <= N
    BY <1>2, <1>3, <1>13
  <2> QED
    BY <2>1
<1>15. lanes[K] = RegistrationStep(p, o, last)
  BY <1>2, <1>7, <1>11, <1>13, <1>14
<1>16. SumUpTo(f, N) = Both(SumUpTo(f, o), RegistrationStep(p, o, last))
  <2>1. o + last = N /\ o + last <= N
    BY <1>14
  <2>2. SumUpTo(f, o + last) = Both(SumUpTo(f, o), RegistrationStep(p, o, last))
    BY <1>5, <2>1
  <2> QED
    BY <2>1, <2>2
<1>17. SumUpTo(lanes, K) = Both(SumUpTo(lanes, K - 1), lanes[K])
  <2>1. K - 1 \in Nat /\ (K - 1) + 1 = K
    BY <1>2
  <2>2. SumUpTo(lanes, (K - 1) + 1) = Both(SumUpTo(lanes, K - 1), lanes[(K - 1) + 1])
    BY <2>1, SumOfMore
  <2> QED
    BY <2>1, <2>2
<1>18. RegDataflow(p) = SumUpTo(f, N)
  BY <1>2, <1>6, <1>12, <1>15, <1>16, <1>17 DEF RegDataflow
<1>19. RegistrationStep(p, 0, N) = SumUpTo(f, N)
  <2>1. PICK g : g = [n \in 1 .. N |-> Sample(p, cloud[0 + n])]
    OBVIOUS
  <2>2. \A n \in 1 .. N : g[n] = f[n]
    <3> TAKE n \in 1 .. N
    <3>1. 0 + n = n
      OBVIOUS
    <3> QED
      BY <1>1, <1>4, <2>1, <3>1 DEF Samples
  <2>3. SumUpTo(g, N) = SumUpTo(f, N)
    BY <2>2, SumOfSame
  <2> QED
    BY <2>1, <2>3 DEF RegistrationStep
<1> QED
  BY <1>1, <1>18, <1>19

-----------------------------------------------------------------------------
(******************************* the average ******************************)

TotalFcn(f, upTo, N) ==
  upTo = [n \in 0 .. N |-> IF n = 0 THEN 0 ELSE upTo[n - 1] + f[n]]

LEMMA TotalsExist ==
  ASSUME NEW f, NEW N \in Nat
  PROVE  \E upTo : TotalFcn(f, upTo, N)
<1> DEFINE S == {n \in Nat : \E upTo : TotalFcn(f, upTo, n)}
<1>1. 0 \in S
  <2>1. TotalFcn(f, [n \in 0 .. 0 |-> 0], 0)
    BY DEF TotalFcn
  <2> QED
    BY <2>1
<1>2. ASSUME NEW n \in Nat, n \in S
      PROVE  n + 1 \in S
  <2>1. PICK g : TotalFcn(f, g, n)
    BY <1>2
  <2> DEFINE h == [k \in 0 .. n + 1 |-> IF k = n + 1 THEN g[n] + f[n + 1] ELSE g[k]]
  <2>2. \A k \in 0 .. n : g[k] = IF k = 0 THEN 0 ELSE g[k - 1] + f[k]
    BY <2>1 DEF TotalFcn
  <2>3. ASSUME NEW k \in 0 .. n + 1
        PROVE  h[k] = IF k = 0 THEN 0 ELSE h[k - 1] + f[k]
    <3>1. CASE k = n + 1
      <4>1. h[k] = g[n] + f[n + 1] /\ h[k - 1] = g[n]
        BY <3>1
      <4> HIDE DEF h
      <4> QED
        BY <4>1, <3>1
    <3>2. CASE k \in 1 .. n
      <4>1. h[k] = g[k] /\ h[k - 1] = g[k - 1]
        BY <3>2
      <4> HIDE DEF h
      <4> QED
        BY <4>1, <3>2, <2>2
    <3>3. CASE k = 0
      <4>1. h[k] = g[k]
        BY <3>3
      <4> HIDE DEF h
      <4> QED
        BY <4>1, <3>3, <2>2
    <3> QED
      BY <3>1, <3>2, <3>3
  <2>4. TotalFcn(f, h, n + 1)
    <3>1. h = [k \in 0 .. n + 1 |-> h[k]]
      OBVIOUS
    <3> HIDE DEF h
    <3> QED
      BY <2>3, <3>1 DEF TotalFcn
  <2> QED
    BY <2>4
<1>3. \A n \in 0 .. N : n \in S
  <2> HIDE DEF S
  <2> QED
    BY <1>1, <1>2, FromZeroUp
<1> QED
  BY <1>3

LEMMA TotalIsFcn ==
  ASSUME NEW f, NEW N \in Nat
  PROVE  \E upTo : TotalFcn(f, upTo, N) /\ TotalUpTo(f, N) = upTo[N]
<1> DEFINE upTo == CHOOSE u : u = [n \in 0 .. N |-> IF n = 0 THEN 0 ELSE u[n - 1] + f[n]]
<1>1. upTo = [n \in 0 .. N |-> IF n = 0 THEN 0 ELSE upTo[n - 1] + f[n]]
  <2>1. \E u : u = [n \in 0 .. N |-> IF n = 0 THEN 0 ELSE u[n - 1] + f[n]]
    BY TotalsExist DEF TotalFcn
  <2> QED
    BY <2>1
<1>2. TotalUpTo(f, N) = upTo[N]
  BY DEF TotalUpTo
<1> HIDE DEF upTo
<1> QED
  BY <1>1, <1>2 DEF TotalFcn

LEMMA QuotientIsBetween ==
  ASSUME NEW s \in Int, NEW c \in Nat \ {0}, NEW lo \in Int, NEW hi \in Int,
         lo * c <= s, s <= hi * c
  PROVE  lo <= s \div c /\ s \div c <= hi
<1>1. PICK q \in Int, r \in 0 .. c - 1 : q = s \div c /\ s = q * c + r
  <2>1. s = c * (s \div c) + (s % c) /\ s \div c \in Int /\ (s % c) \in 0 .. c - 1
    OBVIOUS
  <2>2. PICK q \in Int : q = s \div c
    BY <2>1
  <2>3. c * q = q * c
    OBVIOUS
  <2> QED
    BY <2>1, <2>2, <2>3
<1>2. \A x, y \in Int : x < y => (x + 1) * c <= y * c /\ (x + 1) * c = x * c + c /\ x * c \in Int /\ y * c \in Int
  OBVIOUS
<1>3. q * c \in Int /\ lo * c \in Int /\ hi * c \in Int
  OBVIOUS
<1>4. ~(q < lo)
  <2> SUFFICES ASSUME q < lo
               PROVE  FALSE
    OBVIOUS
  <2>1. q * c + c <= lo * c
    BY <1>2
  <2> QED
    BY <1>1, <1>3, <2>1
<1>5. ~(hi < q)
  <2> SUFFICES ASSUME hi < q
               PROVE  FALSE
    OBVIOUS
  <2>1. hi * c + c <= q * c
    BY <1>2
  <2> QED
    BY <1>1, <1>3, <2>1
<1> QED
  BY <1>1, <1>4, <1>5

\* C's quotient is between what the whole is between, on both sides of 0.
LEMMA QuotIsBetween ==
  ASSUME NEW s \in Int, NEW c \in Nat \ {0}, NEW lo \in Int, NEW hi \in Int,
         lo * c <= s, s <= hi * c
  PROVE  Quot(s, c) \in Int /\ lo <= Quot(s, c) /\ Quot(s, c) <= hi
<1>1. s \div c \in Int /\ (0 - s) \div c \in Int
  OBVIOUS
<1>2. CASE s >= 0
  BY <1>1, <1>2, QuotientIsBetween DEF Quot
<1>3. CASE s < 0
  <2>1. PICK t \in Int, l \in Int, h \in Int : t = 0 - s /\ l = 0 - hi /\ h = 0 - lo
    OBVIOUS
  <2>2. l * c <= t /\ t <= h * c
    <3>1. l * c = 0 - hi * c /\ h * c = 0 - lo * c /\ hi * c \in Int /\ lo * c \in Int
      BY <2>1
    <3> QED
      BY <2>1, <3>1
  <2>3. l <= t \div c /\ t \div c <= h
    BY <2>2, QuotientIsBetween
  <2>4. PICK q \in Int : q = t \div c
    OBVIOUS
  <2>5. Quot(s, c) = 0 - q
    BY <1>3, <2>1, <2>4 DEF Quot
  <2> QED
    BY <2>1, <2>3, <2>4, <2>5
<1> QED
  BY <1>2, <1>3

\* The sum of some numbers of the turns is between as many of the bounds.
LEMMA TotalIsBetween ==
  ASSUME NEW N \in Nat, NEW here \in SUBSET (1 .. N), NEW x, NEW lo \in Int, NEW hi \in Int,
         \A n \in here : x[n] \in lo .. hi
  PROVE  LET total == TotalUpTo([n \in 1 .. N |-> IF n \in here THEN x[n] ELSE 0], N)
         IN  /\ total \in Int /\ Cardinality(here) \in Nat
             /\ lo * Cardinality(here) <= total
             /\ total <= hi * Cardinality(here)
<1>1. PICK f : f = [n \in 1 .. N |-> IF n \in here THEN x[n] ELSE 0]
  OBVIOUS
<1>2. PICK u : TotalFcn(f, u, N) /\ TotalUpTo(f, N) = u[N]
  BY TotalIsFcn
<1>3. PICK c : c = [n \in 0 .. N |-> Cardinality(here \cap 1 .. n)]
  OBVIOUS
<1>4. ASSUME NEW n \in 0 .. N
      PROVE  IsFiniteSet(here \cap 1 .. n) /\ c[n] \in Nat
  <2>1. IsFiniteSet(1 .. n) /\ here \cap (1 .. n) \in SUBSET (1 .. n)
    BY FS_Interval
  <2>2. IsFiniteSet(here \cap 1 .. n)
    BY <2>1, FS_Subset
  <2> QED
    BY <1>3, <2>2, FS_CardinalityType
<1> DEFINE S == {n \in 0 .. N : u[n] \in Int /\ lo * c[n] <= u[n] /\ u[n] <= hi * c[n]}
<1>5. 0 \in S
  <2>1. u[0] = 0
    BY <1>2 DEF TotalFcn
  <2>2. here \cap 1 .. 0 = {}
    OBVIOUS
  <2>3. c[0] = 0
    BY <1>3, <2>2, FS_EmptySet
  <2>4. lo * 0 = 0 /\ hi * 0 = 0
    OBVIOUS
  <2> QED
    BY <2>1, <2>3, <2>4
<1>6. ASSUME NEW n \in 0 .. N - 1, n \in S
      PROVE  n + 1 \in S
  <2>1. u[n + 1] = u[n] + f[n + 1]
    BY <1>2 DEF TotalFcn
  <2>0. n \in 0 .. N /\ n + 1 \in 0 .. N
    OBVIOUS
  <2>2. PICK k \in Nat : k = c[n]
    BY <1>4, <2>0
  <2>3. PICK t \in Int : t = u[n] /\ lo * k <= t /\ t <= hi * k
    BY <1>6, <2>2
  <2>4. lo * (k + 1) = lo * k + lo /\ hi * (k + 1) = hi * k + hi /\ lo * k \in Int /\ hi * k \in Int
    OBVIOUS
  <2>5. CASE n + 1 \in here
    <3>1. here \cap 1 .. (n + 1) = (here \cap 1 .. n) \cup {n + 1} /\ n + 1 \notin here \cap 1 .. n
      BY <2>5
    <3>2. c[n + 1] = k + 1
      <4>1. PICK T : T = here \cap 1 .. n
        OBVIOUS
      <4>2. IsFiniteSet(T) /\ Cardinality(T) = k /\ n + 1 \notin T
        BY <1>3, <1>4, <2>0, <2>2, <3>1, <4>1
      <4>3. Cardinality(T \cup {n + 1}) = k + 1
        BY <4>2, FS_AddElement
      <4>4. c[n + 1] = Cardinality(T \cup {n + 1})
        BY <1>3, <2>0, <3>1, <4>1
      <4> QED
        BY <4>3, <4>4
    <3>3. PICK y \in lo .. hi : y = x[n + 1]
      BY <2>5
    <3>4. u[n + 1] = t + y
      BY <1>1, <2>1, <2>3, <2>5, <3>3
    <3> QED
      BY <2>3, <2>4, <3>2, <3>3, <3>4
  <2>6. CASE n + 1 \notin here
    <3>1. here \cap 1 .. (n + 1) = here \cap 1 .. n
      BY <2>6
    <3>2. c[n + 1] = Cardinality(here \cap 1 .. n) /\ c[n] = Cardinality(here \cap 1 .. n)
      BY <1>3, <2>0, <3>1
    <3>3. u[n + 1] = t
      BY <1>1, <2>1, <2>3, <2>6
    <3> QED
      BY <2>2, <2>3, <3>2, <3>3
  <2> QED
    BY <2>5, <2>6
<1>7. N \in S
  <2> HIDE DEF S
  <2> QED
    BY <1>5, <1>6, FromZeroUp
<1>8. c[N] = Cardinality(here)
  <2>1. here \cap 1 .. N = here
    OBVIOUS
  <2> QED
    BY <1>3, <2>1
<1> QED
  BY <1>1, <1>2, <1>4, <1>7, <1>8

\* The average of the points of a voxel lies in it.
LEMMA AverageIsIn ==
  ASSUME NEW points \in Seq(Vectors), NEW v \in Voxels(Passing(points))
  PROVE  Voxel(Average(points, v)) = v
<1>1. PICK p \in Passing(points) : v = Voxel(p)
  BY DEF Voxels
<1>2. p \in Vectors /\ v \in [Axes -> Int]
  BY <1>1, PassingAreVectors, VoxelHolds
<1>3. PICK N \in Nat : N = Len(points) /\ DOMAIN points = 1 .. N
  OBVIOUS
<1>4. PICK here : here = InVoxel(points, v)
  OBVIOUS
<1>5. here \in SUBSET (1 .. N)
  BY <1>3, <1>4 DEF InVoxel
<1>6. PICK count \in Nat \ {0} : count = Cardinality(here)
  <2>1. IsFiniteSet(here)
    <3>1. IsFiniteSet(1 .. N)
      BY FS_Interval
    <3> QED
      BY <1>5, <3>1, FS_Subset
  <2>2. here # {}
    BY <1>1, <1>4 DEF InVoxel, Passing, ToSet
  <2> QED
    BY <2>1, <2>2, FS_EmptySet, FS_CardinalityType
<1>7. PICK m \in Nat \ {0} : m = MapResolution
  BY ScanAssumption
<1> DEFINE mean(a) == Quot(TotalUpTo([n \in DOMAIN points |-> IF n \in here THEN points[n][a] ELSE 0], N), count)
<1>8. ASSUME NEW a \in Axes
      PROVE  mean(a) \in Int /\ v[a] * m <= mean(a) /\ mean(a) < v[a] * m + m
  <2>1. PICK lo \in Int : lo = v[a] * m
    <3>1. v[a] \in Int
      BY <1>2
    <3> QED
      BY <3>1
  <2>2. PICK hi \in Int : hi = lo + m - 1
    OBVIOUS
  <2>3. PICK x : x = [n \in 1 .. N |-> points[n][a]]
    OBVIOUS
  <2>4. \A n \in here : x[n] \in lo .. hi
    <3> TAKE n \in here
    <3>1. n \in 1 .. N /\ Voxel(points[n]) = v /\ points[n] \in Vectors
      BY <1>3, <1>4, <1>5 DEF InVoxel
    <3>2. IsIn(points[n], v)
      BY <3>1, VoxelHolds
    <3>3. PICK y \in Int : y = points[n][a]
      BY <3>1, AxisIsInt
    <3>4. lo <= y /\ y < lo + m
      BY <1>7, <2>1, <3>2, <3>3 DEF IsIn
    <3> QED
      BY <2>2, <2>3, <3>1, <3>3, <3>4
  <2>5. PICK f : f = [n \in 1 .. N |-> IF n \in here THEN x[n] ELSE 0]
    OBVIOUS
  <2>6. PICK total : total = TotalUpTo(f, N)
    OBVIOUS
  <2>7. total \in Int /\ lo * count <= total /\ total <= hi * count
    BY <1>5, <1>6, <2>4, <2>5, <2>6, TotalIsBetween
  <2>8. f = [n \in DOMAIN points |-> IF n \in here THEN points[n][a] ELSE 0]
    BY <1>3, <2>3, <2>5
  <2>9. mean(a) = Quot(total, count)
    BY <2>6, <2>8
  <2>10. PICK q : q = Quot(total, count)
    OBVIOUS
  <2>11. q \in Int /\ lo <= q /\ q <= hi
    BY <2>7, <2>10, QuotIsBetween
  <2> HIDE DEF mean
  <2> QED
    BY <2>1, <2>2, <2>9, <2>10, <2>11
<1>9. Average(points, v) = <<mean(1), mean(2), mean(3)>>
  BY <1>3, <1>4, <1>6 DEF Average
<1>10. PICK q : q = Average(points, v)
  OBVIOUS
<1> HIDE DEF mean
<1>11. q = <<mean(1), mean(2), mean(3)>> /\ q \in Vectors
  <2>1. mean(1) \in Int /\ mean(2) \in Int /\ mean(3) \in Int
    BY <1>8 DEF Axes
  <2> QED
    BY <1>9, <1>10, <2>1, Coordinates
<1>12. IsIn(q, v)
  <2>1. \A a \in Axes : q[a] = mean(a)
    BY <1>11 DEF Axes
  <2> QED
    BY <1>7, <1>8, <2>1 DEF IsIn
<1> QED
  BY <1>2, <1>10, <1>11, <1>12, VoxelIsOne

-----------------------------------------------------------------------------
(******************************** the solver *******************************)

\* The same number modulo Prime
Same(a, b) == \E d \in Int : a - b = d * Prime

LEMMA SameAsRemainder ==
  ASSUME NEW a \in Int, NEW b \in Int
  PROVE  /\ Same(a % Prime, a) /\ a % Prime \in 0 .. Prime - 1
         /\ Same(a, b) => a % Prime = b % Prime
<1>1. PICK p \in Nat \ {0} : p = Prime
  BY PrimeAssumption
<1>2. PICK d \in Int, r \in 0 .. p - 1 : r = a % p /\ a = d * p + r
  BY HasRemainder
<1>3. Same(a % Prime, a)
  <2>1. d * p \in Int /\ (-d) * p = -(d * p)
    OBVIOUS
  <2>2. r - a = (-d) * p
    BY <1>2, <2>1
  <2>3. Same(r, a)
    BY <1>1, <2>2 DEF Same
  <2> QED
    BY <1>1, <1>2, <2>3
<1>4. ASSUME Same(a, b)
      PROVE  a % p = b % p
  <2>1. PICK e \in Int : a - b = e * p
    BY <1>1, <1>4 DEF Same
  <2>2. PICK f \in Int, s \in 0 .. p - 1 : s = b % p /\ b = f * p + s
    BY HasRemainder
  <2>3. PICK u \in Int, v \in Int : u = e * p /\ v = f * p /\ (e + f) * p = u + v
    OBVIOUS
  <2>4. a = (e + f) * p + s
    BY <2>1, <2>2, <2>3
  <2>5. ((e + f) * p + s) % p = s
    BY RemainderIs
  <2> QED
    BY <2>2, <2>4, <2>5
<1> QED
  BY <1>1, <1>2, <1>3, <1>4

LEMMA SameIsSame ==
  ASSUME NEW a \in Int, NEW b \in Int, NEW c \in Int
  PROVE  Same(a, a) /\ (Same(a, b) => Same(b, a)) /\ (Same(a, b) /\ Same(b, c) => Same(a, c))
<1>1. PICK p \in Int : p = Prime
  BY PrimeAssumption
<1>2. Same(a, a)
  <2>1. a - a = 0 * p
    OBVIOUS
  <2> QED
    BY <1>1, <2>1 DEF Same
<1>3. ASSUME Same(a, b)
      PROVE  Same(b, a)
  <2>1. PICK d \in Int : a - b = d * p
    BY <1>1, <1>3 DEF Same
  <2>2. (-d) * p = -(d * p) /\ d * p \in Int
    OBVIOUS
  <2>3. b - a = (-d) * p
    BY <2>1, <2>2
  <2> QED
    BY <1>1, <2>3 DEF Same
<1>4. ASSUME Same(a, b), Same(b, c)
      PROVE  Same(a, c)
  <2>1. PICK d \in Int, e \in Int : a - b = d * p /\ b - c = e * p
    BY <1>1, <1>4 DEF Same
  <2>2. (d + e) * p = d * p + e * p /\ d * p \in Int /\ e * p \in Int
    OBVIOUS
  <2>3. a - c = (d + e) * p
    BY <2>1, <2>2
  <2> QED
    BY <1>1, <2>3 DEF Same
<1> QED
  BY <1>2, <1>3, <1>4

LEMMA SameSums ==
  ASSUME NEW a \in Int, NEW b \in Int, NEW c \in Int, NEW d \in Int, Same(a, b), Same(c, d)
  PROVE  Same(a + c, b + d) /\ Same(a - c, b - d)
<1>1. PICK p \in Int : p = Prime
  BY PrimeAssumption
<1>2. PICK e \in Int, f \in Int : a - b = e * p /\ c - d = f * p
  BY <1>1 DEF Same
<1>3. /\ (e + f) * p = e * p + f * p /\ (e - f) * p = e * p - f * p
      /\ e * p \in Int /\ f * p \in Int
  OBVIOUS
<1>4. (a + c) - (b + d) = (e + f) * p /\ (a - c) - (b - d) = (e - f) * p
  BY <1>2, <1>3
<1>5. e + f \in Int /\ e - f \in Int
  OBVIOUS
<1> QED
  BY <1>1, <1>4, <1>5, Zenon DEF Same

LEMMA SameProducts ==
  ASSUME NEW a \in Int, NEW b \in Int, NEW c \in Int, Same(a, b)
  PROVE  Same(a * c, b * c)
<1>1. PICK p \in Int : p = Prime
  BY PrimeAssumption
<1>2. PICK e \in Int : a - b = e * p
  BY <1>1 DEF Same
<1>3. a * c - b * c = (a - b) * c
  OBVIOUS
<1>4. (e * p) * c = (e * c) * p /\ e * c \in Int
  OBVIOUS
<1>5. a * c - b * c = (e * c) * p
  BY <1>2, <1>3, <1>4
<1> QED
  BY <1>1, <1>4, <1>5 DEF Same

LEMMA OverIsProduct ==
  ASSUME NEW a, NEW b
  PROVE  Over(a, b) =
           (a * (IF b = 0 THEN 0 ELSE CHOOSE n \in 1 .. Prime - 1 : (b * n) % Prime = 1)) % Prime
BY Zenon DEF Over

LEMMA OverMultiplies ==
  ASSUME NEW a, NEW b
  PROVE  \E n : /\ n = (IF b = 0 THEN 0 ELSE CHOOSE m \in 1 .. Prime - 1 : (b * m) % Prime = 1)
                /\ Over(a, b) = (a * n) % Prime
BY OverIsProduct

\* The quotient is one.
LEMMA OverIsQuotient ==
  ASSUME NEW a \in Int, NEW b \in 0 .. Prime - 1
  PROVE  Over(a, b) \in 0 .. Prime - 1 /\ (b # 0 => Same(Over(a, b) * b, a))
<1>1. PICK p \in Nat \ {0} : p = Prime
  BY PrimeAssumption
<1>2. PICK n : /\ n = (IF b = 0 THEN 0 ELSE CHOOSE m \in 1 .. Prime - 1 : (b * m) % Prime = 1)
               /\ Over(a, b) = (a * n) % Prime
  BY OverMultiplies
<1>3. n \in Int /\ (b # 0 => (b * n) % p = 1)
  <2>1. CASE b = 0
    BY <1>2, <2>1
  <2>2. CASE b # 0
    <3>1. b \in 1 .. Prime - 1
      BY <2>2, <1>1
    <3>2. \E m \in 1 .. Prime - 1 : (b * m) % Prime = 1
      BY <3>1, PrimeAssumption
    <3>3. n \in 1 .. Prime - 1 /\ (b * n) % Prime = 1
      BY <1>2, <2>2, <3>2
    <3> QED
      BY <1>1, <3>3
  <2> QED
    BY <2>1, <2>2
<1>4. PICK m \in Int : m = n /\ Over(a, b) = (a * m) % Prime
  BY <1>2, <1>3
<1>5. PICK q \in Int : q = a * m
  OBVIOUS
<1>6. q % Prime \in 0 .. Prime - 1 /\ Same(q % Prime, q)
  BY SameAsRemainder
<1>7. PICK o \in Int : o = Over(a, b) /\ Same(o, q)
  BY <1>1, <1>4, <1>5, <1>6
<1>8. ASSUME b # 0
      PROVE  Same(o * b, a)
  <2>1. PICK c \in Int : c = b /\ c * m \in Int /\ (c * m) % p = 1
    BY <1>1, <1>3, <1>4, <1>8
  <2>7. PICK u \in Int : u = c * m /\ u % p = 1
    BY <2>1
  <2>8. PICK v \in Int : v = 1
    OBVIOUS
  <2>2. Same(v, u)
    <3>1. Same(u % Prime, u)
      BY SameAsRemainder
    <3> QED
      BY <1>1, <2>7, <2>8, <3>1
  <2>3. Same(v * a, u * a)
    BY <2>2, SameProducts
  <2>4. Same(o * c, q * c)
    BY <1>7, <2>1, SameProducts
  <2>5. v * a = a /\ u * a = q * c /\ q * c \in Int /\ o * c \in Int
    BY <1>5, <2>7, <2>8
  <2>6. Same(a, q * c)
    BY <2>3, <2>5
  <2> QED
    BY <2>1, <2>4, <2>5, <2>6, SameIsSame
<1> QED
  BY <1>4, <1>5, <1>6, <1>7, <1>8

\* The sum of six numbers
SixOf(u) == u[1] + u[2] + u[3] + u[4] + u[5] + u[6]
Terms(B, r, ks, x) == [k \in 1 .. 6 |-> IF k \in ks THEN B[r][k] * x[k] ELSE 0]

LEMMA RowHasSix ==
  ASSUME NEW u \in Rows
  PROVE  /\ u[1] \in Int /\ u[2] \in Int /\ u[3] \in Int
         /\ u[4] \in Int /\ u[5] \in Int /\ u[6] \in Int
BY DEF Rows

LEMMA SixOfRow ==
  ASSUME NEW u \in Rows
  PROVE  SixOf(u) \in Int
BY DEF SixOf, Rows

LEMMA PartIsSum ==
  ASSUME NEW B \in [1 .. 6 -> Rows], NEW r \in 1 .. 6, NEW ks, NEW x \in Rows
  PROVE  /\ Part(B, r, ks, x) = SixOf(Terms(B, r, ks, x)) /\ Terms(B, r, ks, x) \in Rows
         /\ Part(B, r, ks, x) \in Int
<1>1. \A k \in 1 .. 6 : B[r][k] \in Int /\ x[k] \in Int /\ B[r][k] * x[k] \in Int
  BY DEF Rows
<1>2. Terms(B, r, ks, x) \in Rows
  BY <1>1 DEF Terms, Rows
<1>3. Part(B, r, ks, x) = SixOf(Terms(B, r, ks, x))
  BY DEF Part, SumOfSix, SixOf, Terms
<1> QED
  BY <1>2, <1>3, SixOfRow

LEMMA SameRows ==
  ASSUME NEW u \in Rows, NEW v \in Rows, \A c \in 1 .. 6 : Same(u[c], v[c])
  PROVE  Same(SixOf(u), SixOf(v))
<1>1. /\ u[1] \in Int /\ u[2] \in Int /\ u[3] \in Int
      /\ u[4] \in Int /\ u[5] \in Int /\ u[6] \in Int
      /\ v[1] \in Int /\ v[2] \in Int /\ v[3] \in Int
      /\ v[4] \in Int /\ v[5] \in Int /\ v[6] \in Int
  BY RowHasSix
<1>2. PICK a1 \in Int, a2 \in Int, a3 \in Int, a4 \in Int, a5 \in Int, a6 \in Int :
        a1 = u[1] /\ a2 = u[2] /\ a3 = u[3] /\ a4 = u[4] /\ a5 = u[5] /\ a6 = u[6]
  BY <1>1
<1>3. PICK b1 \in Int, b2 \in Int, b3 \in Int, b4 \in Int, b5 \in Int, b6 \in Int :
        b1 = v[1] /\ b2 = v[2] /\ b3 = v[3] /\ b4 = v[4] /\ b5 = v[5] /\ b6 = v[6]
  BY <1>1
<1>4. /\ Same(a1, b1) /\ Same(a2, b2) /\ Same(a3, b3) /\ Same(a4, b4) /\ Same(a5, b5)
      /\ Same(a6, b6)
  BY <1>2, <1>3
<1>5. Same(a1 + a2, b1 + b2)
  BY <1>4, SameSums
<1>6. Same(a1 + a2 + a3, b1 + b2 + b3)
  <2>1. PICK a \in Int, b \in Int : a = a1 + a2 /\ b = b1 + b2
    OBVIOUS
  <2> QED
    BY <1>4, <1>5, <2>1, SameSums
<1>7. Same(a1 + a2 + a3 + a4, b1 + b2 + b3 + b4)
  <2>1. PICK a \in Int, b \in Int : a = a1 + a2 + a3 /\ b = b1 + b2 + b3
    OBVIOUS
  <2> QED
    BY <1>4, <1>6, <2>1, SameSums
<1>8. Same(a1 + a2 + a3 + a4 + a5, b1 + b2 + b3 + b4 + b5)
  <2>1. PICK a \in Int, b \in Int : a = a1 + a2 + a3 + a4 /\ b = b1 + b2 + b3 + b4
    OBVIOUS
  <2> QED
    BY <1>4, <1>7, <2>1, SameSums
<1>9. Same(a1 + a2 + a3 + a4 + a5 + a6, b1 + b2 + b3 + b4 + b5 + b6)
  <2>1. PICK a \in Int, b \in Int : a = a1 + a2 + a3 + a4 + a5 /\ b = b1 + b2 + b3 + b4 + b5
    OBVIOUS
  <2> QED
    BY <1>4, <1>8, <2>1, SameSums
<1>10. SixOf(u) = a1 + a2 + a3 + a4 + a5 + a6 /\ SixOf(v) = b1 + b2 + b3 + b4 + b5 + b6
  BY <1>2, <1>3 DEF SixOf
<1> QED
  BY <1>9, <1>10

LEMMA SixDistributes ==
  ASSUME NEW u \in Rows, NEW v \in Rows, NEW f \in Int
  PROVE  /\ [c \in 1 .. 6 |-> u[c] + f * v[c]] \in Rows
         /\ SixOf([c \in 1 .. 6 |-> u[c] + f * v[c]]) = SixOf(u) + f * SixOf(v)
<1>1. /\ u[1] \in Int /\ u[2] \in Int /\ u[3] \in Int
      /\ u[4] \in Int /\ u[5] \in Int /\ u[6] \in Int
      /\ v[1] \in Int /\ v[2] \in Int /\ v[3] \in Int
      /\ v[4] \in Int /\ v[5] \in Int /\ v[6] \in Int
  BY RowHasSix
<1>2. PICK a1 \in Int, a2 \in Int, a3 \in Int, a4 \in Int, a5 \in Int, a6 \in Int :
        a1 = u[1] /\ a2 = u[2] /\ a3 = u[3] /\ a4 = u[4] /\ a5 = u[5] /\ a6 = u[6]
  BY <1>1
<1>3. PICK b1 \in Int, b2 \in Int, b3 \in Int, b4 \in Int, b5 \in Int, b6 \in Int :
        b1 = v[1] /\ b2 = v[2] /\ b3 = v[3] /\ b4 = v[4] /\ b5 = v[5] /\ b6 = v[6]
  BY <1>1
<1>4. PICK w : w = [c \in 1 .. 6 |-> u[c] + f * v[c]]
  OBVIOUS
<1>5. w \in Rows
  <2>1. \A c \in 1 .. 6 : u[c] + f * v[c] \in Int
    BY DEF Rows
  <2> QED
    BY <1>4, <2>1 DEF Rows
<1>6. /\ w[1] = a1 + f * b1 /\ w[2] = a2 + f * b2 /\ w[3] = a3 + f * b3
      /\ w[4] = a4 + f * b4 /\ w[5] = a5 + f * b5 /\ w[6] = a6 + f * b6
  BY <1>2, <1>3, <1>4
<1>7. SixOf(w) = (a1 + a2 + a3 + a4 + a5 + a6) + (f * b1 + f * b2 + f * b3 + f * b4 + f * b5 + f * b6)
  <2>1. PICK c1 \in Int, c2 \in Int, c3 \in Int, c4 \in Int, c5 \in Int, c6 \in Int :
          /\ c1 = f * b1 /\ c2 = f * b2 /\ c3 = f * b3
          /\ c4 = f * b4 /\ c5 = f * b5 /\ c6 = f * b6
    OBVIOUS
  <2>2. /\ w[1] = a1 + c1 /\ w[2] = a2 + c2 /\ w[3] = a3 + c3
        /\ w[4] = a4 + c4 /\ w[5] = a5 + c5 /\ w[6] = a6 + c6
    BY <1>6, <2>1
  <2>3. SixOf(w) = (a1 + a2 + a3 + a4 + a5 + a6) + (c1 + c2 + c3 + c4 + c5 + c6)
    BY <2>2 DEF SixOf
  <2> QED
    BY <2>1, <2>3
<1>8. f * (b1 + b2 + b3 + b4 + b5 + b6) = f * b1 + f * b2 + f * b3 + f * b4 + f * b5 + f * b6
  OBVIOUS
<1>9. SixOf(u) = a1 + a2 + a3 + a4 + a5 + a6 /\ SixOf(v) = b1 + b2 + b3 + b4 + b5 + b6
  BY <1>2, <1>3 DEF SixOf
<1> QED
  BY <1>4, <1>5, <1>7, <1>8, <1>9

\* The matrices and vectors of the solver
Residues == 0 .. Prime - 1
Line     == [1 .. 6 -> Residues]
Matrices == [1 .. 6 -> Line]

LEMMA LinesAreRows == Line \subseteq Rows /\ Matrices \subseteq [1 .. 6 -> Rows] /\ Residues \subseteq Int
<1>1. Residues \subseteq Int
  BY PrimeAssumption DEF Residues
<1>2. Line \subseteq Rows
  BY <1>1 DEF Line, Rows
<1> QED
  BY <1>1, <1>2 DEF Matrices

\* A turn of the decomposition: where it leaves the matrix alone, and what it
\* makes of the rest
TurnDone(B, C, m) ==
  /\ \A r, c \in 1 .. 6 : r <= m \/ c < m => C[r][c] = B[r][c]
  /\ \A r \in 1 .. 6 : r > m /\ B[m][m] # 0 => Same(C[r][m] * B[m][m], B[r][m])
  /\ \A r, c \in 1 .. 6 : r > m /\ c > m => Same(C[r][c], B[r][c] - C[r][m] * B[m][c])

LEMMA OneToSix ==
  ASSUME NEW n \in 1 .. 6
  PROVE  n = 1 \/ n = 2 \/ n = 3 \/ n = 4 \/ n = 5 \/ n = 6
OBVIOUS

LEMMA SixIsLine ==
  ASSUME NEW a \in Residues, NEW b \in Residues, NEW c \in Residues,
         NEW d \in Residues, NEW e \in Residues, NEW f \in Residues
  PROVE  <<a, b, c, d, e, f>> \in Line
BY DEF Line

LEMMA SixLines ==
  ASSUME NEW a \in Line, NEW b \in Line, NEW c \in Line, NEW d \in Line, NEW e \in Line, NEW f \in Line
  PROVE  <<a, b, c, d, e, f>> \in Matrices
BY DEF Matrices

\* What a turn makes of an entry, and its rows and the matrix by entry
EntryAfter(B, L, m, r, c) ==
  IF r <= m \/ c < m THEN B[r][c]
  ELSE IF c = m THEN L[r] ELSE (B[r][c] - L[r] * B[m][c]) % Prime
LineAfter(B, L, m, r) ==
  <<EntryAfter(B, L, m, r, 1), EntryAfter(B, L, m, r, 2), EntryAfter(B, L, m, r, 3),
    EntryAfter(B, L, m, r, 4), EntryAfter(B, L, m, r, 5), EntryAfter(B, L, m, r, 6)>>

LEMMA EliminatedHasLines ==
  ASSUME NEW B, NEW L, NEW m
  PROVE  Eliminated(B, L, m) =
           <<LineAfter(B, L, m, 1), LineAfter(B, L, m, 2), LineAfter(B, L, m, 3),
             LineAfter(B, L, m, 4), LineAfter(B, L, m, 5), LineAfter(B, L, m, 6)>>
BY DEF Eliminated, Square6, Six, LineAfter, EntryAfter

LEMMA EliminatedByEntry ==
  ASSUME NEW B, NEW L, NEW m, \A r, c \in 1 .. 6 : EntryAfter(B, L, m, r, c) \in Residues
  PROVE  /\ Eliminated(B, L, m) \in Matrices
         /\ \A r, c \in 1 .. 6 : Eliminated(B, L, m)[r][c] = EntryAfter(B, L, m, r, c)
<1>1. /\ 1 \in 1 .. 6 /\ 2 \in 1 .. 6 /\ 3 \in 1 .. 6
      /\ 4 \in 1 .. 6 /\ 5 \in 1 .. 6 /\ 6 \in 1 .. 6
  BY SMT
<1>2. ASSUME NEW r \in 1 .. 6
      PROVE  /\ LineAfter(B, L, m, r) \in Line
             /\ \A c \in 1 .. 6 : LineAfter(B, L, m, r)[c] = EntryAfter(B, L, m, r, c)
  <2>1. PICK a, b, c, d, e, f : /\ a = EntryAfter(B, L, m, r, 1) /\ b = EntryAfter(B, L, m, r, 2)
                                /\ c = EntryAfter(B, L, m, r, 3) /\ d = EntryAfter(B, L, m, r, 4)
                                /\ e = EntryAfter(B, L, m, r, 5) /\ f = EntryAfter(B, L, m, r, 6)
    OBVIOUS
  <2>2. /\ a \in Residues /\ b \in Residues /\ c \in Residues
        /\ d \in Residues /\ e \in Residues /\ f \in Residues
    BY <1>1, <2>1
  <2>3. LineAfter(B, L, m, r) = <<a, b, c, d, e, f>>
    BY <2>1 DEF LineAfter
  <2>4. <<a, b, c, d, e, f>> \in Line
    BY <2>2, SixIsLine
  <2>5. ASSUME NEW k \in 1 .. 6
        PROVE  <<a, b, c, d, e, f>>[k] = EntryAfter(B, L, m, r, k)
    BY <2>1, OneToSix
  <2> QED
    BY <2>3, <2>4, <2>5
<1>3. PICK r1, r2, r3, r4, r5, r6 : /\ r1 = LineAfter(B, L, m, 1) /\ r2 = LineAfter(B, L, m, 2)
                                    /\ r3 = LineAfter(B, L, m, 3) /\ r4 = LineAfter(B, L, m, 4)
                                    /\ r5 = LineAfter(B, L, m, 5) /\ r6 = LineAfter(B, L, m, 6)
  OBVIOUS
<1>4. r1 \in Line /\ r2 \in Line /\ r3 \in Line /\ r4 \in Line /\ r5 \in Line /\ r6 \in Line
  BY <1>1, <1>2, <1>3
<1>5. Eliminated(B, L, m) = <<r1, r2, r3, r4, r5, r6>>
  BY <1>3, EliminatedHasLines
<1>6. <<r1, r2, r3, r4, r5, r6>> \in Matrices
  BY <1>4, SixLines
<1>7. ASSUME NEW r \in 1 .. 6
      PROVE  <<r1, r2, r3, r4, r5, r6>>[r] = LineAfter(B, L, m, r)
  BY <1>3, OneToSix
<1> QED
  BY <1>2, <1>5, <1>6, <1>7

LEMMA QuotientsAre ==
  ASSUME NEW B, NEW m, NEW r \in 1 .. 6
  PROVE  Quotients(B, m)[r] = IF r <= m THEN 0 ELSE Over(B[r][m], B[m][m])
<1>1. PICK a, b, c, d, e, f : /\ a = (IF 1 <= m THEN 0 ELSE Over(B[1][m], B[m][m]))
                              /\ b = (IF 2 <= m THEN 0 ELSE Over(B[2][m], B[m][m]))
                              /\ c = (IF 3 <= m THEN 0 ELSE Over(B[3][m], B[m][m]))
                              /\ d = (IF 4 <= m THEN 0 ELSE Over(B[4][m], B[m][m]))
                              /\ e = (IF 5 <= m THEN 0 ELSE Over(B[5][m], B[m][m]))
                              /\ f = (IF 6 <= m THEN 0 ELSE Over(B[6][m], B[m][m]))
  OBVIOUS
<1>2. Quotients(B, m) = <<a, b, c, d, e, f>>
  BY <1>1 DEF Quotients, Six
<1> QED
  BY <1>1, <1>2, OneToSix

LEMMA LuTurnDone ==
  ASSUME NEW B \in Matrices, NEW m \in 1 .. 5
  PROVE  LuTurn(B, m) \in Matrices /\ TurnDone(B, LuTurn(B, m), m)
<1>1. \A r, c \in 1 .. 6 : B[r][c] \in Residues /\ B[r][c] \in Int
  BY LinesAreRows DEF Matrices, Line
<1>2. PICK L : /\ L = Quotients(B, m)
               /\ \A r \in 1 .. 6 : L[r] = IF r <= m THEN 0 ELSE Over(B[r][m], B[m][m])
  BY QuotientsAre
<1>3. m \in 1 .. 6
  OBVIOUS
<1>4. ASSUME NEW r \in 1 .. 6
      PROVE  /\ L[r] \in Residues /\ L[r] \in Int
             /\ r > m /\ B[m][m] # 0 => Same(L[r] * B[m][m], B[r][m])
  <2>1. PICK a \in Int, b \in 0 .. Prime - 1 : a = B[r][m] /\ b = B[m][m]
    BY <1>1, <1>3 DEF Residues
  <2>2. Over(a, b) \in 0 .. Prime - 1 /\ (b # 0 => Same(Over(a, b) * b, a))
    BY OverIsQuotient
  <2>3. 0 \in Residues
    BY PrimeAssumption DEF Residues
  <2>4. r > m => L[r] = Over(a, b)
    BY <1>2, <2>1
  <2>5. L[r] \in Residues
    <3>1. CASE r <= m
      BY <1>2, <2>3, <3>1
    <3>2. CASE r > m
      BY <2>2, <2>4, <3>2 DEF Residues
    <3> QED
      BY <3>1, <3>2
  <2> QED
    BY <2>1, <2>2, <2>4, <2>5, LinesAreRows
<1>8. ASSUME NEW r \in 1 .. 6, NEW c \in 1 .. 6, r > m, c > m
      PROVE  /\ EntryAfter(B, L, m, r, c) \in Residues
             /\ Same(EntryAfter(B, L, m, r, c), B[r][c] - L[r] * B[m][c])
  <2>1. PICK a \in Int : a = B[r][c] - L[r] * B[m][c]
    BY <1>1, <1>3, <1>4
  <2>2. EntryAfter(B, L, m, r, c) = a % Prime
    BY <1>8, <2>1 DEF EntryAfter
  <2> QED
    BY <2>1, <2>2, SameAsRemainder DEF Residues
<1>9. \A r, c \in 1 .. 6 : EntryAfter(B, L, m, r, c) \in Residues
  <2>1. ASSUME NEW r \in 1 .. 6, NEW c \in 1 .. 6, r <= m \/ c <= m
        PROVE  EntryAfter(B, L, m, r, c) \in Residues
    <3>1. CASE r <= m \/ c < m
      BY <1>1, <3>1 DEF EntryAfter
    <3>2. CASE ~(r <= m \/ c < m) /\ c = m
      BY <1>4, <3>2 DEF EntryAfter
    <3> QED
      BY <2>1, <3>1, <3>2
  <2> QED
    BY <1>8, <2>1
<1>10. PICK C : C = LuTurn(B, m)
  OBVIOUS
<1>11. C \in Matrices /\ \A r, c \in 1 .. 6 : C[r][c] = EntryAfter(B, L, m, r, c)
  <2>1. C = Eliminated(B, L, m)
    BY <1>2, <1>10 DEF LuTurn
  <2> QED
    BY <1>9, <2>1, EliminatedByEntry
<1>12. \A r \in 1 .. 6 : r > m => C[r][m] = L[r]
  BY <1>3, <1>11 DEF EntryAfter
<1>13. TurnDone(B, C, m)
  <2>1. \A r, c \in 1 .. 6 : r <= m \/ c < m => C[r][c] = B[r][c]
    BY <1>11 DEF EntryAfter
  <2>2. \A r \in 1 .. 6 : r > m /\ B[m][m] # 0 => Same(C[r][m] * B[m][m], B[r][m])
    BY <1>4, <1>12
  <2>3. \A r, c \in 1 .. 6 : r > m /\ c > m => Same(C[r][c], B[r][c] - C[r][m] * B[m][c])
    BY <1>8, <1>11, <1>12
  <2> QED
    BY <2>1, <2>2, <2>3 DEF TurnDone
<1> QED
  BY <1>10, <1>11, <1>13

LEMMA TermOfPivot ==
  ASSUME NEW a \in Int, NEW f \in Int, NEW d \in Int, NEW y \in Int, Same(f * d, a)
  PROVE  Same(a * y, 0 + f * (d * y))
<1>1. PICK e \in Int : e = f * d
  OBVIOUS
<1>2. Same(e * y, a * y)
  BY <1>1, SameProducts
<1>3. e * y = 0 + f * (d * y) /\ e * y \in Int /\ a * y \in Int
  BY <1>1
<1> QED
  BY <1>2, <1>3, SameIsSame

LEMMA TermBehind ==
  ASSUME NEW a \in Int, NEW g \in Int, NEW f \in Int, NEW d \in Int, NEW y \in Int,
         Same(g, a - f * d)
  PROVE  Same(a * y, g * y + f * (d * y))
<1>1. PICK e \in Int, h \in Int : e = f * d /\ h = a - e
  OBVIOUS
<1>2. Same(e, e)
  BY SameIsSame
<1>3. Same(g, h)
  BY <1>1
<1>4. Same(g + e, h + e) /\ h + e = a
  BY <1>1, <1>2, <1>3, SameSums
<1>5. PICK s \in Int : s = g + e /\ Same(s, a)
  BY <1>4
<1>6. Same(s * y, a * y) /\ s * y \in Int /\ a * y \in Int
  BY <1>5, SameProducts
<1>7. s * y = g * y + e * y /\ e * y = f * (d * y)
  BY <1>1, <1>5
<1> QED
  BY <1>6, <1>7, SameIsSame

LEMMA PartHasTerms ==
  ASSUME NEW B \in Matrices, NEW r \in 1 .. 6, NEW ks, NEW x \in Line
  PROVE  \E u \in Rows : u = Terms(B, r, ks, x) /\ Part(B, r, ks, x) = SixOf(u)
<1>1. B \in [1 .. 6 -> Rows] /\ x \in Rows
  BY LinesAreRows
<1> QED
  BY <1>1, PartIsSum

\* What the turn of m leaves of a row behind m: the row of m is taken out of it.
LEMMA TurnOnTail ==
  ASSUME NEW B \in Matrices, NEW C \in Matrices, NEW m \in 1 .. 5, TurnDone(B, C, m),
         B[m][m] # 0, NEW x \in Line, NEW r \in 1 .. 6, r > m
  PROVE  Same(Part(B, r, m .. 6, x), Part(C, r, m + 1 .. 6, x) + C[r][m] * Part(B, m, m .. 6, x))
<1>1. /\ m \in 1 .. 6 /\ x \in Rows /\ B \in [1 .. 6 -> Rows] /\ C \in [1 .. 6 -> Rows]
      /\ \A s, c \in 1 .. 6 : B[s][c] \in Int /\ C[s][c] \in Int
      /\ \A c \in 1 .. 6 : x[c] \in Int
  BY LinesAreRows DEF Rows
<1>2. PICK f \in Int : f = C[r][m]
  BY <1>1
<1>3. PICK u \in Rows : u = Terms(B, r, m .. 6, x) /\ Part(B, r, m .. 6, x) = SixOf(u)
  BY PartHasTerms
<1>4. PICK p \in Rows : p = Terms(C, r, m + 1 .. 6, x) /\ Part(C, r, m + 1 .. 6, x) = SixOf(p)
  BY PartHasTerms
<1>5. PICK q \in Rows : q = Terms(B, m, m .. 6, x) /\ Part(B, m, m .. 6, x) = SixOf(q)
  <2>1. m \in 1 .. 6
    OBVIOUS
  <2> QED
    BY <2>1, PartHasTerms
<1>6. PICK w \in Rows : w = [c \in 1 .. 6 |-> p[c] + f * q[c]] /\ SixOf(w) = SixOf(p) + f * SixOf(q)
  BY SixDistributes
<1>7. ASSUME NEW c \in 1 .. 6
      PROVE  Same(u[c], w[c])
  <2>1. /\ u[c] = IF c \in m .. 6 THEN B[r][c] * x[c] ELSE 0
        /\ p[c] = IF c \in m + 1 .. 6 THEN C[r][c] * x[c] ELSE 0
        /\ q[c] = IF c \in m .. 6 THEN B[m][c] * x[c] ELSE 0
        /\ w[c] = p[c] + f * q[c]
    BY <1>3, <1>4, <1>5, <1>6 DEF Terms
  <2>2. PICK a \in Int, g \in Int, d \in Int, y \in Int :
          a = B[r][c] /\ g = C[r][c] /\ d = B[m][c] /\ y = x[c]
    BY <1>1
  <2>3. CASE c < m
    <3>1. u[c] = 0 /\ p[c] = 0 /\ q[c] = 0
      BY <2>1, <2>3
    <3>2. PICK z \in Int : z = 0
      OBVIOUS
    <3>3. u[c] = z /\ w[c] = z
      BY <2>1, <3>1, <3>2
    <3> QED
      BY <3>3, SameIsSame
  <2>4. CASE c = m
    <3>1. u[c] = a * y /\ w[c] = 0 + f * (d * y)
      BY <2>1, <2>2, <2>4
    <3>2. Same(f * d, a)
      BY <1>2, <2>2, <2>4 DEF TurnDone
    <3> QED
      BY <3>1, <3>2, TermOfPivot
  <2>5. CASE c > m
    <3>1. u[c] = a * y /\ w[c] = g * y + f * (d * y)
      BY <2>1, <2>2, <2>5
    <3>2. Same(g, a - f * d)
      BY <1>2, <2>2, <2>5 DEF TurnDone
    <3> QED
      BY <3>1, <3>2, TermBehind
  <2> QED
    BY <2>3, <2>4, <2>5
<1>8. Same(SixOf(u), SixOf(w))
  BY <1>7, SameRows
<1> QED
  BY <1>2, <1>3, <1>4, <1>5, <1>6, <1>8

\* A function that is given by its value for 0 and by what a turn makes of it
Turning(F, s, t, N) == t = [n \in 0 .. N |-> IF n = 0 THEN s ELSE F[n][t[n - 1]]]

LEMMA TurningExists ==
  ASSUME NEW S, NEW N \in Nat, NEW s \in S, NEW F, \A n \in 1 .. N : \A v \in S : F[n][v] \in S
  PROVE  \E t : Turning(F, s, t, N) /\ \A n \in 0 .. N : t[n] \in S
<1> DEFINE U == {m \in 0 .. N : \E t : Turning(F, s, t, m) /\ \A n \in 0 .. m : t[n] \in S}
<1>1. 0 \in U
  <2>1. Turning(F, s, [n \in 0 .. 0 |-> s], 0)
    BY DEF Turning
  <2>2. \A n \in 0 .. 0 : [k \in 0 .. 0 |-> s][n] \in S
    OBVIOUS
  <2> QED
    BY <2>1, <2>2
<1>2. ASSUME NEW m \in 0 .. N - 1, m \in U
      PROVE  m + 1 \in U
  <2>1. PICK g : Turning(F, s, g, m) /\ \A n \in 0 .. m : g[n] \in S
    BY <1>2
  <2> DEFINE h == [k \in 0 .. m + 1 |-> IF k = m + 1 THEN F[m + 1][g[m]] ELSE g[k]]
  <2>2. \A k \in 0 .. m : g[k] = IF k = 0 THEN s ELSE F[k][g[k - 1]]
    BY <2>1 DEF Turning
  <2>3. ASSUME NEW k \in 0 .. m + 1
        PROVE  h[k] = (IF k = 0 THEN s ELSE F[k][h[k - 1]]) /\ h[k] \in S
    <3>1. CASE k = m + 1
      <4>1. h[k] = F[m + 1][g[m]] /\ h[k - 1] = g[m]
        BY <3>1
      <4>2. F[m + 1][g[m]] \in S
        BY <2>1
      <4> HIDE DEF h
      <4> QED
        BY <4>1, <4>2, <3>1
    <3>2. CASE k \in 1 .. m
      <4>1. h[k] = g[k] /\ h[k - 1] = g[k - 1]
        BY <3>2
      <4> HIDE DEF h
      <4> QED
        BY <4>1, <3>2, <2>1, <2>2
    <3>3. CASE k = 0
      <4>1. h[k] = g[k]
        BY <3>3
      <4> HIDE DEF h
      <4> QED
        BY <4>1, <3>3, <2>1, <2>2
    <3> QED
      BY <3>1, <3>2, <3>3
  <2>4. Turning(F, s, h, m + 1)
    <3>1. h = [k \in 0 .. m + 1 |-> h[k]]
      OBVIOUS
    <3> HIDE DEF h
    <3> QED
      BY <2>3, <3>1 DEF Turning
  <2>5. \A k \in 0 .. m + 1 : h[k] \in S
    <3> HIDE DEF h
    <3> QED
      BY <2>3
  <2> QED
    BY <2>4, <2>5
<1>3. \A m \in 0 .. N : m \in U
  <2> HIDE DEF U
  <2> QED
    BY <1>1, <1>2, FromZeroUp
<1> QED
  BY <1>3

\* The turns of the decomposition
TurnsOf(A, t, N) == t = [n \in 0 .. N |-> IF n = 0 THEN A ELSE LuTurn(t[n - 1], n)]

LEMMA LuTurnsAre ==
  ASSUME NEW A \in Matrices
  PROVE  \E t : /\ LuDecomposition(A) = t[5] /\ t[0] = A
                /\ \A n \in 0 .. 5 : t[n] \in Matrices
                /\ \A n \in 1 .. 5 : TurnDone(t[n - 1], t[n], n)
<1>1. PICK F : F = [n \in 1 .. 5 |-> [B \in Matrices |-> LuTurn(B, n)]]
  OBVIOUS
<1>2. \A n \in 1 .. 5 : \A B \in Matrices : F[n][B] = LuTurn(B, n) /\ F[n][B] \in Matrices
  BY <1>1, LuTurnDone
<1>3. 5 \in Nat
  OBVIOUS
<1>4. PICK t : Turning(F, A, t, 5) /\ \A n \in 0 .. 5 : t[n] \in Matrices
  <2>1. \A n \in 1 .. 5 : \A B \in Matrices : F[n][B] \in Matrices
    BY <1>2
  <2> QED
    BY <1>3, <2>1, TurningExists
<1>5. TurnsOf(A, t, 5)
  <2>1. t = [n \in 0 .. 5 |-> IF n = 0 THEN A ELSE F[n][t[n - 1]]]
    BY <1>4 DEF Turning
  <2>2. ASSUME NEW n \in 0 .. 5, n # 0
        PROVE  F[n][t[n - 1]] = LuTurn(t[n - 1], n)
    <3>1. n \in 1 .. 5 /\ n - 1 \in 0 .. 5
      BY <2>2
    <3> QED
      BY <1>2, <1>4, <3>1
  <2> QED
    BY <2>1, <2>2 DEF TurnsOf
<1> DEFINE u == CHOOSE v : v = [n \in 0 .. 5 |-> IF n = 0 THEN A ELSE LuTurn(v[n - 1], n)]
<1>6. TurnsOf(A, u, 5)
  <2>1. \E v : v = [n \in 0 .. 5 |-> IF n = 0 THEN A ELSE LuTurn(v[n - 1], n)]
    BY <1>5 DEF TurnsOf
  <2> QED
    BY <2>1 DEF TurnsOf
<1>7. LuDecomposition(A) = u[5]
  BY DEF LuDecomposition, LuTurns
<1> HIDE DEF u
<1>8. u[0] = A /\ \A n \in 1 .. 5 : u[n] = LuTurn(u[n - 1], n)
  BY <1>6 DEF TurnsOf
<1>9. \A n \in 0 .. 5 : u[n] \in Matrices
  <2> DEFINE U == {n \in 0 .. 5 : u[n] \in Matrices}
  <2>1. 0 \in U
    BY <1>8
  <2>2. ASSUME NEW n \in 0 .. 5 - 1, n \in U
        PROVE  n + 1 \in U
    <3>1. n + 1 \in 1 .. 5 /\ (n + 1) - 1 = n /\ u[n] \in Matrices
      BY <2>2
    <3>2. u[n + 1] = LuTurn(u[n], n + 1)
      BY <1>8, <3>1
    <3> QED
      BY <3>1, <3>2, LuTurnDone
  <2>3. \A n \in 0 .. 5 : n \in U
    <3> HIDE DEF U
    <3> QED
      BY <1>3, <2>1, <2>2, FromZeroUp
  <2> QED
    BY <2>3
<1>10. ASSUME NEW n \in 1 .. 5
       PROVE  TurnDone(u[n - 1], u[n], n)
  <2>1. u[n - 1] \in Matrices
    BY <1>9
  <2> QED
    BY <1>8, <2>1, LuTurnDone
<1> QED
  BY <1>7, <1>8, <1>9, <1>10

\* What one variable more adds to a row, and that the others do not count
LEMMA SixPutIn ==
  ASSUME NEW u \in Rows, NEW v \in Rows, NEW k \in 1 .. 6, v[k] = 0,
         \A c \in 1 .. 6 : c # k => u[c] = v[c]
  PROVE  SixOf(u) = u[k] + SixOf(v)
<1>1. /\ u[1] \in Int /\ u[2] \in Int /\ u[3] \in Int
      /\ u[4] \in Int /\ u[5] \in Int /\ u[6] \in Int
      /\ v[1] \in Int /\ v[2] \in Int /\ v[3] \in Int
      /\ v[4] \in Int /\ v[5] \in Int /\ v[6] \in Int
  BY RowHasSix
<1>2. /\ 1 \in 1 .. 6 /\ 2 \in 1 .. 6 /\ 3 \in 1 .. 6
      /\ 4 \in 1 .. 6 /\ 5 \in 1 .. 6 /\ 6 \in 1 .. 6
  OBVIOUS
<1>3. /\ 1 # k => u[1] = v[1]
      /\ 2 # k => u[2] = v[2]
      /\ 3 # k => u[3] = v[3]
      /\ 4 # k => u[4] = v[4]
      /\ 5 # k => u[5] = v[5]
      /\ 6 # k => u[6] = v[6]
  BY <1>2
<1> QED
  BY <1>1, <1>3, OneToSix DEF SixOf

LEMMA PartPutIn ==
  ASSUME NEW B \in Matrices, NEW r \in 1 .. 6, NEW x \in Line, NEW k \in 1 .. 6,
         NEW ks, k \notin ks, NEW more, \A c \in 1 .. 6 : c \in more <=> c = k \/ c \in ks
  PROVE  Part(B, r, more, x) = B[r][k] * x[k] + Part(B, r, ks, x)
<1>1. PICK u \in Rows : u = Terms(B, r, more, x) /\ Part(B, r, more, x) = SixOf(u)
  BY PartHasTerms
<1>2. PICK v \in Rows : v = Terms(B, r, ks, x) /\ Part(B, r, ks, x) = SixOf(v)
  BY PartHasTerms
<1>3. v[k] = 0 /\ u[k] = B[r][k] * x[k]
  BY <1>1, <1>2 DEF Terms
<1>4. \A c \in 1 .. 6 : c # k => u[c] = v[c]
  BY <1>1, <1>2 DEF Terms
<1>5. SixOf(u) = u[k] + SixOf(v)
  BY <1>3, <1>4, SixPutIn
<1> QED
  BY <1>1, <1>2, <1>3, <1>5

LEMMA PartOfSame ==
  ASSUME NEW B \in Matrices, NEW r \in 1 .. 6, NEW ks, NEW x \in Line, NEW y \in Line,
         \A k \in 1 .. 6 : k \in ks => x[k] = y[k]
  PROVE  Part(B, r, ks, x) = Part(B, r, ks, y)
<1>1. PICK u \in Rows : u = Terms(B, r, ks, x) /\ Part(B, r, ks, x) = SixOf(u)
  BY PartHasTerms
<1>2. PICK v \in Rows : v = Terms(B, r, ks, y) /\ Part(B, r, ks, y) = SixOf(v)
  BY PartHasTerms
<1>3. u = v
  BY <1>1, <1>2 DEF Terms
<1> QED
  BY <1>1, <1>2, <1>3

\* Rows that are the same in the columns of ks
LEMMA PartOfSameRow ==
  ASSUME NEW B \in Matrices, NEW C \in Matrices, NEW r \in 1 .. 6, NEW ks, NEW x \in Line,
         \A k \in 1 .. 6 : k \in ks => B[r][k] = C[r][k]
  PROVE  Part(B, r, ks, x) = Part(C, r, ks, x)
<1>1. PICK u \in Rows : u = Terms(B, r, ks, x) /\ Part(B, r, ks, x) = SixOf(u)
  BY PartHasTerms
<1>2. PICK v \in Rows : v = Terms(C, r, ks, x) /\ Part(C, r, ks, x) = SixOf(v)
  BY PartHasTerms
<1>3. u = v
  BY <1>1, <1>2 DEF Terms
<1> QED
  BY <1>1, <1>2, <1>3

LEMMA WithoutIs ==
  ASSUME NEW B \in Matrices, NEW r \in 1 .. 6, NEW ks, NEW x \in Line
  PROVE  /\ Without(B, x, r, ks) \in Residues
         /\ Same(Without(B, x, r, ks), x[r] - Part(B, r, ks, x))
         /\ Part(B, r, ks, x) \in Int /\ x[r] \in Int
<1>1. B \in [1 .. 6 -> Rows] /\ x \in Rows
  BY LinesAreRows
<1>2. Part(B, r, ks, x) \in Int /\ x[r] \in Int
  BY <1>1, PartIsSum DEF Rows
<1>3. PICK a \in Int : a = x[r] - Part(B, r, ks, x)
  BY <1>2
<1>4. Same(a % Prime, a) /\ a % Prime \in 0 .. Prime - 1
  BY SameAsRemainder
<1> QED
  BY <1>2, <1>3, <1>4 DEF Without, Residues

\* What the loops of lu_solve have made when they are done
UpperSolved(LU, b, y) == \A r \in 1 .. 6 : Same(y[r], b[r] - Part(LU, r, 1 .. r - 1, y))
LowerSolved(LU, y, x) == \A r \in 1 .. 6 : Same(Part(LU, r, r .. 6, x), y[r])

ForwardOf(LU, b, x) ==
  x = [n \in 0 .. 6 |->
         IF n = 0 THEN b ELSE [x[n - 1] EXCEPT ![n] = Without(LU, x[n - 1], n, 1 .. n - 1)]]

LEMMA ForwardSolves ==
  ASSUME NEW LU \in Matrices, NEW b \in Line
  PROVE  Forward(LU, b) \in Line /\ UpperSolved(LU, b, Forward(LU, b))
<1>1. PICK F : F = [n \in 1 .. 6 |-> [v \in Line |-> [v EXCEPT ![n] = Without(LU, v, n, 1 .. n - 1)]]]
  OBVIOUS
<1>2. ASSUME NEW n \in 1 .. 6, NEW v \in Line
      PROVE  [v EXCEPT ![n] = Without(LU, v, n, 1 .. n - 1)] \in Line
  <2>1. Without(LU, v, n, 1 .. n - 1) \in Residues
    BY WithoutIs
  <2> QED
    BY <2>1 DEF Line
<1>3. PICK t : Turning(F, b, t, 6) /\ \A n \in 0 .. 6 : t[n] \in Line
  <2>1. \A n \in 1 .. 6 : \A v \in Line : F[n][v] \in Line
    BY <1>1, <1>2
  <2>2. 6 \in Nat
    OBVIOUS
  <2> QED
    BY <2>1, <2>2, TurningExists
<1>4. ForwardOf(LU, b, t)
  <2>1. t = [n \in 0 .. 6 |-> IF n = 0 THEN b ELSE F[n][t[n - 1]]]
    BY <1>3 DEF Turning
  <2>2. ASSUME NEW n \in 0 .. 6, n # 0
        PROVE  F[n][t[n - 1]] = [t[n - 1] EXCEPT ![n] = Without(LU, t[n - 1], n, 1 .. n - 1)]
    <3>1. n \in 1 .. 6 /\ n - 1 \in 0 .. 6
      BY <2>2
    <3>2. PICK v \in Line : v = t[n - 1]
      BY <1>3, <3>1
    <3>3. F[n][v] = [v EXCEPT ![n] = Without(LU, v, n, 1 .. n - 1)]
      BY <1>1, <3>1
    <3> QED
      BY <3>2, <3>3
  <2> QED
    BY <2>1, <2>2 DEF ForwardOf
<1> DEFINE u == CHOOSE x : x = [n \in 0 .. 6 |->
         IF n = 0 THEN b ELSE [x[n - 1] EXCEPT ![n] = Without(LU, x[n - 1], n, 1 .. n - 1)]]
<1>5. ForwardOf(LU, b, u)
  <2>1. \E x : x = [n \in 0 .. 6 |->
         IF n = 0 THEN b ELSE [x[n - 1] EXCEPT ![n] = Without(LU, x[n - 1], n, 1 .. n - 1)]]
    BY <1>4 DEF ForwardOf
  <2> QED
    BY <2>1 DEF ForwardOf
<1>6. Forward(LU, b) = u[6]
  BY DEF Forward
<1> HIDE DEF u
<1>7. /\ u[0] = b
      /\ \A n \in 1 .. 6 : u[n] = [u[n - 1] EXCEPT ![n] = Without(LU, u[n - 1], n, 1 .. n - 1)]
  BY <1>5 DEF ForwardOf
<1> DEFINE U == {n \in 0 .. 6 : /\ u[n] \in Line
                                /\ \A r \in 1 .. 6 : r > n => u[n][r] = b[r]
                                /\ \A r \in 1 .. 6 : r <= n =>
                                     Same(u[n][r], b[r] - Part(LU, r, 1 .. r - 1, u[n]))}
<1>8. 0 \in U
  BY <1>7
<1>9. ASSUME NEW m \in 0 .. 6 - 1, m \in U
      PROVE  m + 1 \in U
  <2>1. PICK n \in 1 .. 6 : n = m + 1
    OBVIOUS
  <2>2. PICK v \in Line : v = u[m]
    BY <1>9
  <2>3. PICK w \in Line : w = [v EXCEPT ![n] = Without(LU, v, n, 1 .. n - 1)]
    BY <1>2
  <2>4. u[n] = w
    <3>1. n - 1 = m
      BY <2>1
    <3>2. u[n] = [u[n - 1] EXCEPT ![n] = Without(LU, u[n - 1], n, 1 .. n - 1)]
      BY <1>7
    <3>3. u[n - 1] = v
      BY <2>2, <3>1
    <3> QED
      BY <2>3, <3>2, <3>3
  <2>5. w[n] = Without(LU, v, n, 1 .. n - 1) /\ \A r \in 1 .. 6 : r # n => w[r] = v[r]
    BY <2>3 DEF Line
  <2>6. /\ \A r \in 1 .. 6 : r > m => v[r] = b[r]
        /\ \A r \in 1 .. 6 : r <= m => Same(v[r], b[r] - Part(LU, r, 1 .. r - 1, v))
    BY <1>9, <2>2
  <2>7. ASSUME NEW r \in 1 .. 6, r <= n
        PROVE  Part(LU, r, 1 .. r - 1, w) = Part(LU, r, 1 .. r - 1, v)
    <3>1. \A k \in 1 .. 6 : k \in 1 .. r - 1 => w[k] = v[k]
      BY <2>5, <2>7
    <3> QED
      BY <3>1, PartOfSame
  <2>8. ASSUME NEW r \in 1 .. 6, r <= n
        PROVE  Same(w[r], b[r] - Part(LU, r, 1 .. r - 1, w))
    <3>1. PICK z : z = Part(LU, r, 1 .. r - 1, v) /\ z = Part(LU, r, 1 .. r - 1, w)
      BY <2>7, <2>8
    <3>2. Same(w[r], b[r] - z)
      <4>1. CASE r = n
        <5>1. w[r] = Without(LU, v, r, 1 .. r - 1) /\ v[r] = b[r]
          BY <2>1, <2>5, <2>6, <4>1
        <5>2. Same(Without(LU, v, r, 1 .. r - 1), v[r] - Part(LU, r, 1 .. r - 1, v))
          BY WithoutIs
        <5> QED
          BY <3>1, <5>1, <5>2
      <4>2. CASE r < n
        <5>1. w[r] = v[r]
          BY <2>5, <4>2
        <5>2. Same(v[r], b[r] - Part(LU, r, 1 .. r - 1, v))
          <6>1. r <= m
            BY <2>1, <4>2
          <6> QED
            BY <2>6, <6>1, Zenon
        <5> QED
          BY <3>1, <5>1, <5>2
      <4> QED
        BY <2>8, <4>1, <4>2
    <3> QED
      BY <3>1, <3>2
  <2>9. \A r \in 1 .. 6 : r > n => w[r] = b[r]
    BY <2>1, <2>5, <2>6
  <2> QED
    BY <2>1, <2>4, <2>8, <2>9
<1>10. \A n \in 0 .. 6 : n \in U
  <2> HIDE DEF U
  <2>1. 6 \in Nat
    OBVIOUS
  <2> QED
    BY <1>8, <1>9, <2>1, FromZeroUp
<1>11. 6 \in U
  <2> HIDE DEF U
  <2> QED
    BY <1>10
<1> QED
  BY <1>6, <1>11 DEF UpperSolved

BackwardOf(LU, y, x) ==
  x = [n \in 0 .. 6 |->
         IF n = 0 THEN y
         ELSE LET r == 7 - n
              IN  [x[n - 1] EXCEPT ![r] = Over(Without(LU, x[n - 1], r, r + 1 .. 6), LU[r][r])]]

BackwardTurn(LU, v, r) == [v EXCEPT ![r] = Over(Without(LU, v, r, r + 1 .. 6), LU[r][r])]

LEMMA BackwardStays ==
  ASSUME NEW LU \in Matrices, NEW v \in Line, NEW r \in 1 .. 6
  PROVE  /\ [v EXCEPT ![r] = Over(Without(LU, v, r, r + 1 .. 6), LU[r][r])] \in Line
         /\ Over(Without(LU, v, r, r + 1 .. 6), LU[r][r]) \in Residues
         /\ LU[r][r] # 0 => Same(Over(Without(LU, v, r, r + 1 .. 6), LU[r][r]) * LU[r][r],
                                 v[r] - Part(LU, r, r + 1 .. 6, v))
<1>1. PICK p \in Int : p = Part(LU, r, r + 1 .. 6, v)
  BY WithoutIs
<1>2. PICK a \in Residues : a = Without(LU, v, r, r + 1 .. 6) /\ Same(a, v[r] - p)
  BY <1>1, WithoutIs
<1>3. PICK d \in Residues : d = LU[r][r]
  BY DEF Matrices, Line
<1>4. a \in Int /\ d \in 0 .. Prime - 1 /\ d \in Int
  BY LinesAreRows DEF Residues
<1>5. Over(a, d) \in 0 .. Prime - 1 /\ (d # 0 => Same(Over(a, d) * d, a))
  BY <1>4, OverIsQuotient
<1>6. PICK o \in Residues : o = Over(a, d) /\ (d # 0 => Same(o * d, a))
  BY <1>5 DEF Residues
<1>7. o \in Int /\ v[r] \in Int
  BY LinesAreRows DEF Line
<1>8. d # 0 => Same(o * d, v[r] - p)
  <2>1. o * d \in Int /\ v[r] - p \in Int
    BY <1>1, <1>4, <1>7
  <2> QED
    BY <1>2, <1>4, <1>6, <2>1, SameIsSame
<1>9. [v EXCEPT ![r] = o] \in Line
  BY DEF Line
<1> QED
  BY <1>1, <1>2, <1>3, <1>6, <1>8, <1>9

LEMMA BackwardSolves ==
  ASSUME NEW LU \in Matrices, NEW y \in Line, \A r \in 1 .. 6 : LU[r][r] # 0
  PROVE  Backward(LU, y) \in Line /\ LowerSolved(LU, y, Backward(LU, y))
<1>1. PICK F : F = [n \in 1 .. 6 |-> [v \in Line |-> BackwardTurn(LU, v, 7 - n)]]
  OBVIOUS
<1>2. ASSUME NEW n \in 1 .. 6, NEW v \in Line
      PROVE  F[n][v] = BackwardTurn(LU, v, 7 - n) /\ F[n][v] \in Line
  <2>1. F[n][v] = BackwardTurn(LU, v, 7 - n)
    BY <1>1
  <2>2. PICK r \in 1 .. 6 : r = 7 - n
    OBVIOUS
  <2>3. BackwardTurn(LU, v, r) \in Line
    BY BackwardStays DEF BackwardTurn
  <2> QED
    BY <2>1, <2>2, <2>3
<1>3. PICK t : Turning(F, y, t, 6) /\ \A n \in 0 .. 6 : t[n] \in Line
  <2>1. \A n \in 1 .. 6 : \A v \in Line : F[n][v] \in Line
    BY <1>2
  <2>2. 6 \in Nat
    OBVIOUS
  <2> QED
    BY <2>1, <2>2, TurningExists
<1>4. BackwardOf(LU, y, t)
  <2>1. t = [n \in 0 .. 6 |-> IF n = 0 THEN y ELSE F[n][t[n - 1]]]
    BY <1>3 DEF Turning
  <2>2. ASSUME NEW n \in 0 .. 6, n # 0
        PROVE  F[n][t[n - 1]] =
                 LET r == 7 - n
                 IN  [t[n - 1] EXCEPT ![r] = Over(Without(LU, t[n - 1], r, r + 1 .. 6), LU[r][r])]
    <3>1. n \in 1 .. 6 /\ n - 1 \in 0 .. 6
      BY <2>2
    <3>2. PICK v \in Line : v = t[n - 1]
      BY <1>3, <3>1
    <3>3. F[n][v] = BackwardTurn(LU, v, 7 - n)
      BY <1>2, <3>1, <3>2
    <3> QED
      BY <3>2, <3>3 DEF BackwardTurn
  <2> QED
    BY <2>1, <2>2 DEF BackwardOf
<1> DEFINE u == CHOOSE x : x = [n \in 0 .. 6 |->
         IF n = 0 THEN y
         ELSE LET r == 7 - n
              IN  [x[n - 1] EXCEPT ![r] = Over(Without(LU, x[n - 1], r, r + 1 .. 6), LU[r][r])]]
<1>5. BackwardOf(LU, y, u)
  <2>1. \E x : x = [n \in 0 .. 6 |->
         IF n = 0 THEN y
         ELSE LET r == 7 - n
              IN  [x[n - 1] EXCEPT ![r] = Over(Without(LU, x[n - 1], r, r + 1 .. 6), LU[r][r])]]
    BY <1>4 DEF BackwardOf
  <2> QED
    BY <2>1 DEF BackwardOf
<1>6. Backward(LU, y) = u[6]
  BY DEF Backward
<1> HIDE DEF u
<1>7. /\ u[0] = y
      /\ \A n \in 1 .. 6 : \A r \in 1 .. 6 : r = 7 - n =>
           u[n] = [u[n - 1] EXCEPT ![r] = Over(Without(LU, u[n - 1], r, r + 1 .. 6), LU[r][r])]
  BY <1>5 DEF BackwardOf
<1> DEFINE U == {n \in 0 .. 6 : /\ u[n] \in Line
                                /\ \A r \in 1 .. 6 : r < 7 - n => u[n][r] = y[r]
                                /\ \A r \in 1 .. 6 : r >= 7 - n =>
                                     Same(Part(LU, r, r .. 6, u[n]), y[r])}
<1>8. 0 \in U
  BY <1>7
<1>9. ASSUME NEW m \in 0 .. 6 - 1, m \in U
      PROVE  m + 1 \in U
  <2>1. PICK n \in 1 .. 6 : n = m + 1
    OBVIOUS
  <2>2. PICK v \in Line : v = u[m]
    BY <1>9
  <2>3. PICK s \in 1 .. 6 : s = 7 - n
    OBVIOUS
  <2>4. PICK o \in Residues :
          /\ o = Over(Without(LU, v, s, s + 1 .. 6), LU[s][s])
          /\ Same(o * LU[s][s], v[s] - Part(LU, s, s + 1 .. 6, v))
    BY BackwardStays
  <2>5. PICK w \in Line : w = [v EXCEPT ![s] = o]
    BY <2>4, BackwardStays
  <2>6. u[n] = w
    <3>1. n - 1 = m
      BY <2>1
    <3>2. u[n] = [u[n - 1] EXCEPT ![s] = Over(Without(LU, u[n - 1], s, s + 1 .. 6), LU[s][s])]
      BY <1>7, <2>3
    <3>3. u[n - 1] = v
      BY <2>2, <3>1
    <3> QED
      BY <2>4, <2>5, <3>2, <3>3
  <2>7. w[s] = o /\ \A r \in 1 .. 6 : r # s => w[r] = v[r]
    BY <2>5 DEF Line
  <2>8. /\ \A r \in 1 .. 6 : r < 7 - m => v[r] = y[r]
        /\ \A r \in 1 .. 6 : r >= 7 - m => Same(Part(LU, r, r .. 6, v), y[r])
    BY <1>9, <2>2
  <2>9. ASSUME NEW r \in 1 .. 6, r >= s
        PROVE  Same(Part(LU, r, r .. 6, w), y[r])
    <3>1. CASE r = s
      <4>1. Part(LU, s, s .. 6, w) = LU[s][s] * w[s] + Part(LU, s, s + 1 .. 6, w)
        <5>1. PICK ks, more : ks = s + 1 .. 6 /\ more = s .. 6
          OBVIOUS
        <5>2. s \notin ks
          BY <5>1
        <5>3. \A c \in 1 .. 6 : c \in more <=> c = s \/ c \in ks
          BY <5>1
        <5>4. Part(LU, s, more, w) = LU[s][s] * w[s] + Part(LU, s, ks, w)
          BY <5>2, <5>3, PartPutIn
        <5> QED
          BY <5>1, <5>4
      <4>2. Part(LU, s, s + 1 .. 6, w) = Part(LU, s, s + 1 .. 6, v)
        <5>1. \A k \in 1 .. 6 : k \in s + 1 .. 6 => w[k] = v[k]
          BY <2>7
        <5> QED
          BY <5>1, PartOfSame
      <4>3. PICK p \in Int : p = Part(LU, s, s + 1 .. 6, v)
        BY WithoutIs
      <4>4. v[s] = y[s]
        BY <2>1, <2>3, <2>8
      <4>5. PICK d \in Int, e \in Int : d = LU[s][s] /\ e = y[s]
        BY LinesAreRows DEF Matrices, Line
      <4>6. o \in Int
        BY LinesAreRows
      <4>7. Same(o * d, e - p)
        BY <2>4, <4>3, <4>4, <4>5
      <4>8. Same(o * d + p, (e - p) + p)
        <5>1. o * d \in Int /\ e - p \in Int /\ Same(p, p)
          BY <4>6, SameIsSame
        <5> QED
          BY <4>7, <5>1, SameSums
      <4>9. o * d = d * o /\ (e - p) + p = e
        BY <4>6
      <4>10. Part(LU, s, s .. 6, w) = d * o + p
        BY <2>7, <4>1, <4>2, <4>3, <4>5
      <4>11. Same(d * o + p, e)
        BY <4>8, <4>9
      <4> QED
        BY <3>1, <4>5, <4>10, <4>11
    <3>2. CASE r > s
      <4>1. Part(LU, r, r .. 6, w) = Part(LU, r, r .. 6, v)
        <5>1. \A k \in 1 .. 6 : k \in r .. 6 => w[k] = v[k]
          BY <2>7, <3>2
        <5> QED
          BY <5>1, PartOfSame
      <4>2. r >= 7 - m
        BY <2>1, <2>3, <3>2
      <4>3. Same(Part(LU, r, r .. 6, v), y[r])
        BY <2>8, <4>2, Zenon
      <4> QED
        BY <4>1, <4>3
    <3> QED
      BY <2>9, <3>1, <3>2
  <2>10. \A r \in 1 .. 6 : r < s => w[r] = y[r]
    BY <2>1, <2>3, <2>7, <2>8
  <2> QED
    BY <2>1, <2>3, <2>6, <2>9, <2>10
<1>10. \A n \in 0 .. 6 : n \in U
  <2> HIDE DEF U
  <2>1. 6 \in Nat
    OBVIOUS
  <2> QED
    BY <1>8, <1>9, <2>1, FromZeroUp
<1>11. 6 \in U
  <2> HIDE DEF U
  <2> QED
    BY <1>10
<1>12. u[6] \in Line /\ \A r \in 1 .. 6 : r >= 7 - 6 => Same(Part(LU, r, r .. 6, u[6]), y[r])
  BY <1>11
<1> QED
  BY <1>6, <1>12 DEF LowerSolved

\* The turns leave the part of the matrix that they are done with.
Kept(t, LU, n) == \A r, c \in 1 .. 6 : r <= n + 1 \/ c <= n => LU[r][c] = t[n][r][c]

LEMMA TurnsKeep ==
  ASSUME NEW t, NEW LU, LU = t[5], \A n \in 1 .. 5 : TurnDone(t[n - 1], t[n], n)
  PROVE  \A n \in 0 .. 5 : Kept(t, LU, n)
<1> DEFINE U == {k \in 0 .. 5 : Kept(t, LU, 5 - k)}
<1>1. 0 \in U
  BY DEF Kept
<1>2. ASSUME NEW k \in 0 .. 5 - 1, k \in U
      PROVE  k + 1 \in U
  <2>1. PICK m \in 1 .. 5 : m = 5 - k
    OBVIOUS
  <2>2. Kept(t, LU, m)
    BY <1>2, <2>1
  <2>3. PICK n \in 0 .. 4 : n = m - 1
    OBVIOUS
  <2>4. TurnDone(t[n], t[m], m)
    BY <2>3
  <2>5. ASSUME NEW r \in 1 .. 6, NEW c \in 1 .. 6, r <= m \/ c < m
        PROVE  LU[r][c] = t[n][r][c]
    <3>1. t[m][r][c] = t[n][r][c]
      BY <2>4, <2>5 DEF TurnDone
    <3>2. r <= m + 1 \/ c <= m
      BY <2>5
    <3>3. LU[r][c] = t[m][r][c]
      BY <2>2, <3>2 DEF Kept
    <3> QED
      BY <3>1, <3>3
  <2>6. Kept(t, LU, n)
    BY <2>3, <2>5 DEF Kept
  <2>7. n = 5 - (k + 1) /\ k + 1 \in 0 .. 5
    BY <2>1, <2>3
  <2> QED
    BY <2>6, <2>7
<1>3. \A k \in 0 .. 5 : k \in U
  <2> HIDE DEF U
  <2>1. 5 \in Nat
    OBVIOUS
  <2> QED
    BY <1>1, <1>2, <2>1, FromZeroUp
<1>4. ASSUME NEW n \in 0 .. 5
      PROVE  Kept(t, LU, n)
  <2>1. PICK k \in 0 .. 5 : n = 5 - k
    <3>1. 5 - n \in 0 .. 5 /\ n = 5 - (5 - n)
      OBVIOUS
    <3> QED
      BY <3>1
  <2>2. k \in U
    <3> HIDE DEF U
    <3> QED
      BY <1>3
  <2> QED
    BY <2>1, <2>2
<1> QED
  BY <1>4

\* What the solution adds up to behind column n, in the matrix after n turns
Tails(t, LU, b, y, x, n) ==
  \A r \in 1 .. 6 : r > n => Same(Part(t[n], r, n + 1 .. 6, x), b[r] - Part(LU, r, 1 .. n, y))

LEMMA PartOfMore ==
  ASSUME NEW B \in Matrices, NEW r \in 1 .. 6, NEW m \in 1 .. 6, NEW y \in Line
  PROVE  Part(B, r, 1 .. m, y) = B[r][m] * y[m] + Part(B, r, 1 .. m - 1, y)
<1>1. PICK ks, more : ks = 1 .. m - 1 /\ more = 1 .. m
  OBVIOUS
<1>2. m \notin ks
  BY <1>1
<1>3. \A c \in 1 .. 6 : c \in more <=> c = m \/ c \in ks
  BY <1>1
<1>4. Part(B, r, more, y) = B[r][m] * y[m] + Part(B, r, ks, y)
  BY <1>2, <1>3, PartPutIn
<1> QED
  BY <1>1, <1>4

LEMMA TailsBefore ==
  ASSUME NEW t, NEW LU \in Matrices, NEW b \in Line, NEW y \in Line, NEW x \in Line, NEW m \in 1 .. 5,
         t[m - 1] \in Matrices, t[m] \in Matrices, TurnDone(t[m - 1], t[m], m),
         Kept(t, LU, m), Kept(t, LU, m - 1), LU[m][m] # 0,
         UpperSolved(LU, b, y), LowerSolved(LU, y, x), Tails(t, LU, b, y, x, m)
  PROVE  Tails(t, LU, b, y, x, m - 1)
<1>1. PICK n \in 0 .. 4 : n = m - 1 /\ m = n + 1
  OBVIOUS
<1>2. PICK B \in Matrices, C \in Matrices : B = t[n] /\ C = t[m]
  BY <1>1
<1>3. TurnDone(B, C, m)
  BY <1>1, <1>2
<1>4. \A c \in 1 .. 6 : B[m][c] = LU[m][c]
  <2>1. \A r, c \in 1 .. 6 : r <= n + 1 \/ c <= n => LU[r][c] = B[r][c]
    BY <1>1, <1>2 DEF Kept
  <2> QED
    BY <1>1, <2>1
<1>5. \A r \in 1 .. 6 : C[r][m] = LU[r][m]
  BY <1>2 DEF Kept
<1>6. m \in 1 .. 6
  OBVIOUS
<1>7. Part(B, m, m .. 6, x) = Part(LU, m, m .. 6, x)
  BY <1>4, <1>6, PartOfSameRow
<1>8. PICK q \in Int : q = Part(B, m, m .. 6, x)
  BY <1>6, WithoutIs
<1>9. Same(q, y[m]) /\ y[m] \in Int
  <2>1. Same(Part(LU, m, m .. 6, x), y[m])
    BY <1>6 DEF LowerSolved
  <2>2. y[m] \in Int
    BY <1>6, LinesAreRows DEF Line
  <2> QED
    BY <1>7, <1>8, <2>1, <2>2
<1>10. ASSUME NEW r \in 1 .. 6, r > n
       PROVE  Same(Part(B, r, n + 1 .. 6, x), b[r] - Part(LU, r, 1 .. n, y))
  <2>1. PICK a \in Int, d \in Int, e \in Int :
          a = Part(B, r, m .. 6, x) /\ d = Part(LU, r, 1 .. n, y) /\ e = b[r]
    BY WithoutIs
  <2>2. CASE r = m
    <3>1. a = q
      BY <1>8, <2>1, <2>2
    <3>2. Same(y[m], e - d)
      <4>1. Same(y[r], b[r] - Part(LU, r, 1 .. r - 1, y))
        BY DEF UpperSolved
      <4>2. r - 1 = n
        BY <1>1, <2>2
      <4> QED
        BY <2>1, <2>2, <4>1, <4>2
    <3>3. Same(a, e - d)
      <4>1. e - d \in Int
        OBVIOUS
      <4> QED
        BY <1>9, <3>1, <3>2, <4>1, SameIsSame
    <3> QED
      BY <1>1, <2>1, <3>3
  <2>3. CASE r > m
    <3>1. PICK p \in Int, s \in Int, f \in Int :
            p = Part(C, r, m + 1 .. 6, x) /\ s = Part(LU, r, 1 .. m, y) /\ f = LU[r][m]
      <4>1. PICK k \in 1 .. 6 : k = m
        BY <1>6
      <4>2. LU[r][k] \in Residues
        BY DEF Matrices, Line
      <4>3. LU[r][m] \in Int
        BY <4>1, <4>2, LinesAreRows
      <4> QED
        BY <4>3, WithoutIs
    <3>2. B[m][m] # 0
      BY <1>4, <1>6
    <3>3. Same(a, p + f * q)
      BY <1>3, <1>5, <1>8, <2>1, <2>3, <3>1, <3>2, TurnOnTail
    <3>4. Same(p, e - s)
      BY <1>2, <2>1, <2>3, <3>1 DEF Tails
    <3>5. s = f * y[m] + d
      <4>1. PICK k \in 1 .. 6 : k = m
        BY <1>6
      <4>2. Part(LU, r, 1 .. k, y) = LU[r][k] * y[k] + Part(LU, r, 1 .. k - 1, y)
        BY PartOfMore
      <4>3. k - 1 = n
        BY <1>1, <4>1
      <4> QED
        BY <2>1, <3>1, <4>1, <4>2, <4>3
    <3>6. Same(a, e - d)
      <4>1. PICK z \in Int : z = y[m] /\ Same(q, z)
        BY <1>9
      <4>2. PICK u \in Int, v \in Int, w \in Int : u = f * q /\ v = f * z /\ w = e - s
        OBVIOUS
      <4>3. Same(u, v)
        <5>1. Same(q * f, z * f)
          BY <4>1, SameProducts
        <5>2. q * f = u /\ z * f = v
          BY <4>2
        <5> QED
          BY <5>1, <5>2
      <4>4. Same(p + u, w + v)
        <5>1. Same(p, w)
          BY <3>4, <4>2
        <5> QED
          BY <4>3, <5>1, SameSums
      <4>5. w + v = e - d
        BY <3>5, <4>1, <4>2
      <4>6. PICK g \in Int, h \in Int : g = p + u /\ h = e - d
        OBVIOUS
      <4>7. Same(a, g) /\ Same(g, h)
        BY <3>3, <4>2, <4>4, <4>5, <4>6
      <4> QED
        BY <4>6, <4>7, SameIsSame
    <3> QED
      BY <1>1, <2>1, <3>6
  <2> QED
    BY <1>1, <1>10, <2>2, <2>3
<1> QED
  BY <1>1, <1>2, <1>10 DEF Tails

LEMMA LuSolves ==
  ASSUME NEW A \in Matrices, NEW b \in Line, \A r \in 1 .. 6 : LuDecomposition(A)[r][r] # 0
  PROVE  /\ LuSolve(LuDecomposition(A), b) \in Line
         /\ \A r \in 1 .. 6 : Part(A, r, 1 .. 6, LuSolve(LuDecomposition(A), b)) % Prime = b[r]
<1>1. PICK t : /\ LuDecomposition(A) = t[5] /\ t[0] = A
               /\ \A n \in 0 .. 5 : t[n] \in Matrices
               /\ \A n \in 1 .. 5 : TurnDone(t[n - 1], t[n], n)
  BY LuTurnsAre
<1>2. PICK LU \in Matrices : LU = LuDecomposition(A) /\ LU = t[5]
  <2>1. 5 \in 0 .. 5
    OBVIOUS
  <2> QED
    BY <1>1, <2>1
<1>3. \A r \in 1 .. 6 : LU[r][r] # 0
  BY <1>2
<1>4. PICK y \in Line : y = Forward(LU, b) /\ UpperSolved(LU, b, y)
  BY ForwardSolves
<1>5. PICK x \in Line : x = Backward(LU, y) /\ LowerSolved(LU, y, x)
  BY <1>3, BackwardSolves
<1>6. x = LuSolve(LuDecomposition(A), b)
  BY <1>2, <1>4, <1>5 DEF LuSolve
<1>7. \A n \in 0 .. 5 : Kept(t, LU, n)
  BY <1>1, <1>2, TurnsKeep
<1> DEFINE U == {k \in 0 .. 5 : Tails(t, LU, b, y, x, 5 - k)}
<1>8. 0 \in U
  <2>1. ASSUME NEW r \in 1 .. 6, r > 5
        PROVE  Same(Part(t[5], r, 5 + 1 .. 6, x), b[r] - Part(LU, r, 1 .. 5, y))
    <3>1. r = 6 /\ 5 + 1 = r /\ 5 = r - 1
      BY <2>1
    <3>2. PICK a \in Int, z \in Int, d \in Int :
            a = Part(LU, r, r .. 6, x) /\ z = y[r] /\ d = b[r] - Part(LU, r, 1 .. r - 1, y)
      <4>1. b[r] \in Int /\ y[r] \in Int
        BY LinesAreRows DEF Line
      <4>2. Part(LU, r, r .. 6, x) \in Int
        BY WithoutIs
      <4>3. Part(LU, r, 1 .. r - 1, y) \in Int
        BY WithoutIs
      <4> QED
        BY <4>1, <4>2, <4>3
    <3>3. Same(a, z) /\ Same(z, d)
      BY <1>4, <1>5, <3>2 DEF UpperSolved, LowerSolved
    <3>4. Same(a, d)
      BY <3>3, SameIsSame
    <3> QED
      BY <1>2, <3>1, <3>2, <3>4
  <2>2. Tails(t, LU, b, y, x, 5)
    BY <2>1 DEF Tails
  <2> QED
    BY <2>2
<1>9. ASSUME NEW k \in 0 .. 5 - 1, k \in U
      PROVE  k + 1 \in U
  <2>1. PICK m \in 1 .. 5 : m = 5 - k /\ m - 1 = 5 - (k + 1)
    OBVIOUS
  <2>2. Tails(t, LU, b, y, x, m)
    BY <1>9, <2>1
  <2>3. /\ t[m - 1] \in Matrices /\ t[m] \in Matrices /\ TurnDone(t[m - 1], t[m], m)
        /\ Kept(t, LU, m) /\ Kept(t, LU, m - 1) /\ LU[m][m] # 0
    BY <1>1, <1>3, <1>7
  <2>4. Tails(t, LU, b, y, x, m - 1)
    BY <1>4, <1>5, <2>2, <2>3, TailsBefore
  <2> QED
    BY <2>1, <2>4
<1>10. Tails(t, LU, b, y, x, 0)
  <2>1. \A k \in 0 .. 5 : k \in U
    <3> HIDE DEF U
    <3>1. 5 \in Nat
      OBVIOUS
    <3> QED
      BY <1>8, <1>9, <3>1, FromZeroUp
  <2>2. 5 \in U
    <3> HIDE DEF U
    <3> QED
      BY <2>1
  <2>3. 5 - 5 = 0
    OBVIOUS
  <2> QED
    BY <2>2, <2>3
<1>11. ASSUME NEW r \in 1 .. 6
       PROVE  Part(A, r, 1 .. 6, x) % Prime = b[r]
  <2>1. Same(Part(A, r, 0 + 1 .. 6, x), b[r] - Part(LU, r, 1 .. 0, y))
    BY <1>1, <1>10 DEF Tails
  <2>2. PICK v \in Rows : v = Terms(LU, r, 1 .. 0, y) /\ Part(LU, r, 1 .. 0, y) = SixOf(v)
    BY <1>4, PartHasTerms
  <2>3. \A c \in 1 .. 6 : v[c] = 0
    BY <2>2 DEF Terms
  <2>4. SixOf(v) = 0
    <3>1. /\ 1 \in 1 .. 6 /\ 2 \in 1 .. 6 /\ 3 \in 1 .. 6
          /\ 4 \in 1 .. 6 /\ 5 \in 1 .. 6 /\ 6 \in 1 .. 6
      OBVIOUS
    <3>2. v[1] = 0 /\ v[2] = 0 /\ v[3] = 0 /\ v[4] = 0 /\ v[5] = 0 /\ v[6] = 0
      BY <2>3, <3>1
    <3> QED
      BY <3>2 DEF SixOf
  <2>5. PICK a \in Int, d \in Int : a = Part(A, r, 1 .. 6, x) /\ d = b[r] /\ d \in 0 .. Prime - 1
    <3>1. b[r] \in 0 .. Prime - 1 /\ b[r] \in Int
      BY LinesAreRows DEF Line, Residues
    <3> QED
      BY <1>5, <3>1, WithoutIs
  <2>6. Same(a, d)
    <3>1. 0 + 1 = 1 /\ d - 0 = d
      OBVIOUS
    <3> QED
      BY <2>1, <2>2, <2>4, <2>5, <3>1
  <2>7. a % Prime = d % Prime
    BY <2>6, SameAsRemainder
  <2>8. d % Prime = d
    <3>1. PICK p \in Nat \ {0} : p = Prime
      BY PrimeAssumption
    <3>2. (0 * p + d) % p = d
      <4>1. d \in 0 .. p - 1 /\ 0 \in Int
        BY <2>5, <3>1
      <4> QED
        BY <4>1, RemainderIs
    <3> QED
      BY <3>1, <3>2
  <2> QED
    BY <2>5, <2>7, <2>8
<1> QED
  BY <1>5, <1>6, <1>11

-----------------------------------------------------------------------------
(************************** the inductive invariant ************************)

IsSequence(s) == \E S : s \in Seq(S)

\* The error k turns before turn n, and whether turn n ends the loop
Ago(e, n, k) == IF n > k THEN e[n - k] ELSE <<0, 1>>
SettledAt(e, n) == Near(e[n], Ago(e, n, 2)) /\ Near(e[n], Ago(e, n, 4))

Lost == motion = NaN \/ motion.quarters = 0

KernelTypes ==
    /\ phase \in {"scan", "imu", "run", "done", "moved"}
    /\ cloud \in Seq(Vectors)
    /\ pose \in Poses \cup {NaN}
    /\ i \in 0 .. MaxIterations
    /\ sum # NaN => from \in Poses
    /\ IsSequence(errors)
    /\ IsSequence(previous) /\ Len(previous) = 4

\* Before the kernel runs it has no history, while it runs it has turns left.
KernelPhases ==
    /\ phase \in {"scan", "imu"} => from = NaN /\ errors = <<>> /\ i = 0
    /\ phase = "run" => i < MaxIterations

\* The four errors the kernel keeps are those of the last four turns.
KernelHistory ==
    /\ phase \in {"scan", "imu", "run"} =>
        \A k \in 1 .. 4 : previous[k] = Ago(errors, Len(errors) + 1, 5 - k)
    /\ \A n \in 1 .. Len(errors) : n < Len(errors) \/ phase = "run" => ~SettledAt(errors, n)
    /\ phase = "done" /\ pose # NaN /\ i < MaxIterations => SettledAt(errors, Len(errors))

KernelMoves ==
    /\ pose = NaN <=> from # NaN /\ Lost
    /\ pose # NaN /\ from # NaN =>
        \A a \in Axes : Magnitude(pose.move[a] - from.move[a] - motion.move[a]) <= 2

RegInv == KernelTypes /\ KernelPhases /\ KernelHistory /\ KernelMoves

LEMMA NaNIsNoPose == NaN \notin Poses
BY InputsAssumption

LEMMA AppendKeeps ==
  ASSUME NEW s, IsSequence(s), NEW x
  PROVE  /\ IsSequence(Append(s, x)) /\ Len(s) \in Nat
         /\ Len(Append(s, x)) = Len(s) + 1
         /\ \A n \in 1 .. Len(s) : Append(s, x)[n] = s[n]
         /\ Append(s, x)[Len(s) + 1] = x
<1>1. PICK S : s \in Seq(S)
  BY DEF IsSequence
<1>2. PICK T : T = S \cup {x}
  OBVIOUS
<1>3. s \in Seq(T) /\ x \in T
  BY <1>1, <1>2
<1>4. Append(s, x) \in Seq(T)
  BY <1>3
<1> QED
  BY <1>3, <1>4 DEF IsSequence

LEMMA TailShifts ==
  ASSUME NEW s, IsSequence(s), Len(s) = 4
  PROVE  /\ IsSequence(Tail(s)) /\ Len(Tail(s)) = 3
         /\ \A n \in 1 .. 3 : Tail(s)[n] = s[n + 1]
<1>1. PICK S : s \in Seq(S)
  BY DEF IsSequence
<1>2. s # <<>>
  OBVIOUS
<1>3. Tail(s) \in Seq(S)
  BY <1>1, <1>2
<1>4. Len(Tail(s)) = 3
  BY <1>1, <1>2
<1>5. \A n \in 1 .. Len(Tail(s)) : Tail(s)[n] = s[n + 1]
  <2> SUFFICES ASSUME NEW n \in 1 .. Len(Tail(s))
               PROVE  Tail(s)[n] = s[n + 1]
    OBVIOUS
  <2> QED
    BY <1>1, <1>2
<1> QED
  BY <1>3, <1>4, <1>5 DEF IsSequence

LEMMA InitRegInv == RegInit => RegInv
<1> SUFFICES ASSUME RegInit
             PROVE  RegInv
  OBVIOUS
<1> USE DEF RegInit
<1>1. pose \in Poses
  <2>1. Zero \in Vectors
    BY DEF Zero, Vectors
  <2> QED
    BY <2>1, IdentityIsTurn DEF Poses
<1>2. errors \in Seq({}) /\ Len(errors) = 0 /\ errors = <<>>
  OBVIOUS
<1>3. previous \in Seq({<<0, 1>>}) /\ Len(previous) = 4 /\ \A k \in 1 .. 4 : previous[k] = <<0, 1>>
  <2>1. previous \in [1 .. 4 -> {<<0, 1>>}]
    OBVIOUS
  <2> QED
    BY <2>1
<1>4. KernelTypes
  <2>1. cloud \in Seq(Vectors)
    BY InputsAssumption
  <2>2. i \in 0 .. MaxIterations
    BY KernelAssumption
  <2> QED
    BY <1>1, <1>2, <1>3, <2>1, <2>2 DEF KernelTypes, IsSequence
<1>5. KernelPhases
  BY DEF KernelPhases
<1>6. KernelHistory
  BY <1>2, <1>3 DEF KernelHistory, Ago
<1>7. KernelMoves
  BY <1>1, NaNIsNoPose DEF KernelMoves
<1> QED
  BY <1>4, <1>5, <1>6, <1>7 DEF RegInv

LEMMA ReduceKeeps == RegInv /\ Reduce => RegInv'
<1> SUFFICES ASSUME RegInv, Reduce
             PROVE  RegInv'
  OBVIOUS
<1> USE DEF RegInv, Reduce
<1>1. cloud' \in Seq(Vectors)
  BY ReducedIsCloud DEF KernelTypes
<1>2. KernelTypes'
  BY <1>1 DEF KernelTypes
<1>3. KernelPhases'
  BY DEF KernelPhases
<1>4. KernelHistory'
  BY DEF KernelHistory
<1>5. KernelMoves'
  BY DEF KernelMoves, Lost
<1> QED
  BY <1>2, <1>3, <1>4, <1>5

LEMMA ApplyImuKeeps == RegInv /\ ApplyImu => RegInv'
<1> SUFFICES ASSUME RegInv, ApplyImu
             PROVE  RegInv'
  OBVIOUS
<1> USE DEF RegInv, ApplyImu
<1>1. from = NaN /\ errors = <<>> /\ pose # NaN
  BY DEF KernelPhases, KernelMoves
<1>2. pose' \in Poses
  BY <1>1, EstimateIsPose DEF KernelTypes
<1>3. KernelTypes'
  BY <1>2 DEF KernelTypes
<1>4. KernelPhases'
  <2>1. i = 0 /\ MaxIterations > 0
    BY KernelAssumption DEF KernelPhases
  <2> QED
    BY <2>1 DEF KernelPhases
<1>5. KernelHistory'
  <2>1. Len(errors) = 0
    BY <1>1
  <2> QED
    BY <2>1 DEF KernelHistory
<1>6. KernelMoves'
  BY <1>1, <1>2, NaNIsNoPose DEF KernelMoves
<1> QED
  BY <1>3, <1>4, <1>5, <1>6

LEMMA IterateKeeps == RegInv /\ Iterate => RegInv'
<1> SUFFICES ASSUME RegInv, Iterate
             PROVE  RegInv'
  OBVIOUS
<1>1. phase = "run" /\ pose # NaN /\ from' = pose /\ pose \in Poses
  BY DEF Iterate, RegInv, KernelTypes
<1>2. PICK e : e = ErrorOf(sum')
  OBVIOUS
<1>3. /\ errors' = Append(errors, e) /\ cloud' = cloud
      /\ \/ Settled(e) /\ phase' = "done" /\ i' = i /\ previous' = previous
         \/ /\ ~Settled(e) /\ previous' = Append(Tail(previous), e) /\ i' = i + 1
            /\ phase' = IF i + 1 < MaxIterations THEN "run" ELSE "done"
  BY <1>2 DEF Iterate
<1>4. /\ i \in Nat /\ i < MaxIterations /\ MaxIterations \in Nat
      /\ IsSequence(errors) /\ IsSequence(previous) /\ Len(previous) = 4
  BY <1>1, KernelAssumption DEF RegInv, KernelTypes, KernelPhases
<1>5. PICK L : L = Len(errors)
  OBVIOUS
<1>6. /\ L \in Nat /\ Len(errors') = L + 1 /\ IsSequence(errors')
      /\ \A n \in 1 .. L : errors'[n] = errors[n]
      /\ errors'[L + 1] = e
  BY <1>3, <1>4, <1>5, AppendKeeps
<1>7. IsSequence(previous') /\ Len(previous') = 4
  <2>1. IsSequence(Tail(previous)) /\ Len(Tail(previous)) = 3
    BY <1>4, TailShifts
  <2>2. IsSequence(Append(Tail(previous), e)) /\ Len(Append(Tail(previous), e)) = 4
    BY <2>1, AppendKeeps
  <2> QED
    BY <1>3, <1>4, <2>2
<1>8. PICK next : next = XiToTransform(motion', ScanCenter(pose))
  OBVIOUS
<1>9. /\ motion' \in Motions \cup {NaN}
      /\ pose' = IF next = NaN THEN NaN ELSE Compose(next, pose)
  BY <1>8 DEF Iterate
<1>10. KernelMoves' /\ pose' \in Poses \cup {NaN}
  <2>1. CASE Lost'
    <3>1. next = NaN /\ pose' = NaN
      BY <1>8, <1>9, <2>1 DEF Lost, XiToTransform
    <3> QED
      BY <1>1, <2>1, <3>1 DEF KernelMoves
  <2>2. CASE ~Lost'
    <3>1. motion' \in Motions /\ motion' # NaN /\ motion'.quarters # 0
      BY <1>9, <2>2 DEF Lost
    <3>2. /\ next \in Poses /\ Compose(next, pose) \in Poses
          /\ \A a \in Axes :
                Magnitude(Compose(next, pose).move[a] - pose.move[a] - motion'.move[a]) <= 2
      BY <1>1, <1>8, <3>1, IterationMoves
    <3>3. pose' = Compose(next, pose) /\ pose' # NaN
      BY <1>9, <3>2, NaNIsNoPose
    <3> QED
      BY <1>1, <2>2, <3>2, <3>3 DEF KernelMoves
  <2> QED
    BY <2>1, <2>2
<1>11. KernelTypes'
  <2>1. cloud' \in Seq(Vectors)
    BY <1>3 DEF RegInv, KernelTypes
  <2>2. i' \in 0 .. MaxIterations /\ phase' \in {"run", "done"}
    BY <1>3, <1>4
  <2>3. from' \in Poses
    BY <1>1
  <2> QED
    BY <1>6, <1>7, <1>10, <2>1, <2>2, <2>3 DEF KernelTypes
<1>12. KernelPhases'
  BY <1>3, <1>4 DEF KernelPhases
<1>13. \A k \in 1 .. 4 : previous[k] = Ago(errors, L + 1, 5 - k)
  BY <1>1, <1>5 DEF RegInv, KernelHistory
<1>14. \A n \in 1 .. L, k \in 1 .. 4 : Ago(errors', n, k) = Ago(errors, n, k)
  BY <1>6 DEF Ago
<1>15. \A k \in 1 .. 4 : Ago(errors', L + 1, k) = Ago(errors, L + 1, k)
  BY <1>6 DEF Ago
<1>16. \A n \in 1 .. L : ~SettledAt(errors', n)
  <2>1. \A n \in 1 .. L : ~SettledAt(errors, n)
    BY <1>1, <1>5 DEF RegInv, KernelHistory
  <2>2. \A n \in 1 .. L : SettledAt(errors', n) <=> SettledAt(errors, n)
    BY <1>6, <1>14 DEF SettledAt
  <2> QED
    BY <2>1, <2>2
<1>17. SettledAt(errors', L + 1) <=> Settled(e)
  <2>1. previous[3] = Ago(errors', L + 1, 2) /\ previous[1] = Ago(errors', L + 1, 4)
    <3>1. 5 - 3 = 2 /\ 5 - 1 = 4
      OBVIOUS
    <3> QED
      BY <1>13, <1>15, <3>1
  <2> QED
    BY <1>6, <2>1 DEF SettledAt, Settled
<1>18. CASE Settled(e)
  <2>1. phase' = "done"
    BY <1>3, <1>18
  <2>2. SettledAt(errors', L + 1)
    BY <1>17, <1>18
  <2>3. \A n \in 1 .. L + 1 : n < L + 1 => n \in 1 .. L
    BY <1>6
  <2>4. KernelHistory'
    BY <1>6, <1>16, <2>1, <2>2, <2>3 DEF KernelHistory
  <2> QED
    BY <1>10, <1>11, <1>12, <2>4 DEF RegInv
<1>19. CASE ~Settled(e)
  <2>1. /\ previous' = Append(Tail(previous), e) /\ i' = i + 1
        /\ phase' = IF i + 1 < MaxIterations THEN "run" ELSE "done"
    BY <1>3, <1>19
  <2>2. \A n \in 1 .. L + 1 : ~SettledAt(errors', n)
    <3>1. \A n \in 1 .. L + 1 : n \in 1 .. L \/ n = L + 1
      BY <1>6
    <3> QED
      BY <1>16, <1>17, <1>19, <3>1
  <2>3. \A k \in 1 .. 3 : previous'[k] = previous[k + 1]
    BY <1>4, <2>1, AppendKeeps, TailShifts
  <2>4. previous'[4] = e
    <3>1. IsSequence(Tail(previous)) /\ Len(Tail(previous)) = 3
      BY <1>4, TailShifts
    <3> QED
      BY <2>1, <3>1, AppendKeeps
  <2>5. ASSUME NEW k \in 1 .. 4
        PROVE  previous'[k] = Ago(errors', L + 2, 5 - k)
    <3>1. CASE k = 4
      BY <1>6, <2>4, <3>1 DEF Ago
    <3>2. CASE k \in 1 .. 3
      <4>1. previous'[k] = Ago(errors', L + 1, 5 - (k + 1))
        BY <1>13, <1>15, <2>3, <3>2
      <4>2. Ago(errors', L + 1, 4 - k) = Ago(errors', L + 2, 5 - k)
        BY <1>6, <3>2 DEF Ago
      <4> QED
        BY <3>2, <4>1, <4>2
    <3> QED
      BY <3>1, <3>2
  <2>6. phase' = "done" => i' = MaxIterations
    BY <1>4, <2>1
  <2>7. Len(errors') + 1 = L + 2
    BY <1>6
  <2>8. KernelHistory'
    BY <1>4, <1>6, <2>2, <2>5, <2>6, <2>7 DEF KernelHistory
  <2> QED
    BY <1>10, <1>11, <1>12, <2>8 DEF RegInv
<1> QED
  BY <1>18, <1>19

LEMMA IterateNaNKeeps == RegInv /\ IterateNaN => RegInv'
<1> SUFFICES ASSUME RegInv, IterateNaN
             PROVE  RegInv'
  OBVIOUS
<1> USE DEF RegInv, IterateNaN
<1>1. i' \in 0 .. MaxIterations
  BY KernelAssumption DEF KernelTypes
<1>2. KernelTypes'
  BY <1>1 DEF KernelTypes
<1>3. KernelPhases'
  BY DEF KernelPhases
<1>4. KernelHistory'
  BY DEF KernelHistory
<1>5. KernelMoves'
  BY DEF KernelMoves, Lost
<1> QED
  BY <1>2, <1>3, <1>4, <1>5

LEMMA MoveCloudKeeps == RegInv /\ MoveCloud => RegInv'
<1> SUFFICES ASSUME RegInv, MoveCloud
             PROVE  RegInv'
  OBVIOUS
<1> USE DEF RegInv, MoveCloud
<1>1. cloud' \in Seq(Vectors)
  <2>1. pose \in Poses /\ cloud \in Seq(Vectors) /\ Len(cloud) \in Nat
    BY DEF KernelTypes
  <2>2. \A n \in 1 .. Len(cloud) : Transformed(pose, cloud[n]) \in Vectors
    BY <2>1, PointsAreVectors
  <2>3. cloud' \in [1 .. Len(cloud) -> Vectors]
    BY <2>2
  <2> QED
    BY <2>1, <2>3
<1>2. KernelTypes'
  BY <1>1 DEF KernelTypes
<1>3. KernelPhases'
  BY DEF KernelPhases
<1>4. KernelHistory'
  BY DEF KernelHistory
<1>5. KernelMoves'
  BY DEF KernelMoves, Lost
<1> QED
  BY <1>2, <1>3, <1>4, <1>5

LEMMA RegInvIsInductive == RegInv /\ [RegNext]_regVars => RegInv'
<1> SUFFICES ASSUME RegInv, [RegNext]_regVars
             PROVE  RegInv'
  OBVIOUS
<1>1. CASE UNCHANGED regVars
  <2> USE <1>1 DEF regVars
  <2>1. KernelTypes'
    BY DEF RegInv, KernelTypes
  <2>2. KernelPhases'
    BY DEF RegInv, KernelPhases
  <2>3. KernelHistory'
    BY DEF RegInv, KernelHistory
  <2>4. KernelMoves'
    BY DEF RegInv, KernelMoves, Lost
  <2> QED
    BY <2>1, <2>2, <2>3, <2>4 DEF RegInv
<1> QED
  BY <1>1, ReduceKeeps, ApplyImuKeeps, IterateKeeps, IterateNaNKeeps, MoveCloudKeeps DEF RegNext

THEOREM RegInvAlways == RegSpec => []RegInv
<1> QED
  BY InitRegInv, RegInvIsInductive, PTL DEF RegSpec

-----------------------------------------------------------------------------

\* For every number of iterations, threshold and sequence of errors: the kernel
\* that keeps four errors ends its loop early if and only if the last error is
\* near those of two and of four turns before.
THEOREM StopsOnHistoryAlways == RegSpec => []StopsOnHistory
<1>1. RegInv => StopsOnHistory
  <2> SUFFICES ASSUME RegInv
               PROVE  StopsOnHistory
    OBVIOUS
  <2>1. PICK L \in Nat : L = Len(errors)
    BY AppendKeeps DEF RegInv, KernelTypes
  <2>2. \A n \in 1 .. L - 1 : ~SettledAt(errors, n)
    BY <2>1 DEF RegInv, KernelHistory
  <2>3. phase = "done" /\ pose # NaN /\ i < MaxIterations => SettledAt(errors, L)
    BY <2>1 DEF RegInv, KernelHistory
  <2>4. phase = "run" /\ errors # <<>> => ~SettledAt(errors, L)
    <3>1. errors # <<>> => L \in 1 .. L
      <4>1. PICK S : errors \in Seq(S)
        BY DEF RegInv, KernelTypes, IsSequence
      <4> QED
        BY <2>1, <4>1
    <3> QED
      BY <2>1, <3>1 DEF RegInv, KernelHistory
  <2> QED
    BY <2>1, <2>2, <2>3, <2>4 DEF StopsOnHistory, SettledAt, Ago
<1> QED
  BY <1>1, RegInvAlways, PTL

\* For every map, with any size, position and offset of the ring: an iteration
\* reads the entry of every cell of the window where LocalMap has put it, and
\* takes the cells around the window for unknown.
THEOREM ReadsTheMapAlways == RegSpec => []ReadsTheMap
<1>1. RegInv => ReadsTheMap
  <2> SUFFICES ASSUME RegInv, sum # NaN, cloud # <<>>,
                      NEW x \in -1 .. 1, NEW y \in -1 .. 1, NEW z \in -1 .. 1
               PROVE  LET c == Add(CellOf(KernelPoint(from, cloud[1])), <<x, y, z>>)
                      IN  Get(c) = IF c \in Cells THEN Field[c] ELSE Unknown
    BY DEF ReadsTheMap
  <2>1. from \in Poses /\ cloud \in Seq(Vectors)
    BY DEF RegInv, KernelTypes
  <2>2. cloud[1] \in Vectors
    BY <2>1
  <2>3. CellOf(KernelPoint(from, cloud[1])) \in Vectors
    BY <2>1, <2>2, PointsAreVectors
  <2>4. <<x, y, z>> \in Vectors
    BY DEF Vectors
  <2>5. Add(CellOf(KernelPoint(from, cloud[1])), <<x, y, z>>) \in Vectors
    BY <2>3, <2>4, AddIsVector
  <2> QED
    BY <2>5, GetReads
<1> QED
  BY <1>1, RegInvAlways, PTL

\* For every cloud, imu, map and answer of the solver: the pose of the scanner
\* stays a rotation and a translation, an iteration moves it by the translation
\* of the solver up to the rounded center, and it is lost exactly when the
\* solver returned no rotation.
THEOREM ScannerMovesAlways == RegSpec => []ScannerMoves
<1>1. RegInv => ScannerMoves
  <2> SUFFICES ASSUME RegInv
               PROVE  ScannerMoves
    OBVIOUS
  <2>1. phase \in {"scan", "imu", "run", "done", "moved"} /\ i \in 0 .. MaxIterations
    BY DEF RegInv, KernelTypes
  <2>2. pose # NaN => Product(pose.turn, Transpose(pose.turn)) = Identity
    BY DEF RegInv, KernelTypes, Poses, Turns
  <2> QED
    BY <2>1, <2>2 DEF RegInv, KernelMoves, Lost, ScannerMoves
<1> QED
  BY <1>1, RegInvAlways, PTL

\* For every scan and number of rings: the median filter of a scan is that of
\* each ring alone, and does not depend on the column the scan begins with.
THEOREM MedianStaysOnRingAlways == RegSpec => []MedianStaysOnRing
<1>1. RegInv => MedianStaysOnRing
  <2> SUFFICES ASSUME RegInv, NEW rings \in 1 .. Len(cloud), Len(cloud) % rings = 0
               PROVE  LET result == MedianFilter(cloud, rings, 3)
                      IN  /\ \A r \in 1 .. rings :
                                OneRing(result, rings, r) = MedianFilter(OneRing(cloud, rings, r), 1, 3)
                          /\ MedianFilter(ByColumn(cloud, rings), rings, 3) = ByColumn(result, rings)
    BY DEF MedianStaysOnRing, OneRing, ByColumn
  <2>1. cloud \in Seq(Vectors)
    BY DEF RegInv, KernelTypes
  <2> QED
    BY <2>1, RingsAreFiltered, FilterTurns
<1> QED
  BY <1>1, RegInvAlways, PTL

\* The sums of an iteration are those of one lane over the whole cloud.
KernelSums ==
    /\ phase \in {"scan", "imu"} => sum = NaN
    /\ phase \in {"run", "done"} /\ sum # NaN => sum = RegistrationStep(from, 0, Len(cloud))

LEMMA SumsKeep == RegInv /\ KernelSums /\ [RegNext]_regVars => KernelSums'
<1> SUFFICES ASSUME RegInv, KernelSums, [RegNext]_regVars
             PROVE  KernelSums'
  OBVIOUS
<1>0. (cloud' = cloud /\ from' = from) =>
        RegistrationStep(from, 0, Len(cloud))' = RegistrationStep(from, 0, Len(cloud))
  BY DEF RegistrationStep
<1>1. CASE UNCHANGED regVars
  BY <1>0, <1>1 DEF regVars, KernelSums
<1>2. CASE Reduce
  BY <1>2 DEF Reduce, KernelSums
<1>3. CASE ApplyImu
  BY <1>3 DEF ApplyImu, KernelSums
<1>4. CASE Iterate
  <2>1. pose \in Poses /\ cloud \in Seq(Vectors)
    BY <1>4 DEF Iterate, RegInv, KernelTypes
  <2>2. PICK p \in Poses : p = pose
    BY <2>1
  <2>3. phase' \in {"run", "done"} /\ cloud' = cloud /\ from' = p /\ sum' = RegDataflow(p)
    BY <1>4, <2>2 DEF Iterate
  <2>4. sum' = RegistrationStep(p, 0, Len(cloud))
    BY <2>1, <2>3, LanesAreOne
  <2>5. RegistrationStep(from, 0, Len(cloud))' = RegistrationStep(p, 0, Len(cloud))
    BY <2>3 DEF RegistrationStep
  <2> QED
    BY <2>3, <2>4, <2>5 DEF KernelSums
<1>5. CASE IterateNaN
  BY <1>0, <1>5 DEF IterateNaN, KernelSums
<1>6. CASE MoveCloud
  BY <1>6 DEF MoveCloud, KernelSums
<1> QED
  BY <1>1, <1>2, <1>3, <1>4, <1>5, <1>6 DEF RegNext

\* For every cloud, map and number of lanes: the lanes of the kernel sample
\* every point once, and what they add up to is the sum of one lane over the
\* whole cloud, for a number of points that the lanes do not divide, too.
THEOREM LanesCoverCloudAlways == RegSpec => []LanesCoverCloud
<1>1. RegInit => KernelSums
  BY DEF RegInit, KernelSums
<1>2. KernelSums => LanesCoverCloud
  BY DEF KernelSums, LanesCoverCloud
<1> QED
  BY <1>1, <1>2, SumsKeep, RegInvAlways, PTL DEF RegSpec

\* For every scan, resolution and bounds: the reduced cloud has exactly one
\* point of the scan for every voxel, none is nearer to the center, filtering
\* again by the closest or a random point changes nothing, and the average and
\* the random point lie in the voxels they stand for, on both sides of 0.
THEOREM ReductionKeepsVoxelsAlways == RegSpec => []ReductionKeepsVoxels
<1>1. RegInv => ReductionKeepsVoxels
  <2> SUFFICES ASSUME RegInv, phase = "scan"
               PROVE  ReductionKeepsVoxels
    BY DEF ReductionKeepsVoxels
  <2>1. cloud \in Seq(Vectors)
    BY DEF RegInv, KernelTypes
  <2>2. PICK points \in Seq(Vectors) : points = cloud
    BY <2>1
  <2>3. PICK R : R = ReduceClosest(points)
    OBVIOUS
  <2>4. R \subseteq Passing(points) /\ Cardinality(R) = Cardinality(Voxels(Passing(points)))
    BY <2>3, ReducedIsOneEach
  <2>5. ASSUME NEW p \in Passing(points)
        PROVE  \E q \in R : /\ Voxel(p) = Voxel(q)
                            /\ Length(Less(q, Center(Voxel(q)))) <= Length(Less(p, Center(Voxel(p))))
    <3>1. PICK v : v = Voxel(p)
      OBVIOUS
    <3>2. PICK q : q = Closest(points, v)
      OBVIOUS
    <3>3. Voxel(q) = v /\ Distance(q, v) <= Distance(p, v)
      BY <3>1, <3>2, ClosestIsBest
    <3>4. q \in R
      BY <2>3, <3>1, <3>2 DEF ReduceClosest, Voxels
    <3> QED
      BY <3>1, <3>3, <3>4 DEF Distance
  <2>6. ReduceClosest(SetToSeq(R)) = R /\ ReduceCenter(SetToSeq(R)) = ReduceCenter(points)
    BY <2>3, ReducedStays
  <2>7. Voxels(ReduceAverage(points)) = Voxels(Passing(points))
    <3>1. PICK V : V = Voxels(Passing(points))
      OBVIOUS
    <3>2. \A v \in V : Voxel(Average(points, v)) = v
      BY <3>1, AverageIsIn
    <3>3. ReduceAverage(points) = {Average(points, v) : v \in V}
      BY <3>1 DEF ReduceAverage
    <3>4. Voxels(ReduceAverage(points)) = V
      BY <3>2, <3>3 DEF Voxels
    <3> QED
      BY <3>1, <3>4
  <2>8. \A S \in ReduceRandom(points) : S \in ReduceRandom(SetToSeq(S))
    BY RandomStays
  <2> QED
    BY <2>2, <2>3, <2>4, <2>5, <2>6, <2>7, <2>8 DEF ReductionKeepsVoxels
<1> QED
  BY <1>1, RegInvAlways, PTL

\* The normal equations, by entry
EntryOf(r, c) == (sum.h[r][c] + IF r = c THEN (alpha - WeightGradient) * sum.count ELSE 0) % Prime
LineOfEntries(r) == <<EntryOf(r, 1), EntryOf(r, 2), EntryOf(r, 3), EntryOf(r, 4), EntryOf(r, 5), EntryOf(r, 6)>>
RightOf(r) == (-sum.g[r]) % Prime

LEMMA IsResidue ==
  ASSUME NEW a \in Int
  PROVE  a % Prime \in Residues
BY SameAsRemainder DEF Residues

LEMMA EquationsAre ==
  ASSUME sum \in Sums, alpha \in Int
  PROVE  Equations.A \in Matrices /\ Equations.b \in Line
<1>1. PICK d \in Int : d = (alpha - WeightGradient) * sum.count
  <2>1. sum.count \in Int /\ alpha - WeightGradient \in Int
    BY KernelAssumption DEF Sums
  <2> QED
    BY <2>1
<1>2. ASSUME NEW r \in 1 .. 6, NEW c \in 1 .. 6
      PROVE  EntryOf(r, c) \in Residues
  <2>1. sum.h[r][c] \in Int
    BY DEF Sums, Rows
  <2>2. PICK a \in Int : a = sum.h[r][c] + IF r = c THEN d ELSE 0
    BY <2>1
  <2>3. EntryOf(r, c) = a % Prime
    BY <1>1, <2>2 DEF EntryOf
  <2> QED
    BY <2>3, IsResidue
<1>3. /\ 1 \in 1 .. 6 /\ 2 \in 1 .. 6 /\ 3 \in 1 .. 6
      /\ 4 \in 1 .. 6 /\ 5 \in 1 .. 6 /\ 6 \in 1 .. 6
  OBVIOUS
<1>4. ASSUME NEW r \in 1 .. 6
      PROVE  LineOfEntries(r) \in Line
  <2>1. /\ EntryOf(r, 1) \in Residues /\ EntryOf(r, 2) \in Residues /\ EntryOf(r, 3) \in Residues
        /\ EntryOf(r, 4) \in Residues /\ EntryOf(r, 5) \in Residues /\ EntryOf(r, 6) \in Residues
    BY <1>2, <1>3
  <2> QED
    BY <2>1, SixIsLine DEF LineOfEntries
<1>5. Equations.A = <<LineOfEntries(1), LineOfEntries(2), LineOfEntries(3),
                      LineOfEntries(4), LineOfEntries(5), LineOfEntries(6)>>
  BY DEF Equations, Square6, Six, LineOfEntries, EntryOf
<1>6. /\ LineOfEntries(1) \in Line /\ LineOfEntries(2) \in Line /\ LineOfEntries(3) \in Line
      /\ LineOfEntries(4) \in Line /\ LineOfEntries(5) \in Line /\ LineOfEntries(6) \in Line
  BY <1>3, <1>4
<1>7. Equations.A \in Matrices
  BY <1>5, <1>6, SixLines
<1>8. ASSUME NEW r \in 1 .. 6
      PROVE  RightOf(r) \in Residues
  <2>1. PICK a \in Int : a = -sum.g[r]
    <3>1. sum.g[r] \in Int
      BY DEF Sums, Rows
    <3> QED
      BY <3>1
  <2> QED
    BY <2>1, IsResidue DEF RightOf
<1>9. /\ RightOf(1) \in Residues /\ RightOf(2) \in Residues /\ RightOf(3) \in Residues
      /\ RightOf(4) \in Residues /\ RightOf(5) \in Residues /\ RightOf(6) \in Residues
  BY <1>3, <1>8
<1>10. Equations.b = <<RightOf(1), RightOf(2), RightOf(3), RightOf(4), RightOf(5), RightOf(6)>>
  BY DEF Equations, Six, RightOf
<1> QED
  BY <1>7, <1>9, <1>10, SixIsLine

\* What the solver is given
KernelNumbers == alpha \in Int /\ (sum # NaN => sum \in Sums)

LEMMA NumbersKeep == RegInv /\ KernelNumbers /\ [RegNext]_regVars => KernelNumbers'
<1> SUFFICES ASSUME RegInv, KernelNumbers, [RegNext]_regVars
             PROVE  KernelNumbers'
  OBVIOUS
<1>1. CASE UNCHANGED regVars
  BY <1>1 DEF regVars, KernelNumbers
<1>2. CASE Reduce
  BY <1>2 DEF Reduce, KernelNumbers
<1>3. CASE ApplyImu
  BY <1>3 DEF ApplyImu, KernelNumbers
<1>4. CASE Iterate
  <2>1. pose \in Poses /\ cloud \in Seq(Vectors)
    BY <1>4 DEF Iterate, RegInv, KernelTypes
  <2>2. PICK p \in Poses : p = pose
    BY <2>1
  <2>3. sum' = RegistrationStep(p, 0, Len(cloud))
    BY <1>4, <2>1, <2>2, LanesAreOne DEF Iterate
  <2>4. RegistrationStep(p, 0, Len(cloud)) \in Sums
    <3>1. PICK L \in Nat : L = Len(cloud)
      BY <2>1
    <3>2. PICK f : f = [n \in 1 .. L |-> Sample(p, cloud[0 + n])]
      OBVIOUS
    <3>3. ASSUME NEW n \in 1 .. L
          PROVE  f[n] \in Sums
      <4>1. cloud[n] \in Vectors /\ 0 + n = n
        BY <2>1, <3>1, ElementIsIn
      <4>2. f[n] = Sample(p, cloud[n])
        BY <3>2, <4>1
      <4> QED
        BY <4>1, <4>2, SampleIsSum
    <3>4. SumUpTo(f, L) \in Sums
      BY <3>3, SumIsSum
    <3> QED
      BY <3>1, <3>2, <3>4 DEF RegistrationStep
  <2>5. alpha' \in Int
    BY <1>4, KernelAssumption DEF Iterate, KernelNumbers
  <2> QED
    BY <2>3, <2>4, <2>5 DEF KernelNumbers
<1>5. CASE IterateNaN
  BY <1>5 DEF IterateNaN, KernelNumbers
<1>6. CASE MoveCloud
  BY <1>6 DEF MoveCloud, KernelNumbers
<1> QED
  BY <1>1, <1>2, <1>3, <1>4, <1>5, <1>6 DEF RegNext

\* For every sum of every cloud, weight and prime: if the decomposition meets
\* no pivot that is 0, what it and the two loops of lu_solve make of the
\* normal equations solves them.
THEOREM SolverSolvesAlways == RegSpec => []SolverSolves
<1>1. KernelNumbers => SolverSolves
  <2> SUFFICES ASSUME KernelNumbers, sum # NaN,
                      \A r \in 1 .. 6 : LuDecomposition(Equations.A)[r][r] # 0
               PROVE  \A r \in 1 .. 6 :
                        SumOfSix(LAMBDA c : Equations.A[r][c]
                                    * LuSolve(LuDecomposition(Equations.A), Equations.b)[c]) % Prime
                          = Equations.b[r]
    BY DEF SolverSolves
  <2>1. PICK A \in Matrices, b \in Line : A = Equations.A /\ b = Equations.b
    BY EquationsAre DEF KernelNumbers
  <2>2. PICK x : x = LuSolve(LuDecomposition(A), b)
    OBVIOUS
  <2>3. \A r \in 1 .. 6 : Part(A, r, 1 .. 6, x) % Prime = b[r]
    BY <2>1, <2>2, LuSolves
  <2>4. ASSUME NEW r \in 1 .. 6
        PROVE  SumOfSix(LAMBDA c : A[r][c] * x[c]) % Prime = b[r]
    <3>1. Part(A, r, 1 .. 6, x) = SumOfSix(LAMBDA c : A[r][c] * x[c])
      BY DEF Part, SumOfSix
    <3>2. Part(A, r, 1 .. 6, x) % Prime = b[r]
      BY <2>3
    <3> QED
      BY <3>1, <3>2
  <2> QED
    BY <2>1, <2>2, <2>4 DEF SumOfSix
<1>2. RegInit => KernelNumbers
  BY DEF RegInit, KernelNumbers
<1> QED
  BY <1>1, <1>2, NumbersKeep, RegInvAlways, PTL DEF RegSpec
=============================================================================
