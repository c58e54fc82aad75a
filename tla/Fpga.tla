-------------------------------- MODULE Fpga --------------------------------
(***************************************************************************)
(* The buffers that the host shares with the FPGA, the wrappers of the     *)
(* kernels and the out-of-order command queue between them.                *)
(*                                                                         *)
(* A Buffer object is a handle: a cl::Buffer (one of Memories), a size and *)
(* whether it holds the virtual address of the memory.  The contents of a  *)
(* memory are one value, on the host and on the device each.  The program  *)
(* may use the buffers in any order, except that it leaves alone what a    *)
(* kernel works on until waitComplete.                                     *)
(***************************************************************************)
EXTENDS Integers, FiniteSets, Sequences

CONSTANTS
    InputBuffer, OutputBuffer, InputOutputBuffer,   \* the places that hold one
    Memories,   \* what cl::Buffer allocates
    Sizes,      \* num_elements
    Values,     \* 0 .. n: the contents
    Kernels,    \* a subset of {"vadd", "reg", "tsdf"}
    None

ASSUME FpgaAssumption ==
    /\ Kernels \subseteq {"vadd", "reg", "tsdf"}
    /\ Sizes \subseteq Nat \ {0}
    /\ Cardinality(Values) > 1 /\ Values = 0 .. Cardinality(Values) - 1

\* new_entries belongs to the TSDF kernel, the other two to a call of
\* RegistrationKernel::synchronized_run
Private == {"new", "in", "out"}

\* Names that differ stand for different things
ASSUME NamesAssumption ==
    /\ Memories \cap Private = {}
    /\ None \notin Memories
    /\ None \notin [memory : Memories \cup {None}, size : Nat, address : BOOLEAN]

Kinds   == {InputBuffer, OutputBuffer, InputOutputBuffer}
Objects == UNION Kinds
SameKind(o, p) == \E S \in Kinds : {o, p} \subseteq S

VARIABLES
    manager,    \* FPGAManager: "empty", "loaded", "failed" or "released"
    object,     \* the Buffer of every place, or None
    mapped,     \* how often a memory is mapped
    host,       \* the contents that the virtual address shows
    device,     \* the contents that a kernel sees
    run,        \* what a kernel works on, and the commands that have run
    promise     \* history: what the kernel is expected to return

vars == <<manager, object, mapped, host, device, run, promise>>

Idle == [in |-> {}, read |-> <<>>, write |-> {}, back |-> None, done |-> {"pre", "execute", "post"}]

-----------------------------------------------------------------------------
(********************************* Buffer **********************************)

\* A Buffer that was moved away, and a new one
Empty == [memory |-> None, size |-> 0, address |-> FALSE]
Fresh(m, n) == [memory |-> m, size |-> n, address |-> TRUE]

Live     == {o \in Objects : object[o] # None}
Reach(o) == object[o].memory
Allocated(m) == mapped[m] > 0 \/ \E o \in Live : Reach(o) = m

\* The memories that a kernel in flight reads or writes
Running    == {k \in Kernels : run[k] # Idle}
WorkedOn(k) == run[k].in \cup run[k].write
Quiet(o)   == o \in Live /\ \A k \in Running : Reach(o) \notin WorkedOn(k)

\* unmap_memory does nothing without an address
Unmapped(o) ==
    IF object[o].address THEN [mapped EXCEPT ![Reach(o)] = @ - 1] ELSE mapped

\* What a memory held is forgotten with the last Buffer that reaches it
Forgotten(contents, v) ==
    [m \in DOMAIN contents |->
        IF m \in Memories /\ ~\E o \in Objects : object'[o] # None /\ object'[o].memory = m
        THEN v ELSE contents[m]]

Construct(o, n) ==
    /\ manager = "loaded"
    /\ object[o] = None
    /\ \E m \in Memories :
        /\ ~Allocated(m)
        /\ object' = [object EXCEPT ![o] = Fresh(m, n)]
        /\ mapped' = [mapped EXCEPT ![m] = 1]
    /\ UNCHANGED <<manager, host, device, run, promise>>

\* Buffer(const Buffer&): another memory with the same contents.  A Buffer
\* that was moved away has no queue to copy with.
CopyConstruct(o, from) ==
    /\ object[o] = None /\ SameKind(o, from)
    /\ Quiet(from) /\ object[from].address
    /\ \E m \in Memories :
        /\ ~Allocated(m)
        /\ object' = [object EXCEPT ![o] = Fresh(m, object[from].size)]
        /\ mapped' = [mapped EXCEPT ![m] = 1]
        /\ host' = [host EXCEPT ![m] = host[Reach(from)]]
    /\ UNCHANGED <<manager, device, run, promise>>

\* Mutant: the address of the source is not reset
MoveConstructShares(o, from) ==
    /\ object[o] = None /\ SameKind(o, from)
    /\ Quiet(from)
    /\ object' = [object EXCEPT ![o] = object[from]]
    /\ UNCHANGED <<manager, mapped, host, device, run, promise>>

MoveConstruct(o, from) ==
    /\ object[o] = None /\ SameKind(o, from)
    /\ Quiet(from)
    /\ object' = [object EXCEPT ![o] = object[from], ![from] = Empty]
    /\ UNCHANGED <<manager, mapped, host, device, run, promise>>

\* operator=(Buffer&&).  Assigned to itself, a Buffer keeps the memory and
\* loses its size and the address.
MoveAssign(o, from) ==
    /\ Quiet(o) /\ Quiet(from) /\ SameKind(o, from)
    /\ mapped' = Unmapped(o)
    /\ object' = IF o = from THEN [object EXCEPT ![o] = [@ EXCEPT !.size = 0, !.address = FALSE]]
                 ELSE [object EXCEPT ![o] = object[from], ![from] = Empty]
    /\ host' = Forgotten(host, 0) /\ device' = Forgotten(device, 1)
    /\ UNCHANGED <<manager, run, promise>>

Swap(o, p) ==
    /\ Quiet(o) /\ Quiet(p) /\ SameKind(o, p)
    /\ object' = [object EXCEPT ![o] = object[p], ![p] = object[o]]
    /\ UNCHANGED <<manager, mapped, host, device, run, promise>>

\* fill_from throws when the sizes differ
FillFrom(o, from) ==
    /\ Quiet(o) /\ Quiet(from) /\ SameKind(o, from)
    /\ object[o].size = object[from].size /\ object[o].size > 0
    /\ host' = [host EXCEPT ![Reach(o)] = host[Reach(from)]]
    /\ UNCHANGED <<manager, object, mapped, device, run, promise>>

\* operator[] throws beyond the size
Write(o, v) ==
    /\ Quiet(o)
    /\ object[o].size > 0
    /\ host' = [host EXCEPT ![Reach(o)] = v]
    /\ UNCHANGED <<manager, object, mapped, device, run, promise>>

Destroy(o) ==
    /\ Quiet(o)
    /\ mapped' = Unmapped(o)
    /\ object' = [object EXCEPT ![o] = None]
    /\ host' = Forgotten(host, 0) /\ device' = Forgotten(device, 1)
    /\ UNCHANGED <<manager, run, promise>>

-----------------------------------------------------------------------------
(******************************* FPGAManager *******************************)

\* load_xclbin: the devices, the context and the program, or an exception
LoadXclbin ==
    /\ manager = "empty"
    /\ manager' \in {"loaded", "failed"}
    /\ UNCHANGED <<object, mapped, host, device, run, promise>>

\* main releases after the Application has gone
Release ==
    /\ manager = "loaded"
    /\ Live = {} /\ Running = {}
    /\ manager' = "released"
    /\ UNCHANGED <<object, mapped, host, device, run, promise>>

-----------------------------------------------------------------------------
(********************************* kernels *********************************)

Result(seen) == (seen[1] + seen[2] + 2 * seen[3] + 1) % Cardinality(Values)
Seen(mem, read) == <<mem[read[1]], mem[read[2]], mem[read[3]]>>

\* The arguments and the three commands that run() enqueues
Job(in, read, write, back) ==
    [in |-> in, read |-> read, write |-> write, back |-> back, done |-> {}]

Start(k, job, filled) ==
    /\ manager = "loaded" /\ run[k] = Idle
    /\ \A l \in Running :
        /\ WorkedOn(l) \cap job.write = {}
        /\ (job.in \cup job.write) \cap run[l].write = {}
    /\ host' = filled
    /\ run' = [run EXCEPT ![k] = job]
    /\ promise' = [promise EXCEPT ![k] = Result(Seen(filled, job.read))]
    /\ UNCHANGED <<manager, object, mapped, device>>

Usable(o) == o \in Live /\ object[o].address

RunVadd(a, b, c) ==
    /\ Usable(a) /\ Usable(b) /\ Usable(c)
    /\ Start("vadd", Job({Reach(a), Reach(b)}, <<Reach(a), Reach(a), Reach(b)>>,
                         {Reach(c)}, Reach(c)), host)

\* synchronized_run of the registration: the pose goes into in_transform
RunReg(map, points, pose) ==
    /\ Usable(map) /\ Usable(points)
    /\ Start("reg", Job({Reach(map), Reach(points), "in"}, <<Reach(map), Reach(points), "in">>,
                        {"out"}, "out"), [host EXCEPT !["in"] = pose])

\* run of the TSDF kernel: new_entries is cleared, and does not come back
RunTsdf(map, points) ==
    /\ Usable(map) /\ Usable(points)
    /\ Start("tsdf", Job({Reach(map), Reach(points), "new"}, <<Reach(map), Reach(points), "new">>,
                         {Reach(map), "new"}, Reach(map)), [host EXCEPT !["new"] = 0])

\* Mutant: the results are fetched whether or not the kernel has run
WaitsForInput(command) == IF command = "execute" THEN {"pre"} ELSE {}

\* The queue is out of order: the lists of events are all that orders it
WaitsFor(command) ==
    CASE command = "pre"     -> {}
      [] command = "execute" -> {"pre"}
      [] command = "post"    -> {"execute"}

Ready(k, command) == command \notin run[k].done /\ WaitsFor(command) \subseteq run[k].done
Done(k, command)  == run' = [run EXCEPT ![k].done = @ \cup {command}]

MigrateIn(k) ==
    /\ Ready(k, "pre")
    /\ device' = [m \in DOMAIN device |-> IF m \in run[k].in THEN host[m] ELSE device[m]]
    /\ Done(k, "pre")
    /\ UNCHANGED <<manager, object, mapped, host, promise>>

\* What is left in new_entries is never used
Execute(k) ==
    /\ Ready(k, "execute")
    /\ device' = [m \in DOMAIN device |->
                    IF m \in run[k].write
                    THEN (IF m = "new" THEN 1 ELSE Result(Seen(device, run[k].read)))
                    ELSE device[m]]
    /\ Done(k, "execute")
    /\ UNCHANGED <<manager, object, mapped, host, promise>>

MigrateOut(k) ==
    /\ Ready(k, "post")
    /\ host' = [host EXCEPT ![run[k].back] = device[run[k].back]]
    /\ Done(k, "post")
    /\ UNCHANGED <<manager, object, mapped, device, promise>>

\* waitComplete waits for the last event only
WaitsUntil == {"post"}
WaitComplete(k) ==
    /\ run[k] # Idle
    /\ WaitsUntil \subseteq run[k].done
    /\ run' = [run EXCEPT ![k] = Idle]
    /\ promise' = [promise EXCEPT ![k] = 0]
    /\ UNCHANGED <<manager, object, mapped, host, device>>

-----------------------------------------------------------------------------

Init ==
    /\ manager = "empty"
    /\ object = [o \in Objects |-> None]
    /\ mapped = [m \in Memories |-> 0]
    /\ host = [m \in Memories \cup Private |-> 0]
    /\ device = [m \in Memories \cup Private |-> 1]
    /\ run = [k \in Kernels |-> Idle]
    /\ promise = [k \in Kernels |-> 0]

BufferStep ==
    \/ \E o \in Objects, n \in Sizes : Construct(o, n)
    \/ \E o \in Objects, v \in Values : Write(o, v)
    \/ \E o \in Objects : Destroy(o)
    \/ \E o, p \in Objects :
        CopyConstruct(o, p) \/ MoveConstruct(o, p) \/ MoveAssign(o, p) \/ Swap(o, p) \/ FillFrom(o, p)
RunStep ==
    \/ /\ "vadd" \in Kernels
       /\ \E a, b \in InputBuffer, c \in OutputBuffer : RunVadd(a, b, c)
    \/ \E map \in InputOutputBuffer, points \in InputBuffer :
        \/ "tsdf" \in Kernels /\ RunTsdf(map, points)
        \/ "reg" \in Kernels /\ \E v \in Values : RunReg(map, points, v)

Next ==
    \/ LoadXclbin \/ Release \/ BufferStep \/ RunStep
    \/ \E k \in Kernels : MigrateIn(k) \/ Execute(k) \/ MigrateOut(k) \/ WaitComplete(k)

Spec == Init /\ [][Next]_vars
-----------------------------------------------------------------------------
(******************************* properties ********************************)

\* A memory is mapped as long as one Buffer holds its address, by no two at a
\* time, and no longer: whatever was copied, moved, swapped or destroyed, the
\* memory of no Buffer is unmapped twice or kept for ever.  A Buffer without
\* an address has no element that one could ask for.
OneOwner ==
    /\ manager \in {"empty", "loaded", "failed", "released"}
    /\ \A m \in Memories :
        mapped[m] = Cardinality({o \in Live : Reach(o) = m /\ object[o].address})
    /\ \A m \in Memories : mapped[m] <= 1
    /\ \A o \in Live : (object[o].size > 0) = object[o].address

\* When waitComplete returns, the caller finds what the kernel makes of the
\* contents its arguments had when it was started, whatever else is in the
\* queue: it has neither run nor come back too early, and the new entries of
\* the last cloud are gone.  Until then there is always a command that waits
\* for nothing
ReturnsResult ==
    \A k \in Running :
        IF WaitsUntil \subseteq run[k].done THEN host[run[k].back] = promise[k]
        ELSE \E command \in {"pre", "execute", "post"} : Ready(k, command)
=============================================================================
