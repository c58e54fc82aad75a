# TLA+ models of FastSense (HATSDF-SLAM)

FastSense runs on a Trenz UltraScale+ board.  A Velodyne lidar and a Phidget IMU
feed a chain of threads that registers every point cloud against a truncated
signed distance (TSDF) map and, from time to time, integrates a cloud into the
map.  The map around the sensor lies in a window in memory that the FPGA kernels
work on; the rest of it lies in an HDF5 file.  A PC that runs ROS shows what the
board measures, or plays recordings to it.

This directory holds TLA+ modules that model the parts of the program in which
the order of events or the bookkeeping of indexes matters, TLC configurations
that check them on small instances, and theorems about them that TLAPS checks
for every value of the constants.  `PROJECT.json` lists the components, the
runs, a mutant of the code for every property, the source lines of every
definition, the hazards and the theorems.

    tlasany M.tla                       parse a module
    tlc -workers 2 -config X.cfg M      check a run (the module of a cfg is in PROJECT.json)
    tlapm M.tla                         check the proofs of a module

## 1. The system

    VelodyneDriver ──► pointcloud_buffer ──► Preprocessing ──► pointcloud_bridge_buffer
     (or the receiver         │                   │                     │
      of the ROS bridge)      │                   ▼                     ▼
                              │        pointcloud_send_buffer ◄── CloudCallback ──► transform_buffer
                              │                   │                │        │               │
                              │              QueueBridge      register      go()       QueueBridge
                              │                   ▼                │        ▼               ▼
                              │                 socket        map_mutex  MapThread       socket
                              │                                    │        │
                              │                                 LocalMap ◄──┘ swap
    Imu ─► imu_buffer ─► QueueBridge ─► imu_bridge_buffer             │ shift, write_back
                              │               │                   GlobalMap ◄──► HDF5 file
                              │               ▼
                              │        ImuAccumulator (called by the registration)
    button, signals ─► Application::run, which starts and stops all of these threads

| component | state | operations | interacts through | hard about it | what makes it correct |
|---|---|---|---|---|---|
| ConcurrentRingBuffer | array, two indexes, `size_`, mutex, two condition variables | push, push_nb (with or without force), pop, pop_nb, pop_if, pop_nb_if, peek, peek_nb, clear | shared memory between any number of threads | one `notify_one` per element, forced pushes, thefts, timeouts, spurious wake-ups | a bounded FIFO; nobody sleeps while there is something to do |
| CloudCallback | pose, first_iteration | pop, register, go, publish | map_mutex, `MapThread::go`, buffers | registers while the map thread works | one registration sees one map; every cloud is published |
| MapThread (SUV) | `active_`, `start_mutex_`, `reg_cnt_`, the job, a copy of the map | go, thread_run, stop | handshake with the callback, map_mutex | a mutex used as a semaphore, data handed over without a lock | the job is private; no accepted cloud is integrated twice, and none is lost but the last one before a stop; stop returns |
| GlobalMap | active chunks with ages, the file | get_value, set_value, activate_chunk, write_back | called by LocalMap | a write-back cache with its own replacement | a memory: every cell holds what was written last |
| LocalMap | a ring on three axes: `pos_`, `offset_`, `data_` | value, shift, save/load_area, write_back, swap, fill_from | GlobalMap, the kernels, MapThread | index arithmetic modulo the size, inclusive areas, three axes after each other | with the global map, one memory; a shift changes no cell |
| Preprocessing, QueueBridge, receivers, sender | a cloud in hand | pop, scale, filter, push, send | buffers of shared pointers | several threads hold the same points | what is registered is filtered once, clouds stay in order, the newest one is not lost |
| ImuAccumulator, Imu driver | time of the last message, `first_imu_msg_` | data_handler, acc_transform | two buffers that drop, a bridge that delays | messages late or lost; lives longer than a session | no time is integrated twice or left out; only what was before the cloud |
| Application, Runner, ProcessThread | `running`, the worker of every thread, the sessions | start, stop, clear | starts and stops all others | order of eight destructors, data left over from before | no thread runs when the maps are written; nothing old is registered; stopping ends |
| VelodyneDriver | socket, current scan | start, receive, decode | UDP socket, pointcloud_buffer | polls in an inner loop | a stop is seen |
| TSDF kernel, host side and HLS | new entries, map data | read_points, update_tsdf, sync_loop, four lanes | LocalMap's buffer | four lanes on the same cells | the cells are covered once, the best value wins |
| Registration and its kernel | the pose, H, g, the last four errors | register_cloud, synchronized_run, reg_dataflow, the solver, LocalMapHW | LocalMap's buffer, ImuAccumulator | lanes over a cloud of any length, a second implementation of the ring, NaN | every point is sampled once, in the cell where it is; it ends; it turns about the scanner |
| filters of a scan | a cloud | the four reductions, the median filter | called by Preprocessing | rounding around 0, rings side by side | a point per voxel, and it stays there; rings do not mix |
| SlidingWindowFilter | the last values, their mean | update | Imu driver, RuntimeEvaluator | the mean is updated by a difference and never computed anew | it is the mean of the window |
| RuntimeEvaluator | a form per task, one common start, the histogram | start, stop, pause, resume, to_string | called by CloudCallback | takes its own time out of all running tasks | a task's time is what passed without the evaluator |
| hw buffers, kernel wrappers, FPGAManager | handles on OpenCL memories, three events per kernel | construct, copy, move, swap, fill_from, destroy, run, waitComplete | the kernels, LocalMap, vectors of points | ownership; an out-of-order command queue | every mapping is undone once; who waits finds the result of what he passed |
| messages, Sender, Receiver | the parts of a message | conversions, send, receive | ZeroMQ | messages are lost; one object receives all | what arrives is what was sent |
| ROS bridges (`ros/`) | the message received last, the path of poses | receive, convert, publish, the callbacks in the other direction | ZeroMQ, ROS | a second thread publishes; the path is thinned; scalings and handedness | what is published was measured, with its stamp |
| evaluation nodes (`ros/`) | the file of poses | save, read back, follow LOAM | ROS, files | a file that cannot be opened | the file holds the poses |
| Led, Button | frequency, level of a line | blink, wait for press | GPIO | member order, level instead of edge | the LED does what it is told |
| configuration, logging, PCD files | data only | parse, print | files | little | round trips |

The base design, the tests, the examples and the player of recordings
(`kitti_to_ros`) are not part of what runs and are not modelled.

## 2. The modules

| module | models | composes |
|---|---|---|
| `Fifo` | what ConcurrentRingBuffer promises: a bounded FIFO queue | |
| `RingBuffer` | ConcurrentRingBuffer | refines `Fifo` |
| `RingBufferProofs` | theorems about it | |
| `MapThread` | CloudCallback, MapThread and the part of Application::run that starts and stops them | |
| `MapThreadProofs` | theorems about it | |
| `Memory` | what a map promises: a cell holds what was written to it last | |
| `GlobalMap` | GlobalMap and the file | refines `Memory` |
| `GlobalMapProofs` | theorems about it | |
| `LocalMap` | LocalMap over a `Memory`, as GlobalMap is one | refines `Memory` |
| `LocalMapProofs` | theorems about it | |
| `CloudPipeline` | the way of a cloud: source, Preprocessing, callback, send bridge | queues as `Fifo` |
| `CloudPipelineProofs` | theorems about `CloudPipeline` and `Wire` | |
| `ImuAccumulator` | bridge, accumulator, and the sessions around them | |
| `SlidingWindow` | SlidingWindowFilter, with the arithmetic of the messages | |
| `RuntimeEvaluator` | RuntimeEvaluator, as functions from one state to the next | `SlidingWindow` |
| `Sensors` | the Imu driver, and CloudCallback's calls of the evaluator | `ImuAccumulator`, `SlidingWindow`, `RuntimeEvaluator` |
| `TsdfKernel` | one run of the TSDF kernel: ray marching, interpolation, merging, the lanes | |
| `TsdfKernelProofs` | theorems about it | |
| `ScanFilters` | the filters of Preprocessing, as functions of a cloud | |
| `RegKernel` | Registration::register_cloud and krnl_reg with LocalMapHW | `ScanFilters` |
| `Fpga` | buffers, kernel wrappers, FPGAManager and the command queue | |
| `FpgaProofs` | theorems about `Fpga` and `RegKernel` | |
| `Codec` | the messages, and the conversions between board, socket, ROS and file | |
| `Wire` | Sender, Receiver, the ROS bridges and the evaluation nodes | `Codec` |
| `Session` | Application::run, Runner, ProcessThread, and what the threads leave behind in the socket and the buffers | |
| `SessionProofs` | theorems about `Session` and about `Sensors` | |

The modules `MC...` only give values to constants (`MCFpga` also a symmetry).

**RingBuffer.**  The mutex makes one action of every part of a call that runs
without releasing it.  `where[t]` says where thread t is: outside, asleep on one
of the two condition variables, notified or timed out and on its way back to the
mutex.  `call[t]` is the call it is in.  A notification takes any sleeper of its
condition variable; a sleeper may also wake for no reason.  `Program` gives every
thread the operations it calls.

**MapThread.**  Every statement of the two loops, of `go` and of `stop` at which
the other thread can observe or change something is an action: `GoDecide` reads
the map's position, `GoTest` tests `active_`, `GoFill` and `GoActivate` write the
job, `GoSignal` unlocks `start_mutex_`, and so on.  A map is the position of its
centre and the set of clouds integrated into it.  A registration yields any
position, or NaN.

**GlobalMap.**  `active` is `active_chunks_` with the ages, `file` the data sets,
`activate_chunk` the operator `Activations`.  `WriteActive` is the loop of `write_back`
over the slots; `WriteChunk` writes one slot into its data set or a new one, there and at
an eviction.  Positions are on a line: what the code does per axis it does once.  The data
set's name is the chunk's position.

**LocalMap.**  `Shift` is the call with its assertion, `ShiftAxis` and
`SkipAxis` one turn of its loop.  `Visited` is what the nested loops over chunks
and deltas of `save_load_area` visit on one axis, `Index` is `get_index` before
it is flattened.  The global map is a function from cells to values, which is
what `GlobalMap` is shown to implement.

**CloudPipeline.**  All buffers hold pointers, so `steps[c]` (what was done to
the points of cloud c) is shared state, and `BeginCopy`/`Send` make visible that
the bridge copies the points while others may change them.

**ImuAccumulator and Sensors.**  A message is its stamp, a cloud its stamp, a rotation the
span of time it is integrated over.  `Accumulate` is one turn of the loop in
`acc_transform`.  Sessions come and go around the accumulator, as `registration`
is a local variable of `Application::run` outside its loop.  `Sensors` gives a
message its contents: the driver opens the device once (`OpenDevice`), calibrates it
and ends again (`Calibrate`, `StopCalibrated`), and after that converts, filters and
pushes what the device reports, in as many sessions as come.  `PopStartsTotal` ..
`LogReport` are the calls of the evaluator in `CloudCallback::thread_run`; a call
makes the evaluator `busy` from `pause` to `resume` (`ResumeAll`), and `TickCounts`
adds a tick to `spent` of every task that runs while it is not.

**TsdfKernel.**  Rays and cells lie in a plane through the scanner; all arithmetic is
the code's, with its truncations.  `Ray` is everything `read_points` sends for one
point, `Interpolated` the cells that `update_tsdf` visits for one message.
`ReadEntry` and `WriteEntry` are two steps, as the lanes use the same memory;
within a lane a turn of the loop ends before the next one begins, as in C++.  `Ray` is a function
from the length of the ray to its message, of which `First` picks the next.  The
map is centred on the scanner and its ring, which `LocalMap` models, left out.

**ScanFilters and RegKernel.**  `phase` follows a cloud from the scan (`Reduce`) over the
imu's estimate (`ApplyImu`) and the turns of `registration_loop` (`Iterate`) to the
points that are moved into the map (`MoveCloud`).  Rotations are by quarter turns, so
that a matrix is one of whole numbers, and translations count half millimetres, so that
conversions to whole ones round.  What the solver returns is any of `Motions` or not a
number; the solver itself (`LuDecomposition`, `LuSolve`) computes modulo a prime, where
every equation that holds does so exactly.  `LuTurn` is one turn of its outer loop,
`Forward` and `Backward` are the two loops of `lu_solve`.  `RegistrationStep` is the work of a lane,
`RegDataflow` the sum of the lanes.  `Get` reads the array through `GetIndex`, which
reduces by comparisons; `Home` is where LocalMap has put the cell.

**Fpga.**  `object[o]` is the Buffer in a place: a memory, a size and whether it has the
virtual address; `mapped` counts the mappings of a memory.  Every constructor,
assignment, `swap` and the destructor is an action, and they come in any order.  A
memory's contents are one value on the host and one on the device.  `run[k].done` are
the commands of a kernel that have run: `MigrateIn`, `Execute` and `MigrateOut` happen
when the events they wait for (`WaitsFor`) have happened.  What a kernel computes is
some function of its arguments; the other modules say which.

**Codec and Wire.**  `Wire` is one connection at a time: `kind` tells which, as every
bridge has its own threads and sockets.  `SendMeasured` puts the parts of a message into
the socket if there is room and somebody has subscribed; `ReceiveFromBoard` overwrites
`msg`, the one object that receives all messages.  `Convert` and `Publish` are the two
calls of a bridge's loop; `ReceiveIntoRing` and `PopRing` the way back to the board.
The bridge of the transformations has a second thread, so that `SendTransform` and
`SendPath` are two steps under `mtx`, and thins its path (`Thin`).  `SaveCallback` is the node
that writes the poses into a file; `FromCamera` reads them back.

**Session.**  `Runners` is the order of the eight Runner objects.  Every thread
alternates between testing `running` and one turn of its loop.  A cloud is the
number of the session in which it came, so that old ones can be told from new
ones.  The driver's socket stays open between the sessions.  The lidar's thread and
Preprocessing take a cloud in one step and pass it on in another; in between they have it
in `received` and `inCloud`, which nothing clears.

## 3. The runs

Every property of a passing run is also checked against a mutant of the code that
must violate it (`mutants` in PROJECT.json).

| run | instance | what it shows |
|---|---|---|
| `ring_fifo` | 3 threads, 2 slots, 2 values, all operations | indexes and size describe one window of the array (`RingInv`), no wake-up of a sleeping push is lost (`PushWakeups`), the class implements `Fifo` |
| `ring_bridge` | a producer, two consumers, one of which also clears; 2 slots; fair | when all that wake take an element, no wake-up of a pop is lost (`PopWakeups`); no pop sleeps for ever beside a push (`PopBlocksOnlyUntilPush`) |
| `map` | 4 clouds, 3 positions, NaN, period 2, threshold 1; fair | the handshake (`JobIsPrivate`), the contents of the maps (`EveryCloudOnce`), the isolation of a registration; every cloud is published and every accepted one integrated unless the session is stopped (`EveryCloudArrives`), stop returns |
| `global_map` | 5 cells, 3 chunks, one negative; 2 slots, 2 values | a chunk is active once, the cache is a memory, the loop of write_back saves all |
| `local_map` | 2 axes, window 3x3, chunks of 2, centre up to 2 from 0 | no two cells share a slot, local and global map are one memory that a shift does not change, write_back saves all |
| `pipeline` | 3 clouds, buffers of 1, all configurations; fair | what is registered or sent was filtered exactly once, in order (`ArriveInOrder`); the newest cloud is registered |
| `sensors` | 2 sessions, 3 ticks, 2 ticks per ms, 3 clouds, buffers and windows of 2, a report after 2 clouds | the integrated spans have no gap and no overlap, a cloud takes what came before it, the filter yields the mean of the window, the evaluator the time the tasks took |
| `session` | 2 sessions, socket of 1, both sources; fair, the lidar sends | nothing runs when the maps are written and the callback never outlives the map thread (`ThreadsAreOrdered`), no stale cloud is registered if a second is long enough, stopping terminates |
| `tsdf` | 2 lanes, 7x3 cells, 2 or 3 points, 4 kinds of old entries | no entry is made up and the smallest value wins where a lane is alone (`EntriesAreOffered`), every cell is merged once, no average overshoots |
| `registration` | 4 scans of 0 to 5 points, 3 lanes, a map of 5x3x3 cells, 2 imu motions, 4 motions and NaN, 5 iterations | a reduced cloud has one point of every voxel, rings do not mix, the lanes cover the cloud, the kernel reads the cells where they are, the loop ends when the error settles, the pose turns about the scanner, the solver solves |
| `fpga` | 5 places for buffers of three kinds, 3 memories, 2 sizes, 2 values, all 3 kernels | every memory is mapped for one owner and unmapped once, a result is that of the arguments |
| `wire` | 7 kinds of connections, 3 or 5 messages, a socket of 2, a path of 4 | what is published was measured, whole, in order and with its stamp; path and transformation belong together; the file has all poses |

Where the code is weaker than one might think, or than its comments say, the properties
say what does hold:

- A peek or a declined conditional pop uses up a notification, so `PopWakeups` and
  `PopBlocksOnlyUntilPush` are about consumers that take what they wake for.
- The first cloud of a session is written into the local map after the map thread made its
  copy, so that the first swap may take it out again, or before it, so that it may be
  integrated twice: the exception in `EveryCloudOnce`.
- The map thread tests `running` again when it has its signal (`map_thread.cpp:83`): a cloud
  that `go` accepted just before `stop` is never integrated, and `active_` stays set.  It is
  the disjunct `Abandoned` of `EveryCloudOnce`, and the promise of `EveryCloudArrives` ends with the stop.
- A chunk that replaces another one keeps the age 0 (`global_map.cpp:61`), so that the next
  eviction may not be of the one that was used least recently, as `global_map.h:117` says;
  no value depends on it.
- A message up to a millisecond younger than the cloud counts as before it
  (`TakesWhatWasBefore`); the first message of a session is integrated from the last one
  of the session before it (`EveryMomentOnce`).
- A magnetic field the device does not know is NaN (`magnetic_field.h:57`), and the mean of
  the filter (`filter.h:92`) never recovers from it (`FilteredIsMean`).
- The evaluator's maximum leaves out the first measurement, and its running average of
  the first 100 is their sum divided by 100 (`FormsAreMeasured`).
- With `send_original` the cloud that is sent shares its points with the one that is
  preprocessed (`preprocessing.cpp:69`), so that it may be scaled and filtered when it is
  sent: `ArriveInOrder` is not about its contents.
- While the lidar is silent, the driver's inner loop (`velodyne.cpp:203`) does not see that
  it should stop, and `Runner` waits for it: `SessionEnds` assumes that the lidar sends.
- Two lanes of the TSDF kernel that update the same cell may lose the smaller value, though
  `krnl_tsdf.cpp:226` always wants it: `EntriesAreOffered` promises it for cells that one
  lane has to itself.
- Without any rotation, or with no point in a known cell, the axis (`krnl_reg.cpp:43`) and
  the error are 0/0, and the pose is lost (`ScannerMoves`).  The errors before the
  first iteration are 0 (`krnl_reg.cpp:340`), so that the loop may end when the error
  is near 0 rather than when it has settled (`StopsOnHistory`).
- A buffer that is assigned to itself keeps its memory, but loses its size and its mapping.
- The buffers are cleared a second time after `sleep_for(1s)` (`application.cpp:271-277`), but
  not the hands of the threads.  A cloud of before the session that is still in the socket then,
  or that Preprocessing has popped (`preprocessing.cpp:49`) and pushes after the clear (line 83),
  is registered.  `NoStaleClouds` holds under the assumption `LongEnough` that a second suffices
  for that; clouds in the buffers are covered without it.
- Nothing clears `pointcloud_send_buffer` between two sessions (`application.cpp:226`); the
  send buffer is therefore not among those of `NoStaleClouds`.

**Bounds.**  A ring of two slots wraps in both indexes, is empty, full and in
between; three threads give a thief beside a sleeper and a notifier.  Four clouds
let the first (special) cloud, an accepted, a refused and a later accepted one
occur in one session, with a period of two that is reached and passed.  Three
chunks compete for two slots, and one of them is at a negative position, where
rounding matters.  A window of 3x3 over chunks of 2 has chunk borders inside and
outside, is shifted by 1, 2 and 3 (its whole size) and by more than one axis at
once.  Buffers of one element are what `lidar.bufferSize` is in
`app_data/config.json`; three clouds fill both of them and the hand of Preprocessing.
Two sessions are enough for something of the first one to turn up in the second.
With two lanes and three points the last lane has two rays through the same cells and
the first one a ray that shares some of them; 21 cells are not divisible by two.
Three ticks of half a millisecond put messages and clouds on both sides of a
boundary, windows of two are full and slide, and the third cloud comes after the
report.  Scans of 0, 4 and 5 points, reduced, leave the three lanes 0, 1 or 2 points; the
ring of the map begins in its middle, the scans lie on both sides of 0 and partly
outside the window, and five iterations are one more than the errors that are
remembered.  Three memories are one more than most kernels need, so that buffers change
hands while one runs, and two kernels can be in flight.  A socket of two is overrun by three
messages, and a path of four is thinned by the fourth pose.

**Deadlock** is checked, and modules whose environment is used up stutter
explicitly (`Saved`, `PollTimeout`, `Returned`), except in four runs that end:
`registration` with the moved cloud, `fpga` with a manager that failed or was released,
`wire` and `sensors` with the last message and tick.

**Fairness.**  Weak fairness of every thread: the scheduler runs every thread that
can run, and polls come back after their timeout.  A thread that waits for
`map_mutex` is only promised it when the other one leaves it for good.  Nothing is
assumed of the user, of the sensors (except in `session`, where the lidar sends) or of
the main thread's decision to clear a buffer.  `Session` takes the one second that
`Application::run` sleeps to be long enough (`LongEnough`) to empty the lidar's socket of what
came before, and for the lidar's thread and Preprocessing to pass on what they had in hand.

## 4. The proofs

All theorems hold for every value of the constants that satisfies the named assumptions of
the module.

**RingBufferProofs.** `Safety`: `TypeOK /\ RingInv`. `RingInv` is inductive once the
thread part is added: a thread that sleeps or is on its way is inside a call it may make
(`ThreadsOK`). One lemma per helper (`DoPushOK`, `DoPopOK`, `DoPopPushOK`, `ClearRingOK`)
says that it keeps the window, `WrapInSlots` and `SlotsDiffer` are the arithmetic of the
wrap by comparison. `Refinement`: `Spec => ImplementsFifo`, from `Safety` and from one
lemma per helper that says what it does to `Contents` (`DoPushAppends`,
`DoPopRemovesHead`, `DoPopPushReplaces`, `ClearRingEmpties`), then one case per action.
`PushWakeupsAlways` and `PopWakeupsAlways` say that no wake-up is lost. A property of this
kind counts the threads that were woken, so the set of threads is finite
(`ThreadsAssumption`), and it is inductive together with `IInv` once one knows that a
thread asleep on a condition variable waits for what that variable announces
(`SleepersOK`). `WokenAreCounted` is what happens to a count when a thread is woken or
leaves; the argument is that a step that frees a slot also wakes a sleeper, if there is
one. `PopWakeupsAlways` has a hypothesis, which the run `ring_bridge` has in its
`Program`: no thread peeks or pops under a condition. The hazard at
`concurrent_ring_buffer.tcc:162` is that without it the statement is false.

**MapThreadProofs.** The invariant `IInv` has seven parts. `Lifecycle` ties the two
threads to the main thread; `Handshake` is the heart: until stop, `start_mutex_` is free
only on the way from go to the map thread, and `active_` is set from before that until the
SUV is over; `Locks` says who holds map_mutex; `Contents` and `Fresh` say which clouds
each map must and must not hold at every step of the map thread, and
`CopyLagsByFirstCloud` that outside a SUV the two maps differ at most in the first cloud.
None of the properties is inductive by itself: that the job is private follows only from
where the signal is. From it follow `TypeCorrect`, `HandshakeCorrect`, `MapsComplete`
(`EveryCloudOnce`) and `RegistrationIsolated`. `MapsComplete` says of an accepted cloud that
is not in the local map that it is the last one accepted, and that it is in progress or was
abandoned because of a stop; for that `Lifecycle` knows that the map thread ends only when
it is stopped, and `Contents` that the job has the latest cloud.

**GlobalMapProofs.** `IInv`: no two slots hold the same chunk and all slots are well
formed (`SlotsOK`), and so is the file (`FileOK`). The lemmas are about the operators of
the cache: `HitOK`, `LoadOK` and `ReplaceOK` say that each of the three cases of
`activate_chunk` keeps the slots apart and, above all, changes no `Content` - what a cell
holds, in a slot or in the file - whatever slot is evicted. `IndexesDiffer` is that two
cells never share a place. From it follow `ActiveOnceAlways`, the refinement
`CacheIsMemory` (`Spec => ImplementsMemory`), and `FileHasMap`. For this one, `WriteChunkOK`
says what one data set's write changes, `WroteOneMore` that a turn of write_back's loop puts
one more slot into the file and leaves the slots before it there, which needs `ActiveOnce`:
a second slot of the same chunk would overwrite it. `LoopWritesAll` puts the turns together.

**LocalMapProofs.** The heart is arithmetic on one axis, for any odd size and any
distance: `AtInjective` (no two cells of a window share a slot), `AtMoved` (a cell that
stays in the window stays in its slot when position and offset move together), and
`VisitedIsInterval` (the loops over chunks and deltas visit exactly `from .. to`, with a
chunk at each end cut off). `LeavingLeaves` and `EnteringEnters` say that the area saved
is what leaves the window and the area loaded what enters it. `IInv` is `TypeOK` with
`WithinReach`: on the axes that a shift has not reached, it has at most the size of the
window to go, so that what leaves and what enters are at most the whole window. Each of
the three axes of a shift is shown to change no cell of it, so the whole shift does not
either: `ShiftsKeepWorld`, beside `OneCellPerSlotAlways` and `WriteBackSaves`.

**CloudPipelineProofs.** About `CloudPipeline`: `ArriveInOrder` is about three ends of the pipeline; the
invariant says of every segment of the way that the clouds in queue and hand are ascending
and behind those further on (`InOrderToPreprocessing`, `InOrderToCallback`,
`InOrderRegistered`, `InOrderToSender`), and of every cloud how far its points have been
treated where it is (`TreatedSoFar`, `TreatedWhenSent`). `NobodyElseHasIt` is needed
because the points are shared: while Preprocessing treats a cloud, no queue behind it has
it, unless `send_original` put it there.

About `Wire`: `WireInv` follows a measurement from the socket to the ROS side. `LinkInv`
says that the messages on the way are those of measurements, in their order
(`SocketHolds`), and that the object that receives them holds an earlier one
(`MessageHolds`); `OutInv` that what was published, what the bridge has converted and what
waits in the ring came before what is still to come. What a message loses between two
conversions is in lemmas about `Codec`: `ScaledBack` and `BoardTruncates` (the way to the
board), `MessageArrives` (parts and back), `RosShows`, `PoseIsShown` (handedness and
millimetres). A map becomes a marker. `WindowIsCells` and `IndexesDiffer` say that the
window of the bridge has the cells around the position and that no two of them share an
index, `MapArrives` that the bridge therefore finds the entry of every cell at its index.
`SharesCover` is about the ranges of the bridge's threads, which are disjoint and cover the
window, `ThreadPushes` about the points that one of them makes, `PiecesJoined` about the
pieces put together in the order of the threads; with them `MarkerShows` says that the
marker has one point for every cell that is to be shown, in its place and colour, and no
other. `NothingLeft` says that the message the code appends to is empty outside a publish.
Hence `PublishedIsMeasuredAlways`, for all connections. `PathInv` is about the two
threads of the transformation: `PathFits` says that a path has the first pose, keeps the
order, ends with the latest poses and misses none of them, `ExtendedFits` and
`ThinnedFits` that adding and thinning keep this, `LockHolds` that whoever is between the
two halves of a publish has `mtx`, so that the path he sends (`ShownHolds`) still belongs
to the transformation he sent. `FileInv` says that the file is what was walked while it
was open; `CameraAndBack` is the change of handedness and its inverse. Hence
`PathShowsPosesAlways` and `FilesHoldPosesAlways`. `WireAssumption`, `MeasuredAssumption`
and `CodecAssumption` say that bounds, scales and the number of threads are positive, that
measurements have the right types, and that windows are odd and offsets within their rings.

**SessionProofs.** About `Session`: `Ordered` counts the Runners that were started and not
yet stopped and says of every thread what it may be doing; `Fresh` that the socket,
the hands of the lidar's thread and of Preprocessing, and the buffers hold nothing of an
earlier session as soon as the callback runs. It begins with `StartCallback`, from
`LongEnough` for socket and hands and from the second clear for the buffers. Hence
`ThreadsAreOrderedAlways` and `NoStaleCloudsAlways`. About `Sensors`: `PathInOrder` says
that messages nearer to the accumulator are older - device, `imu_buffer`, the hand of the
bridge, `imu_bridge_buffer`, `last_imu_timestamp_` - whatever forced pushes drop;
`Seamless` that the last span ends where the next message goes on; `TakenBefore` bounds
what was integrated for the cloud. `ToMsFacts` is the truncation of `duration_cast`. Hence
`EveryMomentOnceAlways` (a state property) and `TakesWhatWasBeforeAlways` (an action
property).

The filter has a mean that it only ever changes by the difference of a new and an old value.
`DriverInv` says that it is the mean of the window nevertheless (`Window`): the filter holds
the last measurements and, where none of all measurements was unknown, their sum, counted in
parts of the window; `Holds` is kept by every update (sums by `TotalUpTo`). Hence
`FilteredIsMeanAlways`, which needs that a number is not NaN (`NaNAssumption`). For the
evaluator, `EvalInv` relates the forms to the ticks that were counted: a form has the
measurements of its task and, while the task runs, the time up to the evaluator's common
start (`TasksHold`); which tasks run follows from the callback's step (`InTurn`); the
histogram counts the measurements and its bars fit the line (`HistogramHolds`, `BarsFit`).
`FormHolds` and `TaskHolds` are about one task, with a lemma per call of the evaluator. What
makes it inductive is the time that has passed since the common start: it is missing in all
tasks that run, and in none while the evaluator is busy. Hence `TaskTimeIsOutsideAlways`.
`EvaluatorAssumption` says that the running average is one of at least two measurements,
`SensorsAssumption` that readings are numbers and times in the range of their type.

**TsdfKernelProofs.** `LanesOK` says where each lane is on the cells of its message.
`EntriesOK` has the two parts of `EntriesAreOffered` - an entry is one that was offered,
and where one lane is alone with a cell it is the smallest so far - and, which makes them
inductive, what they mean for a lane between its reading and its writing (`HasRead`).
`SyncOK` says which cells each lane of `sync_loop` has merged. Lemmas: truncated division
and the average it makes (`DivisionBounds`, `MeanBetween`: the average lies between its
arguments), the ranges of the lanes (`RangesCover`: they are disjoint and cover the
array), and `FlatIsOneToOne`. `ScansAssumption` and `OldsAssumption` say that the inputs
are those of the code: points whose length is a number, and entries.

**FpgaProofs.** About `Fpga`: `OwnersOK`: two places never reach the same memory, and `mapped` is 1
exactly for the memories some Buffer holds an address of. `OneOwner` counts owners; that
there is at most one is what makes the counting trivial. `JobOK` follows the commands of a
kernel: before `Execute` the device has the arguments, after it the result, after
`MigrateOut` the host has it. Because of `OwnersOK`, nothing the program does with its
Buffers reaches a memory that a kernel works on, and no kernel works on what another one
writes (`WorkOK`), so that a job notices nothing of what is done elsewhere
(`JobUndisturbed`). `NamesAssumption` says that a memory, a private buffer and `None`
differ.

About `RegKernel`: `RegInv` has the types, what holds in which phase (`KernelPhases`),
that `previous` has the last four errors as far as there are so many (`KernelHistory`),
and where an iteration has moved the scanner (`KernelMoves`). `StopsOnHistoryAlways` needs
`KernelHistory`, because the code compares what its four variables hold and the property
speaks of the errors of two and four turns ago. For `ReadsTheMapAlways`,
`OverflowIsRemainder` says that the reduction by comparisons is the remainder for the
operands that occur, `AtDiffers` and `TwoDigits` that no two cells have the same home,
and `IndexIsHome` and `GetReads` put them together. For `ScannerMovesAlways` the matrices
are taken apart into rows (`TurnsByRows`): products of turns are turns (`ProductIsTurn`), and
so is a rotation about an axis of length 1 (`RotationIsTurn`), and `IterationMoves` bounds
what the rounding of the center adds. For `MedianStaysOnRingAlways`, `RemainderOnRing` is the
arithmetic of the window that wraps round the scan; from it `RingsAreFiltered` and
`FilterTurns`. `ReductionKeepsVoxelsAlways` follows from `RegInv` alone: `ReducedIsOneEach`,
`ClosestIsBest`, `ReducedStays`, `AverageIsIn` and `RandomStays` are about the four filters.

For `LanesCoverCloudAlways`, `KernelSums` says that the sums are those of one lane over the
cloud as it is until it is moved. `SumOfParts` is that what is summed in two parts is the sum
of all, `StretchAdds` that a lane adds its stretch to what comes before it, and `LanesAreOne`
that the stretches, of which the last one is longer, end with the cloud.

For `SolverSolvesAlways`, `KernelNumbers` says that the equations have whole numbers.
`Same` is equality modulo `Prime`, a congruence (`SameSums`, `SameProducts`), and
`OverIsQuotient` that a division gives what multiplied gives back. `LuTurnDone` says what a
turn of the decomposition leaves alone and what it makes of the rest, and `TurnOnTail` that,
for any values of the variables, it takes a multiple of the pivot's row out of every row below
it. `ForwardSolves` and `BackwardSolves` say that the loops of `lu_solve`, which work in
place, solve the lower and the upper triangle. `TurnsKeep` (a finished row or column is that
of the result) and `TailsBefore` then go backwards through the turns: what the solution adds
up to behind a column is right after a turn, hence before it, and before the first one that
is the whole equation (`LuSolves`). A pivot that is 0 is excluded by the property itself.

`MapAssumption`, `FieldAssumption` and `InputsAssumption` say that the map has an odd size
on each axis, that its offset is in the ring, that its entries are numbers and that clouds
are of vectors; `KernelAssumption` that lanes and turns are positive numbers and the weight is a
number; `PrimeAssumption` that every number below `Prime` but 0 has an inverse, which is what
the solver needs of its numbers.

Induction appears as the choice of a least counterexample (`Least` in
`GlobalMapProofs`, `LocalMapProofs` and `TsdfKernelProofs`, `SmallestOf` in `FpgaProofs`,
from `WFMin`): a set of natural numbers that is not empty has a least element. A recursive
function on `0 .. N` is proved about in the same way, by the set of the numbers for which
the statement holds (`FromZeroUp`), once it is shown to exist (`SumsExist`,
`TurningExists`, `WrittenExists`).

**Only model-checked.** All liveness properties: `PopBlocksOnlyUntilPush`, `StopReturns`,
`EveryCloudArrives`, `NewestIsRegistered` and `SessionEnds`; under fairness they need
ENABLED. Every invariant and action property of the runs is a theorem.

## 5. What is not modelled

- Rounding of floating point numbers and the overflow of `int_transform` in the
  registration kernel, the trigonometry that makes points of a lidar packet, and the
  compass correction of the IMU, which is never switched on.
- OpenCL, ZeroMQ, ROS, GPIO and the Phidget library, which are seen only through what
  the program does with them: a queue that runs what its events allow, a queue that
  loses messages, a publication, a press, a reading.
- Exceptions other than those of the evaluator and of the FPGA's manager.  On the board they
  end the program.  The loops of the ROS bridges catch them, log and go on with the next
  message (`transform_bridge.cpp:81`).
- `running` is a plain bool that two threads use; the loops call functions that lock between
  two reads of it, so the models read it anew every time.  The clock does not go backwards.
- What the FPGA does on a division by zero in the TSDF kernel, or when its pipeline
  reads an entry before an earlier turn of the loop has written it, cannot be read from
  the kernel's code.
- `Led`, whose thread writes a number to a file on which nothing depends; logging; the
  configuration, whose values are constants here; PCD files, `kitti_to_ros` and the
  playback of `pose_vis`, which format and parse files for tests and demonstrations.

PROJECT.json gives the reason for every component that is not or only partly
modelled, and for every hazard that no property covers.

## 6. The plan

Done, in this order: (1) `RingBuffer`, checked and proved; (2) `MapThread`, checked
and proved; (3) `GlobalMap`; (4) `LocalMap`; (5) `CloudPipeline`;
(6) `ImuAccumulator`; (7) `Session`; (8) `TsdfKernel`; (9) `ScanFilters` and
`RegKernel`; (10) `SlidingWindow`, `RuntimeEvaluator` and `Sensors`; (11) `Fpga`;
(12) `Codec` and `Wire`, all checked; (13) the proofs about `GlobalMap`, `LocalMap`,
`CloudPipeline`, `Session`, `Sensors`, `Fpga`, `TsdfKernel`, `RegKernel` and `Wire`, and of
the wake-ups of `RingBuffer`; (14) those of the filter, the evaluator, the sums of the lanes,
the reductions, the solver and the marker of a map.

What is left to prove is liveness. What is left to model is in section 5.
