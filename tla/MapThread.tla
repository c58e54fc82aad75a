------------------------------ MODULE MapThread ------------------------------
(***************************************************************************)
(* callback::CloudCallback and callback::MapThread: one thread registers   *)
(* every cloud against the local map; the other one shifts a copy of the   *)
(* map, integrates an accepted cloud into the copy and swaps it in (a SUV, *)
(* "shift, update, visualize").  They share the local map under map_mutex, *)
(* and hand the accepted cloud over through active_ and start_mutex_, a    *)
(* mutex used as a semaphore.  The main thread starts and stops both.      *)
(*                                                                         *)
(* A map is the position of its centre and the clouds integrated into it;  *)
(* positions lie on a line.                                                *)
(***************************************************************************)
EXTENDS Integers

CONSTANTS
    NumClouds,  \* bound: the clouds of a session
    Positions,  \* where the registration may put the sensor
    NaN,        \* what it returns when it has nothing to go by
    Period,     \* slam.map_update_period
    Threshold   \* slam.map_update_position_threshold

ASSUME NumCloudsAssumption == NumClouds \in Nat
ASSUME PositionsAssumption ==
    Positions \subseteq Int /\ 0 \in Positions /\ NaN \notin Positions
ASSUME PeriodAssumption    == Period \in Nat /\ Threshold \in Nat

VARIABLES
    main,       \* what Application::run is doing
    \* CloudCallback
    cc,         \* the next step of its thread
    ccRunning,  \* running
    cloud,      \* point_cloud: the last cloud popped (0: none yet)
    pos,        \* pose
    due,        \* position_condition || reg_cnt_condition in go
    published,  \* the last cloud whose transform was pushed
    \* MapThread
    mt,         \* the next step of its thread
    mtRunning,  \* running
    active,     \* active_
    regCnt,     \* reg_cnt_
    job,        \* points_ptr_ and pos_
    startMutex, \* start_mutex_
    tmpMap,     \* tmp_map
    \* shared
    mapMutex,   \* who holds map_mutex
    localMap,   \* *local_map
    \* history
    accepted    \* the clouds go() has taken

ccVars   == <<cc, cloud, pos, due, published>>
mtVars   == <<mt, tmpMap>>
goVars   == <<active, regCnt, job, accepted>>
runVars  == <<main, ccRunning, mtRunning>>
mapVars  == <<mapMutex, localMap>>
vars == <<main, cc, ccRunning, cloud, pos, due, published, mt, mtRunning,
          active, regCnt, job, startMutex, tmpMap, mapMutex, localMap, accepted>>

NoJob    == [cloud |-> 0, pos |-> 0]
EmptyMap == [pos |-> 0, clouds |-> {}]

Init ==
    /\ main = "start" /\ ccRunning = FALSE /\ mtRunning = FALSE
    /\ cc = "off" /\ cloud = 0 /\ pos = 0 /\ due = FALSE /\ published = 0
    /\ mt = "off" /\ active = FALSE /\ regCnt = 0 /\ job = NoJob
    /\ startMutex = "locked"            \* "The mutex starts in the wrong state."
    /\ mapMutex = "free" /\ localMap = EmptyMap /\ tmpMap = EmptyMap
    /\ accepted = {}

NoSignal == UNCHANGED startMutex
\* start_mutex_.unlock() in go and in stop
Signal == startMutex' = "free"

Distance(p, r) == IF p < r THEN r - p ELSE p - r

-----------------------------------------------------------------------------
(************************ CloudCallback::thread_run ************************)

\* Top of the loop: pop_nb delivers the next cloud or times out, which changes
\* nothing.
CallbackPop ==
    /\ cc = "top" /\ ccRunning /\ cloud < NumClouds
    /\ cloud' = cloud + 1
    /\ cc' = IF cloud = 0 THEN "first" ELSE "lock"
    /\ UNCHANGED <<pos, due, published, mtVars, goVars, startMutex, runVars, mapVars>>

CallbackExit ==
    /\ cc = "top" /\ ~ ccRunning
    /\ cc' = "done"
    /\ UNCHANGED <<cloud, pos, due, published, mtVars, goVars, startMutex, runVars, mapVars>>

\* first_iteration: the cloud goes straight into the local map, without
\* map_mutex and without the map thread.
FirstUpdate ==
    /\ cc = "first"
    /\ localMap' = [localMap EXCEPT !.clouds = @ \cup {cloud}]
    /\ cc' = "go"
    /\ UNCHANGED <<cloud, pos, due, published, mtVars, goVars, startMutex, runVars, mapMutex>>

RegisterUnlocked == UNCHANGED mapMutex
RegisterLock == mapMutex = "free" /\ mapMutex' = "callback"
BeginRegister ==
    /\ cc = "lock"
    /\ RegisterLock
    /\ cc' = "register"
    /\ UNCHANGED <<cloud, pos, due, published, mtVars, goVars, startMutex, runVars, localMap>>

\* pose = old_pose
RestoreOldPose(p) == IF p = NaN THEN pos ELSE p
EndRegister ==
    /\ cc = "register"
    /\ \E p \in Positions \cup {NaN} : pos' = RestoreOldPose(p)
    /\ mapMutex' = "free"
    /\ cc' = "go"
    /\ UNCHANGED <<cloud, due, published, mtVars, goVars, startMutex, runVars, localMap>>

(******************** MapThread::go, called from there *********************)

\* local_map_->get_pos() is read without map_mutex.
GoDecide ==
    /\ cc = "go"
    /\ regCnt' = regCnt + 1
    /\ due' = \/ Distance(pos, localMap.pos) > Threshold
              \/ Period > 0 /\ regCnt + 1 >= Period
    /\ cc' = "test"
    /\ UNCHANGED <<cloud, pos, published, mtVars, active, job, accepted, startMutex, runVars, mapVars>>

AcceptsAlways == due
Accepts == ~ active /\ due
GoTest ==
    /\ cc = "test"
    /\ cc' = IF Accepts THEN "fill" ELSE "publish"
    /\ UNCHANGED <<cloud, pos, due, published, mtVars, goVars, startMutex, runVars, mapVars>>

\* pos_, pose_, points_ptr_ and num_points_
GoFill ==
    /\ cc = "fill"
    /\ job' = [cloud |-> cloud, pos |-> pos]
    /\ accepted' = accepted \cup {cloud}
    /\ cc' = "activate"
    /\ UNCHANGED <<cloud, pos, due, published, mtVars, active, regCnt, startMutex, runVars, mapVars>>

GoActivate ==
    /\ cc = "activate"
    /\ active' = TRUE
    /\ cc' = "signal"
    /\ UNCHANGED <<cloud, pos, due, published, mtVars, regCnt, job, accepted, startMutex, runVars, mapVars>>

GoSignal ==
    /\ cc = "signal"
    /\ Signal
    /\ regCnt' = 0
    /\ cc' = "publish"
    /\ UNCHANGED <<cloud, pos, due, published, mtVars, active, job, accepted, runVars, mapVars>>

\* transform_buffer->push_nb(.., true), and with send_after_registration
\* pointcloud_buffer->push_nb(.., true): neither blocks.
Publish ==
    /\ cc = "publish"
    /\ published' = cloud
    /\ cc' = "top"
    /\ UNCHANGED <<cloud, pos, due, mtVars, goVars, startMutex, runVars, mapVars>>

-----------------------------------------------------------------------------
(************************** MapThread::thread_run **************************)

\* tmp_map(*local_map_).  Nothing orders the copy before the first iteration
\* of the callback, which may be half way through its update.
CopyMap ==
    /\ mt = "copy"
    /\ \E seen \in {{}, IF cc = "first" THEN {cloud} ELSE {}} :
          tmpMap' = [localMap EXCEPT !.clouds = @ \cup seen]
    /\ mt' = "top"
    /\ UNCHANGED <<ccVars, goVars, startMutex, runVars, mapVars>>

LoopTest ==
    /\ mt = "top"
    /\ mt' = IF mtRunning THEN "wait" ELSE "done"
    /\ UNCHANGED <<ccVars, goVars, startMutex, runVars, mapVars, tmpMap>>

\* start_mutex_.lock()
WaitForStart ==
    /\ mt = "wait" /\ startMutex = "free"
    /\ startMutex' = "locked"
    /\ mt' = "check"
    /\ UNCHANGED <<ccVars, goVars, runVars, mapVars, tmpMap>>

AfterStart == IF mtRunning THEN "shift" ELSE "done"
StartTest ==
    /\ mt = "check"
    /\ mt' = AfterStart
    /\ UNCHANGED <<ccVars, goVars, startMutex, runVars, mapVars, tmpMap>>

\* tmp_map.shift(pos_)
Shift ==
    /\ mt = "shift"
    /\ tmpMap' = [tmpMap EXCEPT !.pos = job.pos]
    /\ mt' = "update"
    /\ UNCHANGED <<ccVars, goVars, startMutex, runVars, mapVars>>

\* tsdf_krnl_.synchronized_run(tmp_map, *points_ptr_, ...)
Update ==
    /\ mt = "update"
    /\ tmpMap' = [tmpMap EXCEPT !.clouds = @ \cup {job.cloud}]
    /\ mt' = "lock"
    /\ UNCHANGED <<ccVars, goVars, startMutex, runVars, mapVars>>

LockMap ==
    /\ mt = "lock" /\ mapMutex = "free"
    /\ mapMutex' = "mapper"
    /\ mt' = "swap"
    /\ UNCHANGED <<ccVars, goVars, startMutex, runVars, localMap, tmpMap>>

SwapKeepsLock == UNCHANGED mapMutex
SwapUnlock == mapMutex' = "free"
Swap ==
    /\ mt = "swap"
    /\ localMap' = tmpMap /\ tmpMap' = localMap
    /\ SwapUnlock
    /\ mt' = "refill"
    /\ UNCHANGED <<ccVars, goVars, startMutex, runVars>>

RefillPosOnly == tmpMap' = [tmpMap EXCEPT !.pos = localMap.pos]
\* tmp_map.fill_from(*local_map_); the map is then sent from local_map_, which
\* this thread alone replaces.
RefillFrom == tmpMap' = localMap
Refill ==
    /\ mt = "refill"
    /\ RefillFrom
    /\ mt' = "finish"
    /\ UNCHANGED <<ccVars, goVars, startMutex, runVars, mapVars>>

Finish ==
    /\ mt = "finish"
    /\ active' = FALSE
    /\ mt' = "top"
    /\ UNCHANGED <<ccVars, regCnt, job, accepted, startMutex, runVars, mapVars, tmpMap>>

-----------------------------------------------------------------------------
(****************** Application::run and its two Runners *******************)

\* A Runner constructor is ProcessThread::start, its destructor stop.
StartMapThread ==
    /\ main = "start"
    /\ mtRunning' = TRUE /\ mt' = "copy"
    /\ main' = "startCallback"
    /\ UNCHANGED <<ccVars, goVars, startMutex, mapVars, tmpMap, ccRunning>>

StartCallback ==
    /\ main = "startCallback"
    /\ ccRunning' = TRUE /\ cc' = "top"
    /\ main' = "run"
    /\ UNCHANGED <<cloud, pos, due, published, mtVars, goVars, startMutex, mapVars, mtRunning>>

StopCallback ==
    /\ main = "run"
    /\ ccRunning' = FALSE
    /\ main' = "joinCallback"
    /\ UNCHANGED <<ccVars, mtVars, goVars, startMutex, mapVars, mtRunning>>

JoinCallback ==
    /\ main = "joinCallback" /\ cc = "done"
    /\ main' = "stopMap"
    /\ UNCHANGED <<ccVars, mtVars, goVars, startMutex, mapVars, ccRunning, mtRunning>>

StopMapThread ==
    /\ main = "stopMap"
    /\ mtRunning' = FALSE
    /\ main' = "signalMap"
    /\ UNCHANGED <<ccVars, mtVars, goVars, startMutex, mapVars, ccRunning>>

SignalMapThread ==
    /\ main = "signalMap"
    /\ Signal
    /\ main' = "joinMap"
    /\ UNCHANGED <<ccVars, mtVars, goVars, mapVars, ccRunning, mtRunning>>

\* Afterwards local_map->write_back() saves the local map.
JoinMapThread ==
    /\ main = "joinMap" /\ mt = "done"
    /\ main' = "save"
    /\ UNCHANGED <<ccVars, mtVars, goVars, startMutex, mapVars, ccRunning, mtRunning>>

-----------------------------------------------------------------------------

Callback ==
    \/ CallbackPop \/ CallbackExit \/ FirstUpdate \/ BeginRegister \/ EndRegister
    \/ GoDecide \/ GoTest \/ GoFill \/ GoActivate \/ GoSignal \/ Publish

Mapper ==
    \/ CopyMap \/ LoopTest \/ WaitForStart \/ StartTest \/ Shift \/ Update
    \/ LockMap \/ Swap \/ Refill \/ Finish

Stop == StopMapThread \/ JoinCallback \/ SignalMapThread \/ JoinMapThread

Main == StartMapThread \/ StartCallback \/ StopCallback \/ Stop

Saved == main = "save" /\ UNCHANGED vars

Next == Callback \/ Mapper \/ Main \/ Saved

Spec == Init /\ [][Next]_vars

\* The scheduler runs every thread that can run; a thread that waits for
\* map_mutex gets it when the other one leaves it for good, as it does after the
\* last cloud.  Whether and when the user stops the session is open.
FairSpec ==
    /\ Spec
    /\ WF_vars(Callback) /\ WF_vars(Mapper)
    /\ WF_vars(StartMapThread \/ StartCallback \/ Stop)

-----------------------------------------------------------------------------
(******************************* properties ********************************)

Maps == [pos : Positions, clouds : SUBSET (1 .. NumClouds)]
Busy == {"shift", "update", "lock", "swap", "refill", "finish"}

\* Every variable keeps its type.
TypeOK ==
    /\ main \in {"start", "startCallback", "run", "joinCallback", "stopMap",
                 "signalMap", "joinMap", "save"}
    /\ cc \in {"off", "top", "first", "lock", "register", "go", "test", "fill",
               "activate", "signal", "publish", "done"}
    /\ mt \in {"off", "copy", "top", "wait", "check", "done"} \cup Busy
    /\ {ccRunning, mtRunning, due, active} \subseteq BOOLEAN
    /\ cloud \in 0 .. NumClouds /\ published \in 0 .. NumClouds
    /\ regCnt \in Nat /\ pos \in Positions
    /\ job \in [cloud : 0 .. NumClouds, pos : Positions]
    /\ startMutex \in {"free", "locked"}
    /\ mapMutex \in {"free", "callback", "mapper"}
    /\ localMap \in Maps /\ tmpMap \in Maps
    /\ accepted \subseteq 1 .. NumClouds

\* The map thread works only on a cloud that go() gave it, though stop() also
\* releases start_mutex_, and go() overwrites pos_, pose_, points_ptr_ and
\* num_points_ only while it does not read them: no lock protects them, only the
\* order in which active_ and start_mutex_ change in both threads.
JobIsPrivate ==
    mt \in Busy => active /\ job.cloud # 0 /\ cc \notin {"fill", "activate", "signal"}

\* The cloud of the job is still to come into the local map ...
InProgress == cc = "activate" \/ (active /\ mt # "done")

\* ... or never will: stop() came before the map thread began with it, and
\* thread_run left its loop at one of the two tests of running.
Abandoned == active /\ mt = "done" /\ ~ mtRunning

\* Every cloud that go() took is in the local map, but for the last one, which may
\* be in progress or abandoned: the swap that brings in a cloud never brings back a
\* map without an earlier one, and a cloud the map thread has begun is finished.
AcceptedReachMap ==
    \A c \in accepted \ localMap.clouds :
        /\ c = job.cloud /\ (InProgress \/ Abandoned)
        /\ \A d \in accepted : d <= c

\* No cloud is integrated twice into the same map, but for the first one when
\* the copy is made late.
NoneIntegratedTwice ==
    mt = "update" => job.cloud \notin tmpMap.clouds \/ job.cloud = 1

\* No accepted cloud is integrated twice, and none is lost but the last one of a
\* session that is stopped, though three threads hand it and the two maps on while
\* the mutexes are free.
EveryCloudOnce == AcceptedReachMap /\ NoneIntegratedTwice

\* One registration sees one map.
RegistersAgainstOneMap ==
    [][cc = "register" => UNCHANGED localMap]_vars

\* A cloud that is popped leads to a published transform: the callback never hangs
\* behind the map thread.
IsPublished == (cloud > published) ~> (cloud = published)

\* Unless the session is stopped, a cloud that is accepted gets into the local map:
\* the signal of go() is not lost, wherever the map thread is.
IsIntegrated ==
    \A c \in 1 .. NumClouds :
        c \in accepted ~> (c \in localMap.clouds \/ ~ mtRunning)

\* Neither thread leaves the other's clouds lying: every cloud is published and
\* every accepted one integrated, unless the session is stopped before.
EveryCloudArrives == IsPublished /\ IsIntegrated

\* stop() returns: whatever the map thread is doing, it sees running or the
\* signal, and the session goes on to save the map.
StopReturns == (main = "joinCallback") ~> (main = "save")
=============================================================================
