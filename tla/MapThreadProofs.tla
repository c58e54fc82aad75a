--------------------------- MODULE MapThreadProofs ---------------------------
(***************************************************************************)
(* Proofs about MapThread for every number of clouds, every set of         *)
(* positions, every period and threshold.                                  *)
(***************************************************************************)
EXTENDS MapThread, TLAPS

(***************************************************************************)
(* Where the main thread is says which threads exist and may run.          *)
(***************************************************************************)
Lifecycle ==
    /\ cc = "off" <=> main \in {"start", "startCallback"}
    /\ mt = "off" <=> main = "start"
    /\ main \in {"stopMap", "signalMap", "joinMap", "save"} => cc = "done"
    /\ mtRunning <=> main \in {"startCallback", "run", "joinCallback", "stopMap"}
    /\ main = "save" => mt = "done"
    /\ mt = "done" => ~ mtRunning

(***************************************************************************)
(* The handshake, until stop() releases start_mutex_ for the last time:    *)
(* the mutex is free only on the way from go() to the map thread, and      *)
(* active_ is set from before that until the SUV is over.                  *)
(***************************************************************************)
Stopped == main \in {"joinMap", "save"}

Handshake ==
    /\ ~ Stopped /\ startMutex = "free" =>
          /\ active
          /\ cc \notin {"fill", "activate", "signal"}
          /\ mt \in {"copy", "top", "wait", "done"}
    /\ cc \in {"fill", "activate"} => ~ active
    /\ cc = "signal" => active /\ mt \notin Busy \cup {"check"}
    /\ mt \in Busy => active
    /\ mt = "check" => active \/ Stopped

(***************************************************************************)
(* map_mutex is held exactly while a thread is between lock and unlock.    *)
(***************************************************************************)
Locks ==
    /\ cc = "register" <=> mapMutex = "callback"
    /\ mt = "swap" <=> mapMutex = "mapper"

(***************************************************************************)
(* Which clouds the two maps hold.  Handed(c): c has been given to the map *)
(* thread and is not done.                                                 *)
(***************************************************************************)
Resting == {"top", "wait", "check", "shift"}
Handed(c) == c = job.cloud /\ (active \/ cc = "activate")

Contents ==
    /\ cc \in {"first", "lock", "register", "go", "test", "fill", "activate", "signal",
              "publish"} => cloud # 0
    /\ cc = "first" => cloud = 1 /\ accepted = {}
    /\ accepted \subseteq 1 .. cloud
    /\ \A c \in accepted : c <= job.cloud
    /\ active \/ cc = "activate" => job.cloud \in accepted
    /\ mt = "off" => accepted = {}
    /\ \A c \in accepted : c \in localMap.clouds \/ Handed(c)
    /\ mt \in Resting \cup {"update"} =>
          \A c \in accepted : c \in tmpMap.clouds \/ Handed(c)
    /\ mt \in {"lock", "swap"} => accepted \subseteq tmpMap.clouds
    /\ mt \in {"refill", "finish"} => accepted \subseteq localMap.clouds
    /\ mt = "finish" => tmpMap = localMap

(***************************************************************************)
(* A cloud that has been handed over, but for the first one, is in neither *)
(* map until it is integrated.                                             *)
(***************************************************************************)
Fresh ==
    /\ localMap.clouds \cup tmpMap.clouds \subseteq accepted \cup {1}
    /\ cc \in {"first", "lock", "register", "go", "test", "fill"} => cloud \notin accepted
    /\ (active \/ cc = "activate") /\ mt \in {"off", "copy", "update"} \cup Resting =>
          \/ job.cloud = 1
          \/ job.cloud \notin localMap.clouds \cup tmpMap.clouds

\* Between two SUVs the copy is the local map, but for the first cloud.
CopyLagsByFirstCloud ==
    mt \in Resting \ {"shift"} =>
        /\ tmpMap.pos = localMap.pos
        /\ tmpMap.clouds \ {1} = localMap.clouds \ {1}

IInv == TypeOK /\ Lifecycle /\ Handshake /\ Locks /\ Contents /\ Fresh
          /\ CopyLagsByFirstCloud

-----------------------------------------------------------------------------

LEMMA InitOK == Init => IInv
<1> SUFFICES ASSUME Init PROVE IInv
  OBVIOUS
<1> USE DEF Init, EmptyMap, NoJob
<1>1. TypeOK
  <2>1. EmptyMap \in Maps /\ NoJob \in [cloud : 0 .. NumClouds, pos : Positions]
    BY NumCloudsAssumption, PositionsAssumption DEF Maps
  <2>2. {ccRunning, mtRunning, due, active} \subseteq BOOLEAN
    OBVIOUS
  <2> QED
    BY <2>1, <2>2, NumCloudsAssumption, PositionsAssumption DEF TypeOK
<1>2. Lifecycle /\ Handshake /\ Locks
  BY DEF Lifecycle, Handshake, Stopped, Locks, Busy
<1>3. Contents /\ Fresh /\ CopyLagsByFirstCloud
  BY DEF Contents, Handed, Fresh, CopyLagsByFirstCloud, Busy, Resting
<1> QED
  BY <1>1, <1>2, <1>3 DEF IInv

\* The clouds of a busy map thread are real ones, so the maps keep their type.
LEMMA TypeOKStep ==
  ASSUME IInv, Next
  PROVE  TypeOK'
<1> USE NumCloudsAssumption, PositionsAssumption DEF IInv, TypeOK, Maps, Busy,
          Contents, Handshake, ccVars, mtVars, goVars, runVars, mapVars
<1>1. CASE CallbackPop
  BY <1>1 DEF CallbackPop
<1>2. CASE CallbackExit
  BY <1>2 DEF CallbackExit
<1>3. CASE FirstUpdate
  BY <1>3 DEF FirstUpdate
<1>4. CASE BeginRegister
  BY <1>4 DEF BeginRegister, RegisterLock
<1>5. CASE EndRegister
  BY <1>5 DEF EndRegister, RestoreOldPose
<1>6. CASE GoDecide
  BY <1>6 DEF GoDecide
<1>7. CASE GoTest
  BY <1>7 DEF GoTest, Accepts
<1>8. CASE GoFill
  BY <1>8 DEF GoFill
<1>9. CASE GoActivate
  BY <1>9 DEF GoActivate
<1>10. CASE GoSignal
  BY <1>10 DEF GoSignal, Signal
<1>11. CASE Publish
  BY <1>11 DEF Publish
<1>12. CASE CopyMap
  BY <1>12 DEF CopyMap
<1>13. CASE LoopTest
  BY <1>13 DEF LoopTest
<1>14. CASE WaitForStart
  BY <1>14 DEF WaitForStart
<1>15. CASE StartTest
  BY <1>15 DEF StartTest, AfterStart
<1>16. CASE Shift
  BY <1>16 DEF Shift
<1>17. CASE Update
  BY <1>17 DEF Update
<1>18. CASE LockMap
  BY <1>18 DEF LockMap
<1>19. CASE Swap
  BY <1>19 DEF Swap, SwapUnlock
<1>20. CASE Refill
  BY <1>20 DEF Refill, RefillFrom
<1>21. CASE Finish
  BY <1>21 DEF Finish
<1>22. CASE StartMapThread
  BY <1>22 DEF StartMapThread
<1>23. CASE StartCallback
  BY <1>23 DEF StartCallback
<1>24. CASE StopCallback
  BY <1>24 DEF StopCallback
<1>25. CASE JoinCallback
  BY <1>25 DEF JoinCallback
<1>26. CASE StopMapThread
  BY <1>26 DEF StopMapThread
<1>27. CASE SignalMapThread
  BY <1>27 DEF SignalMapThread, Signal
<1>28. CASE JoinMapThread
  BY <1>28 DEF JoinMapThread
<1>29. CASE Saved
  BY <1>29 DEF Saved, vars
<1> QED
  BY <1>1, <1>2, <1>3, <1>4, <1>5, <1>6, <1>7, <1>8, <1>9, <1>10, <1>11, <1>12,
     <1>13, <1>14, <1>15, <1>16, <1>17, <1>18, <1>19, <1>20, <1>21, <1>22,
     <1>23, <1>24, <1>25, <1>26, <1>27, <1>28, <1>29
  DEF Next, Callback, Mapper, Main, Stop

\* Only main starts and stops threads.
LEMMA LifecycleStep ==
  ASSUME IInv, Next
  PROVE  Lifecycle'
<1> USE DEF IInv, Lifecycle, Busy, TypeOK, ccVars, mtVars, goVars, runVars,
          mapVars
<1>1. CASE Callback
  BY <1>1 DEF Callback, CallbackPop, CallbackExit, FirstUpdate, BeginRegister,
     RegisterLock, EndRegister, RestoreOldPose, GoDecide, GoTest, Accepts,
     GoFill, GoActivate, GoSignal, Signal, Publish
<1>2. CASE Mapper
  BY <1>2 DEF Mapper, CopyMap, LoopTest, WaitForStart, StartTest, AfterStart,
     Shift, Update, LockMap, Swap, SwapUnlock, Refill, RefillFrom, Finish
<1>3. CASE Main
  BY <1>3 DEF Main, Stop, StartMapThread, StartCallback, StopCallback,
     JoinCallback, StopMapThread, SignalMapThread, Signal, JoinMapThread
<1>4. CASE Saved
  BY <1>4 DEF Saved, vars
<1> QED
  BY <1>1, <1>2, <1>3, <1>4 DEF Next

\* The heart of the protocol: go() and the map thread take turns.
LEMMA HandshakeStep ==
  ASSUME IInv, Next
  PROVE  Handshake'
<1> USE DEF IInv, Handshake, Stopped, Lifecycle, Busy, TypeOK, ccVars, mtVars,
          goVars, runVars, mapVars
<1>1. CASE CallbackPop
  BY <1>1 DEF CallbackPop
<1>2. CASE CallbackExit
  BY <1>2 DEF CallbackExit
<1>3. CASE FirstUpdate
  BY <1>3 DEF FirstUpdate
<1>4. CASE BeginRegister
  BY <1>4 DEF BeginRegister, RegisterLock
<1>5. CASE EndRegister
  BY <1>5 DEF EndRegister, RestoreOldPose
<1>6. CASE GoDecide
  BY <1>6 DEF GoDecide
<1>7. CASE GoTest
  BY <1>7 DEF GoTest, Accepts
<1>8. CASE GoFill
  BY <1>8 DEF GoFill
<1>9. CASE GoActivate
  BY <1>9 DEF GoActivate
<1>10. CASE GoSignal
  BY <1>10 DEF GoSignal, Signal
<1>11. CASE Publish
  BY <1>11 DEF Publish
<1>12. CASE CopyMap
  BY <1>12 DEF CopyMap
<1>13. CASE LoopTest
  BY <1>13 DEF LoopTest
<1>14. CASE WaitForStart
  BY <1>14 DEF WaitForStart
<1>15. CASE StartTest
  BY <1>15 DEF StartTest, AfterStart
<1>16. CASE Shift
  BY <1>16 DEF Shift
<1>17. CASE Update
  BY <1>17 DEF Update
<1>18. CASE LockMap
  BY <1>18 DEF LockMap
<1>19. CASE Swap
  BY <1>19 DEF Swap, SwapUnlock
<1>20. CASE Refill
  BY <1>20 DEF Refill, RefillFrom
<1>21. CASE Finish
  BY <1>21 DEF Finish
<1>22. CASE StartMapThread
  BY <1>22 DEF StartMapThread
<1>23. CASE StartCallback
  BY <1>23 DEF StartCallback
<1>24. CASE StopCallback
  BY <1>24 DEF StopCallback
<1>25. CASE JoinCallback
  BY <1>25 DEF JoinCallback
<1>26. CASE StopMapThread
  BY <1>26 DEF StopMapThread
<1>27. CASE SignalMapThread
  BY <1>27 DEF SignalMapThread, Signal
<1>28. CASE JoinMapThread
  BY <1>28 DEF JoinMapThread
<1>29. CASE Saved
  BY <1>29 DEF Saved, vars
<1> QED
  BY <1>1, <1>2, <1>3, <1>4, <1>5, <1>6, <1>7, <1>8, <1>9, <1>10, <1>11, <1>12,
     <1>13, <1>14, <1>15, <1>16, <1>17, <1>18, <1>19, <1>20, <1>21, <1>22,
     <1>23, <1>24, <1>25, <1>26, <1>27, <1>28, <1>29
  DEF Next, Callback, Mapper, Main, Stop

\* map_mutex is taken only when it is free, and given back by its holder.
LEMMA LocksStep ==
  ASSUME IInv, Next
  PROVE  Locks'
<1> USE DEF IInv, Locks, Lifecycle, Busy, TypeOK, ccVars, mtVars, goVars,
          runVars, mapVars
<1>1. CASE Callback
  BY <1>1 DEF Callback, CallbackPop, CallbackExit, FirstUpdate, BeginRegister,
     RegisterLock, EndRegister, RestoreOldPose, GoDecide, GoTest, Accepts,
     GoFill, GoActivate, GoSignal, Signal, Publish
<1>2. CASE Mapper
  BY <1>2 DEF Mapper, CopyMap, LoopTest, WaitForStart, StartTest, AfterStart,
     Shift, Update, LockMap, Swap, SwapUnlock, Refill, RefillFrom, Finish
<1>3. CASE Main
  BY <1>3 DEF Main, Stop, StartMapThread, StartCallback, StopCallback,
     JoinCallback, StopMapThread, SignalMapThread, Signal, JoinMapThread
<1>4. CASE Saved
  BY <1>4 DEF Saved, vars
<1> QED
  BY <1>1, <1>2, <1>3, <1>4 DEF Next

\* A swap loses no cloud, and only the last one accepted can be missing.
LEMMA ContentsStep ==
  ASSUME IInv, Next
  PROVE  Contents'
<1> USE NumCloudsAssumption DEF IInv, Contents, Handed, Handshake, Stopped,
          Lifecycle, Locks, Busy, Resting, TypeOK, Maps, ccVars, mtVars,
          goVars, runVars, mapVars
<1>1. CASE CallbackPop
  BY <1>1 DEF CallbackPop
<1>2. CASE CallbackExit
  BY <1>2 DEF CallbackExit
<1>3. CASE FirstUpdate
  BY <1>3 DEF FirstUpdate
<1>4. CASE BeginRegister
  BY <1>4 DEF BeginRegister, RegisterLock
<1>5. CASE EndRegister
  BY <1>5 DEF EndRegister, RestoreOldPose
<1>6. CASE GoDecide
  BY <1>6 DEF GoDecide
<1>7. CASE GoTest
  BY <1>7 DEF GoTest, Accepts
<1>8. CASE GoFill
  <2>1. ~ active /\ mt \notin Busy /\ mt # "off"
    BY <1>8 DEF GoFill
  <2>2. /\ accepted \subseteq localMap.clouds
        /\ mt \in Resting => accepted \subseteq tmpMap.clouds
    BY <1>8, <2>1 DEF GoFill
  <2>3. /\ cloud \in 1 .. NumClouds /\ job' = [cloud |-> cloud, pos |-> pos]
        /\ cc' = "activate" /\ accepted' = accepted \cup {cloud}
        /\ UNCHANGED <<cloud, active, mt, localMap, tmpMap>>
    BY <1>8 DEF GoFill
  <2>4. accepted' \subseteq 1 .. cloud
    BY <2>3
  <2>5. /\ \A c \in accepted' : c \in localMap.clouds \/ c = cloud
        /\ mt \in Resting => \A c \in accepted' : c \in tmpMap.clouds \/ c = cloud
    BY <2>2, <2>3
  <2> QED
    BY <2>1, <2>3, <2>4, <2>5
<1>9. CASE GoActivate
  BY <1>9 DEF GoActivate
<1>10. CASE GoSignal
  BY <1>10 DEF GoSignal, Signal
<1>11. CASE Publish
  BY <1>11 DEF Publish
<1>12. CASE CopyMap
  BY <1>12 DEF CopyMap
<1>13. CASE LoopTest
  BY <1>13 DEF LoopTest
<1>14. CASE WaitForStart
  BY <1>14 DEF WaitForStart
<1>15. CASE StartTest
  BY <1>15 DEF StartTest, AfterStart
<1>16. CASE Shift
  BY <1>16 DEF Shift
<1>17. CASE Update
  BY <1>17 DEF Update
<1>18. CASE LockMap
  BY <1>18 DEF LockMap
<1>19. CASE Swap
  BY <1>19 DEF Swap, SwapUnlock
<1>20. CASE Refill
  BY <1>20 DEF Refill, RefillFrom
<1>21. CASE Finish
  BY <1>21 DEF Finish
<1>22. CASE StartMapThread
  BY <1>22 DEF StartMapThread
<1>23. CASE StartCallback
  BY <1>23 DEF StartCallback
<1>24. CASE StopCallback
  BY <1>24 DEF StopCallback
<1>25. CASE JoinCallback
  BY <1>25 DEF JoinCallback
<1>26. CASE StopMapThread
  BY <1>26 DEF StopMapThread
<1>27. CASE SignalMapThread
  BY <1>27 DEF SignalMapThread, Signal
<1>28. CASE JoinMapThread
  BY <1>28 DEF JoinMapThread
<1>29. CASE Saved
  BY <1>29 DEF Saved, vars
<1> QED
  BY <1>1, <1>2, <1>3, <1>4, <1>5, <1>6, <1>7, <1>8, <1>9, <1>10, <1>11, <1>12,
     <1>13, <1>14, <1>15, <1>16, <1>17, <1>18, <1>19, <1>20, <1>21, <1>22,
     <1>23, <1>24, <1>25, <1>26, <1>27, <1>28, <1>29
  DEF Next, Callback, Mapper, Main, Stop

\* go() hands over every cloud once, before the map thread integrates it.
LEMMA FreshStep ==
  ASSUME IInv, Next
  PROVE  Fresh'
<1> USE NumCloudsAssumption DEF IInv, Fresh, Contents, Handshake, Stopped,
          Lifecycle, Busy, Resting, TypeOK, Maps, ccVars, mtVars, goVars,
          runVars, mapVars
<1>1. CASE CallbackPop
  BY <1>1 DEF CallbackPop
<1>2. CASE CallbackExit
  BY <1>2 DEF CallbackExit
<1>3. CASE FirstUpdate
  BY <1>3 DEF FirstUpdate
<1>4. CASE BeginRegister
  BY <1>4 DEF BeginRegister, RegisterLock
<1>5. CASE EndRegister
  BY <1>5 DEF EndRegister, RestoreOldPose
<1>6. CASE GoDecide
  BY <1>6 DEF GoDecide
<1>7. CASE GoTest
  BY <1>7 DEF GoTest, Accepts
<1>8. CASE GoFill
  BY <1>8 DEF GoFill
<1>9. CASE GoActivate
  BY <1>9 DEF GoActivate
<1>10. CASE GoSignal
  BY <1>10 DEF GoSignal, Signal
<1>11. CASE Publish
  BY <1>11 DEF Publish
<1>12. CASE CopyMap
  BY <1>12 DEF CopyMap
<1>13. CASE LoopTest
  BY <1>13 DEF LoopTest
<1>14. CASE WaitForStart
  BY <1>14 DEF WaitForStart
<1>15. CASE StartTest
  BY <1>15 DEF StartTest, AfterStart
<1>16. CASE Shift
  BY <1>16 DEF Shift
<1>17. CASE Update
  BY <1>17 DEF Update
<1>18. CASE LockMap
  BY <1>18 DEF LockMap
<1>19. CASE Swap
  BY <1>19 DEF Swap, SwapUnlock
<1>20. CASE Refill
  BY <1>20 DEF Refill, RefillFrom
<1>21. CASE Finish
  BY <1>21 DEF Finish
<1>22. CASE StartMapThread
  BY <1>22 DEF StartMapThread
<1>23. CASE StartCallback
  BY <1>23 DEF StartCallback
<1>24. CASE StopCallback
  BY <1>24 DEF StopCallback
<1>25. CASE JoinCallback
  BY <1>25 DEF JoinCallback
<1>26. CASE StopMapThread
  BY <1>26 DEF StopMapThread
<1>27. CASE SignalMapThread
  BY <1>27 DEF SignalMapThread, Signal
<1>28. CASE JoinMapThread
  BY <1>28 DEF JoinMapThread
<1>29. CASE Saved
  BY <1>29 DEF Saved, vars
<1> QED
  BY <1>1, <1>2, <1>3, <1>4, <1>5, <1>6, <1>7, <1>8, <1>9, <1>10, <1>11, <1>12,
     <1>13, <1>14, <1>15, <1>16, <1>17, <1>18, <1>19, <1>20, <1>21, <1>22,
     <1>23, <1>24, <1>25, <1>26, <1>27, <1>28, <1>29
  DEF Next, Callback, Mapper, Main, Stop

\* Outside a SUV only the first iteration of the callback changes a map.
LEMMA CopyLagsByFirstCloudStep ==
  ASSUME IInv, Next
  PROVE  CopyLagsByFirstCloud'
<1> USE DEF IInv, CopyLagsByFirstCloud, Contents, Handshake, Lifecycle, Locks,
          Busy, Resting, TypeOK, Maps, ccVars, mtVars, goVars, runVars, mapVars
<1>1. CASE CallbackPop
  BY <1>1 DEF CallbackPop
<1>2. CASE CallbackExit
  BY <1>2 DEF CallbackExit
<1>3. CASE FirstUpdate
  BY <1>3 DEF FirstUpdate
<1>4. CASE BeginRegister
  BY <1>4 DEF BeginRegister, RegisterLock
<1>5. CASE EndRegister
  BY <1>5 DEF EndRegister, RestoreOldPose
<1>6. CASE GoDecide
  BY <1>6 DEF GoDecide
<1>7. CASE GoTest
  BY <1>7 DEF GoTest, Accepts
<1>8. CASE GoFill
  BY <1>8 DEF GoFill
<1>9. CASE GoActivate
  BY <1>9 DEF GoActivate
<1>10. CASE GoSignal
  BY <1>10 DEF GoSignal, Signal
<1>11. CASE Publish
  BY <1>11 DEF Publish
<1>12. CASE CopyMap
  BY <1>12 DEF CopyMap
<1>13. CASE LoopTest
  BY <1>13 DEF LoopTest
<1>14. CASE WaitForStart
  BY <1>14 DEF WaitForStart
<1>15. CASE StartTest
  BY <1>15 DEF StartTest, AfterStart
<1>16. CASE Shift
  BY <1>16 DEF Shift
<1>17. CASE Update
  BY <1>17 DEF Update
<1>18. CASE LockMap
  BY <1>18 DEF LockMap
<1>19. CASE Swap
  BY <1>19 DEF Swap, SwapUnlock
<1>20. CASE Refill
  BY <1>20 DEF Refill, RefillFrom
<1>21. CASE Finish
  BY <1>21 DEF Finish
<1>22. CASE StartMapThread
  BY <1>22 DEF StartMapThread
<1>23. CASE StartCallback
  BY <1>23 DEF StartCallback
<1>24. CASE StopCallback
  BY <1>24 DEF StopCallback
<1>25. CASE JoinCallback
  BY <1>25 DEF JoinCallback
<1>26. CASE StopMapThread
  BY <1>26 DEF StopMapThread
<1>27. CASE SignalMapThread
  BY <1>27 DEF SignalMapThread, Signal
<1>28. CASE JoinMapThread
  BY <1>28 DEF JoinMapThread
<1>29. CASE Saved
  BY <1>29 DEF Saved, vars
<1> QED
  BY <1>1, <1>2, <1>3, <1>4, <1>5, <1>6, <1>7, <1>8, <1>9, <1>10, <1>11, <1>12,
     <1>13, <1>14, <1>15, <1>16, <1>17, <1>18, <1>19, <1>20, <1>21, <1>22,
     <1>23, <1>24, <1>25, <1>26, <1>27, <1>28, <1>29
  DEF Next, Callback, Mapper, Main, Stop

LEMMA NextOK ==
  ASSUME IInv, [Next]_vars
  PROVE  IInv'
<1>1. CASE Next
  BY <1>1, TypeOKStep, LifecycleStep, HandshakeStep, LocksStep, ContentsStep, FreshStep,
     CopyLagsByFirstCloudStep DEF IInv
<1>2. CASE UNCHANGED vars
  BY <1>2 DEF vars, IInv, TypeOK, Lifecycle, Handshake, Stopped, Locks, Contents, Handed,
              Fresh, CopyLagsByFirstCloud
<1> QED
  BY <1>1, <1>2

LEMMA Invariance == Spec => []IInv
<1>1. IInv /\ [Next]_vars => IInv'
  BY NextOK
<1> QED
  BY InitOK, <1>1, PTL DEF Spec

-----------------------------------------------------------------------------

\* The variables keep their types.
THEOREM TypeCorrect == Spec => []TypeOK
<1>1. IInv => TypeOK
  BY DEF IInv
<1> QED
  BY <1>1, Invariance, PTL

\* go() never unlocks start_mutex_ while it is unlocked.
GoUnlocksLocked == cc = "signal" => startMutex = "locked"

\* The data of an accepted cloud is never written while the map thread may read
\* it, the map thread never works without such a cloud, and go() never unlocks a
\* mutex that is not locked: active_ and start_mutex_ are a correct handshake, up
\* to and including stop().
THEOREM HandshakeCorrect == Spec => [](JobIsPrivate /\ GoUnlocksLocked)
<1>1. IInv => JobIsPrivate
  BY DEF IInv, Handshake, Contents, TypeOK, JobIsPrivate
<1>2. IInv => GoUnlocksLocked
  BY DEF IInv, Handshake, Lifecycle, Stopped, TypeOK, GoUnlocksLocked
<1> QED
  BY <1>1, <1>2, Invariance, PTL

\* A cloud handed to the map thread is in the local map from its swap on.  Only the
\* last one may be missing: while it is in progress, and for ever if stop() came
\* before the map thread began with it.  None is integrated twice; and outside a
\* SUV the two maps differ at most in the first cloud.
THEOREM MapsComplete ==
  Spec => [](EveryCloudOnce /\ CopyLagsByFirstCloud)
<1>1. IInv => AcceptedReachMap
  BY DEF IInv, Lifecycle, Contents, Handed, AcceptedReachMap, InProgress, Abandoned
<1>2. IInv => NoneIntegratedTwice
  BY DEF IInv, Fresh, Handshake, Busy, NoneIntegratedTwice
<1>3. IInv => EveryCloudOnce /\ CopyLagsByFirstCloud
  BY <1>1, <1>2 DEF IInv, EveryCloudOnce
<1> QED
  BY <1>3, Invariance, PTL

\* map_mutex keeps the map of a registration in place, although the first
\* iteration writes it without taking the mutex.
THEOREM RegistrationIsolated == Spec => RegistersAgainstOneMap
<1>1. ASSUME IInv, [Next]_vars, cc = "register" PROVE UNCHANGED localMap
  <2>1. mt # "swap"
    BY <1>1 DEF IInv, Locks
  <2>2. CASE UNCHANGED vars
    BY <2>2 DEF vars
  <2>3. CASE Callback
    BY <1>1, <2>3 DEF Callback, CallbackPop, CallbackExit, FirstUpdate, BeginRegister,
       EndRegister, GoDecide, GoTest, GoFill, GoActivate, GoSignal, Publish, mapVars
  <2>4. CASE Mapper
    BY <2>1, <2>4 DEF Mapper, CopyMap, LoopTest, WaitForStart, StartTest, Shift, Update,
       LockMap, Swap, Refill, Finish, mapVars
  <2>5. CASE Main \/ Saved
    BY <2>5 DEF Main, Stop, Saved, vars, StartMapThread, StartCallback, StopCallback,
       JoinCallback, StopMapThread, SignalMapThread, JoinMapThread, mapVars
  <2> QED
    BY <1>1, <2>2, <2>3, <2>4, <2>5 DEF Next
<1>2. IInv /\ [Next]_vars => (cc = "register" => UNCHANGED localMap)
  BY <1>1
<1> QED
  BY <1>2, Invariance, PTL DEF Spec, RegistersAgainstOneMap
=============================================================================
