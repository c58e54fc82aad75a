------------------------------- MODULE Session -------------------------------
(***************************************************************************)
(* Application::run and the threads it starts and stops.  A press of the   *)
(* button starts a session, another one stops it; a signal ends the        *)
(* program.  The drivers, Preprocessing and the bridges live as long as    *)
(* the application and are started again in every session; MapThread and   *)
(* CloudCallback are made anew.                                            *)
(*                                                                         *)
(* A cloud, and the packets it is made of, are the number of the session   *)
(* in or after which they came, 0 before the first one.  What the threads  *)
(* do in detail is in the modules CloudPipeline and MapThread; sending     *)
(* (pointcloud_send_buffer) is left to CloudPipeline.                      *)
(***************************************************************************)
EXTENDS Integers, Sequences

CONSTANTS
    NumSessions,    \* bound: how often the button starts a session
    SocketSize,     \* bound: how many clouds the kernel keeps for a socket
    Sources         \* which of "driver", "receiver" may be configured

ASSUME NumSessionsAssumption == NumSessions \in Nat
ASSUME SocketSizeAssumption  == SocketSize \in Nat \ {0}
ASSUME SourcesAssumption     == Sources \subseteq {"driver", "receiver"}

VARIABLES
    source,             \* what fills cloudBuffer
    main,               \* where Application::run is
    next,               \* the Runner that is started or stopped next
    leaving,            \* a signal was seen: return 0 instead of going on
    session,            \* how many sessions were started
    running, worker,    \* ProcessThread::running, ::worker
    at,                 \* where the thread's loop is: "test", "work" or "pass"
    socket,             \* what came in and was not yet received
    received,           \* packet_ or msg_ of the lidar's thread, while it has it
    cloudBuffer,
    inCloud,            \* in_cloud of Preprocessing, between its pop and its push
    bridgeBuffer

mainVars   == <<source, main, next, leaving, session>>
threadVars == <<running, worker, at>>
dataVars   == <<socket, received, cloudBuffer, inCloud, bridgeBuffer>>
vars == <<mainVars, threadVars, dataVars>>

RunnersMapThreadLast ==
    <<"lidar", "preprocessing", "imu", "imuBridge", "transformBridge",
      "sendBridge", "callback", "mapThread">>
\* the objects of class Runner in the order of their construction
Runners ==
    <<"lidar", "preprocessing", "imu", "imuBridge", "transformBridge",
      "sendBridge", "mapThread", "callback">>
Last == Len(Runners)
Objects == {Runners[i] : i \in 1 .. Last}

Init ==
    /\ source \in Sources
    /\ main = IF source = "driver" THEN "waitCalibrate" ELSE "waitStart"
    /\ next = 1 /\ leaving = FALSE /\ session = 0
    /\ running = [t \in Objects |-> FALSE]
    /\ worker = [t \in Objects |-> "none"] /\ at = [t \in Objects |-> "test"]
    /\ socket = <<>> /\ received = <<>> /\ cloudBuffer = <<>>
    /\ inCloud = <<>> /\ bridgeBuffer = <<>>

-----------------------------------------------------------------------------
(***************************** ProcessThread *******************************)

\* The IMU driver has no thread of its own: the device calls it while it runs.
start(t) ==
    IF running[t] THEN UNCHANGED threadVars
    ELSE /\ running' = [running EXCEPT ![t] = TRUE]
         /\ IF t = "imu" THEN UNCHANGED <<worker, at>>
            ELSE worker' = [worker EXCEPT ![t] = "live"] /\ at' = [at EXCEPT ![t] = "test"]

LeaveRunning(t) == UNCHANGED threadVars
\* The first half of stop; the other one is worker.join().
ClearRunning(t) == running' = [running EXCEPT ![t] = FALSE] /\ UNCHANGED <<worker, at>>

-----------------------------------------------------------------------------
(***************************** Application::run ****************************)

Signal ==
    /\ main \in {"waitCalibrate", "waitStart"}
    /\ main' = "returned"
    /\ UNCHANGED <<source, next, leaving, session, threadVars, dataVars>>

\* imu_driver->start() calibrates, and stop() lets the device go on unheard.
PressCalibrate ==
    /\ main = "waitCalibrate" /\ main' = "waitStart"
    /\ UNCHANGED <<source, next, leaving, session, threadVars, dataVars>>

PressStart ==
    /\ main = "waitStart" /\ session < NumSessions
    /\ main' = "starting" /\ next' = 1 /\ session' = session + 1
    /\ cloudBuffer' = <<>> /\ bridgeBuffer' = <<>>
    /\ UNCHANGED <<source, leaving, threadVars, socket, received, inCloud>>

StartRunner ==
    /\ main = "starting"
    /\ start(Runners[next])
    /\ next' = next + 1
    /\ main' = IF next + 1 = Last THEN "warm" ELSE "starting"
    \* VelodyneDriver::start clears its buffer.
    /\ cloudBuffer' = IF Runners[next] = "lidar" /\ source = "driver"
                      THEN <<>> ELSE cloudBuffer
    /\ UNCHANGED <<source, leaving, session, socket, received, inCloud, bridgeBuffer>>

ClearsNothing == UNCHANGED <<cloudBuffer, bridgeBuffer>>
ClearAgain == cloudBuffer' = <<>> /\ bridgeBuffer' = <<>>

\* The assumption about sleep_for(1s): within it, what came in before the session
\* has been received, and neither thread is still busy with it.  It may be in a
\* buffer.
LongEnough ==
    /\ \A i \in 1 .. Len(socket) : socket[i] = session
    /\ {received, inCloud} \subseteq {<<>>, <<session>>}

\* Then the buffers are cleared again and the last thread starts.
StartCallback ==
    /\ main = "warm" /\ LongEnough
    /\ ClearAgain
    /\ start(Runners[Last])
    /\ main' = "waitStop"
    /\ UNCHANGED <<source, next, leaving, session, socket, received, inCloud>>

\* The button or a signal: the Runners are destroyed in reverse order.
EndSession(signal) ==
    /\ main = "waitStop"
    /\ main' = "stopping" /\ next' = Last /\ leaving' = signal
    /\ UNCHANGED <<source, session, threadVars, dataVars>>

AfterStop == IF next > 1 THEN "stopping" ELSE IF leaving THEN "returned" ELSE "writeBack"

StopRunner ==
    LET t == Runners[next]
    IN  /\ main = "stopping"
        /\ ClearRunning(t)
        /\ IF t = "imu" THEN next' = next - 1 /\ main' = AfterStop
                        ELSE main' = "joining" /\ UNCHANGED next
        /\ UNCHANGED <<source, leaving, session, dataVars>>

JoinRunner ==
    /\ main = "joining"
    /\ worker[Runners[next]] = "ended"
    /\ worker' = [worker EXCEPT ![Runners[next]] = "none"]
    /\ next' = next - 1 /\ main' = AfterStop
    /\ UNCHANGED <<source, leaving, session, running, at, dataVars>>

WriteBack ==
    /\ main = "writeBack" /\ main' = "waitStart"
    /\ UNCHANGED <<source, next, leaving, session, threadVars, dataVars>>

Returned == main = "returned" /\ UNCHANGED vars

-----------------------------------------------------------------------------
(******************************* the threads *******************************)

\* while (running)
Test(t) ==
    /\ worker[t] = "live" /\ at[t] = "test"
    /\ IF running[t] THEN at' = [at EXCEPT ![t] = "work"] /\ UNCHANGED worker
                     ELSE worker' = [worker EXCEPT ![t] = "ended"] /\ UNCHANGED at
    /\ UNCHANGED <<mainVars, running, dataVars>>

Step(t, from, to) ==
    /\ worker[t] = "live" /\ at[t] = from
    /\ at' = [at EXCEPT ![t] = to]
    /\ UNCHANGED <<mainVars, running, worker>>

\* The network brings a cloud.  A full socket loses it.
Arrive ==
    /\ Len(socket) < SocketSize
    /\ socket' = Append(socket, session)
    /\ UNCHANGED <<mainVars, threadVars, received, cloudBuffer, inCloud, bridgeBuffer>>

\* push_nb of the cloud h on a buffer of one element
Put(q, h, force) == IF q = <<>> \/ force THEN h ELSE q

Receive ==
    /\ socket # <<>>
    /\ Step("lidar", "work", "pass")
    /\ socket' = Tail(socket) /\ received' = <<Head(socket)>>
    /\ UNCHANGED <<cloudBuffer, inCloud, bridgeBuffer>>

PushReceived ==
    /\ Step("lidar", "pass", "test")
    /\ cloudBuffer' = Put(cloudBuffer, received, source = "driver") /\ received' = <<>>
    /\ UNCHANGED <<socket, inCloud, bridgeBuffer>>

\* Receiver::receive comes back after a timeout.  The inner loop of
\* VelodyneDriver::thread_run does not: it polls until there is data.
ReceiveTimeout ==
    /\ source = "receiver" /\ socket = <<>>
    /\ Step("lidar", "work", "test")
    /\ UNCHANGED dataVars

PopCloud ==
    /\ cloudBuffer # <<>>
    /\ Step("preprocessing", "work", "pass")
    /\ inCloud' = cloudBuffer /\ cloudBuffer' = <<>>
    /\ UNCHANGED <<socket, received, bridgeBuffer>>

PopTimeout ==
    /\ cloudBuffer = <<>>
    /\ Step("preprocessing", "work", "test")
    /\ UNCHANGED dataVars

\* Scaled and filtered, whatever was cleared meanwhile
PushPreprocessed ==
    /\ Step("preprocessing", "pass", "test")
    /\ bridgeBuffer' = Put(bridgeBuffer, inCloud, TRUE) /\ inCloud' = <<>>
    /\ UNCHANGED <<socket, received, cloudBuffer>>

RegisterCloud ==
    /\ Step("callback", "work", "test")
    /\ bridgeBuffer' = <<>>
    /\ UNCHANGED <<socket, received, cloudBuffer, inCloud>>

\* The other threads touch none of this.
OtherWork(t) == Step(t, "work", "test") /\ UNCHANGED dataVars

Loop(t) ==
    \/ Test(t)
    \/ t = "lidar" /\ (Receive \/ ReceiveTimeout \/ PushReceived)
    \/ t = "preprocessing" /\ (PopCloud \/ PopTimeout \/ PushPreprocessed)
    \/ t = "callback" /\ RegisterCloud
    \/ t \in {"imuBridge", "transformBridge", "sendBridge", "mapThread"} /\ OtherWork(t)

Main == StartRunner \/ StartCallback \/ StopRunner \/ JoinRunner \/ WriteBack
User == Signal \/ PressCalibrate \/ PressStart \/ \E signal \in BOOLEAN : EndSession(signal)

Next == Main \/ User \/ Arrive \/ Returned \/ \E t \in Objects : Loop(t)

Spec == Init /\ [][Next]_vars

\* The scheduler runs the main thread and every other thread.  (MapThread::stop
\* wakes the map thread, see module MapThread.)
FairSpec == Spec /\ WF_vars(Main) /\ \A t \in Objects : WF_vars(Loop(t))

\* ... and the lidar sends.
LidarSends == FairSpec /\ WF_vars(Arrive)

-----------------------------------------------------------------------------
(******************************* properties ********************************)

Clouds  == 0 .. NumSessions
Buffers == {<<>>} \cup {<<c>> : c \in Clouds}

\* Every variable keeps its type; the buffers keep to their sizes.
TypeOK ==
    /\ source \in Sources
    /\ main \in {"waitCalibrate", "waitStart", "starting", "warm", "waitStop",
                "stopping", "joining", "writeBack", "returned"}
    /\ next \in 0 .. Last /\ leaving \in BOOLEAN /\ session \in Clouds
    /\ running \in [Objects -> BOOLEAN]
    /\ worker \in [Objects -> {"none", "live", "ended"}]
    /\ at \in [Objects -> {"test", "work", "pass"}]
    /\ Len(socket) <= SocketSize /\ \A i \in 1 .. Len(socket) : socket[i] \in Clouds
    /\ {received, cloudBuffer, inCloud, bridgeBuffer} \subseteq Buffers

\* When the maps are written, and when they are destroyed, every thread that may
\* use them has been joined, and nothing is left running for the next session.
QuietBetweenSessions ==
    main \in {"waitCalibrate", "waitStart", "writeBack", "returned"} =>
        \A t \in Objects : worker[t] = "none" /\ ~running[t]

\* Whatever the order in which the threads see running: as long as the callback
\* may call go(), the map thread it calls has not been told to stop.
CallbackHasMapThread == worker["callback"] # "none" => running["mapThread"]

\* The order in which the threads start and stop is safe.
ThreadsAreOrdered == TypeOK /\ QuietBetweenSessions /\ CallbackHasMapThread

\* Packets that came before the session wait in the socket and become clouds when
\* the driver starts.  If LongEnough, none of them gets as far as the callback,
\* neither out of a buffer nor out of the hand of a thread that took it before the
\* buffers were cleared.
NoStaleClouds ==
    worker["callback"] # "none" =>
        {received, cloudBuffer, inCloud, bridgeBuffer} \subseteq {<<>>, <<session>>}

\* runner.h:30: "Destroy the Runner object: stop the thread".  A press of the
\* button or a signal ends the session.
SessionEnds == main = "stopping" ~> main \in {"waitStart", "returned"}
=============================================================================
