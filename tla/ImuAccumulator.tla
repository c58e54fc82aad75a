--------------------------- MODULE ImuAccumulator ---------------------------
(***************************************************************************)
(* registration::ImuAccumulator and what feeds it.  The IMU driver stamps  *)
(* its messages and puts them into imu_buffer, a QueueBridge passes them   *)
(* to imu_bridge_buffer, and for every cloud it registers CloudCallback    *)
(* integrates the messages that were stamped before the cloud, each over   *)
(* the time since the message before it.  The accumulator, a member of     *)
(* Registration, lives as long as the application; a CloudCallback lives   *)
(* for one session between two presses of the button.                      *)
(*                                                                         *)
(* A message is its stamp, a cloud is its stamp, and a rotation is the     *)
(* span of time it was integrated over.                                    *)
(***************************************************************************)
EXTENDS Integers, Sequences

CONSTANTS
    MaxTime,        \* bound: the last tick of the clock
    TicksPerMs,     \* the clock's resolution
    BufferSize      \* imu.bufferSize

ASSUME MaxTimeAssumption    == MaxTime \in Nat
ASSUME TicksPerMsAssumption == TicksPerMs \in Nat \ {0}
ASSUME BufferSizeAssumption == BufferSize \in Nat \ {0}

VARIABLES
    now,                    \* HighResTime::now()
    phase,                  \* the session: "off", "warm" (no callback yet), "on"
    stamped,                \* history: the stamp of the newest message
    imuBuffer, imuBridgeBuffer,
    handed,                 \* what the bridge has popped and not yet pushed, or None
    clouds,                 \* pointcloud_bridge_buffer
    firstIteration,         \* CloudCallback::first_iteration
    cb, cloud,              \* the callback's step and its cloud
    firstImuMsg, lastImu,   \* first_imu_msg_, last_imu_timestamp_
    spans,                  \* what is integrated for the present cloud
    all                     \* history: what was integrated since the start

timeVars == <<now, phase, stamped>>
imuVars  == <<imuBuffer, handed>>
cbVars   == <<firstIteration, cb, cloud>>
accVars  == <<firstImuMsg, lastImu, spans, all>>
pathVars == <<timeVars, imuVars, imuBridgeBuffer, clouds, cbVars, accVars>>

None == -1

AccInit ==
    /\ now = 0 /\ phase = "off" /\ stamped = None
    /\ imuBuffer = <<>> /\ handed = None /\ imuBridgeBuffer = <<>> /\ clouds = <<>>
    /\ firstIteration = TRUE /\ cb = "pop" /\ cloud = None
    /\ firstImuMsg = TRUE /\ lastImu = None /\ spans = <<>> /\ all = <<>>

\* push_nb with force
DropOldest(q, capacity, m) ==
    IF Len(q) = capacity THEN Append(Tail(q), m) ELSE Append(q, m)

-----------------------------------------------------------------------------
(************************ time, sources and sessions ***********************)

Tick ==
    /\ now < MaxTime /\ now' = now + 1
    /\ UNCHANGED <<phase, stamped, imuVars, imuBridgeBuffer, clouds, cbVars, accVars>>

\* The buffers are cleared, then the threads start, all but the callback ...
StartSession ==
    /\ phase = "off" /\ phase' = "warm"
    /\ imuBuffer' = <<>> /\ imuBridgeBuffer' = <<>> /\ clouds' = <<>>
    /\ firstIteration' = TRUE /\ cloud' = None
    /\ UNCHANGED <<now, stamped, handed, cb, accVars>>

\* ... which starts a second later, after they were cleared again.
CallbackStarts ==
    /\ phase = "warm" /\ phase' = "on"
    /\ imuBuffer' = <<>> /\ imuBridgeBuffer' = <<>> /\ clouds' = <<>>
    /\ UNCHANGED <<now, stamped, handed, cbVars, accVars>>

\* All threads are joined; the bridge puts down what it has in its hand.
StopSession ==
    /\ phase = "on" /\ cb = "pop" /\ handed = None
    /\ phase' = "off"
    /\ UNCHANGED <<now, stamped, imuVars, imuBridgeBuffer, clouds, cbVars, accVars>>

\* data_handler; the clock is finer than the rate of the device.
ImuMessage ==
    /\ phase # "off" /\ stamped < now
    /\ stamped' = now
    /\ imuBuffer' = DropOldest(imuBuffer, BufferSize, now)
    /\ UNCHANGED <<now, phase, handed, imuBridgeBuffer, clouds, cbVars, accVars>>

BridgePop ==
    /\ phase # "off" /\ handed = None /\ imuBuffer # <<>>
    /\ handed' = Head(imuBuffer) /\ imuBuffer' = Tail(imuBuffer)
    /\ UNCHANGED <<timeVars, imuBridgeBuffer, clouds, cbVars, accVars>>

BridgePush ==
    /\ handed # None
    /\ imuBridgeBuffer' = DropOldest(imuBridgeBuffer, BufferSize, handed)
    /\ handed' = None
    /\ UNCHANGED <<timeVars, imuBuffer, clouds, cbVars, accVars>>

\* A cloud stamped now reaches the callback's buffer, which holds one.
CloudMessage ==
    /\ phase # "off"
    /\ clouds' = <<now>>
    /\ UNCHANGED <<timeVars, imuVars, imuBridgeBuffer, cbVars, accVars>>

-----------------------------------------------------------------------------
(**************************** registering a cloud **************************)

\* The first cloud of a session is not registered.
CallbackPop ==
    /\ phase = "on" /\ cb = "pop" /\ clouds # <<>>
    /\ cloud' = Head(clouds) /\ clouds' = Tail(clouds)
    /\ firstIteration' = FALSE
    /\ cb' = IF firstIteration THEN "pop" ELSE "accumulate"
    /\ spans' = <<>>
    /\ UNCHANGED <<timeVars, imuVars, imuBridgeBuffer, firstImuMsg, lastImu, all>>

\* duration_cast truncates towards zero.
ToMs(n) == IF n >= 0 THEN n \div TicksPerMs ELSE -((-n) \div TicksPerMs)

BeforeStrictly(m, c) == ToMs(c - m) > 0
before(m, c) == ToMs(c - m) >= 0

FromFirst(m) == IF firstImuMsg THEN lastImu' = m ELSE UNCHANGED lastImu
SetLast(m) == lastImu' = m

\* apply_transform: the message's rate over the time since the one before.  The
\* very first message only sets the time.
Apply(m) ==
    IF firstImuMsg THEN UNCHANGED <<spans, all>>
    ELSE /\ spans' = Append(spans, <<lastImu, m>>)
         /\ all' = Append(all, <<lastImu, m>>)

Accumulate ==
    /\ cb = "accumulate"
    /\ imuBridgeBuffer # <<>> /\ before(Head(imuBridgeBuffer), cloud)
    /\ imuBridgeBuffer' = Tail(imuBridgeBuffer)
    /\ Apply(Head(imuBridgeBuffer)) /\ SetLast(Head(imuBridgeBuffer))
    /\ firstImuMsg' = FALSE
    /\ UNCHANGED <<timeVars, imuVars, clouds, cbVars>>

\* pop_nb_if declines: the buffer is empty or its first message came later.
EndAccumulate ==
    /\ cb = "accumulate"
    /\ imuBridgeBuffer # <<>> => ~before(Head(imuBridgeBuffer), cloud)
    /\ cb' = "pop"
    /\ UNCHANGED <<timeVars, imuVars, imuBridgeBuffer, clouds, firstIteration, cloud, accVars>>

AccNext ==
    \/ Tick \/ StartSession \/ CallbackStarts \/ StopSession
    \/ ImuMessage \/ BridgePop \/ BridgePush \/ CloudMessage
    \/ CallbackPop \/ Accumulate \/ EndAccumulate

AccSpec == AccInit /\ [][AccNext]_pathVars

-----------------------------------------------------------------------------
(******************************* properties ********************************)

Times == 0 .. MaxTime
Maybe == Times \cup {None}
Elements(q) == {q[i] : i \in 1 .. Len(q)}
Ascending(q) == \A i, j \in 1 .. Len(q) : i < j => q[i] < q[j]

\* Every variable keeps its type; the buffers keep to their size.
AccTypeOK ==
    /\ now \in Times
    /\ phase \in {"off", "warm", "on"}
    /\ Elements(imuBuffer) \cup Elements(imuBridgeBuffer) \cup Elements(clouds) \subseteq Times
    /\ Len(imuBuffer) <= BufferSize /\ Len(imuBridgeBuffer) <= BufferSize /\ Len(clouds) <= 1
    /\ {stamped, handed, cloud, lastImu} \subseteq Maybe
    /\ firstIteration \in BOOLEAN /\ firstImuMsg \in BOOLEAN
    /\ cb \in {"pop", "accumulate"}
    /\ \A s \in Elements(spans) \cup Elements(all) : {s[1], s[2]} \subseteq Times /\ s[1] < s[2]

\* Whatever messages the two buffers lose, however late the bridge passes them
\* on and wherever the clouds come between: the time the device ran is
\* integrated without a gap and without an overlap, up to last_imu_timestamp_.
EveryMomentOnce ==
    /\ AccTypeOK
    /\ \A i \in 1 .. Len(all) - 1 : all[i][2] = all[i + 1][1]
    /\ all # <<>> => all[Len(all)][2] = lastImu

\* The messages arrive in the order of their stamps, so that all that are left
\* when a cloud is registered are younger than the cloud, and none of those that
\* were integrated is younger by a millisecond.
TakesWhatWasBefore ==
    [][EndAccumulate =>
          /\ \A m \in Elements(imuBridgeBuffer) : m > cloud
          /\ \A s \in Elements(spans) : s[2] < cloud + TicksPerMs]_pathVars
=============================================================================
