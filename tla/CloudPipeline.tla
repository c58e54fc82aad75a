---------------------------- MODULE CloudPipeline ----------------------------
(***************************************************************************)
(* The way of a point cloud: a source (VelodyneDriver, or the receiver of  *)
(* the ROS bridge) fills pointcloud_buffer, Preprocessing takes it from    *)
(* there to pointcloud_bridge_buffer, CloudCallback registers it, and on   *)
(* the way one of them may put it into pointcloud_send_buffer, which a     *)
(* QueueBridge empties into a socket.  The buffers hold shared pointers:   *)
(* all of these threads work on one and the same cloud.                    *)
(*                                                                         *)
(* The buffers are the FIFO queues that module RingBuffer implements.      *)
(* Clouds are numbered in the order of their capture.                      *)
(***************************************************************************)
EXTENDS Integers, Sequences

CONSTANTS
    NumClouds,      \* bound: the clouds of a run
    BufferSize,     \* lidar.bufferSize
    Sources,        \* which of "driver", "receiver" may be configured
    SendModes,      \* which of "none", "original", "preprocessed", "registered"
    Scales          \* whether pointScale may differ from 1

ASSUME NumCloudsAssumption  == NumClouds \in Nat
ASSUME BufferSizeAssumption == BufferSize \in Nat \ {0}
ASSUME ModesAssumption ==
    /\ Sources \subseteq {"driver", "receiver"}
    /\ SendModes \subseteq {"none", "original", "preprocessed", "registered"}
    /\ Scales \subseteq BOOLEAN

VARIABLES
    config,         \* the source, what is sent, whether points are scaled
    captured,       \* the clouds captured so far
    steps,          \* steps[c]: what was done to the points of cloud c, in order
    cloudBuffer, bridgeBuffer, sendBuffer,
    pre, preCloud,  \* Preprocessing: its next step, its cloud
    cb, cbCloud,    \* CloudCallback
    sender, sentCloud, copied,  \* the QueueBridge; what it has copied so far
    queued,         \* history: the last cloud that got into cloudBuffer
    registered,     \* history: the clouds registered, in order
    sent            \* history: the clouds sent and what had been done to them

preVars  == <<pre, preCloud>>
cbVars   == <<cb, cbCloud, registered>>
sendVars == <<sender, sentCloud, copied, sent>>
srcVars  == <<captured, queued>>
vars == <<config, captured, steps, cloudBuffer, bridgeBuffer, sendBuffer,
          pre, preCloud, cb, cbCloud, sender, sentCloud, copied,
          queued, registered, sent>>

Clouds == 1 .. NumClouds
Torn   == <<"torn">>

Init ==
    /\ config \in [source : Sources, send : SendModes, scale : Scales]
    /\ captured = 0 /\ queued = 0
    /\ steps = [c \in Clouds |-> <<>>]
    /\ cloudBuffer = <<>> /\ bridgeBuffer = <<>> /\ sendBuffer = <<>>
    /\ pre = "pop" /\ preCloud = 0
    /\ cb = "pop" /\ cbCloud = 0
    /\ sender = "pop" /\ sentCloud = 0 /\ copied = <<>>
    /\ registered = <<>> /\ sent = <<>>

\* push_nb with and without force
DropNewest(q, capacity, c) == IF Len(q) = capacity THEN q ELSE Append(q, c)
DropOldest(q, capacity, c) ==
    IF Len(q) = capacity THEN Append(Tail(q), c) ELSE Append(q, c)

-----------------------------------------------------------------------------
(******************************* the sources *******************************)

\* decode_packet, when the azimuth overflows; the driver goes on with a new cloud.
DriverPush ==
    /\ config.source = "driver" /\ captured < NumClouds
    /\ captured' = captured + 1
    /\ cloudBuffer' = DropOldest(cloudBuffer, BufferSize, captured + 1)
    /\ queued' = captured + 1
    /\ UNCHANGED <<config, steps, bridgeBuffer, sendBuffer, preVars, cbVars, sendVars>>

\* BufferedPclStampedReceiver::receive ignores the result of push_nb.
ReceiverPush ==
    /\ config.source = "receiver" /\ captured < NumClouds
    /\ captured' = captured + 1
    /\ cloudBuffer' = DropNewest(cloudBuffer, BufferSize, captured + 1)
    /\ queued' = IF Len(cloudBuffer) = BufferSize THEN queued ELSE captured + 1
    /\ UNCHANGED <<config, steps, bridgeBuffer, sendBuffer, preVars, cbVars, sendVars>>

-----------------------------------------------------------------------------
(************************ Preprocessing::thread_run ************************)

\* pop_nb comes back after its timeout; the other threads poll like this one.
PollTimeout == pre = "pop" /\ cloudBuffer = <<>> /\ UNCHANGED vars

PreprocessingPeek ==
    /\ pre = "pop" /\ cloudBuffer # <<>>
    /\ preCloud' = Head(cloudBuffer)
    /\ pre' = "scale"
    /\ UNCHANGED <<config, steps, cloudBuffer, bridgeBuffer, sendBuffer, srcVars, cbVars, sendVars>>
PreprocessingPop ==
    /\ pre = "pop" /\ cloudBuffer # <<>>
    /\ preCloud' = Head(cloudBuffer) /\ cloudBuffer' = Tail(cloudBuffer)
    /\ pre' = "scale"
    /\ UNCHANGED <<config, steps, bridgeBuffer, sendBuffer, srcVars, cbVars, sendVars>>

Done(c, step) == steps' = [steps EXCEPT ![c] = Append(@, step)]

\* out_cloud.data_ = in_cloud.data_: the points are scaled in place.
Scale ==
    /\ pre = "scale"
    /\ IF config.scale THEN Done(preCloud, "scaled") ELSE UNCHANGED steps
    /\ pre' = "sendOriginal"
    /\ UNCHANGED <<config, cloudBuffer, bridgeBuffer, sendBuffer, preCloud, srcVars, cbVars, sendVars>>

SendOriginal ==
    /\ pre = "sendOriginal"
    /\ sendBuffer' = IF config.send = "original" THEN DropNewest(sendBuffer, 1, preCloud)
                                                 ELSE sendBuffer
    /\ pre' = "reduce"
    /\ UNCHANGED <<config, steps, cloudBuffer, bridgeBuffer, preCloud, srcVars, cbVars, sendVars>>

\* reduction_filter_closest
Reduce ==
    /\ pre = "reduce"
    /\ Done(preCloud, "reduced")
    /\ pre' = "push"
    /\ UNCHANGED <<config, cloudBuffer, bridgeBuffer, sendBuffer, preCloud, srcVars, cbVars, sendVars>>

BridgeDropsNewest == bridgeBuffer' = DropNewest(bridgeBuffer, BufferSize, preCloud)
PushToBridge == bridgeBuffer' = DropOldest(bridgeBuffer, BufferSize, preCloud)

PreprocessingPush ==
    /\ pre = "push"
    /\ PushToBridge
    /\ pre' = "sendPreprocessed"
    /\ UNCHANGED <<config, steps, cloudBuffer, sendBuffer, preCloud, srcVars, cbVars, sendVars>>

SendPreprocessed ==
    /\ pre = "sendPreprocessed"
    /\ sendBuffer' = IF config.send = "preprocessed" THEN DropNewest(sendBuffer, 1, preCloud)
                                                     ELSE sendBuffer
    /\ pre' = "pop"
    /\ UNCHANGED <<config, steps, cloudBuffer, bridgeBuffer, preCloud, srcVars, cbVars, sendVars>>

-----------------------------------------------------------------------------
(************************ CloudCallback::thread_run ************************)

\* From here to the end of the registration the callback reads the points.
CallbackPop ==
    /\ cb = "pop" /\ bridgeBuffer # <<>>
    /\ cbCloud' = Head(bridgeBuffer) /\ bridgeBuffer' = Tail(bridgeBuffer)
    /\ cb' = "register"
    /\ UNCHANGED <<config, steps, cloudBuffer, sendBuffer, registered, srcVars, preVars, sendVars>>

\* The registration moves the points of its own buffer, not those of the cloud.
Register ==
    /\ cb = "register"
    /\ registered' = Append(registered, cbCloud)
    /\ cb' = "send"
    /\ UNCHANGED <<config, steps, cloudBuffer, bridgeBuffer, sendBuffer, cbCloud, srcVars, preVars, sendVars>>

SendRegistered ==
    /\ cb = "send"
    /\ sendBuffer' = IF config.send = "registered" THEN DropOldest(sendBuffer, 1, cbCloud)
                                                   ELSE sendBuffer
    /\ cb' = "pop"
    /\ UNCHANGED <<config, steps, cloudBuffer, bridgeBuffer, cbCloud, registered, srcVars, preVars, sendVars>>

-----------------------------------------------------------------------------
(***************************** the QueueBridge *****************************)

SenderPop ==
    /\ sender = "pop" /\ sendBuffer # <<>>
    /\ sentCloud' = Head(sendBuffer) /\ sendBuffer' = Tail(sendBuffer)
    /\ sender' = "copy"
    /\ UNCHANGED <<config, steps, cloudBuffer, bridgeBuffer, copied, sent, srcVars, preVars, cbVars>>

\* PointCloud pcl = *val.data_ copies the points one by one; ...
BeginCopy ==
    /\ sender = "copy"
    /\ copied' = steps[sentCloud]
    /\ sender' = "send"
    /\ UNCHANGED <<config, steps, cloudBuffer, bridgeBuffer, sendBuffer, sentCloud, sent, srcVars, preVars, cbVars>>

\* ... when somebody changes the points in the meantime the copy is torn.
Send ==
    /\ sender = "send"
    /\ sent' = Append(sent, [cloud |-> sentCloud,
                             steps |-> IF steps[sentCloud] = copied THEN copied ELSE Torn])
    /\ sender' = "pop"
    /\ UNCHANGED <<config, steps, cloudBuffer, bridgeBuffer, sendBuffer, sentCloud, copied, srcVars, preVars, cbVars>>

-----------------------------------------------------------------------------

Preprocess == PreprocessingPop \/ Scale \/ SendOriginal \/ Reduce \/ PreprocessingPush \/ SendPreprocessed
Callback   == CallbackPop \/ Register \/ SendRegistered
Sender     == SenderPop \/ BeginCopy \/ Send

Next == DriverPush \/ ReceiverPush \/ PollTimeout \/ Preprocess \/ Callback \/ Sender

Spec == Init /\ [][Next]_vars

\* The scheduler runs every thread that has something to do; clouds come when
\* they come.
FairSpec == Spec /\ WF_vars(Preprocess) /\ WF_vars(Callback) /\ WF_vars(Sender)

-----------------------------------------------------------------------------
(******************************* properties ********************************)

Queues == UNION {[1 .. n -> Clouds] : n \in 0 .. BufferSize}

\* Every variable keeps its type; the buffers keep to their sizes.
TypeOK ==
    /\ config \in [source : Sources, send : SendModes, scale : Scales]
    /\ {captured, queued, preCloud, cbCloud, sentCloud} \subseteq 0 .. NumClouds
    /\ \A c \in Clouds : steps[c] \in {<<>>, <<"scaled">>, <<"reduced">>, <<"scaled", "reduced">>}
    /\ cloudBuffer \in Queues /\ bridgeBuffer \in Queues
    /\ Len(sendBuffer) <= 1
    /\ pre \in {"pop", "scale", "sendOriginal", "reduce", "push", "sendPreprocessed"}
    /\ cb \in {"pop", "register", "send"}
    /\ sender \in {"pop", "copy", "send"}

Preprocessed == IF config.scale THEN <<"scaled", "reduced">> ELSE <<"reduced">>

\* From the moment Preprocessing hands a cloud on until the callback has
\* registered it, its points are scaled and filtered, once, and nobody changes
\* them, though all threads hold pointers to the same points.
RegistersPreprocessed ==
    /\ cb = "register" => steps[cbCloud] = Preprocessed
    /\ \A i \in 1 .. Len(bridgeBuffer) : steps[bridgeBuffer[i]] = Preprocessed

\* README.md:67: "Send the scaled and filtered sensor data"
SendsPreprocessed ==
    config.send # "original" => \A i \in 1 .. Len(sent) : sent[i].steps = Preprocessed

Ascending(s) == \A i, j \in 1 .. Len(s) : i < j => s[i] < s[j]

\* Through two queues that drop clouds, the clouds stay in the order of their
\* capture, none is registered or sent twice, and each of them is preprocessed.
ArriveInOrder ==
    /\ TypeOK
    /\ RegistersPreprocessed /\ SendsPreprocessed
    /\ Ascending(registered)
    /\ Ascending([i \in 1 .. Len(sent) |-> sent[i].cloud])

\* However slow the registration is, the newest cloud that came in is registered:
\* a full queue loses an older one.
NewestIsRegistered ==
    captured = NumClouds ~> (registered # <<>> /\ registered[Len(registered)] = queued)
=============================================================================
