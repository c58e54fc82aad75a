-------------------------------- MODULE Wire --------------------------------
(***************************************************************************)
(* One of the connections between the board and ROS, from the measurement  *)
(* to its publication: the sender's PUB socket, which loses what does not  *)
(* fit, the receiver and the object it receives into, and the bridge that  *)
(* converts and publishes.                                                 *)
(*                                                                         *)
(* The bridge of the transformations keeps the path of all poses besides,  *)
(* has a second thread that publishes, and sends its poses to the node     *)
(* that writes them to files; so does the node that follows LOAM.  A pose  *)
(* has three coordinates, and the time is the number of measurements.      *)
(***************************************************************************)
EXTENDS Codec, FiniteSets

CONSTANTS
    Kinds,          \* of the connections below
    Measured,       \* Measured[kind]: what may be measured, as [m, s]: s is the
                    \* scaling of the board's message
    Options,        \* Options[kind]: discard_timestamp and save_poses of the launch file
    MaxMessages,    \* bound: MaxMessages[kind] measurements
    HighWater,      \* ZMQ_SNDHWM and the receiver's buffer
    RingSize,       \* the buffer of BufferedReceiver
    PathLimit,      \* 16380
    Recent,         \* 1000
    NoFile

FromTrenz == {"imu", "cloud", "tsdf", "transform"}
ToTrenz   == {"imu back", "cloud back"}

ASSUME WireAssumption ==
    /\ Kinds \subseteq FromTrenz \cup ToTrenz \cup {"loam"}
    /\ {HighWater, RingSize, Recent} \subseteq Nat \ {0}
    /\ PathLimit \in Nat /\ PathLimit > Recent /\ Recent > 1

Triples     == Int \X Int \X Int
Quaternions == Int \X Int \X Int \X Int

\* The window of the local map around m.pos, whose ring begins at m.offset
IsMap(m) ==
    LET Cells(a) == m.pos[a] - Size[a] \div 2 .. m.pos[a] + Size[a] \div 2
    IN  /\ m.pos \in Triples
        /\ m.offset \in (0 .. Size[1] - 1) \X (0 .. Size[2] - 1) \X (0 .. Size[3] - 1)
        /\ m.field \in [Cells(1) \X Cells(2) \X Cells(3) -> [value : Int, weight : Int]]

\* What is measured are numbers, and a scaling is one to divide by.
ASSUME MeasuredAssumption ==
    \A k \in Kinds :
        /\ Options[k] \subseteq [discard : BOOLEAN, save : BOOLEAN]
        /\ \A e \in Measured[k] :
            /\ e.s \in Nat \ {0}
            /\ k \in {"cloud", "cloud back"} => e.m \in Seq(Int)
            /\ k = "tsdf" => IsMap(e.m)
            /\ k = "transform" => e.m.rotation \in Quaternions /\ e.m.translation \in Triples
            /\ k = "loam" => e.m \in Triples

VARIABLES
    kind,
    discard, save,  \* discard_timestamp_, save_poses_
    made,           \* history: the measurements in their order, with the scaling
    subscribed,     \* the receiver has reached the sender
    socket,         \* the parts of the messages on their way
    msg,            \* Receiver's target: [stamp, data], or NoMessage
    running,
    step,           \* of the "worker" and the "broadcaster"
    mtx,            \* the thread that holds it, or "free"
    ready,          \* the members that convert() fills: [stamp, of, content]
    ring,           \* the buffer of BufferedReceiver
    outbox,         \* everything that was published or taken out of the ring
    tf, path,       \* transform_data, pose_path.poses: both of [stamp, of, pose]
    sending,        \* transform_data as sent by a publish() that is not over
    shown,          \* history: what the last publish() of the pose sent
    walked,         \* history: all poses that went into the path
    start,          \* history: the number of the first one since the reset
    saves,          \* /evaluation/save_pose
    file            \* the poses in the file, or NoFile

link == <<made, subscribed, socket>>
pose == <<mtx, tf, path, sending, shown, walked, start>>
disk == <<saves, file>>
wireVars == <<kind, discard, save, link, msg, running, step, ready, ring, outbox, pose, disk>>

NoMessage == [stamp |-> 0, data |-> [points |-> <<>>]]
Nothing   == [stamp |-> <<0, 0>>, of |-> 0, content |-> <<>>]
\* TransformBridge's transform_data before the first message
Identity  == [stamp |-> <<0, 0>>, of |-> 0,
              pose |-> [orientation |-> <<0, 0, 0, 1>>, position |-> <<0, 0, 0>>]]

WireInit ==
    /\ kind \in Kinds
    /\ \E o \in Options[kind] : discard = o.discard /\ save = o.save
    /\ made = <<>> /\ subscribed = FALSE /\ socket = <<>> /\ msg = NoMessage
    /\ running = TRUE /\ step = [worker |-> "loop", broadcaster |-> "loop"]
    /\ ready = Nothing /\ ring = <<>> /\ outbox = <<>>
    /\ mtx = "free" /\ tf = Identity /\ path = <<>> /\ sending = Identity
    /\ shown = [tf |-> Identity, path |-> <<>>] /\ walked = <<>> /\ start = 1
    /\ saves = <<>> /\ file = NoFile

-----------------------------------------------------------------------------
(******************************** messages *********************************)

DataOf(m, s) ==
    CASE kind = "imu" -> m
      [] kind = "imu back" -> ImuFromRos(m)
      [] kind = "cloud" -> CloudOf(m, s)
      [] kind = "cloud back" -> CloudFromRos(m)
      [] kind = "tsdf" -> TsdfOf(m, s)
      [] kind = "transform" -> TransformOf(m, s)

\* Stamped: the first part is the stamp, the others are those of the data; an
\* imu is one part.
ToZmq(stamp, d) ==
    [stamp |-> stamp,
     parts |-> CASE kind \in {"imu", "imu back"} -> <<d>>
                 [] kind \in {"cloud", "cloud back"} -> CloudParts(d)
                 [] kind = "tsdf" -> TsdfParts(d)
                 [] kind = "transform" -> TransformParts(d)]

FromZmq(message, held) ==
    [stamp |-> message.stamp,
     data |-> CASE kind \in {"imu", "imu back"} -> message.parts[1]
                [] kind \in {"cloud", "cloud back"} -> CloudFromParts(message.parts, held.data)
                [] kind = "tsdf" -> TsdfFromParts(message.parts, held.data)
                [] kind = "transform" -> TransformFromParts(message.parts, held.data)]

-----------------------------------------------------------------------------
(**************************** sender and socket ****************************)

Subscribe ==
    /\ ~subscribed /\ subscribed' = TRUE
    /\ UNCHANGED <<kind, discard, save, made, socket, msg, running, step, ready, ring,
                   outbox, pose, disk>>

\* A queue of the board, or a callback of the node that replaces the sensors,
\* has something to send.  PUB drops it without a subscriber, or without room.
SendMeasured(e) ==
    /\ kind # "loam" /\ Len(made) < MaxMessages[kind]
    /\ made' = Append(made, e)
    /\ IF subscribed /\ Len(socket) < HighWater
       THEN socket' = Append(socket, ToZmq(Len(made) + 1, DataOf(e.m, e.s)))
       ELSE UNCHANGED socket
    /\ UNCHANGED <<kind, discard, save, subscribed, msg, running, step, ready, ring,
                   outbox, pose, disk>>

\* while (running && ros::ok()) of run(), thread_run() and broadcast()
Loop(p) ==
    /\ step[p] = "loop"
    /\ step' = [step EXCEPT ![p] = IF ~running THEN "done"
                                   ELSE IF p = "worker" THEN "receive" ELSE "sleep"]
    /\ UNCHANGED <<kind, discard, save, link, msg, running, ready, ring, outbox, pose, disk>>

\* The poll of receive() times out.
ReceiveNothing ==
    /\ step.worker = "receive"
    /\ step' = [step EXCEPT !.worker = "loop"]
    /\ UNCHANGED <<kind, discard, save, link, msg, running, ready, ring, outbox, pose, disk>>

Receives ==
    /\ step.worker = "receive" /\ socket # <<>>
    /\ socket' = Tail(socket)
    /\ msg' = FromZmq(Head(socket), msg)

\* BridgeBase::receive, in run()
ReceiveFromBoard ==
    /\ kind \in FromTrenz /\ Receives
    /\ step' = [step EXCEPT !.worker = "convert"]
    /\ UNCHANGED <<kind, discard, save, made, subscribed, running, ready, ring, outbox,
                   pose, disk>>

\* BufferedReceiver: push_nb without force refuses when the buffer is full,
\* and the message, moved or not, is overwritten by the next one.
ReceiveIntoRing ==
    /\ kind \in ToTrenz /\ Receives
    /\ ring' = IF Len(ring) < RingSize THEN Append(ring, msg') ELSE ring
    /\ step' = [step EXCEPT !.worker = "loop"]
    /\ UNCHANGED <<kind, discard, save, made, subscribed, running, ready, outbox, pose, disk>>

PopRing ==
    /\ ring # <<>> /\ ring' = Tail(ring)
    /\ outbox' = Append(outbox, [stamp |-> Head(ring).stamp, of |-> Head(ring).stamp,
                                 content |-> Head(ring).data])
    /\ UNCHANGED <<kind, discard, save, link, msg, running, step, ready, pose, disk>>

-----------------------------------------------------------------------------
(************************* imu, cloud and tsdf bridge **********************)

\* timestamp_to_rostime
Stamp(tick) == RosTime(IF discard THEN Len(made) ELSE tick)

Content ==
    CASE kind = "imu" -> ImuToRos(msg.data)
      [] kind = "cloud" -> CloudToRos(msg.data)
      [] kind = "tsdf" -> MarkerToRos(msg.data)

\* The tsdf bridge leaves its points alone when there are none to show, and
\* has no time of its own: publish() asks for it.
Convert ==
    /\ kind \in FromTrenz \ {"transform"} /\ step.worker = "convert"
    /\ ready' = [stamp |-> IF kind = "tsdf" THEN ready.stamp ELSE Stamp(msg.stamp),
                 of |-> msg.stamp,
                 content |-> IF kind = "tsdf" /\ Content = <<>> THEN ready.content ELSE Content]
    /\ step' = [step EXCEPT !.worker = "publish"]
    /\ UNCHANGED <<kind, discard, save, link, msg, running, ring, outbox, pose, disk>>

\* publish() of the tsdf bridge clears its points and colours.
ReadyAfter == IF kind = "tsdf" THEN Nothing ELSE ready

Publish ==
    /\ kind \in FromTrenz \ {"transform"} /\ step.worker = "publish"
    /\ outbox' = Append(outbox,
                        [ready EXCEPT !.stamp = IF kind = "tsdf" THEN Stamp(msg.stamp) ELSE @])
    /\ ready' = ReadyAfter
    /\ step' = [step EXCEPT !.worker = "loop"]
    /\ UNCHANGED <<kind, discard, save, link, msg, running, ring, pose, disk>>

-----------------------------------------------------------------------------
(***************************** transform bridge ****************************)

\* "remove a random pose, but not the start nor a recent pose"
Thin(p) == IF Len(p) < PathLimit THEN {p}
           ELSE {RemoveAt(p, index + 1) : index \in 1 .. Len(p) - Recent}

\* convert(), up to the path
ConvertTransform ==
    /\ kind = "transform" /\ step.worker = "convert"
    /\ mtx = "free" /\ mtx' = "worker"
    /\ tf' = [stamp |-> Stamp(msg.stamp), of |-> msg.stamp, pose |-> PoseToRos(msg.data)]
    /\ step' = [step EXCEPT !.worker = "path"]
    /\ UNCHANGED <<kind, discard, save, link, msg, running, ready, ring, outbox, path,
                   sending, shown, walked, start, disk>>

\* translation.isZero() && rotation.isApprox(Identity())
IsReset(d) == d.translation = <<0, 0, 0>> /\ d.rotation = <<1, 0, 0, 0>>

\* The rest of convert(): pose_stamped has the values of tf.
ExtendPath ==
    /\ step.worker = "path"
    /\ path' \in Thin(Append(IF IsReset(msg.data) THEN <<>> ELSE path, tf))
    /\ walked' = Append(walked, tf)
    /\ start' = IF IsReset(msg.data) THEN Len(walked) + 1 ELSE start
    /\ saves' = IF save THEN Append(saves, tf) ELSE saves
    /\ mtx' = "free"
    /\ step' = [step EXCEPT !.worker = "publish"]
    /\ UNCHANGED <<kind, discard, save, link, msg, running, ready, ring, outbox, tf,
                   sending, shown, file>>

\* Mutant: publish() without the mutex
LockNotTaken(p) == UNCHANGED mtx
Lock(p) == mtx = "free" /\ mtx' = p

\* publish(), called by both threads: the transformation is sent, ...
SendTransform(p) ==
    /\ kind = "transform"
    /\ \/ p = "worker" /\ step[p] = "publish"
       \/ p = "broadcaster" /\ step[p] = "sleep"
    /\ Lock(p)
    /\ sending' = tf
    /\ step' = [step EXCEPT ![p] = "send path"]
    /\ UNCHANGED <<kind, discard, save, link, msg, running, ready, ring, outbox, tf, path,
                   shown, walked, start, disk>>

\* ... then the path.
SendPath(p) ==
    /\ step[p] = "send path"
    /\ shown' = [tf |-> sending, path |-> path]
    /\ mtx' = "free"
    /\ step' = [step EXCEPT ![p] = "loop"]
    /\ UNCHANGED <<kind, discard, save, link, msg, running, ready, ring, outbox, tf, path,
                   sending, walked, start, disk>>

-----------------------------------------------------------------------------
(****************************** evaluation *********************************)

\* pointCloud2Callback: the last point of LOAM's path; without any rotation
LoamPose(e) ==
    /\ kind = "loam" /\ Len(made) < MaxMessages[kind]
    /\ made' = Append(made, e)
    /\ LET p == [stamp |-> RosTime(Len(made) + 1), of |-> Len(made) + 1,
                 pose |-> [orientation |-> <<0, 0, 0, 1>>, position |-> e.m]]
       IN  /\ path' \in Thin(Append(path, p))
           /\ walked' = Append(walked, p)
           /\ shown' = [tf |-> p, path |-> path']
           /\ saves' = Append(saves, p)
    /\ UNCHANGED <<kind, discard, save, subscribed, socket, msg, running, step, ready, ring,
                   outbox, mtx, tf, sending, start, file>>

\* createFStream and savePose.  A file that cannot be created is tried again.
Created(line) == {NoFile, <<line>>}

\* saveCallback
SaveCallback ==
    /\ saves # <<>> /\ saves' = Tail(saves)
    /\ LET line == ToCamera(Head(saves).pose)
       IN  IF file = NoFile THEN file' \in Created(line) ELSE file' = Append(file, line)
    /\ UNCHANGED <<kind, discard, save, link, msg, running, step, ready, ring, outbox, pose>>

-----------------------------------------------------------------------------

\* main() at ros::shutdown; the threads see it when they are back in their loops.
Stop ==
    /\ kind # "loam" /\ running /\ running' = FALSE
    /\ UNCHANGED <<kind, discard, save, link, msg, step, ready, ring, outbox, pose, disk>>

Threads == IF kind = "loam" THEN {}
           ELSE IF kind = "transform" THEN {"worker", "broadcaster"} ELSE {"worker"}

WireNext ==
    \/ Subscribe \/ Stop \/ ReceiveNothing
    \/ \E e \in Measured[kind] : SendMeasured(e)
    \/ ReceiveFromBoard \/ Convert \/ Publish
    \/ ReceiveIntoRing \/ PopRing
    \/ ConvertTransform \/ ExtendPath
    \/ \E p \in Threads : Loop(p) \/ SendTransform(p) \/ SendPath(p)
    \/ \E e \in Measured[kind] : LoamPose(e)
    \/ SaveCallback

WireSpec == WireInit /\ [][WireNext]_wireVars

-----------------------------------------------------------------------------
(******************************* properties ********************************)

InTheirOrder(q) == \A j, k \in DOMAIN q : j < k => q[j].of < q[k].of

\* In ROS's unit
Length(mm) == mm * Fractions
Truncated(x, mm) ==
    /\ x >= 0 => x - Length(mm) \in 0 .. Fractions - 1
    /\ x <= 0 => Length(mm) - x \in 0 .. Fractions - 1

\* The cells of a measured map that a marker has to show, and how it shows one
Known(m) ==
    {c \in DOMAIN m.field : m.field[c].weight # 0 /\ m.field[c].value \in 1 - Tau .. Tau - 1}
Entry(m, s, c) ==
    LET v == m.field[c].value
    IN  <<[a \in 1 .. 3 |-> (c[a] * Resolution * Fractions) \div s],
          IF v < 0 THEN [r |-> 0, g |-> <<-v, Tau>>] ELSE [r |-> <<v, Tau>>, g |-> 0]>>

Shows(content, m, s) ==
    CASE kind = "imu" ->
            /\ content.raw.acceleration = m.acc /\ content.raw.velocity = m.ang
            /\ content.mag.field = m.mag
            /\ {k \in 0 .. 8 : content.mag.covariance[k] # 0} = {0, 4, 8}
      [] kind = "imu back" -> content.acc = m.acc /\ content.ang = m.ang
      [] kind = "cloud" -> content = [k \in DOMAIN m |-> Length(m[k])]
      [] kind = "cloud back" ->
            /\ DOMAIN content.points = DOMAIN m /\ content.scaling = 1
            /\ \A k \in DOMAIN m : Truncated(m[k], content.points[k])
      [] kind = "tsdf" ->
            /\ ToSet(content) = {Entry(m, s, c) : c \in Known(m)}
            /\ Len(content) = Cardinality(Known(m))

\* Whatever the network loses, whenever the receiver joins and whatever the
\* objects held that are used again for every message: what is published (or
\* handed to the application) is a measurement as it was made, of whatever
\* scaling, complete, with its own stamp, in order and at most once.  The marker
\* has every known cell of the window inside tau, and none twice, wherever the
\* ring of the map begins and however the threads divide the cells.
PublishedIsMeasured ==
    /\ InTheirOrder(outbox)
    /\ \A k \in DOMAIN outbox :
        LET o == outbox[k]
        IN  /\ Shows(o.content, made[o.of].m, made[o.of].s)
            /\ kind \in FromTrenz =>
                LET tick == o.stamp[1] * PerSecond + o.stamp[2]
                IN  IF discard THEN tick \in o.of .. Len(made) ELSE tick = o.of

Since(w) == SubSeq(w, start, Len(w))

\* The transformation and the path that one publish() sends belong together, by
\* whichever thread; the path begins with the first pose since the last reset,
\* has all others in their order but for those that were thinned out, never one
\* of the latest, and stays below the length at which RViz crashes.
PathShowsPoses ==
    /\ shown.path # <<>> => Last(shown.path) = shown.tf
    /\ \A q \in {path, shown.path} : InTheirOrder(q) /\ Len(q) < PathLimit
    /\ ToSet(path) \subseteq ToSet(Since(walked))
    /\ path # <<>> => path[1] = walked[start]
    /\ \A k \in DOMAIN Since(walked) :
        \/ Since(walked)[k] \in ToSet(path)
        \/ Len(Since(walked)) >= PathLimit /\ k <= Len(Since(walked)) - (Recent - 1)
    /\ \A k \in DOMAIN walked :
        LET w == walked[k].pose m == made[walked[k].of].m
        IN  IF kind = "loam" THEN w.position = m
            ELSE /\ w.position = [a \in 1 .. 3 |-> Length(m.translation[a])]
                 /\ w.orientation = Tail(m.rotation) \o <<m.rotation[1]>>

\* A file has every pose from the first one it was there for to the last one
\* that was handled, and what is read back from it are those poses.
FilesHoldPoses ==
    file # NoFile =>
        IsSuffix([k \in DOMAIN file |-> FromCamera(file[k])],
                 [k \in 1 .. Len(walked) - Len(saves) |-> walked[k].pose])
=============================================================================
