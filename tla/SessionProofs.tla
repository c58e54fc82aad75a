---------------------------- MODULE SessionProofs ----------------------------
(***************************************************************************)
(* Proofs about what happens from session to session.  About Session, for  *)
(* any number of sessions, any size of the socket and both sources: the    *)
(* threads start and stop in an order that is safe, and no cloud from      *)
(* before a session gets as far as its callback.  About Sensors, for any   *)
(* measurements, resolution of the clock, size of the buffers and of the   *)
(* windows: however the sessions start and stop and whatever the buffers   *)
(* lose, the time the device ran is integrated once, each cloud gets what  *)
(* was measured before it, a message is the mean of the last measurements, *)
(* and the evaluator's numbers are those of the times the tasks took.      *)
(***************************************************************************)
EXTENDS Session, Sensors, TLAPS, FiniteSetTheorems, WellFoundedInduction

-----------------------------------------------------------------------------
(************************* the inductive invariant *************************)

\* How many of the Runners exist and were not told to stop
Started ==
    CASE main = "starting" -> next - 1
      [] main = "warm"     -> Last - 1
      [] main = "waitStop" -> Last
      [] main = "stopping" -> next
      [] main = "joining"  -> next - 1
      [] OTHER             -> 0

Up(t)   == running[t] /\ worker[t] = IF t = "imu" THEN "none" ELSE "live"
Down(t) == ~running[t] /\ worker[t] = "none"
\* stop() has cleared running and waits for the thread
BeingStopped(t) == ~running[t] /\ worker[t] \in {"live", "ended"} /\ t # "imu"

\* Where Application::run is tells what every thread may be doing: those of the
\* first Runners are live, those of the others have been joined, and at most one
\* is on its way from one to the other.
Ordered ==
    /\ main \in {"starting", "stopping", "joining"} => next \in 1 .. Last
    /\ main = "starting" => next < Last
    /\ main = "warm" => next = Last
    /\ \A i \in 1 .. Last :
          IF i <= Started THEN Up(Runners[i])
          ELSE IF main = "joining" /\ i = next THEN BeingStopped(Runners[i])
          ELSE Down(Runners[i])

\* What the callback may meet is from its session, what the socket and the two
\* threads before it still have included.
Fresh ==
    worker["callback"] # "none" =>
        /\ \A i \in 1 .. Len(socket) : socket[i] = session
        /\ received \in {<<>>, <<session>>} /\ cloudBuffer \in {<<>>, <<session>>}
        /\ inCloud \in {<<>>, <<session>>} /\ bridgeBuffer \in {<<>>, <<session>>}

IInv == TypeOK /\ socket \in Seq(Clouds) /\ Ordered /\ Fresh

LEMMA TheRunners ==
  /\ Last = 8
  /\ Runners[1] = "lidar" /\ Runners[2] = "preprocessing" /\ Runners[3] = "imu"
  /\ Runners[4] = "imuBridge" /\ Runners[5] = "transformBridge" /\ Runners[6] = "sendBridge"
  /\ Runners[7] = "mapThread" /\ Runners[8] = "callback"
BY DEF Last, Runners

\* Every Runner has its place in the order.
LEMMA Places ==
  /\ \A i, j \in 1 .. Last : Runners[i] = Runners[j] => i = j
  /\ \A i \in 1 .. Last : Runners[i] \in Objects
  /\ \A t \in Objects : \E i \in 1 .. Last : t = Runners[i]
<1>1. \A i \in 1 .. 8 : i = 1 \/ i = 2 \/ i = 3 \/ i = 4 \/ i = 5 \/ i = 6 \/ i = 7 \/ i = 8
  OBVIOUS
<1>2. \A i, j \in 1 .. Last : Runners[i] = Runners[j] => i = j
  BY <1>1, TheRunners
<1> QED
  BY <1>2 DEF Objects

-----------------------------------------------------------------------------
(***************************** Application::run ****************************)

\* The callback is the last of the Runners, and the map thread the one before.
LEMMA CallbackIsLast ==
  ASSUME IInv, worker["callback"] # "none"
  PROVE  /\ main \in {"waitStop", "stopping", "joining"}
         /\ running["mapThread"]
<1>1. Runners[8] = "callback" /\ Runners[7] = "mapThread" /\ Last = 8 /\ 7 \in 1 .. Last /\ 8 \in 1 .. Last
  BY TheRunners
<1>2. ~ Down(Runners[8])
  BY <1>1 DEF Down
<1>3. 8 <= Started \/ (main = "joining" /\ 8 = next)
  BY <1>1, <1>2 DEF IInv, Ordered
<1>4. main \in {"waitStop", "stopping", "joining"}
  BY <1>1, <1>3 DEF Started, IInv, Ordered
<1>5. 7 <= Started
  BY <1>1, <1>3 DEF Started, IInv, Ordered
<1>6. Up(Runners[7])
  BY <1>1, <1>5 DEF IInv, Ordered
<1> QED
  BY <1>1, <1>4, <1>6 DEF Up

LEMMA StartRunnerOK ==
  ASSUME IInv, StartRunner
  PROVE  IInv'
<1>0. PICK t : t = Runners[next]
  OBVIOUS
<1>1. /\ main = "starting" /\ next \in 1 .. Last /\ next < Last /\ next \in Int
      /\ next' = next + 1 /\ main' = IF next + 1 = Last THEN "warm" ELSE "starting"
      /\ start(t) /\ Last = 8
  BY <1>0, TheRunners DEF IInv, Ordered, StartRunner
<1>2. t \in Objects /\ \A i \in 1 .. Last : i # next => Runners[i] # t /\ Runners[i] \in Objects
  BY <1>0, <1>1, Places
<1>3. Started = next - 1 /\ Started' = next
  BY <1>1 DEF Started
<1>4. Down(t)
  BY <1>0, <1>1, <1>3 DEF IInv, Ordered
<1>5. /\ running' = [running EXCEPT ![t] = TRUE]
      /\ IF t = "imu" THEN worker' = worker /\ at' = at
                      ELSE worker' = [worker EXCEPT ![t] = "live"] /\ at' = [at EXCEPT ![t] = "test"]
  BY <1>1, <1>4 DEF start, Down, threadVars
<1>6. /\ running \in [Objects -> BOOLEAN] /\ worker \in [Objects -> {"none", "live", "ended"}]
      /\ at \in [Objects -> {"test", "work", "pass"}]
  BY DEF IInv, TypeOK
<1>7. /\ running' \in [Objects -> BOOLEAN] /\ worker' \in [Objects -> {"none", "live", "ended"}]
      /\ at' \in [Objects -> {"test", "work", "pass"}]
  BY <1>2, <1>5, <1>6
<1>8. Up(t)'
  BY <1>2, <1>4, <1>5, <1>6 DEF Up, Down
<1>9. ASSUME NEW i \in 1 .. Last, i # next
      PROVE  (Up(Runners[i])' <=> Up(Runners[i])) /\ (Down(Runners[i])' <=> Down(Runners[i]))
  <2>1. running'[Runners[i]] = running[Runners[i]] /\ worker'[Runners[i]] = worker[Runners[i]]
    BY <1>2, <1>5, <1>6, <1>9
  <2> QED
    BY <2>1 DEF Up, Down
<1>10. Ordered'
  <2>1. ASSUME NEW i \in 1 .. Last
        PROVE  IF i <= next THEN Up(Runners[i])' ELSE Down(Runners[i])'
    <3>1. CASE i = next
      BY <1>0, <1>1, <1>8, <3>1
    <3>2. CASE i # next
      <4>1. IF i <= next - 1 THEN Up(Runners[i]) ELSE Down(Runners[i])
        BY <1>1, <1>3 DEF IInv, Ordered
      <4> QED
        BY <1>1, <1>9, <3>2, <4>1
    <3> QED
      BY <3>1, <3>2
  <2> QED
    BY <1>1, <1>3, <2>1 DEF Ordered
<1>11. worker["callback"] = "none" /\ t # "callback"
  BY <1>0, <1>1, <1>2, CallbackIsLast, TheRunners DEF IInv
<1>12. Fresh'
  <2>1. "callback" \in Objects
    BY <1>1, Places, TheRunners
  <2>2. worker'["callback"] = "none"
    BY <1>5, <1>6, <1>11, <2>1
  <2> QED
    BY <2>2 DEF Fresh
<1>13. TypeOK'
  BY <1>1, <1>7 DEF IInv, TypeOK, StartRunner, Buffers
<1> QED
  BY <1>10, <1>12, <1>13 DEF IInv, StartRunner

LEMMA StartCallbackOK ==
  ASSUME IInv, StartCallback
  PROVE  IInv'
<1>1. /\ main = "warm" /\ main' = "waitStop" /\ next = 8 /\ next' = next /\ Last = 8
      /\ start("callback") /\ Runners[8] = "callback"
      /\ cloudBuffer' = <<>> /\ bridgeBuffer' = <<>>
      /\ UNCHANGED <<source, next, leaving, session, socket, received, inCloud>>
  BY TheRunners DEF IInv, Ordered, StartCallback, ClearAgain
<1>2. "callback" \in Objects /\ \A i \in 1 .. Last : i # 8 => Runners[i] # "callback" /\ Runners[i] \in Objects
  BY <1>1, Places
<1>3. Started = 7 /\ Started' = 8
  BY <1>1 DEF Started
<1>4. Down("callback")
  BY <1>1, <1>3 DEF IInv, Ordered
<1>5. /\ running' = [running EXCEPT !["callback"] = TRUE]
      /\ worker' = [worker EXCEPT !["callback"] = "live"] /\ at' = [at EXCEPT !["callback"] = "test"]
  BY <1>1, <1>4 DEF start, Down, threadVars
<1>6. /\ running \in [Objects -> BOOLEAN] /\ worker \in [Objects -> {"none", "live", "ended"}]
      /\ at \in [Objects -> {"test", "work", "pass"}]
  BY DEF IInv, TypeOK
<1>7. /\ running' \in [Objects -> BOOLEAN] /\ worker' \in [Objects -> {"none", "live", "ended"}]
      /\ at' \in [Objects -> {"test", "work", "pass"}]
  BY <1>2, <1>5, <1>6
<1>8. Up("callback")'
  BY <1>2, <1>5, <1>6 DEF Up
<1>9. ASSUME NEW i \in 1 .. Last, i # 8
      PROVE  Up(Runners[i])'
  <2>1. running'[Runners[i]] = running[Runners[i]] /\ worker'[Runners[i]] = worker[Runners[i]]
    BY <1>2, <1>5, <1>6, <1>9
  <2>2. Up(Runners[i])
    BY <1>1, <1>3, <1>9 DEF IInv, Ordered
  <2> QED
    BY <2>1, <2>2 DEF Up
<1>10. Ordered'
  BY <1>1, <1>3, <1>8, <1>9 DEF Ordered
<1>11. Fresh'
  BY <1>1 DEF Fresh, StartCallback, LongEnough
<1>12. TypeOK'
  BY <1>1, <1>7 DEF IInv, TypeOK, Buffers
<1> QED
  BY <1>1, <1>10, <1>11, <1>12 DEF IInv

LEMMA StopRunnerOK ==
  ASSUME IInv, StopRunner
  PROVE  IInv'
<1>0. PICK t : t = Runners[next]
  OBVIOUS
<1>1. /\ main = "stopping" /\ next \in 1 .. Last /\ Last = 8 /\ ClearRunning(t)
      /\ IF t = "imu" THEN next' = next - 1 /\ main' = AfterStop
                      ELSE main' = "joining" /\ next' = next
      /\ UNCHANGED <<source, leaving, session, socket, received, cloudBuffer, inCloud, bridgeBuffer>>
  BY <1>0, TheRunners DEF IInv, Ordered, StopRunner, dataVars
<1>2. t \in Objects /\ \A i \in 1 .. Last : i # next => Runners[i] # t /\ Runners[i] \in Objects
  BY <1>0, <1>1, Places
<1>3. Started = next /\ Up(t)
  BY <1>0, <1>1 DEF Started, IInv, Ordered
<1>4. running' = [running EXCEPT ![t] = FALSE] /\ worker' = worker /\ at' = at
  BY <1>1 DEF ClearRunning
<1>5. running \in [Objects -> BOOLEAN] /\ running' \in [Objects -> BOOLEAN]
  BY <1>4 DEF IInv, TypeOK
<1>6. IF t = "imu" THEN Down(t)' ELSE BeingStopped(t)'
  BY <1>2, <1>3, <1>4, <1>5 DEF Up, Down, BeingStopped
<1>7. ASSUME NEW i \in 1 .. Last, i # next
      PROVE  IF i < next THEN Up(Runners[i])' ELSE Down(Runners[i])'
  <2>1. running'[Runners[i]] = running[Runners[i]] /\ worker'[Runners[i]] = worker[Runners[i]]
    BY <1>2, <1>4, <1>5, <1>7
  <2>2. IF i < next THEN Up(Runners[i]) ELSE Down(Runners[i])
    BY <1>1, <1>3, <1>7 DEF IInv, Ordered
  <2> QED
    BY <2>1, <2>2 DEF Up, Down
<1>8. t = "imu" => next = 3
  <2>1. 3 \in 1 .. Last /\ Runners[3] = "imu"
    BY <1>1, TheRunners
  <2> QED
    BY <1>2, <2>1
<1>9. Ordered'
  <2>1. CASE t = "imu"
    <3>1. next = 3 /\ next' = 2 /\ main' = "stopping"
      BY <1>1, <1>8, <2>1 DEF AfterStop
    <3>2. Started' = 2
      BY <3>1 DEF Started
    <3>3. ASSUME NEW i \in 1 .. Last
          PROVE  IF i <= 2 THEN Up(Runners[i])' ELSE Down(Runners[i])'
      <4>1. CASE i = next
        <5>1. Down(Runners[i])'
          BY <1>0, <1>6, <2>1, <4>1
        <5> QED
          BY <3>1, <4>1, <5>1
      <4>2. CASE i # next
        BY <1>7, <3>1, <4>2
      <4> QED
        BY <4>1, <4>2
    <3> QED
      BY <1>1, <3>1, <3>2, <3>3 DEF Ordered
  <2>2. CASE t # "imu"
    <3>1. next' = next /\ main' = "joining"
      BY <1>1, <2>2
    <3>2. Started' = next - 1
      BY <3>1 DEF Started
    <3> QED
      BY <1>0, <1>1, <1>6, <1>7, <2>2, <3>1, <3>2 DEF Ordered
  <2> QED
    BY <2>1, <2>2
<1>10. Fresh'
  BY <1>1, <1>4 DEF IInv, Fresh
<1>11. TypeOK'
  BY <1>1, <1>4, <1>5, <1>8 DEF IInv, TypeOK, AfterStop
<1> QED
  BY <1>1, <1>9, <1>10, <1>11 DEF IInv

LEMMA JoinRunnerOK ==
  ASSUME IInv, JoinRunner
  PROVE  IInv'
<1>0. PICK t : t = Runners[next]
  OBVIOUS
<1>1. /\ main = "joining" /\ next \in 1 .. Last /\ Last = 8
      /\ worker' = [worker EXCEPT ![t] = "none"] /\ running' = running /\ at' = at
      /\ next' = next - 1 /\ main' = AfterStop
      /\ UNCHANGED <<source, leaving, session, socket, received, cloudBuffer, inCloud, bridgeBuffer>>
  BY <1>0, TheRunners DEF IInv, Ordered, JoinRunner, dataVars
<1>2. t \in Objects /\ \A i \in 1 .. Last : i # next => Runners[i] # t /\ Runners[i] \in Objects
  BY <1>0, <1>1, Places
<1>3. Started = next - 1 /\ BeingStopped(t)
  BY <1>0, <1>1 DEF Started, IInv, Ordered
<1>4. worker \in [Objects -> {"none", "live", "ended"}] /\ worker' \in [Objects -> {"none", "live", "ended"}]
  BY <1>1 DEF IInv, TypeOK
<1>5. Down(t)'
  BY <1>1, <1>2, <1>3, <1>4 DEF Down, BeingStopped
<1>6. ASSUME NEW i \in 1 .. Last, i # next
      PROVE  IF i < next THEN Up(Runners[i])' ELSE Down(Runners[i])'
  <2>1. running'[Runners[i]] = running[Runners[i]] /\ worker'[Runners[i]] = worker[Runners[i]]
    BY <1>1, <1>2, <1>4, <1>6
  <2>2. IF i < next THEN Up(Runners[i]) ELSE Down(Runners[i])
    BY <1>1, <1>3, <1>6 DEF IInv, Ordered
  <2> QED
    BY <2>1, <2>2 DEF Up, Down
<1>7. \A i \in 1 .. Last : IF i <= next - 1 THEN Up(Runners[i])' ELSE Down(Runners[i])'
  BY <1>0, <1>1, <1>5, <1>6
<1>8. Started' = next - 1 /\ main' \in {"stopping", "returned", "writeBack"}
      /\ (main' = "stopping" => next' \in 1 .. Last)
  BY <1>1 DEF Started, AfterStop
<1>9. Ordered'
  BY <1>7, <1>8 DEF Ordered
<1>10. Fresh'
  BY <1>1, <1>4 DEF IInv, Fresh, TypeOK
<1>11. TypeOK'
  BY <1>1, <1>4, <1>8 DEF IInv, TypeOK
<1> QED
  BY <1>1, <1>9, <1>10, <1>11 DEF IInv

LEMMA PressStartOK ==
  ASSUME IInv, PressStart
  PROVE  IInv'
<1>1. /\ main = "waitStart" /\ main' = "starting" /\ next' = 1 /\ session' = session + 1
      /\ session < NumSessions /\ cloudBuffer' = <<>> /\ bridgeBuffer' = <<>>
      /\ source' = source /\ leaving' = leaving /\ socket' = socket
      /\ received' = received /\ inCloud' = inCloud
      /\ running' = running /\ worker' = worker /\ at' = at /\ Last = 8
  BY TheRunners DEF PressStart, threadVars
<1>2. Started = 0 /\ Started' = 0
  BY <1>1 DEF Started
<1>3. Ordered'
  BY <1>1, <1>2 DEF IInv, Ordered, Up, Down
<1>4. worker["callback"] = "none"
  BY <1>1, CallbackIsLast
<1>5. Fresh'
  BY <1>1, <1>4 DEF Fresh
<1>6. TypeOK'
  BY <1>1, NumSessionsAssumption DEF IInv, TypeOK, Clouds, Buffers
<1> QED
  BY <1>1, <1>3, <1>5, <1>6 DEF IInv

LEMMA EndSessionOK ==
  ASSUME IInv, NEW signal \in BOOLEAN, EndSession(signal)
  PROVE  IInv'
<1>1. /\ main = "waitStop" /\ main' = "stopping" /\ next' = Last /\ leaving' = signal /\ Last = 8
      /\ UNCHANGED <<source, session, running, worker, at, socket, received, cloudBuffer, inCloud, bridgeBuffer>>
  BY TheRunners DEF EndSession, threadVars, dataVars
<1>2. Started = 8 /\ Started' = 8
  BY <1>1 DEF Started
<1>3. Ordered'
  BY <1>1, <1>2 DEF IInv, Ordered, Up
<1>4. Fresh'
  BY <1>1 DEF IInv, Fresh
<1>5. TypeOK'
  BY <1>1 DEF IInv, TypeOK
<1> QED
  BY <1>1, <1>3, <1>4, <1>5 DEF IInv

\* Between two sessions the program waits, or ends.
LEMMA IdleOK ==
  ASSUME IInv, Signal \/ PressCalibrate \/ WriteBack
  PROVE  IInv'
<1>1. /\ main \in {"waitCalibrate", "waitStart", "writeBack"}
      /\ main' \in {"waitCalibrate", "waitStart", "writeBack", "returned"}
      /\ UNCHANGED <<source, next, leaving, session, running, worker, at, socket, received, cloudBuffer, inCloud, bridgeBuffer>>
  BY DEF Signal, PressCalibrate, WriteBack, threadVars, dataVars
<1>2. Started = 0 /\ Started' = 0
  BY <1>1 DEF Started
<1>3. Ordered'
  BY <1>1, <1>2 DEF IInv, Ordered, Down, Up
<1>4. Fresh' /\ TypeOK'
  BY <1>1 DEF IInv, Fresh, TypeOK
<1> QED
  BY <1>1, <1>3, <1>4 DEF IInv

-----------------------------------------------------------------------------
(******************************* the threads *******************************)

\* A thread ends only when it has been told to.
LEMMA TestOK ==
  ASSUME IInv, NEW t \in Objects, Test(t)
  PROVE  IInv'
<1>1. /\ worker[t] = "live"
      /\ IF running[t] THEN at' = [at EXCEPT ![t] = "work"] /\ worker' = worker
                       ELSE worker' = [worker EXCEPT ![t] = "ended"] /\ at' = at
      /\ running' = running
      /\ UNCHANGED <<source, main, next, leaving, session, socket, received, cloudBuffer, inCloud, bridgeBuffer>>
  BY DEF Test, mainVars, dataVars
<1>2. /\ worker \in [Objects -> {"none", "live", "ended"}] /\ at \in [Objects -> {"test", "work", "pass"}]
  BY DEF IInv, TypeOK
<1>3. worker' \in [Objects -> {"none", "live", "ended"}] /\ at' \in [Objects -> {"test", "work", "pass"}]
  BY <1>1, <1>2
<1>4. Started' = Started
  BY <1>1 DEF Started
<1>5. ASSUME NEW s \in Objects
      PROVE  /\ Up(s) => Up(s)'
             /\ Down(s) => Down(s)'
             /\ BeingStopped(s) => BeingStopped(s)'
  <2>1. CASE s = t
    BY <1>1, <1>2, <2>1 DEF Up, Down, BeingStopped
  <2>2. CASE s # t
    BY <1>1, <1>2, <2>2 DEF Up, Down, BeingStopped
  <2> QED
    BY <2>1, <2>2
<1>6. Ordered'
  <2>1. ASSUME NEW i \in 1 .. Last
        PROVE  IF i <= Started THEN Up(Runners[i])'
               ELSE IF main = "joining" /\ i = next THEN BeingStopped(Runners[i])'
               ELSE Down(Runners[i])'
    <3>1. Runners[i] \in Objects
      BY Places
    <3>2. IF i <= Started THEN Up(Runners[i])
          ELSE IF main = "joining" /\ i = next THEN BeingStopped(Runners[i])
          ELSE Down(Runners[i])
      BY DEF IInv, Ordered
    <3> QED
      BY <1>5, <3>1, <3>2
  <2> QED
    BY <1>1, <1>4, <2>1 DEF IInv, Ordered
<1>7. worker'["callback"] # "none" => worker["callback"] # "none"
  <2>1. "callback" \in Objects
    BY Places, TheRunners
  <2> QED
    BY <1>1, <1>2, <2>1
<1>8. Fresh'
  BY <1>1, <1>7 DEF IInv, Fresh
<1>9. TypeOK'
  BY <1>1, <1>3 DEF IInv, TypeOK
<1> QED
  BY <1>1, <1>6, <1>8, <1>9 DEF IInv

\* The work of a thread, and the network, leave the threads as they are.
LEMMA DataStepOK ==
  ASSUME IInv, UNCHANGED <<mainVars, running, worker>>,
         at' \in [Objects -> {"test", "work", "pass"}],
         socket' \in Seq(Clouds), Len(socket') <= SocketSize,
         received' \in Buffers, cloudBuffer' \in Buffers,
         inCloud' \in Buffers, bridgeBuffer' \in Buffers,
         Fresh'
  PROVE  IInv'
<1>1. UNCHANGED <<source, main, next, leaving, session, running, worker>>
  BY DEF mainVars
<1>2. Started' = Started
  BY <1>1 DEF Started
<1>3. Ordered'
  BY <1>1, <1>2 DEF IInv, Ordered, Up, Down, BeingStopped
<1>4. \A i \in 1 .. Len(socket') : socket'[i] \in Clouds
  OBVIOUS
<1>5. TypeOK'
  BY <1>1, <1>4 DEF IInv, TypeOK
<1> QED
  BY <1>3, <1>5 DEF IInv

LEMMA ArriveOK ==
  ASSUME IInv, Arrive
  PROVE  IInv'
<1>1. /\ socket \in Seq(Clouds) /\ session \in Clouds /\ Len(socket) < SocketSize
      /\ socket' = Append(socket, session)
      /\ UNCHANGED <<mainVars, running, worker, at, session, received, cloudBuffer, inCloud, bridgeBuffer>>
      /\ SocketSize \in Nat
  BY SocketSizeAssumption DEF IInv, TypeOK, Arrive, threadVars, mainVars
<1>2. socket' \in Seq(Clouds) /\ Len(socket') = Len(socket) + 1 /\ Len(socket) \in Nat
  BY <1>1
<1>3. \A i \in 1 .. Len(socket') : socket'[i] = IF i <= Len(socket) THEN socket[i] ELSE session
  BY <1>1, <1>2
<1>4. Fresh'
  BY <1>1, <1>2, <1>3 DEF IInv, Fresh
<1>5. Len(socket') <= SocketSize
  BY <1>1, <1>2
<1>6. /\ at' \in [Objects -> {"test", "work", "pass"}]
      /\ received' \in Buffers /\ cloudBuffer' \in Buffers
      /\ inCloud' \in Buffers /\ bridgeBuffer' \in Buffers
  BY <1>1 DEF IInv, TypeOK
<1> QED
  BY <1>1, <1>2, <1>4, <1>5, <1>6, DataStepOK

LEMMA ReceiveOK ==
  ASSUME IInv, Receive
  PROVE  IInv'
<1>1. /\ socket \in Seq(Clouds) /\ socket # <<>> /\ Len(socket) <= SocketSize
      /\ socket' = Tail(socket) /\ received' = <<Head(socket)>>
      /\ at' = [at EXCEPT !["lidar"] = "pass"] /\ at \in [Objects -> {"test", "work", "pass"}]
      /\ UNCHANGED <<mainVars, running, worker, session, cloudBuffer, inCloud, bridgeBuffer>>
      /\ SocketSize \in Nat
  BY SocketSizeAssumption DEF IInv, TypeOK, Receive, Step, mainVars
<1>2. socket' \in Seq(Clouds) /\ Len(socket') = Len(socket) - 1 /\ Len(socket) \in Nat /\ Len(socket) > 0
  BY <1>1
<1>3. \A i \in 1 .. Len(socket') : socket'[i] = socket[i + 1] /\ i + 1 \in 1 .. Len(socket)
  BY <1>1, <1>2
<1>4. Head(socket) = socket[1] /\ 1 \in 1 .. Len(socket) /\ Head(socket) \in Clouds
  BY <1>1, <1>2
<1>5. /\ received' \in Buffers /\ cloudBuffer' \in Buffers
      /\ inCloud' \in Buffers /\ bridgeBuffer' \in Buffers
  BY <1>1, <1>4 DEF IInv, TypeOK, Buffers
<1>6. Fresh'
  BY <1>1, <1>3, <1>4 DEF IInv, Fresh
<1>7. at' \in [Objects -> {"test", "work", "pass"}]
  BY <1>1
<1>8. Len(socket') <= SocketSize
  <2>1. Len(socket) \in Nat /\ Len(socket) <= SocketSize /\ Len(socket') = Len(socket) - 1
    BY <1>1, <1>2
  <2> QED
    BY <1>1, <2>1
<1> QED
  BY <1>1, <1>2, <1>5, <1>6, <1>7, <1>8, DataStepOK

\* All other steps move a cloud from one place to the next, or drop it.
LEMMA MoveCloudOK ==
  ASSUME IInv, NEW t \in Objects, NEW from, NEW to \in {"test", "pass"},
         Step(t, from, to), socket' = socket,
         received' \in {received, <<>>},
         cloudBuffer' \in {cloudBuffer, received, <<>>},
         inCloud' \in {inCloud, cloudBuffer, <<>>},
         bridgeBuffer' \in {bridgeBuffer, inCloud, <<>>}
  PROVE  IInv'
<1>1. /\ at' = [at EXCEPT ![t] = to] /\ at \in [Objects -> {"test", "work", "pass"}]
      /\ UNCHANGED <<mainVars, running, worker, session>>
  BY DEF IInv, TypeOK, Step, mainVars
<1>2. Fresh'
  BY <1>1 DEF IInv, Fresh
<1>3. at' \in [Objects -> {"test", "work", "pass"}]
  BY <1>1
<1>4. /\ socket' \in Seq(Clouds) /\ Len(socket') <= SocketSize
      /\ received' \in Buffers /\ cloudBuffer' \in Buffers
      /\ inCloud' \in Buffers /\ bridgeBuffer' \in Buffers
  BY DEF IInv, TypeOK, Buffers
<1> QED
  BY <1>1, <1>2, <1>3, <1>4, DataStepOK

LEMMA LoopOK ==
  ASSUME IInv, NEW t \in Objects, Loop(t)
  PROVE  IInv'
<1>1. CASE Test(t)
  BY <1>1, TestOK
<1>2. CASE t = "lidar" /\ Receive
  BY <1>2, ReceiveOK
<1>3. CASE t = "lidar" /\ (ReceiveTimeout \/ PushReceived)
  BY <1>3, MoveCloudOK DEF ReceiveTimeout, PushReceived, Put, dataVars
<1>4. CASE t = "preprocessing" /\ (PopCloud \/ PopTimeout \/ PushPreprocessed)
  BY <1>4, MoveCloudOK DEF PopCloud, PopTimeout, PushPreprocessed, Put, dataVars
<1>5. CASE t = "callback" /\ RegisterCloud
  BY <1>5, MoveCloudOK DEF RegisterCloud
<1>6. CASE OtherWork(t)
  BY <1>6, MoveCloudOK DEF OtherWork, dataVars
<1> QED
  BY <1>1, <1>2, <1>3, <1>4, <1>5, <1>6 DEF Loop

-----------------------------------------------------------------------------
(******************************** theorems *********************************)

LEMMA InitOK == Init => IInv
<1> SUFFICES ASSUME Init PROVE IInv
  OBVIOUS
<1>1. main \in {"waitCalibrate", "waitStart"} /\ next = 1 /\ Started = 0
  BY DEF Init, Started
<1>2. Ordered
  BY <1>1, Places DEF Ordered, Init, Down
<1>3. TypeOK
  <2>1. next \in 0 .. Last /\ session \in Clouds
    BY TheRunners, NumSessionsAssumption DEF Init, Clouds
  <2>2. /\ running \in [Objects -> BOOLEAN] /\ worker \in [Objects -> {"none", "live", "ended"}]
        /\ at \in [Objects -> {"test", "work", "pass"}]
    BY DEF Init
  <2>3. Len(socket) <= SocketSize /\ \A i \in 1 .. Len(socket) : socket[i] \in Clouds
    BY SocketSizeAssumption DEF Init
  <2>4. {received, cloudBuffer, inCloud, bridgeBuffer} \subseteq Buffers
    BY DEF Init, Buffers
  <2>5. leaving \in BOOLEAN /\ source \in Sources
    BY DEF Init
  <2> QED
    BY <1>1, <2>1, <2>2, <2>3, <2>4, <2>5 DEF TypeOK
<1>4. "callback" \in Objects
  BY Places, TheRunners
<1>5. Fresh
  BY <1>4 DEF Init, Fresh
<1>6. socket \in Seq(Clouds)
  BY DEF Init
<1> QED
  BY <1>2, <1>3, <1>5, <1>6 DEF IInv

LEMMA StepOK == IInv /\ [Next]_vars => IInv'
<1> SUFFICES ASSUME IInv, [Next]_vars PROVE IInv'
  OBVIOUS
<1>1. CASE UNCHANGED vars
  BY <1>1 DEF vars, mainVars, threadVars, dataVars, IInv, TypeOK, Ordered, Started, Fresh,
              Up, Down, BeingStopped
<1>2. CASE Main
  BY <1>2, StartRunnerOK, StartCallbackOK, StopRunnerOK, JoinRunnerOK, IdleOK DEF Main
<1>3. CASE User
  BY <1>3, IdleOK, PressStartOK, EndSessionOK DEF User
<1>4. CASE Arrive
  BY <1>4, ArriveOK
<1>5. CASE \E t \in Objects : Loop(t)
  BY <1>5, LoopOK
<1> QED
  BY <1>1, <1>2, <1>3, <1>4, <1>5 DEF Next, Returned

\* Between two sessions, when the maps are written and when they are destroyed,
\* no thread is left; and as long as the callback has a thread, the map thread
\* that it calls was not told to stop.
THEOREM ThreadsAreOrderedAlways == Spec => []ThreadsAreOrdered
<1>1. IInv => ThreadsAreOrdered
  <2> SUFFICES ASSUME IInv PROVE ThreadsAreOrdered
    OBVIOUS
  <2>1. QuietBetweenSessions
    <3> SUFFICES ASSUME main \in {"waitCalibrate", "waitStart", "writeBack", "returned"},
                        NEW t \in Objects
                 PROVE  Down(t)
      BY DEF QuietBetweenSessions, Down
    <3>1. Started = 0
      BY DEF Started
    <3>2. PICK i \in 1 .. Last : t = Runners[i]
      BY Places
    <3> QED
      BY <3>1, <3>2 DEF IInv, Ordered
  <2>2. CallbackHasMapThread
    BY CallbackIsLast DEF CallbackHasMapThread
  <2> QED
    BY <2>1, <2>2 DEF ThreadsAreOrdered, IInv
<1> QED
  BY <1>1, InitOK, StepOK, PTL DEF Spec

\* If a second is long enough for the socket and for what the two threads have in
\* hand, clearing the buffers after it is enough for the rest: whatever came in
\* before the session, the callback sees none of it.
THEOREM NoStaleCloudsAlways == Spec => []NoStaleClouds
<1>1. IInv => NoStaleClouds
  BY DEF IInv, Fresh, NoStaleClouds
<1> QED
  BY <1>1, InitOK, StepOK, PTL DEF Spec

-----------------------------------------------------------------------------
(*********************** lemmas about queues and times *********************)

\* The first of a queue that is in order is before all others.
LEMMA TailFacts ==
  ASSUME NEW q \in Seq(Times), q # <<>>
  PROVE  /\ Head(q) \in Elements(q) /\ Head(q) \in Times
         /\ Tail(q) \in Seq(Times) /\ Len(Tail(q)) <= Len(q)
         /\ Elements(Tail(q)) \subseteq Elements(q)
         /\ Ascending(q) => Ascending(Tail(q)) /\ \A m \in Elements(Tail(q)) : Head(q) < m
<1>1. PICK n \in Nat : n = Len(q)
  OBVIOUS
<1>2. n >= 1 /\ Head(q) = q[1] /\ q[1] \in Times
  BY <1>1
<1>a. Tail(q) \in Seq(Times)
  OBVIOUS
<1>3. PICK t \in Seq(Times) : t = Tail(q)
  BY <1>a
<1>4. Len(t) = n - 1 /\ \A i \in 1 .. n - 1 : t[i] = q[i + 1]
  BY <1>1, <1>2, <1>3
<1>5. \A i \in 1 .. n - 1 : i + 1 \in 1 .. n
  OBVIOUS
<1>6. Elements(t) \subseteq Elements(q)
  BY <1>1, <1>4, <1>5 DEF Elements
<1>7. ASSUME Ascending(q)
      PROVE  Ascending(t) /\ \A m \in Elements(t) : q[1] < m
  <2>1. ASSUME NEW i \in 1 .. n - 1, NEW j \in 1 .. n - 1, i < j PROVE t[i] < t[j]
    <3>1. i + 1 \in 1 .. n /\ j + 1 \in 1 .. n /\ i + 1 < j + 1
      BY <2>1
    <3> QED
      BY <1>1, <1>4, <1>7, <3>1 DEF Ascending
  <2>2. ASSUME NEW i \in 1 .. n - 1 PROVE q[1] < t[i]
    <3>1. 1 \in 1 .. n /\ i + 1 \in 1 .. n /\ 1 < i + 1
      BY <1>2
    <3> QED
      BY <1>1, <1>4, <1>7, <3>1 DEF Ascending
  <2> QED
    BY <1>4, <2>1, <2>2 DEF Ascending, Elements
<1>8. 1 \in 1 .. n
  BY <1>2
<1> QED
  BY <1>1, <1>2, <1>3, <1>4, <1>6, <1>7, <1>8 DEF Elements

LEMMA AppendFacts ==
  ASSUME NEW q \in Seq(Times), NEW x \in Times
  PROVE  /\ Append(q, x) \in Seq(Times) /\ Len(Append(q, x)) = Len(q) + 1
         /\ Elements(Append(q, x)) = Elements(q) \cup {x}
         /\ Ascending(q) /\ (\A m \in Elements(q) : m < x) => Ascending(Append(q, x))
<1>1. PICK n \in Nat : n = Len(q)
  OBVIOUS
<1>a. Append(q, x) \in Seq(Times)
  OBVIOUS
<1>2. PICK a \in Seq(Times) : a = Append(q, x)
  BY <1>a
<1>3. Len(a) = n + 1 /\ a[n + 1] = x /\ \A i \in 1 .. n : a[i] = q[i]
  BY <1>1, <1>2
<1>4. 1 .. n + 1 = (1 .. n) \cup {n + 1}
  OBVIOUS
<1>5. Elements(a) = Elements(q) \cup {x}
  BY <1>1, <1>3, <1>4 DEF Elements
<1>6. ASSUME Ascending(q), \A m \in Elements(q) : m < x PROVE Ascending(a)
  <2> SUFFICES ASSUME NEW i \in 1 .. n + 1, NEW j \in 1 .. n + 1, i < j PROVE a[i] < a[j]
    BY <1>3 DEF Ascending
  <2>1. i \in 1 .. n
    OBVIOUS
  <2>2. CASE j = n + 1
    BY <1>1, <1>3, <1>6, <2>1, <2>2 DEF Elements
  <2>3. CASE j # n + 1
    <3>1. j \in 1 .. n
      BY <2>3
    <3> QED
      BY <1>1, <1>3, <1>6, <2>1, <3>1 DEF Ascending
  <2> QED
    BY <2>2, <2>3
<1> QED
  BY <1>1, <1>2, <1>3, <1>5, <1>6

\* A forced push may lose the oldest message, and keeps the others in order.
LEMMA DropOldestFacts ==
  ASSUME NEW q \in Seq(Times), NEW x \in Times, Ascending(q), Len(q) <= BufferSize,
         \A m \in Elements(q) : m < x
  PROVE  LET d == DropOldest(q, BufferSize, x)
         IN  /\ d \in Seq(Times) /\ Len(d) <= BufferSize /\ Ascending(d)
             /\ Elements(d) \subseteq Elements(q) \cup {x}
<1>1. BufferSize \in Nat \ {0} /\ Len(q) \in Nat
  BY BufferSizeAssumption
<1>2. CASE Len(q) = BufferSize
  <2>1. q # <<>>
    BY <1>1, <1>2
  <2>2. PICK t \in Seq(Times) : t = Tail(q)
    BY <2>1, TailFacts
  <2>3. Len(t) = Len(q) - 1 /\ Ascending(t) /\ Elements(t) \subseteq Elements(q)
    BY <2>1, <2>2, TailFacts
  <2>4. PICK d \in Seq(Times) : d = Append(t, x)
    BY <2>2, AppendFacts
  <2>5. Len(d) = Len(t) + 1 /\ Elements(d) = Elements(t) \cup {x} /\ Ascending(d)
    BY <2>3, <2>4, AppendFacts
  <2> QED
    BY <1>1, <1>2, <2>2, <2>3, <2>4, <2>5 DEF DropOldest
<1>3. CASE Len(q) # BufferSize
  <2>1. PICK d \in Seq(Times) : d = Append(q, x)
    BY AppendFacts
  <2>2. Len(d) = Len(q) + 1 /\ Elements(d) = Elements(q) \cup {x} /\ Ascending(d)
    BY <2>1, AppendFacts
  <2> QED
    BY <1>1, <1>3, <2>1, <2>2 DEF DropOldest
<1> QED
  BY <1>2, <1>3

\* The comparison in truncated milliseconds
LEMMA ToMsFacts ==
  ASSUME NEW n \in Int
  PROVE  /\ ToMs(n) >= 0 => n > -TicksPerMs
         /\ ~(ToMs(n) >= 0) => n < 0
<1>1. PICK t \in Nat \ {0} : t = TicksPerMs
  BY TicksPerMsAssumption
<1>2. CASE n >= 0
  <2>1. n \div t >= 0
    BY <1>2
  <2> QED
    BY <1>1, <1>2, <2>1 DEF ToMs
<1>3. CASE n < 0
  <2>1. PICK k \in Nat : k = -n
    BY <1>3
  <2>2. k \div t \in Int /\ (k % t) \in 0 .. t - 1 /\ k = t * (k \div t) + (k % t)
    BY <2>1
  <2>3. PICK d \in Int : d = k \div t
    BY <2>2
  <2>4. ASSUME -d >= 0 PROVE k < t
    <3>1. t * d <= 0
      BY <2>4
    <3>2. t * d \in Int
      BY <2>3
    <3> QED
      BY <2>2, <2>3, <3>1, <3>2
  <2> QED
    BY <1>1, <1>3, <2>1, <2>3, <2>4 DEF ToMs
<1> QED
  BY <1>2, <1>3

-----------------------------------------------------------------------------
(*********** the inductive invariant of the path to the accumulator ********)

Spans == {s \in Times \X Times : s[1] < s[2]}

PathTypes ==
    /\ now \in Times /\ phase \in {"off", "warm", "on"}
    /\ {imuBuffer, imuBridgeBuffer, clouds} \subseteq Seq(Times)
    /\ Len(imuBuffer) <= BufferSize /\ Len(imuBridgeBuffer) <= BufferSize /\ Len(clouds) <= 1
    /\ {stamped, handed, cloud, lastImu} \subseteq Maybe
    /\ firstIteration \in BOOLEAN /\ firstImuMsg \in BOOLEAN
    /\ cb \in {"pop", "accumulate"}
    /\ spans \in Seq(Spans) /\ all \in Seq(Spans)

\* On their way from the device to the accumulator the messages keep their order,
\* whatever is dropped: those that are nearer to it are older.
PathInOrder ==
    /\ stamped <= now /\ handed <= stamped /\ lastImu <= stamped
    /\ Ascending(imuBuffer) /\ Ascending(imuBridgeBuffer)
    /\ \A m \in Elements(imuBuffer) : lastImu < m /\ handed < m /\ m <= stamped
    /\ \A m \in Elements(imuBridgeBuffer) : lastImu < m /\ m <= stamped
    /\ \A m \in Elements(imuBridgeBuffer), n \in Elements(imuBuffer) : m < n
    /\ handed # None => lastImu < handed /\ \A m \in Elements(imuBridgeBuffer) : m < handed

\* What was integrated ends where the next message goes on.
Seamless ==
    /\ \A i \in 1 .. Len(all) - 1 : all[i][2] = all[i + 1][1]
    /\ all # <<>> => all[Len(all)][2] = lastImu
    /\ firstImuMsg => all = <<>>
    /\ ~firstImuMsg => lastImu # None

\* The callback is only busy within a session, and has only taken what may count.
TakenBefore ==
    /\ phase # "on" => cb = "pop"
    /\ cb = "accumulate" => /\ cloud # None
                            /\ \A s \in {spans[i] : i \in 1 .. Len(spans)} : s[2] < cloud + TicksPerMs

AccInv == PathTypes /\ PathInOrder /\ Seamless /\ TakenBefore

LEMMA SensorsInitOK == AccInit => AccInv
<1> SUFFICES ASSUME AccInit PROVE AccInv
  OBVIOUS
<1>1. /\ 0 \in Times /\ None \in Maybe /\ BufferSize \in Nat /\ <<>> \in Seq(Times) /\ <<>> \in Seq(Spans)
      /\ Len(<<>>) = 0 /\ 1 .. 0 = {}
  BY MaxTimeAssumption, BufferSizeAssumption DEF Times, Maybe
<1>2. PathTypes
  BY <1>1 DEF AccInit, PathTypes
<1>3. PathInOrder /\ Seamless /\ TakenBefore
  BY <1>1 DEF AccInit, PathInOrder, Seamless, TakenBefore, Elements, Ascending, None
<1> QED
  BY <1>2, <1>3 DEF AccInv

LEMMA AccInvImplies == AccInv => EveryMomentOnce
<1> SUFFICES ASSUME AccInv PROVE EveryMomentOnce
  OBVIOUS
<1>1. Elements(imuBuffer) \cup Elements(imuBridgeBuffer) \cup Elements(clouds) \subseteq Times
  <2>1. \A q \in Seq(Times) : Elements(q) \subseteq Times
    BY DEF Elements
  <2> QED
    BY <2>1 DEF AccInv, PathTypes
<1>2. \A s \in Elements(spans) \cup Elements(all) : {s[1], s[2]} \subseteq Times /\ s[1] < s[2]
  <2>1. \A q \in Seq(Spans) : Elements(q) \subseteq Spans
    BY DEF Elements
  <2>2. Elements(spans) \cup Elements(all) \subseteq Spans
    BY <2>1 DEF AccInv, PathTypes
  <2> QED
    BY <2>2 DEF Spans
<1>3. AccTypeOK
  <2>1. /\ now \in Times /\ phase \in {"off", "warm", "on"} /\ cb \in {"pop", "accumulate"}
        /\ Len(imuBuffer) <= BufferSize /\ Len(imuBridgeBuffer) <= BufferSize /\ Len(clouds) <= 1
        /\ {stamped, handed, cloud, lastImu} \subseteq Maybe
        /\ firstIteration \in BOOLEAN /\ firstImuMsg \in BOOLEAN
    BY DEF AccInv, PathTypes
  <2> QED
    BY <1>1, <1>2, <2>1 DEF AccTypeOK
<1> QED
  BY <1>3 DEF AccInv, Seamless, EveryMomentOnce

-----------------------------------------------------------------------------
(********************** the steps of the path and the driver ***************)

LEMMA TimesAreNumbers ==
  /\ Times \subseteq Int /\ Maybe \subseteq Int /\ Times \subseteq Maybe /\ None \in Maybe
  /\ \A t \in Times : None < t /\ t # None
  /\ \A t \in Maybe : t = None \/ t \in Times
BY MaxTimeAssumption DEF Times, Maybe, None

LEMMA TimesAreOrdered ==
  \A a, b, c \in Maybe :
    /\ a < b \/ b < c => (a <= b /\ b <= c => a < c)
    /\ a <= b /\ b <= c => a <= c
    /\ a < b => a <= b
<1>1. Maybe \subseteq Int
  BY TimesAreNumbers
<1> TAKE a, b, c \in Maybe
<1>2. a \in Int /\ b \in Int /\ c \in Int
  BY <1>1
<1> HIDE DEF Maybe
<1> QED
  BY <1>2

\* What the steps that move no message keep
LEMMA QueuesKept ==
  ASSUME AccInv, UNCHANGED <<stamped, imuBuffer, handed, imuBridgeBuffer, lastImu>>,
         now' \in Times, now <= now'
  PROVE  PathInOrder'
<1>1. stamped \in Maybe /\ now \in Maybe /\ now' \in Maybe
  BY TimesAreNumbers DEF AccInv, PathTypes
<1>2. stamped <= now'
  BY <1>1, TimesAreOrdered DEF AccInv, PathInOrder
<1> QED
  BY <1>2 DEF AccInv, PathInOrder, Ascending, Elements

LEMMA EmptyQueue == Elements(<<>>) = {} /\ Ascending(<<>>) /\ <<>> \in Seq(Times) /\ Len(<<>>) = 0
BY DEF Elements, Ascending

LEMMA TickStep == ASSUME AccInv, Tick PROVE AccInv'
<1>1. now' \in Times /\ now <= now'
  BY MaxTimeAssumption DEF Tick, AccInv, PathTypes, Times
<1>2. PathInOrder'
  BY <1>1, QueuesKept DEF Tick, imuVars, accVars
<1>3. PathTypes' /\ Seamless' /\ TakenBefore'
  BY <1>1 DEF AccInv, PathTypes, Seamless, TakenBefore, Tick, imuVars, accVars, cbVars
<1> QED
  BY <1>2, <1>3 DEF AccInv

\* The buffers are cleared
LEMMA ClearedQueues ==
  ASSUME AccInv, imuBuffer' = <<>>, imuBridgeBuffer' = <<>>, UNCHANGED <<now, stamped, handed, lastImu>>
  PROVE  PathInOrder'
<1>1. Elements(imuBuffer)' = {} /\ Elements(imuBridgeBuffer)' = {} /\ Ascending(imuBuffer)' /\ Ascending(imuBridgeBuffer)'
  BY EmptyQueue DEF Elements, Ascending
<1> QED
  BY <1>1 DEF AccInv, PathInOrder

LEMMA StartSessionStep == ASSUME AccInv, StartSession PROVE AccInv'
<1>1. PathInOrder'
  BY ClearedQueues DEF StartSession, accVars
<1>2. PathTypes'
  BY EmptyQueue, TimesAreNumbers, BufferSizeAssumption DEF AccInv, PathTypes, StartSession, accVars
<1>3. Seamless' /\ TakenBefore'
  BY DEF AccInv, Seamless, TakenBefore, StartSession, accVars
<1> QED
  BY <1>1, <1>2, <1>3 DEF AccInv

LEMMA CallbackStartsStep == ASSUME AccInv, CallbackStarts PROVE AccInv'
<1>1. PathInOrder'
  BY ClearedQueues DEF CallbackStarts, accVars
<1>2. PathTypes'
  BY EmptyQueue, TimesAreNumbers, BufferSizeAssumption DEF AccInv, PathTypes, CallbackStarts, accVars, cbVars
<1>3. Seamless' /\ TakenBefore'
  BY DEF AccInv, Seamless, TakenBefore, CallbackStarts, accVars, cbVars
<1> QED
  BY <1>1, <1>2, <1>3 DEF AccInv

LEMMA StopSessionStep == ASSUME AccInv, StopSession PROVE AccInv'
<1>1. PathInOrder'
  BY QueuesKept, TimesAreNumbers DEF AccInv, PathTypes, StopSession, accVars, imuVars
<1>2. PathTypes' /\ Seamless' /\ TakenBefore'
  BY DEF AccInv, PathTypes, Seamless, TakenBefore, StopSession, imuVars, accVars, cbVars
<1> QED
  BY <1>1, <1>2 DEF AccInv

\* A message is stamped and put into the first queue.
LEMMA MessageStep ==
  ASSUME AccInv, stamped < now, stamped' = now,
         imuBuffer' = DropOldest(imuBuffer, BufferSize, now),
         UNCHANGED <<now, phase, handed, imuBridgeBuffer, clouds, cbVars, accVars>>
  PROVE  AccInv'
<1>1. PICK q \in Seq(Times) : q = imuBuffer
  BY DEF AccInv, PathTypes
<1>2. PICK n \in Times : n = now
  BY DEF AccInv, PathTypes
<1>3. PICK s \in Maybe : s = stamped
  BY DEF AccInv, PathTypes
<1>4. \A m \in Elements(q) : m \in Times /\ m <= s
  <2>1. Elements(q) \subseteq Times
    BY DEF Elements
  <2> QED
    BY <1>1, <1>3, <2>1 DEF AccInv, PathInOrder
<1>a. s < n
  BY <1>2, <1>3
<1>5. \A m \in Elements(q) : m < n
  BY <1>2, <1>3, <1>4, <1>a, TimesAreNumbers, TimesAreOrdered
<1>6. PICK d : d = DropOldest(q, BufferSize, n)
  OBVIOUS
<1>7. /\ d \in Seq(Times) /\ Len(d) <= BufferSize /\ Ascending(d)
      /\ Elements(d) \subseteq Elements(q) \cup {n}
  BY <1>1, <1>5, <1>6, DropOldestFacts DEF AccInv, PathTypes, PathInOrder
<1>8. imuBuffer' = d /\ stamped' = n /\ s < n
  BY <1>1, <1>2, <1>3, <1>6
<1>9. PathInOrder'
  <2>1. handed \in Maybe /\ lastImu \in Maybe
    BY DEF AccInv, PathTypes
  <2>2. handed <= s /\ lastImu <= s
    BY <1>3 DEF AccInv, PathInOrder
  <2>3. handed < n /\ lastImu < n
    BY <1>8, <2>1, <2>2, TimesAreNumbers
  <2>4. PICK b \in Seq(Times) : b = imuBridgeBuffer
    BY DEF AccInv, PathTypes
  <2>5. \A m \in Elements(b) : m \in Times /\ m < n
    <3>1. Elements(b) \subseteq Times
      BY DEF Elements
    <3>2. \A m \in Elements(b) : m <= s
      BY <1>3, <2>4 DEF AccInv, PathInOrder
    <3> QED
      BY <1>8, <3>1, <3>2, TimesAreNumbers, TimesAreOrdered
  <2>6. \A m \in Elements(d) : m \in Times /\ m <= n
    <3>1. n <= n /\ n \in Int
      BY TimesAreNumbers
    <3> QED
      BY <1>4, <1>5, <1>7, <3>1, TimesAreNumbers, TimesAreOrdered
  <2>7. \A m \in Elements(q) : lastImu < m /\ handed < m /\ \A k \in Elements(b) : k < m
    BY <1>1, <2>4 DEF AccInv, PathInOrder
  <2>8. \A m \in Elements(d) : lastImu < m /\ handed < m /\ \A k \in Elements(b) : k < m
    BY <1>7, <2>3, <2>5, <2>7
  <2>9. /\ Elements(imuBuffer)' = Elements(d) /\ Elements(imuBridgeBuffer)' = Elements(b)
        /\ Ascending(imuBuffer)' /\ Ascending(imuBridgeBuffer)'
        /\ UNCHANGED <<handed, lastImu>>
    BY <1>7, <1>8, <2>4 DEF AccInv, PathInOrder, Elements, Ascending, accVars
  <2>10. handed # None => lastImu < handed /\ \A m \in Elements(b) : m < handed
    BY <2>4 DEF AccInv, PathInOrder
  <2>11. \A m \in Elements(b) : lastImu < m
    BY <2>4 DEF AccInv, PathInOrder
  <2>12. stamped' <= now' /\ handed' <= stamped' /\ lastImu' <= stamped'
    BY <1>2, <1>8, <2>1, <2>3, <2>9, TimesAreNumbers
  <2>13. \A m \in Elements(b) : m <= stamped'
    <3>1. \A m \in Elements(b) : m <= n
      BY <2>5, TimesAreNumbers, TimesAreOrdered
    <3> QED
      BY <1>8, <3>1
  <2> QED
    BY <1>8, <2>6, <2>8, <2>9, <2>10, <2>11, <2>12, <2>13 DEF PathInOrder
<1>10. PathTypes'
  BY <1>2, <1>7, <1>8, TimesAreNumbers DEF AccInv, PathTypes, cbVars, accVars
<1>11. Seamless' /\ TakenBefore'
  BY DEF AccInv, Seamless, TakenBefore, cbVars, accVars
<1> QED
  BY <1>9, <1>10, <1>11 DEF AccInv

LEMMA BridgePopStep == ASSUME AccInv, BridgePop PROVE AccInv'
<1>1. PICK q \in Seq(Times) : q = imuBuffer
  BY DEF AccInv, PathTypes
<1>2. /\ q # <<>> /\ handed' = Head(q) /\ imuBuffer' = Tail(q)
      /\ UNCHANGED <<timeVars, imuBridgeBuffer, clouds, cbVars, accVars>>
  BY <1>1 DEF BridgePop
<1>3. PICK h : h = Head(q)
  OBVIOUS
<1>4. PICK t : t = Tail(q)
  OBVIOUS
<1>5. /\ h \in Elements(q) /\ h \in Times
      /\ t \in Seq(Times) /\ Len(t) <= Len(q)
      /\ Elements(t) \subseteq Elements(q)
      /\ Ascending(t) /\ \A m \in Elements(t) : h < m
  BY <1>1, <1>2, <1>3, <1>4, TailFacts DEF AccInv, PathInOrder
<1>6. PathTypes'
  <2>1. Len(t) <= BufferSize
    <3>1. Len(t) \in Int /\ Len(q) \in Int /\ BufferSize \in Int /\ Len(q) <= BufferSize
      BY <1>1, <1>5, BufferSizeAssumption DEF AccInv, PathTypes
    <3> QED
      BY <1>5, <3>1
  <2> QED
    BY <1>2, <1>3, <1>4, <1>5, <2>1, TimesAreNumbers DEF AccInv, PathTypes, timeVars, cbVars, accVars
<1>7. PathInOrder'
  <2>1. Ascending(imuBuffer)' /\ Ascending(imuBridgeBuffer)'
    BY <1>2, <1>4, <1>5 DEF AccInv, PathInOrder, Ascending
  <2>2. Elements(imuBuffer)' = Elements(t) /\ Elements(imuBridgeBuffer)' = Elements(imuBridgeBuffer)
    BY <1>2, <1>4 DEF Elements
  <2>3. /\ stamped <= now /\ lastImu <= stamped
        /\ \A m \in Elements(q) : lastImu < m /\ m <= stamped /\ \A n \in Elements(imuBridgeBuffer) : n < m
        /\ \A m \in Elements(imuBridgeBuffer) : lastImu < m /\ m <= stamped
    BY <1>1 DEF AccInv, PathInOrder
  <2> QED
    BY <1>2, <1>3, <1>5, <2>1, <2>2, <2>3 DEF PathInOrder, timeVars, accVars
<1>8. Seamless' /\ TakenBefore'
  BY <1>2 DEF AccInv, Seamless, TakenBefore, timeVars, cbVars, accVars
<1> QED
  BY <1>6, <1>7, <1>8 DEF AccInv

LEMMA BridgePushStep == ASSUME AccInv, BridgePush PROVE AccInv'
<1>1. PICK q \in Seq(Times) : q = imuBridgeBuffer
  BY DEF AccInv, PathTypes
<1>2. PICK h : h = handed
  OBVIOUS
<1>3. PICK d : d = DropOldest(q, BufferSize, h)
  OBVIOUS
<1>4. /\ h # None /\ imuBridgeBuffer' = d /\ handed' = None
      /\ UNCHANGED <<timeVars, imuBuffer, clouds, cbVars, accVars>>
  BY <1>1, <1>2, <1>3 DEF BridgePush
<1>5. h \in Times
  BY <1>2, <1>4, TimesAreNumbers DEF AccInv, PathTypes
<1>6. /\ d \in Seq(Times) /\ Len(d) <= BufferSize /\ Ascending(d)
      /\ Elements(d) \subseteq Elements(q) \cup {h}
  BY <1>1, <1>2, <1>3, <1>4, <1>5, DropOldestFacts DEF AccInv, PathTypes, PathInOrder
<1>7. PathTypes'
  BY <1>4, <1>6, TimesAreNumbers DEF AccInv, PathTypes, timeVars, cbVars, accVars
<1>8. PathInOrder'
  <2>1. Ascending(imuBuffer)' /\ Ascending(imuBridgeBuffer)'
    BY <1>4, <1>6 DEF AccInv, PathInOrder, Ascending
  <2>2. Elements(imuBridgeBuffer)' = Elements(d) /\ Elements(imuBuffer)' = Elements(imuBuffer)
    BY <1>4 DEF Elements
  <2>3. /\ stamped <= now /\ lastImu <= stamped /\ h <= stamped /\ lastImu < h
        /\ \A m \in Elements(imuBuffer) : lastImu < m /\ m <= stamped /\ h < m /\ \A n \in Elements(q) : n < m
        /\ \A m \in Elements(q) : lastImu < m /\ m <= stamped
    BY <1>1, <1>2, <1>4 DEF AccInv, PathInOrder
  <2>4. \A m \in Elements(imuBuffer) : None < m
    <3>1. \A m \in Elements(imuBuffer) : m \in Times
      BY DEF AccInv, PathTypes, Elements
    <3> QED
      BY <3>1, TimesAreNumbers
  <2>5. None <= stamped
    <3>1. stamped \in Maybe
      BY DEF AccInv, PathTypes
    <3> QED
      BY <1>5, <2>3, <3>1, TimesAreNumbers, TimesAreOrdered
  <2>6. \A m \in Elements(d) : lastImu < m /\ m <= stamped /\ \A n \in Elements(imuBuffer) : m < n
    BY <1>6, <2>3
  <2> QED
    BY <1>4, <2>1, <2>2, <2>3, <2>4, <2>5, <2>6 DEF PathInOrder, timeVars, accVars
<1>9. Seamless' /\ TakenBefore'
  BY <1>4 DEF AccInv, Seamless, TakenBefore, timeVars, cbVars, accVars
<1> QED
  BY <1>7, <1>8, <1>9 DEF AccInv

LEMMA CloudMessageStep == ASSUME AccInv, CloudMessage PROVE AccInv'
<1>1. PathInOrder'
  BY QueuesKept, TimesAreNumbers DEF AccInv, PathTypes, CloudMessage, timeVars, imuVars, accVars
<1>2. PathTypes'
  <2>1. now \in Times
    BY DEF AccInv, PathTypes
  <2>2. <<now>> \in Seq(Times) /\ Len(<<now>>) = 1
    BY <2>1
  <2>3. clouds' \in Seq(Times) /\ Len(clouds') <= 1
    BY <2>2 DEF CloudMessage
  <2> QED
    BY <2>3 DEF AccInv, PathTypes, CloudMessage, timeVars, imuVars, cbVars, accVars
<1>3. Seamless' /\ TakenBefore'
  BY DEF AccInv, Seamless, TakenBefore, CloudMessage, timeVars, cbVars, accVars
<1> QED
  BY <1>1, <1>2, <1>3 DEF AccInv

LEMMA CallbackPopStep == ASSUME AccInv, CallbackPop PROVE AccInv'
<1>1. PICK q \in Seq(Times) : q = clouds
  BY DEF AccInv, PathTypes
<1>2. /\ phase = "on" /\ q # <<>>
      /\ cloud' = Head(q) /\ clouds' = Tail(q) /\ spans' = <<>> /\ firstIteration' = FALSE
      /\ cb' \in {"pop", "accumulate"}
      /\ UNCHANGED <<timeVars, imuVars, imuBridgeBuffer, firstImuMsg, lastImu, all>>
  BY <1>1 DEF CallbackPop
<1>3. Head(q) \in Times /\ Tail(q) \in Seq(Times) /\ Len(Tail(q)) <= Len(q)
  BY <1>2, TailFacts
<1>4. PathInOrder'
  BY <1>2, QueuesKept, TimesAreNumbers DEF AccInv, PathTypes, timeVars, imuVars
<1>5. PathTypes'
  <2>1. PICK t \in Seq(Times) : t = Tail(q)
    BY <1>3
  <2>2. Len(t) <= 1
    <3>1. Len(t) \in Int /\ Len(q) \in Int /\ Len(q) <= 1
      BY <1>1, <2>1 DEF AccInv, PathTypes
    <3> QED
      BY <1>3, <2>1, <3>1
  <2>3. clouds' \in Seq(Times) /\ Len(clouds') <= 1
    BY <1>2, <2>1, <2>2
  <2>4. cloud' \in Maybe
    BY <1>1, <1>2, <1>3, TimesAreNumbers
  <2>5. spans' \in Seq(Spans)
    BY <1>2
  <2> QED
    BY <1>2, <2>3, <2>4, <2>5 DEF AccInv, PathTypes, timeVars, imuVars
<1>6. Seamless'
  BY <1>2 DEF AccInv, Seamless
<1>7. TakenBefore'
  <2>1. \A j \in 1 .. Len(spans') : FALSE
    BY <1>2
  <2>2. cloud' # None /\ phase' = "on"
    BY <1>2, <1>3, TimesAreNumbers DEF timeVars
  <2> QED
    BY <2>1, <2>2 DEF TakenBefore
<1> QED
  BY <1>4, <1>5, <1>6, <1>7 DEF AccInv

LEMMA AccumulateStep == ASSUME AccInv, Accumulate PROVE AccInv'
<1>1. PICK q \in Seq(Times) : q = imuBridgeBuffer
  BY DEF AccInv, PathTypes
<1>2. PICK m : m = Head(q)
  OBVIOUS
<1>3. PICK t : t = Tail(q)
  OBVIOUS
<1>4. /\ cb = "accumulate" /\ q # <<>> /\ before(m, cloud)
      /\ imuBridgeBuffer' = t
      /\ Apply(m) /\ lastImu' = m /\ firstImuMsg' = FALSE
      /\ UNCHANGED <<timeVars, imuVars, clouds, cbVars>>
  BY <1>1, <1>2, <1>3 DEF Accumulate, SetLast
<1>5. /\ m \in Elements(q) /\ m \in Times
      /\ t \in Seq(Times) /\ Len(t) <= Len(q)
      /\ Elements(t) \subseteq Elements(q)
      /\ Ascending(t) /\ \A n \in Elements(t) : m < n
  BY <1>1, <1>2, <1>3, <1>4, TailFacts DEF AccInv, PathInOrder
<1>6. m # None
  BY <1>5, TimesAreNumbers
<1>7. PathInOrder'
  <2>1. Ascending(imuBuffer)' /\ Ascending(imuBridgeBuffer)'
    BY <1>4, <1>5 DEF AccInv, PathInOrder, Ascending, imuVars
  <2>2. Elements(imuBridgeBuffer)' = Elements(t) /\ Elements(imuBuffer)' = Elements(imuBuffer)
    BY <1>4 DEF Elements, imuVars
  <2>3. /\ stamped <= now /\ handed <= stamped
        /\ \A n \in Elements(imuBuffer) : handed < n /\ n <= stamped /\ \A k \in Elements(q) : k < n
        /\ \A n \in Elements(q) : n <= stamped
        /\ handed # None => \A n \in Elements(q) : n < handed
    BY <1>1 DEF AccInv, PathInOrder
  <2> QED
    BY <1>4, <1>5, <2>1, <2>2, <2>3 DEF PathInOrder, timeVars, imuVars
<1>8. m < cloud + TicksPerMs
  <2>1. cloud \in Int /\ m \in Int /\ TicksPerMs \in Int
    <3>1. cloud \in Maybe
      BY DEF AccInv, PathTypes
    <3>2. cloud \in Int /\ m \in Int
      BY <1>5, <3>1, TimesAreNumbers
    <3> QED
      BY <3>2, TicksPerMsAssumption
  <2>2. cloud - m > -TicksPerMs
    BY <1>4, <2>1, ToMsFacts DEF before
  <2> QED
    BY <2>1, <2>2
<1>9. Len(t) <= BufferSize
  <2>1. Len(t) \in Int /\ Len(q) \in Int /\ BufferSize \in Int /\ Len(q) <= BufferSize
    BY <1>1, <1>5, BufferSizeAssumption DEF AccInv, PathTypes
  <2> QED
    BY <1>5, <2>1
<1>10. CASE firstImuMsg
  <2>1. UNCHANGED <<spans, all>>
    BY <1>4, <1>10 DEF Apply
  <2>2. PathTypes'
    BY <1>4, <1>5, <1>9, <2>1, TimesAreNumbers DEF AccInv, PathTypes, timeVars, imuVars, cbVars
  <2>3. Seamless'
    BY <1>4, <1>6, <1>10, <2>1 DEF AccInv, Seamless
  <2>4. TakenBefore'
    BY <1>4, <2>1 DEF AccInv, TakenBefore, timeVars, cbVars
  <2> QED
    BY <1>7, <2>2, <2>3, <2>4 DEF AccInv
<1>11. CASE ~firstImuMsg
  <2>1. PICK s : s = <<lastImu, m>>
    OBVIOUS
  <2>2. spans' = Append(spans, s) /\ all' = Append(all, s)
    BY <1>4, <1>11, <2>1 DEF Apply
  <2>3. s \in Spans /\ s[1] = lastImu /\ s[2] = m
    <3>1. lastImu \in Times
      BY <1>11, TimesAreNumbers DEF AccInv, PathTypes, Seamless
    <3>2. lastImu < m
      BY <1>1, <1>5 DEF AccInv, PathInOrder
    <3> QED
      BY <1>5, <2>1, <3>1, <3>2 DEF Spans
  <2>4. PICK sp \in Seq(Spans) : sp = spans
    BY DEF AccInv, PathTypes
  <2>5. PICK al \in Seq(Spans) : al = all
    BY DEF AccInv, PathTypes
  <2>6. spans' \in Seq(Spans) /\ all' \in Seq(Spans)
    BY <2>2, <2>3, <2>4, <2>5
  <2>7. PathTypes'
    BY <1>4, <1>5, <1>9, <2>6, TimesAreNumbers DEF AccInv, PathTypes, timeVars, imuVars, cbVars
  <2>8. Seamless'
    <3>1. PICK n \in Nat : n = Len(al)
      BY <2>5
    <3>2. PICK b \in Seq(Spans) : b = all'
      BY <2>6
    <3>3. Len(b) = n + 1 /\ b[n + 1] = s /\ \A j \in 1 .. n : b[j] = al[j]
      BY <2>2, <2>3, <2>5, <3>1, <3>2
    <3>4. /\ \A j \in 1 .. n - 1 : al[j][2] = al[j + 1][1]
          /\ n > 0 => al[n][2] = lastImu
      <4>1. n > 0 => al # <<>>
        BY <3>1
      <4> QED
        BY <2>5, <3>1, <4>1 DEF AccInv, Seamless
    <3>5. ASSUME NEW j \in 1 .. n PROVE b[j][2] = b[j + 1][1]
      <4>1. CASE j = n
        BY <2>3, <3>3, <3>4, <4>1
      <4>2. CASE j # n
        <5>1. j \in 1 .. n - 1 /\ j + 1 \in 1 .. n
          BY <4>2
        <5> QED
          BY <3>3, <3>4, <5>1
      <4> QED
        BY <4>1, <4>2
    <3>6. b[Len(b)][2] = lastImu' /\ Len(b) - 1 = n
      BY <1>4, <2>3, <3>1, <3>3
    <3> QED
      BY <1>4, <1>6, <3>2, <3>5, <3>6 DEF Seamless
  <2>9. TakenBefore'
    <3>1. PICK n \in Nat : n = Len(sp)
      BY <2>4
    <3>2. PICK b \in Seq(Spans) : b = spans'
      BY <2>6
    <3>3. Len(b) = n + 1 /\ b[n + 1] = s /\ \A j \in 1 .. n : b[j] = sp[j]
      BY <2>2, <2>3, <2>4, <3>1, <3>2
    <3>4. \A j \in 1 .. n : sp[j][2] < cloud + TicksPerMs
      BY <1>4, <2>4, <3>1 DEF AccInv, TakenBefore
    <3>5. \A j \in 1 .. Len(b) : b[j][2] < cloud + TicksPerMs
      <4>1. ASSUME NEW j \in 1 .. n PROVE b[j][2] < cloud + TicksPerMs
        BY <3>3, <3>4
      <4>2. b[n + 1][2] < cloud + TicksPerMs
        BY <1>8, <2>3, <3>3
      <4>3. \A j \in 1 .. Len(b) : j \in 1 .. n \/ j = n + 1
        BY <3>3
      <4> QED
        BY <4>1, <4>2, <4>3
    <3>6. UNCHANGED <<cloud, cb, phase>>
      BY <1>4 DEF timeVars, cbVars
    <3> QED
      BY <1>4, <3>2, <3>5, <3>6 DEF AccInv, TakenBefore
  <2> QED
    BY <1>7, <2>7, <2>8, <2>9 DEF AccInv
<1> QED
  BY <1>10, <1>11

LEMMA EndAccumulateStep == ASSUME AccInv, EndAccumulate PROVE AccInv'
<1>1. PathInOrder'
  BY QueuesKept, TimesAreNumbers DEF AccInv, PathTypes, EndAccumulate, timeVars, imuVars, accVars
<1>2. PathTypes' /\ Seamless' /\ TakenBefore'
  BY DEF AccInv, PathTypes, Seamless, TakenBefore, EndAccumulate, timeVars, imuVars, accVars
<1> QED
  BY <1>1, <1>2 DEF AccInv

\* What is left in the buffer when a cloud is registered is younger than it.
LEMMA EndTakesWhatWasBefore ==
  ASSUME AccInv, EndAccumulate
  PROVE  /\ \A m \in Elements(imuBridgeBuffer) : m > cloud
         /\ \A s \in Elements(spans) : s[2] < cloud + TicksPerMs
<1>1. \A s \in Elements(spans) : s[2] < cloud + TicksPerMs
  BY DEF AccInv, TakenBefore, EndAccumulate, Elements
<1>2. ASSUME NEW m \in Elements(imuBridgeBuffer) PROVE m > cloud
  <2>1. PICK q \in Seq(Times) : q = imuBridgeBuffer
    BY DEF AccInv, PathTypes
  <2>2. q # <<>> /\ m \in Elements(q)
    BY <1>2, <2>1, EmptyQueue
  <2>3. PICK h : h = Head(q)
    OBVIOUS
  <2>4. ~before(h, cloud)
    BY <2>1, <2>2, <2>3 DEF EndAccumulate
  <2>5. h \in Int /\ cloud \in Int /\ m \in Int
    <3>1. m \in Times /\ h \in Times
      BY <2>2, <2>3, TailFacts DEF Elements
    <3> QED
      BY <3>1, TimesAreNumbers DEF AccInv, PathTypes
  <2>6. cloud < h
    <3>1. cloud - h < 0
      BY <2>4, <2>5, ToMsFacts DEF before
    <3> QED
      BY <2>5, <3>1
  <2>7. m = h \/ h < m
    <3>1. PICK n \in Nat : n = Len(q)
      BY <2>1
    <3>2. PICK j \in 1 .. n : m = q[j]
      BY <2>2, <3>1 DEF Elements
    <3>3. h = q[1] /\ 1 \in 1 .. n
      BY <2>2, <2>3, <3>1
    <3>4. j = 1 \/ 1 < j
      OBVIOUS
    <3> QED
      BY <2>1, <3>1, <3>2, <3>3, <3>4 DEF AccInv, PathInOrder, Ascending
  <2> QED
    BY <2>5, <2>6, <2>7
<1> QED
  BY <1>1, <1>2

LEMMA StutterStep == ASSUME AccInv, UNCHANGED pathVars PROVE AccInv'
<1>1. PathInOrder'
  BY QueuesKept, TimesAreNumbers DEF AccInv, PathTypes, pathVars, timeVars, imuVars, accVars
<1>2. PathTypes' /\ Seamless' /\ TakenBefore'
  BY DEF AccInv, PathTypes, Seamless, TakenBefore, pathVars, timeVars, imuVars, cbVars, accVars
<1> QED
  BY <1>1, <1>2 DEF AccInv

LEMMA SensorsStepOK == AccInv /\ [SensorsNext]_allVars => AccInv'
<1> SUFFICES ASSUME AccInv, [SensorsNext]_allVars PROVE AccInv'
  OBVIOUS
<1>1. CASE UNCHANGED pathVars
  BY <1>1, StutterStep
<1>2. CASE DataHandler
  BY <1>2, MessageStep DEF DataHandler, ImuMessage
<1>3. CASE DataAfterCalibration
  BY <1>3, MessageStep DEF DataAfterCalibration, cbVars, accVars
<1>4. CASE SessionStarts
  BY <1>4, StartSessionStep DEF SessionStarts
<1>5. CASE SessionStops
  BY <1>5, StopSessionStep DEF SessionStops
<1>6. CASE PopStartsTotal
  BY <1>6, CallbackPopStep DEF PopStartsTotal
<1>7. CASE RegisterAccumulates
  BY <1>7, AccumulateStep DEF RegisterAccumulates
<1>8. CASE StopReg
  BY <1>8, EndAccumulateStep DEF StopReg
<1>9. CASE TickCounts
  BY <1>9, TickStep DEF TickCounts
<1>10. CASE Others
  BY <1>10, CallbackStartsStep, BridgePopStep, BridgePushStep, CloudMessageStep DEF Others
<1>11. CASE \/ \E found \in BOOLEAN : OpenDevice(found)
            \/ Calibrate \/ StopCalibrated \/ StartReg \/ StopTotal \/ LogReport \/ ResumeAll
  BY <1>1, <1>11 DEF OpenDevice, Calibrate, StopCalibrated, StartReg, StopTotal, LogReport, ResumeAll
<1> QED
  BY <1>1, <1>2, <1>3, <1>4, <1>5, <1>6, <1>7, <1>8, <1>9, <1>10, <1>11 DEF SensorsNext, allVars

LEMMA AccInvAlways == SensorsSpec => []AccInv
<1>1. SensorsInit => AccInv
  BY SensorsInitOK DEF SensorsInit
<1> QED
  BY <1>1, SensorsStepOK, PTL DEF SensorsSpec

-----------------------------------------------------------------------------
(************* totals, by induction on how many numbers there are **********)

LEMMA SmallestOf ==
  ASSUME NEW S, S \subseteq Nat, S # {}
  PROVE  \E n \in S : \A m \in S : n <= m
<1>1. PICK n \in S : \A m \in S : <<m, n>> \notin OpToRel(<, Nat)
  BY NatLessThanWellFounded, WFMin
<1>2. \A m \in S : ~(m < n)
  BY <1>1 DEF OpToRel
<1> QED
  BY <1>2

LEMMA FromZeroUp ==
  ASSUME NEW S, NEW N \in Nat, 0 \in S, \A n \in 0 .. N - 1 : n \in S => n + 1 \in S
  PROVE  \A n \in 0 .. N : n \in S
<1> DEFINE out == {n \in 0 .. N : n \notin S}
<1> SUFFICES ASSUME out # {}
             PROVE  FALSE
  OBVIOUS
<1>1. out \in SUBSET Nat
  OBVIOUS
<1>2. PICK x \in out : \A y \in out : x <= y
  <2> HIDE DEF out
  <2> QED
    BY <1>1, SmallestOf
<1>3. x # 0 /\ x - 1 \in 0 .. N - 1
  BY <1>2
<1>4. x - 1 \in S
  BY <1>2, <1>3
<1> QED
  BY <1>2, <1>3, <1>4

TotalFcn(f, upTo, N) ==
  upTo = [n \in 0 .. N |-> IF n = 0 THEN 0 ELSE upTo[n - 1] + f[n]]

LEMMA TotalsExist ==
  ASSUME NEW f, NEW N \in Nat
  PROVE  \E upTo : TotalFcn(f, upTo, N)
<1> DEFINE S == {n \in Nat : \E upTo : TotalFcn(f, upTo, n)}
<1>1. 0 \in S
  <2>1. TotalFcn(f, [n \in 0 .. 0 |-> 0], 0)
    BY DEF TotalFcn
  <2> QED
    BY <2>1
<1>2. ASSUME NEW n \in Nat, n \in S
      PROVE  n + 1 \in S
  <2>1. PICK g : TotalFcn(f, g, n)
    BY <1>2
  <2> DEFINE h == [k \in 0 .. n + 1 |-> IF k = n + 1 THEN g[n] + f[n + 1] ELSE g[k]]
  <2>2. \A k \in 0 .. n : g[k] = IF k = 0 THEN 0 ELSE g[k - 1] + f[k]
    BY <2>1 DEF TotalFcn
  <2>3. ASSUME NEW k \in 0 .. n + 1
        PROVE  h[k] = IF k = 0 THEN 0 ELSE h[k - 1] + f[k]
    <3>1. CASE k = n + 1
      <4>1. h[k] = g[n] + f[n + 1] /\ h[k - 1] = g[n]
        BY <3>1
      <4> HIDE DEF h
      <4> QED
        BY <4>1, <3>1
    <3>2. CASE k \in 1 .. n
      <4>1. h[k] = g[k] /\ h[k - 1] = g[k - 1]
        BY <3>2
      <4> HIDE DEF h
      <4> QED
        BY <4>1, <3>2, <2>2
    <3>3. CASE k = 0
      <4>1. h[k] = g[k]
        BY <3>3
      <4> HIDE DEF h
      <4> QED
        BY <4>1, <3>3, <2>2
    <3> QED
      BY <3>1, <3>2, <3>3
  <2>4. TotalFcn(f, h, n + 1)
    <3>1. h = [k \in 0 .. n + 1 |-> h[k]]
      OBVIOUS
    <3> HIDE DEF h
    <3> QED
      BY <2>3, <3>1 DEF TotalFcn
  <2> QED
    BY <2>4
<1>3. \A n \in 0 .. N : n \in S
  <2> HIDE DEF S
  <2> QED
    BY <1>1, <1>2, FromZeroUp
<1> QED
  BY <1>3

LEMMA TotalIsFcn ==
  ASSUME NEW f, NEW N \in Nat
  PROVE  \E upTo : TotalFcn(f, upTo, N) /\ TotalUpTo(f, N) = upTo[N]
<1> DEFINE upTo == CHOOSE u : u = [n \in 0 .. N |-> IF n = 0 THEN 0 ELSE u[n - 1] + f[n]]
<1>1. upTo = [n \in 0 .. N |-> IF n = 0 THEN 0 ELSE upTo[n - 1] + f[n]]
  <2>1. \E u : u = [n \in 0 .. N |-> IF n = 0 THEN 0 ELSE u[n - 1] + f[n]]
    BY TotalsExist DEF TotalFcn
  <2> QED
    BY <2>1
<1>2. TotalUpTo(f, N) = upTo[N]
  BY DEF TotalUpTo
<1> HIDE DEF upTo
<1> QED
  BY <1>1, <1>2 DEF TotalFcn

LEMMA TotalsAgree ==
  \A M \in Nat : \A N \in M .. M + 1 : \A f, g, u, v :
    (\A n \in 1 .. M : f[n] = g[n]) /\ TotalFcn(f, u, M) /\ TotalFcn(g, v, N) => u[M] = v[M]
<1> SUFFICES ASSUME NEW M \in Nat, NEW N \in M .. M + 1, NEW f, NEW g, NEW u, NEW v,
                    \A n \in 1 .. M : f[n] = g[n], TotalFcn(f, u, M), TotalFcn(g, v, N)
             PROVE  u[M] = v[M]
  OBVIOUS
<1> DEFINE S == {n \in 0 .. M : u[n] = v[n]}
<1>1. /\ \A n \in 0 .. M : u[n] = IF n = 0 THEN 0 ELSE u[n - 1] + f[n]
      /\ \A n \in 0 .. N : v[n] = IF n = 0 THEN 0 ELSE v[n - 1] + g[n]
  BY DEF TotalFcn
<1>2. 0 \in S
  BY <1>1
<1>3. ASSUME NEW n \in 0 .. M - 1, n \in S
      PROVE  n + 1 \in S
  <2>1. u[n + 1] = u[n] + f[n + 1] /\ v[n + 1] = v[n] + g[n + 1]
    BY <1>1
  <2>2. u[n] = v[n] /\ f[n + 1] = g[n + 1]
    BY <1>3
  <2> QED
    BY <2>1, <2>2
<1>4. \A n \in 0 .. M : n \in S
  <2> HIDE DEF S
  <2> QED
    BY <1>2, <1>3, FromZeroUp
<1> QED
  BY <1>4

\* The sum of none, of one more, and of others that are the same.
LEMMA TotalOfNone ==
  ASSUME NEW f
  PROVE  TotalUpTo(f, 0) = 0
<1>1. PICK u : TotalFcn(f, u, 0) /\ TotalUpTo(f, 0) = u[0]
  BY TotalIsFcn
<1> QED
  BY <1>1 DEF TotalFcn

LEMMA TotalOfMore ==
  ASSUME NEW f, NEW N \in Nat
  PROVE  TotalUpTo(f, N + 1) = TotalUpTo(f, N) + f[N + 1]
<1>1. PICK u : TotalFcn(f, u, N) /\ TotalUpTo(f, N) = u[N]
  BY TotalIsFcn
<1>2. PICK v : TotalFcn(f, v, N + 1) /\ TotalUpTo(f, N + 1) = v[N + 1]
  BY TotalIsFcn
<1>3. u[N] = v[N]
  <2>2. \A a, b, g, h :
            (\A n \in 1 .. N : g[n] = h[n]) /\ TotalFcn(g, a, N) /\ TotalFcn(h, b, N + 1) => a[N] = b[N]
    <3>1. N + 1 \in N .. N + 1
      OBVIOUS
    <3> QED
      BY <3>1, TotalsAgree
  <2>3. \A g, h :
            (\A n \in 1 .. N : g[n] = h[n]) /\ TotalFcn(g, u, N) /\ TotalFcn(h, v, N + 1) => u[N] = v[N]
    BY <2>2
  <2> QED
    BY <1>1, <1>2, <2>3
<1>4. v[N + 1] = v[N] + f[N + 1]
  BY <1>2 DEF TotalFcn
<1> QED
  BY <1>1, <1>2, <1>3, <1>4

LEMMA TotalOfSame ==
  ASSUME NEW f, NEW g, NEW N \in Nat, \A n \in 1 .. N : f[n] = g[n]
  PROVE  TotalUpTo(f, N) = TotalUpTo(g, N)
<1>1. PICK u : TotalFcn(f, u, N) /\ TotalUpTo(f, N) = u[N]
  BY TotalIsFcn
<1>2. PICK v : TotalFcn(g, v, N) /\ TotalUpTo(g, N) = v[N]
  BY TotalIsFcn
<1>4. u[N] = v[N]
  <2>2. \A a, b, h, k :
            (\A n \in 1 .. N : h[n] = k[n]) /\ TotalFcn(h, a, N) /\ TotalFcn(k, b, N) => a[N] = b[N]
    <3>1. N \in N .. N + 1
      OBVIOUS
    <3> QED
      BY <3>1, TotalsAgree
  <2>3. \A h, k :
            (\A n \in 1 .. N : h[n] = k[n]) /\ TotalFcn(h, u, N) /\ TotalFcn(k, v, N) => u[N] = v[N]
    BY <2>2
  <2> QED
    BY <1>1, <1>2, <2>3
<1> QED
  BY <1>1, <1>2, <1>4

LEMMA TotalIsInt ==
  ASSUME NEW f, NEW N \in Nat, \A n \in 1 .. N : f[n] \in Int
  PROVE  TotalUpTo(f, N) \in Int
<1> DEFINE S == {n \in 0 .. N : TotalUpTo(f, n) \in Int}
<1>1. 0 \in S
  BY TotalOfNone
<1>2. ASSUME NEW n \in 0 .. N - 1, n \in S
      PROVE  n + 1 \in S
  <2>1. TotalUpTo(f, n + 1) = TotalUpTo(f, n) + f[n + 1]
    BY TotalOfMore
  <2> QED
    BY <2>1, <1>2
<1>3. \A n \in 0 .. N : n \in S
  <2> HIDE DEF S
  <2> QED
    BY <1>1, <1>2, FromZeroUp
<1> QED
  BY <1>3

\* The first one apart from the others
LEMMA TotalFromFirst ==
  \A N \in Nat : \A f, g :
    (\A n \in 1 .. N + 1 : f[n] \in Int) /\ (\A n \in 1 .. N : g[n] = f[n + 1])
        => TotalUpTo(f, N + 1) = f[1] + TotalUpTo(g, N)
<1> SUFFICES ASSUME NEW N \in Nat, NEW f, NEW g,
                    \A n \in 1 .. N + 1 : f[n] \in Int,
                    \A n \in 1 .. N : g[n] = f[n + 1]
             PROVE  TotalUpTo(f, N + 1) = f[1] + TotalUpTo(g, N)
  OBVIOUS
<1> DEFINE S == {n \in 0 .. N : TotalUpTo(f, n + 1) = f[1] + TotalUpTo(g, n)}
<1>0. f[1] \in Int
  OBVIOUS
<1>1. 0 \in S
  <2>1. TotalUpTo(f, 0 + 1) = TotalUpTo(f, 0) + f[0 + 1]
    BY TotalOfMore
  <2> QED
    BY <1>0, <2>1, TotalOfNone
<1>2. ASSUME NEW n \in 0 .. N - 1, n \in S
      PROVE  n + 1 \in S
  <2>1. TotalUpTo(g, n + 1) = TotalUpTo(g, n) + g[n + 1]
    BY TotalOfMore
  <2>2. TotalUpTo(f, (n + 1) + 1) = TotalUpTo(f, n + 1) + f[(n + 1) + 1]
    BY TotalOfMore
  <2>3. g[n + 1] = f[(n + 1) + 1] /\ g[n + 1] \in Int
    OBVIOUS
  <2>4. TotalUpTo(g, n) \in Int
    BY TotalIsInt
  <2> QED
    BY <1>0, <1>2, <2>1, <2>2, <2>3, <2>4
<1>3. \A n \in 0 .. N : n \in S
  <2> HIDE DEF S
  <2> QED
    BY <1>1, <1>2, FromZeroUp
<1> QED
  BY <1>3

LEMMA QuotientIsBetween ==
  ASSUME NEW s \in Int, NEW c \in Nat \ {0}, NEW lo \in Int, NEW hi \in Int,
         lo * c <= s, s <= hi * c
  PROVE  lo <= s \div c /\ s \div c <= hi
<1>1. PICK q \in Int, r \in 0 .. c - 1 : q = s \div c /\ s = q * c + r
  <2>1. s = c * (s \div c) + (s % c) /\ s \div c \in Int /\ (s % c) \in 0 .. c - 1
    OBVIOUS
  <2>2. PICK q \in Int : q = s \div c
    BY <2>1
  <2>3. c * q = q * c
    OBVIOUS
  <2> QED
    BY <2>1, <2>2, <2>3
<1>2. \A x, y \in Int : x < y => (x + 1) * c <= y * c /\ (x + 1) * c = x * c + c /\ x * c \in Int /\ y * c \in Int
  OBVIOUS
<1>3. q * c \in Int /\ lo * c \in Int /\ hi * c \in Int
  OBVIOUS
<1>4. ~(q < lo)
  <2> SUFFICES ASSUME q < lo
               PROVE  FALSE
    OBVIOUS
  <2>1. q * c + c <= lo * c
    BY <1>2
  <2> QED
    BY <1>1, <1>3, <2>1
<1>5. ~(hi < q)
  <2> SUFFICES ASSUME hi < q
               PROVE  FALSE
    OBVIOUS
  <2>1. hi * c + c <= q * c
    BY <1>2
  <2> QED
    BY <1>1, <1>3, <2>1
<1> QED
  BY <1>1, <1>4, <1>5

-----------------------------------------------------------------------------
(*************************** the sliding window ****************************)

Measures == Int \cup {NaN}

\* Whatever C the components are: after the first n of the values x, the filter
\* keeps the last of them, and the sum of these unless one ever was not a number.
Holds(filter_, L, x, n, C) ==
  /\ filter_.buffer \in Seq([C -> Measures]) /\ Len(filter_.buffer) = L
  /\ \A k \in 1 .. L : filter_.buffer[k] = x[n - L + k]
  /\ filter_.mean = [c \in C |-> filter_.mean[c]]
  /\ \A c \in C :
        filter_.mean[c] = IF \E j \in 1 .. n : x[j][c] = NaN THEN NaN
                          ELSE TotalUpTo([k \in 1 .. L |-> x[n - L + k][c]], L)
Window(filter_, W, x, n, C) == Holds(filter_, IF n < W THEN n ELSE W, x, n, C)

LEMMA WindowIsEmpty ==
  ASSUME NEW C, NEW W \in Nat \ {0}, NEW x, NEW zero, zero = [c \in C |-> 0]
  PROVE  Window(EmptyFilter(zero), W, x, 0, C)
<1>1. PICK e : e = EmptyFilter(zero)
  OBVIOUS
<1>2. e.buffer = <<>> /\ e.mean = zero
  BY <1>1 DEF EmptyFilter
<1>3. \A c \in C : zero[c] = TotalUpTo([k \in 1 .. 0 |-> x[0 - 0 + k][c]], 0)
  BY TotalOfNone
<1>4. (IF 0 < W THEN 0 ELSE W) = 0
  OBVIOUS
<1>5. Window(e, W, x, 0, C)
  <2>1. e.buffer \in Seq([C -> Measures]) /\ Len(e.buffer) = 0
    BY <1>2
  <2>2. \A c \in C : e.mean[c] = IF \E j \in 1 .. 0 : x[j][c] = NaN THEN NaN
                                 ELSE TotalUpTo([k \in 1 .. 0 |-> x[0 - 0 + k][c]], 0)
    BY <1>2, <1>3
  <2> QED
    BY <1>2, <1>4, <2>1, <2>2 DEF Window, Holds
<1> QED
  BY <1>1, <1>5

\* Only the first n values matter.
LEMMA WindowIsSame ==
  ASSUME NEW filter_, NEW C, NEW W \in Nat \ {0}, NEW n \in Nat, NEW x, NEW y,
         \A j \in 1 .. n : x[j] = y[j], Window(filter_, W, x, n, C)
  PROVE  Window(filter_, W, y, n, C)
<1>1. PICK L \in 0 .. n : L = IF n < W THEN n ELSE W
  OBVIOUS
<1>2. \A k \in 1 .. L : n - L + k \in 1 .. n
  OBVIOUS
<1>3. /\ filter_.buffer \in Seq([C -> Measures]) /\ Len(filter_.buffer) = L
      /\ \A k \in 1 .. L : filter_.buffer[k] = x[n - L + k]
      /\ filter_.mean = [c \in C |-> filter_.mean[c]]
      /\ \A c \in C :
            filter_.mean[c] = IF \E j \in 1 .. n : x[j][c] = NaN THEN NaN
                              ELSE TotalUpTo([k \in 1 .. L |-> x[n - L + k][c]], L)
  BY <1>1 DEF Window, Holds
<1>4. \A k \in 1 .. L : filter_.buffer[k] = y[n - L + k]
  BY <1>2, <1>3
<1>5. ASSUME NEW c \in C
      PROVE  filter_.mean[c] = IF \E j \in 1 .. n : y[j][c] = NaN THEN NaN
                               ELSE TotalUpTo([k \in 1 .. L |-> y[n - L + k][c]], L)
  <2>1. [k \in 1 .. L |-> x[n - L + k][c]] = [k \in 1 .. L |-> y[n - L + k][c]]
    BY <1>2
  <2>2. (\E j \in 1 .. n : y[j][c] = NaN) <=> (\E j \in 1 .. n : x[j][c] = NaN)
    OBVIOUS
  <2> QED
    BY <1>3, <2>1, <2>2
<1> QED
  BY <1>1, <1>3, <1>4, <1>5 DEF Window, Holds

\* The filter after one more value, while the window fills ...
LEMMA WindowFills ==
  ASSUME NEW filter_, NEW C, NEW W \in Nat \ {0, 1}, NEW n \in Nat, NEW x,
         \A j \in 1 .. n + 1 : x[j] \in [C -> Measures], Window(filter_, W, x, n, C), n < W
  PROVE  Window(Updated(filter_, W, x[n + 1]), W, x, n + 1, C)
<1>1. PICK b \in Seq([C -> Measures]) : b = filter_.buffer
  BY DEF Window, Holds
<1>2. PICK m : m = filter_.mean
  OBVIOUS
<1>3. PICK v \in [C -> Measures] : v = x[n + 1]
  OBVIOUS
<1>4. /\ Len(b) = n /\ \A k \in 1 .. n : b[k] = x[n - n + k]
      /\ DOMAIN m = C
      /\ \A c \in C : m[c] = IF \E j \in 1 .. n : x[j][c] = NaN THEN NaN
                             ELSE TotalUpTo([k \in 1 .. n |-> x[n - n + k][c]], n)
  BY <1>1, <1>2 DEF Window, Holds
<1>5. PICK u : u = Updated(filter_, W, v)
  OBVIOUS
<1>6. u.buffer = Append(b, v) /\ u.mean = Plus(m, v)
  BY <1>1, <1>2, <1>4, <1>5 DEF Updated, Fills
<1>7. PICK a : a = Append(b, v)
  OBVIOUS
<1>8. /\ a \in Seq([C -> Measures]) /\ Len(a) = n + 1 /\ a[n + 1] = v
      /\ \A k \in 1 .. n : a[k] = b[k]
  BY <1>1, <1>4, <1>7
<1>9. \A k \in 1 .. n + 1 : a[k] = x[(n + 1) - (n + 1) + k]
  BY <1>3, <1>4, <1>8
<1>10. u.mean = [c \in C |-> u.mean[c]] /\ \A c \in C : u.mean[c] = WithNaN(m[c], v[c], m[c] + v[c])
  <2>1. u.mean = [c \in C |-> WithNaN(m[c], v[c], m[c] + v[c])]
    BY <1>4, <1>6 DEF Plus
  <2> QED
    BY <2>1
<1>11. ASSUME NEW c \in C
       PROVE  u.mean[c] = IF \E j \in 1 .. n + 1 : x[j][c] = NaN THEN NaN
                          ELSE TotalUpTo([k \in 1 .. n + 1 |-> x[(n + 1) - (n + 1) + k][c]], n + 1)
  <2>1. CASE \E j \in 1 .. n + 1 : x[j][c] = NaN
    <3>0. PICK j \in 1 .. n + 1 : x[j][c] = NaN
      BY <2>1
    <3>1. v[c] = NaN \/ \E i \in 1 .. n : x[i][c] = NaN
      <4>1. j = n + 1 \/ j \in 1 .. n
        OBVIOUS
      <4> QED
        BY <1>3, <3>0, <4>1
    <3>2. m[c] = NaN \/ v[c] = NaN
      BY <1>4, <3>1
    <3> QED
      BY <1>10, <2>1, <3>2 DEF WithNaN
  <2>2. CASE ~ \E j \in 1 .. n + 1 : x[j][c] = NaN
    <3>1. PICK f : f = [k \in 1 .. n |-> x[n - n + k][c]]
      OBVIOUS
    <3>2. PICK g : g = [k \in 1 .. n + 1 |-> x[(n + 1) - (n + 1) + k][c]]
      OBVIOUS
    <3>3. (\A k \in 1 .. n : f[k] = x[k][c]) /\ \A k \in 1 .. n + 1 : g[k] = x[k][c]
      BY <3>1, <3>2
    <3>4. \A k \in 1 .. n + 1 : x[k][c] \in Int
      BY <2>2 DEF Measures
    <3>5. TotalUpTo(f, n) \in Int
      BY <3>3, <3>4, TotalIsInt
    <3>6. TotalUpTo(g, n + 1) = TotalUpTo(g, n) + g[n + 1] /\ TotalUpTo(g, n) = TotalUpTo(f, n)
      BY <3>3, TotalOfMore, TotalOfSame
    <3>7. m[c] = TotalUpTo(f, n)
      <4>1. ~ \E j \in 1 .. n : x[j][c] = NaN
        BY <2>2
      <4> QED
        BY <1>4, <3>1, <4>1
    <3>8. v[c] = g[n + 1] /\ v[c] \in Int
      BY <1>3, <3>3, <3>4
    <3>9. u.mean[c] = TotalUpTo(g, n + 1)
      BY <1>10, <3>5, <3>6, <3>7, <3>8, NaNAssumption DEF WithNaN
    <3> QED
      BY <2>2, <3>2, <3>9
  <2> QED
    BY <2>1, <2>2
<1>12. (IF n + 1 < W THEN n + 1 ELSE W) = n + 1
  OBVIOUS
<1>13. Holds(u, n + 1, x, n + 1, C)
  BY <1>6, <1>7, <1>8, <1>9, <1>10, <1>11 DEF Holds
<1> QED
  BY <1>3, <1>5, <1>12, <1>13 DEF Window

\* ... and when it slides.
LEMMA WindowSlides ==
  ASSUME NEW filter_, NEW C, NEW W \in Nat \ {0, 1}, NEW n \in Nat, NEW x,
         \A j \in 1 .. n + 1 : x[j] \in [C -> Measures], Window(filter_, W, x, n, C), W <= n
  PROVE  Window(Updated(filter_, W, x[n + 1]), W, x, n + 1, C)
<1>1. PICK b \in Seq([C -> Measures]) : b = filter_.buffer
  BY DEF Window, Holds
<1>2. PICK m : m = filter_.mean
  OBVIOUS
<1>3. PICK v \in [C -> Measures] : v = x[n + 1]
  OBVIOUS
<1>4. /\ Len(b) = W /\ \A k \in 1 .. W : b[k] = x[n - W + k]
      /\ DOMAIN m = C
      /\ \A c \in C : m[c] = IF \E j \in 1 .. n : x[j][c] = NaN THEN NaN
                             ELSE TotalUpTo([k \in 1 .. W |-> x[n - W + k][c]], W)
  <2>1. (IF n < W THEN n ELSE W) = W
    OBVIOUS
  <2> QED
    BY <1>1, <1>2, <2>1 DEF Window, Holds
<1>5. PICK u : u = Updated(filter_, W, v)
  OBVIOUS
<1>6. PICK h \in [C -> Measures] : h = Head(b) /\ h = x[n - W + 1]
  BY <1>4
<1>7. u.buffer = Append(Tail(b), v) /\ u.mean = Plus(m, Minus(v, h))
  <2>1. ~Fills(filter_, W)
    BY <1>1, <1>4 DEF Fills
  <2> QED
    BY <1>1, <1>2, <1>5, <1>6, <2>1 DEF Updated
<1>8. PICK t \in Seq([C -> Measures]) : t = Tail(b) /\ Len(t) = W - 1 /\ \A k \in 1 .. W - 1 : t[k] = b[k + 1]
  <2>1. b # <<>>
    BY <1>4
  <2>2. Tail(b) \in Seq([C -> Measures])
    BY <2>1
  <2>3. PICK t \in Seq([C -> Measures]) : t = Tail(b)
    BY <2>2
  <2>4. Len(t) = W - 1 /\ \A k \in 1 .. W - 1 : t[k] = b[k + 1]
    BY <1>4, <2>1, <2>3
  <2> QED
    BY <2>3, <2>4
<1>9. PICK a : a = Append(t, v)
  OBVIOUS
<1>10. /\ a \in Seq([C -> Measures]) /\ Len(a) = W /\ a[W] = v
       /\ \A k \in 1 .. W - 1 : a[k] = t[k]
  BY <1>8, <1>9
<1>11. ASSUME NEW k \in 1 .. W
       PROVE  a[k] = x[(n + 1) - W + k]
  <2>1. CASE k = W
    BY <1>3, <1>10, <2>1
  <2>2. CASE k # W
    <3>1. k \in 1 .. W - 1 /\ k + 1 \in 1 .. W /\ n - W + (k + 1) = (n + 1) - W + k
      BY <2>2
    <3>2. a[k] = b[k + 1]
      BY <1>8, <1>10, <3>1
    <3>3. b[k + 1] = x[n - W + (k + 1)]
      BY <1>4, <3>1
    <3> QED
      BY <3>1, <3>2, <3>3
  <2> QED
    BY <2>1, <2>2
<1>12. PICK d : d = Minus(v, h)
  OBVIOUS
<1>13. DOMAIN d = C /\ \A c \in C : d[c] = WithNaN(v[c], h[c], v[c] - h[c])
  BY <1>3, <1>12 DEF Minus
<1>14. u.mean = [c \in C |-> u.mean[c]] /\ \A c \in C : u.mean[c] = WithNaN(m[c], d[c], m[c] + d[c])
  <2>1. u.mean = [c \in C |-> WithNaN(m[c], d[c], m[c] + d[c])]
    BY <1>4, <1>7, <1>12 DEF Plus
  <2> QED
    BY <2>1
<1>15. n - W + 1 \in 1 .. n
  OBVIOUS
<1>16. ASSUME NEW c \in C
       PROVE  u.mean[c] = IF \E j \in 1 .. n + 1 : x[j][c] = NaN THEN NaN
                          ELSE TotalUpTo([k \in 1 .. W |-> x[(n + 1) - W + k][c]], W)
  <2>1. CASE \E j \in 1 .. n + 1 : x[j][c] = NaN
    <3>0. PICK j \in 1 .. n + 1 : x[j][c] = NaN
      BY <2>1
    <3>1. v[c] = NaN \/ \E i \in 1 .. n : x[i][c] = NaN
      <4>1. j = n + 1 \/ j \in 1 .. n
        OBVIOUS
      <4> QED
        BY <1>3, <3>0, <4>1
    <3>2. m[c] = NaN \/ v[c] = NaN
      BY <1>4, <3>1
    <3>3. m[c] = NaN \/ d[c] = NaN
      BY <1>13, <3>2 DEF WithNaN
    <3> QED
      BY <1>14, <2>1, <3>3 DEF WithNaN
  <2>2. CASE ~ \E j \in 1 .. n + 1 : x[j][c] = NaN
    <3>1. PICK f : f = [k \in 1 .. W |-> x[n - W + k][c]]
      OBVIOUS
    <3>2. PICK g : g = [k \in 1 .. W |-> x[(n + 1) - W + k][c]]
      OBVIOUS
    <3>3. \A k \in 1 .. n + 1 : x[k][c] \in Int
      BY <2>2 DEF Measures
    <3>4. \A k \in 1 .. W : f[k] = x[n - W + k][c] /\ n - W + k \in 1 .. n + 1
      BY <3>1
    <3>5. \A k \in 1 .. W : g[k] = x[(n + 1) - W + k][c] /\ (n + 1) - W + k \in 1 .. n + 1
      BY <3>2
    <3>6. (\A k \in 1 .. W : f[k] \in Int) /\ \A k \in 1 .. W : g[k] \in Int
      BY <3>3, <3>4, <3>5
    <3>7. \A k \in 1 .. W - 1 : g[k] = f[k + 1]
      <4> TAKE k \in 1 .. W - 1
      <4>1. k \in 1 .. W /\ k + 1 \in 1 .. W /\ n - W + (k + 1) = (n + 1) - W + k
        OBVIOUS
      <4> QED
        BY <3>4, <3>5, <4>1
    <3>8. PICK w \in Nat : w = W - 1 /\ W = w + 1
      OBVIOUS
    <3>9. TotalUpTo(f, W) = f[1] + TotalUpTo(g, w)
      <4>1. (\A k \in 1 .. w + 1 : f[k] \in Int) /\ \A k \in 1 .. w : g[k] = f[k + 1]
        BY <3>6, <3>7, <3>8
      <4>2. TotalUpTo(f, w + 1) = f[1] + TotalUpTo(g, w)
        BY <4>1, TotalFromFirst
      <4> QED
        BY <3>8, <4>2
    <3>10. TotalUpTo(g, W) = TotalUpTo(g, w) + g[W]
      <4>1. TotalUpTo(g, w + 1) = TotalUpTo(g, w) + g[w + 1]
        BY TotalOfMore
      <4> QED
        BY <3>8, <4>1
    <3>11. TotalUpTo(g, w) \in Int
      BY <3>6, <3>8, TotalIsInt
    <3>12. m[c] = TotalUpTo(f, W)
      <4>1. ~ \E j \in 1 .. n : x[j][c] = NaN
        BY <2>2
      <4> QED
        BY <1>4, <3>1, <4>1
    <3>13. f[1] = h[c] /\ h[c] \in Int
      BY <1>6, <1>15, <3>3, <3>4
    <3>14. g[W] = v[c] /\ v[c] \in Int
      BY <1>3, <3>3, <3>5
    <3>15. d[c] = v[c] - h[c]
      BY <1>13, <3>13, <3>14, NaNAssumption DEF WithNaN
    <3>16. m[c] \in Int /\ m[c] + d[c] = TotalUpTo(g, W) /\ d[c] \in Int
      BY <3>9, <3>10, <3>11, <3>12, <3>13, <3>14, <3>15
    <3>17. u.mean[c] = TotalUpTo(g, W)
      BY <1>14, <3>16, NaNAssumption DEF WithNaN
    <3> QED
      BY <2>2, <3>2, <3>17
  <2> QED
    BY <2>1, <2>2
<1>17. (IF n + 1 < W THEN n + 1 ELSE W) = W
  OBVIOUS
<1>18. Holds(u, W, x, n + 1, C)
  <2>1. u.buffer = a
    BY <1>7, <1>8, <1>9
  <2> QED
    BY <1>10, <1>11, <1>14, <1>16, <2>1 DEF Holds
<1> QED
  BY <1>3, <1>5, <1>17, <1>18 DEF Window

LEMMA WindowUpdated ==
  ASSUME NEW filter_, NEW C, NEW W \in Nat \ {0, 1}, NEW n \in Nat, NEW x,
         \A j \in 1 .. n + 1 : x[j] \in [C -> Measures], Window(filter_, W, x, n, C)
  PROVE  Window(Updated(filter_, W, x[n + 1]), W, x, n + 1, C)
<1>1. CASE n < W
  BY <1>1, WindowFills
<1>2. CASE W <= n
  BY <1>2, WindowSlides
<1> QED
  BY <1>1, <1>2

-----------------------------------------------------------------------------
(******************************** the driver *******************************)

Parts == {"acc", "ang", "mag"}
Messages == {m \in [Parts -> Measures] : m.acc \in Int /\ m.ang \in Int}
DriverInv ==
  /\ data \in Seq(Times \X [Parts -> Measures])
  /\ FilterSize >= 2 => Window(filter, FilterSize, Handled(data), Len(data), Parts)
  /\ data # <<>> => IsMeanOf(Handled(data), Len(data), data[Len(data)][2])

LEMMA ConvertedIsMessage ==
  ASSUME NEW t \in Times
  PROVE  Converted(Readings[t]) \in Messages
<1>1. t \in 0 .. MaxTime
  BY DEF Times
<1>2. PICK a \in Int : a = Readings[t].acceleration
  BY <1>1, SensorsAssumption
<1>3. PICK r \in Int : r = Readings[t].angularRate
  BY <1>1, SensorsAssumption
<1>4. PICK f \in Int \cup {Unknown} : f = Readings[t].magneticField
  BY <1>1, SensorsAssumption
<1>5. PICK p \in Int, q \in Int, w \in Int : p = -a * G /\ q = r * DegreesToRadians
                                             /\ (f \in Int => w = f * GaussToTesla)
  <2>1. PICK g \in Int, e \in Int, s \in Int : g = G /\ e = DegreesToRadians /\ s = GaussToTesla
    BY FactorsAssumption
  <2>2. PICK h \in Int : f \in Int => h = f
    OBVIOUS
  <2>3. -a * g \in Int /\ r * e \in Int /\ h * s \in Int
    OBVIOUS
  <2> QED
    BY <2>1, <2>2, <2>3
<1>6. PICK b \in Measures : b = IF f = Unknown THEN NaN ELSE f * GaussToTesla
  BY <1>4, <1>5 DEF Measures
<1>7. Converted(Readings[t]) = [acc |-> p, ang |-> q, mag |-> b]
  BY <1>2, <1>3, <1>4, <1>5, <1>6 DEF Converted
<1>8. p \in Measures /\ q \in Measures
  BY DEF Measures
<1>9. [acc |-> p, ang |-> q, mag |-> b] \in [Parts -> Measures]
  BY <1>6, <1>8 DEF Parts
<1> QED
  BY <1>7, <1>9 DEF Messages

LEMMA WholeIsMean ==
  ASSUME NEW x, NEW n \in Nat \ {0}, x[n] \in Messages, ~(n > FilterSize /\ FilterSize >= 2)
  PROVE  LET m == Whole(x[n], FilterSize) IN m \in [Parts -> Measures] /\ IsMeanOf(x, n, m)
<1>1. PICK W \in Nat \ {0} : W = FilterSize
  BY SensorsAssumption
<1>2. PICK v \in Messages : v = x[n]
  OBVIOUS
<1>3. PICK m : m = Whole(v, W)
  OBVIOUS
<1>4. DOMAIN v = Parts /\ v.acc \in Int /\ v.ang \in Int /\ v.mag \in Int \cup {NaN}
  BY <1>2 DEF Messages, Parts, Measures
<1>5. m = [c \in Parts |-> WithNaN(v[c], 0, v[c] * W)]
  BY <1>3, <1>4 DEF Whole
<1>6. /\ m.acc = WithNaN(v.acc, 0, v.acc * W) /\ m.ang = WithNaN(v.ang, 0, v.ang * W)
      /\ m.mag = WithNaN(v.mag, 0, v.mag * W)
  BY <1>5 DEF Parts
<1>7. v.acc * W \in Int /\ v.ang * W \in Int /\ (v.mag # NaN => v.mag * W \in Int)
  BY <1>4
<1>8. /\ m.acc = v.acc * W /\ m.ang = v.ang * W
      /\ (m.mag = NaN) <=> (v.mag = NaN)
      /\ m.mag # NaN => m.mag = v.mag * W
  BY <1>4, <1>6, <1>7, NaNAssumption DEF WithNaN
<1>9. m \in [Parts -> Measures]
  <2>1. m.acc \in Measures /\ m.ang \in Measures /\ m.mag \in Measures
    BY <1>7, <1>8 DEF Measures
  <2> QED
    BY <1>5, <2>1 DEF Parts
<1>10. IsMeanOf(x, n, m)
  <2>1. \A j \in n .. n : j = n
    OBVIOUS
  <2>2. n \in n .. n
    OBVIOUS
  <2> QED
    BY <1>1, <1>2, <1>8, <2>1, <2>2 DEF IsMeanOf
<1> QED
  BY <1>1, <1>2, <1>3, <1>9, <1>10

LEMMA WindowIsMean ==
  ASSUME NEW x, NEW n \in Nat, n > FilterSize, FilterSize >= 2, \A j \in 1 .. n : x[j] \in Messages,
         NEW u, Window(u, FilterSize, x, n, Parts)
  PROVE  u.mean \in [Parts -> Measures] /\ IsMeanOf(x, n, u.mean)
<1>1. PICK W \in Nat \ {0} : W = FilterSize
  BY SensorsAssumption
<1>2. PICK m : m = u.mean
  OBVIOUS
<1>3. /\ DOMAIN m = Parts
      /\ \A c \in Parts :
            m[c] = IF \E j \in 1 .. n : x[j][c] = NaN THEN NaN
                   ELSE TotalUpTo([k \in 1 .. W |-> x[n - W + k][c]], W)
      /\ m = [c \in Parts |-> m[c]]
  <2>1. (IF n < W THEN n ELSE W) = W
    BY <1>1
  <2>2. Holds(u, W, x, n, Parts)
    BY <1>1, <2>1 DEF Window
  <2>3. /\ DOMAIN m = Parts
        /\ \A c \in Parts :
              m[c] = IF \E j \in 1 .. n : x[j][c] = NaN THEN NaN
                     ELSE TotalUpTo([k \in 1 .. W |-> x[n - W + k][c]], W)
    BY <1>2, <2>2 DEF Holds
  <2>4. m = [c \in Parts |-> m[c]]
    BY <1>2, <2>2 DEF Holds
  <2> QED
    BY <2>3, <2>4
<1>4. \A j \in 1 .. n : x[j].acc \in Int /\ x[j].ang \in Int /\ x[j].mag \in Int \cup {NaN}
  BY DEF Messages, Measures, Parts
<1>5. \A k \in 1 .. W : n - W + k \in 1 .. n
  BY <1>1
<1>6. ASSUME NEW c \in Parts, ~ \E j \in 1 .. n : x[j][c] = NaN
      PROVE  m[c] \in Int /\ m[c] = TotalUpTo([k \in 1 .. W |-> x[n - W + k][c]], W)
  <2>1. PICK f : f = [k \in 1 .. W |-> x[n - W + k][c]]
    OBVIOUS
  <2>2. \A k \in 1 .. W : f[k] \in Int
    <3>1. \A j \in 1 .. n : x[j][c] \in Int
      BY <1>6 DEF Messages, Measures
    <3> QED
      BY <1>5, <2>1, <3>1
  <2> QED
    BY <1>3, <1>6, <2>1, <2>2, TotalIsInt
<1>7. m.acc \in Int /\ m.acc = TotalUpTo([k \in 1 .. W |-> x[n - W + k]["acc"]], W)
  <2>1. ~ \E j \in 1 .. n : x[j]["acc"] = NaN
    BY <1>4, NaNAssumption
  <2> QED
    BY <1>6, <2>1 DEF Parts
<1>8. m.ang \in Int /\ m.ang = TotalUpTo([k \in 1 .. W |-> x[n - W + k]["ang"]], W)
  <2>1. ~ \E j \in 1 .. n : x[j]["ang"] = NaN
    BY <1>4, NaNAssumption
  <2> QED
    BY <1>6, <2>1 DEF Parts
<1>9. /\ (m.mag = NaN) <=> \E j \in 1 .. n : x[j].mag = NaN
      /\ m.mag # NaN => m.mag \in Int /\ m.mag = TotalUpTo([k \in 1 .. W |-> x[n - W + k]["mag"]], W)
  <2>1. CASE \E j \in 1 .. n : x[j]["mag"] = NaN
    <3>1. m["mag"] = NaN
      BY <1>3, <2>1 DEF Parts
    <3> QED
      BY <2>1, <3>1
  <2>2. CASE ~ \E j \in 1 .. n : x[j]["mag"] = NaN
    <3>1. m["mag"] \in Int /\ m["mag"] = TotalUpTo([k \in 1 .. W |-> x[n - W + k]["mag"]], W)
      BY <1>6, <2>2 DEF Parts
    <3> QED
      BY <2>2, <3>1, NaNAssumption
  <2> QED
    BY <2>1, <2>2
<1>10. m \in [Parts -> Measures]
  <2>1. m.acc \in Measures /\ m.ang \in Measures /\ m.mag \in Measures
    BY <1>7, <1>8, <1>9 DEF Measures
  <2> QED
    BY <1>3, <2>1 DEF Parts
<1>11. IsMeanOf(x, n, m)
  BY <1>1, <1>7, <1>8, <1>9 DEF IsMeanOf
<1> QED
  BY <1>2, <1>10, <1>11

LEMMA HandleStep ==
  ASSUME DriverInv, now \in Times, Handle
  PROVE  DriverInv'
<1>1. PICK W \in Nat \ {0} : W = FilterSize
  BY SensorsAssumption
<1>2. PICK d \in Seq(Times \X [Parts -> Measures]) : d = data
  BY DEF DriverInv
<1>3. PICK n \in Nat : n = Len(d)
  OBVIOUS
<1>4. PICK t \in Times : t = now
  OBVIOUS
<1>5. PICK v : v = Converted(Readings[t])
  OBVIOUS
<1>6. PICK f : f = filter
  OBVIOUS
<1>7. PICK m : m = Filtered(f, W, v)
  OBVIOUS
<1>8. PICK u : u = Updated(f, W, v)
  OBVIOUS
<1>9. filter' = u /\ data' = Append(d, <<t, m>>)
  BY <1>1, <1>2, <1>4, <1>5, <1>6, <1>7, <1>8 DEF Handle
<1>10. PICK e : e = Append(d, <<t, m>>)
  OBVIOUS
<1>11. DOMAIN e = 1 .. n + 1 /\ Len(e) = n + 1 /\ e[n + 1] = <<t, m>> /\ \A i \in 1 .. n : e[i] = d[i]
  BY <1>3, <1>10
<1>12. PICK x : x = Handled(d)
  OBVIOUS
<1>13. PICK y : y = Handled(e)
  OBVIOUS
<1>14. /\ y[n + 1] = v
       /\ \A i \in 1 .. n : y[i] = x[i] /\ y[i] \in Messages
  <2>1. y[n + 1] = v
    BY <1>5, <1>11, <1>13 DEF Handled
  <2>2. ASSUME NEW i \in 1 .. n
        PROVE  y[i] = x[i] /\ y[i] \in Messages
    <3>1. i \in 1 .. n + 1 /\ i \in DOMAIN d /\ d[i][1] \in Times
      BY <1>3
    <3>2. y[i] = Converted(Readings[d[i][1]]) /\ x[i] = Converted(Readings[d[i][1]])
      BY <1>11, <1>12, <1>13, <3>1 DEF Handled
    <3> QED
      BY <3>1, <3>2, ConvertedIsMessage
  <2> QED
    BY <2>1, <2>2
<1>15. v \in Messages
  BY <1>5, ConvertedIsMessage
<1>16. \A j \in 1 .. n + 1 : y[j] \in Messages
  <2>1. \A j \in 1 .. n + 1 : j = n + 1 \/ j \in 1 .. n
    OBVIOUS
  <2> QED
    BY <1>14, <1>15, <2>1
<1>17. W >= 2 => Window(f, W, y, n, Parts) /\ Window(u, W, y, n + 1, Parts)
  <2> SUFFICES ASSUME W >= 2
               PROVE  Window(f, W, y, n, Parts) /\ Window(u, W, y, n + 1, Parts)
    OBVIOUS
  <2>1. Window(f, W, x, n, Parts)
    BY <1>1, <1>2, <1>3, <1>6, <1>12 DEF DriverInv
  <2>2. Window(f, W, y, n, Parts)
    BY <1>14, <2>1, WindowIsSame
  <2>3. \A j \in 1 .. n + 1 : y[j] \in [Parts -> Measures]
    BY <1>16 DEF Messages
  <2>4. W \in Nat \ {0, 1}
    OBVIOUS
  <2>5. Window(Updated(f, W, y[n + 1]), W, y, n + 1, Parts)
    BY <2>2, <2>3, <2>4, WindowUpdated
  <2> QED
    BY <1>8, <1>14, <2>2, <2>5
<1>18. m \in [Parts -> Measures] /\ IsMeanOf(y, n + 1, m)
  <2>1. CASE W < 2 \/ n + 1 <= W
    <3>1. m = Whole(v, W)
      <4>1. CASE W < 2
        BY <1>7, <4>1 DEF Filtered
      <4>2. CASE W >= 2
        <5>1. Len(f.buffer) = n
          BY <1>17, <2>1, <4>2 DEF Window, Holds
        <5> QED
          BY <1>7, <2>1, <4>2, <5>1 DEF Filtered, Fills
      <4> QED
        BY <4>1, <4>2
    <3>2. ~(n + 1 > FilterSize /\ FilterSize >= 2) /\ n + 1 \in Nat \ {0}
      BY <1>1, <2>1
    <3> QED
      BY <1>1, <1>14, <1>15, <3>1, <3>2, WholeIsMean
  <2>2. CASE W >= 2 /\ W < n + 1
    <3>1. m = u.mean
      <4>1. (IF n < W THEN n ELSE W) = W
        BY <2>2
      <4>2. Len(f.buffer) = W
        BY <1>17, <2>2, <4>1 DEF Window, Holds
      <4> QED
        BY <1>7, <1>8, <2>2, <4>2 DEF Filtered, Fills
    <3>2. Window(u, FilterSize, y, n + 1, Parts) /\ n + 1 > FilterSize /\ FilterSize >= 2 /\ n + 1 \in Nat
      BY <1>1, <1>17, <2>2
    <3> QED
      BY <1>16, <3>1, <3>2, WindowIsMean
  <2> QED
    BY <2>1, <2>2
<1>19. e \in Seq(Times \X [Parts -> Measures])
  BY <1>10, <1>18
<1>20. FilterSize >= 2 => Window(u, FilterSize, Handled(e), Len(e), Parts)
  BY <1>1, <1>11, <1>13, <1>17
<1>21. IsMeanOf(Handled(e), Len(e), e[Len(e)][2])
  BY <1>11, <1>13, <1>18
<1>22. data' = e
  BY <1>9, <1>10
<1> QED
  BY <1>9, <1>19, <1>20, <1>21, <1>22 DEF DriverInv, Handled

LEMMA DriverInitOK == SensorsInit => DriverInv
<1> SUFFICES ASSUME SensorsInit
             PROVE  DriverInv
  OBVIOUS
<1>1. data = <<>> /\ Len(data) = 0 /\ filter = EmptyFilter(ZeroMsg)
  BY DEF SensorsInit
<1>2. ZeroMsg = [c \in Parts |-> 0]
  BY DEF ZeroMsg, Parts
<1>3. FilterSize \in Nat \ {0}
  BY SensorsAssumption
<1>4. Window(filter, FilterSize, Handled(data), 0, Parts)
  BY <1>1, <1>2, <1>3, WindowIsEmpty
<1>5. data \in Seq(Times \X [Parts -> Measures])
  BY <1>1
<1> QED
  BY <1>1, <1>4, <1>5 DEF DriverInv

LEMMA DriverStepOK ==
  ASSUME DriverInv, now \in Times, [SensorsNext]_allVars
  PROVE  DriverInv'
<1>1. CASE Handle
  BY <1>1, HandleStep
<1>2. CASE UNCHANGED <<filter, data>>
  BY <1>2 DEF DriverInv, Handled
<1>3. Handle \/ UNCHANGED <<filter, data>>
  BY DEF SensorsNext, allVars, driverVars, OpenDevice, Calibrate, StopCalibrated, DataHandler,
         DataAfterCalibration, SessionStarts, SessionStops, PopStartsTotal, StartReg,
         RegisterAccumulates, StopReg, StopTotal, LogReport, ResumeAll, TickCounts, Others
<1> QED
  BY <1>1, <1>2, <1>3

LEMMA MeansAreFiltered == DriverInv => FilteredIsMean
BY DEF DriverInv, FilteredIsMean

-----------------------------------------------------------------------------
(*************************** the times of a task ***************************)

IsEvaluator(e) == {"start", "forms", "histogram", "thrown"} \subseteq DOMAIN e
IsForm(form) ==
  {"active", "accumulate", "count", "last", "sum", "min", "max", "filter"} \subseteq DOMAIN form

Stamps(q) == [k \in DOMAIN q |-> [time |-> q[k]]]

\* The form says of the times q what they were.
FormHolds(form, q) ==
  /\ form.count = Len(q) /\ form.sum = TotalUpTo(q, Len(q))
  /\ q = <<>> => form.min = Largest /\ form.max = 0
  /\ q # <<>> => /\ form.last = q[Len(q)]
                 /\ \E i \in 1 .. Len(q) : form.min = q[i]
                 /\ \A i \in 1 .. Len(q) : form.min <= q[i]
                 /\ form.max = 0 \/ \E i \in 2 .. Len(q) : form.max = q[i]
                 /\ form.max >= 0 /\ \A i \in 2 .. Len(q) : form.max >= q[i]
  /\ Window(form.filter, RunWindow, Stamps(q), Len(q), {"time"})

\* s is the time of the task until now, d of which the form does not have yet.
TaskHolds(form, q, s, d) ==
  /\ IsForm(form) /\ form.accumulate \in Int
  /\ FormHolds(form, q)
  /\ ~form.active => s = 0 /\ q # <<>>
  /\ form.active => s = form.accumulate + d

Later(form, d) == [form EXCEPT !.accumulate = IF form.active THEN @ + d ELSE @]
LaterForms(F, d) == [t \in DOMAIN F |-> Later(F[t], d)]

Begun(form) == [form EXCEPT !.active = TRUE, !.accumulate = 0]

LEMMA LaterHolds ==
  ASSUME NEW form, NEW q, NEW s, NEW d \in Int, TaskHolds(form, q, s, d)
  PROVE  TaskHolds(Later(form, d), q, s, 0) /\ (Later(form, d).active <=> form.active)
<1>1. PICK f : f = Later(form, d)
  OBVIOUS
<1>2. IsForm(form) /\ form.accumulate \in Int /\ FormHolds(form, q)
  BY DEF TaskHolds
<1>3. /\ IsForm(f) /\ f.active = form.active /\ f.count = form.count /\ f.sum = form.sum
      /\ f.min = form.min /\ f.max = form.max /\ f.last = form.last /\ f.filter = form.filter
      /\ f.accumulate = IF form.active THEN form.accumulate + d ELSE form.accumulate
  BY <1>1, <1>2 DEF Later, IsForm
<1>4. FormHolds(f, q)
  BY <1>2, <1>3 DEF FormHolds
<1> QED
  BY <1>1, <1>2, <1>3, <1>4 DEF TaskHolds

LEMMA StartedHolds ==
  ASSUME NEW form, NEW q, IsForm(form), FormHolds(form, q)
  PROVE  TaskHolds(Begun(form), q, 0, 0) /\ Begun(form).active
<1>1. PICK f : f = Begun(form)
  OBVIOUS
<1>2. /\ IsForm(f) /\ f.active /\ f.count = form.count /\ f.sum = form.sum
      /\ f.min = form.min /\ f.max = form.max /\ f.last = form.last /\ f.filter = form.filter
      /\ f.accumulate = 0
  BY <1>1 DEF IsForm, Begun
<1>3. FormHolds(f, q)
  BY <1>2 DEF FormHolds
<1> QED
  BY <1>1, <1>2, <1>3 DEF TaskHolds

LEMMA NewFormHolds == IsForm(NewForm) /\ FormHolds(NewForm, <<>>)
<1>1. PICK f : f = NewForm
  OBVIOUS
<1>2. /\ IsForm(f) /\ f.count = 0 /\ f.sum = 0 /\ f.min = Largest /\ f.max = 0
      /\ f.filter = EmptyFilter([time |-> 0])
  BY <1>1 DEF NewForm, IsForm
<1>3. [time |-> 0] = [c \in {"time"} |-> 0]
  OBVIOUS
<1>4. RunWindow \in Nat \ {0}
  BY EvaluatorAssumption
<1>5. PICK q : q = <<>>
  OBVIOUS
<1>6. Window(f.filter, RunWindow, Stamps(q), 0, {"time"})
  BY <1>2, <1>3, <1>4, WindowIsEmpty
<1>7. Len(q) = 0 /\ TotalUpTo(q, 0) = 0
  BY <1>5, TotalOfNone
<1> QED
  BY <1>1, <1>2, <1>5, <1>6, <1>7 DEF FormHolds

\* Stopping a task enters the time that it took.
LEMMA EnteredHolds ==
  ASSUME NEW form, NEW q \in Seq(Times), NEW s \in Times, TaskHolds(form, q, s, 0), form.active
  PROVE  TaskHolds(Entered(form), Append(q, s), 0, 0) /\ ~Entered(form).active
<1>1. PICK f : f = Entered(form)
  OBVIOUS
<1>2. IsForm(form) /\ form.accumulate = s /\ FormHolds(form, q)
  BY DEF TaskHolds
<1>3. /\ IsForm(f) /\ ~f.active /\ f.accumulate = s /\ f.count = form.count + 1 /\ f.sum = form.sum + s
      /\ f.min = IF s < form.min THEN s ELSE form.min
      /\ f.max = IF s > form.max /\ form.count # 0 THEN s ELSE form.max
      /\ f.last = s /\ f.filter = Updated(form.filter, RunWindow, [time |-> s])
  BY <1>1, <1>2 DEF Entered, IsForm
<1>4. PICK n \in Nat : n = Len(q)
  OBVIOUS
<1>a. Append(q, s) \in Seq(Times)
  OBVIOUS
<1>5. PICK a \in Seq(Times) : a = Append(q, s)
  BY <1>a
<1>6. Len(a) = n + 1 /\ DOMAIN a = 1 .. n + 1 /\ a[n + 1] = s /\ \A i \in 1 .. n : a[i] = q[i]
  BY <1>4, <1>5
<1>7. Times \subseteq Nat /\ \A t \in Times : t <= Largest
  BY SensorsAssumption, MaxTimeAssumption, EvaluatorAssumption DEF Times
<1>8. \A i \in 1 .. n : q[i] \in Nat /\ a[i] \in Nat
  <2>1. \A i \in 1 .. n : q[i] \in Times
    BY <1>4
  <2> QED
    BY <1>6, <1>7, <2>1
<1>9. f.count = Len(a)
  BY <1>2, <1>3, <1>4, <1>6 DEF FormHolds
<1>10. f.sum = TotalUpTo(a, Len(a))
  <2>1. TotalUpTo(a, n + 1) = TotalUpTo(a, n) + a[n + 1]
    BY TotalOfMore
  <2>2. TotalUpTo(a, n) = TotalUpTo(q, n)
    BY <1>6, TotalOfSame
  <2> QED
    BY <1>2, <1>3, <1>4, <1>6, <2>1, <2>2 DEF FormHolds
<1>11. a # <<>>
  BY <1>6
<1>12. (q = <<>>) <=> (n = 0)
  BY <1>4
<1>13. s \in Nat /\ s <= Largest /\ Largest \in Nat
  BY <1>7, EvaluatorAssumption
<1>14. (\E i \in 1 .. n + 1 : f.min = a[i]) /\ \A i \in 1 .. n + 1 : f.min <= a[i]
  <2>1. CASE n = 0
    <3>1. f.min = s
      BY <1>2, <1>3, <1>12, <1>13, <2>1 DEF FormHolds
    <3> QED
      BY <1>6, <1>13, <2>1, <3>1
  <2>2. CASE n # 0
    <3>1. PICK m \in Nat, j \in 1 .. n : m = form.min /\ m = q[j] /\ \A i \in 1 .. n : m <= q[i]
      <4>1. PICK j \in 1 .. n : form.min = q[j]
        BY <1>2, <1>4, <1>12, <2>2 DEF FormHolds
      <4>2. \A i \in 1 .. n : form.min <= q[i]
        BY <1>2, <1>4, <1>12, <2>2 DEF FormHolds
      <4> QED
        BY <1>8, <4>1, <4>2
    <3>2. \A i \in 1 .. n + 1 : i = n + 1 \/ i \in 1 .. n
      OBVIOUS
    <3>3. j \in 1 .. n + 1 /\ n + 1 \in 1 .. n + 1 /\ a[j] = m
      BY <1>6, <3>1
    <3>4. f.min = IF s < m THEN s ELSE m
      BY <1>3, <3>1
    <3>5. ASSUME NEW i \in 1 .. n + 1
          PROVE  f.min <= a[i]
      <4>1. CASE i = n + 1
        BY <1>6, <1>13, <3>4, <4>1
      <4>2. CASE i \in 1 .. n
        <5>1. PICK r \in Nat : r = a[i] /\ m <= r
          BY <1>6, <1>8, <3>1, <4>2
        <5> QED
          BY <1>13, <3>4, <5>1
      <4> QED
        BY <3>2, <4>1, <4>2
    <3> QED
      BY <1>6, <3>3, <3>4, <3>5
  <2> QED
    BY <2>1, <2>2
<1>15. /\ f.max = 0 \/ \E i \in 2 .. n + 1 : f.max = a[i]
       /\ f.max >= 0 /\ \A i \in 2 .. n + 1 : f.max >= a[i]
  <2>1. CASE n = 0
    <3>1. f.max = 0
      BY <1>2, <1>3, <1>4, <1>12, <2>1 DEF FormHolds
    <3> QED
      BY <2>1, <3>1
  <2>2. CASE n # 0
    <3>1. form.count # 0
      BY <1>2, <1>4, <2>2 DEF FormHolds
    <3>2. PICK m \in Nat : /\ m = form.max
                           /\ m = 0 \/ \E i \in 2 .. n : m = q[i]
                           /\ \A i \in 2 .. n : m >= q[i]
      <4>1. /\ form.max = 0 \/ \E i \in 2 .. n : form.max = q[i]
            /\ \A i \in 2 .. n : form.max >= q[i]
        BY <1>2, <1>4, <1>12, <2>2 DEF FormHolds
      <4>2. \A i \in 2 .. n : i \in 1 .. n
        OBVIOUS
      <4>3. form.max \in Nat
        BY <1>8, <4>1, <4>2
      <4> QED
        BY <4>1, <4>3
    <3>3. f.max = IF s > m THEN s ELSE m
      BY <1>3, <3>1, <3>2
    <3>4. \A i \in 2 .. n + 1 : i = n + 1 \/ (i \in 2 .. n /\ i \in 1 .. n)
      OBVIOUS
    <3>5. n + 1 \in 2 .. n + 1 /\ \A i \in 2 .. n : i \in 2 .. n + 1
      BY <2>2
    <3>6. ASSUME NEW i \in 2 .. n + 1
          PROVE  f.max >= a[i]
      <4>1. CASE i = n + 1
        BY <1>6, <1>13, <3>3, <4>1
      <4>2. CASE i \in 2 .. n /\ i \in 1 .. n
        <5>1. PICK r \in Nat : r = a[i] /\ m >= r
          BY <1>6, <1>8, <3>2, <4>2
        <5> QED
          BY <1>13, <3>3, <5>1
      <4> QED
        BY <3>4, <4>1, <4>2
    <3>7. f.max = 0 \/ \E i \in 2 .. n + 1 : f.max = a[i]
      <4>1. CASE s > m
        BY <1>6, <3>3, <3>5, <4>1
      <4>2. CASE ~(s > m) /\ m = 0
        BY <3>3, <4>2
      <4>3. CASE ~(s > m) /\ \E i \in 2 .. n : m = q[i]
        <5>1. PICK i \in 2 .. n : m = q[i]
          BY <4>3
        <5>2. i \in 1 .. n /\ i \in 2 .. n + 1
          OBVIOUS
        <5> QED
          BY <1>6, <3>3, <4>3, <5>1, <5>2
      <4> QED
        BY <3>2, <4>1, <4>2, <4>3
    <3> QED
      BY <1>13, <3>3, <3>6, <3>7
  <2> QED
    BY <2>1, <2>2
<1>16. Window(f.filter, RunWindow, Stamps(a), Len(a), {"time"})
  <2>1. PICK x : x = Stamps(q)
    OBVIOUS
  <2>2. PICK y : y = Stamps(a)
    OBVIOUS
  <2>3. (\A i \in 1 .. n : x[i] = [time |-> q[i]]) /\ \A i \in 1 .. n + 1 : y[i] = [time |-> a[i]]
    BY <1>4, <1>6, <2>1, <2>2 DEF Stamps
  <2>4. ASSUME NEW i \in 1 .. n
        PROVE  x[i] = y[i]
    <3>1. i \in 1 .. n + 1
      OBVIOUS
    <3> QED
      BY <1>6, <2>3, <3>1
  <2>5. ASSUME NEW i \in 1 .. n + 1
        PROVE  y[i] \in [{"time"} -> Measures]
    <3>1. a[i] \in Times
      BY <1>6
    <3>a. a[i] \in Nat
      BY <1>7, <3>1
    <3>b. \A v \in Nat : v \in Measures
      BY DEF Measures
    <3>2. PICK v \in Measures : v = a[i]
      BY <3>a, <3>b
    <3>3. [time |-> v] \in [{"time"} -> Measures]
      OBVIOUS
    <3> QED
      BY <2>3, <3>2, <3>3
  <2>6. PICK W \in Nat \ {0, 1} : W = RunWindow
    BY EvaluatorAssumption
  <2>7. Window(form.filter, W, x, n, {"time"})
    BY <1>2, <1>4, <2>1, <2>6 DEF FormHolds
  <2>8. Window(form.filter, W, y, n, {"time"})
    BY <2>4, <2>7, WindowIsSame
  <2>9. Window(Updated(form.filter, W, y[n + 1]), W, y, n + 1, {"time"})
    BY <2>5, <2>8, WindowUpdated
  <2>10. y[n + 1] = [time |-> s]
    BY <1>6, <2>3
  <2> QED
    BY <1>3, <1>6, <2>2, <2>6, <2>9, <2>10
<1>17. FormHolds(f, a)
  BY <1>3, <1>6, <1>9, <1>10, <1>11, <1>14, <1>15, <1>16 DEF FormHolds
<1> QED
  BY <1>1, <1>3, <1>5, <1>7, <1>11, <1>17 DEF TaskHolds

-----------------------------------------------------------------------------
(************************** the calls of the evaluator *********************)

LEMMA PauseFacts ==
  \A e, n : IsEvaluator(e) =>
      /\ IsEvaluator(Pause(e, n)) /\ Pause(e, n).start = e.start
      /\ Pause(e, n).forms = LaterForms(e.forms, n - e.start)
      /\ Pause(e, n).histogram = e.histogram /\ Pause(e, n).thrown = e.thrown
BY DEF Pause, IsEvaluator, Later, LaterForms

LEMMA StartFacts ==
  ASSUME NEW e, NEW n, NEW task, IsEvaluator(e), ~IsActive(e, task)
  PROVE  LET s == Start(e, task, n)
             L == LaterForms(e.forms, n - e.start)
         IN  /\ IsEvaluator(s) /\ s.start = e.start
             /\ s.histogram = e.histogram /\ s.thrown = e.thrown
             /\ DOMAIN s.forms = DOMAIN e.forms \cup {task}
             /\ s.forms[task] = Begun(IF task \in DOMAIN e.forms THEN L[task] ELSE NewForm)
             /\ \A t \in DOMAIN e.forms : t # task => s.forms[t] = L[t]
<1>1. PICK p : p = Pause(e, n)
  OBVIOUS
<1>2. PICK L : L = LaterForms(e.forms, n - e.start)
  OBVIOUS
<1>3. IsEvaluator(p) /\ p.start = e.start /\ p.forms = L /\ p.histogram = e.histogram /\ p.thrown = e.thrown
  BY <1>1, <1>2, PauseFacts
<1>4. DOMAIN L = DOMAIN e.forms
  BY <1>2 DEF LaterForms
<1>5. \A t : Form(p, t) = IF t \in DOMAIN e.forms THEN L[t] ELSE NewForm
  BY <1>3, <1>4 DEF Form
<1>6. PICK F : F = [t \in DOMAIN L \cup {task} |->
                       IF t = task THEN [Form(p, t) EXCEPT !.active = TRUE, !.accumulate = 0] ELSE L[t]]
  OBVIOUS
<1>7. Start(e, task, n) = [p EXCEPT !.forms = F]
  BY <1>1, <1>3, <1>6 DEF Start
<1>8. PICK s : s = [p EXCEPT !.forms = F]
  OBVIOUS
<1>9. IsEvaluator(s) /\ s.start = e.start /\ s.histogram = e.histogram /\ s.thrown = e.thrown /\ s.forms = F
  BY <1>3, <1>8 DEF IsEvaluator
<1>10. /\ DOMAIN F = DOMAIN e.forms \cup {task}
       /\ F[task] = Begun(Form(p, task))
       /\ \A t \in DOMAIN e.forms : t # task => F[t] = L[t]
  BY <1>4, <1>6 DEF Begun
<1> QED
  BY <1>2, <1>5, <1>7, <1>8, <1>9, <1>10

LEMMA StopFacts ==
  ASSUME NEW e, NEW n, NEW task, IsEvaluator(e), IsActive(e, task)
  PROVE  LET s == Stop(e, task, n)
             L == LaterForms(e.forms, n - e.start)
         IN  /\ IsEvaluator(s) /\ s.start = e.start /\ s.thrown = e.thrown
             /\ s.histogram = Tallied(e.histogram, task, L[task].accumulate)
             /\ DOMAIN s.forms = DOMAIN e.forms
             /\ s.forms[task] = Entered(L[task])
             /\ \A t \in DOMAIN e.forms : t # task => s.forms[t] = L[t]
<1>1. PICK p : p = Pause(e, n)
  OBVIOUS
<1>2. PICK L : L = LaterForms(e.forms, n - e.start)
  OBVIOUS
<1>3. IsEvaluator(p) /\ p.start = e.start /\ p.forms = L /\ p.histogram = e.histogram /\ p.thrown = e.thrown
  BY <1>1, <1>2, PauseFacts
<1>4. DOMAIN L = DOMAIN e.forms /\ task \in DOMAIN L
  BY <1>2 DEF LaterForms, IsActive
<1>5. PICK F : F = [L EXCEPT ![task] = Entered(L[task])]
  OBVIOUS
<1>6. PICK H : H = Tallied(e.histogram, task, L[task].accumulate)
  OBVIOUS
<1>7. PICK s : s = Stop(e, task, n)
  OBVIOUS
<1>8. s = [p EXCEPT !.forms[task] = Entered(@),
                    !.histogram = Tallied(@, task, p.forms[task].accumulate)]
  BY <1>1, <1>7 DEF Stop
<1>9. IsEvaluator(s) /\ s.start = e.start /\ s.thrown = e.thrown /\ s.forms = F /\ s.histogram = H
  <2>1. IsEvaluator(s)
    BY <1>3, <1>8 DEF IsEvaluator
  <2>2. s.start = p.start /\ s.thrown = p.thrown
    BY <1>3, <1>8 DEF IsEvaluator
  <2>3. s.forms = F
    BY <1>3, <1>5, <1>8 DEF IsEvaluator
  <2>4. s.histogram = H
    BY <1>3, <1>6, <1>8 DEF IsEvaluator
  <2> QED
    BY <1>3, <2>1, <2>2, <2>3, <2>4
<1>10. /\ DOMAIN F = DOMAIN e.forms /\ F[task] = Entered(L[task])
       /\ \A t \in DOMAIN e.forms : t # task => F[t] = L[t]
  BY <1>4, <1>5
<1> QED
  BY <1>2, <1>6, <1>7, <1>9, <1>10

\* How many of the times q fall into bucket b
Hits(q, b) == {k \in DOMAIN q : Bucket(q[k]) = b}

LEMMA HitsAreFew ==
  ASSUME NEW q \in Seq(Times), NEW b
  PROVE  IsFiniteSet(Hits(q, b)) /\ Cardinality(Hits(q, b)) \in 0 .. Len(q)
<1>1. PICK n \in Nat : n = Len(q)
  OBVIOUS
<1>2. PICK h : h = Hits(q, b)
  OBVIOUS
<1>3. h \subseteq 1 .. n
  BY <1>1, <1>2 DEF Hits
<1>4. IsFiniteSet(1 .. n) /\ Cardinality(1 .. n) = n
  BY FS_Interval
<1>5. IsFiniteSet(h) /\ Cardinality(h) <= n
  BY <1>3, <1>4, FS_Subset
<1>6. Cardinality(h) \in Nat
  BY <1>5, FS_CardinalityType
<1> QED
  BY <1>1, <1>2, <1>5, <1>6

LEMMA OneMoreHit ==
  ASSUME NEW q \in Seq(Times), NEW s \in Times, NEW b
  PROVE  Cardinality(Hits(Append(q, s), b)) = Cardinality(Hits(q, b)) + (IF Bucket(s) = b THEN 1 ELSE 0)
<1>1. PICK n \in Nat : n = Len(q)
  OBVIOUS
<1>2. PICK a : a = Append(q, s)
  OBVIOUS
<1>3. DOMAIN a = 1 .. n + 1 /\ a[n + 1] = s /\ (\A i \in 1 .. n : a[i] = q[i]) /\ DOMAIN q = 1 .. n
  BY <1>1, <1>2
<1>4. PICK h : h = Hits(q, b)
  OBVIOUS
<1>5. IsFiniteSet(h) /\ Cardinality(h) \in Nat
  BY <1>4, HitsAreFew
<1>6. n + 1 \notin h
  BY <1>3, <1>4 DEF Hits
<1>7. Hits(a, b) = IF Bucket(s) = b THEN h \cup {n + 1} ELSE h
  <2>1. \A i : i \in 1 .. n + 1 <=> i \in 1 .. n \/ i = n + 1
    OBVIOUS
  <2>2. \A i : i \in h <=> i \in 1 .. n /\ Bucket(a[i]) = b
    BY <1>3, <1>4 DEF Hits
  <2>3. \A i : i \in Hits(a, b) <=> i \in 1 .. n + 1 /\ Bucket(a[i]) = b
    BY <1>3 DEF Hits
  <2>4. \A i : i \in Hits(a, b) <=> i \in h \/ (i = n + 1 /\ Bucket(s) = b)
    BY <1>3, <2>1, <2>2, <2>3
  <2> QED
    BY <2>4
<1>8. Cardinality(h \cup {n + 1}) = Cardinality(h) + 1
  BY <1>5, <1>6, FS_AddElement
<1> QED
  BY <1>2, <1>4, <1>5, <1>7, <1>8

LEMMA BucketFits ==
  ASSUME NEW s \in Times
  PROVE  Bucket(s) \in 0 .. Buckets - 1
<1>1. PICK z \in Nat \ {0}, B \in Nat \ {0} : z = BucketSize /\ B = Buckets
  BY EvaluatorAssumption
<1>2. s \in Nat
  BY MaxTimeAssumption DEF Times
<1>3. PICK d \in Nat : d = s \div z
  <2>1. s \div z \in Nat
    BY <1>2
  <2> QED
    BY <2>1
<1> QED
  BY <1>1, <1>3 DEF Bucket

\* A bar is at most as long as the line, as no bucket has more than all times.
LEMMA BarFits ==
  ASSUME NEW h \in Nat, NEW n \in Nat \ {0}, h <= n
  PROVE  CeilDiv(h * LineLength, n) <= LineLength
<1>1. PICK w \in Nat : w = LineLength
  BY EvaluatorAssumption
<1>2. PICK p \in Nat : p = h * w /\ p <= n * w
  <2>1. PICK d \in Nat : n = h + d
    BY n - h \in Nat, n = h + (n - h)
  <2>2. (h + d) * w = h * w + d * w /\ d * w \in Nat /\ h * w \in Nat
    OBVIOUS
  <2> QED
    BY <2>1, <2>2
<1>3. PICK m \in Nat : m = n * w
  OBVIOUS
<1>4. PICK s \in Int : s = p + n - 1
  OBVIOUS
<1>5. PICK q \in Int, r \in 0 .. n - 1 : q = s \div n /\ s = n * q + r
  <2>1. s = n * (s \div n) + (s % n) /\ s \div n \in Int /\ (s % n) \in 0 .. n - 1
    OBVIOUS
  <2> QED
    BY <2>1
<1>6. ~(w < q)
  <2> SUFFICES ASSUME w < q
               PROVE  FALSE
    OBVIOUS
  <2>1. PICK d \in Nat : q = w + 1 + d
    BY q - w - 1 \in Nat, q = w + 1 + (q - w - 1)
  <2>2. n * q = n * w + n + n * d /\ n * d \in Nat
    BY <2>1
  <2>3. PICK e \in Nat : e = n * d
    BY <2>2
  <2>4. n * q = m + n + e
    BY <1>3, <2>2, <2>3
  <2> QED
    BY <1>2, <1>3, <1>4, <1>5, <2>4
<1> QED
  BY <1>1, <1>2, <1>4, <1>5, <1>6 DEF CeilDiv

-----------------------------------------------------------------------------
(******************* the inductive invariant of the evaluator **************)

\* What passed since the measurements were resumed
Pending == IF busy THEN 0 ELSE now - eval.start

ClockTypes ==
  /\ IsEvaluator(eval) /\ eval.thrown = FALSE
  /\ eval.start \in Times /\ eval.start <= now /\ busy \in BOOLEAN
  /\ DOMAIN eval.forms \subseteq Tasks
  /\ spent \in [Tasks -> Times] /\ \A t \in Tasks : spent[t] <= now
  /\ measured \in [Tasks -> Seq(Times)]

TasksHold ==
  \A t \in Tasks :
    /\ t \in DOMAIN eval.forms => TaskHolds(eval.forms[t], measured[t], spent[t], Pending)
    /\ t \notin DOMAIN eval.forms => spent[t] = 0 /\ measured[t] = <<>>

\* The callback's step tells which tasks are running.
InTurn ==
  /\ step \in {"pop", "register", "accumulate", "done", "report"}
  /\ IsActive(eval, "total") <=> step \in {"register", "accumulate", "done"}
  /\ IsActive(eval, "reg") <=> step = "accumulate"

HistogramHolds ==
  /\ DOMAIN eval.histogram = 0 .. Buckets - 1
  /\ \A b \in 0 .. Buckets - 1 : eval.histogram[b] = Cardinality(Hits(measured["total"], b))

BarsFit == \A b \in DOMAIN report.bars : report.bars[b] <= LineLength

EvalInv == ClockTypes /\ TasksHold /\ InTurn /\ HistogramHolds /\ BarsFit

LEMMA TimesAreNats == Times \subseteq Nat /\ 0 \in Times /\ MaxTime \in Times /\ \A t \in Times : t <= MaxTime
BY MaxTimeAssumption DEF Times

LEMMA EvalInitOK == SensorsInit => EvalInv
<1> SUFFICES ASSUME SensorsInit
             PROVE  EvalInv
  OBVIOUS
<1>1. PICK e : e = NewEvaluator(0)
  OBVIOUS
<1>2. /\ eval = e /\ now = 0 /\ busy = FALSE /\ step = "pop" /\ report = NoReport
      /\ spent = [t \in Tasks |-> 0] /\ measured = [t \in Tasks |-> <<>>]
  BY <1>1 DEF SensorsInit, AccInit
<1>3. /\ IsEvaluator(e) /\ e.start = 0 /\ e.forms = <<>> /\ e.thrown = FALSE
      /\ e.histogram = [b \in 0 .. Buckets - 1 |-> 0]
  BY <1>1 DEF NewEvaluator, IsEvaluator
<1>4. DOMAIN e.forms = {}
  BY <1>3
<1>5. ClockTypes
  <2>1. \A t \in Tasks : spent[t] <= now
    BY <1>2
  <2>2. spent \in [Tasks -> Times] /\ measured \in [Tasks -> Seq(Times)]
    BY <1>2, TimesAreNats
  <2>3. eval.start \in Times /\ eval.start <= now /\ busy \in BOOLEAN
    <3>1. eval.start = 0 /\ now = 0
      BY <1>2, <1>3
    <3>2. busy \in BOOLEAN
      BY <1>2
    <3>3. 0 <= 0
      OBVIOUS
    <3> QED
      BY <3>1, <3>2, <3>3, TimesAreNats
  <2>4. IsEvaluator(eval) /\ eval.thrown = FALSE /\ DOMAIN eval.forms \subseteq Tasks
    BY <1>2, <1>3, <1>4
  <2> QED
    BY <2>1, <2>2, <2>3, <2>4 DEF ClockTypes
<1>6. TasksHold
  BY <1>2, <1>4 DEF TasksHold
<1>7. InTurn
  BY <1>2, <1>4 DEF InTurn, IsActive
<1>8. HistogramHolds
  <2>1. PICK q : q = <<>>
    OBVIOUS
  <2>2. \A b : Hits(q, b) = {}
    BY <2>1 DEF Hits
  <2>3. measured["total"] = q
    BY <1>2, <2>1 DEF Tasks
  <2> QED
    BY <1>2, <1>3, <2>2, <2>3, FS_EmptySet DEF HistogramHolds
<1>9. BarsFit
  BY <1>2 DEF BarsFit, NoReport
<1> QED
  BY <1>5, <1>6, <1>7, <1>8, <1>9 DEF EvalInv

LEMMA EvalKept ==
  ASSUME EvalInv, UNCHANGED <<now, step, busy, eval, report, spent, measured>>
  PROVE  EvalInv'
<1>1. Pending' = Pending
  BY DEF Pending
<1> QED
  BY <1>1 DEF EvalInv, ClockTypes, TasksHold, InTurn, HistogramHolds, BarsFit

LEMMA TickEval ==
  ASSUME EvalInv, now \in Times, TickCounts
  PROVE  EvalInv'
<1>1. PICK n \in Times, s \in Times : n = now /\ s = eval.start /\ s <= n
  BY DEF EvalInv, ClockTypes
<1>2. /\ now' = n + 1 /\ n < MaxTime
      /\ spent' = [t \in Tasks |-> IF IsActive(eval, t) /\ ~busy THEN spent[t] + 1 ELSE spent[t]]
      /\ UNCHANGED <<step, busy, eval, report, measured>>
  BY <1>1 DEF TickCounts, Tick
<1>3. n + 1 \in Times /\ n \in Nat /\ s \in Nat
  BY <1>1, <1>2, MaxTimeAssumption DEF Times
<1>4. ASSUME NEW t \in Tasks
      PROVE  /\ spent'[t] \in Times /\ spent'[t] <= n + 1
             /\ spent'[t] = IF IsActive(eval, t) /\ ~busy THEN spent[t] + 1 ELSE spent[t]
  <2>1. PICK c \in Times : c = spent[t] /\ c <= n
    BY <1>1 DEF EvalInv, ClockTypes
  <2>2. c \in Nat /\ c + 1 \in Times
    BY <1>2, <1>3, <2>1, MaxTimeAssumption DEF Times
  <2> QED
    BY <1>2, <1>3, <2>1, <2>2
<1>5. ClockTypes'
  <2>1. spent' \in [Tasks -> Times]
    BY <1>2, <1>4
  <2>2. s <= n + 1
    BY <1>1, <1>3
  <2> QED
    BY <1>1, <1>2, <1>3, <1>4, <2>1, <2>2 DEF EvalInv, ClockTypes
<1>6. TasksHold'
  <2>1. ASSUME NEW t \in Tasks, t \in DOMAIN eval.forms
        PROVE  TaskHolds(eval.forms[t], measured[t], spent'[t], Pending')
    <3>1. PICK f : f = eval.forms[t]
      OBVIOUS
    <3>2. PICK d : d = Pending
      OBVIOUS
    <3>3. TaskHolds(f, measured[t], spent[t], d)
      BY <2>1, <3>1, <3>2 DEF EvalInv, TasksHold
    <3>4. PICK c \in Nat : c = spent[t]
      BY TimesAreNats DEF EvalInv, ClockTypes
    <3>5. PICK a \in Int : a = f.accumulate
      BY <3>3 DEF TaskHolds
    <3>6. spent'[t] = IF f.active /\ ~busy THEN c + 1 ELSE c
      BY <1>4, <2>1, <3>1, <3>4 DEF IsActive
    <3>7. d = (IF busy THEN 0 ELSE n - s) /\ Pending' = IF busy THEN 0 ELSE (n + 1) - s
      BY <1>1, <1>2, <3>2 DEF Pending
    <3>8. f.active => spent'[t] = a + Pending'
      <4> SUFFICES ASSUME f.active
                   PROVE  spent'[t] = a + Pending'
        OBVIOUS
      <4>1. c = a + d
        BY <3>3, <3>4, <3>5 DEF TaskHolds
      <4> QED
        BY <1>3, <3>6, <3>7, <4>1
    <3>9. ~f.active => spent'[t] = 0
      BY <3>3, <3>4, <3>6 DEF TaskHolds
    <3> QED
      BY <3>1, <3>3, <3>5, <3>8, <3>9 DEF TaskHolds
  <2>2. ASSUME NEW t \in Tasks, t \notin DOMAIN eval.forms
        PROVE  spent'[t] = 0
    BY <1>4, <2>2 DEF IsActive, EvalInv, TasksHold
  <2> QED
    BY <1>2, <2>1, <2>2 DEF EvalInv, TasksHold
<1> QED
  BY <1>2, <1>5, <1>6 DEF EvalInv, InTurn, HistogramHolds, BarsFit

LEMMA ResumeEval ==
  ASSUME EvalInv, now \in Times, ResumeAll
  PROVE  EvalInv'
<1>1. PICK n \in Times : n = now
  OBVIOUS
<1>2. /\ busy /\ busy' = FALSE /\ eval' = [eval EXCEPT !.start = n] /\ report' = NoReport
      /\ UNCHANGED <<now, step, spent, measured>>
  BY <1>1 DEF ResumeAll, Resume, pathVars, timeVars
<1>3. /\ IsEvaluator(eval') /\ eval'.start = n /\ eval'.forms = eval.forms
      /\ eval'.histogram = eval.histogram /\ eval'.thrown = eval.thrown
  BY <1>2 DEF EvalInv, ClockTypes, IsEvaluator
<1>4. Pending = 0 /\ Pending' = 0
  <2>1. n - n = 0
    BY <1>1, TimesAreNats
  <2> QED
    BY <1>1, <1>2, <1>3, <2>1 DEF Pending
<1>5. ClockTypes'
  <2>1. n <= n
    BY <1>1, TimesAreNats
  <2> QED
    BY <1>1, <1>2, <1>3, <2>1 DEF EvalInv, ClockTypes
<1>6. TasksHold'
  BY <1>2, <1>3, <1>4 DEF EvalInv, TasksHold
<1>7. InTurn' /\ HistogramHolds'
  BY <1>2, <1>3 DEF EvalInv, InTurn, HistogramHolds, IsActive
<1>8. BarsFit'
  BY <1>2 DEF BarsFit, NoReport
<1> QED
  BY <1>5, <1>6, <1>7, <1>8 DEF EvalInv

\* The forms after a pause
LEMMA PausedForms ==
  ASSUME EvalInv, now \in Times, ~busy
  PROVE  LET L == LaterForms(eval.forms, now - eval.start)
         IN  /\ DOMAIN L = DOMAIN eval.forms
             /\ \A t \in DOMAIN eval.forms : /\ TaskHolds(L[t], measured[t], spent[t], 0)
                                             /\ L[t].active <=> IsActive(eval, t)
<1>1. PICK n \in Times, s \in Times : n = now /\ s = eval.start
  BY DEF EvalInv, ClockTypes
<1>2. PICK d \in Int : d = n - s /\ d = Pending
  <2>1. n \in Int /\ s \in Int
    BY <1>1, TimesAreNats
  <2> QED
    BY <1>1, <2>1 DEF Pending
<1>3. PICK L : L = LaterForms(eval.forms, n - s)
  OBVIOUS
<1>4. DOMAIN L = DOMAIN eval.forms /\ \A t \in DOMAIN eval.forms : L[t] = Later(eval.forms[t], d)
  BY <1>2, <1>3 DEF LaterForms
<1>5. ASSUME NEW t \in DOMAIN eval.forms
      PROVE  TaskHolds(L[t], measured[t], spent[t], 0) /\ (L[t].active <=> IsActive(eval, t))
  <2>1. t \in Tasks
    BY <1>5 DEF EvalInv, ClockTypes
  <2>2. TaskHolds(eval.forms[t], measured[t], spent[t], d)
    BY <1>2, <1>5, <2>1 DEF EvalInv, TasksHold
  <2>3. PICK g : g = eval.forms[t]
    OBVIOUS
  <2>4. TaskHolds(Later(g, d), measured[t], spent[t], 0) /\ (Later(g, d).active <=> g.active)
    BY <2>2, <2>3, LaterHolds
  <2> QED
    BY <1>4, <1>5, <2>3, <2>4 DEF IsActive
<1> QED
  BY <1>1, <1>3, <1>4, <1>5

\* A task that is not running is started.
LEMMA StartEval ==
  ASSUME EvalInv, now \in Times, ~busy, NEW task \in Tasks, ~IsActive(eval, task),
         StartTask(task), now' = now, InTurn'
  PROVE  EvalInv'
<1>1. PICK e : e = eval
  OBVIOUS
<1>2. PICK n \in Times : n = now
  OBVIOUS
<1>3. PICK s : s = Start(e, task, n)
  OBVIOUS
<1>4. eval' = s /\ busy' = TRUE /\ UNCHANGED <<report, spent, measured>>
  BY <1>1, <1>2, <1>3 DEF StartTask, Begin
<1>5. PICK L : L = LaterForms(e.forms, n - e.start)
  OBVIOUS
<1>6. IsEvaluator(e) /\ ~IsActive(e, task)
  BY <1>1 DEF EvalInv, ClockTypes
<1>7. /\ IsEvaluator(s) /\ s.start = e.start
      /\ s.histogram = e.histogram /\ s.thrown = e.thrown
      /\ DOMAIN s.forms = DOMAIN e.forms \cup {task}
      /\ s.forms[task] = Begun(IF task \in DOMAIN e.forms THEN L[task] ELSE NewForm)
      /\ \A t \in DOMAIN e.forms : t # task => s.forms[t] = L[t]
  BY <1>3, <1>5, <1>6, StartFacts
<1>8. /\ DOMAIN L = DOMAIN e.forms
      /\ \A t \in DOMAIN e.forms : /\ TaskHolds(L[t], measured[t], spent[t], 0)
                                   /\ L[t].active <=> IsActive(e, t)
  BY <1>1, <1>2, <1>5, PausedForms
<1>9. Pending' = 0
  BY <1>4 DEF Pending
<1>10. TaskHolds(s.forms[task], measured[task], spent[task], 0)
  <2>1. PICK g : g = IF task \in DOMAIN e.forms THEN L[task] ELSE NewForm
    OBVIOUS
  <2>2. IsForm(g) /\ FormHolds(g, measured[task]) /\ spent[task] = 0
    <3>1. CASE task \in DOMAIN e.forms
      <4>1. TaskHolds(g, measured[task], spent[task], 0) /\ ~g.active
        BY <1>6, <1>8, <2>1, <3>1
      <4> QED
        BY <4>1 DEF TaskHolds
    <3>2. CASE task \notin DOMAIN e.forms
      <4>1. measured[task] = <<>> /\ spent[task] = 0
        BY <1>1, <3>2 DEF EvalInv, TasksHold
      <4> QED
        BY <2>1, <3>2, <4>1, NewFormHolds
    <3> QED
      BY <3>1, <3>2
  <2>3. PICK f : f = Begun(g)
    OBVIOUS
  <2>4. TaskHolds(f, measured[task], 0, 0)
    BY <2>2, <2>3, StartedHolds
  <2>5. s.forms[task] = f
    BY <1>7, <2>1, <2>3
  <2> QED
    BY <2>2, <2>4, <2>5
<1>11. TasksHold'
  <2>1. ASSUME NEW t \in Tasks, t \in DOMAIN s.forms
        PROVE  TaskHolds(s.forms[t], measured[t], spent[t], 0)
    <3>1. CASE t = task
      BY <1>10, <3>1
    <3>2. CASE t # task
      BY <1>7, <1>8, <2>1, <3>2
    <3> QED
      BY <3>1, <3>2
  <2>2. ASSUME NEW t \in Tasks, t \notin DOMAIN s.forms
        PROVE  spent[t] = 0 /\ measured[t] = <<>>
    BY <1>1, <1>7, <2>2 DEF EvalInv, TasksHold
  <2> QED
    BY <1>4, <1>9, <2>1, <2>2 DEF TasksHold
<1>12. ClockTypes'
  BY <1>1, <1>4, <1>7 DEF EvalInv, ClockTypes
<1>13. HistogramHolds' /\ BarsFit'
  BY <1>1, <1>4, <1>7 DEF EvalInv, HistogramHolds, BarsFit
<1> QED
  BY <1>11, <1>12, <1>13 DEF EvalInv

\* A running task is stopped.
LEMMA StopEval ==
  ASSUME EvalInv, now \in Times, ~busy, NEW task \in Tasks, IsActive(eval, task),
         StopTask(task), now' = now, InTurn'
  PROVE  EvalInv'
<1>1. PICK e : e = eval
  OBVIOUS
<1>2. PICK n \in Times : n = now
  OBVIOUS
<1>3. PICK s : s = Stop(e, task, n)
  OBVIOUS
<1>4. PICK c \in Times : c = spent[task]
  BY DEF EvalInv, ClockTypes
<1>5. PICK q \in Seq(Times) : q = measured[task]
  BY DEF EvalInv, ClockTypes
<1>6. /\ eval' = s /\ busy' = TRUE /\ report' = report
      /\ measured' = [measured EXCEPT ![task] = Append(q, c)]
      /\ spent' = [spent EXCEPT ![task] = 0]
  BY <1>1, <1>2, <1>3, <1>4, <1>5 DEF StopTask, Begin
<1>7. PICK L : L = LaterForms(e.forms, n - e.start)
  OBVIOUS
<1>8. IsEvaluator(e) /\ IsActive(e, task) /\ task \in DOMAIN e.forms
  BY <1>1 DEF EvalInv, ClockTypes, IsActive
<1>9. /\ IsEvaluator(s) /\ s.start = e.start /\ s.thrown = e.thrown
      /\ s.histogram = Tallied(e.histogram, task, L[task].accumulate)
      /\ DOMAIN s.forms = DOMAIN e.forms
      /\ s.forms[task] = Entered(L[task])
      /\ \A t \in DOMAIN e.forms : t # task => s.forms[t] = L[t]
  BY <1>3, <1>7, <1>8, StopFacts
<1>10. /\ DOMAIN L = DOMAIN e.forms
       /\ \A t \in DOMAIN e.forms : /\ TaskHolds(L[t], measured[t], spent[t], 0)
                                    /\ L[t].active <=> IsActive(e, t)
  BY <1>1, <1>2, <1>7, PausedForms
<1>11. PICK g : g = L[task]
  OBVIOUS
<1>12. TaskHolds(g, q, c, 0) /\ g.active
  BY <1>4, <1>5, <1>8, <1>10, <1>11
<1>13. g.accumulate = c
  <2>1. PICK a \in Int : a = g.accumulate
    BY <1>12 DEF TaskHolds
  <2>2. c = a + 0
    BY <1>12, <2>1 DEF TaskHolds
  <2> QED
    BY <2>1, <2>2
<1>14. TaskHolds(Entered(g), Append(q, c), 0, 0)
  BY <1>12, EnteredHolds
<1>15. measured \in [Tasks -> Seq(Times)] /\ spent \in [Tasks -> Times]
  BY DEF EvalInv, ClockTypes
<1>16. /\ measured'[task] = Append(q, c) /\ spent'[task] = 0
       /\ \A t \in Tasks : t # task => measured'[t] = measured[t] /\ spent'[t] = spent[t]
  BY <1>6, <1>15
<1>17. Pending' = 0
  BY <1>6 DEF Pending
<1>18. TasksHold'
  <2>1. ASSUME NEW t \in Tasks, t \in DOMAIN s.forms
        PROVE  TaskHolds(s.forms[t], measured'[t], spent'[t], 0)
    <3>1. CASE t = task
      BY <1>9, <1>11, <1>14, <1>16, <3>1
    <3>2. CASE t # task
      BY <1>9, <1>10, <1>16, <2>1, <3>2
    <3> QED
      BY <3>1, <3>2
  <2>2. ASSUME NEW t \in Tasks, t \notin DOMAIN s.forms
        PROVE  spent'[t] = 0 /\ measured'[t] = <<>>
    <3>1. t \notin DOMAIN e.forms /\ t # task
      BY <1>8, <1>9, <2>2
    <3> QED
      BY <1>1, <1>16, <3>1 DEF EvalInv, TasksHold
  <2> QED
    BY <1>6, <1>17, <2>1, <2>2 DEF TasksHold
<1>19. ClockTypes'
  <2>1. Append(q, c) \in Seq(Times)
    OBVIOUS
  <2>2. measured' \in [Tasks -> Seq(Times)] /\ spent' \in [Tasks -> Times]
    BY <1>6, <1>15, <2>1, TimesAreNats
  <2>3. ASSUME NEW t \in Tasks
        PROVE  spent'[t] <= n
    <3>1. 0 <= n
      BY <1>2, TimesAreNats
    <3>2. spent[t] <= n
      BY <1>2 DEF EvalInv, ClockTypes
    <3> QED
      BY <1>16, <3>1, <3>2
  <2> QED
    BY <1>1, <1>2, <1>6, <1>9, <2>2, <2>3 DEF EvalInv, ClockTypes
<1>20. HistogramHolds'
  <2>1. CASE task # "total"
    <3>1. s.histogram = e.histogram
      BY <1>9, <2>1 DEF Tallied
    <3>2. measured'["total"] = measured["total"]
      BY <1>16, <2>1 DEF Tasks
    <3> QED
      BY <1>1, <1>6, <3>1, <3>2 DEF EvalInv, HistogramHolds
  <2>2. CASE task = "total"
    <3>1. PICK h : h = e.histogram
      OBVIOUS
    <3>2. PICK x : x = Bucket(c)
      OBVIOUS
    <3>3. x \in 0 .. Buckets - 1
      BY <3>2, BucketFits
    <3>4. s.histogram = [h EXCEPT ![x] = h[x] + 1]
      BY <1>9, <1>11, <1>13, <2>2, <3>1, <3>2 DEF Tallied
    <3>5. /\ DOMAIN h = 0 .. Buckets - 1
          /\ \A b \in 0 .. Buckets - 1 : h[b] = Cardinality(Hits(q, b))
      BY <1>1, <1>5, <2>2, <3>1 DEF EvalInv, HistogramHolds
    <3>6. measured'["total"] = Append(q, c)
      BY <1>16, <2>2
    <3>7. DOMAIN s.histogram = 0 .. Buckets - 1
      BY <3>4, <3>5
    <3>8. ASSUME NEW b \in 0 .. Buckets - 1
          PROVE  s.histogram[b] = Cardinality(Hits(Append(q, c), b))
      <4>1. PICK k \in Nat : k = Cardinality(Hits(q, b))
        BY HitsAreFew
      <4>2. Cardinality(Hits(Append(q, c), b)) = k + (IF x = b THEN 1 ELSE 0)
        BY <3>2, <4>1, OneMoreHit
      <4>3. s.histogram[b] = IF x = b THEN k + 1 ELSE k
        BY <3>4, <3>5, <4>1
      <4> QED
        BY <4>2, <4>3
    <3> QED
      BY <1>6, <3>6, <3>7, <3>8 DEF HistogramHolds
  <2> QED
    BY <2>1, <2>2
<1>21. BarsFit'
  BY <1>6 DEF EvalInv, BarsFit
<1> QED
  BY <1>18, <1>19, <1>20, <1>21 DEF EvalInv

LEMMA ReportEval ==
  ASSUME EvalInv, now \in Times, LogReport
  PROVE  EvalInv'
<1>1. PICK e : e = eval
  OBVIOUS
<1>2. PICK n \in Times : n = now
  OBVIOUS
<1>3. PICK s : s = Pause(e, n)
  OBVIOUS
<1>4. /\ step = "report" /\ ~busy /\ step' = "pop" /\ eval' = s /\ busy' = TRUE
      /\ report' = Report(e) /\ UNCHANGED <<now, spent, measured>>
  BY <1>1, <1>2, <1>3 DEF LogReport, Begin, pathVars, timeVars
<1>5. PICK L : L = LaterForms(e.forms, n - e.start)
  OBVIOUS
<1>6. IsEvaluator(e)
  BY <1>1 DEF EvalInv, ClockTypes
<1>7. /\ IsEvaluator(s) /\ s.start = e.start /\ s.forms = L
      /\ s.histogram = e.histogram /\ s.thrown = e.thrown
  BY <1>3, <1>5, <1>6, PauseFacts
<1>8. /\ DOMAIN L = DOMAIN e.forms
      /\ \A t \in DOMAIN e.forms : /\ TaskHolds(L[t], measured[t], spent[t], 0)
                                   /\ L[t].active <=> IsActive(e, t)
  BY <1>1, <1>2, <1>4, <1>5, PausedForms
<1>9. Pending' = 0
  BY <1>4 DEF Pending
<1>10. TasksHold'
  BY <1>1, <1>4, <1>7, <1>8, <1>9 DEF EvalInv, TasksHold
<1>11. ClockTypes'
  BY <1>1, <1>4, <1>7, <1>8 DEF EvalInv, ClockTypes
<1>12. InTurn'
  <2>1. \A t : IsActive(s, t) <=> IsActive(e, t)
    BY <1>7, <1>8 DEF IsActive
  <2> QED
    BY <1>1, <1>4, <2>1 DEF EvalInv, InTurn
<1>13. HistogramHolds'
  BY <1>1, <1>4, <1>7 DEF EvalInv, HistogramHolds
<1>14. BarsFit'
  <2>1. PICK r : r = Report(e)
    OBVIOUS
  <2>2. CASE "total" \notin DOMAIN e.forms
    <3>1. r.bars = <<>>
      BY <2>1, <2>2 DEF Report
    <3> QED
      BY <1>4, <2>1, <3>1 DEF BarsFit
  <2>3. CASE "total" \in DOMAIN e.forms
    <3>1. PICK f : f = e.forms["total"]
      OBVIOUS
    <3>2. PICK q \in Seq(Times) : q = measured["total"]
      BY DEF EvalInv, ClockTypes, Tasks
    <3>3. TaskHolds(f, q, spent["total"], Pending)
      BY <1>1, <2>3, <3>1, <3>2 DEF EvalInv, TasksHold, Tasks
    <3>4. ~f.active
      BY <1>1, <1>4, <2>3, <3>1 DEF EvalInv, InTurn, IsActive
    <3>5. PICK k \in Nat \ {0} : k = Len(q) /\ k = f.count
      <4>1. q # <<>> /\ f.count = Len(q)
        BY <3>3, <3>4 DEF TaskHolds, FormHolds
      <4> QED
        BY <4>1
    <3>6. r.bars = [b \in DOMAIN e.histogram |-> CeilDiv(e.histogram[b] * LineLength, f.count)]
      BY <2>1, <2>3, <3>1 DEF Report
    <3>7. ASSUME NEW b \in DOMAIN e.histogram
          PROVE  CeilDiv(e.histogram[b] * LineLength, k) <= LineLength
      <4>1. e.histogram[b] = Cardinality(Hits(q, b))
        BY <1>1, <3>2 DEF EvalInv, HistogramHolds
      <4>2. PICK h : h = Cardinality(Hits(q, b))
        OBVIOUS
      <4>3. h \in 0 .. Len(q)
        BY <4>2, HitsAreFew
      <4>4. h \in Nat /\ h <= k
        BY <3>5, <4>3
      <4> QED
        BY <4>1, <4>2, <4>4, BarFits
    <3>8. \A b \in DOMAIN r.bars : r.bars[b] <= LineLength
      BY <3>5, <3>6, <3>7
    <3> QED
      BY <1>4, <2>1, <3>8 DEF BarsFit
  <2> QED
    BY <2>2, <2>3
<1> QED
  BY <1>10, <1>11, <1>12, <1>13, <1>14 DEF EvalInv

-----------------------------------------------------------------------------
(*************************** the steps of the callback *********************)

\* Who is running after a task was started, and after one was stopped
LEMMA StartsTask ==
  ASSUME EvalInv, now \in Times, ~busy, NEW task \in Tasks, ~IsActive(eval, task), NEW other, other # task
  PROVE  LET s == Start(eval, task, now)
         IN  IsActive(s, task) /\ (IsActive(s, other) <=> IsActive(eval, other))
<1>1. PICK s : s = Start(eval, task, now)
  OBVIOUS
<1>2. PICK L : L = LaterForms(eval.forms, now - eval.start)
  OBVIOUS
<1>3. IsEvaluator(eval)
  BY DEF EvalInv, ClockTypes
<1>4. PICK g : g = IF task \in DOMAIN eval.forms THEN L[task] ELSE NewForm
  OBVIOUS
<1>5. /\ DOMAIN s.forms = DOMAIN eval.forms \cup {task} /\ s.forms[task] = Begun(g)
      /\ \A t \in DOMAIN eval.forms : t # task => s.forms[t] = L[t]
  BY <1>1, <1>2, <1>3, <1>4, StartFacts
<1>6. /\ DOMAIN L = DOMAIN eval.forms
      /\ \A t \in DOMAIN eval.forms : /\ TaskHolds(L[t], measured[t], spent[t], 0)
                                      /\ L[t].active <=> IsActive(eval, t)
  BY <1>2, PausedForms
<1>7. IsForm(g)
  BY <1>4, <1>6, NewFormHolds DEF TaskHolds
<1>8. Begun(g).active
  BY <1>7 DEF Begun, IsForm
<1>9. IsActive(s, task)
  BY <1>5, <1>8 DEF IsActive
<1>10. IsActive(s, other) <=> IsActive(eval, other)
  <2>1. CASE other \in DOMAIN eval.forms
    BY <1>5, <1>6, <2>1 DEF IsActive
  <2>2. CASE other \notin DOMAIN eval.forms
    BY <1>5, <2>2 DEF IsActive
  <2> QED
    BY <2>1, <2>2
<1> QED
  BY <1>1, <1>9, <1>10

LEMMA StopsTask ==
  ASSUME EvalInv, now \in Times, ~busy, NEW task \in Tasks, IsActive(eval, task), NEW other, other # task
  PROVE  LET s == Stop(eval, task, now)
         IN  ~IsActive(s, task) /\ (IsActive(s, other) <=> IsActive(eval, other))
<1>1. PICK s : s = Stop(eval, task, now)
  OBVIOUS
<1>2. PICK L : L = LaterForms(eval.forms, now - eval.start)
  OBVIOUS
<1>3. IsEvaluator(eval) /\ task \in DOMAIN eval.forms
  BY DEF EvalInv, ClockTypes, IsActive
<1>4. PICK g : g = L[task]
  OBVIOUS
<1>5. /\ DOMAIN s.forms = DOMAIN eval.forms /\ s.forms[task] = Entered(g)
      /\ \A t \in DOMAIN eval.forms : t # task => s.forms[t] = L[t]
  BY <1>1, <1>2, <1>3, <1>4, StopFacts
<1>6. /\ DOMAIN L = DOMAIN eval.forms
      /\ \A t \in DOMAIN eval.forms : /\ TaskHolds(L[t], measured[t], spent[t], 0)
                                      /\ L[t].active <=> IsActive(eval, t)
  BY <1>2, PausedForms
<1>7. IsForm(g)
  BY <1>3, <1>4, <1>6 DEF TaskHolds
<1>8. ~Entered(g).active
  BY <1>7 DEF Entered, IsForm
<1>9. ~IsActive(s, task)
  BY <1>5, <1>8 DEF IsActive
<1>10. IsActive(s, other) <=> IsActive(eval, other)
  <2>1. CASE other \in DOMAIN eval.forms
    BY <1>5, <1>6, <2>1 DEF IsActive
  <2>2. CASE other \notin DOMAIN eval.forms
    BY <1>5, <2>2 DEF IsActive
  <2> QED
    BY <2>1, <2>2
<1> QED
  BY <1>1, <1>9, <1>10

LEMMA PopStartsTotalOK == ASSUME EvalInv, now \in Times, PopStartsTotal PROVE EvalInv'
<1>1. /\ step = "pop" /\ ~busy /\ StartTask("total") /\ now' = now
      /\ step' \in {"done", "register"}
  BY DEF PopStartsTotal, CallbackPop, timeVars
<1>2. ~IsActive(eval, "total") /\ ~IsActive(eval, "reg")
  BY <1>1 DEF EvalInv, InTurn
<1>3. PICK e : e = Start(eval, "total", now)
  OBVIOUS
<1>4. IsActive(e, "total") /\ ~IsActive(e, "reg")
  BY <1>1, <1>2, <1>3, StartsTask DEF Tasks
<1>5. InTurn'
  <2>1. eval' = e
    BY <1>1, <1>3 DEF StartTask, Begin
  <2> QED
    BY <1>1, <1>4, <2>1 DEF InTurn
<1> QED
  BY <1>1, <1>2, <1>5, StartEval DEF Tasks

LEMMA StartRegOK == ASSUME EvalInv, now \in Times, StartReg PROVE EvalInv'
<1>1. step = "register" /\ ~busy /\ StartTask("reg") /\ now' = now /\ step' = "accumulate"
  BY DEF StartReg, pathVars, timeVars
<1>2. IsActive(eval, "total") /\ ~IsActive(eval, "reg")
  BY <1>1 DEF EvalInv, InTurn
<1>3. PICK e : e = Start(eval, "reg", now)
  OBVIOUS
<1>4. IsActive(e, "total") /\ IsActive(e, "reg")
  BY <1>1, <1>2, <1>3, StartsTask DEF Tasks
<1>5. InTurn'
  <2>1. eval' = e
    BY <1>1, <1>3 DEF StartTask, Begin
  <2> QED
    BY <1>1, <1>4, <2>1 DEF InTurn
<1> QED
  BY <1>1, <1>2, <1>5, StartEval DEF Tasks

LEMMA StopRegOK == ASSUME EvalInv, now \in Times, StopReg PROVE EvalInv'
<1>1. step = "accumulate" /\ ~busy /\ StopTask("reg") /\ now' = now /\ step' = "done"
  BY DEF StopReg, EndAccumulate, timeVars
<1>2. IsActive(eval, "total") /\ IsActive(eval, "reg")
  BY <1>1 DEF EvalInv, InTurn
<1>3. PICK e : e = Stop(eval, "reg", now)
  OBVIOUS
<1>4. IsActive(e, "total") /\ ~IsActive(e, "reg")
  BY <1>1, <1>2, <1>3, StopsTask DEF Tasks
<1>5. InTurn'
  <2>1. eval' = e
    BY <1>1, <1>3 DEF StopTask, Begin
  <2> QED
    BY <1>1, <1>4, <2>1 DEF InTurn
<1> QED
  BY <1>1, <1>2, <1>5, StopEval DEF Tasks

LEMMA StopTotalOK == ASSUME EvalInv, now \in Times, StopTotal PROVE EvalInv'
<1>1. step = "done" /\ ~busy /\ StopTask("total") /\ now' = now /\ step' \in {"report", "pop"}
  BY DEF StopTotal, pathVars, timeVars
<1>2. IsActive(eval, "total") /\ ~IsActive(eval, "reg")
  BY <1>1 DEF EvalInv, InTurn
<1>3. PICK e : e = Stop(eval, "total", now)
  OBVIOUS
<1>4. ~IsActive(e, "total") /\ ~IsActive(e, "reg")
  BY <1>1, <1>2, <1>3, StopsTask DEF Tasks
<1>5. InTurn'
  <2>1. eval' = e
    BY <1>1, <1>3 DEF StopTask, Begin
  <2> QED
    BY <1>1, <1>4, <2>1 DEF InTurn
<1> QED
  BY <1>1, <1>2, <1>5, StopEval DEF Tasks

LEMMA EvalStepOK ==
  ASSUME EvalInv, now \in Times, [SensorsNext]_allVars
  PROVE  EvalInv'
<1>1. CASE PopStartsTotal \/ StartReg \/ StopReg \/ StopTotal \/ LogReport
  BY <1>1, PopStartsTotalOK, StartRegOK, StopRegOK, StopTotalOK, ReportEval
<1>2. CASE TickCounts \/ ResumeAll
  BY <1>2, TickEval, ResumeEval
<1>3. CASE UNCHANGED allVars
  BY <1>3, EvalKept DEF allVars, pathVars, timeVars, evalVars
<1>4. CASE (\E found \in BOOLEAN : OpenDevice(found)) \/ Calibrate \/ StopCalibrated
  BY <1>4, EvalKept DEF OpenDevice, Calibrate, StopCalibrated, pathVars, timeVars, evalVars
<1>5. CASE DataHandler \/ DataAfterCalibration
  BY <1>5, EvalKept DEF DataHandler, DataAfterCalibration, ImuMessage, evalVars
<1>6. CASE SessionStarts \/ SessionStops
  BY <1>6, EvalKept DEF SessionStarts, SessionStops, StartSession, StopSession, evalVars
<1>7. CASE RegisterAccumulates \/ Others
  BY <1>7, EvalKept DEF RegisterAccumulates, Others, Accumulate, CallbackStarts, BridgePop, BridgePush,
                        CloudMessage, evalVars, timeVars
<1> QED
  BY <1>1, <1>2, <1>3, <1>4, <1>5, <1>6, <1>7 DEF SensorsNext

-----------------------------------------------------------------------------
(*********************** what the evaluator shows **************************)

LEMMA LeastIsMin ==
  ASSUME NEW S \in SUBSET Int, NEW x \in S, \A y \in S : x <= y
  PROVE  Sets!Min(S) = x
<1>1. PICK m : m = Sets!Min(S)
  OBVIOUS
<1>2. m \in S /\ \A y \in S : m <= y
  BY <1>1 DEF Sets!Min
<1> QED
  BY <1>1, <1>2

LEMMA GreatestIsMax ==
  ASSUME NEW S \in SUBSET Int, NEW x \in S, \A y \in S : x >= y
  PROVE  Sets!Max(S) = x
<1>1. PICK m : m = Sets!Max(S)
  OBVIOUS
<1>2. m \in S /\ \A y \in S : m >= y
  BY <1>1 DEF Sets!Max
<1> QED
  BY <1>1, <1>2

\* What a form says in the words of the property
LEMMA FormShows ==
  ASSUME NEW form, NEW q \in Seq(Times), FormHolds(form, q)
  PROVE  /\ form.count = Len(q) /\ form.sum = Total(q)
         /\ q # <<>> => /\ form.last = q[Len(q)] /\ form.min = Sets!Min(Elements(q))
                        /\ form.max = Sets!Max({0} \cup Elements(Tail(q)))
         /\ Len(q) >= RunWindow =>
               form.filter.mean.time = Total(SubSeq(q, Len(q) - RunWindow + 1, Len(q)))
<1>1. PICK n \in Nat : n = Len(q)
  OBVIOUS
<1>2. \A i \in 1 .. n : q[i] \in Nat
  <2>1. \A i \in 1 .. n : q[i] \in Times
    BY <1>1
  <2> QED
    BY <2>1, TimesAreNats
<1>3. form.count = Len(q) /\ form.sum = Total(q)
  BY DEF FormHolds, Total
<1>4. ASSUME q # <<>>
      PROVE  form.last = q[Len(q)] /\ form.min = Sets!Min(Elements(q))
  <2>1. PICK S : S = Elements(q)
    OBVIOUS
  <2>2. \A y : y \in S <=> \E i \in 1 .. n : y = q[i]
    BY <1>1, <2>1 DEF Elements
  <2>3. S \in SUBSET Int
    BY <1>2, <2>2
  <2>4. form.last = q[Len(q)] /\ (\E i \in 1 .. n : form.min = q[i]) /\ \A i \in 1 .. n : form.min <= q[i]
    BY <1>1, <1>4 DEF FormHolds
  <2>5. PICK m \in S : m = form.min
    BY <2>2, <2>4
  <2>6. \A y \in S : m <= y
    BY <2>2, <2>4, <2>5
  <2>7. Sets!Min(S) = m
    BY <2>3, <2>6, LeastIsMin
  <2> QED
    BY <2>1, <2>4, <2>5, <2>7
<1>5. ASSUME q # <<>>
      PROVE  form.max = Sets!Max({0} \cup Elements(Tail(q)))
  <2>1. PICK S : S = {0} \cup Elements(Tail(q))
    OBVIOUS
  <2>2. PICK t \in Seq(Times) : t = Tail(q)
    BY <1>5, TailFacts
  <2>3. Len(t) = n - 1 /\ (\A i \in 1 .. n - 1 : t[i] = q[i + 1])
    BY <1>1, <1>5, <2>2
  <2>4. \A y : y \in S <=> y = 0 \/ \E i \in 2 .. n : y = q[i]
    <3>1. \A y : y \in S <=> y = 0 \/ \E i \in 1 .. n - 1 : y = q[i + 1]
      BY <2>1, <2>2, <2>3 DEF Elements
    <3>2. \A i \in 1 .. n - 1 : i + 1 \in 2 .. n
      OBVIOUS
    <3>3. \A i \in 2 .. n : i - 1 \in 1 .. n - 1 /\ (i - 1) + 1 = i
      OBVIOUS
    <3>4. \A y : (\E i \in 1 .. n - 1 : y = q[i + 1]) <=> \E i \in 2 .. n : y = q[i]
      BY <3>2, <3>3
    <3> QED
      BY <3>1, <3>4
  <2>5. S \in SUBSET Int
    <3>1. \A i \in 2 .. n : i \in 1 .. n
      OBVIOUS
    <3> QED
      BY <1>2, <2>4, <3>1
  <2>6. /\ form.max = 0 \/ \E i \in 2 .. n : form.max = q[i]
        /\ form.max >= 0 /\ \A i \in 2 .. n : form.max >= q[i]
    BY <1>1, <1>5 DEF FormHolds
  <2>7. PICK m \in S : m = form.max
    BY <2>4, <2>6
  <2>8. \A y \in S : m >= y
    BY <2>4, <2>6, <2>7
  <2>9. Sets!Max(S) = m
    BY <2>5, <2>8, GreatestIsMax
  <2> QED
    BY <2>1, <2>7, <2>9
<1>6. ASSUME n >= RunWindow
      PROVE  form.filter.mean.time = Total(SubSeq(q, n - RunWindow + 1, n))
  <2>1. PICK W \in Nat \ {0, 1} : W = RunWindow
    BY EvaluatorAssumption
  <2>2. PICK m : m = form.filter.mean
    OBVIOUS
  <2>3. PICK x : x = Stamps(q)
    OBVIOUS
  <2>4. \A i \in 1 .. n : x[i]["time"] = q[i] /\ x[i]["time"] # NaN
    <3>1. \A i \in 1 .. n : x[i] = [time |-> q[i]]
      BY <1>1, <2>3 DEF Stamps
    <3>2. \A v : [time |-> v]["time"] = v
      OBVIOUS
    <3>3. \A i \in 1 .. n : q[i] # NaN
      BY <1>2, NaNAssumption
    <3>4. ASSUME NEW i \in 1 .. n
          PROVE  x[i]["time"] = q[i]
      <4>1. PICK v : v = q[i]
        OBVIOUS
      <4>2. x[i] = [time |-> v]
        BY <3>1, <4>1
      <4>3. x[i]["time"] = [time |-> v]["time"]
        BY <4>2, Zenon
      <4>4. [time |-> v]["time"] = v
        BY <3>2
      <4> QED
        BY <4>1, <4>3, <4>4
    <3> QED
      BY <3>3, <3>4
  <2>5. Holds(form.filter, W, x, n, {"time"})
    <3>1. (IF n < W THEN n ELSE W) = W
      BY <1>6, <2>1
    <3> QED
      BY <1>1, <2>1, <2>3, <3>1 DEF FormHolds, Window
  <2>6. PICK f : f = [k \in 1 .. W |-> x[n - W + k]["time"]]
    OBVIOUS
  <2>7. m["time"] = TotalUpTo(f, W)
    BY <2>2, <2>4, <2>5, <2>6 DEF Holds
  <2>8. PICK s : s = SubSeq(q, n - W + 1, n)
    OBVIOUS
  <2>9. Len(s) = W /\ \A k \in 1 .. W : s[k] = q[n - W + k]
    <3>1. n - W + 1 \in 1 .. n + 1 /\ n \in 0 .. n
      BY <1>6, <2>1
    <3> QED
      BY <1>1, <1>6, <2>1, <2>8, <3>1
  <2>10. ASSUME NEW k \in 1 .. W
         PROVE  f[k] = s[k]
    <3>1. n - W + k \in 1 .. n
      BY <1>6, <2>1
    <3> QED
      BY <2>4, <2>6, <2>9, <3>1
  <2>11. TotalUpTo(f, W) = TotalUpTo(s, W)
    BY <2>10, TotalOfSame
  <2> QED
    BY <2>1, <2>2, <2>7, <2>8, <2>9, <2>11 DEF Total
<1> QED
  BY <1>1, <1>3, <1>4, <1>5, <1>6

LEMMA EvalInvShows == EvalInv => TaskTimeIsOutside
<1> SUFFICES ASSUME EvalInv
             PROVE  TaskTimeIsOutside
  OBVIOUS
<1>1. ~eval.thrown
  BY DEF EvalInv, ClockTypes
<1>2. ASSUME NEW t \in DOMAIN eval.forms
      PROVE  /\ t \in Tasks /\ measured[t] \in Seq(Times)
             /\ TaskHolds(eval.forms[t], measured[t], spent[t], Pending)
  BY <1>2 DEF EvalInv, ClockTypes, TasksHold
<1>3. RunningTimes
  BY <1>2 DEF RunningTimes, TaskHolds, Pending
<1>4. FormsAreMeasured
  <2> SUFFICES ASSUME NEW t \in DOMAIN eval.forms
               PROVE  LET form == eval.forms[t] q == measured[t] IN
                      /\ form.count = Len(q) /\ form.sum = Total(q)
                      /\ ~form.active => q # <<>>
                      /\ q # <<>> => /\ form.last = q[Len(q)] /\ form.min = Sets!Min(Elements(q))
                                     /\ form.max = Sets!Max({0} \cup Elements(Tail(q)))
                      /\ Len(q) >= RunWindow =>
                            form.filter.mean.time = Total(SubSeq(q, Len(q) - RunWindow + 1, Len(q)))
    BY DEF FormsAreMeasured
  <2>1. PICK q \in Seq(Times) : q = measured[t]
    BY <1>2
  <2>2. PICK f : f = eval.forms[t]
    OBVIOUS
  <2>3. FormHolds(f, q) /\ (~f.active => q # <<>>)
    BY <1>2, <2>1, <2>2 DEF TaskHolds
  <2> QED
    BY <2>1, <2>2, <2>3, FormShows
<1>5. HistogramIsMeasured
  <2>1. \A b \in DOMAIN eval.histogram :
          eval.histogram[b] = Cardinality({k \in DOMAIN measured["total"] :
                                             Bucket(measured["total"][k]) = b})
    BY DEF EvalInv, HistogramHolds, Hits
  <2> QED
    BY <2>1 DEF EvalInv, BarsFit, HistogramIsMeasured
<1> QED
  BY <1>1, <1>3, <1>4, <1>5 DEF TaskTimeIsOutside

-----------------------------------------------------------------------------
(******************************** theorems *********************************)

\* Whatever the two buffers lose between the driver and the accumulator, the
\* spans that were integrated follow on one another, up to last_imu_timestamp_.
THEOREM EveryMomentOnceAlways == SensorsSpec => []EveryMomentOnce
<1> QED
  BY AccInvAlways, AccInvImplies, PTL

\* When acc_transform is done with a cloud, the buffer only holds messages that
\* are younger, and what it integrated is younger by less than a millisecond.
THEOREM TakesWhatWasBeforeAlways == SensorsSpec => TakesWhatWasBefore
<1>1. AccInv /\ [SensorsNext]_allVars =>
          [EndAccumulate => /\ \A m \in Elements(imuBridgeBuffer) : m > cloud
                            /\ \A s \in Elements(spans) : s[2] < cloud + TicksPerMs]_pathVars
  BY EndTakesWhatWasBefore
<1> QED
  BY <1>1, AccInvAlways, PTL DEF SensorsSpec, TakesWhatWasBefore

\* The driver and the evaluator do nothing about which the path does not know.
LEMMA SensorsStepsOK ==
  /\ AccInv /\ DriverInv /\ [SensorsNext]_allVars => DriverInv'
  /\ AccInv /\ EvalInv /\ [SensorsNext]_allVars => EvalInv'
<1>1. AccInv => now \in Times
  BY DEF AccInv, PathTypes
<1> QED
  BY <1>1, DriverStepOK, EvalStepOK

\* Over all sessions, a message of the driver is the mean of the last filterSize_
\* measurements, and only its own magnetic field is spoiled by one the device did
\* not know.
THEOREM FilteredIsMeanAlways == SensorsSpec => []FilteredIsMean
<1>1. SensorsInit => DriverInv
  BY DriverInitOK
<1>2. AccInv /\ DriverInv /\ [SensorsNext]_allVars => DriverInv'
  BY SensorsStepsOK
<1>3. DriverInv => FilteredIsMean
  BY MeansAreFiltered
<1> QED
  BY <1>1, <1>2, <1>3, AccInvAlways, PTL DEF SensorsSpec

\* Whatever the callback does with its clouds and however long each call of the
\* evaluator takes, the times of its tasks are those outside of these calls; the
\* counts, sums, extremes, averages and the histogram are theirs; no start or stop
\* is out of turn.
THEOREM TaskTimeIsOutsideAlways == SensorsSpec => []TaskTimeIsOutside
<1>1. SensorsInit => EvalInv
  BY EvalInitOK
<1>2. AccInv /\ EvalInv /\ [SensorsNext]_allVars => EvalInv'
  BY SensorsStepsOK
<1>3. EvalInv => TaskTimeIsOutside
  BY EvalInvShows
<1> QED
  BY <1>1, <1>2, <1>3, AccInvAlways, PTL DEF SensorsSpec
=============================================================================
