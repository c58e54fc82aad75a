------------------------------- MODULE Sensors -------------------------------
(***************************************************************************)
(* The driver of the IMU in front of the accumulator, and the clock the    *)
(* callback measures itself with.  The driver is started, calibrated and   *)
(* stopped once when the application starts, and started again for every   *)
(* session; libphidget calls data_handler from a thread of its own, which  *)
(* nothing stops.  Driver, filter, accumulator and evaluator live as long  *)
(* as the application.                                                     *)
(***************************************************************************)
EXTENDS ImuAccumulator, RuntimeEvaluator, FiniteSets

CONSTANTS
    Readings,       \* Readings[t]: what the device measures at time t
    FilterSize,     \* imu.filterSize
    MaxClouds,      \* bound: the clouds that are taken out of the buffer
    ReportEvery     \* the 20 clouds between two reports

ASSUME SensorsAssumption ==
    /\ {FilterSize, ReportEvery, MaxClouds} \subseteq Nat \ {0}
    /\ \A t \in 0 .. MaxTime :
          /\ {Readings[t].acceleration, Readings[t].angularRate} \subseteq Int
          /\ Readings[t].magneticField \in Int \cup {Unknown}
    /\ MaxTime <= Largest

VARIABLES
    device,         \* "closed", "attached", or "missing": the program ended
    isCalibrated, driverRunning,    \* is_calibrated_ and running of the driver
    filter,         \* filter_
    data,           \* history: the messages that were pushed, as <<stamp, message>>
    step,           \* of the callback: what it does with its cloud
    busy,           \* the evaluator is between pause() and resume()
    eval, cnt,
    report,         \* what to_string() returns, until it resumes
    spent,          \* history: the time in each running task outside of the evaluator
    measured        \* history: all the times of each task

driverVars == <<device, isCalibrated, driverRunning, filter, data>>
evalVars   == <<step, busy, eval, cnt, report, spent, measured>>
allVars    == <<pathVars, driverVars, evalVars>>

Tasks == {"total", "reg"}
NoReport == [lines |-> <<>>, bars |-> <<>>]
ZeroMsg == [acc |-> 0, ang |-> 0, mag |-> 0]

SensorsInit ==
    /\ AccInit
    /\ device = "closed" /\ isCalibrated = FALSE /\ driverRunning = FALSE
    /\ filter = EmptyFilter(ZeroMsg) /\ data = <<>>
    /\ step = "pop" /\ busy = FALSE /\ eval = NewEvaluator(0) /\ cnt = 0 /\ report = NoReport
    /\ spent = [t \in Tasks |-> 0] /\ measured = [t \in Tasks |-> <<>>]

-----------------------------------------------------------------------------
(******************************** the driver *******************************)

\* start() of the driver: it runs before it is initialised.  The device does not
\* attach within ten seconds, or attach_handler sets its rate.
OpenDevice(found) ==
    /\ device = "closed"
    /\ driverRunning' = TRUE
    /\ device' = IF found THEN "attached" ELSE "missing"
    /\ UNCHANGED <<pathVars, isCalibrated, filter, data, evalVars>>

\* Two seconds later; until then data_handler drops what the device reports.
Calibrate ==
    /\ device = "attached" /\ ~isCalibrated
    /\ isCalibrated' = TRUE
    /\ UNCHANGED <<pathVars, device, driverRunning, filter, data, evalVars>>

\* stop() after the calibration.
StopCalibrated ==
    /\ isCalibrated /\ driverRunning /\ phase = "off"
    /\ driverRunning' = FALSE
    /\ UNCHANGED <<pathVars, device, isCalibrated, filter, data, evalVars>>

Handle ==
    LET m == Converted(Readings[now]) IN
    /\ filter' = Updated(filter, FilterSize, m)
    /\ data' = Append(data, <<now, Filtered(filter, FilterSize, m)>>)

\* data_handler of a running session, and between calibration and stop().
DataHandler ==
    /\ isCalibrated /\ driverRunning
    /\ ImuMessage /\ Handle
    /\ UNCHANGED <<device, isCalibrated, driverRunning, evalVars>>

DataAfterCalibration ==
    /\ isCalibrated /\ driverRunning
    /\ phase = "off" /\ stamped < now
    /\ stamped' = now
    /\ imuBuffer' = DropOldest(imuBuffer, BufferSize, now)
    /\ Handle
    /\ UNCHANGED <<now, phase, handed, imuBridgeBuffer, clouds, cbVars, accVars,
                   device, isCalibrated, driverRunning, evalVars>>

SessionStarts ==
    /\ isCalibrated /\ ~driverRunning
    /\ StartSession
    /\ driverRunning' = TRUE /\ cnt' = 0
    /\ UNCHANGED <<device, isCalibrated, filter, data, step, busy, eval, report, spent, measured>>

\* The callback is joined after it has finished the turn of its loop.
SessionStops ==
    /\ step = "pop" /\ ~busy
    /\ StopSession
    /\ driverRunning' = FALSE
    /\ UNCHANGED <<device, isCalibrated, filter, data, evalVars>>

-----------------------------------------------------------------------------
(******************************* the callback ******************************)

Begin(e) == eval' = e /\ busy' = TRUE

ResumeAll ==
    /\ busy /\ busy' = FALSE
    /\ eval' = Resume(eval, now) /\ report' = NoReport
    /\ UNCHANGED <<pathVars, driverVars, step, cnt, spent, measured>>

StartTask(task) ==
    /\ Begin(Start(eval, task, now))
    /\ UNCHANGED <<cnt, report, spent, measured>>

StopTask(task) ==
    /\ Begin(Stop(eval, task, now))
    /\ measured' = [measured EXCEPT ![task] = Append(@, spent[task])]
    /\ spent' = [spent EXCEPT ![task] = 0]
    /\ UNCHANGED report

PopStartsTotal ==
    /\ step = "pop" /\ ~busy /\ Len(measured["total"]) < MaxClouds
    /\ CallbackPop
    /\ step' = IF firstIteration THEN "done" ELSE "register"
    /\ StartTask("total")
    /\ UNCHANGED driverVars

StartReg ==
    /\ step = "register" /\ ~busy
    /\ step' = "accumulate" /\ StartTask("reg")
    /\ UNCHANGED <<pathVars, driverVars>>

RegisterAccumulates ==
    /\ step = "accumulate" /\ ~busy
    /\ Accumulate
    /\ UNCHANGED <<driverVars, evalVars>>

StopReg ==
    /\ step = "accumulate" /\ ~busy
    /\ EndAccumulate
    /\ step' = "done" /\ StopTask("reg")
    /\ UNCHANGED <<driverVars, cnt>>

\* Every 20th cloud is followed by a report.
StopTotal ==
    /\ step = "done" /\ ~busy
    /\ StopTask("total")
    /\ IF cnt = ReportEvery THEN step' = "report" /\ cnt' = 0
                            ELSE step' = "pop" /\ cnt' = cnt + 1
    /\ UNCHANGED <<pathVars, driverVars>>

LogReport ==
    /\ step = "report" /\ ~busy
    /\ Begin(Pause(eval, now))
    /\ report' = Report(eval)
    /\ step' = "pop" /\ cnt' = cnt + 1
    /\ UNCHANGED <<pathVars, driverVars, spent, measured>>

-----------------------------------------------------------------------------

\* history: a tick counts for every running task, unless the evaluator takes it.
\* The clock is first looked at when the device is calibrated.
TickCounts ==
    /\ isCalibrated /\ Tick
    /\ spent' = [t \in Tasks |-> IF IsActive(eval, t) /\ ~busy THEN spent[t] + 1 ELSE spent[t]]
    /\ UNCHANGED <<driverVars, step, busy, eval, cnt, report, measured>>

\* The actions of the accumulator that nothing here takes part in.
Others ==
    /\ CallbackStarts \/ BridgePop \/ BridgePush \/ CloudMessage
    /\ UNCHANGED <<driverVars, evalVars>>

SensorsNext ==
    \/ \E found \in BOOLEAN : OpenDevice(found)
    \/ Calibrate \/ StopCalibrated \/ DataHandler \/ DataAfterCalibration
    \/ SessionStarts \/ SessionStops
    \/ PopStartsTotal \/ StartReg \/ RegisterAccumulates \/ StopReg \/ StopTotal \/ LogReport
    \/ ResumeAll \/ TickCounts \/ Others

SensorsSpec == SensorsInit /\ [][SensorsNext]_allVars

-----------------------------------------------------------------------------
(******************************* properties ********************************)

Sets == INSTANCE FiniteSetsExt

\* The sum of the first N numbers, and of all numbers of a sequence
TotalUpTo(f, N) ==
    LET upTo[n \in 0 .. N] == IF n = 0 THEN 0 ELSE upTo[n - 1] + f[n]
    IN  upTo[N]
Total(q) == TotalUpTo(q, Len(q))

\* What the filter was given with the messages d, and whether m is what it makes of
\* the first n of these
Handled(d) == [i \in DOMAIN d |-> Converted(Readings[d[i][1]])]
IsMeanOf(x, n, m) ==
    LET full == n > FilterSize /\ FilterSize >= 2
        Mean(c) == IF full THEN TotalUpTo([k \in 1 .. FilterSize |-> x[n - FilterSize + k][c]], FilterSize)
                           ELSE x[n][c] * FilterSize
    IN  /\ m.acc = Mean("acc") /\ m.ang = Mean("ang")
        /\ (m.mag = NaN) <=> \E j \in (IF full THEN 1 ELSE n) .. n : x[j].mag = NaN
        /\ m.mag # NaN => m.mag = Mean("mag")

\* While the window fills, a message is what the device measured; after that it is
\* the mean of the last measurements, over the pauses between the sessions too.
\* A magnetic field the device did not know spoils all later ones, and neither of
\* the others.
FilteredIsMean ==
    data # <<>> /\ stamped = now => IsMeanOf(Handled(data), Len(data), data[Len(data)][2])

\* A task's time is what passed between its start and its stop while the
\* evaluator did not work itself, whatever tasks started and stopped inside it
\* and however long each call of the evaluator took ...
RunningTimes ==
    \A t \in DOMAIN eval.forms :
        eval.forms[t].active =>
            spent[t] = eval.forms[t].accumulate + (IF busy THEN 0 ELSE now - eval.start)

\* ... count, sum, extremes and running average are those of these times ...
FormsAreMeasured ==
    \A t \in DOMAIN eval.forms :
        LET form == eval.forms[t] q == measured[t] IN
        /\ form.count = Len(q) /\ form.sum = Total(q)
        /\ ~form.active => q # <<>>
        /\ q # <<>> => /\ form.last = q[Len(q)] /\ form.min = Sets!Min(Elements(q))
                       /\ form.max = Sets!Max({0} \cup Elements(Tail(q)))
        /\ Len(q) >= RunWindow =>
              form.filter.mean.time = Total(SubSeq(q, Len(q) - RunWindow + 1, Len(q)))

\* ... and so is the histogram, whose bars fit into a line.
HistogramIsMeasured ==
    /\ \A b \in DOMAIN eval.histogram :
          eval.histogram[b] = Cardinality({k \in DOMAIN measured["total"] :
                                             Bucket(measured["total"][k]) = b})
    /\ \A b \in DOMAIN report.bars : report.bars[b] <= LineLength

\* What the evaluator shows of the tasks of the callback is how long they took, and
\* no start or stop is out of turn.  What was measured changes while it is busy.
TaskTimeIsOutside ==
    /\ ~eval.thrown
    /\ RunningTimes
    /\ busy => FormsAreMeasured /\ HistogramIsMeasured
=============================================================================
