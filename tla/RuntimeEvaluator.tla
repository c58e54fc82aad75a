--------------------------- MODULE RuntimeEvaluator ---------------------------
(***************************************************************************)
(* util::RuntimeEvaluator, the singleton that measures how long the tasks  *)
(* of CloudCallback take.  Each of its operations pauses all measurements  *)
(* when it begins and resumes them when it ends, so that the time it takes *)
(* itself is not counted: the operators below are what happens before the  *)
(* call of resume(), which is Resume.                                      *)
(***************************************************************************)
EXTENDS SlidingWindow

CONSTANTS
    RunWindow,      \* the 100 measurements of the running average
    Buckets,        \* 10
    BucketSize,     \* HIST_BUCKET_SIZE
    LineLength,     \* of the histogram's bars
    Largest         \* of unsigned long long

\* A running average is one of several measurements.
ASSUME EvaluatorAssumption ==
    /\ {Buckets, BucketSize} \subseteq Nat \ {0} /\ {LineLength, Largest} \subseteq Nat
    /\ RunWindow \in Nat \ {0, 1}

NewForm ==
    [active |-> FALSE, accumulate |-> 0, count |-> 0, last |-> 0, sum |-> 0,
     min |-> Largest, max |-> 0, filter |-> EmptyFilter([time |-> 0])]

NewEvaluator(now) ==
    [start |-> now, forms |-> <<>>, histogram |-> [b \in 0 .. Buckets - 1 |-> 0], thrown |-> FALSE]

Pause(e, now) ==
    [e EXCEPT !.forms =
        [t \in DOMAIN e.forms |->
            [e.forms[t] EXCEPT !.accumulate = IF e.forms[t].active THEN @ + (now - e.start) ELSE @]]]

\* The time between pause() and resume() counts as if it had been the task's.
ResumeKeeps(e, now) == e
Resume(e, now) == [e EXCEPT !.start = now]

IsActive(e, task) == task \in DOMAIN e.forms /\ e.forms[task].active
Form(e, task) == IF task \in DOMAIN e.forms THEN e.forms[task] ELSE NewForm

\* A task that is started twice, or stopped without a start, ends in an exception.
Start(e, task, now) ==
    LET paused == Pause(e, now)
    IN  IF IsActive(e, task) THEN [paused EXCEPT !.thrown = TRUE]
        ELSE [paused EXCEPT !.forms =
                 [t \in DOMAIN @ \cup {task} |->
                     IF t = task THEN [Form(paused, t) EXCEPT !.active = TRUE, !.accumulate = 0] ELSE @[t]]]

Bucket(time) == IF time \div BucketSize < Buckets THEN time \div BucketSize ELSE Buckets - 1

\* The maximum ignores the first measurement.
Entered(form) ==
    LET time == form.accumulate IN
    [form EXCEPT !.active = FALSE, !.count = @ + 1, !.last = time, !.sum = @ + time,
                 !.filter = Updated(@, RunWindow, [time |-> time]),
                 !.min = IF time < @ THEN time ELSE @,
                 !.max = IF time > @ /\ form.count # 0 THEN time ELSE @]

\* The histogram is one of the times of the total.
Tallied(histogram, task, time) ==
    IF task # "total" THEN histogram ELSE [histogram EXCEPT ![Bucket(time)] = @ + 1]

Stop(e, task, now) ==
    LET paused == Pause(e, now)
    IN  IF ~IsActive(e, task) THEN [paused EXCEPT !.thrown = TRUE]
        ELSE [paused EXCEPT !.forms[task] = Entered(@),
                            !.histogram = Tallied(@, task, paused.forms[task].accumulate)]

\* to_string(): the lines of the tasks that are not running, and the histogram.
CeilDiv(a, b) == (a + b - 1) \div b
Report(e) ==
    [lines |-> [t \in {u \in DOMAIN e.forms : ~e.forms[u].active} |->
                   LET form == e.forms[t] IN
                   [count |-> form.count, last |-> form.last, min |-> form.min, max |-> form.max,
                    avg |-> form.sum \div form.count,
                    runAvg |-> form.filter.mean.time \div RunWindow]],
     bars  |-> IF "total" \notin DOMAIN e.forms THEN <<>>
               ELSE [b \in DOMAIN e.histogram |->
                        CeilDiv(e.histogram[b] * LineLength, e.forms["total"].count)]]
=============================================================================
