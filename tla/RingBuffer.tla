----------------------------- MODULE RingBuffer -----------------------------
(***************************************************************************)
(* util::ConcurrentRingBuffer: an array used as a ring, one mutex and two  *)
(* condition variables.  Every call holds mutex_ from its first to its     *)
(* last line except while it waits on a condition variable, so a call is   *)
(* one step, or one step up to the wait and one for every time it gets the *)
(* mutex back.                                                             *)
(***************************************************************************)
EXTENDS Integers, FiniteSets

CONSTANTS
    Threads,    \* the callers
    Values,     \* the elements
    NoValue,    \* T(), what clear() fills the array with
    Capacity,   \* buffer_.size()
    Program     \* Program[t]: the operations t calls

Pushes    == {"push_nb", "push_nb_force", "push"}
Takes     == {"pop_nb", "pop", "pop_nb_if", "pop_if"}
Choices   == {"pop_nb_if", "pop_if"}
Looks     == {"peek_nb", "peek"}
Timed     == {"pop_nb", "pop_nb_if", "peek_nb"}   \* timeout_ms may be 0
Ops       == Pushes \cup Takes \cup Looks \cup {"clear"}

ASSUME ThreadsAssumption == IsFiniteSet(Threads)
ASSUME CapacityAssumption == Capacity \in Nat \ {0}
ASSUME ValuesAssumption == Values # {} /\ NoValue \notin Values
ASSUME ProgramAssumption == Program \in [Threads -> SUBSET Ops]

VARIABLES
    buffer, size, pushIdx, popIdx,  \* the members of the same names
    where,      \* where[t]: "out" of the buffer, waiting on cv"Empty" or
                \* cv"Full", or waiting for the mutex again, either "woken"
                \* or after its timeout has "expired"
    call,       \* call[t]: the call t is waiting in
    ret         \* ret[t]: what t's last call returned

ring == <<buffer, size, pushIdx, popIdx>>
vars == <<buffer, size, pushIdx, popIdx, where, call, ret>>

Slots  == 0 .. Capacity - 1
\* The element to push; for a conditional pop, the one element func accepts.
Args(op) == IF op \in Pushes \cup Choices THEN Values ELSE {NoValue}
NoCall   == [op |-> "none", arg |-> NoValue]
Calls    == {NoCall} \cup [op : Ops, arg : Values \cup {NoValue}]

Init ==
    /\ buffer = [i \in Slots |-> NoValue]
    /\ size = 0 /\ pushIdx = 0 /\ popIdx = 0
    /\ where = [t \in Threads |-> "out"]
    /\ call = [t \in Threads |-> NoCall]
    /\ ret = [t \in Threads |-> "false"]

-----------------------------------------------------------------------------
(***************************** the ring itself *****************************)

Wrap(i) == IF i + 1 = Capacity THEN 0 ELSE i + 1

\* doPush
DoPush(v) ==
    /\ buffer' = [buffer EXCEPT ![pushIdx] = v]
    /\ pushIdx' = Wrap(pushIdx)
    /\ size' = size + 1
    /\ UNCHANGED popIdx

\* doPop: the slot keeps its stale element.
DoPop ==
    /\ popIdx' = Wrap(popIdx)
    /\ size' = size - 1
    /\ UNCHANGED <<buffer, pushIdx>>

DoPopPushDropsNewest(v) ==
    /\ buffer' = [buffer EXCEPT ![pushIdx] = v]
    /\ UNCHANGED <<pushIdx, popIdx, size>>
\* doPop(nullptr) followed by doPush(v)
DoPopPush(v) ==
    /\ buffer' = [buffer EXCEPT ![pushIdx] = v]
    /\ pushIdx' = Wrap(pushIdx)
    /\ popIdx' = Wrap(popIdx)
    /\ UNCHANGED size

(**************************** mutex and waiting ****************************)

Waiting(cv) == {t \in Threads : where[t] = cv}

\* t holds the mutex, in its first critical section or after a wait.
Holds(t, op, arg) ==
    \/ where[t] = "out" /\ op \in Program[t] /\ arg \in Args(op)
    \/ where[t] \in {"woken", "expired"} /\ call[t] = [op |-> op, arg |-> arg]

Wait(t, cv, op, arg) ==
    /\ where' = [where EXCEPT ![t] = cv]
    /\ call' = [call EXCEPT ![t] = [op |-> op, arg |-> arg]]
    /\ UNCHANGED <<ring, ret>>

\* The call returns r and moves the threads of `wake` off their condition
\* variable.
Return(t, r, wake) ==
    /\ where' = [u \in Threads |-> IF u = t THEN "out"
                                   ELSE IF u \in wake THEN "woken" ELSE where[u]]
    /\ call' = [call EXCEPT ![t] = NoCall]
    /\ ret' = [ret EXCEPT ![t] = r]

NotifiesNone(t, r, cv) == Return(t, r, {})
\* notify_one: the library picks the thread.
NotifyOne(t, r, cv) ==
    IF Waiting(cv) = {} THEN Return(t, r, {})
                        ELSE \E u \in Waiting(cv) : Return(t, r, {u})

-----------------------------------------------------------------------------
(******************************* operations ********************************)

\* push_nb, and push once there is room
PushStore(t, op, v) ==
    /\ Holds(t, op, v)
    /\ op \in Pushes
    /\ size < Capacity
    /\ DoPush(v)
    /\ NotifyOne(t, "true", "Empty")

\* push_nb(val, false) on a full buffer
PushRefuse(t, v) ==
    /\ Holds(t, "push_nb", v)
    /\ size = Capacity
    /\ UNCHANGED ring
    /\ Return(t, "false", {})

\* push_nb(val, true) on a full buffer
PushForce(t, v) ==
    /\ Holds(t, "push_nb_force", v)
    /\ size = Capacity
    /\ DoPopPush(v)
    /\ NotifyOne(t, "true", "Empty")

\* push on a full buffer
PushWait(t, v) ==
    /\ Holds(t, "push", v)
    /\ size = Capacity
    /\ Wait(t, "Full", "push", v)

\* pop, pop_nb, pop_if and pop_nb_if on a buffer that holds an element
PopTake(t, op, arg) ==
    /\ Holds(t, op, arg)
    /\ op \in Takes
    /\ size # 0
    /\ op \in Choices => buffer[popIdx] = arg
    /\ DoPop
    /\ NotifyOne(t, buffer[popIdx], "Full")

\* "das ist kriminell": the notification that woke the call is used up
PopDecline(t, op, arg) ==
    /\ Holds(t, op, arg)
    /\ op \in Choices
    /\ size # 0
    /\ buffer[popIdx] # arg
    /\ UNCHANGED ring
    /\ Return(t, "false", {})

\* peek, peek_nb
Peek(t, op, arg) ==
    /\ Holds(t, op, arg)
    /\ op \in Looks
    /\ size # 0
    /\ UNCHANGED ring
    /\ Return(t, buffer[popIdx], {})

\* The _nb calls give up on an empty buffer: at once when timeout_ms is 0, and
\* when the timeout has passed if there is still nothing.
GiveUp(t, op, arg) ==
    /\ Holds(t, op, arg)
    /\ op \in Timed
    /\ size = 0
    /\ where[t] \in {"out", "expired"}
    /\ UNCHANGED ring
    /\ Return(t, "false", {})

\* Every call that wants an element waits for one; a woken call that finds the
\* buffer empty again goes back to waiting.
EmptyWait(t, op, arg) ==
    /\ Holds(t, op, arg)
    /\ op \in Takes \cup Looks
    /\ size = 0
    /\ where[t] # "expired"
    /\ Wait(t, "Empty", op, arg)

ClearKeepsPopIdx ==
    /\ buffer' = [i \in Slots |-> NoValue]
    /\ size' = 0 /\ pushIdx' = 0 /\ UNCHANGED popIdx
\* the part of clear that resets the ring
ClearRing ==
    /\ buffer' = [i \in Slots |-> NoValue]
    /\ size' = 0 /\ pushIdx' = 0 /\ popIdx' = 0

ClearWakesNobody(t) == Return(t, ret[t], {})
\* cvFull_.notify_all()
ClearNotify(t) == Return(t, ret[t], Waiting("Full"))

Clear(t) ==
    /\ where[t] = "out" /\ "clear" \in Program[t]
    /\ ClearRing
    /\ ClearNotify(t)

-----------------------------------------------------------------------------
(***************************** the environment *****************************)

Timeout(t) ==
    /\ where[t] = "Empty" /\ call[t].op \in Timed
    /\ where' = [where EXCEPT ![t] = "expired"]
    /\ UNCHANGED <<ring, call, ret>>

\* A condition variable may wake a thread nobody notified.
SpuriousWakeup(t) ==
    /\ where[t] \in {"Empty", "Full"}
    /\ where' = [where EXCEPT ![t] = "woken"]
    /\ UNCHANGED <<ring, call, ret>>

Step(t) ==
    \/ \E op \in Ops : \E arg \in Args(op) :
        \/ PushStore(t, op, arg)
        \/ PopTake(t, op, arg)
        \/ PopDecline(t, op, arg)
        \/ Peek(t, op, arg)
        \/ GiveUp(t, op, arg)
        \/ EmptyWait(t, op, arg)
    \/ \E v \in Values :
        \/ PushRefuse(t, v)
        \/ PushForce(t, v)
        \/ PushWait(t, v)
    \/ Clear(t)
    \/ Timeout(t)

Next == \E t \in Threads : Step(t) \/ SpuriousWakeup(t)

Spec == Init /\ [][Next]_vars

\* A thread that can run does: the scheduler is fair, a timeout passes, and
\* every thread calls its buffer in a loop, but for the main thread, which
\* clears it now and then.
Looping  == {t \in Threads : "clear" \notin Program[t]}
FairSpec == Spec /\ \A t \in Looping : WF_vars(Step(t))

-----------------------------------------------------------------------------
(******************************* properties ********************************)

\* Every variable keeps its type; in particular the indexes stay inside the
\* array and size_ (unsigned in the code) never passes zero or the capacity.
TypeOK ==
    /\ buffer \in [Slots -> Values \cup {NoValue}]
    /\ size \in 0 .. Capacity
    /\ pushIdx \in Slots /\ popIdx \in Slots
    /\ where \in [Threads -> {"out", "Empty", "Full", "woken", "expired"}]
    /\ call \in [Threads -> Calls]
    /\ ret \in [Threads -> Values \cup {NoValue, "true", "false"}]

\* The slot i elements after the oldest one.
Slot(i) == IF popIdx + i < Capacity THEN popIdx + i ELSE popIdx + i - Capacity

Contents == [i \in 1 .. size |-> buffer[Slot(i - 1)]]

\* The two indexes and the size describe one window of the array, and no slot
\* of the window is one that clear() blanked and no push has filled since: the
\* three counters are updated by doPush, doPop and clear independently.
RingInv ==
    /\ pushIdx = Slot(size)
    /\ \A i \in 1 .. size : Contents[i] \in Values

WokenFor(ops) == {t \in Threads : where[t] = "woken" /\ call[t].op \in ops}

\* While a push sleeps on cvFull_, at least as many pushes are on their way to
\* the mutex as there are free slots: no interleaving of pops, timeouts, thefts
\* by calls that never slept, forced pushes and clears loses a wake-up.
PushWakeups ==
    Waiting("Full") # {} => Capacity - size <= Cardinality(WokenFor(Pushes))

\* The same for pops that sleep on cvEmpty_ ...
PopWakeups ==
    Waiting("Empty") # {} => size <= Cardinality(WokenFor(Takes \cup Looks))

\* ... of which the header's "Blocks until an element is pushed." (pop) is the
\* weakest consequence: no pop sleeps for ever on a buffer that holds elements.
PopBlocksOnlyUntilPush ==
    \A t \in Threads :
        ~ <>[](where[t] = "Empty" /\ call[t].op = "pop" /\ size > 0)

\* The buffer is a bounded FIFO queue: elements come out once, in the order
\* they went in, and only a forced push loses one (the oldest).
Abstract == INSTANCE Fifo WITH
    q <- Contents,
    Choosy <- {t \in Threads : Program[t] \cap Choices # {}}
ImplementsFifo == Abstract!Spec
=============================================================================
