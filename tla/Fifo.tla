-------------------------------- MODULE Fifo --------------------------------
(***************************************************************************)
(* What a ConcurrentRingBuffer promises its users, whatever happens inside *)
(* it: a bounded first-in first-out queue whose operations take effect one *)
(* at a time.  `ret` is the result each thread got from its last call, so  *)
(* that an implementation has to hand out the right elements and not only  *)
(* to keep the right queue.  Calls that block are steps that have not been *)
(* taken yet.                                                              *)
(***************************************************************************)
EXTENDS Integers, Sequences

CONSTANTS
    Threads,    \* the callers
    Values,     \* the elements
    Capacity,   \* the most elements the queue holds
    Choosy      \* the threads that make conditional pops

VARIABLES
    q,          \* the elements, oldest first
    ret         \* ret[t]: what t's last call returned: an element, or
                \* "true" or "false"

vars == <<q, ret>>

Init == q = <<>> /\ ret = [t \in Threads |-> "false"]

Return(t, r) == ret' = [ret EXCEPT ![t] = r]

Put(t, v) ==
    /\ Len(q) < Capacity
    /\ q' = Append(q, v)
    /\ Return(t, "true")

\* The only way an element is lost, and it is the oldest one.
PutDroppingOldest(t, v) ==
    /\ Len(q) = Capacity
    /\ q' = Append(Tail(q), v)
    /\ Return(t, "true")

PutRefused(t) ==
    /\ Len(q) = Capacity
    /\ Return(t, "false")
    /\ UNCHANGED q

Take(t) ==
    /\ q # <<>>
    /\ q' = Tail(q)
    /\ Return(t, Head(q))

Look(t) ==
    /\ q # <<>>
    /\ Return(t, Head(q))
    /\ UNCHANGED q

\* A call that wants an element gives up only on an empty queue ...
TakeRefused(t) ==
    /\ q = <<>>
    /\ Return(t, "false")
    /\ UNCHANGED q

\* ... unless it is a conditional pop, which may decline the oldest element.
TakeDeclined(t) ==
    /\ t \in Choosy
    /\ q # <<>>
    /\ Return(t, "false")
    /\ UNCHANGED q

Clear == q' = <<>> /\ UNCHANGED ret

Next ==
    \/ Clear
    \/ \E t \in Threads :
        \/ \E v \in Values : Put(t, v) \/ PutDroppingOldest(t, v)
        \/ PutRefused(t)
        \/ Take(t)
        \/ Look(t)
        \/ TakeRefused(t)
        \/ TakeDeclined(t)

Spec == Init /\ [][Next]_vars

=============================================================================
