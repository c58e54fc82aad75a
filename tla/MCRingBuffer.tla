---------------------------- MODULE MCRingBuffer ----------------------------
(***************************************************************************)
(* Programs of three threads for RingBuffer.                               *)
(***************************************************************************)
EXTENDS RingBuffer, TLC

CONSTANTS t1, t2, t3, a, b

\* Everything the class offers, as test/concurrent_ringbuffer.cpp uses it.
AllOps ==
    t1 :> Pushes @@ t2 :> Takes \cup Looks @@ t3 :> {"clear", "push", "pop_nb", "peek"}

\* Queues between the threads of the application: the producer blocks (QueueBridge
\* without force) or pushes with force (the drivers), every consumer that wakes
\* takes an element, and the main thread clears.
Bridge == t1 :> {"push", "push_nb_force"} @@ t2 :> {"pop", "pop_nb"} @@ t3 :> {"pop", "clear"}
=============================================================================
