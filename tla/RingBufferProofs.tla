-------------------------- MODULE RingBufferProofs --------------------------
(***************************************************************************)
(* Proofs about RingBuffer for every set of threads, every capacity and    *)
(* every program: the ring stays well formed, it is a FIFO queue, and no   *)
(* notification of a push or a pop is lost.                                *)
(***************************************************************************)
EXTENDS RingBuffer, SequenceTheorems, FiniteSetTheorems, TLAPS

Results == Values \cup {NoValue, "true", "false"}

(***************************************************************************)
(* The part of TypeOK about the threads does not depend on the ring.  That *)
(* a thread waits in a call of its own program is what tells the queue who *)
(* may decline an element.                                                 *)
(***************************************************************************)
ThreadsOK ==
    /\ where \in [Threads -> {"out", "Empty", "Full", "woken", "expired"}]
    /\ call \in [Threads -> Calls]
    /\ ret \in [Threads -> Results]
    /\ \A t \in Threads : call[t] = NoCall \/ call[t].op \in Program[t]

RingOK ==
    /\ buffer \in [Slots -> Values \cup {NoValue}]
    /\ size \in 0 .. Capacity
    /\ pushIdx \in Slots /\ popIdx \in Slots
    /\ pushIdx = Slot(size)
    /\ \A i \in 1 .. size : buffer[Slot(i - 1)] \in Values

IInv == ThreadsOK /\ RingOK

\* The inductive invariant implies the two that the runs check.
LEMMA IInvSuffices == IInv => TypeOK /\ RingInv
<1>1. ASSUME size \in 0 .. Capacity
      PROVE  (\A i \in 1 .. size : buffer[Slot(i - 1)] \in Values)
               <=> (\A i \in 1 .. size : Contents[i] \in Values)
  BY DEF Contents
<1> QED
  BY <1>1 DEF IInv, ThreadsOK, RingOK, TypeOK, RingInv, Results

-----------------------------------------------------------------------------
(************************** returning and waiting **************************)

\* However notify_one chooses, the caller returns and some threads wake up.
LEMMA NotifyReturns ==
  ASSUME NEW t, NEW r, NEW cv, NotifyOne(t, r, cv)
  PROVE  \E wake : Return(t, r, wake)
BY DEF NotifyOne

LEMMA ReturnOK ==
  ASSUME ThreadsOK, NEW t \in Threads, NEW r \in Results, NEW wake,
         Return(t, r, wake)
  PROVE  ThreadsOK'
BY DEF ThreadsOK, Return, Calls, NoCall

LEMMA HoldsOwnCall ==
  ASSUME ThreadsOK, NEW t \in Threads, NEW op \in Ops, NEW arg, Holds(t, op, arg)
  PROVE  op \in Program[t]
BY DEF ThreadsOK, Holds, NoCall, Ops, Pushes, Takes, Looks

LEMMA WaitOK ==
  ASSUME ThreadsOK, NEW t \in Threads, NEW cv \in {"Empty", "Full"},
         NEW op \in Ops, NEW arg \in Args(op),
         Holds(t, op, arg), Wait(t, cv, op, arg)
  PROVE  ThreadsOK'
<1>1. [op |-> op, arg |-> arg] \in Calls
  BY DEF Calls, Args
<1> QED
  BY <1>1, HoldsOwnCall DEF ThreadsOK, Wait

LEMMA RingUnchanged ==
  ASSUME RingOK, UNCHANGED ring
  PROVE  RingOK'
BY DEF RingOK, ring, Slot

-----------------------------------------------------------------------------
(*************************** the ring operations ***************************)

LEMMA WrapInSlots ==
  ASSUME NEW i \in Slots
  PROVE  Wrap(i) \in Slots
BY CapacityAssumption DEF Wrap, Slots

LEMMA SlotInSlots ==
  ASSUME RingOK, NEW i \in 0 .. Capacity
  PROVE  Slot(i) \in Slots
BY CapacityAssumption DEF RingOK, Slot, Slots

\* Slots of the window are distinct, and none is the next one to be written.
LEMMA SlotsDiffer ==
  ASSUME RingOK, NEW i \in 0 .. Capacity - 1, NEW j \in 0 .. Capacity - 1, i # j
  PROVE  Slot(i) # Slot(j)
BY CapacityAssumption DEF RingOK, Slot, Slots

LEMMA DoPushOK ==
  ASSUME RingOK, NEW v \in Values, size < Capacity, DoPush(v)
  PROVE  RingOK'
<1>1. popIdx' = popIdx /\ size' = size + 1 /\ size' \in 0 .. Capacity
  BY CapacityAssumption DEF RingOK, DoPush
<1>2. \A i : Slot(i)' = Slot(i)
  BY <1>1 DEF Slot
<1>3. pushIdx' = Slot(size)' /\ pushIdx' \in Slots
  BY <1>1, CapacityAssumption DEF RingOK, DoPush, Wrap, Slot, Slots
<1>4. ASSUME NEW i \in 1 .. size' PROVE buffer'[Slot(i - 1)] \in Values
  <2>1. i - 1 \in 0 .. Capacity - 1 /\ size \in 0 .. Capacity - 1
    BY <1>1, CapacityAssumption DEF RingOK
  <2>2. buffer' = [buffer EXCEPT ![Slot(size)] = v] /\ Slot(size) \in Slots
    BY DEF DoPush, RingOK
  <2>3. CASE i = size + 1
    BY <2>2, <2>3, <1>1 DEF RingOK
  <2>4. CASE i # size + 1
    <3>1. i \in 1 .. size /\ i - 1 # size
      BY <2>4, <1>1 DEF RingOK
    <3>2. Slot(i - 1) # Slot(size)
      BY <3>1, <2>1, SlotsDiffer
    <3> QED
      BY <3>1, <3>2, <2>2, <2>1, SlotInSlots DEF RingOK
  <2> QED
    BY <2>3, <2>4
<1> QED
  BY <1>1, <1>2, <1>3, <1>4 DEF RingOK, DoPush

LEMMA DoPopOK ==
  ASSUME RingOK, size # 0, DoPop
  PROVE  RingOK'
<1>1. size' = size - 1 /\ size' \in 0 .. Capacity /\ popIdx' \in Slots
      /\ buffer' = buffer /\ pushIdx' = pushIdx
  BY WrapInSlots, CapacityAssumption DEF RingOK, DoPop
<1>2. \A i \in 0 .. Capacity - 1 : Slot(i)' = Slot(i + 1)
  BY CapacityAssumption DEF RingOK, DoPop, Wrap, Slot, Slots
<1>3. pushIdx' = Slot(size)'
  BY <1>1, CapacityAssumption DEF RingOK, DoPop, Wrap, Slot, Slots
<1>4. ASSUME NEW i \in 1 .. size' PROVE buffer[Slot(i - 1)'] \in Values
  <2>1. i \in 0 .. Capacity - 1 /\ i - 1 \in 0 .. Capacity - 1 /\ i + 1 \in 1 .. size
    BY <1>1, CapacityAssumption DEF RingOK
  <2>2. Slot(i - 1)' = Slot(i) /\ (i + 1) - 1 = i
    BY <2>1, <1>2
  <2>3. buffer[Slot((i + 1) - 1)] \in Values
    BY <2>1 DEF RingOK
  <2> QED
    BY <2>2, <2>3
<1> QED
  BY <1>1, <1>3, <1>4 DEF RingOK

LEMMA DoPopPushOK ==
  ASSUME RingOK, NEW v \in Values, size = Capacity, DoPopPush(v)
  PROVE  RingOK'
<1>1. size' = size /\ popIdx' \in Slots /\ pushIdx = popIdx /\ pushIdx' = popIdx'
  BY WrapInSlots, CapacityAssumption DEF RingOK, DoPopPush, Slot, Slots
<1>2. pushIdx' = Slot(size)'
  BY <1>1, CapacityAssumption DEF RingOK, DoPopPush, Wrap, Slot, Slots
<1>3. ASSUME NEW i \in 1 .. size PROVE buffer'[Slot(i - 1)'] \in Values
  <2>1. Slot(i - 1)' = IF i < size THEN Slot(i) ELSE popIdx
    BY CapacityAssumption DEF RingOK, DoPopPush, Wrap, Slot, Slots
  <2>2. buffer' = [buffer EXCEPT ![popIdx] = v]
    BY <1>1 DEF DoPopPush
  <2>3. CASE i < size
    <3>1. Slot(i) \in Slots /\ buffer[Slot(i)] \in Values
      BY <2>3, SlotInSlots, CapacityAssumption DEF RingOK
    <3> QED
      BY <2>1, <2>2, <2>3, <3>1 DEF RingOK
  <2>4. CASE ~ (i < size)
    BY <2>1, <2>2, <2>4 DEF RingOK
  <2> QED
    BY <2>3, <2>4
<1>4. buffer' \in [Slots -> Values \cup {NoValue}]
  BY DEF RingOK, DoPopPush
<1> QED
  BY <1>1, <1>2, <1>3, <1>4 DEF RingOK

LEMMA ClearRingOK ==
  ASSUME ClearRing
  PROVE  RingOK'
BY CapacityAssumption DEF ClearRing, RingOK, Slot, Slots

-----------------------------------------------------------------------------
(*************************** the whole algorithm ***************************)

LEMMA InitOK == Init => IInv
BY CapacityAssumption
DEF Init, IInv, ThreadsOK, RingOK, Slots, Slot, NoCall, Calls, Results

\* Every call leaves the ring well formed and the threads typed.
LEMMA StepOK ==
  ASSUME IInv, NEW t \in Threads, Step(t)
  PROVE  IInv'
<1> USE DEF IInv
<1>1. ASSUME NEW op \in Ops, NEW arg \in Args(op), PushStore(t, op, arg)
      PROVE  IInv'
  <2>1. arg \in Values /\ "true" \in Results
    BY <1>1 DEF PushStore, Args, Results
  <2>2. ThreadsOK'
    BY <1>1, <2>1, NotifyReturns, ReturnOK DEF PushStore
  <2> QED
    BY <1>1, <2>1, <2>2, DoPushOK DEF PushStore
<1>2. ASSUME NEW op \in Ops, NEW arg \in Args(op), PopTake(t, op, arg)
      PROVE  IInv'
  <2>1. buffer[popIdx] \in Results
    BY DEF RingOK, Results
  <2>2. ThreadsOK'
    BY <1>2, <2>1, NotifyReturns, ReturnOK DEF PopTake
  <2> QED
    BY <1>2, <2>2, DoPopOK DEF PopTake
<1>3. ASSUME NEW op \in Ops, NEW arg \in Args(op),
             PopDecline(t, op, arg) \/ GiveUp(t, op, arg)
      PROVE  IInv'
  BY <1>3, ReturnOK, RingUnchanged DEF PopDecline, GiveUp, Results
<1>4. ASSUME NEW op \in Ops, NEW arg \in Args(op), Peek(t, op, arg)
      PROVE  IInv'
  <2>1. buffer[popIdx] \in Results
    BY DEF RingOK, Results
  <2> QED
    BY <1>4, <2>1, ReturnOK, RingUnchanged DEF Peek
<1>5. ASSUME NEW op \in Ops, NEW arg \in Args(op), EmptyWait(t, op, arg)
      PROVE  IInv'
  BY <1>5, WaitOK, RingUnchanged DEF EmptyWait, Wait, ring
<1>6. ASSUME NEW v \in Values, PushRefuse(t, v)
      PROVE  IInv'
  BY <1>6, ReturnOK, RingUnchanged DEF PushRefuse, Results
<1>7. ASSUME NEW v \in Values, PushForce(t, v)
      PROVE  IInv'
  <2>1. ThreadsOK'
    BY <1>7, NotifyReturns, ReturnOK DEF PushForce, Results
  <2> QED
    BY <1>7, <2>1, DoPopPushOK DEF PushForce
<1>8. ASSUME NEW v \in Values, PushWait(t, v)
      PROVE  IInv'
  BY <1>8, WaitOK, RingUnchanged DEF PushWait, Wait, ring, Args, Ops, Pushes
<1>9. ASSUME Clear(t)
      PROVE  IInv'
  <2>1. ThreadsOK'
    BY <1>9, ReturnOK DEF Clear, ClearNotify, ThreadsOK
  <2> QED
    BY <1>9, <2>1, ClearRingOK DEF Clear
<1>10. ASSUME Timeout(t)
       PROVE  IInv'
  BY <1>10, RingUnchanged DEF Timeout, ThreadsOK, ring
<1> QED
  BY <1>1, <1>2, <1>3, <1>4, <1>5, <1>6, <1>7, <1>8, <1>9, <1>10 DEF Step

LEMMA NextOK ==
  ASSUME IInv, [Next]_vars
  PROVE  IInv'
<1>1. ASSUME NEW t \in Threads, SpuriousWakeup(t)
      PROVE  IInv'
  BY <1>1, RingUnchanged DEF SpuriousWakeup, IInv, ThreadsOK, ring
<1>2. CASE UNCHANGED vars
  BY <1>2, RingUnchanged DEF vars, ring, IInv, ThreadsOK
<1> QED
  BY <1>1, <1>2, StepOK DEF Next

\* In every reachable state of every program the variables have their types
\* and the two indexes and the size describe one window of filled slots.
THEOREM Safety == Spec => [](TypeOK /\ RingInv)
<1>1. IInv /\ [Next]_vars => IInv'
  BY NextOK
<1>2. Spec => []IInv
  BY InitOK, <1>1, PTL DEF Spec
<1> QED
  BY <1>2, IInvSuffices, PTL

-----------------------------------------------------------------------------
(******************************* refinement ********************************)

LEMMA ContentsIsASequence ==
  ASSUME RingOK
  PROVE  /\ Contents \in Seq(Values)
         /\ Len(Contents) = size
         /\ \A i \in 1 .. size : Contents[i] = buffer[Slot(i - 1)]
BY DEF RingOK, Contents

LEMMA DoPushAppends ==
  ASSUME RingOK, NEW v \in Values, size < Capacity, DoPush(v)
  PROVE  Contents' = Append(Contents, v)
<1>1. RingOK' /\ size' = size + 1
  BY DoPushOK DEF DoPush
<1>2. \A i : Slot(i)' = Slot(i)
  BY DEF DoPush, Slot
<1>3. ASSUME NEW i \in 1 .. size'
      PROVE  buffer'[Slot(i - 1)] = IF i = size + 1 THEN v ELSE buffer[Slot(i - 1)]
  <2>1. i - 1 \in 0 .. Capacity - 1 /\ size \in 0 .. Capacity - 1
    BY <1>1, CapacityAssumption DEF RingOK
  <2>2. buffer' = [buffer EXCEPT ![Slot(size)] = v] /\ Slot(size) \in Slots
    BY DEF DoPush, RingOK
  <2>3. CASE i = size + 1
    BY <2>2, <2>3 DEF RingOK
  <2>4. CASE i # size + 1
    <3>1. i - 1 # size
      BY <2>4, <2>1
    <3>2. Slot(i - 1) # Slot(size)
      BY <3>1, <2>1, SlotsDiffer
    <3> QED
      BY <3>2, <2>2, <2>1, <2>4, SlotInSlots DEF RingOK
  <2> QED
    BY <2>3, <2>4
<1>4. Contents' = [i \in 1 .. size + 1 |-> IF i = size + 1 THEN v ELSE buffer[Slot(i - 1)]]
  BY <1>1, <1>2, <1>3 DEF Contents
<1>5. size \in Nat /\ Contents \in Seq(Values) /\ Len(Contents) = size
  BY ContentsIsASequence, CapacityAssumption DEF RingOK
<1>6. /\ Append(Contents, v) \in Seq(Values) /\ Len(Append(Contents, v)) = size + 1
      /\ \A i \in 1 .. size + 1 :
           Append(Contents, v)[i] = IF i = size + 1 THEN v ELSE Contents[i]
  BY <1>5, AppendProperties
<1>7. Contents' \in Seq(Values) /\ Len(Contents') = size + 1
  BY <1>1, <1>5 DEF RingOK, Contents
<1>8. \A i \in 1 .. size + 1 : Contents'[i] = Append(Contents, v)[i]
  BY <1>4, <1>5, <1>6, ContentsIsASequence
<1> QED
  BY <1>6, <1>7, <1>8, SeqEqual

LEMMA DoPopRemovesHead ==
  ASSUME RingOK, size # 0, DoPop
  PROVE  /\ Contents # <<>>
         /\ Head(Contents) = buffer[popIdx]
         /\ Contents' = Tail(Contents)
<1>1. size' = size - 1 /\ buffer' = buffer /\ size \in Nat /\ size \in 1 .. Capacity
  BY CapacityAssumption DEF RingOK, DoPop
<1>2. \A i \in 0 .. Capacity - 1 : Slot(i)' = Slot(i + 1)
  BY CapacityAssumption DEF RingOK, DoPop, Wrap, Slot, Slots
<1>3. Slot(0) = popIdx
  BY CapacityAssumption DEF RingOK, Slot, Slots
<1>4. Contents \in Seq(Values) /\ Len(Contents) = size
  BY ContentsIsASequence
<1>5. Contents[1] = buffer[popIdx]
  BY <1>1, <1>3 DEF Contents
<1>6. /\ Contents # <<>> /\ Tail(Contents) \in Seq(Values)
      /\ Len(Tail(Contents)) = size - 1
      /\ \A i \in 1 .. size - 1 : Tail(Contents)[i] = Contents[i + 1]
  BY <1>1, <1>4, HeadTailProperties
<1>7. ASSUME NEW i \in 1 .. size - 1
      PROVE  buffer[Slot(i - 1)'] = Contents[i + 1]
  <2>1. i + 1 \in 1 .. size /\ (i + 1) - 1 = i /\ (i - 1) + 1 = i
        /\ i - 1 \in 0 .. Capacity - 1
    BY <1>1, CapacityAssumption
  <2>2. Contents[i + 1] = buffer[Slot(i)]
    BY <2>1 DEF Contents
  <2> QED
    BY <2>1, <2>2, <1>2
<1>8. Contents' = [i \in 1 .. size - 1 |-> buffer[Slot(i - 1)']]
  BY <1>1 DEF Contents
<1>9. RingOK'
  BY DoPopOK
<1>10. Contents' \in Seq(Values) /\ Len(Contents') = size - 1
  BY <1>1, <1>9 DEF RingOK, Contents
<1>11. \A i \in 1 .. size - 1 : Contents'[i] = Tail(Contents)[i]
  BY <1>6, <1>7, <1>8
<1>12. Contents' = Tail(Contents)
  BY <1>6, <1>10, <1>11, SeqEqual
<1> QED
  BY <1>1, <1>4, <1>5, <1>6, <1>12

LEMMA HeadIsOldest ==
  ASSUME RingOK, size # 0
  PROVE  Contents # <<>> /\ Head(Contents) = buffer[popIdx]
<1>1. size \in 1 .. Capacity /\ Slot(0) = popIdx
  BY CapacityAssumption DEF RingOK, Slot, Slots
<1>2. Contents \in Seq(Values) /\ Len(Contents) = size
  BY ContentsIsASequence
<1>3. Contents[1] = buffer[popIdx]
  BY <1>1 DEF Contents
<1> QED
  BY <1>1, <1>2, <1>3

\* A forced push on a full ring overwrites the oldest slot, which becomes the
\* newest one.
LEMMA DoPopPushReplaces ==
  ASSUME RingOK, NEW v \in Values, size = Capacity, DoPopPush(v)
  PROVE  Contents' = Append(Tail(Contents), v)
<1>1. size' = size /\ pushIdx = popIdx /\ popIdx \in Slots /\ size \in Nat \ {0}
  BY CapacityAssumption DEF RingOK, DoPopPush, Slot, Slots
<1>2. Contents \in Seq(Values) /\ Len(Contents) = size
  BY ContentsIsASequence
<1>3. /\ Tail(Contents) \in Seq(Values) /\ Len(Tail(Contents)) = size - 1
      /\ \A i \in 1 .. size - 1 : Tail(Contents)[i] = Contents[i + 1]
  BY <1>1, <1>2, HeadTailProperties
<1>4. /\ Append(Tail(Contents), v) \in Seq(Values)
      /\ Len(Append(Tail(Contents), v)) = size
      /\ \A i \in 1 .. size :
           Append(Tail(Contents), v)[i] = IF i = size THEN v ELSE Contents[i + 1]
  BY <1>1, <1>3, AppendProperties
<1>5. RingOK'
  BY DoPopPushOK
<1>6. Contents' \in Seq(Values) /\ Len(Contents') = size
  BY <1>1, <1>5 DEF RingOK, Contents
<1>7. ASSUME NEW i \in 1 .. size
      PROVE  Contents'[i] = IF i = size THEN v ELSE Contents[i + 1]
  <2>1. Slot(i - 1)' = IF i < size THEN Slot(i) ELSE popIdx
    BY CapacityAssumption DEF RingOK, DoPopPush, Wrap, Slot, Slots
  <2>2. buffer' = [buffer EXCEPT ![popIdx] = v] /\ buffer \in [Slots -> Values \cup {NoValue}]
    BY <1>1 DEF DoPopPush, RingOK
  <2>3. Contents'[i] = buffer'[Slot(i - 1)']
    BY <1>1 DEF Contents
  <2>4. CASE i = size
    BY <2>1, <2>2, <2>3, <2>4, <1>1
  <2>5. CASE i # size
    <3>1. i < size /\ i \in 1 .. Capacity - 1 /\ i + 1 \in 1 .. size /\ (i + 1) - 1 = i
      BY <2>5, <1>1
    <3>2. Slot(i) # popIdx /\ Slot(i) \in Slots
      BY <3>1, CapacityAssumption DEF RingOK, Slot, Slots
    <3>3. Contents[i + 1] = buffer[Slot(i)]
      BY <3>1 DEF Contents
    <3> QED
      BY <2>1, <2>2, <2>3, <2>5, <3>1, <3>2, <3>3
  <2> QED
    BY <2>4, <2>5
<1> QED
  BY <1>4, <1>6, <1>7, SeqEqual

LEMMA ClearRingEmpties ==
  ASSUME ClearRing
  PROVE  Contents' = <<>>
BY DEF ClearRing, Contents

LEMMA ContentsUnchanged ==
  ASSUME UNCHANGED ring
  PROVE  UNCHANGED Contents
BY DEF ring, Contents, Slot

LEMMA InitRefines == Init => Abstract!Init
BY DEF Init, Abstract!Init, Contents

\* Every call is one step of the queue, and waiting is none.
LEMMA StepRefines ==
  ASSUME IInv, NEW t \in Threads, Step(t)
  PROVE  [Abstract!Next]_(Abstract!vars)
<1> USE DEF IInv
<1> DEFINE Returned(r) == Abstract!Return(t, r)
<1>1. ASSUME NEW r, NEW wake, Return(t, r, wake) PROVE Returned(r)
  BY <1>1 DEF Return, Abstract!Return
<1>2. ASSUME NEW r, NEW cv, NotifyOne(t, r, cv) PROVE Returned(r)
  BY <1>1, <1>2, NotifyReturns
<1>3. size \in 0 .. Capacity /\ Contents \in Seq(Values) /\ Len(Contents) = size
  BY ContentsIsASequence DEF RingOK
<1> HIDE DEF Returned
<1>4. ASSUME NEW op \in Ops, NEW arg \in Args(op), PushStore(t, op, arg)
      PROVE  Abstract!Next
  <2>1. arg \in Values /\ Returned("true")
    BY <1>2, <1>4 DEF PushStore, Args
  <2>2. Abstract!Put(t, arg)
    BY <1>3, <1>4, <2>1, DoPushAppends DEF PushStore, Returned, Abstract!Put
  <2> QED
    BY <2>1, <2>2 DEF Abstract!Next
<1>5. ASSUME NEW op \in Ops, NEW arg \in Args(op), PopTake(t, op, arg)
      PROVE  Abstract!Next
  <2>1. Returned(buffer[popIdx])
    BY <1>2, <1>5 DEF PopTake
  <2>2. Abstract!Take(t)
    BY <1>5, <2>1, DoPopRemovesHead DEF PopTake, Returned, Abstract!Take
  <2> QED
    BY <2>2 DEF Abstract!Next
<1>6. ASSUME NEW op \in Ops, NEW arg \in Args(op), PopDecline(t, op, arg)
      PROVE  Abstract!Next
  <2>1. Returned("false") /\ UNCHANGED Contents
    BY <1>1, <1>6, ContentsUnchanged DEF PopDecline
  <2>2. t \in {u \in Threads : Program[u] \cap Choices # {}}
    BY <1>6, HoldsOwnCall DEF PopDecline
  <2>3. Abstract!TakeDeclined(t)
    BY <1>3, <1>6, <2>1, <2>2 DEF PopDecline, Returned, Abstract!TakeDeclined
  <2> QED
    BY <2>3 DEF Abstract!Next
<1>7. ASSUME NEW op \in Ops, NEW arg \in Args(op), Peek(t, op, arg)
      PROVE  Abstract!Next
  <2>1. Returned(buffer[popIdx]) /\ UNCHANGED Contents
    BY <1>1, <1>7, ContentsUnchanged DEF Peek
  <2>2. Contents # <<>> /\ Head(Contents) = buffer[popIdx]
    BY <1>3, <1>7, HeadIsOldest DEF Peek
  <2>3. Abstract!Look(t)
    BY <2>1, <2>2 DEF Returned, Abstract!Look
  <2> QED
    BY <2>3 DEF Abstract!Next
<1>8. ASSUME NEW op \in Ops, NEW arg \in Args(op), GiveUp(t, op, arg)
      PROVE  Abstract!Next
  <2>1. Returned("false") /\ UNCHANGED Contents
    BY <1>1, <1>8, ContentsUnchanged DEF GiveUp
  <2>2. Abstract!TakeRefused(t)
    BY <1>3, <1>8, <2>1 DEF GiveUp, Returned, Abstract!TakeRefused
  <2> QED
    BY <2>2 DEF Abstract!Next
<1>9. ASSUME NEW v \in Values, PushRefuse(t, v)
      PROVE  Abstract!Next
  <2>1. Returned("false") /\ UNCHANGED Contents
    BY <1>1, <1>9, ContentsUnchanged DEF PushRefuse
  <2>2. Abstract!PutRefused(t)
    BY <1>3, <1>9, <2>1 DEF PushRefuse, Returned, Abstract!PutRefused
  <2> QED
    BY <2>2 DEF Abstract!Next
<1>10. ASSUME NEW v \in Values, PushForce(t, v)
       PROVE  Abstract!Next
  <2>1. Returned("true")
    BY <1>2, <1>10 DEF PushForce
  <2>2. Abstract!PutDroppingOldest(t, v)
    BY <1>3, <1>10, <2>1, DoPopPushReplaces
    DEF PushForce, Returned, Abstract!PutDroppingOldest
  <2> QED
    BY <2>2 DEF Abstract!Next
<1>11. ASSUME Clear(t)
       PROVE  Abstract!Next
  <2>1. UNCHANGED ret
    BY <1>11 DEF Clear, ClearNotify, Return, ThreadsOK
  <2>2. Abstract!Clear
    BY <1>11, <2>1, ClearRingEmpties DEF Clear, Abstract!Clear
  <2> QED
    BY <2>2 DEF Abstract!Next
<1>12. ASSUME NEW cv, NEW op, NEW arg, Wait(t, cv, op, arg)
       PROVE  UNCHANGED Abstract!vars
  BY <1>12, ContentsUnchanged DEF Wait, Abstract!vars
<1>13. ASSUME NEW op \in Ops, NEW arg \in Args(op), EmptyWait(t, op, arg)
       PROVE  UNCHANGED Abstract!vars
  BY <1>12, <1>13 DEF EmptyWait
<1>14. ASSUME NEW v \in Values, PushWait(t, v)
       PROVE  UNCHANGED Abstract!vars
  BY <1>12, <1>14 DEF PushWait
<1>15. ASSUME Timeout(t)
       PROVE  UNCHANGED Abstract!vars
  BY <1>15, ContentsUnchanged DEF Timeout, Abstract!vars
<1> QED
  BY <1>4, <1>5, <1>6, <1>7, <1>8, <1>9, <1>10, <1>11, <1>13, <1>14, <1>15 DEF Step

\* Elements come out of the ring once and in the order they went in; a call
\* that waits for an element gives up only on an empty ring; and only a forced
\* push on a full ring drops one.
THEOREM Refinement == Spec => ImplementsFifo
<1>1. ASSUME IInv, [Next]_vars
      PROVE  [Abstract!Next]_(Abstract!vars)
  <2>1. ASSUME NEW t \in Threads, SpuriousWakeup(t)
        PROVE  UNCHANGED Abstract!vars
    BY <2>1, ContentsUnchanged DEF SpuriousWakeup, Abstract!vars
  <2>2. CASE UNCHANGED vars
    BY <2>2, ContentsUnchanged DEF vars, ring, Abstract!vars
  <2> QED
    BY <1>1, <2>1, <2>2, StepRefines DEF Next
<1>2. IInv /\ [Next]_vars => IInv'
  BY NextOK
<1>3. Spec => []IInv
  BY InitOK, <1>2, PTL DEF Spec
<1> QED
  BY <1>1, <1>3, InitRefines, PTL DEF Spec, ImplementsFifo, Abstract!Spec

-----------------------------------------------------------------------------
(******************************** wake-ups *********************************)

(***************************************************************************)
(* Who sleeps on which condition variable.  With it, PushWakeups and       *)
(* PopWakeups are inductive as they stand.                                 *)
(***************************************************************************)
SleepersOK ==
    \A t \in Threads :
        /\ where[t] = "Full" => call[t].op = "push"
        /\ where[t] = "Empty" => call[t].op \in Takes \cup Looks

LEMMA WokenAreCounted ==
  ASSUME NEW S \in SUBSET Threads
  PROVE  /\ IsFiniteSet(S) /\ Cardinality(S) \in Nat
         /\ \A R \in SUBSET S : Cardinality(R) <= Cardinality(S)
         /\ \A t \in Threads : Cardinality(S \ {t}) >= Cardinality(S) - 1
         /\ \A t \in Threads \ S : Cardinality(S \cup {t}) = Cardinality(S) + 1
<1>1. IsFiniteSet(S) /\ Cardinality(S) \in Nat
  BY ThreadsAssumption, FS_Subset, FS_CardinalityType
<1>2. \A R \in SUBSET S : Cardinality(R) <= Cardinality(S)
  BY <1>1, FS_Subset
<1>3. ASSUME NEW t \in Threads PROVE Cardinality(S \ {t}) >= Cardinality(S) - 1
  <2>1. CASE t \in S
    <3>1. Cardinality(S \ {t}) = Cardinality(S) - 1
      BY <1>1, <2>1, FS_RemoveElement, Zenon
    <3> QED
      BY <1>1, <3>1
  <2>2. CASE t \notin S
    <3>1. S \ {t} = S
      BY <2>2
    <3> QED
      BY <1>1, <3>1
  <2> QED
    BY <2>1, <2>2
<1>4. ASSUME NEW t \in Threads \ S PROVE Cardinality(S \cup {t}) = Cardinality(S) + 1
  BY <1>1, FS_AddElement
<1> QED
  BY <1>1, <1>2, <1>3, <1>4

LEMMA ReturnSleepers ==
  ASSUME ThreadsOK, SleepersOK, NEW t \in Threads, NEW r, NEW wake, Return(t, r, wake)
  PROVE  SleepersOK'
BY DEF ThreadsOK, SleepersOK, Return

\* A call that wakes nobody who sleeps on cv, or one of those who do.
LEMMA NotifyWakes ==
  ASSUME NEW t, NEW r, NEW cv, NotifyOne(t, r, cv)
  PROVE  \E wake \in SUBSET Waiting(cv) :
            Return(t, r, wake) /\ (Waiting(cv) # {} => wake # {})
BY DEF NotifyOne

LEMMA SleepersStep ==
  ASSUME IInv, SleepersOK, NEW t \in Threads, Step(t) \/ SpuriousWakeup(t)
  PROVE  SleepersOK'
<1> USE DEF IInv
<1>1. ASSUME NEW op \in Ops, NEW arg \in Args(op),
             \/ PushStore(t, op, arg) \/ PopTake(t, op, arg) \/ PopDecline(t, op, arg)
             \/ Peek(t, op, arg) \/ GiveUp(t, op, arg)
      PROVE  SleepersOK'
  BY <1>1, NotifyReturns, ReturnSleepers DEF PushStore, PopTake, PopDecline, Peek, GiveUp
<1>2. ASSUME NEW op \in Ops, NEW arg \in Args(op), EmptyWait(t, op, arg)
      PROVE  SleepersOK'
  BY <1>2 DEF EmptyWait, Wait, SleepersOK, ThreadsOK
<1>3. ASSUME NEW v \in Values, PushRefuse(t, v) \/ PushForce(t, v)
      PROVE  SleepersOK'
  BY <1>3, NotifyReturns, ReturnSleepers DEF PushRefuse, PushForce
<1>4. ASSUME NEW v \in Values, PushWait(t, v)
      PROVE  SleepersOK'
  BY <1>4 DEF PushWait, Wait, SleepersOK, ThreadsOK
<1>5. CASE Clear(t)
  BY <1>5, ReturnSleepers DEF Clear, ClearNotify
<1>6. CASE Timeout(t) \/ SpuriousWakeup(t)
  BY <1>6 DEF Timeout, SpuriousWakeup, SleepersOK, ThreadsOK
<1> QED
  BY <1>1, <1>2, <1>3, <1>4, <1>5, <1>6 DEF Step

\* What a call that returns changes in the threads that are on their way to the
\* mutex for operations `ops`: it leaves them, and those it wakes join them.
LEMMA ReturnMoves ==
  ASSUME ThreadsOK, NEW t \in Threads, NEW r, NEW wake \in SUBSET Threads, NEW ops,
         Return(t, r, wake), \A u \in wake : call[u].op \in ops, where[t] \notin {"Empty", "Full"}
  PROVE  /\ WokenFor(ops)' = (WokenFor(ops) \ {t}) \cup (wake \ {t})
         /\ \A cv \in {"Empty", "Full"} : Waiting(cv)' = Waiting(cv) \ wake
<1>1. /\ \A u \in Threads : where'[u] = IF u = t THEN "out"
                                        ELSE IF u \in wake THEN "woken" ELSE where[u]
      /\ \A u \in Threads : u # t => call'[u] = call[u]
  BY DEF ThreadsOK, Return
<1> QED
  BY <1>1 DEF WokenFor, Waiting

LEMMA HoldsMoves ==
  ASSUME NEW t \in Threads, NEW op, NEW arg, Holds(t, op, arg)
  PROVE  /\ where[t] \notin {"Empty", "Full"}
         /\ \A ops : op \notin ops => t \notin WokenFor(ops)
BY DEF Holds, WokenFor

LEMMA OpsDiffer ==
  /\ \A op \in Pushes : op \notin Takes \cup Looks
  /\ \A op \in Takes \cup Looks : op \notin Pushes
  /\ Choices \subseteq Takes /\ Timed \subseteq Takes \cup Looks
BY DEF Pushes, Takes, Looks, Choices, Timed

\* The step of a push that stores or is refused, of a call that is not about room
\* for an element, of a pop, and of a push that goes to sleep.
LEMMA PushWakeupsStep ==
  ASSUME IInv, SleepersOK, PushWakeups, NEW t \in Threads, Step(t) \/ SpuriousWakeup(t)
  PROVE  PushWakeups'
<1> PICK W : W = WokenFor(Pushes)
  OBVIOUS
<1>0. /\ W \in SUBSET Threads /\ size \in 0 .. Capacity /\ Capacity \in Nat
      /\ ThreadsOK /\ WokenFor(Pushes)' \in SUBSET Threads
  BY CapacityAssumption DEF IInv, RingOK, WokenFor
<1>1. Cardinality(W) \in Nat /\ Cardinality(WokenFor(Pushes)') \in Nat
  <2>1. PICK V : V = WokenFor(Pushes)'
    OBVIOUS
  <2> QED
    BY <1>0, <2>1, WokenAreCounted
<1>2. ASSUME size' = Capacity PROVE PushWakeups'
  BY <1>0, <1>1, <1>2 DEF PushWakeups
<1>3. ASSUME NEW op \in Ops, NEW arg \in Args(op), PushStore(t, op, arg)
      PROVE  PushWakeups'
  <2>1. op \in Pushes /\ Holds(t, op, arg) /\ size' = size + 1 /\ NotifyOne(t, "true", "Empty")
    BY <1>3 DEF PushStore, DoPush
  <2>2. PICK wake \in SUBSET Waiting("Empty") : Return(t, "true", wake)
    BY <2>1, NotifyWakes
  <2>3. /\ \A u \in Threads : u # t /\ u \in W => where'[u] = "woken" /\ call'[u].op \in Pushes
        /\ \A u \in Threads : where'[u] = "Full" => where[u] = "Full"
    BY <2>2 DEF Return, IInv, ThreadsOK, WokenFor
  <2>4. W \ {t} \subseteq WokenFor(Pushes)' /\ (Waiting("Full")' # {} => Waiting("Full") # {})
    BY <1>0, <2>3 DEF WokenFor, Waiting
  <2>5. Cardinality(WokenFor(Pushes)') >= Cardinality(W) - 1
    <3>1. PICK V : V = WokenFor(Pushes)'
      OBVIOUS
    <3>2. Cardinality(W \ {t}) >= Cardinality(W) - 1 /\ Cardinality(W \ {t}) \in Nat
      BY <1>0, WokenAreCounted
    <3>3. Cardinality(W \ {t}) <= Cardinality(V)
      BY <1>0, <2>4, <3>1, WokenAreCounted
    <3> QED
      BY <1>1, <3>1, <3>2, <3>3
  <2> QED
    BY <1>0, <1>1, <2>1, <2>4, <2>5 DEF PushWakeups
<1>4. ASSUME NEW op \in Ops, NEW arg \in Args(op), PopTake(t, op, arg)
      PROVE  PushWakeups'
  <2>1. /\ op \in Takes /\ Holds(t, op, arg) /\ size' = size - 1
        /\ NotifyOne(t, buffer[popIdx], "Full")
    BY <1>4 DEF PopTake, DoPop
  <2>2. PICK wake \in SUBSET Waiting("Full") :
            Return(t, buffer[popIdx], wake) /\ (Waiting("Full") # {} => wake # {})
    BY <2>1, NotifyWakes
  <2>3. /\ wake \in SUBSET Threads /\ \A u \in wake : call[u].op \in Pushes
        /\ t \notin W /\ t \notin wake /\ wake \cap W = {}
        /\ where[t] \notin {"Empty", "Full"}
    BY <2>1, HoldsMoves, OpsDiffer DEF SleepersOK, Waiting, Pushes, WokenFor
  <2>4. WokenFor(Pushes)' = W \cup wake /\ Waiting("Full")' = Waiting("Full") \ wake
    BY <1>0, <2>2, <2>3, ReturnMoves
  <2>5. ASSUME Waiting("Full") # {}
        PROVE  Cardinality(WokenFor(Pushes)') >= Cardinality(W) + 1
    <3>1. PICK u : u \in wake
      BY <2>2, <2>5
    <3>2. Cardinality(W \cup {u}) = Cardinality(W) + 1
      BY <1>0, <2>3, <3>1, WokenAreCounted
    <3>3. W \cup {u} \subseteq W \cup wake /\ W \cup wake \in SUBSET Threads
      BY <1>0, <2>3, <3>1
    <3>4. Cardinality(W \cup {u}) <= Cardinality(W \cup wake)
      BY <3>3, WokenAreCounted
    <3> QED
      BY <1>1, <2>4, <3>2, <3>4
  <2> QED
    BY <1>0, <1>1, <2>1, <2>4, <2>5 DEF PushWakeups
<1>5. ASSUME NEW op \in Ops, NEW arg \in Args(op),
             PopDecline(t, op, arg) \/ Peek(t, op, arg) \/ GiveUp(t, op, arg)
      PROVE  PushWakeups'
  <2>1. /\ Holds(t, op, arg) /\ op \notin Pushes /\ size' = size
        /\ \E r, none : Return(t, r, none) /\ none = {}
    BY <1>5, OpsDiffer DEF PopDecline, Peek, GiveUp, ring
  <2>2. t \notin W /\ where[t] \notin {"Empty", "Full"}
    BY <2>1, HoldsMoves
  <2>3. PICK r, none : Return(t, r, none) /\ none = {}
    BY <2>1
  <2>4. /\ WokenFor(Pushes)' = (W \ {t}) \cup (none \ {t})
        /\ Waiting("Full")' = Waiting("Full") \ none
    <3>1. none \in SUBSET Threads /\ \A u \in none : call[u].op \in Pushes
      BY <2>3
    <3> QED
      BY <1>0, <2>2, <2>3, <3>1, ReturnMoves
  <2>5. WokenFor(Pushes)' = W /\ Waiting("Full")' = Waiting("Full")
    BY <2>2, <2>3, <2>4
  <2> QED
    BY <2>1, <2>5 DEF PushWakeups
<1>6. ASSUME NEW op \in Ops, NEW arg \in Args(op), EmptyWait(t, op, arg)
      PROVE  PushWakeups'
  <2>1. /\ op \notin Pushes /\ Holds(t, op, arg) /\ size' = size
        /\ where' = [where EXCEPT ![t] = "Empty"]
        /\ \A u \in Threads : u # t => call'[u] = call[u]
    BY <1>6, <1>0, OpsDiffer DEF EmptyWait, Wait, ring, ThreadsOK
  <2>2. t \notin W /\ where[t] \notin {"Empty", "Full"}
    BY <2>1, HoldsMoves
  <2>3. WokenFor(Pushes)' = W /\ Waiting("Full")' = Waiting("Full")
    BY <1>0, <2>1, <2>2 DEF WokenFor, Waiting, ThreadsOK
  <2> QED
    BY <2>1, <2>3 DEF PushWakeups
<1>7. ASSUME NEW v \in Values, PushRefuse(t, v) \/ PushForce(t, v) \/ PushWait(t, v)
      PROVE  PushWakeups'
  BY <1>7, <1>2 DEF PushRefuse, PushForce, PushWait, DoPopPush, Wait, ring
<1>8. CASE Clear(t)
  <2>1. Waiting("Full")' = {}
    BY <1>8, <1>0 DEF Clear, ClearNotify, Return, Waiting, ThreadsOK
  <2> QED
    BY <2>1 DEF PushWakeups
<1>9. CASE Timeout(t) \/ SpuriousWakeup(t)
  <2>1. /\ size' = size /\ call' = call /\ where[t] \in {"Empty", "Full"}
        /\ where' \in {[where EXCEPT ![t] = "expired"], [where EXCEPT ![t] = "woken"]}
    BY <1>9 DEF Timeout, SpuriousWakeup, ring
  <2>2. W \subseteq WokenFor(Pushes)' /\ (Waiting("Full")' # {} => Waiting("Full") # {})
    BY <1>0, <2>1 DEF WokenFor, Waiting, ThreadsOK
  <2>3. Cardinality(W) <= Cardinality(WokenFor(Pushes)')
    <3>1. PICK V : V = WokenFor(Pushes)'
      OBVIOUS
    <3> QED
      BY <1>0, <2>2, <3>1, WokenAreCounted
  <2> QED
    BY <1>0, <1>1, <2>1, <2>2, <2>3 DEF PushWakeups
<1> QED
  BY <1>3, <1>4, <1>5, <1>6, <1>7, <1>8, <1>9 DEF Step

\* Nobody looks at an element without taking it, or declines one.
AllTakeWhatTheyWaitFor == \A t \in Threads : Program[t] \cap (Looks \cup Choices) = {}

\* As for pushes: elements take the place of the free slots, but a forced push
\* wakes a pop as well and a clear leaves nothing to wait for.
LEMMA PopWakeupsStep ==
  ASSUME IInv, SleepersOK, PopWakeups, AllTakeWhatTheyWaitFor,
         NEW t \in Threads, Step(t) \/ SpuriousWakeup(t)
  PROVE  PopWakeups'
<1> DEFINE Waits == Takes \cup Looks
<1> PICK W : W = WokenFor(Waits)
  OBVIOUS
<1>0. /\ W \in SUBSET Threads /\ size \in 0 .. Capacity /\ Capacity \in Nat
      /\ ThreadsOK /\ WokenFor(Waits)' \in SUBSET Threads
      /\ PopWakeups <=> (Waiting("Empty") # {} => size <= Cardinality(W))
  BY CapacityAssumption DEF IInv, RingOK, WokenFor, PopWakeups
<1>1. Cardinality(W) \in Nat /\ Cardinality(WokenFor(Waits)') \in Nat
  <2>1. PICK V : V = WokenFor(Waits)'
    OBVIOUS
  <2> QED
    BY <1>0, <2>1, WokenAreCounted
<1> HIDE DEF Waits
<1>2. PopWakeups' <=> (Waiting("Empty")' # {} => size' <= Cardinality(WokenFor(Waits)'))
  BY DEF PopWakeups, Waits
<1>3. ASSUME size' = 0 PROVE PopWakeups'
  BY <1>1, <1>2, <1>3
<1>4. ASSUME NEW op \in Pushes, NEW arg, NEW r, Holds(t, op, arg),
             size' \in {size, size + 1}, NotifyOne(t, r, "Empty")
      PROVE  PopWakeups'
  <2>1. PICK wake \in SUBSET Waiting("Empty") :
            Return(t, r, wake) /\ (Waiting("Empty") # {} => wake # {})
    BY <1>4, NotifyWakes
  <2>2. /\ wake \in SUBSET Threads /\ \A u \in wake : call[u].op \in Waits
        /\ t \notin W /\ t \notin wake /\ wake \cap W = {}
        /\ where[t] \notin {"Empty", "Full"}
    BY <1>4, HoldsMoves, OpsDiffer DEF SleepersOK, Waiting, WokenFor, Waits
  <2>3. WokenFor(Waits)' = W \cup wake /\ Waiting("Empty")' = Waiting("Empty") \ wake
    BY <1>0, <2>1, <2>2, ReturnMoves
  <2>4. ASSUME Waiting("Empty") # {}
        PROVE  Cardinality(WokenFor(Waits)') >= Cardinality(W) + 1
    <3>1. PICK u : u \in wake
      BY <2>1, <2>4
    <3>2. Cardinality(W \cup {u}) = Cardinality(W) + 1
      BY <1>0, <2>2, <3>1, WokenAreCounted
    <3>3. W \cup {u} \subseteq W \cup wake /\ W \cup wake \in SUBSET Threads
      BY <1>0, <2>2, <3>1
    <3>4. Cardinality(W \cup {u}) <= Cardinality(W \cup wake)
      BY <3>3, WokenAreCounted
    <3> QED
      BY <1>1, <2>3, <3>2, <3>4
  <2> QED
    BY <1>0, <1>1, <1>2, <1>4, <2>3, <2>4
<1>5. ASSUME NEW op \in Ops, NEW arg \in Args(op), PopTake(t, op, arg)
      PROVE  PopWakeups'
  <2>1. /\ op \in Takes /\ Holds(t, op, arg) /\ size' = size - 1
        /\ NotifyOne(t, buffer[popIdx], "Full")
    BY <1>5 DEF PopTake, DoPop
  <2>2. PICK wake \in SUBSET Waiting("Full") : Return(t, buffer[popIdx], wake)
    BY <2>1, NotifyWakes
  <2>3. /\ \A u \in Threads : u # t /\ u \in W => where'[u] = "woken" /\ call'[u].op \in Waits
        /\ \A u \in Threads : where'[u] = "Empty" => where[u] = "Empty"
    BY <2>2 DEF Return, IInv, ThreadsOK, WokenFor
  <2>4. W \ {t} \subseteq WokenFor(Waits)' /\ (Waiting("Empty")' # {} => Waiting("Empty") # {})
    BY <1>0, <2>3 DEF WokenFor, Waiting
  <2>5. Cardinality(WokenFor(Waits)') >= Cardinality(W) - 1
    <3>1. PICK V : V = WokenFor(Waits)'
      OBVIOUS
    <3>2. Cardinality(W \ {t}) >= Cardinality(W) - 1 /\ Cardinality(W \ {t}) \in Nat
      BY <1>0, WokenAreCounted
    <3>3. Cardinality(W \ {t}) <= Cardinality(V)
      BY <1>0, <2>4, <3>1, WokenAreCounted
    <3> QED
      BY <1>1, <3>1, <3>2, <3>3
  <2> QED
    BY <1>0, <1>1, <1>2, <2>1, <2>4, <2>5
<1>6. ASSUME NEW op \in Ops, NEW arg \in Args(op), PopDecline(t, op, arg) \/ Peek(t, op, arg)
      PROVE  FALSE
  <2>1. op \in Program[t] /\ op \in Looks \cup Choices
    BY <1>0, <1>6, HoldsOwnCall DEF PopDecline, Peek
  <2> QED
    BY <2>1 DEF AllTakeWhatTheyWaitFor
<1>7. ASSUME NEW op \in Ops, NEW arg \in Args(op), GiveUp(t, op, arg) \/ EmptyWait(t, op, arg)
      PROVE  PopWakeups'
  BY <1>3, <1>7 DEF GiveUp, EmptyWait, Wait, ring
<1>8. ASSUME NEW v \in Values, PushRefuse(t, v) \/ PushWait(t, v)
      PROVE  PopWakeups'
  <2>1. /\ size' = size /\ \E op \in Pushes : Holds(t, op, v)
        /\ \A u \in Threads : where'[u] = IF u = t THEN where'[t] ELSE where[u]
        /\ where'[t] \in {"out", "Full"}
        /\ \A u \in Threads : u # t => call'[u] = call[u]
    BY <1>0, <1>8 DEF PushRefuse, PushWait, Wait, Return, ring, ThreadsOK, Pushes
  <2>2. t \notin W /\ where[t] \notin {"Empty", "Full"}
    BY <2>1, HoldsMoves, OpsDiffer DEF Waits
  <2>3. WokenFor(Waits)' = W /\ Waiting("Empty")' = Waiting("Empty")
    BY <1>0, <2>1, <2>2 DEF WokenFor, Waiting
  <2> QED
    BY <1>0, <1>2, <2>1, <2>3
<1>9. CASE Clear(t)
  BY <1>3, <1>9 DEF Clear, ClearRing
<1>10. CASE Timeout(t) \/ SpuriousWakeup(t)
  <2>1. /\ size' = size /\ call' = call /\ where[t] \in {"Empty", "Full"}
        /\ where' \in {[where EXCEPT ![t] = "expired"], [where EXCEPT ![t] = "woken"]}
    BY <1>10 DEF Timeout, SpuriousWakeup, ring
  <2>2. W \subseteq WokenFor(Waits)' /\ (Waiting("Empty")' # {} => Waiting("Empty") # {})
    BY <1>0, <2>1 DEF WokenFor, Waiting, ThreadsOK
  <2>3. Cardinality(W) <= Cardinality(WokenFor(Waits)')
    <3>1. PICK V : V = WokenFor(Waits)'
      OBVIOUS
    <3> QED
      BY <1>0, <2>2, <3>1, WokenAreCounted
  <2> QED
    BY <1>0, <1>1, <1>2, <2>1, <2>2, <2>3
<1>11. ASSUME NEW op \in Ops, NEW arg \in Args(op), PushStore(t, op, arg)
       PROVE  PopWakeups'
  BY <1>4, <1>11 DEF PushStore, DoPush
<1>12. ASSUME NEW v \in Values, PushForce(t, v)
       PROVE  PopWakeups'
  BY <1>4, <1>12 DEF PushForce, DoPopPush, Pushes
<1> QED
  BY <1>5, <1>6, <1>7, <1>8, <1>9, <1>10, <1>11, <1>12 DEF Step

\* While a push sleeps on cvFull_ at least as many pushes are on their way to the
\* mutex as there are free slots, for every program: the notify_one of a pop is
\* never lost, whoever else takes the mutex in between.
THEOREM PushWakeupsAlways == Spec => []PushWakeups
<1> DEFINE J == IInv /\ SleepersOK /\ PushWakeups
<1>1. Init => J
  BY InitOK DEF Init, SleepersOK, PushWakeups, Waiting
<1>2. J /\ [Next]_vars => J'
  <2> SUFFICES ASSUME J, [Next]_vars PROVE J'
    OBVIOUS
  <2>1. CASE Next
    BY <2>1, NextOK, SleepersStep, PushWakeupsStep DEF Next
  <2>2. CASE UNCHANGED vars
    BY <2>2, NextOK DEF vars, SleepersOK, PushWakeups, Waiting, WokenFor
  <2> QED
    BY <2>1, <2>2
<1>3. J => PushWakeups
  OBVIOUS
<1> HIDE DEF J
<1> QED
  BY <1>1, <1>2, <1>3, PTL DEF Spec

\* The same for pops that sleep on cvEmpty_, for every program in which a woken call
\* takes the element it was woken for.  (peek and the conditional pops do not: they
\* use up the notification, which is why the program must not hold them.)
THEOREM PopWakeupsAlways ==
  ASSUME \A t \in Threads : Program[t] \cap (Looks \cup Choices) = {}
  PROVE  Spec => []PopWakeups
<1> DEFINE J == IInv /\ SleepersOK /\ PopWakeups
<1>0. AllTakeWhatTheyWaitFor
  BY DEF AllTakeWhatTheyWaitFor
<1>1. Init => J
  BY InitOK DEF Init, SleepersOK, PopWakeups, Waiting
<1>2. J /\ [Next]_vars => J'
  <2> SUFFICES ASSUME J, [Next]_vars PROVE J'
    OBVIOUS
  <2>1. CASE Next
    BY <1>0, <2>1, NextOK, SleepersStep, PopWakeupsStep DEF Next
  <2>2. CASE UNCHANGED vars
    BY <2>2, NextOK DEF vars, SleepersOK, PopWakeups, Waiting, WokenFor
  <2> QED
    BY <2>1, <2>2
<1>3. J => PopWakeups
  OBVIOUS
<1> HIDE DEF J
<1> QED
  BY <1>1, <1>2, <1>3, PTL DEF Spec
=============================================================================
