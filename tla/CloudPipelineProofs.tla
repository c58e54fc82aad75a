------------------------- MODULE CloudPipelineProofs -------------------------
(***************************************************************************)
(* Proofs about the way of a cloud and about the connections to ROS.       *)
(*                                                                         *)
(* CloudPipeline, for any number of clouds, any size of the buffers and    *)
(* every configuration: the clouds stay in order, none is registered or    *)
(* sent twice, and what is registered or sent was preprocessed, once.      *)
(*                                                                         *)
(* Wire, for any measurements, buffers, losses, threads and length of the  *)
(* path: what is published was measured, the path and the transformation   *)
(* belong together, and a file of poses can be read back.                  *)
(***************************************************************************)
EXTENDS CloudPipeline, Wire, SequenceTheorems, FiniteSetTheorems, WellFoundedInduction, TLAPS

-----------------------------------------------------------------------------
(********************************* queues **********************************)

Below(q, c) == \A i \in 1 .. Len(q) : q[i] < c
AtMost(q, c) == \A i \in 1 .. Len(q) : q[i] <= c
Above(q, c) == \A i \in 1 .. Len(q) : c < q[i]

LEMMA QueuesAreSeqs ==
  \A q : q \in Queues <=> q \in Seq(Clouds) /\ Len(q) <= BufferSize
<1>1. ASSUME NEW q \in Queues
      PROVE  q \in Seq(Clouds) /\ Len(q) <= BufferSize
  <2>1. PICK n \in 0 .. BufferSize : q \in [1 .. n -> Clouds]
    BY DEF Queues
  <2>2. q \in Seq(Clouds) /\ Len(q) = n
    BY <2>1
  <2> QED
    BY <2>1, <2>2, BufferSizeAssumption
<1>2. ASSUME NEW q \in Seq(Clouds), Len(q) <= BufferSize
      PROVE  q \in Queues
  <2>1. Len(q) \in 0 .. BufferSize /\ q \in [1 .. Len(q) -> Clouds]
    BY <1>2, BufferSizeAssumption
  <2> QED
    BY <2>1 DEF Queues
<1> QED
  BY <1>1, <1>2

LEMMA ElementsAreInts ==
  /\ \A c \in Clouds : c \in Int /\ c > 0
  /\ \A q \in Seq(Clouds) : \A i \in 1 .. Len(q) : q[i] \in Clouds /\ q[i] \in Int /\ q[i] > 0
<1>1. \A c \in Clouds : c \in Int /\ c > 0
  BY DEF Clouds
<1>2. \A q \in Seq(Clouds) : \A i \in 1 .. Len(q) : q[i] \in Clouds
  OBVIOUS
<1> QED
  BY <1>1, <1>2

LEMMA TakeHead ==
  ASSUME NEW q \in Seq(Clouds), q # <<>>
  PROVE  /\ Head(q) \in Clouds /\ Tail(q) \in Seq(Clouds) /\ Len(Tail(q)) = Len(q) - 1
         /\ Len(q) \in Nat /\ Len(q) > 0 /\ Head(q) = q[1]
         /\ \A i \in 1 .. Len(Tail(q)) : Tail(q)[i] = q[i + 1] /\ i + 1 \in 1 .. Len(q)
<1>1. Len(q) \in Nat /\ Len(q) > 0
  OBVIOUS
<1>2. Head(q) = q[1] /\ Head(q) \in Clouds /\ Tail(q) \in Seq(Clouds) /\ Len(Tail(q)) = Len(q) - 1
  BY <1>1
<1>3. ASSUME NEW i \in 1 .. Len(Tail(q))
      PROVE  Tail(q)[i] = q[i + 1] /\ i + 1 \in 1 .. Len(q)
  BY <1>1, <1>2
<1> QED
  BY <1>1, <1>2, <1>3

\* A thread takes the oldest cloud of a queue ...
LEMMA TakeOrdered ==
  ASSUME NEW q \in Seq(Clouds), q # <<>>, Ascending(q)
  PROVE  /\ Ascending(Tail(q)) /\ Above(Tail(q), Head(q))
         /\ \A c \in Int : Below(q, c) => Below(Tail(q), c) /\ Head(q) < c
         /\ \A c \in Int : AtMost(q, c) => AtMost(Tail(q), c) /\ Head(q) <= c
         /\ \A c \in Int : Above(q, c) => Above(Tail(q), c) /\ c < Head(q)
<1>1. /\ Head(q) \in Clouds /\ Tail(q) \in Seq(Clouds) /\ Len(Tail(q)) = Len(q) - 1
      /\ Len(q) \in Nat /\ Len(q) > 0 /\ Head(q) = q[1] /\ 1 \in 1 .. Len(q)
      /\ \A i \in 1 .. Len(Tail(q)) : Tail(q)[i] = q[i + 1] /\ i + 1 \in 1 .. Len(q)
  BY TakeHead
<1>2. Ascending(Tail(q))
  BY <1>1 DEF Ascending
<1>3. Above(Tail(q), Head(q))
  BY <1>1 DEF Ascending, Above
<1> QED
  BY <1>1, <1>2, <1>3 DEF Below, AtMost, Above

LEMMA PutLast ==
  ASSUME NEW S, NEW q \in Seq(S), NEW c \in S
  PROVE  /\ Append(q, c) \in Seq(S) /\ Len(Append(q, c)) = Len(q) + 1 /\ Len(q) \in Nat
         /\ \A i \in 1 .. Len(q) + 1 : Append(q, c)[i] = IF i <= Len(q) THEN q[i] ELSE c
OBVIOUS

LEMMA AppendOrdered ==
  ASSUME NEW q \in Seq(Clouds), NEW c \in Clouds, Ascending(q), Below(q, c)
  PROVE  /\ Append(q, c) \in Seq(Clouds) /\ Ascending(Append(q, c))
         /\ AtMost(Append(q, c), c)
         /\ \A b \in Int : Above(q, b) /\ b < c => Above(Append(q, c), b)
<1>1. /\ Append(q, c) \in Seq(Clouds) /\ Len(Append(q, c)) = Len(q) + 1 /\ Len(q) \in Nat
      /\ \A i \in 1 .. Len(q) + 1 : Append(q, c)[i] = IF i <= Len(q) THEN q[i] ELSE c
  BY PutLast
<1>2. c \in Int /\ \A i \in 1 .. Len(q) : q[i] \in Int /\ q[i] < c
  BY ElementsAreInts DEF Below
<1>3. Ascending(Append(q, c))
  BY <1>1, <1>2 DEF Ascending
<1>4. AtMost(Append(q, c), c)
  BY <1>1, <1>2 DEF AtMost
<1> QED
  BY <1>1, <1>2, <1>3, <1>4 DEF Above

\* ... and puts a younger one behind, for which an older one may be lost.
LEMMA DropOldestOrdered ==
  ASSUME NEW q \in Seq(Clouds), NEW capacity \in Nat \ {0}, Len(q) <= capacity,
         NEW c \in Clouds, Ascending(q), Below(q, c)
  PROVE  LET r == DropOldest(q, capacity, c)
         IN  /\ r \in Seq(Clouds) /\ Len(r) <= capacity /\ Ascending(r) /\ AtMost(r, c)
             /\ \A b \in Int : Above(q, b) /\ b < c => Above(r, b)
             /\ \A i \in 1 .. Len(r) : r[i] = c \/ \E j \in 1 .. Len(q) : r[i] = q[j]
<1> DEFINE r == DropOldest(q, capacity, c)
<1>0. c \in Int /\ Len(q) \in Nat
  BY DEF Clouds
<1>1. CASE Len(q) = capacity
  <2>1. q # <<>> /\ r = Append(Tail(q), c)
    BY <1>1 DEF DropOldest
  <2>2. /\ Tail(q) \in Seq(Clouds) /\ Len(Tail(q)) = Len(q) - 1
        /\ \A i \in 1 .. Len(Tail(q)) : Tail(q)[i] = q[i + 1] /\ i + 1 \in 1 .. Len(q)
    BY <2>1, TakeHead
  <2>3. Ascending(Tail(q)) /\ Below(Tail(q), c) /\ \A b \in Int : Above(q, b) => Above(Tail(q), b)
    BY <1>0, <2>1, TakeOrdered
  <2>4. /\ r \in Seq(Clouds) /\ Ascending(r) /\ AtMost(r, c)
        /\ \A b \in Int : Above(Tail(q), b) /\ b < c => Above(r, b)
    BY <2>1, <2>2, <2>3, AppendOrdered
  <2> PICK t : t = Tail(q)
    OBVIOUS
  <2>5. /\ Len(r) = Len(t) + 1 /\ Len(t) \in Nat
        /\ \A i \in 1 .. Len(t) + 1 : r[i] = IF i <= Len(t) THEN t[i] ELSE c
    <3> HIDE DEF r
    <3>1. t \in Seq(Clouds) /\ r = Append(t, c)
      BY <2>1, <2>2
    <3> QED
      BY <3>1, PutLast
  <2> HIDE DEF r
  <2>6. ASSUME NEW i \in 1 .. Len(r)
        PROVE  r[i] = c \/ \E j \in 1 .. Len(q) : r[i] = q[j]
    BY <2>2, <2>5
  <2>7. Len(r) <= capacity
    BY <1>0, <1>1, <2>2, <2>5
  <2> QED
    BY <2>3, <2>4, <2>6, <2>7 DEF r
<1>2. CASE Len(q) # capacity
  <2>1. r = Append(q, c)
    BY <1>2 DEF DropOldest
  <2>2. /\ r \in Seq(Clouds) /\ Ascending(r) /\ AtMost(r, c)
        /\ \A b \in Int : Above(q, b) /\ b < c => Above(r, b)
    BY <2>1, AppendOrdered
  <2>3. /\ Len(r) = Len(q) + 1
        /\ \A i \in 1 .. Len(q) + 1 : r[i] = IF i <= Len(q) THEN q[i] ELSE c
    BY <2>1, PutLast
  <2> HIDE DEF r
  <2>4. ASSUME NEW i \in 1 .. Len(r)
        PROVE  r[i] = c \/ \E j \in 1 .. Len(q) : r[i] = q[j]
    BY <1>0, <2>3
  <2>5. Len(r) <= capacity
    BY <1>0, <1>2, <2>3
  <2> QED
    BY <2>2, <2>4, <2>5 DEF r
<1> QED
  BY <1>1, <1>2

LEMMA DropNewestOrdered ==
  ASSUME NEW q \in Seq(Clouds), NEW capacity \in Nat \ {0}, Len(q) <= capacity,
         NEW c \in Clouds, Ascending(q), Below(q, c)
  PROVE  LET r == DropNewest(q, capacity, c)
         IN  /\ r \in Seq(Clouds) /\ Len(r) <= capacity /\ Ascending(r) /\ AtMost(r, c)
             /\ \A b \in Int : Above(q, b) /\ b < c => Above(r, b)
             /\ \A i \in 1 .. Len(r) : r[i] = c \/ \E j \in 1 .. Len(q) : r[i] = q[j]
<1> DEFINE r == DropNewest(q, capacity, c)
<1>0. c \in Int /\ Len(q) \in Nat
  BY DEF Clouds
<1>1. CASE Len(q) = capacity
  <2>1. r = q
    BY <1>1 DEF DropNewest
  <2>2. AtMost(q, c)
    BY <1>0, ElementsAreInts DEF Below, AtMost
  <2> QED
    BY <2>1, <2>2
<1>2. CASE Len(q) # capacity
  <2>1. r = Append(q, c)
    BY <1>2 DEF DropNewest
  <2>2. /\ r \in Seq(Clouds) /\ Ascending(r) /\ AtMost(r, c)
        /\ \A b \in Int : Above(q, b) /\ b < c => Above(r, b)
    BY <2>1, AppendOrdered
  <2>3. /\ Len(r) = Len(q) + 1
        /\ \A i \in 1 .. Len(q) + 1 : r[i] = IF i <= Len(q) THEN q[i] ELSE c
    BY <2>1, PutLast
  <2> HIDE DEF r
  <2>4. ASSUME NEW i \in 1 .. Len(r)
        PROVE  r[i] = c \/ \E j \in 1 .. Len(q) : r[i] = q[j]
    BY <1>0, <2>3
  <2>5. Len(r) <= capacity
    BY <1>0, <1>2, <2>3
  <2> QED
    BY <2>2, <2>4, <2>5 DEF r
<1> QED
  BY <1>1, <1>2
-----------------------------------------------------------------------------
(************************** the inductive invariant ************************)

Treatments == {<<>>, <<"scaled">>, <<"reduced">>, <<"scaled", "reduced">>}

Types ==
    /\ TypeOK
    /\ steps \in [Clouds -> Treatments] /\ copied \in Treatments
    /\ cloudBuffer \in Seq(Clouds) /\ bridgeBuffer \in Seq(Clouds)
    /\ sendBuffer \in Seq(Clouds) /\ registered \in Seq(Clouds)
    /\ sent \in Seq([cloud : Clouds, steps : Treatments \cup {Torn}])
    /\ pre # "pop" => preCloud # 0
    /\ cb # "pop" => cbCloud # 0
    /\ sender # "pop" => sentCloud # 0

\* Preprocessing has its cloud in hands and has not put it into the bridge.
Unpushed == {"scale", "sendOriginal", "reduce", "push"}

\* What waits for Preprocessing is younger than what it works on, ...
InOrderToPreprocessing ==
    /\ preCloud <= captured
    /\ Ascending(cloudBuffer) /\ AtMost(cloudBuffer, captured) /\ Above(cloudBuffer, preCloud)

\* ... what waits for the callback is older than that, and younger than what ...
InOrderToCallback ==
    /\ Ascending(bridgeBuffer) /\ Above(bridgeBuffer, cbCloud)
    /\ AtMost(bridgeBuffer, preCloud) /\ cbCloud <= preCloud
    /\ pre \in Unpushed => Below(bridgeBuffer, preCloud) /\ cbCloud < preCloud

\* ... the callback has; what is registered is not younger than that.
InOrderRegistered ==
    /\ Ascending(registered) /\ AtMost(registered, cbCloud)
    /\ cb = "register" => Below(registered, cbCloud)

\* The thread that sends has left cloud c behind.
Passed(c) ==
    \/ config.send = "original" /\ (c < preCloud \/ (c = preCloud /\ pre \notin {"scale", "sendOriginal"}))
    \/ config.send = "preprocessed" /\ (c < preCloud \/ (c = preCloud /\ pre = "pop"))
    \/ config.send = "registered" /\ (c < cbCloud \/ (c = cbCloud /\ cb = "pop"))

\* What waits for the sender was passed and is younger than what it has, which
\* is younger than all it has sent.
InOrderToSender ==
    /\ \A i \in 1 .. Len(sendBuffer) : Passed(sendBuffer[i]) /\ sentCloud < sendBuffer[i]
    /\ sentCloud # 0 => Passed(sentCloud)
    /\ \A i, j \in 1 .. Len(sent) : i < j => sent[i].cloud < sent[j].cloud
    /\ \A i \in 1 .. Len(sent) : sent[i].cloud <= sentCloud
    /\ sender # "pop" => \A i \in 1 .. Len(sent) : sent[i].cloud < sentCloud

\* The clouds that Preprocessing has not had are as they came; the one it has is
\* treated as far as it got; the ones it handed on are as they shall be.
TreatedSoFar ==
    /\ \A c \in Clouds : c > preCloud => steps[c] = <<>>
    /\ pre = "scale" => steps[preCloud] = <<>>
    /\ pre \in {"sendOriginal", "reduce"} =>
           steps[preCloud] = IF config.scale THEN <<"scaled">> ELSE <<>>
    /\ pre \in {"push", "sendPreprocessed"} => steps[preCloud] = Preprocessed
    /\ \A i \in 1 .. Len(bridgeBuffer) : steps[bridgeBuffer[i]] = Preprocessed
    /\ cbCloud # 0 => steps[cbCloud] = Preprocessed

TreatedWhenSent ==
    config.send # "original" =>
        /\ \A i \in 1 .. Len(sendBuffer) : steps[sendBuffer[i]] = Preprocessed
        /\ sentCloud # 0 => steps[sentCloud] = Preprocessed
        /\ sender = "send" => copied = Preprocessed
        /\ \A i \in 1 .. Len(sent) : sent[i].steps = Preprocessed

IInv ==
    /\ Types
    /\ InOrderToPreprocessing /\ InOrderToCallback /\ InOrderRegistered
    /\ InOrderToSender
    /\ TreatedSoFar /\ TreatedWhenSent

-----------------------------------------------------------------------------
(***************************** initial states ******************************)

LEMMA InitIInv == Init => IInv
<1> SUFFICES ASSUME Init PROVE IInv
  OBVIOUS
<1>0. Len(<<>>) = 0 /\ \A q : q = <<>> => \A i \in 1 .. Len(q) : FALSE
  OBVIOUS
<1>1. <<>> \in Queues
  <2> PICK q : q = <<>>
    OBVIOUS
  <2>1. q \in Seq(Clouds) /\ Len(q) <= BufferSize
    BY BufferSizeAssumption
  <2> QED
    BY <2>1, QueuesAreSeqs
<1>2. Types
  BY <1>1, NumCloudsAssumption DEF Init, Types, TypeOK, Treatments, Clouds
<1>3. InOrderToPreprocessing /\ InOrderToCallback /\ InOrderRegistered
  BY <1>0 DEF Init, InOrderToPreprocessing, InOrderToCallback, InOrderRegistered,
              Ascending, AtMost, Above, Below, Unpushed
<1>4. InOrderToSender
  BY <1>0 DEF Init, InOrderToSender
<1>5. TreatedSoFar
  BY <1>0 DEF Init, TreatedSoFar
<1>6. TreatedWhenSent
  BY <1>0 DEF Init, TreatedWhenSent
<1> QED
  BY <1>2, <1>3, <1>4, <1>5, <1>6 DEF IInv

LEMMA IInvImplies == IInv => ArriveInOrder
<1> SUFFICES ASSUME IInv PROVE ArriveInOrder
  OBVIOUS
<1>1. TypeOK
  BY DEF IInv, Types
<1>2. RegistersPreprocessed
  BY DEF IInv, Types, TreatedSoFar, RegistersPreprocessed
<1>3. SendsPreprocessed
  BY DEF IInv, TreatedWhenSent, SendsPreprocessed
<1>4. Ascending(registered)
  BY DEF IInv, InOrderRegistered
<1>5. Ascending([i \in 1 .. Len(sent) |-> sent[i].cloud])
  <2>1. Len(sent) \in Nat
    BY DEF IInv, Types
  <2>2. PICK s : s = [i \in 1 .. Len(sent) |-> sent[i].cloud]
    OBVIOUS
  <2>3. Len(s) = Len(sent) /\ \A i \in 1 .. Len(sent) : s[i] = sent[i].cloud
    BY <2>1, <2>2
  <2> QED
    BY <2>2, <2>3 DEF Ascending, IInv, InOrderToSender
<1> QED
  BY <1>1, <1>2, <1>3, <1>4, <1>5 DEF ArriveInOrder
-----------------------------------------------------------------------------
(******************************* the sources *******************************)

LEMMA SourceStep == ASSUME IInv, DriverPush \/ ReceiverPush PROVE IInv'
<1>1. /\ captured \in Int /\ captured + 1 \in Clouds /\ captured' = captured + 1
      /\ preCloud \in Int /\ preCloud < captured + 1
  BY NumCloudsAssumption DEF IInv, Types, TypeOK, InOrderToPreprocessing, DriverPush, ReceiverPush, Clouds
<1>2. /\ cloudBuffer \in Seq(Clouds) /\ Len(cloudBuffer) <= BufferSize
      /\ Ascending(cloudBuffer) /\ Above(cloudBuffer, preCloud)
  BY QueuesAreSeqs DEF IInv, Types, TypeOK, InOrderToPreprocessing
<1>3. Below(cloudBuffer, captured + 1)
  <2>1. AtMost(cloudBuffer, captured) /\ \A i \in 1 .. Len(cloudBuffer) : cloudBuffer[i] \in Int
    BY <1>2, ElementsAreInts DEF IInv, InOrderToPreprocessing
  <2> QED
    BY <1>1, <2>1 DEF AtMost, Below
<1>4. /\ cloudBuffer' \in Seq(Clouds) /\ Len(cloudBuffer') <= BufferSize
      /\ Ascending(cloudBuffer') /\ AtMost(cloudBuffer', captured') /\ Above(cloudBuffer', preCloud)
  <2>1. CASE cloudBuffer' = DropOldest(cloudBuffer, BufferSize, captured + 1)
    BY <1>1, <1>2, <1>3, <2>1, DropOldestOrdered, BufferSizeAssumption
  <2>2. CASE cloudBuffer' = DropNewest(cloudBuffer, BufferSize, captured + 1)
    BY <1>1, <1>2, <1>3, <2>2, DropNewestOrdered, BufferSizeAssumption
  <2> QED
    BY <2>1, <2>2 DEF DriverPush, ReceiverPush
<1>5. /\ UNCHANGED <<config, steps, bridgeBuffer, sendBuffer, preVars, cbVars, sendVars>>
      /\ queued' \in {queued, captured + 1}
  BY DEF DriverPush, ReceiverPush
<1>6. Types'
  <2>1. cloudBuffer' \in Queues
    BY <1>4, QueuesAreSeqs
  <2>2. captured' \in 0 .. NumClouds /\ queued' \in 0 .. NumClouds
    BY <1>1, <1>5, NumCloudsAssumption DEF IInv, Types, TypeOK, Clouds
  <2> QED
    BY <1>4, <1>5, <2>1, <2>2 DEF IInv, Types, TypeOK, preVars, cbVars, sendVars
<1>7. InOrderToPreprocessing'
  BY <1>1, <1>4, <1>5 DEF InOrderToPreprocessing, preVars
<1>8. InOrderToCallback' /\ InOrderRegistered'
  BY <1>5 DEF IInv, InOrderToCallback, InOrderRegistered, preVars, cbVars
<1>9. InOrderToSender'
  BY <1>5 DEF IInv, InOrderToSender, Passed, preVars, cbVars, sendVars
<1>10. TreatedSoFar' /\ TreatedWhenSent'
  BY <1>5 DEF IInv, TreatedSoFar, TreatedWhenSent, Preprocessed, preVars, cbVars, sendVars
<1> QED
  BY <1>6, <1>7, <1>8, <1>9, <1>10 DEF IInv

-----------------------------------------------------------------------------
(****************************** Preprocessing ******************************)

\* The clouds that the threads have in hands, as numbers.
LEMMA Numbers ==
  ASSUME IInv
  PROVE  /\ captured \in Int /\ preCloud \in Int /\ cbCloud \in Int /\ sentCloud \in Int
         /\ preCloud >= 0 /\ cbCloud >= 0 /\ sentCloud >= 0
         /\ preCloud # 0 => preCloud \in Clouds
         /\ cbCloud # 0 => cbCloud \in Clouds
         /\ sentCloud # 0 => sentCloud \in Clouds
BY NumCloudsAssumption DEF IInv, Types, TypeOK, Clouds

LEMMA PreprocessingPopStep == ASSUME IInv, PreprocessingPop PROVE IInv'
<1>1. /\ cloudBuffer \in Seq(Clouds) /\ cloudBuffer # <<>> /\ Len(cloudBuffer) <= BufferSize
      /\ Ascending(cloudBuffer) /\ Above(cloudBuffer, preCloud) /\ AtMost(cloudBuffer, captured)
  BY QueuesAreSeqs DEF IInv, Types, TypeOK, InOrderToPreprocessing, PreprocessingPop
<1>2. /\ preCloud' = Head(cloudBuffer) /\ cloudBuffer' = Tail(cloudBuffer)
      /\ pre = "pop" /\ pre' = "scale"
      /\ UNCHANGED <<config, steps, bridgeBuffer, sendBuffer, srcVars, cbVars, sendVars>>
  BY DEF PreprocessingPop
<1>3. /\ preCloud' \in Clouds /\ cloudBuffer' \in Seq(Clouds) /\ Len(cloudBuffer') <= BufferSize
  BY <1>1, <1>2, TakeHead, BufferSizeAssumption
<1>4. /\ Ascending(cloudBuffer') /\ Above(cloudBuffer', preCloud') /\ AtMost(cloudBuffer', captured)
      /\ preCloud < preCloud' /\ preCloud' <= captured
  BY <1>1, <1>2, TakeOrdered, Numbers
<1>5. preCloud \in Int /\ cbCloud \in Int /\ preCloud' \in Int /\ preCloud' # 0
  BY <1>3, Numbers, ElementsAreInts
<1>6. Types'
  <2>1. cloudBuffer' \in Queues /\ preCloud' \in 0 .. NumClouds
    BY <1>3, QueuesAreSeqs DEF Clouds
  <2> QED
    BY <1>2, <1>3, <1>5, <2>1 DEF IInv, Types, TypeOK, srcVars, cbVars, sendVars
<1>7. InOrderToPreprocessing'
  BY <1>2, <1>4 DEF InOrderToPreprocessing, srcVars
<1>8. InOrderToCallback'
  <2>1. /\ bridgeBuffer \in Seq(Clouds) /\ Ascending(bridgeBuffer) /\ Above(bridgeBuffer, cbCloud)
        /\ AtMost(bridgeBuffer, preCloud) /\ cbCloud <= preCloud
    BY DEF IInv, Types, InOrderToCallback
  <2>2. Below(bridgeBuffer, preCloud') /\ AtMost(bridgeBuffer, preCloud') /\ cbCloud < preCloud'
    BY <1>4, <1>5, <2>1, ElementsAreInts DEF AtMost, Below
  <2> QED
    BY <1>2, <1>5, <2>1, <2>2 DEF InOrderToCallback, cbVars
<1>9. InOrderRegistered'
  BY <1>2 DEF IInv, InOrderRegistered, cbVars
<1>10. InOrderToSender'
  <2>1. ASSUME NEW c \in Int, Passed(c) PROVE Passed(c)'
    BY <1>2, <1>4, <1>5, <2>1 DEF Passed, cbVars
  <2>2. /\ \A i \in 1 .. Len(sendBuffer) : sendBuffer[i] \in Int
        /\ sentCloud \in Int
    BY Numbers, ElementsAreInts DEF IInv, Types
  <2>3. sendBuffer' = sendBuffer /\ sentCloud' = sentCloud /\ sent' = sent /\ sender' = sender
    BY <1>2 DEF sendVars
  <2> QED
    BY <2>1, <2>2, <2>3 DEF IInv, InOrderToSender
<1>11. TreatedSoFar'
  BY <1>2, <1>3, <1>4, <1>5, ElementsAreInts DEF IInv, TreatedSoFar, Preprocessed, cbVars
<1>12. TreatedWhenSent'
  BY <1>2 DEF IInv, TreatedWhenSent, Preprocessed, sendVars
<1> QED
  BY <1>6, <1>7, <1>8, <1>9, <1>10, <1>11, <1>12 DEF IInv

\* While Preprocessing changes the points of its cloud nobody else has that cloud,
\* unless it is sent as it came.
LEMMA NobodyElseHasIt ==
  ASSUME IInv, pre \in Unpushed
  PROVE  /\ preCloud \in Clouds
         /\ \A i \in 1 .. Len(bridgeBuffer) : bridgeBuffer[i] \in Clouds /\ bridgeBuffer[i] # preCloud
         /\ cbCloud # preCloud
         /\ config.send # "original" =>
              /\ \A i \in 1 .. Len(sendBuffer) : sendBuffer[i] \in Clouds /\ sendBuffer[i] # preCloud
              /\ sentCloud # preCloud
<1>1. preCloud \in Clouds /\ preCloud \in Int /\ preCloud # 0 /\ cbCloud \in Int /\ sentCloud \in Int
  BY Numbers DEF IInv, Types, Unpushed
<1>2. /\ \A i \in 1 .. Len(bridgeBuffer) : bridgeBuffer[i] \in Clouds /\ bridgeBuffer[i] \in Int
      /\ \A i \in 1 .. Len(sendBuffer) : sendBuffer[i] \in Clouds /\ sendBuffer[i] \in Int
  BY ElementsAreInts DEF IInv, Types
<1>3. cbCloud < preCloud /\ \A i \in 1 .. Len(bridgeBuffer) : bridgeBuffer[i] < preCloud
  BY DEF IInv, InOrderToCallback, Below
<1>4. ASSUME config.send # "original", NEW c \in Int, Passed(c) PROVE c # preCloud
  BY <1>1, <1>3, <1>4 DEF Passed, Unpushed
<1>5. ASSUME config.send # "original"
      PROVE  /\ \A i \in 1 .. Len(sendBuffer) : sendBuffer[i] # preCloud
             /\ sentCloud # preCloud
  <2>1. \A i \in 1 .. Len(sendBuffer) : Passed(sendBuffer[i])
    BY DEF IInv, InOrderToSender
  <2>2. sentCloud # 0 => Passed(sentCloud)
    BY DEF IInv, InOrderToSender
  <2> QED
    BY <1>1, <1>2, <1>4, <1>5, <2>1, <2>2
<1> QED
  BY <1>1, <1>2, <1>3, <1>5

\* What Scale and Reduce have in common: Preprocessing goes on, with one treatment
\* more on its cloud.
LEMMA TreatStep ==
  ASSUME IInv, pre \in {"scale", "reduce"}, pre' \in {"sendOriginal", "push"},
         pre = "reduce" => pre' = "push",
         steps' \in [Clouds -> Treatments],
         \A c \in Clouds : c # preCloud => steps'[c] = steps[c],
         pre' = "sendOriginal" => steps'[preCloud] = IF config.scale THEN <<"scaled">> ELSE <<>>,
         pre' = "push" => steps'[preCloud] = Preprocessed,
         UNCHANGED <<config, cloudBuffer, bridgeBuffer, sendBuffer, preCloud, srcVars, cbVars, sendVars>>
  PROVE  IInv'
<1> USE DEF srcVars, cbVars, sendVars
<1>1. /\ preCloud \in Clouds
      /\ \A i \in 1 .. Len(bridgeBuffer) : bridgeBuffer[i] \in Clouds /\ bridgeBuffer[i] # preCloud
      /\ cbCloud # preCloud
      /\ config.send # "original" =>
           /\ \A i \in 1 .. Len(sendBuffer) : sendBuffer[i] \in Clouds /\ sendBuffer[i] # preCloud
           /\ sentCloud # preCloud
  BY NobodyElseHasIt DEF Unpushed
<1>2. /\ preCloud \in Int /\ preCloud # 0
      /\ sentCloud # 0 => sentCloud \in Clouds
      /\ cbCloud # 0 => cbCloud \in Clouds
  BY <1>1, ElementsAreInts, Numbers
<1>3. Types'
  <2>1. \A c \in Clouds : steps'[c] \in {<<>>, <<"scaled">>, <<"reduced">>, <<"scaled", "reduced">>}
    BY DEF Treatments
  <2> QED
    BY <1>2, <2>1 DEF IInv, Types, TypeOK
<1>4. InOrderToPreprocessing'
  BY DEF IInv, InOrderToPreprocessing
<1>5. InOrderToCallback'
  BY DEF IInv, InOrderToCallback, Unpushed
<1>6. InOrderRegistered'
  BY DEF IInv, InOrderRegistered
<1>7. InOrderToSender'
  <2>1. ASSUME NEW c, Passed(c) PROVE Passed(c)'
    BY <2>1 DEF Passed
  <2> QED
    BY <2>1 DEF IInv, InOrderToSender
<1>8. TreatedSoFar'
  <2>1. /\ \A c \in Clouds : c > preCloud => steps'[c] = <<>>
        /\ \A i \in 1 .. Len(bridgeBuffer) : steps'[bridgeBuffer[i]] = Preprocessed
        /\ cbCloud # 0 => steps'[cbCloud] = Preprocessed
    BY <1>1, <1>2, ElementsAreInts DEF IInv, TreatedSoFar
  <2> QED
    BY <2>1 DEF TreatedSoFar, Preprocessed
<1>9. TreatedWhenSent'
  <2>1. ASSUME config.send # "original"
        PROVE  /\ \A i \in 1 .. Len(sendBuffer) : steps'[sendBuffer[i]] = Preprocessed
               /\ sentCloud # 0 => steps'[sentCloud] = Preprocessed
    BY <1>1, <1>2, <2>1 DEF IInv, TreatedWhenSent
  <2> QED
    BY <2>1 DEF IInv, TreatedWhenSent, Preprocessed
<1> QED
  BY <1>3, <1>4, <1>5, <1>6, <1>7, <1>8, <1>9 DEF IInv

LEMMA TreatOne ==
  ASSUME NEW f \in [Clouds -> Treatments], NEW c \in Clouds, NEW t \in Treatments
  PROVE  /\ [f EXCEPT ![c] = t] \in [Clouds -> Treatments]
         /\ [f EXCEPT ![c] = t][c] = t
         /\ \A b \in Clouds : b # c => [f EXCEPT ![c] = t][b] = f[b]
OBVIOUS

LEMMA ScaleStep == ASSUME IInv, Scale PROVE IInv'
<1>1. /\ pre = "scale" /\ pre' = "sendOriginal"
      /\ UNCHANGED <<config, cloudBuffer, bridgeBuffer, sendBuffer, preCloud, srcVars, cbVars, sendVars>>
  BY DEF Scale
<1>2. preCloud \in Clouds /\ steps[preCloud] = <<>> /\ steps \in [Clouds -> Treatments]
  BY <1>1, NobodyElseHasIt DEF IInv, Types, TreatedSoFar, Unpushed
<1>3. /\ steps' \in [Clouds -> Treatments]
      /\ \A c \in Clouds : c # preCloud => steps'[c] = steps[c]
      /\ steps'[preCloud] = IF config.scale THEN <<"scaled">> ELSE <<>>
  <2>1. CASE config.scale
    <3>1. Append(steps[preCloud], "scaled") = <<"scaled">> /\ <<"scaled">> \in Treatments
      BY <1>2 DEF Treatments
    <3>2. steps' = [steps EXCEPT ![preCloud] = <<"scaled">>]
      BY <2>1, <3>1 DEF Scale, Done
    <3> QED
      BY <1>2, <2>1, <3>1, <3>2, TreatOne
  <2>2. CASE ~config.scale
    BY <1>2, <2>2 DEF Scale
  <2> QED
    BY <2>1, <2>2
<1> QED
  BY <1>1, <1>3, TreatStep

LEMMA ScaledThenReduced == Append(<<"scaled">>, "reduced") = <<"scaled", "reduced">>
<1> DEFINE S == {"scaled", "reduced"}
<1>1. PICK s : s = <<"scaled">>
  OBVIOUS
<1>2. PICK r : r = Append(s, "reduced")
  OBVIOUS
<1>3. PICK t : t = <<"scaled", "reduced">>
  OBVIOUS
<1>4. s \in Seq(S) /\ Len(s) = 1 /\ s[1] = "scaled"
  BY <1>1
<1>5. r \in Seq(S) /\ Len(r) = 2 /\ r[1] = "scaled" /\ r[2] = "reduced"
  BY <1>1, <1>2, <1>4
<1>6. t \in Seq(S) /\ Len(t) = 2 /\ t[1] = "scaled" /\ t[2] = "reduced"
  BY <1>3
<1>7. r = t
  BY <1>5, <1>6
<1> QED
  BY <1>1, <1>2, <1>3, <1>7

LEMMA ReduceStep == ASSUME IInv, Reduce PROVE IInv'
<1>1. /\ pre = "reduce" /\ pre' = "push"
      /\ UNCHANGED <<config, cloudBuffer, bridgeBuffer, sendBuffer, preCloud, srcVars, cbVars, sendVars>>
  BY DEF Reduce
<1>2. /\ preCloud \in Clouds /\ steps \in [Clouds -> Treatments]
      /\ steps[preCloud] = IF config.scale THEN <<"scaled">> ELSE <<>>
  BY <1>1, NobodyElseHasIt DEF IInv, Types, TreatedSoFar, Unpushed
<1>3. Append(steps[preCloud], "reduced") = Preprocessed /\ Preprocessed \in Treatments
  <2>1. CASE config.scale
    BY <1>2, <2>1, ScaledThenReduced, Zenon DEF Preprocessed, Treatments
  <2>2. CASE ~config.scale
    <3>1. Append(<<>>, "reduced") = <<"reduced">>
      OBVIOUS
    <3> QED
      BY <1>2, <2>2, <3>1, Zenon DEF Preprocessed, Treatments
  <2> QED
    BY <2>1, <2>2
<1>4. steps' = [steps EXCEPT ![preCloud] = Preprocessed]
  BY <1>3 DEF Reduce, Done
<1>5. /\ steps' \in [Clouds -> Treatments]
      /\ \A c \in Clouds : c # preCloud => steps'[c] = steps[c]
      /\ steps'[preCloud] = Preprocessed
  BY <1>2, <1>3, <1>4, TreatOne
<1> QED
  BY <1>1, <1>5, TreatStep

LEMMA PreprocessingPushStep == ASSUME IInv, PreprocessingPush PROVE IInv'
<1>1. /\ pre = "push" /\ pre' = "sendPreprocessed"
      /\ bridgeBuffer' = DropOldest(bridgeBuffer, BufferSize, preCloud)
      /\ UNCHANGED <<config, steps, cloudBuffer, sendBuffer, preCloud, srcVars, cbVars, sendVars>>
  BY DEF PreprocessingPush, PushToBridge
<1>2. /\ preCloud \in Clouds /\ preCloud # 0 /\ cbCloud \in Int /\ cbCloud < preCloud
      /\ bridgeBuffer \in Seq(Clouds) /\ Len(bridgeBuffer) <= BufferSize
      /\ Ascending(bridgeBuffer) /\ Above(bridgeBuffer, cbCloud) /\ Below(bridgeBuffer, preCloud)
  BY <1>1, NobodyElseHasIt, Numbers, QueuesAreSeqs
     DEF IInv, Types, TypeOK, InOrderToCallback, Unpushed
<1>3. /\ bridgeBuffer' \in Seq(Clouds) /\ Len(bridgeBuffer') <= BufferSize
      /\ Ascending(bridgeBuffer') /\ AtMost(bridgeBuffer', preCloud) /\ Above(bridgeBuffer', cbCloud)
      /\ \A i \in 1 .. Len(bridgeBuffer') :
           bridgeBuffer'[i] = preCloud \/ \E j \in 1 .. Len(bridgeBuffer) : bridgeBuffer'[i] = bridgeBuffer[j]
  BY <1>1, <1>2, DropOldestOrdered, BufferSizeAssumption
<1>4. Types'
  <2>1. bridgeBuffer' \in Queues
    BY <1>3, QueuesAreSeqs
  <2> QED
    BY <1>1, <1>2, <1>3, <2>1 DEF IInv, Types, TypeOK, srcVars, cbVars, sendVars
<1>5. InOrderToPreprocessing'
  BY <1>1 DEF IInv, InOrderToPreprocessing, srcVars
<1>6. InOrderToCallback'
  <2>1. preCloud \in Int
    BY Numbers
  <2> QED
    BY <1>1, <1>2, <1>3, <2>1 DEF InOrderToCallback, Unpushed, cbVars
<1>7. InOrderRegistered'
  BY <1>1 DEF IInv, InOrderRegistered, cbVars
<1>8. InOrderToSender'
  <2>1. ASSUME NEW c, Passed(c) PROVE Passed(c)'
    BY <1>1, <2>1 DEF Passed, cbVars
  <2> QED
    BY <1>1, <2>1 DEF IInv, InOrderToSender, sendVars
<1>9. TreatedSoFar'
  <2>1. \A i \in 1 .. Len(bridgeBuffer') : steps[bridgeBuffer'[i]] = Preprocessed
    BY <1>1, <1>3 DEF IInv, TreatedSoFar
  <2> QED
    BY <1>1, <2>1 DEF IInv, TreatedSoFar, Preprocessed, cbVars
<1>10. TreatedWhenSent'
  BY <1>1 DEF IInv, TreatedWhenSent, Preprocessed, sendVars
<1> QED
  BY <1>4, <1>5, <1>6, <1>7, <1>8, <1>9, <1>10 DEF IInv

\* A cloud that one thread puts into the buffer for the sender.
LEMMA SendBufferHolds ==
  ASSUME NEW q \in Seq(Clouds), Len(q) <= 1, NEW c \in Clouds, NEW r,
         r = DropNewest(q, 1, c) \/ r = DropOldest(q, 1, c)
  PROVE  /\ r \in Seq(Clouds) /\ Len(r) <= 1
         /\ \A i \in 1 .. Len(r) : r[i] = c \/ \E j \in 1 .. Len(q) : r[i] = q[j]
<1>0. PICK n \in Nat : n = Len(q) /\ n <= 1
  OBVIOUS
<1>1. CASE Len(q) = 1
  <2>1. PICK t : t = Tail(q)
    OBVIOUS
  <2>2. t \in Seq(Clouds) /\ Len(t) = 0
    <3>1. q # <<>>
      BY <1>1
    <3>2. Tail(q) \in Seq(Clouds) /\ Len(Tail(q)) = Len(q) - 1
      BY <3>1, TakeHead
    <3> QED
      BY <1>1, <2>1, <3>2
  <2>3. CASE r = q
    BY <1>1, <2>3
  <2>4. CASE r = Append(t, c)
    <3>1. r \in Seq(Clouds) /\ Len(r) = 1 /\ r[1] = c
      BY <2>2, <2>4
    <3> QED
      BY <3>1
  <2> QED
    BY <1>1, <2>1, <2>3, <2>4 DEF DropNewest, DropOldest
<1>2. CASE Len(q) # 1
  <2>1. r = Append(q, c)
    BY <1>2 DEF DropNewest, DropOldest
  <2>2. Len(q) = 0
    BY <1>0, <1>2
  <2>3. r \in Seq(Clouds) /\ Len(r) = 1 /\ r[1] = c
    BY <2>1, <2>2
  <2> QED
    BY <2>3
<1> QED
  BY <1>1, <1>2

\* What the steps that send have in common: cloud c, which is younger than what the
\* sender has, is passed with the step, and may get into the buffer.
LEMMA SendOrdered ==
  ASSUME IInv, NEW c \in Clouds,
         \A b \in Clouds : Passed(b) => Passed(b)',
         UNCHANGED <<config, steps, sendVars>>,
         sendBuffer' = sendBuffer \/
           /\ sendBuffer' \in {DropNewest(sendBuffer, 1, c), DropOldest(sendBuffer, 1, c)}
           /\ Passed(c)' /\ sentCloud < c
           /\ config.send # "original" => steps[c] = Preprocessed
  PROVE  /\ sendBuffer' \in Seq(Clouds) /\ Len(sendBuffer') <= 1
         /\ InOrderToSender' /\ TreatedWhenSent'
<1>1. sendBuffer \in Seq(Clouds) /\ Len(sendBuffer) <= 1
  BY DEF IInv, Types, TypeOK
<1>2. /\ sendBuffer' \in Seq(Clouds) /\ Len(sendBuffer') <= 1
      /\ \A i \in 1 .. Len(sendBuffer') :
           \/ \E j \in 1 .. Len(sendBuffer) : sendBuffer'[i] = sendBuffer[j]
           \/ /\ sendBuffer'[i] = c /\ Passed(c)' /\ sentCloud < c
              /\ config.send # "original" => steps[c] = Preprocessed
  <2>1. PICK q : q = sendBuffer
    OBVIOUS
  <2>2. q \in Seq(Clouds) /\ Len(q) <= 1
    BY <1>1, <2>1
  <2>3. CASE sendBuffer' = q
    BY <2>1, <2>2, <2>3
  <2>4. CASE sendBuffer' # q
    <3>1. PICK r : r = sendBuffer'
      OBVIOUS
    <3>2. r = DropNewest(q, 1, c) \/ r = DropOldest(q, 1, c)
      BY <2>1, <2>4, <3>1
    <3>3. /\ r \in Seq(Clouds) /\ Len(r) <= 1
          /\ \A i \in 1 .. Len(r) : r[i] = c \/ \E j \in 1 .. Len(q) : r[i] = q[j]
      BY <2>2, <3>2, SendBufferHolds
    <3> QED
      BY <2>1, <2>4, <3>1, <3>3
  <2> QED
    BY <2>3, <2>4
<1>3. ASSUME NEW i \in 1 .. Len(sendBuffer')
      PROVE  Passed(sendBuffer[i])' /\ sentCloud < sendBuffer'[i]
  <2>1. PICK d : d = sendBuffer'[i]
    OBVIOUS
  <2>2. Passed(d)' /\ sentCloud < d
    <3>1. CASE \E j \in 1 .. Len(sendBuffer) : sendBuffer'[i] = sendBuffer[j]
      <4>1. PICK j \in 1 .. Len(sendBuffer) : d = sendBuffer[j]
        BY <2>1, <3>1
      <4>2. Passed(sendBuffer[j]) /\ sentCloud < sendBuffer[j]
        BY DEF IInv, InOrderToSender
      <4>3. d \in Clouds /\ Passed(d) /\ sentCloud < d
        BY <1>1, <4>1, <4>2, ElementsAreInts DEF Passed
      <4> QED
        BY <4>3
    <3>2. CASE d = c /\ Passed(c)' /\ sentCloud < c
      BY <3>2
    <3> QED
      BY <1>2, <2>1, <3>1, <3>2
  <2>3. Passed(sendBuffer[i])' = Passed(d)'
    BY <2>1 DEF Passed
  <2> QED
    BY <2>1, <2>2, <2>3
<1>4. InOrderToSender'
  <2>1. sentCloud' # 0 => Passed(sentCloud)'
    <3>1. PICK b : b = sentCloud
      OBVIOUS
    <3>2. b # 0 => b \in Clouds /\ Passed(b)
      BY <3>1, Numbers DEF IInv, InOrderToSender
    <3>3. sentCloud' = b
      BY <3>1 DEF sendVars
    <3> QED
      BY <3>2, <3>3
  <2>2. \A i \in 1 .. Len(sendBuffer') : Passed(sendBuffer[i])' /\ sentCloud' < sendBuffer'[i]
    BY <1>3 DEF sendVars
  <2> QED
    BY <2>1, <2>2 DEF IInv, InOrderToSender, sendVars
<1>5. TreatedWhenSent'
  <2>1. config.send # "original" => \A i \in 1 .. Len(sendBuffer') : steps[sendBuffer'[i]] = Preprocessed
    BY <1>2 DEF IInv, TreatedWhenSent
  <2> QED
    BY <2>1 DEF IInv, TreatedWhenSent, Preprocessed, sendVars
<1> QED
  BY <1>2, <1>4, <1>5

LEMMA SendOriginalStep == ASSUME IInv, SendOriginal PROVE IInv'
<1>1. /\ pre = "sendOriginal" /\ pre' = "reduce"
      /\ UNCHANGED <<config, steps, cloudBuffer, bridgeBuffer, preCloud, srcVars, cbVars, sendVars>>
  BY DEF SendOriginal
<1>2. preCloud \in Clouds /\ preCloud \in Int /\ preCloud # 0
  BY <1>1, NobodyElseHasIt, ElementsAreInts DEF Unpushed
<1>3. \A b \in Clouds : Passed(b) => Passed(b)'
  BY <1>1 DEF Passed, cbVars
<1>4. \/ sendBuffer' = sendBuffer
      \/ /\ sendBuffer' = DropNewest(sendBuffer, 1, preCloud)
         /\ Passed(preCloud)' /\ sentCloud < preCloud /\ config.send = "original"
  <2>1. CASE config.send = "original"
    <3>1. sentCloud # 0 => Passed(sentCloud)
      BY DEF IInv, InOrderToSender
    <3>2. sentCloud < preCloud
      BY <1>1, <1>2, <2>1, <3>1, Numbers DEF Passed
    <3>3. Passed(preCloud)'
      BY <1>1, <2>1 DEF Passed
    <3> QED
      BY <2>1, <3>2, <3>3 DEF SendOriginal
  <2>2. CASE config.send # "original"
    BY <2>2 DEF SendOriginal
  <2> QED
    BY <2>1, <2>2
<1>5. /\ sendBuffer' \in Seq(Clouds) /\ Len(sendBuffer') <= 1
      /\ InOrderToSender' /\ TreatedWhenSent'
  <2>1. PICK c : c = preCloud
    OBVIOUS
  <2>2. Passed(preCloud)' = Passed(c)'
    BY <1>1, <2>1 DEF Passed
  <2> QED
    BY <1>1, <1>2, <1>3, <1>4, <2>1, <2>2, SendOrdered
<1>6. Types'
  BY <1>1, <1>2, <1>5 DEF IInv, Types, TypeOK, srcVars, cbVars, sendVars
<1>7. InOrderToPreprocessing' /\ InOrderToCallback' /\ InOrderRegistered'
  BY <1>1 DEF IInv, InOrderToPreprocessing, InOrderToCallback, InOrderRegistered, Unpushed, srcVars, cbVars
<1>8. TreatedSoFar'
  BY <1>1 DEF IInv, TreatedSoFar, Preprocessed, cbVars
<1> QED
  BY <1>5, <1>6, <1>7, <1>8 DEF IInv

LEMMA SendPreprocessedStep == ASSUME IInv, SendPreprocessed PROVE IInv'
<1>1. /\ pre = "sendPreprocessed" /\ pre' = "pop"
      /\ UNCHANGED <<config, steps, cloudBuffer, bridgeBuffer, preCloud, srcVars, cbVars, sendVars>>
  BY DEF SendPreprocessed
<1>2. preCloud \in Clouds /\ preCloud \in Int /\ preCloud # 0
  BY <1>1, Numbers DEF IInv, Types
<1>3. \A b \in Clouds : Passed(b) => Passed(b)'
  BY <1>1 DEF Passed, cbVars
<1>4. \/ sendBuffer' = sendBuffer
      \/ /\ sendBuffer' = DropNewest(sendBuffer, 1, preCloud)
         /\ Passed(preCloud)' /\ sentCloud < preCloud /\ steps[preCloud] = Preprocessed
  <2>1. CASE config.send = "preprocessed"
    <3>1. sentCloud # 0 => Passed(sentCloud)
      BY DEF IInv, InOrderToSender
    <3>2. sentCloud < preCloud
      BY <1>1, <1>2, <2>1, <3>1, Numbers DEF Passed
    <3>3. Passed(preCloud)' /\ steps[preCloud] = Preprocessed
      BY <1>1, <2>1 DEF Passed, IInv, TreatedSoFar
    <3> QED
      BY <2>1, <3>2, <3>3 DEF SendPreprocessed
  <2>2. CASE config.send # "preprocessed"
    BY <2>2 DEF SendPreprocessed
  <2> QED
    BY <2>1, <2>2
<1>5. /\ sendBuffer' \in Seq(Clouds) /\ Len(sendBuffer') <= 1
      /\ InOrderToSender' /\ TreatedWhenSent'
  <2>1. PICK c : c = preCloud
    OBVIOUS
  <2>2. Passed(preCloud)' = Passed(c)'
    BY <1>1, <2>1 DEF Passed
  <2> QED
    BY <1>1, <1>2, <1>3, <1>4, <2>1, <2>2, SendOrdered
<1>6. Types'
  BY <1>1, <1>2, <1>5 DEF IInv, Types, TypeOK, srcVars, cbVars, sendVars
<1>7. InOrderToPreprocessing' /\ InOrderToCallback' /\ InOrderRegistered'
  BY <1>1 DEF IInv, InOrderToPreprocessing, InOrderToCallback, InOrderRegistered, Unpushed, srcVars, cbVars
<1>8. TreatedSoFar'
  BY <1>1 DEF IInv, TreatedSoFar, Preprocessed, cbVars
<1> QED
  BY <1>5, <1>6, <1>7, <1>8 DEF IInv

-----------------------------------------------------------------------------
(****************************** the callback *******************************)

LEMMA CallbackPopStep == ASSUME IInv, CallbackPop PROVE IInv'
<1>1. /\ cb = "pop" /\ cb' = "register" /\ bridgeBuffer # <<>>
      /\ cbCloud' = Head(bridgeBuffer) /\ bridgeBuffer' = Tail(bridgeBuffer)
      /\ UNCHANGED <<config, steps, cloudBuffer, sendBuffer, registered, srcVars, preVars, sendVars>>
  BY DEF CallbackPop
<1>2. /\ bridgeBuffer \in Seq(Clouds) /\ Len(bridgeBuffer) <= BufferSize
      /\ Ascending(bridgeBuffer) /\ Above(bridgeBuffer, cbCloud) /\ AtMost(bridgeBuffer, preCloud)
      /\ pre \in Unpushed => Below(bridgeBuffer, preCloud)
  BY QueuesAreSeqs DEF IInv, Types, TypeOK, InOrderToCallback
<1>3. /\ cbCloud' \in Clouds /\ cbCloud' = bridgeBuffer[1] /\ 1 \in 1 .. Len(bridgeBuffer)
      /\ bridgeBuffer' \in Seq(Clouds) /\ Len(bridgeBuffer') <= BufferSize
      /\ \A i \in 1 .. Len(bridgeBuffer') :
           bridgeBuffer'[i] = bridgeBuffer[i + 1] /\ i + 1 \in 1 .. Len(bridgeBuffer)
  BY <1>1, <1>2, TakeHead, BufferSizeAssumption
<1>4. /\ Ascending(bridgeBuffer') /\ Above(bridgeBuffer', cbCloud') /\ AtMost(bridgeBuffer', preCloud)
      /\ cbCloud < cbCloud' /\ cbCloud' <= preCloud
      /\ pre \in Unpushed => Below(bridgeBuffer', preCloud) /\ cbCloud' < preCloud
  BY <1>1, <1>2, TakeOrdered, Numbers
<1>5. cbCloud \in Int /\ cbCloud' \in Int /\ cbCloud' # 0
  BY <1>3, Numbers, ElementsAreInts
<1>6. Types'
  <2>1. bridgeBuffer' \in Queues /\ cbCloud' \in 0 .. NumClouds
    BY <1>3, QueuesAreSeqs DEF Clouds
  <2> QED
    BY <1>1, <1>3, <1>5, <2>1 DEF IInv, Types, TypeOK, srcVars, preVars, sendVars
<1>7. InOrderToPreprocessing'
  BY <1>1 DEF IInv, InOrderToPreprocessing, srcVars, preVars
<1>8. InOrderToCallback'
  BY <1>1, <1>4 DEF InOrderToCallback, preVars
<1>9. InOrderRegistered'
  <2>1. Ascending(registered) /\ AtMost(registered, cbCloud) /\ registered \in Seq(Clouds)
    BY DEF IInv, Types, InOrderRegistered
  <2>2. AtMost(registered, cbCloud') /\ Below(registered, cbCloud')
    BY <1>4, <1>5, <2>1, ElementsAreInts DEF AtMost, Below
  <2> QED
    BY <1>1, <2>1, <2>2 DEF InOrderRegistered
<1>10. InOrderToSender'
  <2>1. ASSUME NEW c \in Int, Passed(c) PROVE Passed(c)'
    BY <1>1, <1>4, <1>5, <2>1 DEF Passed, preVars
  <2>2. /\ \A i \in 1 .. Len(sendBuffer) : sendBuffer[i] \in Int
        /\ sentCloud \in Int
    BY Numbers, ElementsAreInts DEF IInv, Types
  <2>3. sendBuffer' = sendBuffer /\ sentCloud' = sentCloud /\ sent' = sent /\ sender' = sender
    BY <1>1 DEF sendVars
  <2> QED
    BY <2>1, <2>2, <2>3 DEF IInv, InOrderToSender
<1>11. TreatedSoFar'
  <2>1. \A i \in 1 .. Len(bridgeBuffer) : steps[bridgeBuffer[i]] = Preprocessed
    BY DEF IInv, TreatedSoFar
  <2>2. /\ steps[cbCloud'] = Preprocessed
        /\ \A i \in 1 .. Len(bridgeBuffer') : steps[bridgeBuffer'[i]] = Preprocessed
    BY <1>3, <2>1
  <2> QED
    BY <1>1, <2>2 DEF IInv, TreatedSoFar, Preprocessed, preVars
<1>12. TreatedWhenSent'
  BY <1>1 DEF IInv, TreatedWhenSent, Preprocessed, sendVars
<1> QED
  BY <1>6, <1>7, <1>8, <1>9, <1>10, <1>11, <1>12 DEF IInv

LEMMA RegisterStep == ASSUME IInv, Register PROVE IInv'
<1>1. /\ cb = "register" /\ cb' = "send" /\ registered' = Append(registered, cbCloud)
      /\ UNCHANGED <<config, steps, cloudBuffer, bridgeBuffer, sendBuffer, cbCloud, srcVars, preVars, sendVars>>
  BY DEF Register
<1>2. cbCloud \in Clouds /\ cbCloud # 0
  BY <1>1, Numbers DEF IInv, Types
<1>3. registered' \in Seq(Clouds) /\ Ascending(registered') /\ AtMost(registered', cbCloud)
  <2>1. registered \in Seq(Clouds) /\ Ascending(registered) /\ Below(registered, cbCloud)
    BY <1>1 DEF IInv, Types, InOrderRegistered
  <2> QED
    BY <1>1, <1>2, <2>1, AppendOrdered
<1>4. Types'
  BY <1>1, <1>2, <1>3 DEF IInv, Types, TypeOK, srcVars, preVars, sendVars
<1>5. InOrderToPreprocessing' /\ InOrderToCallback'
  BY <1>1 DEF IInv, InOrderToPreprocessing, InOrderToCallback, srcVars, preVars
<1>6. InOrderRegistered'
  BY <1>1, <1>3 DEF InOrderRegistered
<1>7. InOrderToSender'
  <2>1. ASSUME NEW c, Passed(c) PROVE Passed(c)'
    BY <1>1, <2>1 DEF Passed, preVars
  <2> QED
    BY <1>1, <2>1 DEF IInv, InOrderToSender, sendVars
<1>8. TreatedSoFar' /\ TreatedWhenSent'
  BY <1>1 DEF IInv, TreatedSoFar, TreatedWhenSent, Preprocessed, preVars, sendVars
<1> QED
  BY <1>4, <1>5, <1>6, <1>7, <1>8 DEF IInv

LEMMA SendRegisteredStep == ASSUME IInv, SendRegistered PROVE IInv'
<1>1. /\ cb = "send" /\ cb' = "pop"
      /\ UNCHANGED <<config, steps, cloudBuffer, bridgeBuffer, cbCloud, registered, srcVars, preVars, sendVars>>
  BY DEF SendRegistered
<1>2. cbCloud \in Clouds /\ cbCloud \in Int /\ cbCloud # 0
  BY <1>1, Numbers DEF IInv, Types
<1>3. \A b \in Clouds : Passed(b) => Passed(b)'
  BY <1>1 DEF Passed, preVars
<1>4. \/ sendBuffer' = sendBuffer
      \/ /\ sendBuffer' = DropOldest(sendBuffer, 1, cbCloud)
         /\ Passed(cbCloud)' /\ sentCloud < cbCloud /\ steps[cbCloud] = Preprocessed
  <2>1. CASE config.send = "registered"
    <3>1. sentCloud # 0 => Passed(sentCloud)
      BY DEF IInv, InOrderToSender
    <3>2. sentCloud < cbCloud
      BY <1>1, <1>2, <2>1, <3>1, Numbers DEF Passed
    <3>3. Passed(cbCloud)' /\ steps[cbCloud] = Preprocessed
      BY <1>1, <1>2, <2>1 DEF Passed, IInv, TreatedSoFar
    <3> QED
      BY <2>1, <3>2, <3>3 DEF SendRegistered
  <2>2. CASE config.send # "registered"
    BY <2>2 DEF SendRegistered
  <2> QED
    BY <2>1, <2>2
<1>5. /\ sendBuffer' \in Seq(Clouds) /\ Len(sendBuffer') <= 1
      /\ InOrderToSender' /\ TreatedWhenSent'
  <2>1. PICK c : c = cbCloud
    OBVIOUS
  <2>2. Passed(cbCloud)' = Passed(c)'
    BY <1>1, <2>1 DEF Passed
  <2> QED
    BY <1>1, <1>2, <1>3, <1>4, <2>1, <2>2, SendOrdered
<1>6. Types'
  BY <1>1, <1>2, <1>5 DEF IInv, Types, TypeOK, srcVars, preVars, sendVars
<1>7. InOrderToPreprocessing' /\ InOrderToCallback' /\ InOrderRegistered'
  BY <1>1 DEF IInv, InOrderToPreprocessing, InOrderToCallback, InOrderRegistered, srcVars, preVars
<1>8. TreatedSoFar'
  BY <1>1 DEF IInv, TreatedSoFar, Preprocessed, preVars
<1> QED
  BY <1>5, <1>6, <1>7, <1>8 DEF IInv

-----------------------------------------------------------------------------
(******************************* the sender ********************************)

LEMMA SenderPopStep == ASSUME IInv, SenderPop PROVE IInv'
<1>1. /\ sender = "pop" /\ sender' = "copy" /\ sendBuffer # <<>>
      /\ sentCloud' = Head(sendBuffer) /\ sendBuffer' = Tail(sendBuffer)
      /\ UNCHANGED <<config, steps, cloudBuffer, bridgeBuffer, copied, sent, srcVars, preVars, cbVars>>
  BY DEF SenderPop
<1>2. sendBuffer \in Seq(Clouds) /\ Len(sendBuffer) <= 1
  BY DEF IInv, Types, TypeOK
<1>3. /\ sentCloud' \in Clouds /\ sentCloud' = sendBuffer[1] /\ 1 \in 1 .. Len(sendBuffer)
      /\ sendBuffer' \in Seq(Clouds) /\ Len(sendBuffer') = 0
  <2>1. /\ Head(sendBuffer) \in Clouds /\ Tail(sendBuffer) \in Seq(Clouds)
        /\ Len(Tail(sendBuffer)) = Len(sendBuffer) - 1
        /\ Len(sendBuffer) \in Nat /\ Len(sendBuffer) > 0 /\ Head(sendBuffer) = sendBuffer[1]
    BY <1>1, <1>2, TakeHead
  <2>2. Len(sendBuffer) = 1
    BY <1>2, <2>1
  <2> QED
    BY <1>1, <2>1, <2>2
<1>4. sentCloud' \in Int /\ sentCloud' # 0 /\ sentCloud \in Int /\ sentCloud < sentCloud'
  BY <1>3, Numbers, ElementsAreInts DEF IInv, InOrderToSender
<1>5. Types'
  <2>1. sentCloud' \in 0 .. NumClouds
    BY <1>3 DEF Clouds
  <2> QED
    BY <1>1, <1>3, <1>4, <2>1 DEF IInv, Types, TypeOK, srcVars, preVars, cbVars
<1>6. InOrderToPreprocessing' /\ InOrderToCallback' /\ InOrderRegistered'
  BY <1>1 DEF IInv, InOrderToPreprocessing, InOrderToCallback, InOrderRegistered, srcVars, preVars, cbVars
<1>7. InOrderToSender'
  <2>1. Passed(sendBuffer[1])
    BY <1>3 DEF IInv, InOrderToSender
  <2>2. Passed(sentCloud)'
    BY <1>1, <1>3, <2>1 DEF Passed, preVars, cbVars
  <2>3. PICK M : M = [cloud : Clouds, steps : Treatments \cup {Torn}]
    OBVIOUS
  <2>4. \A i \in 1 .. Len(sent) : sent[i].cloud \in Int /\ sent[i].cloud <= sentCloud
    <3> TAKE i \in 1 .. Len(sent)
    <3>1. sent[i] \in M
      <4>1. sent \in Seq(M)
        BY <2>3 DEF IInv, Types
      <4> QED
        BY <4>1
    <3> QED
      BY <2>3, <3>1, ElementsAreInts DEF IInv, InOrderToSender
  <2>5. \A i \in 1 .. Len(sent) : sent[i].cloud < sentCloud' /\ sent[i].cloud <= sentCloud'
    BY <1>4, <2>4
  <2> QED
    BY <1>1, <1>3, <2>2, <2>5 DEF IInv, InOrderToSender
<1>8. TreatedSoFar'
  BY <1>1 DEF IInv, TreatedSoFar, Preprocessed, preVars, cbVars
<1>9. TreatedWhenSent'
  BY <1>1, <1>3 DEF IInv, TreatedWhenSent, Preprocessed
<1> QED
  BY <1>5, <1>6, <1>7, <1>8, <1>9 DEF IInv

LEMMA BeginCopyStep == ASSUME IInv, BeginCopy PROVE IInv'
<1>1. /\ sender = "copy" /\ sender' = "send" /\ copied' = steps[sentCloud]
      /\ UNCHANGED <<config, steps, cloudBuffer, bridgeBuffer, sendBuffer, sentCloud, sent, srcVars, preVars, cbVars>>
  BY DEF BeginCopy
<1>2. sentCloud \in Clouds /\ sentCloud # 0
  BY <1>1, Numbers DEF IInv, Types
<1>3. Types'
  <2>1. copied' \in Treatments
    BY <1>1, <1>2 DEF IInv, Types
  <2> QED
    BY <1>1, <1>2, <2>1 DEF IInv, Types, TypeOK, srcVars, preVars, cbVars
<1>4. InOrderToPreprocessing' /\ InOrderToCallback' /\ InOrderRegistered'
  BY <1>1 DEF IInv, InOrderToPreprocessing, InOrderToCallback, InOrderRegistered, srcVars, preVars, cbVars
<1>5. InOrderToSender'
  BY <1>1 DEF IInv, InOrderToSender, Passed, preVars, cbVars
<1>6. TreatedSoFar'
  BY <1>1 DEF IInv, TreatedSoFar, Preprocessed, preVars, cbVars
<1>7. TreatedWhenSent'
  BY <1>1, <1>2 DEF IInv, TreatedWhenSent, Preprocessed
<1> QED
  BY <1>3, <1>4, <1>5, <1>6, <1>7 DEF IInv

LEMMA SendStep == ASSUME IInv, Send PROVE IInv'
<1>1. /\ sender = "send" /\ sender' = "pop"
      /\ UNCHANGED <<config, steps, cloudBuffer, bridgeBuffer, sendBuffer, sentCloud, copied, srcVars, preVars, cbVars>>
  BY DEF Send
<1>2. PICK m : /\ m = [cloud |-> sentCloud,
                       steps |-> IF steps[sentCloud] = copied THEN copied ELSE Torn]
               /\ sent' = Append(sent, m)
  BY DEF Send
<1>3. PICK M : M = [cloud : Clouds, steps : Treatments \cup {Torn}]
  OBVIOUS
<1>4. sentCloud \in Clouds /\ sentCloud # 0 /\ sentCloud \in Int /\ m \in M /\ m.cloud = sentCloud
  <2>1. sentCloud \in Clouds /\ sentCloud # 0 /\ sentCloud \in Int
    BY <1>1, Numbers DEF IInv, Types
  <2> QED
    BY <1>2, <1>3, <2>1 DEF IInv, Types
<1>5. /\ sent \in Seq(M) /\ Len(sent) \in Nat /\ sent' \in Seq(M) /\ Len(sent') = Len(sent) + 1
      /\ \A i \in 1 .. Len(sent) + 1 : sent'[i] = IF i <= Len(sent) THEN sent[i] ELSE m
  <2>1. sent \in Seq(M)
    BY <1>3 DEF IInv, Types
  <2> QED
    BY <1>2, <1>4, <2>1, PutLast
<1>6. \A i \in 1 .. Len(sent') : \/ i \in 1 .. Len(sent) /\ sent'[i] = sent[i]
                                 \/ i = Len(sent) + 1 /\ sent'[i] = m
  BY <1>5
<1>7. Types'
  BY <1>1, <1>3, <1>5 DEF IInv, Types, TypeOK, srcVars, preVars, cbVars
<1>8. InOrderToPreprocessing' /\ InOrderToCallback' /\ InOrderRegistered'
  BY <1>1 DEF IInv, InOrderToPreprocessing, InOrderToCallback, InOrderRegistered, srcVars, preVars, cbVars
<1>9. InOrderToSender'
  <2>1. /\ \A i \in 1 .. Len(sent) : sent[i].cloud < sentCloud /\ sent[i].cloud <= sentCloud
        /\ \A i, j \in 1 .. Len(sent) : i < j => sent[i].cloud < sent[j].cloud
    BY <1>1 DEF IInv, InOrderToSender
  <2>2. \A i \in 1 .. Len(sent') : sent'[i].cloud <= sentCloud
    BY <1>4, <1>6, <2>1
  <2>3. ASSUME NEW i \in 1 .. Len(sent'), NEW j \in 1 .. Len(sent'), i < j
        PROVE  sent'[i].cloud < sent'[j].cloud
    <3>1. i \in 1 .. Len(sent) /\ sent'[i] = sent[i]
      BY <1>5, <1>6, <2>3
    <3>2. CASE j \in 1 .. Len(sent) /\ sent'[j] = sent[j]
      BY <2>1, <2>3, <3>1, <3>2
    <3>3. CASE sent'[j] = m
      BY <1>4, <2>1, <3>1, <3>3
    <3> QED
      BY <1>6, <3>2, <3>3
  <2>4. /\ \A i \in 1 .. Len(sendBuffer) : Passed(sendBuffer[i])' /\ sentCloud < sendBuffer[i]
        /\ sentCloud # 0 => Passed(sentCloud)'
    BY <1>1 DEF IInv, InOrderToSender, Passed, preVars, cbVars
  <2> QED
    BY <1>1, <2>2, <2>3, <2>4 DEF InOrderToSender
<1>10. TreatedSoFar'
  BY <1>1 DEF IInv, TreatedSoFar, Preprocessed, preVars, cbVars
<1>11. TreatedWhenSent'
  <2>1. ASSUME config.send # "original", NEW i \in 1 .. Len(sent')
        PROVE  sent'[i].steps = Preprocessed
    <3>1. m.steps = Preprocessed
      BY <1>1, <1>2, <1>4, <2>1 DEF IInv, TreatedWhenSent
    <3>2. \A k \in 1 .. Len(sent) : sent[k].steps = Preprocessed
      BY <2>1 DEF IInv, TreatedWhenSent
    <3> QED
      BY <1>6, <3>1, <3>2
  <2> QED
    BY <1>1, <2>1 DEF IInv, TreatedWhenSent, Preprocessed
<1> QED
  BY <1>7, <1>8, <1>9, <1>10, <1>11 DEF IInv

-----------------------------------------------------------------------------
(******************************* the theorem *******************************)

LEMMA StutterStep == ASSUME IInv, UNCHANGED vars PROVE IInv'
BY DEF vars, IInv, Types, TypeOK, InOrderToPreprocessing, InOrderToCallback, InOrderRegistered,
       InOrderToSender, Passed, TreatedSoFar, TreatedWhenSent, Preprocessed

\* Clouds stay in the order of their capture on their way through queues that drop
\* some of them (push_nb with and without force): none is registered or sent twice,
\* and what is registered or sent as preprocessed was scaled and filtered, once.
THEOREM ArriveInOrderAlways == Spec => []ArriveInOrder
<1>1. Init => IInv
  BY InitIInv
<1>2. IInv /\ [Next]_vars => IInv'
  <2> SUFFICES ASSUME IInv, [Next]_vars PROVE IInv'
    OBVIOUS
  <2>1. CASE DriverPush \/ ReceiverPush
    BY <2>1, SourceStep
  <2>2. CASE Preprocess
    BY <2>2, PreprocessingPopStep, ScaleStep, SendOriginalStep, ReduceStep,
       PreprocessingPushStep, SendPreprocessedStep DEF Preprocess
  <2>3. CASE Callback
    BY <2>3, CallbackPopStep, RegisterStep, SendRegisteredStep DEF Callback
  <2>4. CASE Sender
    BY <2>4, SenderPopStep, BeginCopyStep, SendStep DEF Sender
  <2>5. CASE PollTimeout
    BY <2>5, StutterStep DEF PollTimeout
  <2>6. CASE UNCHANGED vars
    BY <2>6, StutterStep
  <2> QED
    BY <2>1, <2>2, <2>3, <2>4, <2>5, <2>6 DEF Next
<1>3. IInv => ArriveInOrder
  BY IInvImplies
<1> QED
  BY <1>1, <1>2, <1>3, PTL DEF Spec

-----------------------------------------------------------------------------
(******************************** sequences ********************************)

IsSequence(s) == \E S : s \in Seq(S)

LEMMA AppendKeeps ==
  ASSUME NEW s, IsSequence(s), NEW x
  PROVE  /\ IsSequence(Append(s, x)) /\ Len(s) \in Nat
         /\ Len(Append(s, x)) = Len(s) + 1
         /\ \A n \in 1 .. Len(s) : Append(s, x)[n] = s[n]
         /\ Append(s, x)[Len(s) + 1] = x
         /\ DOMAIN s = 1 .. Len(s)
<1>1. PICK S : s \in Seq(S)
  BY DEF IsSequence
<1>2. PICK T : T = S \cup {x}
  OBVIOUS
<1>3. s \in Seq(T) /\ x \in T
  BY <1>1, <1>2
<1>4. Append(s, x) \in Seq(T)
  BY <1>3
<1> QED
  BY <1>3, <1>4 DEF IsSequence

LEMMA TailKeeps ==
  ASSUME NEW s, IsSequence(s), s # <<>>
  PROVE  /\ IsSequence(Tail(s)) /\ Len(s) \in Nat \ {0} /\ Len(Tail(s)) = Len(s) - 1
         /\ Head(s) = s[1]
         /\ \A n \in 1 .. Len(s) - 1 : Tail(s)[n] = s[n + 1]
<1>1. PICK S : s \in Seq(S)
  BY DEF IsSequence
<1>2. Tail(s) \in Seq(S) /\ Len(s) \in Nat \ {0} /\ Head(s) = s[1]
  BY <1>1
<1>3. Len(Tail(s)) = Len(s) - 1
  BY <1>1
<1>4. \A n \in 1 .. Len(Tail(s)) : Tail(s)[n] = s[n + 1]
  <2> SUFFICES ASSUME NEW n \in 1 .. Len(Tail(s))
               PROVE  Tail(s)[n] = s[n + 1]
    OBVIOUS
  <2> QED
    BY <1>1
<1> QED
  BY <1>2, <1>3, <1>4 DEF IsSequence

LEMMA EmptyIsSequence == IsSequence(<<>>) /\ Len(<<>>) = 0
<1>1. <<>> \in Seq({})
  OBVIOUS
<1> QED
  BY <1>1 DEF IsSequence

LEMMA LengthOfSequence ==
  ASSUME NEW s, IsSequence(s)
  PROVE  Len(s) \in Nat /\ DOMAIN s = 1 .. Len(s) /\ (Len(s) = 0 <=> s = <<>>)
<1>1. PICK S : s \in Seq(S)
  BY DEF IsSequence
<1> QED
  BY <1>1

-----------------------------------------------------------------------------
(********************************* numbers *********************************)

\* What the board has scaled is scaled back without a rest.
LEMMA ScaledBack ==
  ASSUME NEW x \in Int, NEW s \in Nat \ {0}
  PROVE  FromBoard(x * s, s) = Length(x)
<1>1. PICK f \in Int : f = x * Fractions /\ f = Length(x)
  BY CodecAssumption DEF Length
<1>2. (x * s) * Fractions = f * s
  BY <1>1, CodecAssumption
<1>3. (f * s) \div s = f
  <2>1. PICK p \in Int : p = f * s
    OBVIOUS
  <2>2. p = s * (p \div s) + (p % s) /\ p \div s \in Int /\ (p % s) \in 0 .. s - 1
    OBVIOUS
  <2>3. PICK q \in Int, r \in 0 .. s - 1 : q = p \div s /\ p = s * q + r
    BY <2>2
  <2>4. s * (f - q) = r
    <3>1. s * (f - q) = f * s - s * q /\ s * q \in Int
      OBVIOUS
    <3> QED
      BY <2>1, <2>3, <3>1
  <2>5. f - q = 0
    <3>1. f - q >= 1 => s * (f - q) >= s
      OBVIOUS
    <3>2. f - q <= -1 => s * (f - q) <= -s
      OBVIOUS
    <3> QED
      BY <2>3, <2>4, <3>1, <3>2
  <2> QED
    BY <2>1, <2>3, <2>5
<1> QED
  BY <1>1, <1>2, <1>3 DEF FromBoard

\* Seconds and nanoseconds are the time.
LEMMA TimeOfStamp ==
  ASSUME NEW t \in Nat
  PROVE  RosTime(t)[1] * PerSecond + RosTime(t)[2] = t
<1>1. PICK p \in Nat \ {0} : p = PerSecond
  BY CodecAssumption
<1>2. t = p * (t \div p) + (t % p) /\ t \div p \in Int /\ (t % p) \in Int
  OBVIOUS
<1>3. PICK q \in Int, r \in Int : q = t \div p /\ r = t % p /\ t = p * q + r
  BY <1>2
<1>4. q * p + r = t
  BY <1>3
<1> QED
  BY <1>1, <1>3, <1>4 DEF RosTime

\* Millimetres of ROS, cut off towards 0
LEMMA BoardTruncates ==
  ASSUME NEW x \in Int
  PROVE  Truncated(x, ToBoard(x))
<1>1. PICK f \in Nat \ {0} : f = Fractions
  BY CodecAssumption
<1>2. ASSUME NEW y \in Nat
      PROVE  \E q \in Nat, r \in 0 .. f - 1 : q = y \div f /\ y - q * f = r
  <2>1. y = f * (y \div f) + (y % f) /\ y \div f \in Int /\ (y % f) \in 0 .. f - 1
    OBVIOUS
  <2>2. PICK q \in Int, r \in 0 .. f - 1 : q = y \div f /\ y = f * q + r
    BY <2>1
  <2>3. q >= 0
    <3>1. q < 0 => f * q <= -f
      OBVIOUS
    <3>2. f * q \in Int
      OBVIOUS
    <3> QED
      BY <2>2, <3>1, <3>2
  <2>4. y - q * f = r
    <3>1. f * q = q * f /\ q * f \in Int
      OBVIOUS
    <3> QED
      BY <2>2, <3>1
  <2> QED
    BY <2>2, <2>3, <2>4
<1>3. CASE x >= 0
  <2>1. PICK q \in Nat, r \in 0 .. f - 1 : q = x \div f /\ x - q * f = r
    BY <1>2, <1>3
  <2>2. ToBoard(x) = q
    BY <1>1, <1>3, <2>1 DEF ToBoard
  <2>3. x = 0 => q = 0
    <3>1. q * f \in Int /\ (q >= 1 => q * f >= f)
      OBVIOUS
    <3> QED
      BY <2>1, <3>1
  <2> QED
    BY <1>1, <1>3, <2>1, <2>2, <2>3 DEF Truncated, Length
<1>4. CASE x < 0
  <2>1. PICK q \in Nat, r \in 0 .. f - 1 : q = (-x) \div f /\ (-x) - q * f = r
    <3>1. PICK y \in Nat : y = -x
      BY <1>4
    <3> QED
      BY <1>2, <3>1
  <2>2. ToBoard(x) = -q
    BY <1>1, <1>4, <2>1 DEF ToBoard
  <2>3. (-q) * f - x = r
    <3>1. (-q) * f = -(q * f) /\ q * f \in Int
      OBVIOUS
    <3> QED
      BY <2>1, <3>1
  <2> QED
    BY <1>1, <1>4, <2>2, <2>3 DEF Truncated, Length
<1> QED
  BY <1>3, <1>4

-----------------------------------------------------------------------------
(******************************** induction ********************************)

\* A set of natural numbers has a smallest one, and a set that 0 is in and every
\* number after one of it has all numbers.
LEMMA SmallestOf ==
  ASSUME NEW S, S \subseteq Nat, S # {}
  PROVE  \E n \in S : \A m \in S : n <= m
<1>1. PICK n \in S : \A m \in S : <<m, n>> \notin OpToRel(<, Nat)
  BY NatLessThanWellFounded, WFMin
<1>2. \A m \in S : ~(m < n)
  BY <1>1 DEF OpToRel
<1> QED
  BY <1>2

LEMMA FromZeroUp ==
  ASSUME NEW S, NEW N \in Nat, 0 \in S, \A n \in 0 .. N - 1 : n \in S => n + 1 \in S
  PROVE  \A n \in 0 .. N : n \in S
<1> DEFINE out == {n \in 0 .. N : n \notin S}
<1> SUFFICES ASSUME out # {}
             PROVE  FALSE
  OBVIOUS
<1>1. out \in SUBSET Nat
  OBVIOUS
<1>2. PICK x \in out : \A y \in out : x <= y
  <2> HIDE DEF out
  <2> QED
    BY <1>1, SmallestOf
<1>3. x # 0 /\ x - 1 \in 0 .. N - 1
  BY <1>2
<1>4. x - 1 \in S
  BY <1>2, <1>3
<1> QED
  BY <1>2, <1>3, <1>4

-----------------------------------------------------------------------------
(******************** what the threads put together ************************)

\* r has what is pushed back from the a-th turn of a loop (not included) to the b-th: an
\* x[k] for each k in S, and no other.
PushedIn(r, T, x, S, a, b) ==
  /\ r \in Seq(T) /\ \A i \in 1 .. Len(r) : \E k \in (a + 1 .. b) \cap S : r[i] = x[k]
  /\ \A k \in (a + 1 .. b) \cap S : \E i \in 1 .. Len(r) : r[i] = x[k]
  /\ Len(r) = Cardinality((a + 1 .. b) \cap S)

LEMMA PushedOnce ==
  ASSUME NEW T, NEW x, NEW S, NEW k \in Nat \ {0}, k \in S => x[k] \in T,
         NEW r, r = IF k \in S THEN <<x[k]>> ELSE <<>>
  PROVE  PushedIn(r, T, x, S, k - 1, k)
<1>1. (k - 1) + 1 .. k = {k}
  OBVIOUS
<1>2. CASE k \in S
  <2>1. ((k - 1) + 1 .. k) \cap S = {k}
    BY <1>1, <1>2
  <2>2. Cardinality({k}) = 1
    BY FS_Singleton
  <2>3. r = <<x[k]>> /\ r \in Seq(T) /\ Len(r) = 1 /\ r[1] = x[k]
    BY <1>2
  <2>4. \A i \in 1 .. Len(r) : r[i] = x[k]
    BY <2>3
  <2>5. \E i \in 1 .. Len(r) : r[i] = x[k]
    BY <2>3
  <2> QED
    BY <2>1, <2>2, <2>3, <2>4, <2>5 DEF PushedIn
<1>3. CASE k \notin S
  <2>1. ((k - 1) + 1 .. k) \cap S = {}
    BY <1>1, <1>3
  <2>2. r = <<>> /\ r \in Seq(T) /\ Len(r) = 0
    BY <1>3
  <2> QED
    BY <2>1, <2>2, FS_EmptySet DEF PushedIn
<1> QED
  BY <1>2, <1>3

LEMMA PushedNone ==
  ASSUME NEW T, NEW x, NEW S, NEW a \in Nat
  PROVE  PushedIn(<<>>, T, x, S, a, a)
<1>1. (a + 1 .. a) \cap S = {}
  OBVIOUS
<1>2. <<>> \in Seq(T) /\ Len(<<>>) = 0
  OBVIOUS
<1> QED
  BY <1>1, <1>2, FS_EmptySet DEF PushedIn

LEMMA PushedJoined ==
  ASSUME NEW T, NEW x, NEW S, NEW a \in Nat, NEW b \in Nat, NEW c \in Nat, a <= b, b <= c,
         NEW r, NEW s, PushedIn(r, T, x, S, a, b), PushedIn(s, T, x, S, b, c)
  PROVE  PushedIn(r \o s, T, x, S, a, c)
<1>1. r \in Seq(T) /\ s \in Seq(T)
  BY DEF PushedIn
<1>0. r \o s \in Seq(T)
  BY <1>1
<1>2. PICK q \in Seq(T) : q = r \o s
  BY <1>0
<1>3. PICK n \in Nat, m \in Nat : n = Len(r) /\ m = Len(s)
  BY <1>1
<1>4. /\ Len(q) = n + m
      /\ \A i \in 1 .. n : q[i] = r[i]
      /\ \A i \in 1 .. m : q[n + i] = s[i]
  BY <1>1, <1>2, <1>3
<1> DEFINE A == (a + 1 .. b) \cap S
           B == (b + 1 .. c) \cap S
           C == (a + 1 .. c) \cap S
<1>5. C = A \cup B /\ A \cap B = {}
  OBVIOUS
<1>6. Len(q) = Cardinality(C)
  <2>1. IsFiniteSet(a + 1 .. b) /\ IsFiniteSet(b + 1 .. c)
    BY FS_Interval
  <2>2. A \in SUBSET (a + 1 .. b) /\ B \in SUBSET (b + 1 .. c)
    OBVIOUS
  <2>3. IsFiniteSet(A) /\ IsFiniteSet(B)
    <3> HIDE DEF A, B
    <3> QED
      BY <2>1, <2>2, FS_Subset
  <2>4. n = Cardinality(A) /\ m = Cardinality(B)
    BY <1>3 DEF PushedIn
  <2>5. Cardinality(A \cup B) = Cardinality(A) + Cardinality(B) - Cardinality(A \cap B)
    <3> HIDE DEF A, B
    <3> QED
      BY <2>3, FS_Union
  <2>6. Cardinality(A \cap B) = 0
    <3> HIDE DEF A, B
    <3> QED
      BY <1>5, FS_EmptySet
  <2> HIDE DEF A, B, C
  <2> QED
    BY <1>4, <1>5, <2>4, <2>5, <2>6
<1>7. ASSUME NEW i \in 1 .. Len(q)
      PROVE  \E k \in C : q[i] = x[k]
  <2>1. CASE i \in 1 .. n
    <3>1. \E k \in A : r[i] = x[k]
      BY <1>3, <2>1 DEF PushedIn
    <3> HIDE DEF A, B, C
    <3> QED
      BY <1>4, <1>5, <2>1, <3>1
  <2>2. CASE i \notin 1 .. n
    <3>1. i - n \in 1 .. m /\ n + (i - n) = i
      BY <1>4, <2>2
    <3>2. \E k \in B : s[i - n] = x[k]
      BY <1>3, <3>1 DEF PushedIn
    <3>3. q[i] = s[i - n]
      BY <1>4, <3>1
    <3> HIDE DEF A, B, C
    <3> QED
      BY <1>5, <3>2, <3>3
  <2> QED
    BY <2>1, <2>2
<1>8. ASSUME NEW k \in C
      PROVE  \E i \in 1 .. Len(q) : q[i] = x[k]
  <2>1. CASE k \in A
    <3>1. PICK i \in 1 .. n : r[i] = x[k]
      BY <1>3, <2>1 DEF PushedIn
    <3>2. i \in 1 .. Len(q)
      BY <1>4
    <3> QED
      BY <1>4, <3>1, <3>2
  <2>2. CASE k \in B
    <3>1. PICK i \in 1 .. m : s[i] = x[k]
      BY <1>3, <2>2 DEF PushedIn
    <3>2. n + i \in 1 .. Len(q)
      BY <1>4
    <3> QED
      BY <1>4, <3>1, <3>2
  <2> HIDE DEF A, B, C
  <2> QED
    BY <1>5, <2>1, <2>2
<1> QED
  BY <1>2, <1>6, <1>7, <1>8 DEF PushedIn

\* FlattenSeq is a function of how many sequences are put behind one another.
Flattens(f, q, N) == f = [i \in 1 .. N |-> IF i = 1 THEN q[i] ELSE f[i - 1] \o q[i]]

LEMMA FlattensExist ==
  ASSUME NEW q, NEW N \in Nat
  PROVE  \E f : Flattens(f, q, N)
<1> DEFINE S == {n \in Nat : \E f : Flattens(f, q, n)}
<1>1. 0 \in S
  <2>1. PICK f : f = [i \in 1 .. 0 |-> 0]
    OBVIOUS
  <2>2. Flattens(f, q, 0)
    <3>1. 1 .. 0 = {}
      OBVIOUS
    <3> QED
      BY <2>1, <3>1 DEF Flattens
  <2> QED
    BY <2>2
<1>2. ASSUME NEW n \in Nat, n \in S
      PROVE  n + 1 \in S
  <2>1. PICK g : Flattens(g, q, n)
    BY <1>2
  <2> DEFINE last == IF n = 0 THEN q[1] ELSE g[n] \o q[n + 1]
             h == [k \in 1 .. n + 1 |-> IF k = n + 1 THEN last ELSE g[k]]
  <2>2. \A k \in 1 .. n : g[k] = IF k = 1 THEN q[k] ELSE g[k - 1] \o q[k]
    BY <2>1 DEF Flattens
  <2>3. ASSUME NEW k \in 1 .. n + 1
        PROVE  h[k] = IF k = 1 THEN q[k] ELSE h[k - 1] \o q[k]
    <3>1. CASE k = n + 1
      <4>1. h[k] = last
        BY <3>1
      <4>2. k # 1 => h[k - 1] = g[n] /\ n # 0
        BY <3>1
      <4>3. k = 1 => n = 0
        BY <3>1
      <4> HIDE DEF h
      <4> QED
        BY <4>1, <4>2, <4>3, <3>1
    <3>2. CASE k \in 1 .. n
      <4>1. h[k] = g[k] /\ (k # 1 => h[k - 1] = g[k - 1])
        BY <3>2
      <4> HIDE DEF h
      <4> QED
        BY <4>1, <3>2, <2>2
    <3> QED
      BY <3>1, <3>2
  <2>4. Flattens(h, q, n + 1)
    <3>1. h = [k \in 1 .. n + 1 |-> h[k]]
      OBVIOUS
    <3> HIDE DEF h
    <3> QED
      BY <2>3, <3>1 DEF Flattens
  <2> QED
    BY <2>4
<1>3. \A n \in 0 .. N : n \in S
  <2> HIDE DEF S
  <2> QED
    BY <1>1, <1>2, FromZeroUp
<1> QED
  BY <1>3

LEMMA FlattenIsFcn ==
  ASSUME NEW q, NEW N \in Nat, Len(q) = N, N # 0
  PROVE  \E f : Flattens(f, q, N) /\ FlattenSeq(q) = f[N]
<1> DEFINE f == CHOOSE g : g = [i \in 1 .. Len(q) |-> IF i = 1 THEN q[i] ELSE g[i - 1] \o q[i]]
<1>1. f = [i \in 1 .. Len(q) |-> IF i = 1 THEN q[i] ELSE f[i - 1] \o q[i]]
  <2>1. \E g : g = [i \in 1 .. Len(q) |-> IF i = 1 THEN q[i] ELSE g[i - 1] \o q[i]]
    BY FlattensExist DEF Flattens
  <2> QED
    BY <2>1
<1>2. FlattenSeq(q) = f[Len(q)]
  BY DEF FlattenSeq
<1> HIDE DEF f
<1> QED
  BY <1>1, <1>2 DEF Flattens

\* Pieces that go on where the one before ended make one.
LEMMA PiecesJoined ==
  ASSUME NEW T, NEW x, NEW S, NEW q, NEW N \in Nat, Len(q) = N, N = 0 => q = <<>>, NEW e,
         \A i \in 0 .. N : e[i] \in Nat,
         \A i \in 1 .. N : e[i - 1] <= e[i] /\ PushedIn(q[i], T, x, S, e[i - 1], e[i])
  PROVE  PushedIn(FlattenSeq(q), T, x, S, e[0], e[N])
<1>1. CASE N = 0
  <2>1. FlattenSeq(q) = <<>>
    BY <1>1 DEF FlattenSeq
  <2>2. PICK a \in Nat : a = e[0]
    OBVIOUS
  <2>3. PushedIn(<<>>, T, x, S, a, a)
    BY PushedNone
  <2> QED
    BY <1>1, <2>1, <2>2, <2>3
<1>2. CASE N # 0
  <2>1. PICK f : Flattens(f, q, N) /\ FlattenSeq(q) = f[N]
    BY <1>2, FlattenIsFcn
  <2>2. \A i \in 1 .. N : f[i] = IF i = 1 THEN q[i] ELSE f[i - 1] \o q[i]
    BY <2>1 DEF Flattens
  <2> DEFINE R == {n \in 0 .. N - 1 : /\ e[0] <= e[n + 1]
                                      /\ PushedIn(f[n + 1], T, x, S, e[0], e[n + 1])}
  <2>3. 0 \in R
    <3>1. 1 \in 1 .. N /\ 1 - 1 = 0 /\ 0 + 1 = 1
      BY <1>2
    <3>2. f[1] = q[1]
      BY <2>2, <3>1
    <3> QED
      BY <1>2, <3>1, <3>2
  <2>4. ASSUME NEW n \in 0 .. (N - 1) - 1, n \in R
        PROVE  n + 1 \in R
    <3>1. PICK k \in 1 .. N : k = n + 2 /\ k - 1 = n + 1 /\ k - 1 \in 0 .. N /\ k # 1
      OBVIOUS
    <3>2. f[k] = f[k - 1] \o q[k]
      BY <2>2, <3>1
    <3>3. PICK a \in Nat, b \in Nat, c \in Nat : a = e[0] /\ b = e[k - 1] /\ c = e[k]
      BY <3>1
    <3>4. a <= b /\ PushedIn(f[k - 1], T, x, S, a, b)
      BY <2>4, <3>1, <3>3
    <3>5. b <= c /\ PushedIn(q[k], T, x, S, b, c)
      BY <3>1, <3>3
    <3>6. a <= c /\ PushedIn(f[k], T, x, S, a, c)
      BY <3>2, <3>4, <3>5, PushedJoined
    <3>7. (n + 1) + 1 = k /\ n + 1 \in 0 .. N - 1
      BY <3>1
    <3> QED
      BY <3>3, <3>6, <3>7
  <2>5. N - 1 \in R
    <3>1. N - 1 \in Nat /\ N - 1 \in 0 .. N - 1
      BY <1>2
    <3> HIDE DEF R
    <3> QED
      BY <2>3, <2>4, <3>1, FromZeroUp
  <2> QED
    BY <2>1, <2>5
<1> QED
  BY <1>1, <1>2

-----------------------------------------------------------------------------
(************************* the window and its ring *************************)

Half(a) == Size[a] \div 2
CellsAround(pos) ==
  (pos[1] - Half(1) .. pos[1] + Half(1)) \X (pos[2] - Half(2) .. pos[2] + Half(2))
    \X (pos[3] - Half(3) .. pos[3] + Half(3))
CellCount == Size[1] * Size[2] * Size[3]

IsWindow(d) ==
  /\ d.size = Size /\ d.pos \in Triples
  /\ d.offset \in (0 .. Size[1] - 1) \X (0 .. Size[2] - 1) \X (0 .. Size[3] - 1)

LEMMA SizesAreOdd ==
  ASSUME NEW a \in 1 .. 3
  PROVE  \E h \in Nat : Size[a] = 2 * h + 1 /\ Half(a) = h
<1>1. PICK m \in Nat : m = Size[a] /\ m % 2 = 1
  BY CodecAssumption
<1>2. m \div 2 \in Nat /\ m = 2 * (m \div 2) + (m % 2)
  BY <1>1
<1> QED
  BY <1>1, <1>2 DEF Half

LEMMA DigitsBound ==
  ASSUME NEW n \in Nat, NEW m \in Nat, NEW x \in 0 .. n - 1, NEW r \in 0 .. m - 1
  PROVE  x * m + r \in 0 .. n * m - 1
<1>1. x * m <= (n - 1) * m /\ (n - 1) * m = n * m - m /\ x * m \in Nat /\ n * m \in Int
  OBVIOUS
<1> QED
  BY <1>1

\* Two digits of a number with the second one below m
LEMMA TwoDigits ==
  ASSUME NEW x \in Int, NEW y \in Int, NEW m \in Nat \ {0},
         NEW r \in 0 .. m - 1, NEW s \in 0 .. m - 1, x * m + r = y * m + s
  PROVE  x = y /\ r = s
<1>1. ASSUME NEW b \in Int, NEW d \in Int, NEW v \in 0 .. m - 1, NEW w \in 0 .. m - 1, b < d
      PROVE  b * m + v # d * m + w
  <2>1. (b + 1) * m <= d * m /\ (b + 1) * m = b * m + m /\ b * m \in Int /\ d * m \in Int
    BY <1>1
  <2> QED
    BY <2>1
<1>2. x = y
  BY <1>1
<1>3. x * m \in Int
  OBVIOUS
<1> QED
  BY <1>2, <1>3

LEMMA DigitsOf ==
  ASSUME NEW n \in Nat, NEW m \in Nat \ {0}
  PROVE  \E q \in Nat, r \in 0 .. m - 1 : n = q * m + r /\ n \div m = q /\ n % m = r
<1>1. n \div m \in Int /\ n % m \in 0 .. m - 1 /\ n = m * (n \div m) + (n % m)
  OBVIOUS
<1>2. PICK q \in Int, r \in 0 .. m - 1 : q = n \div m /\ r = n % m /\ n = m * q + r
  BY <1>1
<1>3. q >= 0
  <2>1. q < 0 => m * q <= -m
    OBVIOUS
  <2>2. m * q \in Int
    OBVIOUS
  <2> QED
    BY <1>2, <2>1, <2>2
<1>4. q \in Nat /\ n = q * m + r
  <2>1. m * q = q * m
    OBVIOUS
  <2> QED
    BY <1>2, <1>3, <2>1
<1> QED
  BY <1>2, <1>4

LEMMA DigitsBack ==
  ASSUME NEW q \in Nat, NEW m \in Nat \ {0}, NEW r \in 0 .. m - 1
  PROVE  (q * m + r) \div m = q /\ (q * m + r) % m = r
<1>1. q * m + r \in Nat
  <2>1. q * m \in Nat
    OBVIOUS
  <2> QED
    BY <2>1
<1>2. PICK n \in Nat : n = q * m + r
  BY <1>1
<1>3. PICK x \in Nat, s \in 0 .. m - 1 : n = x * m + s /\ n \div m = x /\ n % m = s
  BY DigitsOf
<1>4. x = q /\ s = r
  BY <1>2, <1>3, TwoDigits
<1> QED
  BY <1>2, <1>3, <1>4

\* A number below s1 * s2 * s3 has three digits, and they are its own.
HasDigits(n, s1, s2, s3) ==
  \E i \in 0 .. s1 - 1, j \in 0 .. s2 - 1, l \in 0 .. s3 - 1 :
      /\ n = (i * s2 + j) * s3 + l
      /\ n \div (s2 * s3) = i /\ (n \div s3) % s2 = j /\ n % s3 = l
DigitsAreOwn(i, j, l, s1, s2, s3) ==
  \A x \in 0 .. s1 - 1, y \in 0 .. s2 - 1, z \in 0 .. s3 - 1 :
      (x * s2 + y) * s3 + z = (i * s2 + j) * s3 + l => x = i /\ y = j /\ z = l

LEMMA ThreeDigits ==
  ASSUME NEW s1 \in Nat \ {0}, NEW s2 \in Nat \ {0}, NEW s3 \in Nat \ {0},
         NEW n \in 0 .. s1 * s2 * s3 - 1
  PROVE  HasDigits(n, s1, s2, s3)
<1>0. s1 * s2 * s3 \in Nat /\ s1 * s2 \in Nat /\ s2 * s3 \in Nat \ {0} /\ n \in Nat
  OBVIOUS
<1>1. PICK q \in Nat, l \in 0 .. s3 - 1 : n = q * s3 + l /\ n \div s3 = q /\ n % s3 = l
  BY <1>0, DigitsOf
<1>2. PICK i \in Nat, j \in 0 .. s2 - 1 : q = i * s2 + j /\ q \div s2 = i /\ q % s2 = j
  BY DigitsOf
<1>3. q < s1 * s2
  <2> SUFFICES ASSUME s1 * s2 <= q
               PROVE  FALSE
    BY <1>0
  <2>1. PICK p \in Nat : p = s1 * s2
    BY <1>0
  <2>2. p * s3 <= q * s3 /\ p * s3 = s1 * s2 * s3 /\ q * s3 \in Nat
    BY <2>1
  <2> QED
    BY <1>0, <1>1, <2>2
<1>4. i < s1
  <2> SUFFICES ASSUME s1 <= i
               PROVE  FALSE
    OBVIOUS
  <2>1. s1 * s2 <= i * s2 /\ i * s2 \in Nat
    OBVIOUS
  <2> QED
    BY <1>0, <1>2, <1>3, <2>1
<1>5. n \div (s2 * s3) = i
  <2>1. PICK m \in Nat \ {0} : m = s2 * s3
    BY <1>0
  <2>2. j * s3 + l \in 0 .. s2 * s3 - 1
    BY DigitsBound
  <2>3. PICK r \in 0 .. m - 1 : r = j * s3 + l
    BY <2>1, <2>2
  <2>4. n = i * m + r
    <3>1. (i * s2 + j) * s3 = i * (s2 * s3) + j * s3
      OBVIOUS
    <3>2. i * (s2 * s3) \in Int /\ j * s3 \in Int
      BY <1>0
    <3> QED
      BY <1>1, <1>2, <2>1, <2>3, <3>1, <3>2
  <2> QED
    BY <2>1, <2>4, DigitsBack
<1>6. (n \div s3) % s2 = j
  BY <1>1, <1>2
<1>7. i \in 0 .. s1 - 1 /\ n = (i * s2 + j) * s3 + l
  BY <1>1, <1>2, <1>4
<1> QED
  BY <1>1, <1>2, <1>5, <1>6, <1>7 DEF HasDigits

LEMMA ThreeDigitsBack ==
  ASSUME NEW s1 \in Nat \ {0}, NEW s2 \in Nat \ {0}, NEW s3 \in Nat \ {0},
         NEW i \in 0 .. s1 - 1, NEW j \in 0 .. s2 - 1, NEW l \in 0 .. s3 - 1
  PROVE  /\ (i * s2 + j) * s3 + l \in 0 .. s1 * s2 * s3 - 1
         /\ DigitsAreOwn(i, j, l, s1, s2, s3)
<1>1. PICK p \in Nat : p = s1 * s2
  OBVIOUS
<1>2. i * s2 + j \in 0 .. s1 * s2 - 1
  BY DigitsBound
<1>3. PICK q \in 0 .. p - 1 : q = i * s2 + j
  BY <1>1, <1>2
<1>4. q * s3 + l \in 0 .. p * s3 - 1
  BY DigitsBound
<1>5. ASSUME NEW x \in 0 .. s1 - 1, NEW y \in 0 .. s2 - 1, NEW z \in 0 .. s3 - 1,
             (x * s2 + y) * s3 + z = (i * s2 + j) * s3 + l
      PROVE  x = i /\ y = j /\ z = l
  <2>1. x * s2 + y \in Int
    OBVIOUS
  <2>2. PICK v \in Int : v = x * s2 + y
    BY <2>1
  <2>3. v = q /\ z = l
    BY <1>3, <1>5, <2>2, TwoDigits
  <2>4. x = i /\ y = j
    BY <1>3, <2>2, <2>3, TwoDigits
  <2> QED
    BY <2>3, <2>4
<1> QED
  BY <1>1, <1>3, <1>4, <1>5 DEF DigitsAreOwn

\* The loops go through every cell of the window once.
LEMMA WindowIsCells ==
  ASSUME NEW d, IsWindow(d)
  PROVE  /\ CellCount \in Nat /\ DOMAIN Window(d) = 1 .. CellCount /\ Len(Window(d)) = CellCount
         /\ \A k \in 1 .. CellCount : Window(d)[k] \in CellsAround(d.pos)
         /\ \A j, k \in 1 .. CellCount : Window(d)[j] = Window(d)[k] => j = k
         /\ \A c \in CellsAround(d.pos) : \E k \in 1 .. CellCount : Window(d)[k] = c
<1>1. PICK h1 \in Nat : Size[1] = 2 * h1 + 1 /\ Half(1) = h1
  BY SizesAreOdd
<1>2. PICK h2 \in Nat : Size[2] = 2 * h2 + 1 /\ Half(2) = h2
  BY SizesAreOdd
<1>3. PICK h3 \in Nat : Size[3] = 2 * h3 + 1 /\ Half(3) = h3
  BY SizesAreOdd
<1>4. PICK p1 \in Int, p2 \in Int, p3 \in Int : d.pos[1] = p1 /\ d.pos[2] = p2 /\ d.pos[3] = p3
  BY DEF IsWindow, Triples
<1>5. PICK s1 \in Nat \ {0}, s2 \in Nat \ {0}, s3 \in Nat \ {0} :
        s1 = Size[1] /\ s2 = Size[2] /\ s3 = Size[3]
  BY <1>1, <1>2, <1>3
<1>6. /\ Left(d)[1] = p1 - h1 /\ Left(d)[2] = p2 - h2 /\ Left(d)[3] = p3 - h3
      /\ Right(d)[1] = p1 + h1 /\ Right(d)[2] = p2 + h2 /\ Right(d)[3] = p3 + h3
  BY <1>1, <1>2, <1>3, <1>4 DEF IsWindow, Left, Right, Three, Half
<1>7. PICK N \in Nat : N = s1 * s2 * s3 /\ N = CellCount
  BY <1>5 DEF CellCount
<1>8. Window(d) = [k \in 1 .. N |->
            <<(p1 - h1) + ((k - 1) \div (s2 * s3)), (p2 - h2) + (((k - 1) \div s3) % s2),
              (p3 - h3) + ((k - 1) % s3)>>]
  <2>1. /\ (p1 + h1) - (p1 - h1) + 1 = s1 /\ (p2 + h2) - (p2 - h2) + 1 = s2
        /\ (p3 + h3) - (p3 - h3) + 1 = s3
    BY <1>1, <1>2, <1>3, <1>5
  <2> QED
    BY <1>6, <1>7, <2>1 DEF Window, Three
<1>9. PICK w : w = Window(d)
  OBVIOUS
<1>10. ASSUME NEW k \in 1 .. N
       PROVE  \E i \in 0 .. s1 - 1, j \in 0 .. s2 - 1, l \in 0 .. s3 - 1 :
                 /\ k - 1 = (i * s2 + j) * s3 + l
                 /\ w[k] = <<(p1 - h1) + i, (p2 - h2) + j, (p3 - h3) + l>>
  <2>1. k - 1 \in 0 .. s1 * s2 * s3 - 1
    BY <1>7
  <2>2. PICK n \in 0 .. s1 * s2 * s3 - 1 : n = k - 1
    BY <2>1
  <2>5. HasDigits(n, s1, s2, s3)
    BY <1>5, <2>2, ThreeDigits
  <2>3. PICK i \in 0 .. s1 - 1, j \in 0 .. s2 - 1, l \in 0 .. s3 - 1 :
            /\ n = (i * s2 + j) * s3 + l
            /\ n \div (s2 * s3) = i /\ (n \div s3) % s2 = j /\ n % s3 = l
    BY <2>5 DEF HasDigits
  <2>4. w[k] = <<(p1 - h1) + i, (p2 - h2) + j, (p3 - h3) + l>>
    BY <1>8, <1>9, <2>2, <2>3
  <2> QED
    BY <2>2, <2>3, <2>4
<1>11. CellsAround(d.pos) = (p1 - h1 .. p1 + h1) \X (p2 - h2 .. p2 + h2) \X (p3 - h3 .. p3 + h3)
  BY <1>1, <1>2, <1>3, <1>4 DEF CellsAround
<1>12. \A k \in 1 .. N : w[k] \in CellsAround(d.pos)
  <2> TAKE k \in 1 .. N
  <2>1. PICK i \in 0 .. s1 - 1, j \in 0 .. s2 - 1, l \in 0 .. s3 - 1 :
            w[k] = <<(p1 - h1) + i, (p2 - h2) + j, (p3 - h3) + l>>
    BY <1>10
  <2>2. /\ (p1 - h1) + i \in p1 - h1 .. p1 + h1 /\ (p2 - h2) + j \in p2 - h2 .. p2 + h2
        /\ (p3 - h3) + l \in p3 - h3 .. p3 + h3
    BY <1>1, <1>2, <1>3, <1>5
  <2> QED
    BY <1>11, <2>1, <2>2
<1>13. ASSUME NEW k \in 1 .. N, NEW m \in 1 .. N, w[k] = w[m]
       PROVE  k = m
  <2>1. PICK i \in 0 .. s1 - 1, j \in 0 .. s2 - 1, l \in 0 .. s3 - 1 :
            /\ k - 1 = (i * s2 + j) * s3 + l
            /\ w[k] = <<(p1 - h1) + i, (p2 - h2) + j, (p3 - h3) + l>>
    BY <1>10
  <2>2. PICK x \in 0 .. s1 - 1, y \in 0 .. s2 - 1, z \in 0 .. s3 - 1 :
            /\ m - 1 = (x * s2 + y) * s3 + z
            /\ w[m] = <<(p1 - h1) + x, (p2 - h2) + y, (p3 - h3) + z>>
    BY <1>10
  <2>3. (p1 - h1) + i = (p1 - h1) + x /\ (p2 - h2) + j = (p2 - h2) + y /\ (p3 - h3) + l = (p3 - h3) + z
    <3>1. PICK a, b, c : a = (p1 - h1) + i /\ b = (p2 - h2) + j /\ c = (p3 - h3) + l
      OBVIOUS
    <3>2. PICK e, f, g : e = (p1 - h1) + x /\ f = (p2 - h2) + y /\ g = (p3 - h3) + z
      OBVIOUS
    <3>3. <<a, b, c>> = <<e, f, g>>
      BY <1>13, <2>1, <2>2, <3>1, <3>2
    <3>4. a = e /\ b = f /\ c = g
      BY <3>3
    <3> QED
      BY <3>1, <3>2, <3>4
  <2>4. i = x /\ j = y /\ l = z
    BY <2>3
  <2>5. k - 1 = m - 1
    BY <2>1, <2>2, <2>4
  <2> QED
    BY <2>5
<1>14. ASSUME NEW c \in CellsAround(d.pos)
       PROVE  \E k \in 1 .. N : w[k] = c
  <2>1. PICK c1 \in p1 - h1 .. p1 + h1, c2 \in p2 - h2 .. p2 + h2, c3 \in p3 - h3 .. p3 + h3 :
            c = <<c1, c2, c3>>
    BY <1>11
  <2>2. PICK i \in 0 .. s1 - 1, j \in 0 .. s2 - 1, l \in 0 .. s3 - 1 :
            i = c1 - (p1 - h1) /\ j = c2 - (p2 - h2) /\ l = c3 - (p3 - h3)
    BY <1>1, <1>2, <1>3, <1>5
  <2>3. (i * s2 + j) * s3 + l \in 0 .. s1 * s2 * s3 - 1
    BY ThreeDigitsBack
  <2>4. PICK n \in 0 .. N - 1 : n = (i * s2 + j) * s3 + l
    BY <1>7, <2>3
  <2>5. PICK k \in 1 .. N : k = n + 1 /\ k - 1 = n
    OBVIOUS
  <2>6. PICK x \in 0 .. s1 - 1, y \in 0 .. s2 - 1, z \in 0 .. s3 - 1 :
            /\ k - 1 = (x * s2 + y) * s3 + z
            /\ w[k] = <<(p1 - h1) + x, (p2 - h2) + y, (p3 - h3) + z>>
    BY <1>10
  <2>7. x = i /\ y = j /\ z = l
    <3>1. (x * s2 + y) * s3 + z = (i * s2 + j) * s3 + l
      BY <2>4, <2>5, <2>6
    <3>2. DigitsAreOwn(i, j, l, s1, s2, s3)
      BY <1>5, <2>2, ThreeDigitsBack
    <3> QED
      BY <2>6, <3>1, <3>2 DEF DigitsAreOwn
  <2>8. (p1 - h1) + i = c1 /\ (p2 - h2) + j = c2 /\ (p3 - h3) + l = c3
    BY <2>2
  <2> QED
    BY <2>1, <2>6, <2>7, <2>8
<1>15. DOMAIN w = 1 .. N /\ Len(w) = N
  BY <1>8, <1>9
<1> QED
  BY <1>7, <1>9, <1>12, <1>13, <1>14, <1>15

\* The remainder tells numbers apart that are less than m from one another.
LEMMA RemaindersDiffer ==
  ASSUME NEW m \in Nat \ {0}, NEW u \in Nat, NEW v \in Nat, u % m = v % m, u - v < m, v - u < m
  PROVE  u = v
<1>1. PICK x \in Nat, r \in 0 .. m - 1 : u = x * m + r /\ u % m = r
  BY DigitsOf
<1>2. PICK y \in Nat, s \in 0 .. m - 1 : v = y * m + s /\ v % m = s
  BY DigitsOf
<1>3. ASSUME NEW b \in Nat, NEW e \in Nat, b < e
      PROVE  e * m - b * m >= m
  <2>1. (b + 1) * m <= e * m /\ (b + 1) * m = b * m + m /\ b * m \in Int /\ e * m \in Int
    BY <1>3
  <2> QED
    BY <2>1
<1>4. x * m \in Int /\ y * m \in Int
  OBVIOUS
<1>5. ~(x < y) /\ ~(y < x)
  BY <1>1, <1>2, <1>3, <1>4
<1>6. x = y
  BY <1>5
<1> QED
  BY <1>1, <1>2, <1>6

\* Every cell of the window has its own place in the array.
LEMMA IndexesDiffer ==
  ASSUME NEW d, IsWindow(d), NEW c \in CellsAround(d.pos)
  PROVE  /\ GetIndex(d, c) \in 0 .. CellCount - 1
         /\ \A e \in CellsAround(d.pos) : GetIndex(d, e) = GetIndex(d, c) => e = c
<1> DEFINE At(e, a) == (e[a] - d.pos[a] + d.offset[a] + d.size[a]) % d.size[a]
<1>1. ASSUME NEW e \in CellsAround(d.pos), NEW f \in CellsAround(d.pos), NEW a \in 1 .. 3
      PROVE  At(e, a) \in 0 .. Size[a] - 1 /\ (At(e, a) = At(f, a) => e[a] = f[a])
  <2>1. PICK h \in Nat : Size[a] = 2 * h + 1 /\ Half(a) = h
    BY SizesAreOdd
  <2>2. PICK p \in Int, o \in 0 .. Size[a] - 1 : p = d.pos[a] /\ o = d.offset[a]
    <3>1. d.pos[a] \in Int /\ d.offset[a] \in 0 .. Size[a] - 1
      BY DEF IsWindow, Triples
    <3> QED
      BY <3>1
  <2>3. e[a] \in p - h .. p + h /\ f[a] \in p - h .. p + h
    BY <2>1, <2>2 DEF CellsAround
  <2>4. PICK m \in Nat \ {0}, x \in p - h .. p + h, y \in p - h .. p + h :
          m = Size[a] /\ m = d.size[a] /\ x = e[a] /\ y = f[a] /\ m = 2 * h + 1
    BY <2>1, <2>3 DEF IsWindow
  <2>5. PICK u \in Nat, v \in Nat : u = x - p + o + m /\ v = y - p + o + m
    BY <2>2, <2>4
  <2>6. At(e, a) = u % m /\ At(f, a) = v % m
    BY <2>2, <2>4, <2>5
  <2>7. u % m \in 0 .. m - 1
    OBVIOUS
  <2>8. u - v < m /\ v - u < m
    BY <2>4, <2>5
  <2>9. u % m = v % m => x = y
    <3>1. u % m = v % m => u = v
      BY <2>8, RemaindersDiffer
    <3> QED
      BY <2>5, <3>1
  <2> QED
    BY <2>4, <2>6, <2>7, <2>9
<1>2. PICK s1 \in Nat \ {0}, s2 \in Nat \ {0}, s3 \in Nat \ {0} :
        s1 = Size[1] /\ s2 = Size[2] /\ s3 = Size[3]
  <2>1. \A a \in 1 .. 3 : Size[a] \in Nat \ {0}
    BY SizesAreOdd
  <2> QED
    BY <2>1
<1>3. \A e : GetIndex(d, e) = (At(e, 1) * s2 + At(e, 2)) * s3 + At(e, 3)
  BY <1>2 DEF GetIndex, IsWindow
<1> HIDE DEF At
<1>4. PICK i \in 0 .. s1 - 1, j \in 0 .. s2 - 1, l \in 0 .. s3 - 1 :
        i = At(c, 1) /\ j = At(c, 2) /\ l = At(c, 3)
  BY <1>1, <1>2
<1>5. GetIndex(d, c) = (i * s2 + j) * s3 + l
  BY <1>3, <1>4
<1>6. /\ (i * s2 + j) * s3 + l \in 0 .. s1 * s2 * s3 - 1
      /\ DigitsAreOwn(i, j, l, s1, s2, s3)
  BY ThreeDigitsBack
<1>7. ASSUME NEW e \in CellsAround(d.pos), GetIndex(d, e) = GetIndex(d, c)
      PROVE  e = c
  <2>1. PICK x \in 0 .. s1 - 1, y \in 0 .. s2 - 1, z \in 0 .. s3 - 1 :
          x = At(e, 1) /\ y = At(e, 2) /\ z = At(e, 3)
    BY <1>1, <1>2
  <2>2. (x * s2 + y) * s3 + z = (i * s2 + j) * s3 + l
    BY <1>3, <1>5, <1>7, <2>1
  <2>3. x = i /\ y = j /\ z = l
    BY <1>6, <2>1, <2>2 DEF DigitsAreOwn
  <2>4. e[1] = c[1] /\ e[2] = c[2] /\ e[3] = c[3]
    BY <1>1, <1>4, <2>1, <2>3
  <2>5. e = <<e[1], e[2], e[3]>> /\ c = <<c[1], c[2], c[3]>>
    BY DEF CellsAround
  <2> QED
    BY <2>4, <2>5
<1> QED
  BY <1>2, <1>5, <1>6, <1>7 DEF CellCount

-----------------------------------------------------------------------------
(******************************* the marker ********************************)

LEMMA SharesCover ==
  ASSUME NEW n \in Nat
  PROVE  /\ ShareEnd(n, 0) = 0 /\ ShareEnd(n, ThreadCount) = n
         /\ \A t \in 0 .. ThreadCount : ShareEnd(n, t) \in 0 .. n
         /\ \A t \in 1 .. ThreadCount : ShareEnd(n, t - 1) <= ShareEnd(n, t)
<1>1. PICK m \in Nat \ {0} : m = ThreadCount
  BY CodecAssumption
<1>2. PICK q \in Nat, r \in 0 .. m - 1 : n = q * m + r /\ n \div m = q /\ n % m = r
  BY DigitsOf
<1>3. \A t : ShareEnd(n, t) = t * q + IF t < r THEN t ELSE r
  BY <1>1, <1>2 DEF ShareEnd
<1>4. ASSUME NEW t \in 0 .. m
      PROVE  ShareEnd(n, t) \in 0 .. n
  <2>1. t * q \in Nat /\ t * q <= m * q /\ m * q = q * m /\ q * m \in Nat
    OBVIOUS
  <2> QED
    BY <1>2, <1>3, <2>1
<1>5. ASSUME NEW t \in 1 .. m
      PROVE  ShareEnd(n, t - 1) <= ShareEnd(n, t)
  <2>1. (t - 1) * q = t * q - q /\ t * q \in Nat
    OBVIOUS
  <2> QED
    BY <1>3, <2>1
<1>6. 0 * q = 0 /\ m * q = q * m /\ q * m \in Nat
  OBVIOUS
<1>7. ShareEnd(n, 0) = 0 /\ ShareEnd(n, m) = n
  BY <1>2, <1>3, <1>6
<1> QED
  BY <1>1, <1>4, <1>5, <1>7

\* A point of the marker, and the turns of the loops in which there is one
Mark(d, c) == <<Point(d, c), Colour(d, d.data[GetIndex(d, c)].value)>>
Marks(d)   == [k \in 1 .. CellCount |-> Mark(d, Window(d)[k])]
Marked(d)  == {k \in 1 .. CellCount : Shown(d, Window(d)[k])}

LEMMA ThreadPushes ==
  ASSUME NEW d, IsWindow(d), NEW t \in 1 .. ThreadCount, NEW T, \A k \in 1 .. CellCount : Marks(d)[k] \in T
  PROVE  PushedIn(Share(d, t), T, Marks(d), Marked(d),
                  ShareEnd(CellCount, t - 1), ShareEnd(CellCount, t))
<1>1. PICK N \in Nat : N = CellCount /\ N = Len(Window(d))
  BY WindowIsCells
<1>2. PICK from \in 0 .. N, to \in 0 .. N :
        from = ShareEnd(N, t - 1) /\ to = ShareEnd(N, t) /\ from <= to
  <2>1. t - 1 \in 0 .. ThreadCount /\ t \in 0 .. ThreadCount
    BY CodecAssumption
  <2> QED
    BY <2>1, SharesCover
<1>3. PICK M \in Nat : M = to - from /\ from + M = to
  BY <1>2
<1>4. PICK w : w = Window(d)
  OBVIOUS
<1>5. PICK q : q = [k \in 1 .. M |-> Pushed(d, w[from + k])]
  OBVIOUS
<1>6. Share(d, t) = FlattenSeq(q)
  BY <1>1, <1>2, <1>3, <1>4, <1>5 DEF Share
<1>7. Len(q) = M /\ (M = 0 => q = <<>>) /\ \A k \in 1 .. M : q[k] = Pushed(d, w[from + k])
  <2>1. M = 0 => 1 .. M = {}
    OBVIOUS
  <2> QED
    BY <1>5, <2>1
<1>8. PICK x, S : x = Marks(d) /\ S = Marked(d)
  OBVIOUS
<1>9. ASSUME NEW k \in 1 .. M
      PROVE  PushedIn(q[k], T, x, S, from + (k - 1), from + k)
  <2>1. PICK j \in Nat \ {0} : j = from + k /\ j - 1 = from + (k - 1) /\ j \in 1 .. N
    BY <1>2, <1>3
  <2>2. q[k] = IF j \in S THEN <<x[j]>> ELSE <<>>
    BY <1>1, <1>4, <1>7, <1>8, <2>1 DEF Pushed, Marks, Marked, Mark
  <2>3. j \in S => x[j] \in T
    BY <1>1, <1>8, <2>1
  <2>4. PICK r : r = q[k]
    OBVIOUS
  <2>5. PushedIn(r, T, x, S, j - 1, j)
    BY <2>2, <2>3, <2>4, PushedOnce
  <2> QED
    BY <2>1, <2>4, <2>5
<1>10. PICK e : e = [i \in 0 .. M |-> from + i]
  OBVIOUS
<1>11. /\ e[0] = from /\ e[M] = to
       /\ \A i \in 0 .. M : e[i] \in Nat
       /\ \A i \in 1 .. M : e[i - 1] <= e[i] /\ e[i - 1] = from + (i - 1) /\ e[i] = from + i
  BY <1>3, <1>10
<1>12. \A i \in 1 .. M : e[i - 1] <= e[i] /\ PushedIn(q[i], T, x, S, e[i - 1], e[i])
  BY <1>9, <1>11
<1>13. PushedIn(FlattenSeq(q), T, x, S, e[0], e[M])
  BY <1>7, <1>11, <1>12, PiecesJoined
<1> QED
  BY <1>1, <1>2, <1>6, <1>8, <1>11, <1>13

LEMMA MarkerIsPushed ==
  ASSUME NEW d, IsWindow(d)
  PROVE  \E T : PushedIn(MarkerToRos(d), T, Marks(d), Marked(d), 0, CellCount)
<1>1. PICK N \in Nat : N = CellCount
  BY WindowIsCells
<1>2. PICK m \in Nat \ {0} : m = ThreadCount
  BY CodecAssumption
<1>3. PICK x, S : x = Marks(d) /\ S = Marked(d)
  OBVIOUS
<1>4. PICK T : T = {x[k] : k \in 1 .. N}
  OBVIOUS
<1>5. \A k \in 1 .. CellCount : Marks(d)[k] \in T
  BY <1>1, <1>3, <1>4
<1>6. PICK q : q = [t \in 1 .. m |-> Share(d, t)]
  OBVIOUS
<1>7. MarkerToRos(d) = FlattenSeq(q) /\ Len(q) = m
  BY <1>2, <1>6 DEF MarkerToRos
<1>8. PICK e : e = [t \in 0 .. m |-> ShareEnd(N, t)]
  OBVIOUS
<1>9. e[0] = 0 /\ e[m] = N /\ \A t \in 0 .. m : e[t] \in Nat
  <2>1. ShareEnd(N, 0) = 0 /\ ShareEnd(N, m) = N /\ \A t \in 0 .. m : ShareEnd(N, t) \in 0 .. N
    BY <1>2, SharesCover
  <2>2. 0 \in 0 .. m /\ m \in 0 .. m
    OBVIOUS
  <2> QED
    BY <1>8, <2>1, <2>2
<1>10. ASSUME NEW t \in 1 .. m
       PROVE  e[t - 1] <= e[t] /\ PushedIn(q[t], T, x, S, e[t - 1], e[t])
  <2>1. t - 1 \in 0 .. m /\ t \in 0 .. m /\ t \in 1 .. ThreadCount
    BY <1>2
  <2>2. e[t - 1] = ShareEnd(N, t - 1) /\ e[t] = ShareEnd(N, t) /\ q[t] = Share(d, t)
    BY <1>6, <1>8, <2>1
  <2>3. ShareEnd(N, t - 1) <= ShareEnd(N, t)
    BY <1>1, <2>1, SharesCover
  <2>4. PushedIn(Share(d, t), T, Marks(d), Marked(d), ShareEnd(CellCount, t - 1), ShareEnd(CellCount, t))
    BY <1>5, <2>1, ThreadPushes
  <2> QED
    BY <1>1, <1>3, <2>2, <2>3, <2>4
<1>11. PushedIn(FlattenSeq(q), T, x, S, e[0], e[m])
  BY <1>2, <1>7, <1>9, <1>10, PiecesJoined
<1> QED
  BY <1>1, <1>3, <1>7, <1>9, <1>11

\* What the board sends of a map, and what the bridge finds in it
LEMMA MapArrives ==
  ASSUME NEW m, IsMap(m), NEW s, NEW d, d = TsdfOf(m, s)
  PROVE  /\ IsWindow(d) /\ d.pos = m.pos /\ d.tau = Tau /\ d.scaling = s
         /\ m.field \in [CellsAround(d.pos) -> [value : Int, weight : Int]]
         /\ \A c \in CellsAround(d.pos) : d.data[GetIndex(d, c)] = m.field[c]
<1>1. /\ d.pos = m.pos /\ d.size = Size /\ d.offset = m.offset /\ d.tau = Tau /\ d.scaling = s
  BY DEF TsdfOf
<1>2. PICK map : map = [size |-> Size, pos |-> m.pos, offset |-> m.offset]
  OBVIOUS
<1>3. map.size = Size /\ map.pos = m.pos /\ map.offset = m.offset
  BY <1>2
<1>4. IsWindow(d) /\ IsWindow(map)
  BY <1>1, <1>3 DEF IsWindow, IsMap
<1>5. m.field \in [CellsAround(m.pos) -> [value : Int, weight : Int]]
  BY DEF IsMap, CellsAround, Half
<1>6. d.data = [n \in 0 .. CellCount - 1 |->
                   m.field[CHOOSE c \in ToSet(Window(map)) : GetIndex(map, c) = n]]
  BY <1>2 DEF TsdfOf, CellCount
<1>7. \A c : GetIndex(d, c) = GetIndex(map, c)
  BY <1>1, <1>3 DEF GetIndex
<1>8. ToSet(Window(map)) = CellsAround(m.pos)
  <2>1. DOMAIN Window(map) = 1 .. CellCount
    BY <1>4, WindowIsCells
  <2>2. PICK N : N = CellCount
    OBVIOUS
  <2>3. PICK w : w = Window(map)
    OBVIOUS
  <2>4. /\ \A k \in 1 .. N : w[k] \in CellsAround(m.pos)
        /\ \A c \in CellsAround(m.pos) : \E k \in 1 .. N : w[k] = c
    <3>1. /\ \A k \in 1 .. CellCount : Window(map)[k] \in CellsAround(map.pos)
          /\ \A c \in CellsAround(map.pos) : \E k \in 1 .. CellCount : Window(map)[k] = c
      BY <1>4, WindowIsCells
    <3> QED
      BY <1>3, <2>2, <2>3, <3>1
  <2>5. ToSet(w) = {w[k] : k \in 1 .. N}
    BY <2>1, <2>2, <2>3 DEF ToSet
  <2> QED
    BY <2>3, <2>4, <2>5
<1>9. ASSUME NEW c \in CellsAround(m.pos)
      PROVE  d.data[GetIndex(d, c)] = m.field[c]
  <2>1. PICK n \in 0 .. CellCount - 1 : n = GetIndex(map, c)
    BY <1>3, <1>4, IndexesDiffer
  <2>2. \A e \in CellsAround(m.pos) : GetIndex(map, e) = n => e = c
    BY <1>3, <1>4, <2>1, IndexesDiffer
  <2>3. (CHOOSE e \in ToSet(Window(map)) : GetIndex(map, e) = n) = c
    BY <1>8, <2>1, <2>2
  <2>4. d.data[n] = m.field[CHOOSE e \in ToSet(Window(map)) : GetIndex(map, e) = n]
    BY <1>6, <2>1
  <2> QED
    BY <1>7, <2>1, <2>3, <2>4
<1> QED
  BY <1>1, <1>4, <1>5, <1>9

LEMMA MarkerShows ==
  ASSUME NEW m, IsMap(m), NEW s \in Nat \ {0}, kind = "tsdf"
  PROVE  Shows(MarkerToRos(TsdfOf(m, s)), m, s)
<1>1. PICK d : d = TsdfOf(m, s)
  OBVIOUS
<1>2. PICK field : field = m.field
  OBVIOUS
<1>3. /\ IsWindow(d) /\ d.tau = Tau /\ d.scaling = s
      /\ field \in [CellsAround(d.pos) -> [value : Int, weight : Int]]
      /\ \A c \in CellsAround(d.pos) : d.data[GetIndex(d, c)] = field[c]
  BY <1>1, <1>2, MapArrives
<1>4. PICK N \in Nat : N = CellCount
  BY <1>3, WindowIsCells
<1>5. PICK w : w = Window(d)
  OBVIOUS
<1>6. /\ \A k \in 1 .. N : w[k] \in CellsAround(d.pos)
      /\ \A j, k \in 1 .. N : w[j] = w[k] => j = k
      /\ \A c \in CellsAround(d.pos) : \E k \in 1 .. N : w[k] = c
  <2>1. /\ \A k \in 1 .. CellCount : Window(d)[k] \in CellsAround(d.pos)
        /\ \A j, k \in 1 .. CellCount : Window(d)[j] = Window(d)[k] => j = k
        /\ \A c \in CellsAround(d.pos) : \E k \in 1 .. CellCount : Window(d)[k] = c
    <3>1. IsWindow(d)
      BY <1>3
    <3> QED
      BY <3>1, WindowIsCells
  <2> QED
    BY <1>4, <1>5, <2>1
<1>7. ASSUME NEW c \in CellsAround(d.pos)
      PROVE  (Shown(d, c) <=> c \in Known(m)) /\ Mark(d, c) = Entry(m, s, c)
  <2>1. PICK v \in Int : v = field[c].value
    BY <1>3
  <2>2. d.data[GetIndex(d, c)] = field[c]
    BY <1>3
  <2>3. Shown(d, c) <=> field[c].weight # 0 /\ v < Tau /\ -v < Tau
    BY <1>3, <2>1, <2>2 DEF Shown
  <2>4. c \in Known(m) <=> field[c].weight # 0 /\ v \in 1 - Tau .. Tau - 1
    BY <1>2, <1>3, <2>1 DEF Known
  <2>5. v < Tau /\ -v < Tau <=> v \in 1 - Tau .. Tau - 1
    <3>1. Tau \in Nat
      BY CodecAssumption
    <3> QED
      BY <3>1
  <2>6. Colour(d, v) = IF v < 0 THEN [r |-> 0, g |-> <<-v, Tau>>] ELSE [r |-> <<v, Tau>>, g |-> 0]
    BY <1>3 DEF Colour
  <2>7. Point(d, c) = [a \in 1 .. 3 |-> (c[a] * Resolution * Fractions) \div s]
    BY <1>3 DEF Point, Three, FromBoard
  <2> QED
    BY <1>2, <2>1, <2>2, <2>3, <2>4, <2>5, <2>6, <2>7 DEF Mark, Entry
<1>8. PICK content : content = MarkerToRos(d)
  OBVIOUS
<1>9. PICK T : PushedIn(content, T, Marks(d), Marked(d), 0, N)
  BY <1>3, <1>4, <1>8, MarkerIsPushed
<1>10. PICK S : S = {k \in 1 .. N : w[k] \in Known(m)}
  OBVIOUS
<1>11. (0 + 1 .. N) \cap Marked(d) = S
  BY <1>4, <1>5, <1>6, <1>7, <1>10 DEF Marked
<1>12. \A k \in 1 .. N : Marks(d)[k] = Entry(m, s, w[k])
  BY <1>4, <1>5, <1>6, <1>7 DEF Marks
<1>13. Known(m) \subseteq CellsAround(d.pos)
  BY <1>2, <1>3 DEF Known
<1>14. ToSet(content) = {Entry(m, s, c) : c \in Known(m)}
  <2>1. content \in Seq(T) /\ DOMAIN content = 1 .. Len(content)
    BY <1>9 DEF PushedIn
  <2>2. \A i \in 1 .. Len(content) : \E k \in S : content[i] = Entry(m, s, w[k])
    BY <1>9, <1>10, <1>11, <1>12 DEF PushedIn
  <2>3. \A k \in S : \E i \in 1 .. Len(content) : content[i] = Entry(m, s, w[k])
    BY <1>9, <1>10, <1>11, <1>12 DEF PushedIn
  <2>4. \A c \in Known(m) : \E k \in S : w[k] = c
    BY <1>6, <1>10, <1>13
  <2>5. \A k \in S : w[k] \in Known(m)
    BY <1>10
  <2>6. PICK g : g = [c \in Known(m) |-> Entry(m, s, c)]
    OBVIOUS
  <2>7. {Entry(m, s, c) : c \in Known(m)} = {g[c] : c \in Known(m)}
    BY <2>6
  <2>8. ASSUME NEW i \in 1 .. Len(content)
        PROVE  \E c \in Known(m) : content[i] = g[c]
    BY <2>2, <2>5, <2>6
  <2>9. ASSUME NEW c \in Known(m)
        PROVE  \E i \in 1 .. Len(content) : content[i] = g[c]
    <3>1. PICK k \in S : w[k] = c
      BY <2>4
    <3> QED
      BY <2>3, <2>6, <3>1
  <2>10. ToSet(content) = {content[i] : i \in 1 .. Len(content)}
    BY <2>1 DEF ToSet
  <2>11. \A y : y \in ToSet(content) => \E c \in Known(m) : y = g[c]
    BY <2>8, <2>10
  <2>12. \A c \in Known(m) : g[c] \in ToSet(content)
    BY <2>9, <2>10
  <2>13. ToSet(content) = {g[c] : c \in Known(m)}
    BY <2>11, <2>12
  <2> QED
    BY <2>7, <2>13
<1>15. Len(content) = Cardinality(Known(m))
  <2>1. PICK f : f = [k \in S |-> w[k]]
    OBVIOUS
  <2>2. f \in Bijection(S, Known(m))
    <3>1. f \in [S -> Known(m)]
      BY <1>10, <2>1
    <3>2. \A j, k \in S : f[j] = f[k] => j = k
      BY <1>6, <1>10, <2>1
    <3>3. \A c \in Known(m) : \E k \in S : f[k] = c
      BY <1>6, <1>10, <1>13, <2>1
    <3> QED
      BY <3>1, <3>2, <3>3 DEF Bijection, Injection, Surjection, IsInjective
  <2>3. IsFiniteSet(S)
    <3>1. IsFiniteSet(1 .. N) /\ S \in SUBSET (1 .. N)
      BY <1>10, FS_Interval
    <3> QED
      BY <3>1, FS_Subset
  <2>4. ExistsBijection(S, Known(m))
    BY <2>2 DEF ExistsBijection
  <2>5. Cardinality(Known(m)) = Cardinality(S)
    BY <2>3, <2>4, FS_Bijection
  <2> QED
    BY <1>9, <1>11, <2>5 DEF PushedIn
<1> QED
  BY <1>1, <1>8, <1>14, <1>15 DEF Shows

-----------------------------------------------------------------------------
(********************************* messages ********************************)

LEMMA ScaledTriple ==
  ASSUME NEW v \in Triples, NEW s \in Nat \ {0}
  PROVE  /\ Scaled(v, s)[1] = v[1] * s /\ Scaled(v, s)[2] = v[2] * s /\ Scaled(v, s)[3] = v[3] * s
         /\ v[1] \in Int /\ v[2] \in Int /\ v[3] \in Int
<1>1. v[1] \in Int /\ v[2] \in Int /\ v[3] \in Int /\ v = <<v[1], v[2], v[3]>>
  BY DEF Triples
<1>2. 1 \in DOMAIN v /\ 2 \in DOMAIN v /\ 3 \in DOMAIN v
  BY <1>1
<1> QED
  BY <1>1, <1>2 DEF Scaled

\* The receiver makes of the parts what the sender had, whatever it held before.
LEMMA MessageArrives ==
  ASSUME kind \in Kinds, kind # "loam", NEW e \in Measured[kind], NEW n, NEW held
  PROVE  LET got == FromZmq(ToZmq(n, DataOf(e.m, e.s)), held)
         IN  got.stamp = n /\ got.data = DataOf(e.m, e.s)
<1>1. kind \in FromTrenz \cup ToTrenz
  BY WireAssumption
<1>2. ToZmq(n, DataOf(e.m, e.s)).stamp = n
  BY DEF ToZmq
<1>3. FromZmq(ToZmq(n, DataOf(e.m, e.s)), held).stamp = n
  BY <1>2 DEF FromZmq
<1>4. PICK d : d = DataOf(e.m, e.s)
  OBVIOUS
<1>5. PICK parts : parts = ToZmq(n, d).parts
  OBVIOUS
<1>6. CASE kind \in {"imu", "imu back"}
  <2>1. parts[1] = d
    BY <1>5, <1>6 DEF ToZmq
  <2> QED
    BY <1>3, <1>4, <1>5, <1>6, <2>1 DEF FromZmq
<1>7. CASE kind \in {"cloud", "cloud back"}
  <2>1. d = [rings |-> d.rings, points |-> d.points, scaling |-> d.scaling]
    BY <1>4, <1>7 DEF DataOf, CloudOf, CloudFromRos
  <2>2. parts = <<d.rings, d.points, d.scaling>>
    BY <1>5, <1>7 DEF ToZmq, CloudParts
  <2>3. FromZmq(ToZmq(n, d), held).data = CloudFromParts(parts, held.data)
    BY <1>5, <1>7 DEF FromZmq
  <2> QED
    BY <1>3, <1>4, <2>1, <2>2, <2>3 DEF CloudFromParts
<1>8. CASE kind = "transform"
  <2>1. d = [rotation |-> e.m.rotation, translation |-> d.translation, scaling |-> d.scaling]
    BY <1>4, <1>8 DEF DataOf, TransformOf
  <2>2. e.m.rotation \in Quaternions
    BY <1>8, MeasuredAssumption
  <2>3. e.m.rotation = <<e.m.rotation[1], e.m.rotation[2], e.m.rotation[3], e.m.rotation[4]>>
    BY <2>2 DEF Quaternions
  <2>4. parts = <<d.translation,
                  <<d.rotation[2], d.rotation[3], d.rotation[4], d.rotation[1]>>, d.scaling>>
    BY <1>5, <1>8 DEF ToZmq, TransformParts
  <2>5. FromZmq(ToZmq(n, d), held).data = TransformFromParts(parts, held.data)
    BY <1>5, <1>8 DEF FromZmq
  <2>6. TransformFromParts(parts, held.data) =
          [translation |-> d.translation,
           rotation |-> <<d.rotation[1], d.rotation[2], d.rotation[3], d.rotation[4]>>,
           scaling |-> d.scaling]
    BY <2>4 DEF TransformFromParts
  <2>7. TransformFromParts(parts, held.data) = d
    BY <2>1, <2>3, <2>6
  <2> QED
    BY <1>3, <1>4, <2>5, <2>7
<1>9. CASE kind = "tsdf"
  <2>1. d = [tau |-> d.tau, size |-> d.size, pos |-> d.pos, offset |-> d.offset,
             scaling |-> d.scaling, data |-> d.data]
    BY <1>4, <1>9 DEF DataOf, TsdfOf
  <2>2. parts = <<d.tau, d.size, d.pos, d.offset, d.scaling, d.data>>
    BY <1>5, <1>9 DEF ToZmq, TsdfParts
  <2>3. FromZmq(ToZmq(n, d), held).data = TsdfFromParts(parts, held.data)
    BY <1>5, <1>9 DEF FromZmq
  <2> QED
    BY <1>3, <1>4, <2>1, <2>2, <2>3 DEF TsdfFromParts
<1> QED
  BY <1>1, <1>6, <1>7, <1>8, <1>9 DEF FromTrenz, ToTrenz

\* What ROS, or the board, gets of a measurement
RosOf(d) == CASE kind = "imu" -> ImuToRos(d)
              [] kind = "cloud" -> CloudToRos(d)
              [] kind = "tsdf" -> MarkerToRos(d)
              [] OTHER -> d

LEMMA DiagonalOfCovariance ==
  {k \in 0 .. 8 : Covariance(Stdev.mag)[k] # 0} = {0, 4, 8}
<1>1. PICK v : v = Stdev.mag * Stdev.mag
  OBVIOUS
<1>2. v # 0
  <2>1. PICK n \in Nat \ {0} : n = Stdev.mag
    BY CodecAssumption
  <2>2. n * n >= n
    BY <2>1
  <2> QED
    BY <1>1, <2>1, <2>2
<1>3. \A k \in 0 .. 8 : Covariance(Stdev.mag)[k] = IF k \div 3 = k % 3 THEN v ELSE 0
  BY <1>1 DEF Covariance
<1>4. \A k \in 0 .. 8 : k \div 3 = k % 3 <=> k \in {0, 4, 8}
  <2> TAKE k \in 0 .. 8
  <2>1. \/ k = 0 \/ k = 1 \/ k = 2 \/ k = 3 \/ k = 4 \/ k = 5 \/ k = 6 \/ k = 7 \/ k = 8
    OBVIOUS
  <2> QED
    BY <2>1
<1> QED
  BY <1>2, <1>3, <1>4

LEMMA RosShows ==
  ASSUME kind \in Kinds, kind \notin {"loam", "transform"}, NEW e \in Measured[kind]
  PROVE  Shows(RosOf(DataOf(e.m, e.s)), e.m, e.s)
<1>1. kind \in {"imu", "imu back", "cloud", "cloud back", "tsdf"}
  BY WireAssumption DEF FromTrenz, ToTrenz
<1>2. PICK content : content = RosOf(DataOf(e.m, e.s))
  OBVIOUS
<1>3. CASE kind = "imu"
  <2>1. content = ImuToRos(e.m)
    BY <1>2, <1>3 DEF RosOf, DataOf
  <2>2. /\ content.raw.acceleration = e.m.acc /\ content.raw.velocity = e.m.ang
        /\ content.mag.field = e.m.mag
        /\ content.mag.covariance = Covariance(Stdev.mag)
    BY <2>1 DEF ImuToRos
  <2>3. Shows(content, e.m, e.s) <=>
            /\ content.raw.acceleration = e.m.acc /\ content.raw.velocity = e.m.ang
            /\ content.mag.field = e.m.mag
            /\ {k \in 0 .. 8 : content.mag.covariance[k] # 0} = {0, 4, 8}
    BY <1>3 DEF Shows
  <2>4. {k \in 0 .. 8 : content.mag.covariance[k] # 0} = {0, 4, 8}
    BY <2>2, DiagonalOfCovariance
  <2> QED
    BY <1>2, <2>2, <2>3, <2>4
<1>4. CASE kind = "imu back"
  <2>1. content = ImuFromRos(e.m)
    BY <1>2, <1>4 DEF RosOf, DataOf
  <2>2. content.acc = e.m.acc /\ content.ang = e.m.ang
    BY <2>1 DEF ImuFromRos
  <2>3. Shows(content, e.m, e.s)
    BY <1>4, <2>2 DEF Shows
  <2> QED
    BY <1>2, <2>3
<1>5. CASE kind = "cloud"
  <2>1. e.m \in Seq(Int) /\ e.s \in Nat \ {0}
    BY <1>5, MeasuredAssumption
  <2>2. content = CloudToRos(CloudOf(e.m, e.s))
    BY <1>2, <1>5 DEF RosOf, DataOf
  <2>3. CloudOf(e.m, e.s).points = [k \in DOMAIN e.m |-> e.m[k] * e.s] /\ CloudOf(e.m, e.s).scaling = e.s
    BY DEF CloudOf, Scaled
  <2>4. content = [k \in DOMAIN e.m |-> FromBoard(e.m[k] * e.s, e.s)]
    BY <2>2, <2>3 DEF CloudToRos
  <2>5. \A k \in DOMAIN e.m : FromBoard(e.m[k] * e.s, e.s) = Length(e.m[k])
    <3> TAKE k \in DOMAIN e.m
    <3>1. PICK x : x = e.m[k]
      OBVIOUS
    <3>2. PICK f \in Nat \ {0} : f = e.s
      BY <2>1
    <3>3. x \in Int
      BY <2>1, <3>1
    <3>4. FromBoard(x * f, f) = Length(x)
      BY <3>3, ScaledBack
    <3> QED
      BY <3>1, <3>2, <3>4
  <2> QED
    BY <1>2, <1>5, <2>4, <2>5 DEF Shows
<1>6. CASE kind = "cloud back"
  <2>1. e.m \in Seq(Int)
    BY <1>6, MeasuredAssumption
  <2>2. content = CloudFromRos(e.m)
    BY <1>2, <1>6 DEF RosOf, DataOf
  <2>3. content.points = [k \in DOMAIN e.m |-> ToBoard(e.m[k])] /\ content.scaling = 1
    BY <2>2 DEF CloudFromRos
  <2>4. \A k \in DOMAIN e.m : Truncated(e.m[k], ToBoard(e.m[k]))
    BY <2>1, BoardTruncates
  <2> QED
    BY <1>2, <1>6, <2>3, <2>4 DEF Shows
<1>7. CASE kind = "tsdf"
  <2>1. IsMap(e.m) /\ e.s \in Nat \ {0}
    BY <1>7, MeasuredAssumption
  <2>2. PICK m : m = e.m
    OBVIOUS
  <2>3. PICK f \in Nat \ {0} : f = e.s
    BY <2>1
  <2>4. Shows(MarkerToRos(TsdfOf(m, f)), m, f)
    BY <1>7, <2>1, <2>2, MarkerShows
  <2> QED
    BY <1>7, <2>2, <2>3, <2>4 DEF RosOf, DataOf
<1> QED
  BY <1>1, <1>3, <1>4, <1>5, <1>6, <1>7

\* The pose of a transformation
PoseShows(p, m) ==
    /\ p.position = [a \in 1 .. 3 |-> Length(m.translation[a])]
    /\ p.orientation = Tail(m.rotation) \o <<m.rotation[1]>>

RosPoses == [orientation : Quaternions, position : Triples]

LEMMA PoseIsShown ==
  ASSUME kind \in Kinds, kind = "transform", NEW e \in Measured[kind]
  PROVE  /\ PoseToRos(DataOf(e.m, e.s)) \in RosPoses
         /\ PoseShows(PoseToRos(DataOf(e.m, e.s)), e.m)
<1>1. e.m.rotation \in Quaternions /\ e.m.translation \in Triples /\ e.s \in Nat \ {0}
  BY MeasuredAssumption
<1>2. PICK q : q = e.m.rotation
  OBVIOUS
<1>3. q[1] \in Int /\ q[2] \in Int /\ q[3] \in Int /\ q[4] \in Int /\ q = <<q[1], q[2], q[3], q[4]>>
  BY <1>1, <1>2 DEF Quaternions
<1>4. PICK v : v = e.m.translation
  OBVIOUS
<1>5. PICK pos : pos = <<Length(v[1]), Length(v[2]), Length(v[3])>>
  OBVIOUS
<1>6. PoseToRos(DataOf(e.m, e.s)) = [orientation |-> <<q[2], q[3], q[4], q[1]>>, position |-> pos]
  <2>1. DataOf(e.m, e.s) = [rotation |-> q, translation |-> Scaled(v, e.s), scaling |-> e.s]
    BY <1>2, <1>4 DEF DataOf, TransformOf
  <2>2. PICK w : w = Scaled(v, e.s)
    OBVIOUS
  <2>3. PoseToRos(DataOf(e.m, e.s)) =
          [orientation |-> <<q[2], q[3], q[4], q[1]>>,
           position |-> <<FromBoard(w[1], e.s), FromBoard(w[2], e.s), FromBoard(w[3], e.s)>>]
    BY <2>1, <2>2 DEF PoseToRos, Three
  <2>4. /\ FromBoard(w[1], e.s) = Length(v[1]) /\ FromBoard(w[2], e.s) = Length(v[2])
        /\ FromBoard(w[3], e.s) = Length(v[3])
    BY <1>1, <1>4, <2>2, ScaledTriple, ScaledBack
  <2> QED
    BY <1>5, <2>3, <2>4
<1>7. pos \in Triples /\ pos = [a \in 1 .. 3 |-> Length(v[a])]
  <2>1. \A x \in Int : Length(x) \in Int
    BY CodecAssumption DEF Length
  <2>2. v[1] \in Int /\ v[2] \in Int /\ v[3] \in Int
    BY <1>1, <1>4, ScaledTriple
  <2> QED
    BY <1>5, <2>1, <2>2 DEF Triples
<1>8. <<q[2], q[3], q[4], q[1]>> = Tail(q) \o <<q[1]>> /\ <<q[2], q[3], q[4], q[1]>> \in Quaternions
  <2>1. PICK w \in Int, x \in Int, y \in Int, z \in Int :
              q[1] = w /\ q[2] = x /\ q[3] = y /\ q[4] = z /\ q = <<w, x, y, z>>
    BY <1>3
  <2>2. q \in Seq(Int) /\ Len(q) = 4
    BY <2>1
  <2>3. Tail(q) \in Seq(Int) /\ Len(Tail(q)) = 3
    BY <2>2
  <2>4. PICK t \in Seq(Int) : t = Tail(q)
    BY <2>3
  <2>5. Len(t) = 3 /\ t[1] = x /\ t[2] = y /\ t[3] = z
    BY <2>1, <2>2, <2>4
  <2>6. PICK r : r = t \o <<w>>
    OBVIOUS
  <2>7. r \in Seq(Int) /\ Len(r) = 4 /\ r[1] = x /\ r[2] = y /\ r[3] = z /\ r[4] = w
    <3>1. <<w>> \in Seq(Int)
      OBVIOUS
    <3>2. PICK one \in Seq(Int) : one = <<w>>
      BY <3>1
    <3>3. Len(one) = 1 /\ one[1] = w
      BY <3>2
    <3>4. /\ t \o one \in Seq(Int) /\ Len(t \o one) = Len(t) + Len(one)
          /\ \A i \in 1 .. Len(t) + Len(one) :
                (t \o one)[i] = IF i <= Len(t) THEN t[i] ELSE one[i - Len(t)]
      BY ConcatProperties
    <3> QED
      BY <2>5, <2>6, <3>2, <3>3, <3>4
  <2>8. r = <<x, y, z, w>>
    BY <2>7
  <2> QED
    BY <2>1, <2>4, <2>6, <2>8 DEF Quaternions
<1>9. PICK p : p = PoseToRos(DataOf(e.m, e.s))
  OBVIOUS
<1>10. p.orientation = <<q[2], q[3], q[4], q[1]>> /\ p.position = pos
  BY <1>6, <1>9
<1>11. p \in RosPoses
  <2>1. PICK o \in Quaternions : o = <<q[2], q[3], q[4], q[1]>>
    BY <1>8
  <2>2. p = [orientation |-> o, position |-> pos]
    BY <1>6, <1>9, <2>1
  <2> QED
    BY <1>7, <2>2 DEF RosPoses
<1>12. PoseShows(p, e.m)
  <2>1. PoseShows(p, e.m) <=> /\ p.position = [a \in 1 .. 3 |-> Length(v[a])]
                             /\ p.orientation = Tail(q) \o <<q[1]>>
    BY <1>2, <1>4 DEF PoseShows
  <2> QED
    BY <1>7, <1>8, <1>10, <2>1
<1> QED
  BY <1>9, <1>11, <1>12

-----------------------------------------------------------------------------
(********************************** state **********************************)

Activities == {"loop", "receive", "convert", "publish", "path", "sleep", "send path", "done"}

WireTypes ==
    /\ kind \in Kinds /\ discard \in BOOLEAN /\ save \in BOOLEAN
    /\ made \in Seq(Measured[kind])
    /\ IsSequence(socket) /\ IsSequence(ring) /\ IsSequence(outbox)
    /\ IsSequence(path) /\ IsSequence(walked) /\ IsSequence(saves)
    /\ file # NoFile => IsSequence(file)
    /\ step \in [{"worker", "broadcaster"} -> Activities]
    /\ ready = [stamp |-> ready.stamp, of |-> ready.of, content |-> ready.content]

\* What only some of the connections have
WireKinds ==
    /\ step["worker"] \in {"receive", "convert"} => kind \in FromTrenz \cup ToTrenz
    /\ step["worker"] = "convert" => kind \in FromTrenz
    /\ step["worker"] = "path" => kind = "transform"
    /\ \A p \in {"worker", "broadcaster"} : step[p] = "send path" => kind = "transform"
    /\ step["broadcaster"] # "loop" => kind = "transform"
    /\ kind \in {"transform", "loam"} => outbox = <<>>
    /\ kind \notin ToTrenz => ring = <<>>
    /\ kind \notin {"transform", "loam"} =>
        walked = <<>> /\ path = <<>> /\ saves = <<>> /\ file = NoFile

LEMMA TypesInit == WireInit => WireTypes /\ WireKinds
<1> SUFFICES ASSUME WireInit
             PROVE  WireTypes /\ WireKinds
  OBVIOUS
<1>1. discard \in BOOLEAN /\ save \in BOOLEAN /\ kind \in Kinds
  BY MeasuredAssumption DEF WireInit
<1>2. step \in [{"worker", "broadcaster"} -> Activities] /\ step["worker"] = "loop" /\ step["broadcaster"] = "loop"
  <2>1. step = [worker |-> "loop", broadcaster |-> "loop"]
    BY DEF WireInit
  <2>2. DOMAIN step = {"worker", "broadcaster"}
    BY <2>1
  <2>3. step["worker"] = "loop" /\ step["broadcaster"] = "loop"
    BY <2>1
  <2>4. step = [p \in {"worker", "broadcaster"} |-> step[p]]
    BY <2>1, <2>2
  <2> QED
    BY <2>2, <2>3, <2>4 DEF Activities
<1>3. WireTypes
  BY <1>1, <1>2, EmptyIsSequence DEF WireInit, WireTypes, Nothing
<1>4. WireKinds
  BY <1>2 DEF WireInit, WireKinds
<1> QED
  BY <1>3, <1>4

LEMMA ThinnedIsSequence ==
  ASSUME NEW p, IsSequence(p), NEW q \in Thin(p)
  PROVE  IsSequence(q)
<1>1. PICK S : p \in Seq(S)
  BY DEF IsSequence
<1>2. CASE q = p
  BY <1>2
<1>3. ASSUME NEW index \in 1 .. Len(p) - Recent, q = RemoveAt(p, index + 1)
      PROVE  IsSequence(q)
  <2>1. Len(p) \in Nat /\ Recent \in Nat \ {0}
    BY <1>1, WireAssumption
  <2>2. index \in Nat /\ index + 1 <= Len(p)
    BY <2>1
  <2>3. SubSeq(p, 1, index) \in Seq(S)
    BY <1>1, <2>1, <2>2, SubSeqProperties
  <2>4. SubSeq(p, index + 2, Len(p)) \in Seq(S)
    BY <1>1, <2>1, <2>2, SubSeqProperties
  <2>5. SubSeq(p, 1, index) \o SubSeq(p, index + 2, Len(p)) \in Seq(S)
    BY <2>3, <2>4, ConcatProperties
  <2>6. q = SubSeq(p, 1, index) \o SubSeq(p, index + 2, Len(p))
    BY <1>3, <2>2 DEF RemoveAt
  <2> QED
    BY <2>5, <2>6 DEF IsSequence
<1> QED
  BY <1>2, <1>3 DEF Thin

LEMMA StepMoves ==
  ASSUME step \in [{"worker", "broadcaster"} -> Activities],
         NEW p \in {"worker", "broadcaster"}, NEW to \in Activities,
         step' = [step EXCEPT ![p] = to]
  PROVE  /\ step' \in [{"worker", "broadcaster"} -> Activities]
         /\ step'[p] = to
         /\ \A q \in {"worker", "broadcaster"} : q # p => step'[q] = step[q]
  OBVIOUS

LEMMA TypesKept ==
  ASSUME WireTypes, [WireNext]_wireVars
  PROVE  WireTypes'
<1>1. CASE UNCHANGED wireVars
  BY <1>1 DEF WireTypes, wireVars, link, pose, disk
<1>2. CASE Subscribe \/ Stop
  BY <1>2 DEF Subscribe, Stop, WireTypes, wireVars, link, pose, disk
<1>3. CASE ReceiveNothing
  <2>1. step' \in [{"worker", "broadcaster"} -> Activities]
    BY <1>3, StepMoves DEF ReceiveNothing, WireTypes, Activities
  <2> QED
    BY <1>3, <2>1 DEF ReceiveNothing, WireTypes, link, pose, disk
<1>4. ASSUME NEW e \in Measured[kind], SendMeasured(e)
      PROVE  WireTypes'
  <2>1. made' \in Seq(Measured[kind])
    BY <1>4 DEF SendMeasured, WireTypes
  <2>2. IsSequence(socket')
    <3>1. CASE socket' = socket
      BY <3>1 DEF WireTypes
    <3>2. ASSUME NEW x, socket' = Append(socket, x)
          PROVE  IsSequence(socket')
      BY <3>2, AppendKeeps DEF WireTypes
    <3> QED
      BY <1>4, <3>1, <3>2 DEF SendMeasured
  <2> QED
    BY <1>4, <2>1, <2>2 DEF SendMeasured, WireTypes, pose, disk
<1>5. CASE ReceiveFromBoard \/ ReceiveIntoRing
  <2>1. IsSequence(socket')
    <3>1. socket # <<>> /\ socket' = Tail(socket)
      BY <1>5 DEF ReceiveFromBoard, ReceiveIntoRing, Receives
    <3> QED
      BY <3>1, TailKeeps DEF WireTypes
  <2>2. IsSequence(ring')
    <3>1. CASE ring' = ring
      BY <3>1 DEF WireTypes
    <3>2. ASSUME NEW x, ring' = Append(ring, x)
          PROVE  IsSequence(ring')
      BY <3>2, AppendKeeps DEF WireTypes
    <3> QED
      BY <1>5, <3>1, <3>2 DEF ReceiveFromBoard, ReceiveIntoRing
  <2>3. step' \in [{"worker", "broadcaster"} -> Activities]
    BY <1>5, StepMoves DEF ReceiveFromBoard, ReceiveIntoRing, WireTypes, Activities
  <2> QED
    BY <1>5, <2>1, <2>2, <2>3 DEF ReceiveFromBoard, ReceiveIntoRing, WireTypes, pose, disk
<1>6. CASE PopRing
  <2>1. IsSequence(ring') /\ IsSequence(outbox')
    BY <1>6, TailKeeps, AppendKeeps DEF PopRing, WireTypes
  <2> QED
    BY <1>6, <2>1 DEF PopRing, WireTypes, link, pose, disk
<1>7. CASE Convert
  <2>1. step' \in [{"worker", "broadcaster"} -> Activities]
    BY <1>7, StepMoves DEF Convert, WireTypes, Activities
  <2>2. ready' = [stamp |-> ready'.stamp, of |-> ready'.of, content |-> ready'.content]
    BY <1>7 DEF Convert
  <2> QED
    BY <1>7, <2>1, <2>2 DEF Convert, WireTypes, link, pose, disk
<1>8. CASE Publish
  <2>1. step' \in [{"worker", "broadcaster"} -> Activities]
    BY <1>8, StepMoves DEF Publish, WireTypes, Activities
  <2>2. ready' = [stamp |-> ready'.stamp, of |-> ready'.of, content |-> ready'.content]
    BY <1>8 DEF Publish, ReadyAfter, Nothing, WireTypes
  <2>3. IsSequence(outbox')
    BY <1>8, AppendKeeps DEF Publish, WireTypes
  <2> QED
    BY <1>8, <2>1, <2>2, <2>3 DEF Publish, WireTypes, link, pose, disk
<1>9. CASE ConvertTransform
  <2>1. step' \in [{"worker", "broadcaster"} -> Activities]
    BY <1>9, StepMoves DEF ConvertTransform, WireTypes, Activities
  <2> QED
    BY <1>9, <2>1 DEF ConvertTransform, WireTypes, link, disk
<1>10. CASE ExtendPath
  <2>1. step' \in [{"worker", "broadcaster"} -> Activities]
    BY <1>10, StepMoves DEF ExtendPath, WireTypes, Activities
  <2>2. IsSequence(walked') /\ IsSequence(saves')
    BY <1>10, AppendKeeps DEF ExtendPath, WireTypes
  <2>3. IsSequence(path')
    <3>1. PICK p : p = (IF IsReset(msg.data) THEN <<>> ELSE path)
      OBVIOUS
    <3>2. IsSequence(p)
      BY <3>1, EmptyIsSequence DEF WireTypes
    <3>3. path' \in Thin(Append(p, tf))
      BY <1>10, <3>1 DEF ExtendPath
    <3> QED
      BY <3>2, <3>3, AppendKeeps, ThinnedIsSequence
  <2> QED
    BY <1>10, <2>1, <2>2, <2>3 DEF ExtendPath, WireTypes, link
<1>11. ASSUME NEW p \in Threads, Loop(p) \/ SendTransform(p) \/ SendPath(p)
       PROVE  WireTypes'
  <2>1. p \in {"worker", "broadcaster"}
    BY <1>11 DEF Threads
  <2>2. step' \in [{"worker", "broadcaster"} -> Activities]
    BY <1>11, <2>1, StepMoves DEF Loop, SendTransform, SendPath, WireTypes, Activities
  <2> QED
    BY <1>11, <2>2 DEF Loop, SendTransform, SendPath, WireTypes, link, pose, disk
<1>12. ASSUME NEW e \in Measured[kind], LoamPose(e)
       PROVE  WireTypes'
  <2>1. made' \in Seq(Measured[kind])
    BY <1>12 DEF LoamPose, WireTypes
  <2>2. IsSequence(walked') /\ IsSequence(saves')
    BY <1>12, AppendKeeps DEF LoamPose, WireTypes
  <2>3. IsSequence(path')
    BY <1>12, AppendKeeps, ThinnedIsSequence DEF LoamPose, WireTypes
  <2> QED
    BY <1>12, <2>1, <2>2, <2>3 DEF LoamPose, WireTypes
<1>13. CASE SaveCallback
  <2>1. IsSequence(saves')
    BY <1>13, TailKeeps DEF SaveCallback, WireTypes
  <2>2. file' # NoFile => IsSequence(file')
    <3>1. PICK line : line = ToCamera(Head(saves).pose)
      OBVIOUS
    <3>2. IsSequence(<<line>>)
      <4>1. <<line>> \in Seq({line})
        OBVIOUS
      <4> QED
        BY <4>1 DEF IsSequence
    <3>3. CASE file = NoFile
      BY <1>13, <3>1, <3>2, <3>3 DEF SaveCallback, Created
    <3>4. CASE file # NoFile
      <4>1. file' = Append(file, line) /\ IsSequence(file)
        BY <1>13, <3>1, <3>4 DEF SaveCallback, WireTypes
      <4> QED
        BY <4>1, AppendKeeps
    <3> QED
      BY <3>3, <3>4
  <2> QED
    BY <1>13, <2>1, <2>2 DEF SaveCallback, WireTypes, link, pose
<1> QED
  BY <1>1, <1>2, <1>3, <1>4, <1>5, <1>6, <1>7, <1>8, <1>9, <1>10, <1>11, <1>12, <1>13 DEF WireNext

LEMMA KindsKept ==
  ASSUME WireTypes, WireKinds, [WireNext]_wireVars
  PROVE  WireKinds'
<1>0. /\ step \in [{"worker", "broadcaster"} -> Activities] /\ FromTrenz \cap ToTrenz = {}
      /\ "transform" \notin ToTrenz /\ "loam" \notin FromTrenz \cup ToTrenz
      /\ kind \in FromTrenz \cup ToTrenz \cup {"loam"}
  BY WireAssumption DEF WireTypes, FromTrenz, ToTrenz
<1>1. CASE UNCHANGED wireVars
  BY <1>1 DEF WireKinds, wireVars, link, pose, disk
<1>2. CASE Subscribe \/ Stop
  BY <1>2 DEF Subscribe, Stop, WireKinds, wireVars, link, pose, disk
<1>3. CASE ReceiveNothing
  <2>1. step'["worker"] = "loop" /\ step'["broadcaster"] = step["broadcaster"]
    BY <1>0, <1>3 DEF ReceiveNothing
  <2> QED
    BY <1>3, <2>1 DEF ReceiveNothing, WireKinds, link, pose, disk
<1>4. ASSUME NEW e \in Measured[kind], SendMeasured(e)
      PROVE  WireKinds'
  BY <1>4 DEF SendMeasured, WireKinds, pose, disk
<1>5. CASE ReceiveFromBoard
  <2>1. step'["worker"] = "convert" /\ step'["broadcaster"] = step["broadcaster"]
    BY <1>0, <1>5 DEF ReceiveFromBoard
  <2> QED
    BY <1>5, <2>1 DEF ReceiveFromBoard, WireKinds, pose, disk
<1>6. CASE ReceiveIntoRing
  <2>1. step'["worker"] = "loop" /\ step'["broadcaster"] = step["broadcaster"]
    BY <1>0, <1>6 DEF ReceiveIntoRing
  <2> QED
    BY <1>0, <1>6, <2>1 DEF ReceiveIntoRing, WireKinds, pose, disk
<1>7. CASE PopRing
  <2>1. kind \in ToTrenz
    BY <1>7 DEF PopRing, WireKinds
  <2> QED
    BY <1>0, <1>7, <2>1 DEF PopRing, WireKinds, link, pose, disk
<1>8. CASE Convert \/ Publish
  <2>1. /\ step'["worker"] \in {"publish", "loop"} /\ step'["broadcaster"] = step["broadcaster"]
        /\ kind \in FromTrenz \ {"transform"}
    BY <1>0, <1>8 DEF Convert, Publish
  <2> QED
    BY <1>0, <1>8, <2>1 DEF Convert, Publish, WireKinds, link, pose, disk
<1>9. CASE ConvertTransform
  <2>1. /\ step'["worker"] = "path" /\ step'["broadcaster"] = step["broadcaster"]
        /\ kind = "transform"
    BY <1>0, <1>9 DEF ConvertTransform
  <2> QED
    BY <1>9, <2>1 DEF ConvertTransform, WireKinds, link, disk
<1>10. CASE ExtendPath
  <2>1. step'["worker"] = "publish" /\ step'["broadcaster"] = step["broadcaster"]
    BY <1>0, <1>10 DEF ExtendPath
  <2>2. kind = "transform"
    BY <1>10 DEF ExtendPath, WireKinds
  <2> QED
    BY <1>10, <2>1, <2>2 DEF ExtendPath, WireKinds, link
<1>11. ASSUME NEW p \in Threads, Loop(p) \/ SendTransform(p) \/ SendPath(p)
       PROVE  WireKinds'
  <2>1. p \in {"worker", "broadcaster"} /\ kind # "loam" /\ (p = "broadcaster" => kind = "transform")
    BY <1>11 DEF Threads
  <2>2. /\ p = "worker" => step'["worker"] \in {"done", "receive", "send path", "loop"}
                             /\ step'["broadcaster"] = step["broadcaster"]
        /\ p = "broadcaster" => step'["worker"] = step["worker"]
        /\ step'[p] = "send path" => kind = "transform"
    BY <1>0, <1>11, <2>1 DEF Loop, SendTransform, SendPath
  <2>3. UNCHANGED <<kind, outbox, ring, walked, path, saves, file>>
    BY <1>11 DEF Loop, SendTransform, SendPath, link, pose, disk
  <2>4. CASE p = "worker"
    BY <1>0, <2>1, <2>2, <2>3, <2>4 DEF WireKinds
  <2>5. CASE p = "broadcaster"
    BY <2>1, <2>2, <2>3, <2>5 DEF WireKinds
  <2> QED
    BY <2>1, <2>4, <2>5
<1>12. ASSUME NEW e \in Measured[kind], LoamPose(e)
       PROVE  WireKinds'
  BY <1>12 DEF LoamPose, WireKinds
<1>13. CASE SaveCallback
  <2>1. kind \in {"transform", "loam"}
    BY <1>13 DEF SaveCallback, WireKinds
  <2> QED
    BY <1>13, <2>1 DEF SaveCallback, WireKinds, link, pose
<1> QED
  BY <1>1, <1>2, <1>3, <1>4, <1>5, <1>6, <1>7, <1>8, <1>9, <1>10, <1>11, <1>12, <1>13 DEF WireNext

-----------------------------------------------------------------------------
(******************************** the socket *******************************)

DatumOf(n)   == DataOf(made[n].m, made[n].s)
MessageOf(n) == ToZmq(n, DatumOf(n))
PublishedAs(content, n) == Shows(content, made[n].m, made[n].s)
HasTime(stamp, n) ==
    \E t \in Nat : stamp = RosTime(t) /\ IF discard THEN t \in n .. Len(made) ELSE t = n

\* What was measured remains what it was.
LEMMA MeasurementsStay ==
  ASSUME WireTypes, UNCHANGED <<kind, discard>>,
         \/ made' = made
         \/ \E e \in Measured[kind] : made' = Append(made, e)
  PROVE  /\ Len(made) \in Nat /\ Len(made') \in Nat /\ Len(made) <= Len(made')
         /\ \A n \in 1 .. Len(made) :
                /\ n \in 1 .. Len(made') /\ made'[n] = made[n]
                /\ DatumOf(n)' = DatumOf(n) /\ MessageOf(n)' = MessageOf(n)
                /\ \A content : PublishedAs(content, n) => PublishedAs(content, n)'
                /\ \A stamp : HasTime(stamp, n) => HasTime(stamp, n)'
<1>1. made \in Seq(Measured[kind])
  BY DEF WireTypes
<1>2. Len(made) \in Nat /\ Len(made') \in Nat /\ Len(made) <= Len(made')
  BY <1>1
<1>3. \A n \in 1 .. Len(made) : made'[n] = made[n]
  BY <1>1
<1>4. ASSUME NEW n \in 1 .. Len(made)
      PROVE  DatumOf(n)' = DatumOf(n)
  BY <1>3, <1>4 DEF DatumOf, DataOf
<1>5. ASSUME NEW n \in 1 .. Len(made)
      PROVE  MessageOf(n)' = MessageOf(n)
  BY <1>4 DEF MessageOf, ToZmq
<1>6. ASSUME NEW n \in 1 .. Len(made), NEW content, PublishedAs(content, n)
      PROVE  PublishedAs(content, n)'
  BY <1>3, <1>6 DEF PublishedAs, Shows
<1>7. ASSUME NEW n \in 1 .. Len(made), NEW stamp, HasTime(stamp, n)
      PROVE  HasTime(stamp, n)'
  <2>1. PICK t \in Nat : stamp = RosTime(t) /\ IF discard THEN t \in n .. Len(made) ELSE t = n
    BY <1>7 DEF HasTime
  <2>2. IF discard THEN t \in n .. Len(made') ELSE t = n
    BY <1>2, <2>1
  <2> QED
    BY <2>1, <2>2 DEF HasTime
<1> QED
  BY <1>2, <1>3, <1>4, <1>5, <1>6, <1>7

\* The messages on their way are those of measurements, in their order, ...
SocketHolds ==
    /\ \A k \in 1 .. Len(socket) :
        \E n \in 1 .. Len(made) : socket[k].stamp = n /\ socket[k] = MessageOf(n)
    /\ \A j, k \in 1 .. Len(socket) : j < k => socket[j].stamp < socket[k].stamp

\* ... and the one received is of before.
MessageHolds ==
    /\ msg.stamp \in 0 .. Len(made)
    /\ \A k \in 1 .. Len(socket) : msg.stamp < socket[k].stamp
    /\ msg.stamp # 0 => msg.data = DatumOf(msg.stamp)
    /\ step["worker"] \in {"convert", "path"} => msg.stamp # 0

LinkInv == SocketHolds /\ MessageHolds

LEMMA ReceivedHolds ==
  ASSUME WireTypes, LinkInv, Receives, kind # "loam", UNCHANGED <<kind, made>>
  PROVE  /\ SocketHolds'
         /\ msg'.stamp \in 1 .. Len(made) /\ msg.stamp < msg'.stamp
         /\ \A k \in 1 .. Len(socket') : msg'.stamp < socket'[k].stamp
         /\ msg'.data = DatumOf(msg'.stamp)
<1>1. socket # <<>> /\ IsSequence(socket) /\ socket' = Tail(socket) /\ msg' = FromZmq(Head(socket), msg)
  BY DEF Receives, WireTypes
<1>2. /\ Len(socket) \in Nat \ {0} /\ Len(socket') = Len(socket) - 1 /\ Head(socket) = socket[1]
      /\ \A k \in 1 .. Len(socket) - 1 : socket'[k] = socket[k + 1]
  BY <1>1, TailKeeps
<1>3. PICK n \in 1 .. Len(made) : n = socket[1].stamp /\ socket[1] = MessageOf(n)
  BY <1>2 DEF LinkInv, SocketHolds
<1>4. made[n] \in Measured[kind] /\ kind \in Kinds
  BY <1>3 DEF WireTypes
<1>5. PICK e \in Measured[kind] : e = made[n]
  BY <1>4
<1>6. msg'.stamp = n /\ msg'.data = DatumOf(n)
  <2>1. PICK got, held : got = FromZmq(ToZmq(n, DataOf(e.m, e.s)), held) /\ held = msg
    OBVIOUS
  <2>2. got = msg'
    BY <1>1, <1>2, <1>3, <1>5, <2>1 DEF MessageOf, DatumOf
  <2>3. got.stamp = n /\ got.data = DataOf(e.m, e.s)
    BY <1>4, <2>1, MessageArrives
  <2> QED
    BY <1>5, <2>2, <2>3 DEF DatumOf
<1>7. \A k \in 1 .. Len(socket') : k + 1 \in 1 .. Len(socket) /\ socket'[k] = socket[k + 1]
  BY <1>2
<1>8. SocketHolds'
  <2>1. \A k \in 1 .. Len(socket') :
          \E i \in 1 .. Len(made) : socket'[k].stamp = i /\ socket'[k] = MessageOf(i)
    BY <1>7 DEF LinkInv, SocketHolds
  <2>2. \A j, k \in 1 .. Len(socket') : j < k => socket'[j].stamp < socket'[k].stamp
    <3> SUFFICES ASSUME NEW j \in 1 .. Len(socket'), NEW k \in 1 .. Len(socket'), j < k
                 PROVE  socket'[j].stamp < socket'[k].stamp
      OBVIOUS
    <3>1. j + 1 \in 1 .. Len(socket) /\ k + 1 \in 1 .. Len(socket) /\ j + 1 < k + 1
      BY <1>2, <1>7
    <3>2. socket[j + 1].stamp < socket[k + 1].stamp
      BY <3>1 DEF LinkInv, SocketHolds
    <3> QED
      BY <1>7, <3>2
  <2>3. \A i : MessageOf(i)' = MessageOf(i)
    BY DEF MessageOf, DatumOf, DataOf, ToZmq
  <2> QED
    BY <2>1, <2>2, <2>3 DEF SocketHolds
<1>9. msg.stamp < n
  BY <1>2, <1>3 DEF LinkInv, MessageHolds
<1>10. \A k \in 1 .. Len(socket') : n < socket'[k].stamp
  <2> TAKE k \in 1 .. Len(socket')
  <2>1. k + 1 \in 1 .. Len(socket) /\ 1 \in 1 .. Len(socket) /\ 1 < k + 1
    BY <1>2, <1>7
  <2>2. socket[1].stamp < socket[k + 1].stamp
    BY <2>1 DEF LinkInv, SocketHolds
  <2> QED
    BY <1>3, <1>7, <2>2
<1> QED
  BY <1>3, <1>6, <1>8, <1>9, <1>10

LEMMA LinkKept ==
  ASSUME WireTypes, WireKinds, LinkInv, [WireNext]_wireVars
  PROVE  LinkInv'
<1>0. /\ step \in [{"worker", "broadcaster"} -> Activities]
      /\ "loam" \notin FromTrenz \cup ToTrenz
  BY DEF WireTypes, FromTrenz, ToTrenz
<1>1. ASSUME UNCHANGED <<kind, made, socket, msg>>,
             step'["worker"] \in {"convert", "path"} => step["worker"] \in {"convert", "path"}
      PROVE  LinkInv'
  <2>1. \A i : MessageOf(i)' = MessageOf(i) /\ DatumOf(i)' = DatumOf(i)
    BY <1>1 DEF MessageOf, DatumOf, DataOf, ToZmq
  <2> QED
    BY <1>1, <2>1 DEF LinkInv, SocketHolds, MessageHolds
<1>2. ASSUME NEW e \in Measured[kind], UNCHANGED <<kind, discard, step, msg>>,
             made' = Append(made, e),
             \/ socket' = socket
             \/ socket' = Append(socket, ToZmq(Len(made) + 1, DataOf(e.m, e.s)))
      PROVE  LinkInv'
  <2>1. /\ Len(made) \in Nat /\ Len(made') = Len(made) + 1 /\ made'[Len(made) + 1] = e
        /\ IsSequence(socket)
    BY <1>2 DEF WireTypes
  <2>2. \A n \in 1 .. Len(made) : /\ n \in 1 .. Len(made')
                                  /\ DatumOf(n)' = DatumOf(n) /\ MessageOf(n)' = MessageOf(n)
    BY <1>2, MeasurementsStay
  <2>3. \A k \in 1 .. Len(socket) :
            \E n \in 1 .. Len(made) :
                n \in 1 .. Len(made') /\ socket[k].stamp = n /\ socket[k] = MessageOf(n)'
    BY <2>2 DEF LinkInv, SocketHolds
  <2>4. SocketHolds' /\ \A k \in 1 .. Len(socket') : msg.stamp < socket'[k].stamp
    <3>1. CASE socket' = socket
      BY <2>3, <3>1 DEF LinkInv, SocketHolds, MessageHolds
    <3>2. CASE socket' = Append(socket, ToZmq(Len(made) + 1, DataOf(e.m, e.s)))
      <4>1. PICK n : n = Len(made) + 1
        OBVIOUS
      <4>2. PICK m : m = ToZmq(n, DataOf(e.m, e.s))
        OBVIOUS
      <4>3. m.stamp = n /\ m = MessageOf(n)'
        <5>1. DatumOf(n)' = DataOf(e.m, e.s)
          BY <1>2, <2>1, <4>1 DEF DatumOf, DataOf
        <5>2. MessageOf(n)' = ToZmq(n, DataOf(e.m, e.s))
          BY <1>2, <5>1 DEF MessageOf, ToZmq
        <5> QED
          BY <4>2, <5>2 DEF ToZmq
      <4>4. /\ Len(socket) \in Nat /\ Len(socket') = Len(socket) + 1
            /\ socket'[Len(socket) + 1] = m
            /\ \A k \in 1 .. Len(socket) : socket'[k] = socket[k]
        BY <2>1, <3>2, <4>1, <4>2, AppendKeeps
      <4>5. \A k \in 1 .. Len(socket') : k \in 1 .. Len(socket) \/ k = Len(socket) + 1
        BY <4>4
      <4>6. \A k \in 1 .. Len(socket') :
               \E i \in 1 .. Len(made') : socket'[k].stamp = i /\ socket'[k] = MessageOf(i)'
        BY <2>1, <2>3, <4>1, <4>3, <4>4, <4>5
      <4>7. \A j, k \in 1 .. Len(socket') : j < k => socket'[j].stamp < socket'[k].stamp
        <5> SUFFICES ASSUME NEW j \in 1 .. Len(socket'), NEW k \in 1 .. Len(socket'), j < k
                     PROVE  socket'[j].stamp < socket'[k].stamp
          OBVIOUS
        <5>1. j \in 1 .. Len(socket) /\ socket[j].stamp \in 1 .. Len(made)
          BY <2>3, <4>4, <4>5
        <5>2. CASE k \in 1 .. Len(socket)
          BY <4>4, <5>1, <5>2 DEF LinkInv, SocketHolds
        <5>3. CASE k = Len(socket) + 1
          BY <2>1, <4>1, <4>3, <4>4, <5>1, <5>3
        <5> QED
          BY <4>5, <5>2, <5>3
      <4>8. \A k \in 1 .. Len(socket') : msg.stamp < socket'[k].stamp
        BY <2>1, <4>1, <4>3, <4>4, <4>5 DEF LinkInv, MessageHolds
      <4> QED
        BY <4>6, <4>7, <4>8 DEF SocketHolds
    <3> QED
      BY <1>2, <3>1, <3>2
  <2>5. MessageHolds'
    <3>1. msg.stamp \in 0 .. Len(made) /\ msg.stamp \in 0 .. Len(made')
      BY <2>1 DEF LinkInv, MessageHolds
    <3>2. msg.stamp # 0 => msg.stamp \in 1 .. Len(made)
      BY <2>1, <3>1
    <3> QED
      BY <1>2, <2>2, <2>4, <3>1, <3>2 DEF LinkInv, MessageHolds
  <2> QED
    BY <2>4, <2>5 DEF LinkInv
<1>3. CASE ReceiveFromBoard \/ ReceiveIntoRing
  <2>1. Receives /\ kind # "loam" /\ UNCHANGED <<kind, made>>
    BY <1>0, <1>3 DEF ReceiveFromBoard, ReceiveIntoRing
  <2>2. /\ SocketHolds' /\ msg'.stamp \in 1 .. Len(made)
        /\ \A k \in 1 .. Len(socket') : msg'.stamp < socket'[k].stamp
        /\ msg'.data = DatumOf(msg'.stamp)
    BY <2>1, ReceivedHolds
  <2>3. \A i : DatumOf(i)' = DatumOf(i)
    BY <2>1 DEF DatumOf, DataOf
  <2>4. Len(made) \in Nat
    BY DEF WireTypes
  <2> QED
    BY <2>1, <2>2, <2>3, <2>4 DEF LinkInv, MessageHolds
<1>4. ASSUME NEW e \in Measured[kind], SendMeasured(e) \/ LoamPose(e)
      PROVE  LinkInv'
  BY <1>2, <1>4 DEF SendMeasured, LoamPose
<1>5. CASE Subscribe \/ Stop \/ PopRing \/ SaveCallback
  BY <1>1, <1>5 DEF Subscribe, Stop, PopRing, SaveCallback, link
<1>6. CASE UNCHANGED wireVars
  BY <1>1, <1>6 DEF wireVars, link
<1>7. CASE ReceiveNothing \/ Convert \/ Publish \/ ConvertTransform \/ ExtendPath
  <2>1. step'["worker"] \in {"convert", "path"} => step["worker"] \in {"convert", "path"}
    BY <1>0, <1>7 DEF ReceiveNothing, Convert, Publish, ConvertTransform, ExtendPath
  <2> QED
    BY <1>1, <1>7, <2>1 DEF ReceiveNothing, Convert, Publish, ConvertTransform, ExtendPath, link
<1>8. ASSUME NEW p \in Threads, Loop(p) \/ SendTransform(p) \/ SendPath(p)
      PROVE  LinkInv'
  <2>1. p \in {"worker", "broadcaster"}
    BY DEF Threads
  <2>2. step'["worker"] \in {"convert", "path"} => step["worker"] \in {"convert", "path"}
    BY <1>0, <1>8, <2>1 DEF Loop, SendTransform, SendPath
  <2> QED
    BY <1>1, <1>8, <2>2 DEF Loop, SendTransform, SendPath, link
<1> QED
  BY <1>3, <1>4, <1>5, <1>6, <1>7, <1>8 DEF WireNext

-----------------------------------------------------------------------------
(****************************** publications *******************************)

\* What is published is measured, in its order, and was received before, ...
PublishedHolds ==
    /\ \A k \in 1 .. Len(outbox) :
        \E n \in 1 .. Len(made) :
            /\ outbox[k].of = n /\ n <= msg.stamp
            /\ PublishedAs(outbox[k].content, n)
            /\ kind \in FromTrenz => HasTime(outbox[k].stamp, n)
    /\ \A j, k \in 1 .. Len(outbox) : j < k => outbox[j].of < outbox[k].of
    /\ kind \in FromTrenz /\ step["worker"] \in {"convert", "publish"} =>
        \A k \in 1 .. Len(outbox) : outbox[k].of < msg.stamp

\* ... so is what the bridge has converted, ...
ReadyHolds ==
    kind \in FromTrenz /\ step["worker"] = "publish" =>
        \E n \in 1 .. Len(made) :
            /\ msg.stamp = n /\ ready.of = n
            /\ PublishedAs(ready.content, n) /\ (kind # "tsdf" => HasTime(ready.stamp, n))

\* ... and what waits in the ring.
RingHolds ==
    /\ \A k \in 1 .. Len(ring) :
        \E n \in 1 .. Len(made) : ring[k].stamp = n /\ n <= msg.stamp /\ ring[k].data = DatumOf(n)
    /\ \A j, k \in 1 .. Len(ring) : j < k => ring[j].stamp < ring[k].stamp
    /\ \A j \in 1 .. Len(outbox) : \A k \in 1 .. Len(ring) : outbox[j].of < ring[k].stamp

\* The tsdf bridge has no points left of the message before.
NothingLeft == kind = "tsdf" /\ step["worker"] # "publish" => ready.content = <<>>

OutInv == kind \notin {"transform", "loam"} => PublishedHolds /\ ReadyHolds /\ RingHolds

LEMMA StampIsTime ==
  ASSUME WireTypes, NEW n \in 1 .. Len(made)
  PROVE  HasTime(Stamp(n), n)
<1>1. Len(made) \in Nat
  BY DEF WireTypes
<1>2. PICK t : t = (IF discard THEN Len(made) ELSE n)
  OBVIOUS
<1>3. t \in Nat /\ Stamp(n) = RosTime(t) /\ IF discard THEN t \in n .. Len(made) ELSE t = n
  BY <1>1, <1>2 DEF Stamp
<1> QED
  BY <1>3 DEF HasTime

LEMMA AnotherPublished ==
  ASSUME WireTypes, OutInv, kind \notin {"transform", "loam"}, MessageHolds,
         UNCHANGED <<kind, discard, made, msg>>,
         NEW o, outbox' = Append(outbox, o), NEW n \in 1 .. Len(made), o.of = n, n <= msg.stamp,
         \A k \in 1 .. Len(outbox) : outbox[k].of < n,
         PublishedAs(o.content, n),
         kind \in FromTrenz => HasTime(o.stamp, n) /\ step'["worker"] = "loop"
  PROVE  PublishedHolds'
<1>1. /\ Len(outbox) \in Nat /\ Len(outbox') = Len(outbox) + 1 /\ outbox'[Len(outbox) + 1] = o
      /\ \A k \in 1 .. Len(outbox) : outbox'[k] = outbox[k]
  BY AppendKeeps DEF WireTypes
<1>2. \A k \in 1 .. Len(outbox') : k \in 1 .. Len(outbox) \/ k = Len(outbox) + 1
  BY <1>1
<1>3. \A i \in 1 .. Len(made) :
        /\ \A content : PublishedAs(content, i) => PublishedAs(content, i)'
        /\ \A stamp : HasTime(stamp, i) => HasTime(stamp, i)'
  BY MeasurementsStay
<1>4. \A k \in 1 .. Len(outbox') :
        \E i \in 1 .. Len(made) :
            /\ outbox'[k].of = i /\ i <= msg.stamp
            /\ PublishedAs(outbox'[k].content, i)
            /\ kind \in FromTrenz => HasTime(outbox'[k].stamp, i)
  BY <1>1, <1>2 DEF OutInv, PublishedHolds
<1>5. \A k \in 1 .. Len(outbox') :
        \E i \in 1 .. Len(made') :
            /\ outbox'[k].of = i /\ i <= msg'.stamp
            /\ PublishedAs(outbox[k].content, i)'
            /\ kind' \in FromTrenz => HasTime(outbox[k].stamp, i)'
  <2> TAKE k \in 1 .. Len(outbox')
  <2>1. PICK i \in 1 .. Len(made) :
            /\ outbox'[k].of = i /\ i <= msg.stamp
            /\ PublishedAs(outbox'[k].content, i)
            /\ kind \in FromTrenz => HasTime(outbox'[k].stamp, i)
    BY <1>4
  <2>2. PICK content, stamp : content = outbox'[k].content /\ stamp = outbox'[k].stamp
    OBVIOUS
  <2>3. PublishedAs(content, i)'
    BY <1>3, <2>1, <2>2
  <2>4. kind \in FromTrenz => HasTime(stamp, i)'
    BY <1>3, <2>1, <2>2
  <2> QED
    BY <2>1, <2>2, <2>3, <2>4
<1>6. \A j, k \in 1 .. Len(outbox') : j < k => outbox'[j].of < outbox'[k].of
  <2> SUFFICES ASSUME NEW j \in 1 .. Len(outbox'), NEW k \in 1 .. Len(outbox'), j < k
               PROVE  outbox'[j].of < outbox'[k].of
    OBVIOUS
  <2>1. j \in 1 .. Len(outbox)
    BY <1>1, <1>2
  <2>2. CASE k \in 1 .. Len(outbox)
    BY <1>1, <2>1, <2>2 DEF OutInv, PublishedHolds
  <2>3. CASE k = Len(outbox) + 1
    BY <1>1, <2>1, <2>3
  <2> QED
    BY <1>2, <2>2, <2>3
<1> QED
  BY <1>5, <1>6 DEF PublishedHolds

LEMMA LeftKept ==
  ASSUME WireTypes, WireKinds, NothingLeft, [WireNext]_wireVars
  PROVE  NothingLeft'
<1>0. step \in [{"worker", "broadcaster"} -> Activities]
  BY DEF WireTypes
<1>1. ASSUME UNCHANGED <<kind, ready>>,
             step["worker"] = "publish" => step'["worker"] = "publish"
      PROVE  NothingLeft'
  BY <1>1 DEF NothingLeft
<1>2. CASE Convert
  <2>1. step'["worker"] = "publish"
    BY <1>0, <1>2 DEF Convert
  <2> QED
    BY <2>1 DEF NothingLeft
<1>3. CASE Publish
  BY <1>3 DEF Publish, ReadyAfter, Nothing, NothingLeft
<1>4. CASE UNCHANGED wireVars \/ Subscribe \/ Stop \/ ReceiveNothing \/ ReceiveFromBoard \/ ReceiveIntoRing
           \/ PopRing \/ SaveCallback \/ (\E e \in Measured[kind] : SendMeasured(e) \/ LoamPose(e))
  BY <1>0, <1>1, <1>4 DEF wireVars, Subscribe, Stop, ReceiveNothing, ReceiveFromBoard, Receives,
       ReceiveIntoRing, PopRing, SaveCallback, SendMeasured, LoamPose
<1>5. CASE ConvertTransform \/ ExtendPath
  <2>1. kind = "transform" /\ kind' = kind
    BY <1>5 DEF ConvertTransform, ExtendPath, WireKinds
  <2> QED
    BY <2>1 DEF NothingLeft
<1>6. ASSUME NEW p \in Threads, Loop(p) \/ SendTransform(p) \/ SendPath(p)
      PROVE  NothingLeft'
  <2>1. p \in {"worker", "broadcaster"}
    BY DEF Threads
  <2>2. CASE Loop(p)
    BY <1>0, <1>1, <2>1, <2>2 DEF Loop
  <2>3. CASE SendTransform(p) \/ SendPath(p)
    <3>1. kind = "transform" /\ kind' = kind
      BY <2>1, <2>3 DEF SendTransform, SendPath, WireKinds
    <3> QED
      BY <3>1 DEF NothingLeft
  <2> QED
    BY <1>6, <2>2, <2>3
<1> QED
  BY <1>2, <1>3, <1>4, <1>5, <1>6 DEF WireNext

LEMMA OutKept ==
  ASSUME WireTypes, WireKinds, LinkInv, OutInv, NothingLeft, [WireNext]_wireVars
  PROVE  OutInv'
<1>0. /\ step \in [{"worker", "broadcaster"} -> Activities] /\ FromTrenz \cap ToTrenz = {}
      /\ kind \in FromTrenz \cup ToTrenz \cup {"loam"} /\ kind \in Kinds
      /\ Len(made) \in Nat
  <2>1. Len(made) \in Nat
    BY DEF WireTypes
  <2>2. FromTrenz \cap ToTrenz = {}
    BY DEF FromTrenz, ToTrenz
  <2> QED
    BY <2>1, <2>2, WireAssumption DEF WireTypes
<1>1. ASSUME UNCHANGED <<kind, discard, msg, ready, ring, outbox>>,
             \/ made' = made
             \/ \E e \in Measured[kind] : made' = Append(made, e),
             step'["worker"] \in {"convert", "publish"} => step'["worker"] = step["worker"]
      PROVE  OutInv'
  <2> SUFFICES ASSUME kind \notin {"transform", "loam"}
               PROVE  PublishedHolds' /\ ReadyHolds' /\ RingHolds'
    BY <1>1 DEF OutInv
  <2>1. \A n \in 1 .. Len(made) :
            /\ n \in 1 .. Len(made') /\ DatumOf(n)' = DatumOf(n)
            /\ \A content : PublishedAs(content, n) => PublishedAs(content, n)'
            /\ \A stamp : HasTime(stamp, n) => HasTime(stamp, n)'
    BY <1>1, MeasurementsStay
  <2>2. PublishedHolds'
    <3>1. \A k \in 1 .. Len(outbox) :
            \E n \in 1 .. Len(made') :
                /\ outbox[k].of = n /\ n <= msg.stamp
                /\ PublishedAs(outbox[k].content, n)'
                /\ kind \in FromTrenz => HasTime(outbox[k].stamp, n)'
      <4> TAKE k \in 1 .. Len(outbox)
      <4>1. PICK n \in 1 .. Len(made) :
                /\ outbox[k].of = n /\ n <= msg.stamp
                /\ PublishedAs(outbox[k].content, n)
                /\ kind \in FromTrenz => HasTime(outbox[k].stamp, n)
        BY DEF OutInv, PublishedHolds
      <4>2. PICK content, stamp : content = outbox[k].content /\ stamp = outbox[k].stamp
        OBVIOUS
      <4>3. content = outbox'[k].content /\ stamp = outbox'[k].stamp
        BY <1>1, <4>2
      <4> QED
        BY <2>1, <4>1, <4>2, <4>3
    <3> QED
      BY <1>1, <3>1 DEF OutInv, PublishedHolds
  <2>3. ReadyHolds'
    <3> SUFFICES ASSUME kind \in FromTrenz, step'["worker"] = "publish"
                 PROVE  \E n \in 1 .. Len(made') :
                            /\ msg'.stamp = n /\ ready'.of = n
                            /\ PublishedAs(ready.content, n)' /\ (kind' # "tsdf" => HasTime(ready.stamp, n)')
      BY <1>1 DEF ReadyHolds
    <3>1. PICK n \in 1 .. Len(made) :
            /\ msg.stamp = n /\ ready.of = n
            /\ PublishedAs(ready.content, n) /\ (kind # "tsdf" => HasTime(ready.stamp, n))
      BY <1>1 DEF OutInv, ReadyHolds
    <3>2. PICK content, stamp : content = ready.content /\ stamp = ready.stamp
      OBVIOUS
    <3>3. content = ready'.content /\ stamp = ready'.stamp
      BY <1>1, <3>2
    <3> QED
      BY <1>1, <2>1, <3>1, <3>2, <3>3
  <2>4. RingHolds'
    <3>1. \A k \in 1 .. Len(ring) :
            \E n \in 1 .. Len(made') :
                ring[k].stamp = n /\ n <= msg.stamp /\ ring[k].data = DatumOf(n)'
      BY <2>1 DEF OutInv, RingHolds
    <3> QED
      BY <1>1, <3>1 DEF OutInv, RingHolds
  <2> QED
    BY <2>2, <2>3, <2>4
<1>2. ASSUME NEW e \in Measured[kind], SendMeasured(e)
      PROVE  OutInv'
  BY <1>1, <1>2 DEF SendMeasured
<1>3. ASSUME Receives, kind # "loam", kind \notin {"transform", "loam"},
             UNCHANGED <<kind, discard, made, outbox>>
      PROVE  /\ PublishedHolds'
             /\ msg'.stamp \in 1 .. Len(made) /\ msg.stamp < msg'.stamp
             /\ \A k \in 1 .. Len(ring) :
                    \E n \in 1 .. Len(made) :
                        ring[k].stamp = n /\ n < msg'.stamp /\ ring[k].data = DatumOf(n)'
             /\ msg'.data = DatumOf(msg'.stamp)
  <2>1. /\ msg'.stamp \in 1 .. Len(made) /\ msg.stamp < msg'.stamp
        /\ msg'.data = DatumOf(msg'.stamp)
    BY <1>3, ReceivedHolds
  <2>2. msg.stamp \in Nat /\ msg'.stamp \in Nat
    BY <1>0, <2>1 DEF LinkInv, MessageHolds
  <2>3. \A n \in 1 .. Len(made) :
            /\ DatumOf(n)' = DatumOf(n)
            /\ \A content : PublishedAs(content, n) => PublishedAs(content, n)'
            /\ \A stamp : HasTime(stamp, n) => HasTime(stamp, n)'
    BY <1>3, MeasurementsStay
  <2>4. \A k \in 1 .. Len(outbox) :
          \E n \in 1 .. Len(made') :
              /\ outbox[k].of = n /\ n <= msg'.stamp /\ n < msg'.stamp
              /\ PublishedAs(outbox[k].content, n)'
              /\ kind \in FromTrenz => HasTime(outbox[k].stamp, n)'
    <3> TAKE k \in 1 .. Len(outbox)
    <3>1. PICK n \in 1 .. Len(made) :
              /\ outbox[k].of = n /\ n <= msg.stamp
              /\ PublishedAs(outbox[k].content, n)
              /\ kind \in FromTrenz => HasTime(outbox[k].stamp, n)
      BY <1>3 DEF OutInv, PublishedHolds
    <3>2. PICK content, stamp : content = outbox[k].content /\ stamp = outbox[k].stamp
      OBVIOUS
    <3>3. content = outbox'[k].content /\ stamp = outbox'[k].stamp
      BY <1>3, <3>2
    <3>4. n <= msg'.stamp /\ n < msg'.stamp /\ n \in 1 .. Len(made')
      BY <1>3, <2>1, <2>2, <3>1
    <3> QED
      BY <2>3, <3>1, <3>2, <3>3, <3>4
  <2>5. PublishedHolds'
    BY <1>3, <2>4 DEF OutInv, PublishedHolds
  <2>6. ASSUME NEW k \in 1 .. Len(ring)
        PROVE  \E n \in 1 .. Len(made) :
                  ring[k].stamp = n /\ n < msg'.stamp /\ ring[k].data = DatumOf(n)'
    <3>1. PICK n \in 1 .. Len(made) : ring[k].stamp = n /\ n <= msg.stamp /\ ring[k].data = DatumOf(n)
      BY <1>3 DEF OutInv, RingHolds
    <3> QED
      BY <2>1, <2>2, <2>3, <3>1
  <2> QED
    BY <2>1, <2>5, <2>6
<1>4. CASE kind \notin {"transform", "loam"} /\ ReceiveFromBoard
  <2>1. kind \in FromTrenz /\ ring = <<>> /\ ring' = <<>> /\ kind' = kind
    BY <1>0, <1>4 DEF ReceiveFromBoard, WireKinds
  <2>2. PublishedHolds'
    BY <1>0, <1>3, <1>4 DEF ReceiveFromBoard
  <2>3. ReadyHolds'
    <3>1. step'["worker"] = "convert"
      BY <1>0, <1>4 DEF ReceiveFromBoard
    <3> QED
      BY <3>1 DEF ReadyHolds
  <2>4. RingHolds'
    BY <2>1, EmptyIsSequence DEF RingHolds
  <2> QED
    BY <2>2, <2>3, <2>4 DEF OutInv
<1>5. CASE kind \notin {"transform", "loam"} /\ ReceiveIntoRing
  <2>1. kind \in ToTrenz /\ kind \notin FromTrenz /\ kind' = kind /\ kind # "tsdf" /\ kind # "loam"
        /\ UNCHANGED <<discard, made, outbox>> /\ Receives
    BY <1>0, <1>5 DEF ReceiveIntoRing, FromTrenz, ToTrenz
  <2>2. /\ PublishedHolds'
        /\ msg'.stamp \in 1 .. Len(made) /\ msg.stamp < msg'.stamp
        /\ \A k \in 1 .. Len(ring) :
               \E n \in 1 .. Len(made) :
                   ring[k].stamp = n /\ n < msg'.stamp /\ ring[k].data = DatumOf(n)'
        /\ msg'.data = DatumOf(msg'.stamp)
    BY <1>3, <1>5, <2>1
  <2>3. ReadyHolds'
    BY <2>1 DEF ReadyHolds
  <2>4. RingHolds'
    <3>1. msg.stamp \in Nat /\ msg'.stamp \in Nat /\ IsSequence(ring)
      BY <1>0, <2>2 DEF LinkInv, MessageHolds, WireTypes
    <3>2. PICK i \in 1 .. Len(made) : i = msg'.stamp
      BY <2>2
    <3>3. msg'.data = DatumOf(i)'
      BY <2>1, <2>2, <3>2 DEF DatumOf, DataOf
    <3>4. CASE ring' = ring
      <4>1. \A k \in 1 .. Len(ring') :
              \E n \in 1 .. Len(made') :
                  ring'[k].stamp = n /\ n <= msg'.stamp /\ ring'[k].data = DatumOf(n)'
        BY <1>0, <2>1, <2>2, <3>1, <3>4
      <4> QED
        BY <1>5, <2>1, <3>4, <4>1 DEF OutInv, RingHolds
    <3>5. CASE ring' = Append(ring, msg')
      <4>1. /\ Len(ring) \in Nat /\ Len(ring') = Len(ring) + 1 /\ ring'[Len(ring) + 1] = msg'
            /\ \A k \in 1 .. Len(ring) : ring'[k] = ring[k]
        BY <3>1, <3>5, AppendKeeps
      <4>2. \A k \in 1 .. Len(ring') : k \in 1 .. Len(ring) \/ k = Len(ring) + 1
        BY <4>1
      <4>3. \A k \in 1 .. Len(ring') :
              \E n \in 1 .. Len(made') :
                  ring'[k].stamp = n /\ n <= msg'.stamp /\ ring'[k].data = DatumOf(n)'
        <5> TAKE k \in 1 .. Len(ring')
        <5>1. CASE k \in 1 .. Len(ring)
          BY <1>0, <2>1, <2>2, <3>1, <4>1, <5>1
        <5>2. CASE k = Len(ring) + 1
          BY <2>1, <3>1, <3>2, <3>3, <4>1, <5>2
        <5> QED
          BY <4>2, <5>1, <5>2
      <4>4. \A j, k \in 1 .. Len(ring') : j < k => ring'[j].stamp < ring'[k].stamp
        <5> SUFFICES ASSUME NEW j \in 1 .. Len(ring'), NEW k \in 1 .. Len(ring'), j < k
                     PROVE  ring'[j].stamp < ring'[k].stamp
          OBVIOUS
        <5>1. j \in 1 .. Len(ring)
          BY <4>1, <4>2
        <5>2. CASE k \in 1 .. Len(ring)
          BY <1>5, <4>1, <5>1, <5>2 DEF OutInv, RingHolds
        <5>3. CASE k = Len(ring) + 1
          BY <2>2, <4>1, <5>1, <5>3
        <5> QED
          BY <4>2, <5>2, <5>3
      <4>5. \A j \in 1 .. Len(outbox') : \A k \in 1 .. Len(ring') : outbox'[j].of < ring'[k].stamp
        <5> SUFFICES ASSUME NEW j \in 1 .. Len(outbox), NEW k \in 1 .. Len(ring')
                     PROVE  outbox[j].of < ring'[k].stamp
          BY <2>1
        <5>1. CASE k \in 1 .. Len(ring)
          BY <1>5, <4>1, <5>1 DEF OutInv, RingHolds
        <5>2. CASE k = Len(ring) + 1
          <6>1. PICK n \in 1 .. Len(made) : outbox[j].of = n /\ n <= msg.stamp
            BY <1>5 DEF OutInv, PublishedHolds
          <6> QED
            BY <2>2, <3>1, <4>1, <5>2, <6>1
        <5> QED
          BY <4>2, <5>1, <5>2
      <4> QED
        BY <4>3, <4>4, <4>5 DEF RingHolds
    <3> QED
      BY <1>5, <3>4, <3>5 DEF ReceiveIntoRing
  <2> QED
    BY <2>2, <2>3, <2>4 DEF OutInv

<1>6. CASE kind \notin {"transform", "loam"} /\ PopRing
  <2>1. /\ kind \in ToTrenz /\ kind \notin FromTrenz /\ kind' = kind
        /\ kind \notin {"imu", "cloud", "tsdf", "transform", "loam"}
        /\ ring # <<>> /\ ring' = Tail(ring) /\ UNCHANGED <<discard, made, msg, step>>
    BY <1>0, <1>6 DEF PopRing, WireKinds, FromTrenz, ToTrenz, link
  <2>2. /\ Len(ring) \in Nat \ {0} /\ Len(ring') = Len(ring) - 1 /\ Head(ring) = ring[1]
        /\ \A k \in 1 .. Len(ring) - 1 : ring'[k] = ring[k + 1]
    BY <2>1, TailKeeps DEF WireTypes
  <2>3. PICK n \in 1 .. Len(made) : ring[1].stamp = n /\ n <= msg.stamp /\ ring[1].data = DatumOf(n)
    BY <1>6, <2>2 DEF OutInv, RingHolds
  <2>4. PICK o : o = [stamp |-> n, of |-> n, content |-> DatumOf(n)]
    OBVIOUS
  <2>5. outbox' = Append(outbox, o)
    BY <1>6, <2>2, <2>3, <2>4 DEF PopRing
  <2>6. PublishedAs(o.content, n)
    <3>1. PICK e \in Measured[kind] : e = made[n]
      BY <2>3 DEF WireTypes
    <3>2. RosOf(DataOf(e.m, e.s)) = DatumOf(n)
      BY <2>1, <3>1 DEF RosOf, DatumOf
    <3>3. Shows(RosOf(DataOf(e.m, e.s)), e.m, e.s)
      BY <1>0, <2>1, RosShows
    <3> QED
      BY <2>4, <3>1, <3>2, <3>3 DEF PublishedAs
  <2>7. \A k \in 1 .. Len(outbox) : outbox[k].of < n
    BY <1>6, <2>2, <2>3 DEF OutInv, RingHolds
  <2>8. PublishedHolds'
    BY <1>6, <2>1, <2>3, <2>4, <2>5, <2>6, <2>7, AnotherPublished DEF LinkInv
  <2>9. ReadyHolds'
    BY <2>1 DEF ReadyHolds
  <2>10. RingHolds'
    <3>1. \A k \in 1 .. Len(ring') : k + 1 \in 1 .. Len(ring) /\ ring'[k] = ring[k + 1]
      BY <2>2
    <3>2. \A k \in 1 .. Len(ring') :
            \E i \in 1 .. Len(made') :
                ring'[k].stamp = i /\ i <= msg'.stamp /\ ring'[k].data = DatumOf(i)'
      <4>1. \A i : DatumOf(i)' = DatumOf(i)
        BY <2>1 DEF DatumOf, DataOf
      <4> QED
        BY <1>6, <2>1, <3>1, <4>1 DEF OutInv, RingHolds
    <3>3. \A j, k \in 1 .. Len(ring') : j < k => ring'[j].stamp < ring'[k].stamp
      <4> SUFFICES ASSUME NEW j \in 1 .. Len(ring'), NEW k \in 1 .. Len(ring'), j < k
                   PROVE  ring'[j].stamp < ring'[k].stamp
        OBVIOUS
      <4>1. j + 1 \in 1 .. Len(ring) /\ k + 1 \in 1 .. Len(ring) /\ j + 1 < k + 1
        BY <2>2, <3>1
      <4>2. ring[j + 1].stamp < ring[k + 1].stamp
        BY <1>6, <4>1 DEF OutInv, RingHolds
      <4> QED
        BY <3>1, <4>2
    <3>4. \A j \in 1 .. Len(outbox') : \A k \in 1 .. Len(ring') : outbox'[j].of < ring'[k].stamp
      <4> SUFFICES ASSUME NEW j \in 1 .. Len(outbox'), NEW k \in 1 .. Len(ring')
                   PROVE  outbox'[j].of < ring'[k].stamp
        OBVIOUS
      <4>1. /\ Len(outbox) \in Nat /\ Len(outbox') = Len(outbox) + 1
            /\ outbox'[Len(outbox) + 1] = o
            /\ \A i \in 1 .. Len(outbox) : outbox'[i] = outbox[i]
        BY <2>5, AppendKeeps DEF WireTypes
      <4>2. k + 1 \in 1 .. Len(ring) /\ 1 \in 1 .. Len(ring) /\ 1 < k + 1
        BY <2>2, <3>1
      <4>3. ring[1].stamp < ring[k + 1].stamp
        BY <1>6, <4>2 DEF OutInv, RingHolds
      <4>4. CASE j \in 1 .. Len(outbox)
        BY <1>6, <3>1, <4>1, <4>2, <4>4 DEF OutInv, RingHolds
      <4>5. CASE j = Len(outbox) + 1
        BY <2>3, <2>4, <3>1, <4>1, <4>3, <4>5
      <4> QED
        BY <4>1, <4>4, <4>5
    <3> QED
      BY <3>2, <3>3, <3>4 DEF RingHolds
  <2> QED
    BY <2>8, <2>9, <2>10 DEF OutInv
<1>7. CASE kind \notin {"transform", "loam"} /\ Convert
  <2>1. /\ kind \in FromTrenz \ {"transform"} /\ kind' = kind /\ step["worker"] = "convert"
        /\ step'["worker"] = "publish" /\ ring = <<>> /\ ring' = <<>>
        /\ UNCHANGED <<discard, made, msg, outbox>>
    BY <1>0, <1>7 DEF Convert, WireKinds, link
  <2>2. PICK n \in 1 .. Len(made) : n = msg.stamp
    BY <1>0, <2>1 DEF LinkInv, MessageHolds
  <2>3. \A i \in 1 .. Len(made) :
            /\ i \in 1 .. Len(made')
            /\ \A content : PublishedAs(content, i) => PublishedAs(content, i)'
            /\ \A stamp : HasTime(stamp, i) => HasTime(stamp, i)'
    BY <2>1, MeasurementsStay
  <2>4. PublishedHolds'
    <3>1. \A k \in 1 .. Len(outbox) :
            \E i \in 1 .. Len(made') :
                /\ outbox[k].of = i /\ i <= msg.stamp
                /\ PublishedAs(outbox[k].content, i)'
                /\ kind \in FromTrenz => HasTime(outbox[k].stamp, i)'
      <4> TAKE k \in 1 .. Len(outbox)
      <4>1. PICK i \in 1 .. Len(made) :
                /\ outbox[k].of = i /\ i <= msg.stamp
                /\ PublishedAs(outbox[k].content, i)
                /\ kind \in FromTrenz => HasTime(outbox[k].stamp, i)
        BY <1>7 DEF OutInv, PublishedHolds
      <4>2. PICK content, stamp : content = outbox[k].content /\ stamp = outbox[k].stamp
        OBVIOUS
      <4>3. content = outbox'[k].content /\ stamp = outbox'[k].stamp
        BY <2>1, <4>2
      <4> QED
        BY <2>3, <4>1, <4>2, <4>3
    <3> QED
      BY <1>7, <2>1, <3>1 DEF OutInv, PublishedHolds
  <2>5. ReadyHolds'
    <3>1. ready'.of = n
      BY <1>7, <2>2 DEF Convert
    <3>2. PICK content : content = RosOf(msg.data)
      OBVIOUS
    <3>3. kind \in {"imu", "cloud", "tsdf"} /\ Content = content
      BY <2>1, <3>2 DEF Content, RosOf, FromTrenz
    <3>4. content = ready'.content
      <4>1. kind = "tsdf" => ready.content = <<>>
        BY <2>1 DEF NothingLeft
      <4> QED
        BY <1>7, <3>3, <4>1 DEF Convert
    <3>5. PublishedAs(content, n)
      <4>1. PICK e \in Measured[kind] : e = made[n]
        BY <2>2 DEF WireTypes
      <4>2. msg.data = DataOf(e.m, e.s)
        BY <2>2, <4>1 DEF LinkInv, MessageHolds, DatumOf
      <4>3. Shows(RosOf(DataOf(e.m, e.s)), e.m, e.s)
        BY <1>0, <3>3, RosShows
      <4> QED
        BY <3>2, <4>1, <4>2, <4>3 DEF PublishedAs
    <3>6. ASSUME kind # "tsdf"
          PROVE  HasTime(ready.stamp, n)'
      <4>1. PICK stamp : stamp = Stamp(n)
        OBVIOUS
      <4>2. stamp = ready'.stamp
        BY <1>7, <2>2, <3>6, <4>1 DEF Convert
      <4>3. HasTime(stamp, n)
        BY <4>1, StampIsTime
      <4> QED
        BY <2>3, <4>2, <4>3
    <3>7. PublishedAs(ready.content, n)'
      BY <2>3, <3>4, <3>5
    <3> QED
      BY <2>1, <2>2, <3>1, <3>6, <3>7 DEF ReadyHolds
  <2>6. RingHolds'
    BY <2>1, EmptyIsSequence DEF RingHolds
  <2> QED
    BY <2>4, <2>5, <2>6 DEF OutInv
<1>8. CASE kind \notin {"transform", "loam"} /\ Publish
  <2>1. /\ kind \in FromTrenz \ {"transform"} /\ kind' = kind /\ step["worker"] = "publish"
        /\ step'["worker"] = "loop" /\ ring = <<>> /\ ring' = <<>>
        /\ UNCHANGED <<discard, made, msg>>
    BY <1>0, <1>8 DEF Publish, WireKinds, link
  <2>2. PICK n \in 1 .. Len(made) :
          /\ msg.stamp = n /\ ready.of = n
          /\ PublishedAs(ready.content, n) /\ (kind # "tsdf" => HasTime(ready.stamp, n))
    BY <1>8, <2>1 DEF OutInv, ReadyHolds
  <2>3. PICK o : o = [ready EXCEPT !.stamp = IF kind = "tsdf" THEN Stamp(msg.stamp) ELSE @]
    OBVIOUS
  <2>4. /\ o.of = n /\ o.content = ready.content
        /\ o.stamp = IF kind = "tsdf" THEN Stamp(n) ELSE ready.stamp
    BY <2>2, <2>3 DEF WireTypes
  <2>5. outbox' = Append(outbox, o)
    BY <1>8, <2>3 DEF Publish
  <2>6. HasTime(o.stamp, n)
    BY <2>2, <2>4, StampIsTime
  <2>7. PublishedAs(o.content, n)
    BY <2>2, <2>4
  <2>8. \A k \in 1 .. Len(outbox) : outbox[k].of < n
    BY <1>8, <2>1, <2>2 DEF OutInv, PublishedHolds
  <2>9. PublishedHolds'
    BY <1>0, <1>8, <2>1, <2>2, <2>4, <2>5, <2>6, <2>7, <2>8, AnotherPublished DEF LinkInv
  <2> QED
    BY <2>1, <2>9, EmptyIsSequence DEF OutInv, ReadyHolds, RingHolds
<1>9. CASE UNCHANGED wireVars \/ Subscribe \/ Stop \/ ReceiveNothing \/ SaveCallback
  <2>1. step'["worker"] \in {"convert", "publish"} => step'["worker"] = step["worker"]
    BY <1>0, <1>9 DEF wireVars, Subscribe, Stop, ReceiveNothing, SaveCallback
  <2> QED
    BY <1>1, <1>9, <2>1 DEF wireVars, link, Subscribe, Stop, ReceiveNothing, SaveCallback
<1>10. ASSUME NEW p \in Threads, Loop(p) \/ SendTransform(p) \/ SendPath(p)
       PROVE  OutInv'
  <2>1. p \in {"worker", "broadcaster"}
    BY DEF Threads
  <2>2. step'["worker"] \in {"convert", "publish"} => step'["worker"] = step["worker"]
    BY <1>0, <1>10, <2>1 DEF Loop, SendTransform, SendPath
  <2> QED
    BY <1>1, <1>10, <2>2 DEF Loop, SendTransform, SendPath, link
<1>11. ASSUME ConvertTransform \/ ExtendPath \/ (\E e \in Measured[kind] : LoamPose(e))
       PROVE  OutInv'
  <2>1. kind \in {"transform", "loam"} /\ kind' = kind
    BY <1>11 DEF ConvertTransform, ExtendPath, LoamPose, WireKinds
  <2> QED
    BY <2>1 DEF OutInv
<1>12. kind' = kind
  BY DEF WireNext, wireVars, Subscribe, Stop, ReceiveNothing, SendMeasured, ReceiveFromBoard,
         Convert, Publish, ReceiveIntoRing, PopRing, ConvertTransform, ExtendPath, Loop,
         SendTransform, SendPath, LoamPose, SaveCallback
<1>13. CASE kind \in {"transform", "loam"}
  BY <1>12, <1>13 DEF OutInv
<1> QED
  BY <1>2, <1>4, <1>5, <1>6, <1>7, <1>8, <1>9, <1>10, <1>11, <1>13 DEF WireNext

-----------------------------------------------------------------------------
(********************************* the path ********************************)

LEMMA WithoutOne ==
  ASSUME NEW p, IsSequence(p), NEW n \in 1 .. Len(p)
  PROVE  /\ IsSequence(RemoveAt(p, n)) /\ Len(p) \in Nat \ {0} /\ Len(RemoveAt(p, n)) = Len(p) - 1
         /\ \A k \in 1 .. n - 1 : RemoveAt(p, n)[k] = p[k]
         /\ \A k \in n .. Len(p) - 1 : RemoveAt(p, n)[k] = p[k + 1]
<1>1. PICK S : p \in Seq(S)
  BY DEF IsSequence
<1>2. Len(p) \in Nat \ {0} /\ n \in Nat \ {0} /\ n <= Len(p)
  BY <1>1
<1>3. PICK a, b : a = SubSeq(p, 1, n - 1) /\ b = SubSeq(p, n + 1, Len(p))
  OBVIOUS
<1>4. a \in Seq(S) /\ Len(a) = n - 1 /\ \A k \in 1 .. n - 1 : a[k] = p[k]
  <2>1. \A k \in 1 .. n - 1 : p[k] \in S
    BY <1>1, <1>2
  <2>2. /\ SubSeq(p, 1, n - 1) \in Seq(S)
        /\ Len(SubSeq(p, 1, n - 1)) = IF 1 <= n - 1 THEN (n - 1) - 1 + 1 ELSE 0
        /\ \A k \in 1 .. (n - 1) - 1 + 1 : SubSeq(p, 1, n - 1)[k] = p[1 + k - 1]
    BY <1>1, <1>2, SubSeqProperties
  <2> QED
    BY <1>2, <1>3, <2>2
<1>5. b \in Seq(S) /\ Len(b) = Len(p) - n /\ \A k \in 1 .. Len(p) - n : b[k] = p[n + k]
  <2>1. /\ SubSeq(p, n + 1, Len(p)) \in Seq(S)
        /\ Len(SubSeq(p, n + 1, Len(p))) = IF n + 1 <= Len(p) THEN Len(p) - (n + 1) + 1 ELSE 0
        /\ \A k \in 1 .. Len(p) - (n + 1) + 1 : SubSeq(p, n + 1, Len(p))[k] = p[(n + 1) + k - 1]
    BY <1>1, <1>2, SubSeqProperties
  <2> QED
    BY <1>2, <1>3, <2>1
<1>6. PICK q : q = a \o b
  OBVIOUS
<1>7. /\ q \in Seq(S) /\ Len(q) = Len(a) + Len(b)
      /\ \A k \in 1 .. Len(a) + Len(b) : q[k] = IF k <= Len(a) THEN a[k] ELSE b[k - Len(a)]
  BY <1>4, <1>5, <1>6, ConcatProperties
<1>8. Len(q) = Len(p) - 1
  BY <1>2, <1>4, <1>5, <1>7
<1>9. \A k \in 1 .. n - 1 : q[k] = p[k]
  BY <1>2, <1>4, <1>5, <1>7
<1>10. \A k \in n .. Len(p) - 1 : q[k] = p[k + 1]
  <2> TAKE k \in n .. Len(p) - 1
  <2>1. k \in 1 .. Len(a) + Len(b) /\ ~(k <= Len(a)) /\ k - Len(a) \in 1 .. Len(p) - n
    BY <1>2, <1>4, <1>5
  <2>2. q[k] = b[k - (n - 1)] /\ n + (k - (n - 1)) = k + 1
    BY <1>2, <1>4, <1>7, <2>1
  <2>3. b[k - (n - 1)] = p[n + (k - (n - 1))]
    BY <1>4, <1>5, <2>1
  <2> QED
    BY <2>2, <2>3
<1>11. q = RemoveAt(p, n)
  BY <1>3, <1>6 DEF RemoveAt
<1> QED
  BY <1>2, <1>7, <1>8, <1>9, <1>10, <1>11 DEF IsSequence

\* What a path is of the poses walked: the first one since the reset, later
\* ones in their order and the latest ones; if one is not there, it is none of
\* the latest, and they were too many.
PathFits(p, w, first) ==
    /\ Len(p) <= Len(w) - first + 1
    /\ Len(p) > 0 => p[1] = w[first]
    /\ \A j, k \in 1 .. Len(p) : j < k => p[j].of < p[k].of
    /\ \A k \in 1 .. Len(p) : \E j \in first .. Len(w) : p[k] = w[j]
    /\ \A i \in 0 .. Recent - 2 : i < Len(p) => p[Len(p) - i] = w[Len(w) - i]
    /\ \A j \in first .. Len(w) :
        \/ \E k \in 1 .. Len(p) : p[k] = w[j]
        \/ Len(w) - first + 1 >= PathLimit /\ j <= Len(w) - (Recent - 1)

LEMMA ExtendedFits ==
  ASSUME NEW p, IsSequence(p), NEW w, IsSequence(w), NEW first \in 1 .. Len(w) + 1,
         PathFits(p, w, first), NEW x, \A k \in 1 .. Len(w) : w[k].of < x.of,
         Len(p) = 0 => first = Len(w) + 1
  PROVE  PathFits(Append(p, x), Append(w, x), first)
<1>1. PICK v, q : v = Append(w, x) /\ q = Append(p, x)
  OBVIOUS
<1>2. /\ Len(w) \in Nat /\ Len(v) = Len(w) + 1 /\ v[Len(w) + 1] = x
      /\ \A k \in 1 .. Len(w) : v[k] = w[k]
  BY <1>1, AppendKeeps
<1>3. /\ Len(p) \in Nat /\ Len(q) = Len(p) + 1 /\ q[Len(p) + 1] = x
      /\ \A k \in 1 .. Len(p) : q[k] = p[k]
  BY <1>1, AppendKeeps
<1>4. Len(q) <= Len(v) - first + 1
  BY <1>2, <1>3 DEF PathFits
<1>5. q[1] = v[first]
  <2>1. CASE Len(p) = 0
    BY <1>2, <1>3, <2>1
  <2>2. CASE Len(p) > 0
    <3>1. first \in 1 .. Len(w)
      BY <1>2, <1>3, <2>2 DEF PathFits
    <3>2. p[1] = w[first]
      BY <2>2 DEF PathFits
    <3> QED
      BY <1>2, <1>3, <2>2, <3>1, <3>2
  <2> QED
    BY <1>3, <2>1, <2>2
<1>6. \A k \in 1 .. Len(p) : p[k].of < x.of
  <2> TAKE k \in 1 .. Len(p)
  <2>1. PICK j \in first .. Len(w) : p[k] = w[j]
    BY DEF PathFits
  <2>2. j \in 1 .. Len(w)
    BY <1>2
  <2> QED
    BY <2>1, <2>2
<1>7. \A j, k \in 1 .. Len(q) : j < k => q[j].of < q[k].of
  <2> SUFFICES ASSUME NEW j \in 1 .. Len(q), NEW k \in 1 .. Len(q), j < k
               PROVE  q[j].of < q[k].of
    OBVIOUS
  <2>1. j \in 1 .. Len(p) /\ q[j] = p[j]
    BY <1>3
  <2>2. CASE k \in 1 .. Len(p)
    BY <1>3, <2>1, <2>2 DEF PathFits
  <2>3. CASE k = Len(p) + 1
    BY <1>3, <1>6, <2>1, <2>3
  <2> QED
    BY <1>3, <2>2, <2>3
<1>8. \A k \in 1 .. Len(q) : \E j \in first .. Len(v) : q[k] = v[j]
  <2> TAKE k \in 1 .. Len(q)
  <2>1. CASE k \in 1 .. Len(p)
    <3>1. PICK j \in first .. Len(w) : p[k] = w[j]
      BY <2>1 DEF PathFits
    <3>2. j \in 1 .. Len(w) /\ j \in first .. Len(v)
      BY <1>2, <3>1
    <3> QED
      BY <1>2, <1>3, <2>1, <3>1, <3>2
  <2>2. CASE k = Len(p) + 1
    <3>1. Len(w) + 1 \in first .. Len(v)
      BY <1>2
    <3> QED
      BY <1>2, <1>3, <2>2, <3>1
  <2> QED
    BY <1>3, <2>1, <2>2
<1>9. \A i \in 0 .. Recent - 2 : i < Len(q) => q[Len(q) - i] = v[Len(v) - i]
  <2> SUFFICES ASSUME NEW i \in 0 .. Recent - 2, i < Len(q)
               PROVE  q[Len(q) - i] = v[Len(v) - i]
    OBVIOUS
  <2>0. Recent \in Nat
    BY WireAssumption
  <2>1. CASE i = 0
    BY <1>2, <1>3, <2>1
  <2>2. CASE i # 0
    <3>1. PICK h \in 0 .. Recent - 2 : h = i - 1 /\ h < Len(p)
      BY <1>3, <2>0, <2>2
    <3>2. p[Len(p) - h] = w[Len(w) - h]
      BY <3>1 DEF PathFits
    <3>3. Len(p) - h \in 1 .. Len(p) /\ Len(p) - h = Len(q) - i
      BY <1>3, <3>1
    <3>4. Len(w) - h \in 1 .. Len(w) /\ Len(w) - h = Len(v) - i
      <4>1. Len(p) <= Len(w) - first + 1
        BY DEF PathFits
      <4> QED
        BY <1>2, <1>3, <3>1, <4>1
    <3> QED
      BY <1>2, <1>3, <3>2, <3>3, <3>4
  <2> QED
    BY <2>1, <2>2
<1>10. \A j \in first .. Len(v) :
          \/ \E k \in 1 .. Len(q) : q[k] = v[j]
          \/ Len(v) - first + 1 >= PathLimit /\ j <= Len(v) - (Recent - 1)
  <2> TAKE j \in first .. Len(v)
  <2>0. Recent \in Nat /\ PathLimit \in Nat
    BY WireAssumption
  <2>1. CASE j = Len(w) + 1
    BY <1>2, <1>3, <2>1
  <2>2. CASE j # Len(w) + 1
    <3>1. j \in first .. Len(w) /\ j \in 1 .. Len(w)
      BY <1>2, <2>2
    <3>2. \/ \E k \in 1 .. Len(p) : p[k] = w[j]
          \/ Len(w) - first + 1 >= PathLimit /\ j <= Len(w) - (Recent - 1)
      BY <3>1 DEF PathFits
    <3>3. CASE \E k \in 1 .. Len(p) : p[k] = w[j]
      BY <1>2, <1>3, <3>1, <3>3
    <3>4. CASE Len(w) - first + 1 >= PathLimit /\ j <= Len(w) - (Recent - 1)
      BY <1>2, <2>0, <3>1, <3>4
    <3> QED
      BY <3>2, <3>3, <3>4
  <2> QED
    BY <2>1, <2>2
<1> QED
  BY <1>1, <1>4, <1>5, <1>7, <1>8, <1>9, <1>10 DEF PathFits

LEMMA ThinnedFits ==
  ASSUME NEW p, IsSequence(p), Len(p) > 0, Len(p) <= PathLimit,
         NEW w, IsSequence(w), NEW first \in 1 .. Len(w) + 1, PathFits(p, w, first),
         NEW q \in Thin(p)
  PROVE  PathFits(q, w, first) /\ Len(q) > 0 /\ Len(q) < PathLimit
<1>1. /\ Len(p) \in Nat /\ Len(w) \in Nat /\ PathLimit \in Nat /\ Recent \in Nat
      /\ PathLimit > Recent /\ Recent > 1
  BY LengthOfSequence, WireAssumption
<1>2. CASE Len(p) < PathLimit
  BY <1>2 DEF Thin
<1>3. CASE Len(p) = PathLimit
  <2>1. PICK index \in 1 .. Len(p) - Recent : q = RemoveAt(p, index + 1)
    BY <1>1, <1>3 DEF Thin
  <2>2. PICK n \in 2 .. Len(p) - Recent + 1 : n = index + 1
    BY <1>1, <2>1
  <2>3. n \in 1 .. Len(p)
    BY <1>1, <2>2
  <2>4. /\ Len(q) = Len(p) - 1
        /\ \A k \in 1 .. n - 1 : q[k] = p[k]
        /\ \A k \in n .. Len(p) - 1 : q[k] = p[k + 1]
    BY <2>1, <2>2, <2>3, WithoutOne
  <2>5. \A k \in 1 .. Len(q) : \/ k \in 1 .. n - 1 /\ k \in 1 .. Len(p) /\ q[k] = p[k]
                               \/ k \in n .. Len(p) - 1 /\ k + 1 \in 1 .. Len(p) /\ q[k] = p[k + 1]
    <3> TAKE k \in 1 .. Len(q)
    <3>1. CASE k < n
      <4>1. k \in 1 .. n - 1 /\ k \in 1 .. Len(p)
        BY <1>1, <2>2, <2>4, <3>1
      <4> QED
        BY <2>4, <4>1
    <3>2. CASE ~(k < n)
      <4>1. k \in n .. Len(p) - 1 /\ k + 1 \in 1 .. Len(p)
        BY <1>1, <2>2, <2>4, <3>2
      <4> QED
        BY <2>4, <4>1
    <3> QED
      BY <3>1, <3>2
  <2>6. Len(q) <= Len(w) - first + 1
    BY <1>1, <2>4 DEF PathFits
  <2>7. q[1] = w[first]
    <3>1. p[1] = w[first]
      BY DEF PathFits
    <3> QED
      BY <1>1, <2>2, <2>4, <3>1
  <2>8. \A j, k \in 1 .. Len(q) : j < k => q[j].of < q[k].of
    <3> SUFFICES ASSUME NEW j \in 1 .. Len(q), NEW k \in 1 .. Len(q), j < k
                 PROVE  q[j].of < q[k].of
      OBVIOUS
    <3>1. ASSUME NEW m \in 1 .. Len(q)
          PROVE  \E i \in 1 .. Len(p) : q[m] = p[i] /\ ((i = m /\ m < n) \/ (i = m + 1 /\ m >= n))
      <4>1. CASE m \in 1 .. n - 1 /\ m \in 1 .. Len(p) /\ q[m] = p[m]
        BY <2>2, <4>1
      <4>2. CASE m \in n .. Len(p) - 1 /\ m + 1 \in 1 .. Len(p) /\ q[m] = p[m + 1]
        BY <2>2, <4>2
      <4> QED
        BY <2>5, <4>1, <4>2
    <3>2. PICK i \in 1 .. Len(p) : q[j] = p[i] /\ ((i = j /\ j < n) \/ (i = j + 1 /\ j >= n))
      BY <3>1
    <3>3. PICK h \in 1 .. Len(p) : q[k] = p[h] /\ ((h = k /\ k < n) \/ (h = k + 1 /\ k >= n))
      BY <3>1
    <3>4. i < h
      BY <1>1, <2>2, <3>2, <3>3
    <3> QED
      BY <3>2, <3>3, <3>4 DEF PathFits
  <2>9. \A k \in 1 .. Len(q) : \E j \in first .. Len(w) : q[k] = w[j]
    BY <2>5 DEF PathFits
  <2>10. \A i \in 0 .. Recent - 2 : i < Len(q) => q[Len(q) - i] = w[Len(w) - i]
    <3> SUFFICES ASSUME NEW i \in 0 .. Recent - 2, i < Len(q)
                 PROVE  q[Len(q) - i] = w[Len(w) - i]
      OBVIOUS
    <3>1. Len(q) - i \in n .. Len(p) - 1 /\ (Len(q) - i) + 1 = Len(p) - i
      BY <1>1, <2>2, <2>4
    <3>2. q[Len(q) - i] = p[Len(p) - i]
      BY <2>4, <3>1
    <3>3. i < Len(p)
      BY <1>1, <2>4
    <3> QED
      BY <3>2, <3>3 DEF PathFits
  <2>11. \A j \in first .. Len(w) :
            \/ \E k \in 1 .. Len(q) : q[k] = w[j]
            \/ Len(w) - first + 1 >= PathLimit /\ j <= Len(w) - (Recent - 1)
    <3> TAKE j \in first .. Len(w)
    <3>1. Len(w) - first + 1 >= PathLimit
      BY <1>1, <1>3 DEF PathFits
    <3>2. CASE j <= Len(w) - (Recent - 1)
      BY <3>1, <3>2
    <3>3. CASE ~(j <= Len(w) - (Recent - 1))
      <4>1. PICK i \in 0 .. Recent - 2 : i = Len(w) - j
        BY <1>1, <3>3
      <4>2. i < Len(q) /\ Len(q) - i \in 1 .. Len(q)
        BY <1>1, <1>3, <2>4, <4>1
      <4>3. q[Len(q) - i] = w[Len(w) - i]
        BY <2>10, <4>2
      <4>4. Len(w) - i = j
        BY <1>1, <4>1
      <4> QED
        BY <4>2, <4>3, <4>4
    <3> QED
      BY <3>2, <3>3
  <2> QED
    BY <1>1, <1>3, <2>4, <2>6, <2>7, <2>8, <2>9, <2>10, <2>11 DEF PathFits
<1> QED
  BY <1>1, <1>2, <1>3

\* The pose of a measurement
ShowsPose(p, n) ==
    /\ p \in RosPoses
    /\ IF kind = "loam" THEN p.position = made[n].m ELSE PoseShows(p, made[n].m)

LEMMA PosesStay ==
  ASSUME WireTypes, kind' = kind,
         \/ made' = made
         \/ \E e \in Measured[kind] : made' = Append(made, e)
  PROVE  \A n \in 1 .. Len(made) :
            n \in 1 .. Len(made') /\ \A p : ShowsPose(p, n) => ShowsPose(p, n)'
<1>1. \A n \in 1 .. Len(made) : n \in 1 .. Len(made') /\ made'[n] = made[n]
  BY DEF WireTypes
<1> QED
  BY <1>1 DEF ShowsPose

\* The poses walked are those measured, in their order, ...
WalkedHolds ==
    /\ \A k \in 1 .. Len(walked) :
        \E n \in 1 .. Len(made) :
            /\ walked[k].of = n /\ ShowsPose(walked[k].pose, n)
            /\ kind = "transform" => n <= msg.stamp
    /\ \A j, k \in 1 .. Len(walked) : j < k => walked[j].of < walked[k].of
    /\ kind = "transform" /\ step["worker"] \in {"convert", "path"} =>
        \A k \in 1 .. Len(walked) : walked[k].of < msg.stamp

\* ... the path is of them, ...
PathHolds ==
    /\ start \in 1 .. Len(walked) + 1
    /\ walked # <<>> => start <= Len(walked)
    /\ PathFits(path, walked, start) /\ Len(path) < PathLimit

\* ... and ends with the transformation but while one is converted, for which
\* that thread holds the mutex, as does the one that publishes both.
LockHolds ==
    /\ step["worker"] = "path" =>
        /\ mtx = "worker"
        /\ \E n \in 1 .. Len(made) : msg.stamp = n /\ tf.of = n /\ ShowsPose(tf.pose, n)
    /\ \A p \in {"worker", "broadcaster"} : step[p] = "send path" => mtx = p /\ sending = tf
    /\ kind = "transform" /\ step["worker"] # "path" /\ Len(path) > 0 => path[Len(path)] = tf

ShownHolds ==
    /\ IsSequence(shown.path) /\ Len(shown.path) < PathLimit
    /\ Len(shown.path) > 0 => shown.path[Len(shown.path)] = shown.tf
    /\ \A j, k \in 1 .. Len(shown.path) : j < k => shown.path[j].of < shown.path[k].of

PathInv == WalkedHolds /\ PathHolds /\ LockHolds /\ ShownHolds

\* One pose more
LEMMA WalksOn ==
  ASSUME WireTypes, PathInv, NEW x, NEW n \in 1 .. Len(made'), x.of = n, Len(made) \in Nat,
         kind' = kind, made' = made \/ \E e \in Measured[kind] : made' = Append(made, e),
         msg' = msg, kind = "transform" => n = msg.stamp /\ step'["worker"] = "publish",
         ShowsPose(x.pose, n)', \A k \in 1 .. Len(walked) : walked[k].of < n,
         walked' = Append(walked, x),
         NEW p, \/ p = path /\ start' = start
                \/ p = <<>> /\ start' = Len(walked) + 1,
         path' \in Thin(Append(p, x))
  PROVE  WalkedHolds' /\ PathHolds' /\ Len(path') > 0 /\ path'[Len(path')] = x
<1>1. /\ Len(walked) \in Nat /\ Len(walked') = Len(walked) + 1 /\ walked'[Len(walked) + 1] = x
      /\ \A k \in 1 .. Len(walked) : walked'[k] = walked[k]
      /\ IsSequence(walked) /\ IsSequence(walked') /\ IsSequence(path)
  BY AppendKeeps DEF WireTypes
<1>2. \A k \in 1 .. Len(walked') : k \in 1 .. Len(walked) \/ k = Len(walked) + 1
  BY <1>1
<1>3. \A i \in 1 .. Len(made) : i \in 1 .. Len(made') /\ \A q : ShowsPose(q, i) => ShowsPose(q, i)'
  BY PosesStay
<1>4. WalkedHolds'
  <2>1. \A k \in 1 .. Len(walked') :
          \E i \in 1 .. Len(made') :
              /\ walked'[k].of = i /\ ShowsPose(walked[k].pose, i)'
              /\ kind = "transform" => i <= msg.stamp
    <3> TAKE k \in 1 .. Len(walked')
    <3>1. PICK q : q = walked'[k].pose
      OBVIOUS
    <3>2. CASE k \in 1 .. Len(walked)
      <4>1. PICK i \in 1 .. Len(made) :
              /\ walked[k].of = i /\ ShowsPose(walked[k].pose, i)
              /\ kind = "transform" => i <= msg.stamp
        BY <3>2 DEF PathInv, WalkedHolds
      <4>2. ShowsPose(q, i)
        BY <1>1, <3>1, <3>2, <4>1
      <4>3. ShowsPose(q, i)'
        BY <1>3, <4>2
      <4> QED
        BY <1>1, <1>3, <3>1, <3>2, <4>1, <4>3
    <3>3. CASE k = Len(walked) + 1
      <4>1. q = x.pose /\ walked'[k] = x
        BY <1>1, <3>1, <3>3
      <4>2. ShowsPose(q, n)'
        BY <4>1
      <4>3. n \in Nat /\ (kind = "transform" => n <= msg.stamp)
        OBVIOUS
      <4> QED
        BY <3>1, <4>1, <4>2, <4>3
    <3> QED
      BY <1>2, <3>2, <3>3
  <2>2. \A j, k \in 1 .. Len(walked') : j < k => walked'[j].of < walked'[k].of
    <3> SUFFICES ASSUME NEW j \in 1 .. Len(walked'), NEW k \in 1 .. Len(walked'), j < k
                 PROVE  walked'[j].of < walked'[k].of
      OBVIOUS
    <3>1. j \in 1 .. Len(walked)
      BY <1>1, <1>2
    <3>2. CASE k \in 1 .. Len(walked)
      BY <1>1, <3>1, <3>2 DEF PathInv, WalkedHolds
    <3>3. CASE k = Len(walked) + 1
      BY <1>1, <3>1, <3>3
    <3> QED
      BY <1>2, <3>2, <3>3
  <2> QED
    BY <2>1, <2>2 DEF WalkedHolds
<1>5. /\ IsSequence(p) /\ Len(p) \in Nat /\ Len(p) < PathLimit /\ start' \in 1 .. Len(walked) + 1
      /\ PathFits(p, walked, start') /\ (Len(p) = 0 => start' = Len(walked) + 1)
  <2>1. CASE p = path /\ start' = start
    <3>1. /\ IsSequence(path) /\ Len(path) \in Nat /\ Len(path) < PathLimit
          /\ start \in 1 .. Len(walked) + 1 /\ PathFits(path, walked, start)
      BY <1>1, LengthOfSequence DEF PathInv, PathHolds
    <3>2. Len(path) = 0 => start = Len(walked) + 1
      <4>1. SUFFICES ASSUME Len(path) = 0, start <= Len(walked)
                     PROVE  FALSE
        BY <1>1, <3>1
      <4>2. Len(walked) \in start .. Len(walked) /\ Recent \in Nat /\ Recent > 1
        BY <1>1, <3>1, <4>1, WireAssumption
      <4>3. \/ \E k \in 1 .. Len(path) : path[k] = walked[Len(walked)]
            \/ Len(walked) <= Len(walked) - (Recent - 1)
        BY <3>1, <4>2 DEF PathFits
      <4> QED
        BY <1>1, <4>1, <4>2, <4>3
    <3> QED
      BY <2>1, <3>1, <3>2
  <2>2. CASE p = <<>> /\ start' = Len(walked) + 1
    <3>1. Len(p) = 0 /\ IsSequence(p)
      BY <2>2, EmptyIsSequence
    <3>2. PathFits(p, walked, start')
      BY <1>1, <2>2, <3>1, WireAssumption DEF PathFits
    <3> QED
      BY <1>1, <2>2, <3>1, <3>2, WireAssumption
  <2> QED
    BY <2>1, <2>2
<1>6. PathFits(Append(p, x), walked', start')
  BY <1>1, <1>5, ExtendedFits
<1>7. /\ IsSequence(Append(p, x)) /\ Len(Append(p, x)) > 0 /\ Len(Append(p, x)) <= PathLimit
      /\ start' \in 1 .. Len(walked') + 1 /\ start' <= Len(walked')
  BY <1>1, <1>5, AppendKeeps, WireAssumption
<1>8. PathFits(path', walked', start') /\ Len(path') > 0 /\ Len(path') < PathLimit
  BY <1>1, <1>6, <1>7, ThinnedFits
<1>9. path'[Len(path')] = x
  <2>1. Recent \in Nat /\ Recent > 1 /\ Len(path') \in Nat
    BY <1>7, ThinnedIsSequence, LengthOfSequence, WireAssumption
  <2>2. path'[Len(path') - 0] = walked'[Len(walked') - 0]
    BY <1>8, <2>1 DEF PathFits
  <2> QED
    BY <1>1, <2>1, <2>2
<1>10. PathHolds'
  BY <1>7, <1>8 DEF PathHolds
<1> QED
  BY <1>4, <1>8, <1>9, <1>10

LEMMA PathKept ==
  ASSUME WireTypes, WireKinds, LinkInv, PathInv, [WireNext]_wireVars
  PROVE  PathInv'
<1>0. /\ step \in [{"worker", "broadcaster"} -> Activities] /\ Len(made) \in Nat
      /\ kind \in Kinds
  BY DEF WireTypes
<1>1. ASSUME UNCHANGED <<kind, path, walked, start, shown>>,
             \/ made' = made
             \/ \E e \in Measured[kind] : made' = Append(made, e),
             msg' = msg \/ (Receives /\ UNCHANGED made /\ step["worker"] = "receive"),
             kind = "transform" /\ step'["worker"] \in {"convert", "path"} =>
                step["worker"] \in {"convert", "path"} \/ (Receives /\ UNCHANGED made)
      PROVE  WalkedHolds' /\ PathHolds' /\ ShownHolds'
  <2>1. \A n \in 1 .. Len(made) : n \in 1 .. Len(made') /\ \A p : ShowsPose(p, n) => ShowsPose(p, n)'
    BY <1>1, PosesStay
  <2>2. kind = "transform" => /\ msg.stamp \in Nat /\ msg'.stamp \in Nat
                              /\ msg.stamp <= msg'.stamp
                              /\ msg' = msg \/ msg.stamp < msg'.stamp
    <3>1. msg.stamp \in Nat
      BY <1>0 DEF LinkInv, MessageHolds
    <3>2. CASE msg' = msg
      BY <3>1, <3>2
    <3>3. CASE Receives /\ UNCHANGED made /\ kind = "transform"
      BY <1>0, <1>1, <3>1, <3>3, ReceivedHolds
    <3> QED
      BY <1>1, <3>2, <3>3
  <2>3. WalkedHolds'
    <3>1. \A k \in 1 .. Len(walked) :
            \E n \in 1 .. Len(made') :
                /\ walked[k].of = n /\ ShowsPose(walked[k].pose, n)'
                /\ kind = "transform" => n <= msg'.stamp
      <4> TAKE k \in 1 .. Len(walked)
      <4>1. PICK n \in 1 .. Len(made) :
              /\ walked[k].of = n /\ ShowsPose(walked[k].pose, n)
              /\ kind = "transform" => n <= msg.stamp
        BY DEF PathInv, WalkedHolds
      <4>2. PICK p : p = walked[k].pose
        OBVIOUS
      <4>3. p = walked'[k].pose /\ ShowsPose(p, n)'
        BY <1>1, <2>1, <4>1, <4>2
      <4>4. kind = "transform" => n <= msg'.stamp
        BY <2>2, <4>1
      <4> QED
        BY <2>1, <4>1, <4>3, <4>4
    <3>2. kind = "transform" /\ step'["worker"] \in {"convert", "path"} =>
            \A k \in 1 .. Len(walked) : walked[k].of < msg'.stamp
      <4> SUFFICES ASSUME kind = "transform", step'["worker"] \in {"convert", "path"},
                          NEW k \in 1 .. Len(walked)
                   PROVE  walked[k].of < msg'.stamp
        OBVIOUS
      <4>1. PICK n \in 1 .. Len(made) : walked[k].of = n /\ n <= msg.stamp
        BY DEF PathInv, WalkedHolds
      <4>2. CASE msg.stamp < msg'.stamp
        BY <2>2, <4>1, <4>2
      <4>3. CASE msg' = msg /\ step["worker"] \in {"convert", "path"}
        BY <4>3 DEF PathInv, WalkedHolds
      <4>4. CASE Receives /\ UNCHANGED made
        BY <1>0, <2>2, <4>1, <4>4, ReceivedHolds, <1>1
      <4> QED
        BY <1>1, <2>2, <4>2, <4>3, <4>4
    <3> QED
      BY <1>1, <3>1, <3>2 DEF PathInv, WalkedHolds
  <2> QED
    BY <1>1, <2>3 DEF PathInv, PathHolds, ShownHolds
<1>2. ASSUME UNCHANGED <<kind, path, mtx, tf, sending>>,
             \/ made' = made
             \/ \E e \in Measured[kind] : made' = Append(made, e),
             msg' = msg \/ step["worker"] = "receive",
             step'["worker"] = "path" <=> step["worker"] = "path",
             \A p \in {"worker", "broadcaster"} : step'[p] = "send path" => step[p] = "send path"
      PROVE  LockHolds'
  <2>1. step'["worker"] = "path" =>
            /\ mtx = "worker"
            /\ \E n \in 1 .. Len(made') : msg'.stamp = n /\ tf.of = n /\ ShowsPose(tf.pose, n)'
    <3> SUFFICES ASSUME step'["worker"] = "path"
                 PROVE  /\ mtx = "worker"
                        /\ \E n \in 1 .. Len(made') : msg'.stamp = n /\ tf.of = n /\ ShowsPose(tf.pose, n)'
      OBVIOUS
    <3>1. mtx = "worker" /\ msg' = msg
      BY <1>2 DEF PathInv, LockHolds
    <3>2. PICK n \in 1 .. Len(made) : msg.stamp = n /\ tf.of = n /\ ShowsPose(tf.pose, n)
      BY <1>2 DEF PathInv, LockHolds
    <3>3. PICK p : p = tf.pose
      OBVIOUS
    <3>4. n \in 1 .. Len(made')
      BY <1>2, <3>2, PosesStay
    <3>5. p = tf'.pose /\ ShowsPose(p, n)'
      BY <1>2, <3>2, <3>3, PosesStay
    <3> QED
      BY <3>1, <3>2, <3>4, <3>5
  <2> QED
    BY <1>2, <2>1 DEF PathInv, LockHolds
<1>3. CASE UNCHANGED wireVars \/ Subscribe \/ Stop \/ SaveCallback \/ PopRing
  <2>1. /\ UNCHANGED <<kind, path, walked, start, shown, mtx, tf, sending, made, msg, step>>
    BY <1>3 DEF wireVars, link, pose, Subscribe, Stop, SaveCallback, PopRing
  <2> QED
    BY <1>1, <1>2, <2>1 DEF PathInv
<1>4. ASSUME NEW e \in Measured[kind], SendMeasured(e)
      PROVE  PathInv'
  <2>1. /\ UNCHANGED <<kind, path, walked, start, shown, mtx, tf, sending, msg, step>>
        /\ made' = Append(made, e)
    BY <1>4 DEF SendMeasured, pose
  <2> QED
    BY <1>1, <1>2, <2>1 DEF PathInv
<1>5. CASE ReceiveFromBoard \/ ReceiveIntoRing
  <2>1. /\ UNCHANGED <<kind, path, walked, start, shown, mtx, tf, sending, made>> /\ Receives
        /\ step["worker"] = "receive" /\ step'["worker"] \in {"convert", "loop"}
        /\ step'["broadcaster"] = step["broadcaster"]
    BY <1>0, <1>5 DEF ReceiveFromBoard, ReceiveIntoRing, Receives, pose
  <2> QED
    BY <1>1, <1>2, <2>1 DEF PathInv
<1>6. CASE ReceiveNothing \/ Convert \/ Publish
  <2>1. /\ UNCHANGED <<kind, path, walked, start, shown, mtx, tf, sending, made, msg>>
        /\ step["worker"] \in {"receive", "convert", "publish"}
        /\ step'["worker"] \in {"loop", "publish"} /\ step'["broadcaster"] = step["broadcaster"]
    BY <1>0, <1>6 DEF ReceiveNothing, Convert, Publish, pose, link
  <2> QED
    BY <1>1, <1>2, <2>1 DEF PathInv
<1>7. ASSUME NEW p \in Threads, Loop(p)
      PROVE  PathInv'
  <2>1. p \in {"worker", "broadcaster"}
    BY DEF Threads
  <2>2. /\ UNCHANGED <<kind, path, walked, start, shown, mtx, tf, sending, made, msg>>
        /\ step[p] = "loop" /\ step'[p] \in {"done", "receive", "sleep"}
        /\ \A q \in {"worker", "broadcaster"} : q # p => step'[q] = step[q]
    BY <1>0, <1>7, <2>1 DEF Loop, pose, link
  <2>3. /\ step'["worker"] = "path" <=> step["worker"] = "path"
        /\ step'["worker"] \in {"convert", "path"} => step["worker"] \in {"convert", "path"}
        /\ \A q \in {"worker", "broadcaster"} : step'[q] = "send path" => step[q] = "send path"
    BY <2>1, <2>2
  <2> QED
    BY <1>1, <1>2, <2>2, <2>3 DEF PathInv
<1>8. CASE ConvertTransform
  <2>1. /\ UNCHANGED <<kind, path, walked, start, shown, sending, made, msg>>
        /\ kind = "transform" /\ step["worker"] = "convert" /\ mtx = "free" /\ mtx' = "worker"
        /\ step'["worker"] = "path" /\ step'["broadcaster"] = step["broadcaster"]
    BY <1>0, <1>8 DEF ConvertTransform, link
  <2>2. PICK n \in 1 .. Len(made) : n = msg.stamp
    BY <1>0, <2>1 DEF LinkInv, MessageHolds
  <2>3. PICK p : p = tf'.pose
    OBVIOUS
  <2>4. ShowsPose(p, n)
    <3>1. PICK e \in Measured[kind] : e = made[n]
      BY <2>2 DEF WireTypes
    <3>2. msg.data = DataOf(e.m, e.s)
      BY <2>1, <2>2, <3>1 DEF LinkInv, MessageHolds, DatumOf
    <3>3. p = PoseToRos(DataOf(e.m, e.s)) /\ tf'.of = n
      BY <1>8, <2>2, <2>3, <3>2 DEF ConvertTransform
    <3>4. p \in RosPoses /\ PoseShows(p, e.m)
      BY <1>0, <2>1, <3>3, PoseIsShown
    <3> QED
      BY <2>1, <3>1, <3>4 DEF ShowsPose
  <2>5. ShowsPose(p, n)'
    BY <2>1, <2>4, PosesStay
  <2>6. tf'.of = n
    BY <1>8, <2>2 DEF ConvertTransform
  <2>7. LockHolds'
    <3>1. \A q \in {"worker", "broadcaster"} : step'[q] # "send path"
      BY <2>1 DEF PathInv, LockHolds
    <3> QED
      BY <2>1, <2>2, <2>3, <2>5, <2>6, <3>1 DEF LockHolds
  <2> QED
    BY <1>1, <2>1, <2>7 DEF PathInv
<1>9. CASE ExtendPath
  <2>1. /\ UNCHANGED <<kind, shown, sending, made, msg, tf>>
        /\ kind = "transform" /\ step["worker"] = "path" /\ mtx' = "free"
        /\ step'["worker"] = "publish" /\ step'["broadcaster"] = step["broadcaster"]
        /\ walked' = Append(walked, tf)
    BY <1>0, <1>9 DEF ExtendPath, WireKinds, link
  <2>2. PICK n \in 1 .. Len(made) : msg.stamp = n /\ tf.of = n /\ ShowsPose(tf.pose, n)
    BY <2>1 DEF PathInv, LockHolds
  <2>3. mtx = "worker" /\ step["broadcaster"] # "send path"
    BY <2>1 DEF PathInv, LockHolds
  <2>4. PICK x, p : x = tf /\ p = (IF IsReset(msg.data) THEN <<>> ELSE path)
    OBVIOUS
  <2>5. /\ \/ p = path /\ start' = start
           \/ p = <<>> /\ start' = Len(walked) + 1
        /\ path' \in Thin(Append(p, x)) /\ walked' = Append(walked, x)
    BY <1>9, <2>4 DEF ExtendPath
  <2>6. ShowsPose(x.pose, n)'
    <3>1. PICK q : q = x.pose
      OBVIOUS
    <3>2. ShowsPose(q, n)'
      BY <2>1, <2>2, <2>4, <3>1, PosesStay
    <3> QED
      BY <2>1, <2>4, <3>1, <3>2 DEF ShowsPose
  <2>7. \A k \in 1 .. Len(walked) : walked[k].of < n
    BY <2>1, <2>2 DEF PathInv, WalkedHolds
  <2>8. WalkedHolds' /\ PathHolds' /\ path'[Len(path')] = x
    BY <1>0, <2>1, <2>2, <2>4, <2>5, <2>6, <2>7, WalksOn
  <2>9. LockHolds'
    BY <2>1, <2>3, <2>4, <2>8 DEF LockHolds
  <2> QED
    BY <2>1, <2>8, <2>9 DEF PathInv, ShownHolds
<1>10. ASSUME NEW p \in Threads, SendTransform(p)
       PROVE  PathInv'
  <2>1. p \in {"worker", "broadcaster"}
    BY DEF Threads
  <2>2. /\ UNCHANGED <<kind, path, walked, start, shown, tf, made, msg>>
        /\ mtx = "free" /\ mtx' = p /\ sending' = tf /\ step'[p] = "send path"
        /\ \A q \in {"worker", "broadcaster"} : q # p => step'[q] = step[q]
        /\ kind = "transform"
    BY <1>0, <1>10, <2>1 DEF SendTransform, Lock, link
  <2>3. step["worker"] # "path" /\ \A q \in {"worker", "broadcaster"} : step[q] # "send path"
    BY <2>2 DEF PathInv, LockHolds
  <2>4. step'["worker"] # "path"
    BY <2>1, <2>2, <2>3
  <2>5. step'["worker"] \in {"convert", "path"} => step["worker"] \in {"convert", "path"}
    BY <2>1, <2>2
  <2>6. LockHolds'
    <3>1. \A q \in {"worker", "broadcaster"} : step'[q] = "send path" => mtx' = q /\ sending' = tf'
      BY <2>1, <2>2, <2>3
    <3> QED
      BY <2>2, <2>3, <2>4, <3>1 DEF PathInv, LockHolds
  <2> QED
    BY <1>1, <2>2, <2>5, <2>6 DEF PathInv
<1>11. ASSUME NEW p \in Threads, SendPath(p)
       PROVE  PathInv'
  <2>1. p \in {"worker", "broadcaster"}
    BY DEF Threads
  <2>2. /\ UNCHANGED <<kind, path, walked, start, tf, made, msg, sending>>
        /\ step[p] = "send path" /\ mtx' = "free" /\ step'[p] = "loop"
        /\ shown' = [tf |-> sending, path |-> path]
        /\ \A q \in {"worker", "broadcaster"} : q # p => step'[q] = step[q]
    BY <1>0, <1>11, <2>1 DEF SendPath, link
  <2>3. kind = "transform" /\ mtx = p /\ sending = tf
    BY <2>1, <2>2 DEF WireKinds, PathInv, LockHolds
  <2>4. \A q \in {"worker", "broadcaster"} : step'[q] # "send path"
    <3> TAKE q \in {"worker", "broadcaster"}
    <3>1. CASE q = p
      BY <2>2, <3>1
    <3>2. CASE q # p
      BY <2>2, <2>3, <3>2 DEF PathInv, LockHolds
    <3> QED
      BY <3>1, <3>2
  <2>5. step["worker"] # "path" /\ step'["worker"] # "path"
    <3>1. step["worker"] # "path"
      BY <2>1, <2>2, <2>3 DEF PathInv, LockHolds
    <3> QED
      BY <2>1, <2>2, <3>1
  <2>6. LockHolds'
    BY <2>2, <2>4, <2>5 DEF PathInv, LockHolds
  <2>7. ShownHolds'
    <3>1. shown'.path = path /\ shown'.tf = tf /\ IsSequence(path)
      BY <2>2, <2>3 DEF WireTypes
    <3>2. Len(path) > 0 => path[Len(path)] = tf
      BY <2>3, <2>5 DEF PathInv, LockHolds
    <3>3. Len(path) < PathLimit /\ \A j, k \in 1 .. Len(path) : j < k => path[j].of < path[k].of
      BY DEF PathInv, PathHolds, PathFits
    <3> QED
      BY <3>1, <3>2, <3>3 DEF ShownHolds
  <2>8. WalkedHolds'
    <3>1. step'["worker"] \in {"convert", "path"} => step["worker"] \in {"convert", "path"}
      BY <2>1, <2>2
    <3>2. \A n \in 1 .. Len(made) : \A q : ShowsPose(q, n)' <=> ShowsPose(q, n)
      BY <2>2 DEF ShowsPose
    <3>3. \A k \in 1 .. Len(walked) :
            \E n \in 1 .. Len(made) :
                /\ walked[k].of = n /\ ShowsPose(walked[k].pose, n)'
                /\ n <= msg.stamp
      <4> TAKE k \in 1 .. Len(walked)
      <4>1. PICK n \in 1 .. Len(made) :
              walked[k].of = n /\ ShowsPose(walked[k].pose, n) /\ n <= msg.stamp
        BY <2>3 DEF PathInv, WalkedHolds
      <4>2. PICK q : q = walked[k].pose
        OBVIOUS
      <4>3. q = walked'[k].pose /\ ShowsPose(q, n)'
        BY <2>2, <3>2, <4>1, <4>2
      <4> QED
        BY <4>1, <4>3
    <3> QED
      BY <2>2, <3>1, <3>3 DEF PathInv, WalkedHolds
  <2> QED
    BY <2>2, <2>6, <2>7, <2>8 DEF PathInv, PathHolds
<1>12. ASSUME NEW e \in Measured[kind], LoamPose(e)
       PROVE  PathInv'
  <2>1. /\ UNCHANGED <<kind, msg, step, mtx, tf, sending, start>> /\ made' = Append(made, e)
        /\ kind = "loam"
    BY <1>12 DEF LoamPose
  <2>2. PICK n \in 1 .. Len(made') : n = Len(made) + 1
    BY <1>0, <2>1
  <2>3. PICK x : x = [stamp |-> RosTime(Len(made) + 1), of |-> Len(made) + 1,
                      pose |-> [orientation |-> <<0, 0, 0, 1>>, position |-> e.m]]
    OBVIOUS
  <2>4. /\ path' \in Thin(Append(path, x)) /\ walked' = Append(walked, x)
        /\ shown' = [tf |-> x, path |-> path']
    BY <1>12, <2>3 DEF LoamPose
  <2>5. ShowsPose(x.pose, n)'
    <3>1. made'[n] = e
      BY <2>1, <2>2 DEF WireTypes
    <3>2. e.m \in Triples /\ <<0, 0, 0, 1>> \in Quaternions
      <4>1. e.m \in Triples
        BY <1>0, <2>1, MeasuredAssumption
      <4>2. <<0, 0, 0, 1>> \in Quaternions
        BY DEF Quaternions
      <4> QED
        BY <4>1, <4>2
    <3>3. PICK p : p = x.pose
      OBVIOUS
    <3>4. p = [orientation |-> <<0, 0, 0, 1>>, position |-> e.m]
      BY <2>3, <3>3
    <3>5. p \in RosPoses /\ p.position = e.m
      BY <3>2, <3>4 DEF RosPoses
    <3> QED
      BY <2>1, <3>1, <3>3, <3>5 DEF ShowsPose
  <2>6. \A k \in 1 .. Len(walked) : walked[k].of < n
    BY <1>0, <2>2 DEF PathInv, WalkedHolds
  <2>7. x.of = n
    BY <2>2, <2>3
  <2>8. WalkedHolds' /\ PathHolds' /\ path'[Len(path')] = x
    BY <1>0, <2>1, <2>2, <2>4, <2>5, <2>6, <2>7, WalksOn
  <2>9. LockHolds'
    BY <2>1 DEF WireKinds, LockHolds
  <2>10. ShownHolds'
    <3>1. IsSequence(path')
      BY <2>4, AppendKeeps, ThinnedIsSequence DEF WireTypes
    <3>2. shown'.path = path' /\ shown'.tf = x
      BY <2>4
    <3> QED
      BY <2>8, <3>1, <3>2 DEF ShownHolds, PathHolds, PathFits
  <2> QED
    BY <2>8, <2>9, <2>10 DEF PathInv
<1> QED
  BY <1>3, <1>4, <1>5, <1>6, <1>7, <1>8, <1>9, <1>10, <1>11, <1>12 DEF WireNext

-----------------------------------------------------------------------------
(********************************** files **********************************)

LEMMA CameraAndBack ==
  ASSUME NEW p \in RosPoses
  PROVE  FromCamera(ToCamera(p)) = p
<1>1. PICK q : q = p.orientation /\ q \in Quaternions
  BY DEF RosPoses
<1>2. PICK v : v = p.position /\ v \in Triples
  BY DEF RosPoses
<1>3. p = [orientation |-> q, position |-> v]
  BY <1>1, <1>2 DEF RosPoses
<1>4. PICK a \in Int, b \in Int, c \in Int, d \in Int : q = <<a, b, c, d>>
  BY <1>1 DEF Quaternions
<1>5. PICK x \in Int, y \in Int, z \in Int : v = <<x, y, z>>
  BY <1>2 DEF Triples
<1>6. ToCamera(p) = [orientation |-> <<-b, -c, -a, d>>, position |-> <<-y, z, x>>]
  BY <1>1, <1>2, <1>4, <1>5 DEF ToCamera
<1>7. FromCamera(ToCamera(p)) =
        [orientation |-> <<-(-a), -(-b), -(-c), d>>, position |-> <<x, -(-y), z>>]
  BY <1>6 DEF FromCamera
<1>8. -(-a) = a /\ -(-b) = b /\ -(-c) = c /\ -(-y) = y
  OBVIOUS
<1> QED
  BY <1>3, <1>4, <1>5, <1>7, <1>8

Saving == kind = "loam" \/ save

\* What was not handled yet are the latest poses; the file has those before.
FileInv ==
    /\ Len(saves) <= Len(walked)
    /\ ~Saving => saves = <<>> /\ file = NoFile
    /\ \A k \in 1 .. Len(saves) : saves[k] = walked[Len(walked) - Len(saves) + k]
    /\ file # NoFile =>
        /\ Len(file) <= Len(walked) - Len(saves)
        /\ \A k \in 1 .. Len(file) :
            FromCamera(file[k]) = walked[Len(walked) - Len(saves) - Len(file) + k].pose

LEMMA FileKept ==
  ASSUME WireTypes, WireKinds, PathInv, FileInv, [WireNext]_wireVars
  PROVE  FileInv'
<1>0. /\ IsSequence(walked) /\ IsSequence(saves) /\ (file # NoFile => IsSequence(file))
      /\ Len(walked) \in Nat /\ Len(saves) \in Nat /\ (file # NoFile => Len(file) \in Nat)
      /\ Len(saves) <= Len(walked)
  BY LengthOfSequence DEF WireTypes, FileInv
<1>1. ASSUME UNCHANGED <<kind, save, walked, saves, file>>
      PROVE  FileInv'
  BY <1>1 DEF FileInv, Saving
<1>2. ASSUME NEW x, walked' = Append(walked, x), UNCHANGED <<kind, save, file>>,
             saves' = IF Saving THEN Append(saves, x) ELSE saves
      PROVE  FileInv'
  <2>1. /\ Len(walked') = Len(walked) + 1 /\ walked'[Len(walked) + 1] = x
        /\ \A k \in 1 .. Len(walked) : walked'[k] = walked[k]
    BY <1>0, <1>2, AppendKeeps
  <2>2. CASE Saving
    <3>1. /\ Len(saves') = Len(saves) + 1 /\ saves'[Len(saves) + 1] = x
          /\ \A k \in 1 .. Len(saves) : saves'[k] = saves[k]
      BY <1>0, <1>2, <2>2, AppendKeeps
    <3>2. Len(walked') - Len(saves') = Len(walked) - Len(saves) /\ Len(saves') <= Len(walked')
      BY <1>0, <2>1, <3>1
    <3>3. \A k \in 1 .. Len(saves') : saves'[k] = walked'[Len(walked') - Len(saves') + k]
      <4> TAKE k \in 1 .. Len(saves')
      <4>1. CASE k \in 1 .. Len(saves)
        <5>1. Len(walked) - Len(saves) + k \in 1 .. Len(walked)
          BY <1>0, <4>1
        <5> QED
          BY <2>1, <3>1, <3>2, <4>1, <5>1 DEF FileInv
      <4>2. CASE k = Len(saves) + 1
        <5>1. Len(walked') - Len(saves') + k = Len(walked) + 1
          BY <1>0, <2>1, <3>1, <4>2
        <5> QED
          BY <2>1, <3>1, <4>2, <5>1
      <4> QED
        BY <1>0, <3>1, <4>1, <4>2
    <3>4. ASSUME file # NoFile
          PROVE  /\ Len(file) <= Len(walked') - Len(saves')
                 /\ \A k \in 1 .. Len(file) :
                     FromCamera(file[k]) = walked'[Len(walked') - Len(saves') - Len(file) + k].pose
      <4>1. Len(file) <= Len(walked') - Len(saves') /\ Len(file) \in Nat
        BY <1>0, <3>2, <3>4 DEF FileInv
      <4>2. ASSUME NEW k \in 1 .. Len(file)
            PROVE  FromCamera(file[k]) = walked'[Len(walked') - Len(saves') - Len(file) + k].pose
        <5>1. Len(walked) - Len(saves) - Len(file) + k \in 1 .. Len(walked)
          BY <1>0, <3>2, <4>1
        <5> QED
          BY <2>1, <3>2, <3>4, <5>1 DEF FileInv
      <4> QED
        BY <4>1, <4>2
    <3>5. Saving' <=> Saving
      BY <1>2 DEF Saving
    <3> QED
      BY <1>2, <2>2, <3>2, <3>3, <3>4, <3>5 DEF FileInv
  <2>3. CASE ~Saving
    <3>1. saves' = <<>> /\ file' = NoFile /\ Len(saves') = 0
      BY <1>2, <2>3, EmptyIsSequence DEF FileInv
    <3> QED
      BY <1>0, <2>1, <3>1 DEF FileInv
  <2> QED
    BY <2>2, <2>3
<1>3. CASE SaveCallback
  <2>1. /\ UNCHANGED <<kind, save, walked>> /\ saves # <<>> /\ saves' = Tail(saves)
    BY <1>3 DEF SaveCallback, pose
  <2>2. /\ Len(saves) \in Nat \ {0} /\ Len(saves') = Len(saves) - 1 /\ Head(saves) = saves[1]
        /\ \A k \in 1 .. Len(saves) - 1 : saves'[k] = saves[k + 1]
    BY <1>0, <2>1, TailKeeps
  <2>3. PICK n : n = Len(walked) - Len(saves) + 1
    OBVIOUS
  <2>4. /\ n \in 1 .. Len(walked) /\ n = Len(walked') - Len(saves') /\ Len(saves') <= Len(walked')
        /\ Len(saves') \in Nat
    BY <1>0, <2>1, <2>2, <2>3
  <2>5. Saving
    BY <2>1 DEF FileInv
  <2>6. \A k \in 1 .. Len(saves') : saves'[k] = walked'[n + k]
    <3> TAKE k \in 1 .. Len(saves')
    <3>1. k + 1 \in 1 .. Len(saves) /\ k \in 1 .. Len(saves) - 1
      BY <2>2
    <3>2. saves[k + 1] = walked[Len(walked) - Len(saves) + (k + 1)]
      BY <3>1 DEF FileInv
    <3>3. Len(walked) - Len(saves) + (k + 1) = n + k
      BY <1>0, <2>3, <3>1
    <3> QED
      BY <2>1, <2>2, <3>1, <3>2, <3>3
  <2>7. saves[1] = walked[n]
    <3>1. 1 \in 1 .. Len(saves)
      BY <2>2
    <3> QED
      BY <2>3, <3>1 DEF FileInv
  <2>8. PICK line : line = ToCamera(Head(saves).pose)
    OBVIOUS
  <2>9. FromCamera(line) = walked[n].pose
    <3>1. walked[n].pose \in RosPoses
      BY <2>4 DEF PathInv, WalkedHolds, ShowsPose
    <3> QED
      BY <2>2, <2>7, <2>8, <3>1, CameraAndBack
  <2>10. ASSUME file' # NoFile
         PROVE  /\ Len(file') <= n
                /\ \A k \in 1 .. Len(file') : FromCamera(file'[k]) = walked[n - Len(file') + k].pose
    <3>1. CASE file = NoFile
      <4>1. file' = <<line>>
        BY <1>3, <2>8, <2>10, <3>1 DEF SaveCallback, Created
      <4>2. Len(file') = 1 /\ file'[1] = line
        BY <4>1
      <4> QED
        BY <2>4, <2>9, <4>2
    <3>2. CASE file # NoFile
      <4>1. file' = Append(file, line)
        BY <1>3, <2>8, <3>2 DEF SaveCallback
      <4>2. /\ Len(file) \in Nat /\ Len(file') = Len(file) + 1 /\ file'[Len(file) + 1] = line
            /\ \A k \in 1 .. Len(file) : file'[k] = file[k]
        BY <1>0, <3>2, <4>1, AppendKeeps
      <4>3. Len(file) <= Len(walked) - Len(saves)
        BY <3>2 DEF FileInv
      <4>4. Len(file') <= n
        BY <1>0, <2>3, <4>2, <4>3
      <4>5. ASSUME NEW k \in 1 .. Len(file')
            PROVE  FromCamera(file'[k]) = walked[n - Len(file') + k].pose
        <5>1. CASE k \in 1 .. Len(file)
          <6>1. FromCamera(file[k]) = walked[Len(walked) - Len(saves) - Len(file) + k].pose
            BY <3>2, <5>1 DEF FileInv
          <6>2. Len(walked) - Len(saves) - Len(file) + k = n - Len(file') + k
            BY <1>0, <2>3, <4>2, <5>1
          <6> QED
            BY <4>2, <5>1, <6>1, <6>2
        <5>2. CASE k = Len(file) + 1
          <6>1. n - Len(file') + k = n
            BY <2>4, <4>2, <5>2
          <6> QED
            BY <2>9, <4>2, <5>2, <6>1
        <5> QED
          BY <4>2, <5>1, <5>2
      <4> QED
        BY <4>4, <4>5
    <3> QED
      BY <3>1, <3>2
  <2>11. Saving'
    BY <2>1, <2>5 DEF Saving
  <2> QED
    BY <2>1, <2>4, <2>6, <2>10, <2>11 DEF FileInv
<1>4. CASE ExtendPath
  <2>1. kind = "transform"
    BY <1>4 DEF ExtendPath, WireKinds
  <2>2. PICK x : x = tf
    OBVIOUS
  <2>3. /\ walked' = Append(walked, x) /\ UNCHANGED <<kind, save, file>>
        /\ saves' = IF Saving THEN Append(saves, x) ELSE saves
    BY <1>4, <2>1, <2>2 DEF ExtendPath, Saving
  <2> QED
    BY <1>2, <2>3
<1>5. ASSUME NEW e \in Measured[kind], LoamPose(e)
      PROVE  FileInv'
  <2>1. PICK x : x = [stamp |-> RosTime(Len(made) + 1), of |-> Len(made) + 1,
                      pose |-> [orientation |-> <<0, 0, 0, 1>>, position |-> e.m]]
    OBVIOUS
  <2>2. /\ walked' = Append(walked, x) /\ UNCHANGED <<kind, save, file>>
        /\ saves' = IF Saving THEN Append(saves, x) ELSE saves
    BY <1>5, <2>1 DEF LoamPose, Saving
  <2> QED
    BY <1>2, <2>2
<1>6. CASE UNCHANGED wireVars
  BY <1>1, <1>6 DEF wireVars, pose, disk
<1>7. CASE \/ Subscribe \/ Stop \/ ReceiveNothing \/ ReceiveFromBoard \/ Convert \/ Publish
           \/ ReceiveIntoRing \/ PopRing \/ ConvertTransform
           \/ \E e \in Measured[kind] : SendMeasured(e)
  BY <1>1, <1>7 DEF Subscribe, Stop, ReceiveNothing, ReceiveFromBoard, Convert, Publish,
                    ReceiveIntoRing, PopRing, ConvertTransform, SendMeasured, pose, disk
<1>8. CASE \E p \in Threads : Loop(p) \/ SendTransform(p) \/ SendPath(p)
  BY <1>1, <1>8 DEF Loop, SendTransform, SendPath, pose, disk
<1> QED
  BY <1>3, <1>4, <1>5, <1>6, <1>7, <1>8 DEF WireNext

-----------------------------------------------------------------------------
(******************************** theorems *********************************)

WireInv == WireTypes /\ WireKinds /\ LinkInv /\ OutInv /\ NothingLeft /\ PathInv /\ FileInv

LEMMA WireInvInit == WireInit => WireInv
<1> SUFFICES ASSUME WireInit
             PROVE  WireInv
  OBVIOUS
<1>1. WireTypes /\ WireKinds
  BY TypesInit
<1>2. Len(made) = 0 /\ Len(socket) = 0 /\ Len(outbox) = 0 /\ Len(ring) = 0 /\ Len(path) = 0
      /\ Len(walked) = 0 /\ Len(saves) = 0 /\ Len(shown.path) = 0 /\ IsSequence(shown.path)
  BY EmptyIsSequence DEF WireInit
<1>3. step["worker"] = "loop" /\ step["broadcaster"] = "loop" /\ msg.stamp = 0
  BY DEF WireInit, NoMessage
<1>4. LinkInv
  BY <1>2, <1>3 DEF LinkInv, SocketHolds, MessageHolds
<1>5. OutInv
  BY <1>2, <1>3 DEF OutInv, PublishedHolds, ReadyHolds, RingHolds
<1>6. start = 1 /\ walked = <<>>
  BY DEF WireInit
<1>7. PathFits(path, walked, start)
  BY <1>2, <1>6, WireAssumption DEF PathFits
<1>8. PathInv
  <2>1. WalkedHolds
    BY <1>2 DEF WalkedHolds
  <2>2. PathHolds
    BY <1>2, <1>6, <1>7, WireAssumption DEF PathHolds
  <2>3. LockHolds
    <3>1. step["worker"] # "path" /\ \A p \in {"worker", "broadcaster"} : step[p] # "send path"
      BY <1>3
    <3>2. ~(Len(path) > 0)
      BY <1>2
    <3> QED
      BY <3>1, <3>2 DEF LockHolds
  <2>4. ShownHolds
    BY <1>2, WireAssumption DEF ShownHolds
  <2> QED
    BY <2>1, <2>2, <2>3, <2>4 DEF PathInv
<1>9. FileInv
  BY <1>2 DEF WireInit, FileInv
<1>10. NothingLeft
  BY DEF WireInit, Nothing, NothingLeft
<1> QED
  BY <1>1, <1>4, <1>5, <1>8, <1>9, <1>10 DEF WireInv

LEMMA WireInvAlways == WireSpec => []WireInv
<1>1. WireInv /\ [WireNext]_wireVars => WireInv'
  BY TypesKept, KindsKept, LinkKept, OutKept, LeftKept, PathKept, FileKept DEF WireInv
<1> QED
  BY <1>1, WireInvInit, PTL DEF WireSpec

LEMMA OutboxInOrder ==
  ASSUME WireInv
  PROVE  InTheirOrder(outbox)
<1>1. DOMAIN outbox = 1 .. Len(outbox) /\ (outbox = <<>> => Len(outbox) = 0)
  BY LengthOfSequence DEF WireInv, WireTypes
<1>2. CASE kind \in {"transform", "loam"}
  <2>1. Len(outbox) = 0
    BY <1>1, <1>2 DEF WireInv, WireKinds
  <2>2. 1 .. Len(outbox) = {}
    BY <2>1
  <2> QED
    BY <1>1, <2>2 DEF InTheirOrder
<1>3. CASE kind \notin {"transform", "loam"}
  BY <1>1, <1>3 DEF WireInv, OutInv, PublishedHolds, InTheirOrder
<1> QED
  BY <1>2, <1>3

\* For every measurement, scaling, size and position of the map, number of threads
\* and sizes of the buffers what the bridges of the imu, the clouds and the map
\* publish, and what the board takes of ROS, is a measurement as it was made,
\* complete, with its own stamp, in order and at most once.
THEOREM PublishedIsMeasuredAlways == WireSpec => []PublishedIsMeasured
<1>1. ASSUME WireInv
      PROVE  PublishedIsMeasured
  <2>1. DOMAIN outbox = 1 .. Len(outbox) /\ (outbox = <<>> => Len(outbox) = 0)
    BY <1>1, LengthOfSequence DEF WireInv, WireTypes
  <2>2. InTheirOrder(outbox)
    BY <1>1, OutboxInOrder
  <2>3. ASSUME NEW k \in DOMAIN outbox
        PROVE  LET o == outbox[k]
               IN  /\ Shows(o.content, made[o.of].m, made[o.of].s)
                   /\ kind \in FromTrenz =>
                       LET tick == o.stamp[1] * PerSecond + o.stamp[2]
                       IN  IF discard THEN tick \in o.of .. Len(made) ELSE tick = o.of
    <3>1. kind \notin {"transform", "loam"}
      <4>1. kind \in {"transform", "loam"} => Len(outbox) = 0
        BY <1>1, <2>1 DEF WireInv, WireKinds
      <4> QED
        BY <2>1, <2>3, <4>1
    <3>2. PICK n \in 1 .. Len(made) :
            /\ outbox[k].of = n
            /\ PublishedAs(outbox[k].content, n)
            /\ kind \in FromTrenz => HasTime(outbox[k].stamp, n)
      BY <1>1, <2>1, <2>3, <3>1 DEF WireInv, OutInv, PublishedHolds
    <3>3. ASSUME kind \in FromTrenz
          PROVE  LET tick == outbox[k].stamp[1] * PerSecond + outbox[k].stamp[2]
                 IN  IF discard THEN tick \in n .. Len(made) ELSE tick = n
      <4>1. PICK t \in Nat :
              outbox[k].stamp = RosTime(t) /\ IF discard THEN t \in n .. Len(made) ELSE t = n
        BY <3>2, <3>3 DEF HasTime
      <4>2. outbox[k].stamp[1] * PerSecond + outbox[k].stamp[2] = t
        BY <4>1, TimeOfStamp
      <4> QED
        BY <4>1, <4>2
    <3> QED
      BY <3>2, <3>3 DEF PublishedAs
  <2> QED
    BY <2>2, <2>3 DEF PublishedIsMeasured
<1> QED
  BY <1>1, WireInvAlways, PTL

LEMMA SinceTheStart ==
  ASSUME WireInv
  PROVE  LET w == Since(walked)
         IN  /\ Len(w) = Len(walked) - start + 1 /\ DOMAIN w = 1 .. Len(w)
             /\ \A k \in 1 .. Len(w) : w[k] = walked[start + k - 1]
<1>1. PICK S : walked \in Seq(S)
  BY DEF WireInv, WireTypes, IsSequence
<1>2. Len(walked) \in Nat /\ start \in 1 .. Len(walked) + 1
  BY <1>1 DEF WireInv, PathInv, PathHolds
<1>3. PICK w : w = SubSeq(walked, start, Len(walked))
  OBVIOUS
<1>4. /\ w \in Seq(S)
      /\ Len(w) = IF start <= Len(walked) THEN Len(walked) - start + 1 ELSE 0
      /\ \A k \in 1 .. Len(walked) - start + 1 : w[k] = walked[start + k - 1]
  BY <1>1, <1>2, <1>3, SubSeqProperties
<1>5. Len(w) = Len(walked) - start + 1
  BY <1>2, <1>4
<1>6. DOMAIN w = 1 .. Len(w)
  BY <1>4
<1> QED
  BY <1>3, <1>4, <1>5, <1>6 DEF Since

\* For every length of the path and any measurements: what one publish() sends
\* belongs together, and the path is of the poses since the reset, with the
\* first and the latest ones and below the length at which RViz crashes.
THEOREM PathShowsPosesAlways == WireSpec => []PathShowsPoses
<1>1. ASSUME WireInv
      PROVE  PathShowsPoses
  <2>0. /\ IsSequence(path) /\ IsSequence(walked) /\ IsSequence(shown.path)
        /\ PathFits(path, walked, start)
        /\ start \in 1 .. Len(walked) + 1 /\ Len(path) < PathLimit
    BY <1>1 DEF WireInv, WireTypes, PathInv, PathHolds, ShownHolds
  <2>1. /\ Len(path) \in Nat /\ DOMAIN path = 1 .. Len(path) /\ (path # <<>> => Len(path) > 0)
        /\ Len(walked) \in Nat /\ DOMAIN walked = 1 .. Len(walked)
        /\ Len(shown.path) \in Nat /\ DOMAIN shown.path = 1 .. Len(shown.path)
        /\ (shown.path # <<>> => Len(shown.path) > 0)
    <3>1. Len(path) \in Nat /\ DOMAIN path = 1 .. Len(path) /\ (path # <<>> => Len(path) > 0)
      BY <2>0, LengthOfSequence
    <3>2. Len(walked) \in Nat /\ DOMAIN walked = 1 .. Len(walked)
      BY <2>0, LengthOfSequence
    <3>3. PICK s : s = shown.path
      OBVIOUS
    <3>4. Len(s) \in Nat /\ DOMAIN s = 1 .. Len(s) /\ (s # <<>> => Len(s) > 0)
      BY <2>0, <3>3, LengthOfSequence
    <3> QED
      BY <3>1, <3>2, <3>3, <3>4
  <2>2. shown.path # <<>> => Last(shown.path) = shown.tf
    BY <1>1, <2>1 DEF WireInv, PathInv, ShownHolds, Last
  <2>3. \A q \in {path, shown.path} : InTheirOrder(q) /\ Len(q) < PathLimit
    <3>1. InTheirOrder(path) /\ Len(path) < PathLimit
      BY <2>0, <2>1 DEF PathFits, InTheirOrder
    <3>2. InTheirOrder(shown.path) /\ Len(shown.path) < PathLimit
      BY <1>1, <2>1 DEF WireInv, PathInv, ShownHolds, InTheirOrder
    <3> QED
      BY <3>1, <3>2
  <2>4. PICK w : w = Since(walked)
    OBVIOUS
  <2>5. /\ Len(w) = Len(walked) - start + 1 /\ DOMAIN w = 1 .. Len(w) /\ Len(w) \in Nat
        /\ \A k \in 1 .. Len(w) : w[k] = walked[start + k - 1]
    BY <1>1, <2>0, <2>1, <2>4, SinceTheStart
  <2>6. ToSet(path) \subseteq ToSet(w)
    <3> SUFFICES ASSUME NEW k \in 1 .. Len(path)
                 PROVE  \E i \in 1 .. Len(w) : path[k] = w[i]
      BY <2>1, <2>5 DEF ToSet
    <3>1. PICK j \in start .. Len(walked) : path[k] = walked[j]
      BY <2>0 DEF PathFits
    <3>2. PICK i : i = j - start + 1
      OBVIOUS
    <3>3. i \in 1 .. Len(w) /\ start + i - 1 = j
      BY <2>0, <2>1, <2>5, <3>1, <3>2
    <3> QED
      BY <2>5, <3>1, <3>3
  <2>7. path # <<>> => path[1] = walked[start]
    BY <2>0, <2>1 DEF PathFits
  <2>8. \A k \in DOMAIN w : \/ w[k] \in ToSet(path)
                            \/ Len(w) >= PathLimit /\ k <= Len(w) - (Recent - 1)
    <3> SUFFICES ASSUME NEW k \in 1 .. Len(w)
                 PROVE  \/ w[k] \in ToSet(path)
                        \/ Len(w) >= PathLimit /\ k <= Len(w) - (Recent - 1)
      BY <2>5
    <3>1. PICK j \in start .. Len(walked) : j = start + k - 1
      BY <2>0, <2>1, <2>5
    <3>2. \/ \E i \in 1 .. Len(path) : path[i] = walked[j]
          \/ Len(walked) - start + 1 >= PathLimit /\ j <= Len(walked) - (Recent - 1)
      BY <2>0 DEF PathFits
    <3>3. CASE \E i \in 1 .. Len(path) : path[i] = walked[j]
      BY <2>1, <2>5, <3>1, <3>3 DEF ToSet
    <3>4. CASE Len(walked) - start + 1 >= PathLimit /\ j <= Len(walked) - (Recent - 1)
      BY <2>0, <2>1, <2>5, <3>1, <3>4, WireAssumption
    <3> QED
      BY <3>2, <3>3, <3>4
  <2>9. \A k \in DOMAIN walked :
          LET p == walked[k].pose m == made[walked[k].of].m
          IN  IF kind = "loam" THEN p.position = m
              ELSE /\ p.position = [a \in 1 .. 3 |-> Length(m.translation[a])]
                   /\ p.orientation = Tail(m.rotation) \o <<m.rotation[1]>>
    <3> TAKE k \in DOMAIN walked
    <3>1. PICK n \in 1 .. Len(made) : walked[k].of = n /\ ShowsPose(walked[k].pose, n)
      BY <1>1, <2>1 DEF WireInv, PathInv, WalkedHolds
    <3> QED
      BY <3>1 DEF ShowsPose, PoseShows
  <2> QED
    BY <2>2, <2>3, <2>4, <2>6, <2>7, <2>8, <2>9 DEF PathShowsPoses
<1> QED
  BY <1>1, WireInvAlways, PTL

LEMMA SuffixByIndex ==
  ASSUME NEW S, NEW s \in Seq(S), NEW t \in Seq(S), Len(s) <= Len(t),
         \A k \in 1 .. Len(s) : s[k] = t[Len(t) - Len(s) + k]
  PROVE  IsSuffix(s, t)
<1>1. Len(s) \in Nat /\ Len(t) \in Nat
  OBVIOUS
<1>2. PICK r, u : r = Reverse(s) /\ u = Reverse(t)
  OBVIOUS
<1>3. /\ r = [k \in 1 .. Len(s) |-> s[(Len(s) - k) + 1]]
      /\ u = [k \in 1 .. Len(t) |-> t[(Len(t) - k) + 1]]
  BY <1>2 DEF Reverse
<1>4. r \in Seq(S) /\ Len(r) = Len(s)
  <2>1. \A k \in 1 .. Len(s) : s[(Len(s) - k) + 1] \in S
    BY <1>1
  <2> QED
    BY <1>1, <1>3, <2>1
<1>5. u \in Seq(S) /\ Len(u) = Len(t)
  <2>1. \A k \in 1 .. Len(t) : t[(Len(t) - k) + 1] \in S
    BY <1>1
  <2> QED
    BY <1>1, <1>3, <2>1
<1>6. \A k \in 1 .. Len(s) : r[k] = u[k]
  <2> TAKE k \in 1 .. Len(s)
  <2>1. (Len(s) - k) + 1 \in 1 .. Len(s) /\ k \in 1 .. Len(t)
    BY <1>1
  <2>2. s[(Len(s) - k) + 1] = t[Len(t) - Len(s) + ((Len(s) - k) + 1)]
    BY <2>1
  <2>3. Len(t) - Len(s) + ((Len(s) - k) + 1) = (Len(t) - k) + 1
    BY <1>1
  <2> QED
    BY <1>3, <2>1, <2>2, <2>3
<1>7. SubSeq(r, 1, Len(r)) = SubSeq(u, 1, Len(r))
  <2>1. PICK a, b : a = SubSeq(r, 1, Len(r)) /\ b = SubSeq(u, 1, Len(r))
    OBVIOUS
  <2>2. /\ a \in Seq(S) /\ Len(a) = Len(s) /\ \A k \in 1 .. Len(s) : a[k] = r[1 + k - 1]
    <3>1. /\ SubSeq(r, 1, Len(r)) \in Seq(S)
          /\ Len(SubSeq(r, 1, Len(r))) = IF 1 <= Len(r) THEN Len(r) - 1 + 1 ELSE 0
          /\ \A k \in 1 .. Len(r) - 1 + 1 : SubSeq(r, 1, Len(r))[k] = r[1 + k - 1]
      BY <1>1, <1>4, SubSeqProperties
    <3> QED
      BY <1>1, <1>4, <2>1, <3>1
  <2>3. /\ b \in Seq(S) /\ Len(b) = Len(s) /\ \A k \in 1 .. Len(s) : b[k] = u[1 + k - 1]
    <3>1. /\ SubSeq(u, 1, Len(r)) \in Seq(S)
          /\ Len(SubSeq(u, 1, Len(r))) = IF 1 <= Len(r) THEN Len(r) - 1 + 1 ELSE 0
          /\ \A k \in 1 .. Len(r) - 1 + 1 : SubSeq(u, 1, Len(r))[k] = u[1 + k - 1]
      BY <1>1, <1>4, <1>5, SubSeqProperties
    <3> QED
      BY <1>1, <1>4, <2>1, <3>1
  <2>4. \A k \in 1 .. Len(s) : a[k] = b[k]
    <3> TAKE k \in 1 .. Len(s)
    <3>1. 1 + k - 1 = k
      BY <1>1
    <3>2. a[k] = r[k] /\ b[k] = u[k]
      BY <2>2, <2>3, <3>1
    <3> QED
      BY <1>6, <3>2
  <2>5. a = b
    BY <2>2, <2>3, <2>4, SeqEqual
  <2> QED
    BY <2>1, <2>5
<1> QED
  BY <1>2, <1>4, <1>5, <1>7 DEF IsSuffix, IsPrefix

\* For any number of poses: a file has every pose from the first one it was
\* there for to the last one handled, and is read back without loss.
THEOREM FilesHoldPosesAlways == WireSpec => []FilesHoldPoses
<1>1. ASSUME WireInv, file # NoFile
      PROVE  IsSuffix([k \in DOMAIN file |-> FromCamera(file[k])],
                      [k \in 1 .. Len(walked) - Len(saves) |-> walked[k].pose])
  <2>1. /\ Len(file) \in Nat /\ DOMAIN file = 1 .. Len(file)
        /\ Len(walked) \in Nat /\ Len(saves) \in Nat
    BY <1>1, LengthOfSequence DEF WireInv, WireTypes
  <2>2. /\ Len(file) <= Len(walked) - Len(saves)
        /\ \A k \in 1 .. Len(file) :
            FromCamera(file[k]) = walked[Len(walked) - Len(saves) - Len(file) + k].pose
    BY <1>1 DEF WireInv, FileInv
  <2>3. PICK n \in Nat : n = Len(walked) - Len(saves) /\ n <= Len(walked)
    BY <2>1, <2>2
  <2>4. \A k \in 1 .. Len(walked) : walked[k].pose \in RosPoses
    BY <1>1 DEF WireInv, PathInv, WalkedHolds, ShowsPose
  <2>5. PICK s, t : /\ s = [k \in 1 .. Len(file) |-> FromCamera(file[k])]
                    /\ t = [k \in 1 .. n |-> walked[k].pose]
    OBVIOUS
  <2>6. t \in Seq(RosPoses) /\ Len(t) = n
    BY <2>1, <2>3, <2>4, <2>5
  <2>7. \A k \in 1 .. Len(file) : s[k] = t[n - Len(file) + k] /\ s[k] \in RosPoses
    <3> TAKE k \in 1 .. Len(file)
    <3>1. n - Len(file) + k \in 1 .. n /\ n - Len(file) + k \in 1 .. Len(walked)
      BY <2>1, <2>2, <2>3
    <3>2. FromCamera(file[k]) = walked[n - Len(file) + k].pose
      BY <2>2, <2>3
    <3> QED
      BY <2>4, <2>5, <3>1, <3>2
  <2>8. s \in Seq(RosPoses) /\ Len(s) = Len(file)
    BY <2>1, <2>5, <2>7
  <2>9. IsSuffix(s, t)
    BY <2>1, <2>2, <2>3, <2>6, <2>7, <2>8, SuffixByIndex
  <2> QED
    BY <2>1, <2>3, <2>5, <2>9
<1>2. WireInv => FilesHoldPoses
  BY <1>1 DEF FilesHoldPoses
<1> QED
  BY <1>2, WireInvAlways, PTL
=============================================================================
