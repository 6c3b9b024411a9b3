--------------------------- MODULE PosePathProofs ---------------------------
(***************************************************************************)
(* Theorems about PosePath, for every depth of the topics, every number of *)
(* inferences at a time and every number of frames.                        *)
(*                                                                         *)
(* The argument: last_processed_frame_id_ is at least the frame of every   *)
(* pose that was ever sent, and a pose is computed for later frames only.  *)
(* What a subscriber is to get is one sequence, the queue with the message *)
(* on its way behind it: a send with REPLACE leaves it as it is or drops   *)
(* its head, and a receive takes its head.                                 *)
(***************************************************************************)
EXTENDS PosePath, SequenceTheorems, TLAPS

LEMMA Tails == ASSUME NEW S, NEW q \in Seq(S), q # <<>>
               PROVE  /\ Head(q) \in S /\ Head(q) = q[1] /\ 1 \in DOMAIN q
                      /\ Tail(q) \in Seq(S) /\ Len(Tail(q)) = Len(q) - 1
                      /\ \A k \in DOMAIN Tail(q) :
                           k \in Nat /\ k + 1 \in DOMAIN q /\ Tail(q)[k] = q[k + 1]
  BY HeadTailProperties, LenProperties, EmptySeq

LEMMA Appends == ASSUME NEW S, NEW q \in Seq(S), NEW m \in S
                 PROVE  /\ Append(q, m) \in Seq(S) /\ Len(Append(q, m)) = Len(q) + 1
                        /\ \A k \in DOMAIN Append(q, m) :
                             k \in Nat /\ IF k \in DOMAIN q THEN Append(q, m)[k] = q[k]
                                          ELSE Append(q, m)[k] = m /\ k = Len(q) + 1
                        /\ \A k \in DOMAIN q : k \in 1 .. Len(q)
  BY AppendProperties, LenProperties

LEMMA PutType == ASSUME NEW S, NEW q \in Seq(S), Len(q) <= Depth, NEW m \in S
                 PROVE  Put(q, m) \in Seq(S) /\ Len(Put(q, m)) <= Depth
<1>1. Depth \in Nat \ {0} /\ Len(q) \in Nat
  BY PosePathAssumption, LenProperties
<1>2. CASE Len(q) < Depth
  BY <1>1, <1>2, Appends DEF Put
<1>3. CASE ~ (Len(q) < Depth)
  <2>1. q # <<>>
    BY <1>1, <1>3, EmptySeq
  <2>2. Tail(q) \in Seq(S) /\ Len(Tail(q)) = Len(q) - 1
    BY <2>1, Tails
  <2>3. Append(Tail(q), m) \in Seq(S) /\ Len(Append(Tail(q), m)) = Len(q)
    BY <1>1, <2>2, Appends
  <2> QED
    BY <1>3, <2>3 DEF Put
<1> QED
  BY <1>2, <1>3

LEMMA NoneIsNone == ASSUME NEW a PROVE (a \in Answers \/ a \in Results) => a # None
  BY PosePathAssumption

-----------------------------------------------------------------------------
(* Type correctness.                                                       *)

LEMMA AnswerTypes == ASSUME TypeOK, NEW s \in Observers, TakeAnswer(s)
                     PROVE  /\ Head(answers[s]) \in Answers
                            /\ answers' \in [Observers -> Seq(Answers)]
                            /\ \A t \in Observers : Len(answers'[t]) <= Depth
                            /\ lastPose' \in [Observers -> 0 .. MaxFrame]
<1>1. /\ answers \in [Observers -> Seq(Answers)] /\ answers[s] # <<>>
      /\ answers' = [answers EXCEPT ![s] = Tail(answers[s])]
      /\ \A t \in Observers : Len(answers[t]) <= Depth /\ Len(answers[t]) \in Nat
  BY LenProperties DEF TypeOK, TakeAnswer
<1>2. /\ Head(answers[s]) \in Answers
      /\ Tail(answers[s]) \in Seq(Answers) /\ Len(Tail(answers[s])) = Len(answers[s]) - 1
  BY <1>1, Tails
<1>3. Depth \in Nat /\ MaxFrame \in Nat
  BY PosePathAssumption
<1>4. \A t \in Observers : answers'[t] = IF t = s THEN Tail(answers[s]) ELSE answers[t]
  BY <1>1
<1>5. Len(Tail(answers[s])) <= Depth
  BY <1>1, <1>2, <1>3
<1>6. Head(answers[s]).frame \in 0 .. MaxFrame
  BY <1>2, <1>3 DEF Answers, Frames
<1> QED
  BY <1>1, <1>2, <1>4, <1>5, <1>6 DEF TypeOK, TakeAnswer

LEMMA ResultTypes == ASSUME TypeOK, NEW s \in Detectors, results[s] # <<>>,
                            results' = [results EXCEPT ![s] = Tail(@)]
                     PROVE  /\ Head(results[s]) \in Results
                            /\ results' \in [Detectors -> Seq(Results)]
                            /\ \A t \in Detectors : Len(results'[t]) <= Depth
<1>1. /\ results \in [Detectors -> Seq(Results)]
      /\ \A t \in Detectors : Len(results[t]) <= Depth /\ Len(results[t]) \in Nat
  BY LenProperties DEF TypeOK
<1>2. /\ Head(results[s]) \in Results
      /\ Tail(results[s]) \in Seq(Results) /\ Len(Tail(results[s])) = Len(results[s]) - 1
  BY <1>1, Tails
<1>3. Len(Tail(results[s])) <= Depth
  BY <1>1, <1>2, PosePathAssumption
<1>4. \A t \in Detectors : results'[t] = IF t = s THEN Tail(results[s]) ELSE results[t]
  BY <1>1
<1> QED
  BY <1>1, <1>2, <1>3, <1>4

THEOREM TypeCorrect == Spec => []TypeOK
<1> USE DEF TypeOK
<1>1. Init => TypeOK
  <2> SUFFICES ASSUME Init PROVE TypeOK
    OBVIOUS
  <2>1. <<>> \in Seq(Results) /\ <<>> \in Seq(Answers) /\ Len(<<>>) = 0
    BY EmptySeq
  <2>2. Depth \in Nat /\ 0 \in 0 .. MaxFrame
    BY PosePathAssumption
  <2>3. /\ results \in [Detectors -> Seq(Results)]
        /\ \A s \in Detectors : Len(results[s]) <= Depth
        /\ answers \in [Observers -> Seq(Answers)]
        /\ \A s \in Observers : Len(answers[s]) <= Depth
    BY <2>1, <2>2 DEF Init
  <2> QED
    BY <2>2, <2>3 DEF Init
<1>2. TypeOK /\ [Next]_vars => TypeOK'
  <2> SUFFICES ASSUME TypeOK, [Next]_vars PROVE TypeOK'
    OBVIOUS
  <2>1. MaxFrame \in Nat /\ Depth \in Nat \ {0} /\ Sights \subseteq SUBSET Fits
    BY PosePathAssumption
  <2>2. CASE Infer
    <3>1. UNCHANGED <<pnpVars, answers, displayVars, lastPose>>
      BY <2>2 DEF Infer, TakeFrame, PublishResult, SendResult
    <3>2. CASE TakeFrame
      BY <2>1, <3>1, <3>2 DEF TakeFrame, Frames, pnpVars, displayVars
    <3>3. CASE \E f \in inFlight, armors \in Sights : PublishResult(f, armors)
      <4>1. PICK f \in inFlight, armors \in Sights : PublishResult(f, armors)
        BY <3>3
      <4>2. result' \in Results
        BY <2>1, <4>1 DEF PublishResult, Results
      <4>3. result' # None
        BY <4>2, NoneIsNone
      <4> QED
        BY <3>1, <4>1, <4>2, <4>3 DEF PublishResult, pnpVars, displayVars
    <3>4. CASE \E s \in Detectors : SendResult(s)
      <4>1. PICK s \in Detectors : SendResult(s)
        BY <3>4
      <4>2. result \in Results
        BY <4>1 DEF SendResult
      <4>3. Put(results[s], result) \in Seq(Results) /\ Len(Put(results[s], result)) <= Depth
        BY <4>2, PutType
      <4>4. /\ results' \in [Detectors -> Seq(Results)]
            /\ \A t \in Detectors : Len(results'[t]) <= Depth
        BY <4>1, <4>3 DEF SendResult
      <4> QED
        BY <3>1, <4>1, <4>4 DEF SendResult, pnpVars, displayVars
    <3> QED
      BY <2>2, <3>2, <3>3, <3>4 DEF Infer
  <2>3. CASE Pnp
    <3>1. UNCHANGED <<inferVars, displayVars, lastPose>>
      BY <2>3 DEF Pnp, AnswerNoCorners, DropStale, Solve, SendAnswer, ReceiveResult
    <3>2. ASSUME ReceiveResult
          PROVE  /\ Received \in Results
                 /\ results' \in [Detectors -> Seq(Results)]
                 /\ \A t \in Detectors : Len(results'[t]) <= Depth
                 /\ answers' = answers
      BY <3>2, ResultTypes DEF ReceiveResult, Received, Detectors
    <3>3. CASE AnswerNoCorners
      <4>1. answer' \in Answers
        BY <3>2, <3>3 DEF AnswerNoCorners, Publish, Results, Answers
      <4>2. answer' # None
        BY <4>1, NoneIsNone
      <4> QED
        BY <3>1, <3>2, <3>3, <4>1, <4>2 DEF AnswerNoCorners, Publish, inferVars, displayVars
    <3>4. CASE DropStale
      BY <3>1, <3>2, <3>4 DEF DropStale, inferVars, displayVars, pnpVars
    <3>5. CASE Solve
      <4>1. answer' \in Answers
        BY <3>2, <3>5 DEF Solve, Publish, Results, Answers
      <4>2. answer' # None
        BY <4>1, NoneIsNone
      <4>3. lastProcessed' \in 0 .. MaxFrame
        BY <2>1, <3>2, <3>5 DEF Solve, Results, Frames
      <4> QED
        BY <3>1, <3>2, <3>5, <4>1, <4>2, <4>3 DEF Solve, Publish, inferVars, displayVars
    <3>6. CASE \E s \in Observers : SendAnswer(s)
      <4>1. PICK s \in Observers : SendAnswer(s)
        BY <3>6
      <4>2. answer \in Answers
        BY <4>1 DEF SendAnswer
      <4>3. Put(answers[s], answer) \in Seq(Answers) /\ Len(Put(answers[s], answer)) <= Depth
        BY <4>2, PutType
      <4>4. /\ answers' \in [Observers -> Seq(Answers)]
            /\ \A t \in Observers : Len(answers'[t]) <= Depth
        BY <4>1, <4>3 DEF SendAnswer
      <4> QED
        BY <3>1, <4>1, <4>4 DEF SendAnswer, inferVars, displayVars
    <3> QED
      BY <2>3, <3>3, <3>4, <3>5, <3>6 DEF Pnp
  <2>4. CASE Track
    BY <2>4, AnswerTypes DEF Track, TakeAnswer, Observers, inferVars, pnpVars, displayVars
  <2>5. CASE Display
    <3>1. UNCHANGED <<inferVars, pnpVars>>
      BY <2>5 DEF Display, ReceiveShown, DrainPnpResult, TakeAnswer, Drained, Draw
    <3>2. CASE ReceiveShown
      <4>1. Head(results["display"]).frame \in 0 .. MaxFrame
        <5>1. /\ "display" \in Detectors /\ results["display"] # <<>>
              /\ results' = [results EXCEPT !["display"] = Tail(@)]
          BY <3>2 DEF ReceiveShown, Detectors
        <5>2. Head(results["display"]) \in Results
          BY <5>1, ResultTypes
        <5> QED
          BY <2>1, <5>2 DEF Results, Frames
      <4> QED
        BY <3>1, <3>2, <4>1, ResultTypes DEF ReceiveShown, Detectors, inferVars, pnpVars
    <3>3. CASE DrainPnpResult
      <4>1. TakeAnswer("display") /\ "display" \in Observers
        BY <3>3 DEF DrainPnpResult, Observers
      <4> QED
        BY <3>1, <3>3, <4>1, AnswerTypes DEF DrainPnpResult, inferVars, pnpVars
    <3>4. CASE Drained
      BY <3>1, <3>4 DEF Drained, inferVars, pnpVars
    <3>5. CASE Draw
      <4>1. Matched # None => Matched.frame \in 0 .. MaxFrame
        BY <2>1 DEF Matched, Answers, Frames
      <4> QED
        BY <3>1, <3>5, <4>1 DEF Draw, inferVars, pnpVars
    <3> QED
      BY <2>5, <3>2, <3>3, <3>4, <3>5 DEF Display
  <2>6. CASE UNCHANGED vars
    BY <2>6 DEF vars, inferVars, pnpVars, displayVars
  <2> QED
    BY <2>2, <2>3, <2>4, <2>5, <2>6 DEF Next
<1> QED
  BY <1>1, <1>2, PTL DEF Spec

-----------------------------------------------------------------------------
(* The order of the poses.                                                 *)

UpTo(q, p) == \A k \in DOMAIN q : HasPose(q[k]) => q[k].frame <= p

OrderInv ==
  \A s \in Observers :
    /\ InOrder(OnItsWay(s), lastPose[s])
    /\ UpTo(OnItsWay(s), lastProcessed)
    /\ lastPose[s] <= lastProcessed

(* What is drawn comes from what was taken.                                *)
DrawnInv ==
  /\ latest # None /\ HasPose(latest) => latest.frame = lastPose["display"]
  /\ lastDrawn <= lastPose["display"]

LEMMA FramesAreNumbers == /\ \A a \in Answers : a.frame \in Int
                          /\ \A r \in Results : r.frame \in Int
  BY DEF Answers, Results, Frames

LEMMA TailInOrder ==
  ASSUME NEW q \in Seq(Answers), q # <<>>, NEW last \in Int, NEW p \in Int,
         InOrder(q, last), UpTo(q, p)
  PROVE  /\ InOrder(Tail(q), last) /\ UpTo(Tail(q), p)
         /\ HasPose(Head(q)) =>
              /\ InOrder(Tail(q), Head(q).frame)
              /\ last < Head(q).frame /\ Head(q).frame <= p
<1>1. /\ Head(q) = q[1] /\ 1 \in DOMAIN q
      /\ \A k \in DOMAIN Tail(q) : k \in Nat /\ k + 1 \in DOMAIN q /\ Tail(q)[k] = q[k + 1]
      /\ \A k \in DOMAIN Tail(q) : 1 < k + 1
  <2>1. DOMAIN Tail(q) = 1 .. Len(Tail(q)) /\ Len(Tail(q)) \in Nat
    BY Tails, LenProperties
  <2> QED
    BY <2>1, Tails
<1>2. \A j, k \in DOMAIN Tail(q) : j < k => j + 1 < k + 1
  BY <1>1
<1> QED
  BY <1>1, <1>2 DEF InOrder, UpTo

LEMMA AppendInOrder ==
  ASSUME NEW q \in Seq(Answers), NEW last \in Int, NEW p \in Int, NEW a \in Answers,
         InOrder(q, last), UpTo(q, p), last <= p, HasPose(a) => p < a.frame
  PROVE  InOrder(Append(q, a), last)
<1>1. /\ \A k \in DOMAIN Append(q, a) :
           k \in Nat /\ IF k \in DOMAIN q THEN Append(q, a)[k] = q[k]
                        ELSE Append(q, a)[k] = a /\ k = Len(q) + 1
      /\ \A k \in DOMAIN q : k \in 1 .. Len(q) /\ q[k] \in Answers
      /\ Len(q) \in Nat
  BY Appends, LenProperties, ElementOfSeq
<1>2. a.frame \in Int /\ \A k \in DOMAIN q : q[k].frame \in Int
  BY <1>1, FramesAreNumbers
<1>3. \A k \in DOMAIN Append(q, a) : HasPose(Append(q, a)[k]) => last < Append(q, a)[k].frame
  BY <1>1, <1>2 DEF InOrder
<1>4. ASSUME NEW j \in DOMAIN Append(q, a), NEW k \in DOMAIN Append(q, a), j < k,
             HasPose(Append(q, a)[j]), HasPose(Append(q, a)[k])
      PROVE  Append(q, a)[j].frame < Append(q, a)[k].frame
  <2>1. j \in DOMAIN q
    BY <1>1, <1>4
  <2>2. CASE k \in DOMAIN q
    BY <1>1, <1>4, <2>1, <2>2 DEF InOrder
  <2>3. CASE k \notin DOMAIN q
    <3>1. Append(q, a)[k] = a /\ Append(q, a)[j] = q[j]
      BY <1>1, <2>1, <2>3
    <3>2. q[j].frame <= p /\ p < a.frame
      BY <1>4, <2>1, <3>1 DEF UpTo
    <3> QED
      BY <1>2, <2>1, <3>1, <3>2
  <2> QED
    BY <2>2, <2>3
<1> QED
  BY <1>3, <1>4 DEF InOrder

LEMMA AppendUpTo ==
  ASSUME NEW q \in Seq(Answers), NEW p \in Int, NEW r \in Int, NEW a \in Answers,
         UpTo(q, p), p <= r, HasPose(a) => a.frame <= r
  PROVE  UpTo(Append(q, a), r)
<1>1. /\ \A k \in DOMAIN Append(q, a) :
           IF k \in DOMAIN q THEN Append(q, a)[k] = q[k] ELSE Append(q, a)[k] = a
      /\ \A k \in DOMAIN q : q[k] \in Answers
  BY Appends, ElementOfSeq
<1>2. \A k \in DOMAIN q : q[k].frame \in Int
  BY <1>1, FramesAreNumbers
<1> QED
  BY <1>1, <1>2 DEF UpTo

(* How a send and a receive change what is on its way.                     *)
LEMMA PutKeepsOrTails ==
  ASSUME NEW S, NEW q \in Seq(S), NEW m \in S
  PROVE  \/ Put(q, m) = Append(q, m)
         \/ Append(q, m) # <<>> /\ Put(q, m) = Tail(Append(q, m)) /\ Put(q, m) # <<>>
<1>1. Depth \in Nat \ {0} /\ Len(q) \in Nat
  BY PosePathAssumption, LenProperties
<1>2. CASE Len(q) < Depth
  BY <1>2 DEF Put
<1>3. CASE ~ (Len(q) < Depth)
  <2>1. q # <<>>
    BY <1>1, <1>3, EmptySeq
  <2>2. /\ Append(Tail(q), m) = Tail(Append(q, m)) /\ Append(q, m) # <<>>
        /\ Append(Tail(q), m) # <<>>
    BY <1>1, <2>1
  <2> QED
    BY <1>3, <2>2 DEF Put
<1> QED
  BY <1>2, <1>3

LEMMA WayType == ASSUME TypeOK, NEW s \in Observers
                 PROVE  /\ OnItsWay(s) \in Seq(Answers)
                        /\ lastPose[s] \in Int /\ lastProcessed \in Int
<1>1. s \in answerFor => answer \in Answers
  BY DEF TypeOK
<1>2. lastPose[s] \in Int /\ lastProcessed \in Int
  BY PosePathAssumption DEF TypeOK
<1> QED
  BY <1>1, <1>2, Appends DEF TypeOK, OnItsWay

LEMMA TakeTails ==
  ASSUME TypeOK, NEW t \in Observers, TakeAnswer(t)
  PROVE  /\ OnItsWay(t) # <<>> /\ Head(OnItsWay(t)) = Head(answers[t])
         /\ OnItsWay(t)' = Tail(OnItsWay(t))
         /\ \A s \in Observers : s # t => OnItsWay(s)' = OnItsWay(s)
<1> DEFINE q == OnItsWay(t)
<1>1. /\ answers[t] \in Seq(Answers) /\ answers[t] # <<>>
      /\ t \in answerFor => answer \in Answers
      /\ \A s \in Observers : answers'[s] = IF s = t THEN Tail(answers[t]) ELSE answers[s]
      /\ answerFor' = answerFor /\ answer' = answer
  BY DEF TypeOK, TakeAnswer, pnpVars
<1>2. CASE t \in answerFor
  <2>1. answer \in Answers /\ q = Append(answers[t], answer)
    BY <1>1, <1>2 DEF OnItsWay
  <2>2. OnItsWay(t)' = Append(Tail(answers[t]), answer)
    BY <1>1, <1>2 DEF OnItsWay
  <2>3. Append(answers[t], answer) # <<>>
    BY <1>1, <2>1
  <2>4. Tail(Append(answers[t], answer)) = Append(Tail(answers[t]), answer)
    BY <1>1, <2>1
  <2>5. Head(Append(answers[t], answer)) = Head(answers[t])
    BY <1>1, <2>1, <2>3, Tails, Appends
  <2> QED
    BY <1>1, <2>1, <2>2, <2>3, <2>4, <2>5 DEF OnItsWay
<1>3. CASE t \notin answerFor
  BY <1>1, <1>3 DEF OnItsWay
<1> QED
  BY <1>2, <1>3

LEMMA TakeKeepsOrder ==
  ASSUME TypeOK, OrderInv, NEW t \in Observers, TakeAnswer(t)
  PROVE  /\ OrderInv'
         /\ lastPose[t] <= lastPose'[t]
         /\ \A s \in Observers : s # t => lastPose'[s] = lastPose[s]
         /\ HasPose(Head(answers[t])) => lastPose'[t] = Head(answers[t]).frame
<1> DEFINE q == OnItsWay(t)
<1>1. /\ \A s \in Observers : lastPose'[s] = IF s = t /\ HasPose(Head(answers[t]))
                                            THEN Head(answers[t]).frame ELSE lastPose[s]
      /\ lastProcessed' = lastProcessed
  BY DEF TypeOK, TakeAnswer, pnpVars
<1>2. q # <<>> /\ Head(q) = Head(answers[t]) /\ OnItsWay(t)' = Tail(q)
  BY TakeTails
<1>3. q \in Seq(Answers) /\ lastPose[t] \in Int /\ lastProcessed \in Int
  BY WayType
<1>4. InOrder(q, lastPose[t]) /\ UpTo(q, lastProcessed) /\ lastPose[t] <= lastProcessed
  BY DEF OrderInv
<1>5. Head(q).frame \in Int
  BY <1>2, <1>3, Tails, FramesAreNumbers
<1>6. /\ InOrder(Tail(q), lastPose[t]) /\ UpTo(Tail(q), lastProcessed)
      /\ HasPose(Head(q)) => /\ InOrder(Tail(q), Head(q).frame)
                             /\ lastPose[t] < Head(q).frame /\ Head(q).frame <= lastProcessed
  <2> HIDE DEF q
  <2> QED
    BY <1>2, <1>3, <1>4, TailInOrder
<1>7. \A s \in Observers : s # t => OnItsWay(s)' = OnItsWay(s)
  BY TakeTails
<1>8. /\ InOrder(OnItsWay(t)', lastPose'[t]) /\ UpTo(OnItsWay(t)', lastProcessed')
      /\ lastPose'[t] <= lastProcessed' /\ lastPose[t] <= lastPose'[t]
  <2> HIDE DEF q
  <2> QED
    BY <1>1, <1>2, <1>3, <1>4, <1>5, <1>6
<1>9. ASSUME NEW s \in Observers, s # t
      PROVE  /\ InOrder(OnItsWay(s)', lastPose'[s]) /\ UpTo(OnItsWay(s)', lastProcessed')
             /\ lastPose'[s] <= lastProcessed'
  BY <1>1, <1>7, <1>9 DEF OrderInv
<1>10. \A s \in Observers : /\ InOrder(OnItsWay(s)', lastPose'[s])
                            /\ UpTo(OnItsWay(s)', lastProcessed')
                            /\ lastPose'[s] <= lastProcessed'
  BY <1>8, <1>9
<1>11. OrderInv'
  BY <1>10 DEF OrderInv, InOrder, UpTo, HasPose
<1> QED
  BY <1>1, <1>8, <1>11

LEMMA OrderStep == ASSUME TypeOK, OrderInv, Pnp PROVE OrderInv'
<1>1. UNCHANGED lastPose
  BY DEF Pnp, AnswerNoCorners, DropStale, Solve, SendAnswer, ReceiveResult
<1>2. lastProcessed \in Int /\ answers \in [Observers -> Seq(Answers)]
  BY PosePathAssumption DEF TypeOK
(* A new answer is for every subscriber, behind what it has not taken.     *)
<1>3. ASSUME answerFor = {}, answers' = answers, answerFor' = Observers,
             answer' \in Answers, lastProcessed' \in Int, lastProcessed <= lastProcessed',
             HasPose(answer') => lastProcessed < answer'.frame /\ answer'.frame <= lastProcessed'
      PROVE  OrderInv'
  <2> SUFFICES ASSUME NEW s \in Observers
               PROVE  /\ InOrder(OnItsWay(s)', lastPose'[s])
                      /\ UpTo(OnItsWay(s)', lastProcessed')
                      /\ lastPose'[s] <= lastProcessed'
    BY DEF OrderInv, InOrder, UpTo, HasPose
  <2>1. /\ answers[s] \in Seq(Answers) /\ lastPose[s] \in Int
        /\ OnItsWay(s) = answers[s]
        /\ OnItsWay(s)' = Append(answers[s], answer')
    BY <1>2, <1>3, WayType DEF OnItsWay
  <2>2. InOrder(answers[s], lastPose[s]) /\ UpTo(answers[s], lastProcessed)
        /\ lastPose[s] <= lastProcessed
    BY <2>1 DEF OrderInv
  <2>3. InOrder(Append(answers[s], answer'), lastPose[s])
    BY <1>2, <1>3, <2>1, <2>2, AppendInOrder
  <2>4. UpTo(Append(answers[s], answer'), lastProcessed')
    BY <1>2, <1>3, <2>1, <2>2, AppendUpTo
  <2> QED
    BY <1>1, <1>2, <1>3, <2>1, <2>2, <2>3, <2>4
<1>4. ASSUME ReceiveResult
      PROVE  answerFor = {} /\ answers' = answers /\ Received \in Results
  <2>1. "pnp" \in Detectors
    BY DEF Detectors
  <2> QED
    BY <1>4, <2>1, ResultTypes DEF ReceiveResult, Received
<1>5. CASE AnswerNoCorners
  <2>1. answer' \in Answers /\ ~ HasPose(answer')
    BY <1>4, <1>5 DEF AnswerNoCorners, Publish, Results, Answers, HasPose
  <2> QED
    BY <1>2, <1>3, <1>4, <1>5, <2>1 DEF AnswerNoCorners, Publish
<1>6. CASE DropStale
  BY <1>1, <1>4, <1>6 DEF DropStale, pnpVars, OrderInv, OnItsWay
<1>7. CASE Solve
  <2>1. answer' \in Answers /\ answer'.frame = lastProcessed' /\ lastProcessed' \in Int
    BY <1>4, <1>7, FramesAreNumbers DEF Solve, Publish, Results, Answers
  <2>2. lastProcessed < lastProcessed'
    BY <1>2, <1>4, <1>7, <2>1 DEF Solve, Stale
  <2> QED
    BY <1>2, <1>3, <1>4, <1>7, <2>1, <2>2 DEF Solve, Publish
<1>8. CASE \E s \in Observers : SendAnswer(s)
  <2>1. PICK t \in Observers : SendAnswer(t)
    BY <1>8
  <2>2. /\ t \in answerFor /\ answer \in Answers /\ answers[t] \in Seq(Answers)
        /\ lastProcessed' = lastProcessed /\ answer' = answer
        /\ answerFor' = answerFor \ {t}
        /\ \A s \in Observers : answers'[s] = IF s = t THEN Put(answers[t], answer) ELSE answers[s]
    BY <2>1 DEF SendAnswer, TypeOK
  <2>3. OnItsWay(t) = Append(answers[t], answer) /\ OnItsWay(t)' = Put(answers[t], answer)
    BY <2>2 DEF OnItsWay
  <2>4. \A s \in Observers : s # t => OnItsWay(s)' = OnItsWay(s)
    BY <2>2 DEF OnItsWay
  <2>5. /\ InOrder(OnItsWay(t), lastPose[t]) /\ UpTo(OnItsWay(t), lastProcessed)
        /\ OnItsWay(t) \in Seq(Answers) /\ lastPose[t] \in Int
    BY WayType DEF OrderInv
  <2>6. \/ OnItsWay(t)' = OnItsWay(t)
        \/ OnItsWay(t) # <<>> /\ OnItsWay(t)' = Tail(OnItsWay(t))
    BY <2>2, <2>3, PutKeepsOrTails
  <2>7. InOrder(OnItsWay(t)', lastPose[t]) /\ UpTo(OnItsWay(t)', lastProcessed)
    BY <1>2, <2>5, <2>6, TailInOrder
  <2>8. \A s \in Observers : /\ InOrder(OnItsWay(s)', lastPose'[s])
                            /\ UpTo(OnItsWay(s)', lastProcessed')
                            /\ lastPose'[s] <= lastProcessed'
    BY <1>1, <2>2, <2>4, <2>7 DEF OrderInv
  <2> QED
    BY <2>8 DEF OrderInv, InOrder, UpTo, HasPose
<1> QED
  BY <1>5, <1>6, <1>7, <1>8 DEF Pnp

PoseInv == TypeOK /\ OrderInv /\ DrawnInv

LEMMA PoseInvariant == Spec => []PoseInv /\ [][lastDrawn' >= lastDrawn]_vars
<1> USE DEF PoseInv
<1>1. Init => OrderInv /\ DrawnInv
  <2> SUFFICES ASSUME Init PROVE OrderInv /\ DrawnInv
    OBVIOUS
  <2>1. \A s \in Observers : OnItsWay(s) = <<>> /\ lastPose[s] = 0 /\ lastProcessed = 0
    BY DEF Init, OnItsWay
  <2>2. OrderInv
    BY <2>1 DEF OrderInv, InOrder, UpTo
  <2>3. DrawnInv
    BY DEF Init, DrawnInv, Observers
  <2> QED
    BY <2>2, <2>3
<1>2. PoseInv /\ [Next]_vars => OrderInv'
  <2> SUFFICES ASSUME PoseInv, [Next]_vars PROVE OrderInv'
    OBVIOUS
  <2>1. ASSUME UNCHANGED <<pnpVars, answers, lastPose>> PROVE OrderInv'
    BY <2>1 DEF pnpVars, OrderInv, OnItsWay
  <2>2. CASE Infer
    BY <2>1, <2>2 DEF Infer, TakeFrame, PublishResult, SendResult
  <2>3. CASE Track
    BY <2>3, TakeKeepsOrder DEF Track, Observers
  <2>4. CASE Display
    <3>1. CASE DrainPnpResult
      BY <3>1, TakeKeepsOrder DEF DrainPnpResult, Observers
    <3> QED
      BY <2>1, <2>4, <3>1 DEF Display, ReceiveShown, Drained, Draw
  <2>5. CASE UNCHANGED vars
    BY <2>1, <2>5 DEF vars
  <2> QED
    BY <2>2, <2>3, <2>4, <2>5, OrderStep DEF Next
<1>3. PoseInv /\ [Next]_vars => DrawnInv' /\ [lastDrawn' >= lastDrawn]_vars
  <2> SUFFICES ASSUME PoseInv, [Next]_vars
               PROVE  DrawnInv' /\ lastDrawn' >= lastDrawn
    OBVIOUS
  <2>1. /\ lastDrawn \in Int /\ "display" \in Observers /\ "tracker" \in Observers
        /\ lastPose["display"] \in Int
    BY PosePathAssumption DEF TypeOK, Observers
  <2>2. ASSUME UNCHANGED <<latest, lastDrawn>>, lastPose'["display"] = lastPose["display"]
        PROVE  DrawnInv' /\ lastDrawn' >= lastDrawn
    BY <2>1, <2>2 DEF DrawnInv, HasPose
  <2>3. CASE Infer
    BY <2>2, <2>3 DEF Infer, TakeFrame, PublishResult, SendResult, displayVars
  <2>4. CASE Pnp
    BY <2>2, <2>4
    DEF Pnp, AnswerNoCorners, DropStale, Solve, SendAnswer, ReceiveResult, displayVars
  <2>5. CASE Track
    <3>1. lastPose'["display"] = lastPose["display"]
      BY <2>1, <2>5, TakeKeepsOrder DEF Track
    <3> QED
      BY <2>2, <2>5, <3>1 DEF Track, displayVars
  <2>6. CASE ReceiveShown \/ Drained
    BY <2>2, <2>6 DEF ReceiveShown, Drained
  <2>7. CASE DrainPnpResult
    <3>1. /\ lastPose["display"] <= lastPose'["display"]
          /\ HasPose(latest') => lastPose'["display"] = latest'.frame
          /\ lastDrawn' = lastDrawn
      BY <2>1, <2>7, TakeKeepsOrder DEF DrainPnpResult
    <3>2. lastPose'["display"] \in Int
      BY <2>1, <2>7, AnswerTypes, PosePathAssumption DEF DrainPnpResult
    <3> QED
      BY <2>1, <3>1, <3>2 DEF DrawnInv, HasPose
  <2>8. CASE Draw
    <3>1. Matched # None => latest # None /\ Matched = latest /\ Matched.frame <= shown
      BY DEF Matched
    <3>2. /\ UNCHANGED <<latest, lastPose>>
          /\ lastDrawn' = IF Matched # None /\ HasPose(Matched) THEN Matched.frame ELSE lastDrawn
      BY <2>8 DEF Draw
    <3> QED
      BY <2>1, <3>1, <3>2 DEF DrawnInv, HasPose
  <2>9. CASE UNCHANGED vars
    BY <2>2, <2>9 DEF vars, displayVars
  <2> QED
    BY <2>3, <2>4, <2>5, <2>6, <2>7, <2>8, <2>9 DEF Next, Display
<1> QED
  BY <1>1, <1>2, <1>3, TypeCorrect, PTL DEF Spec

\* The poses each subscriber takes are of later and later frames.
THEOREM PosesStayInOrder == Spec => []PosesInOrder
<1>1. PoseInv => PosesInOrder
  BY DEF PoseInv, OrderInv, PosesInOrder
<1> QED
  BY <1>1, PoseInvariant, PTL

\* The drawn pose never jumps back.
THEOREM DrawnPosesKeepAdvancing == Spec => DrawnPosesAdvance
<1> QED
  BY PoseInvariant, PTL DEF DrawnPosesAdvance

-----------------------------------------------------------------------------
(* The last result.  Sends and receives only take from the front of what   *)
(* is on its way, so the last result, and then its answer, stays at the    *)
(* end until it is taken.  It is not mistaken for stale, since no other    *)
(* result is of its frame.                                                 *)
Newest(q) == q[Len(q)]

(* Every result is of a frame of its own, which is not inferred any more.  *)
FramesApart ==
  /\ \A f \in inFlight : f <= taken
  /\ lastProcessed <= taken /\ lastProcessed \notin inFlight
  /\ \A k \in DOMAIN ToPnp : /\ ToPnp[k].frame <= taken
                             /\ ToPnp[k].frame \notin inFlight
                             /\ ToPnp[k].frame # lastProcessed
  /\ \A j, k \in DOMAIN ToPnp : j < k => ToPnp[j].frame # ToPnp[k].frame

\* The subscriber has the pose of frame f, or it is the last it is to get.
AnswerSafe(s, f) ==
  \/ lastPose[s] = f
  \/ OnItsWay(s) # <<>> /\ HasPose(Newest(OnItsWay(s))) /\ Newest(OnItsWay(s)).frame = f

LastSafe ==
  result # None =>
    /\ ToPnp # <<>> => Newest(ToPnp) = result
    /\ ToPnp = <<>> /\ Solvable(result) /\ lastProcessed <= result.frame =>
         \A s \in Observers : AnswerSafe(s, result.frame)

LEMMA Ends == ASSUME NEW S, NEW q \in Seq(S), q # <<>>
              PROVE  /\ Len(q) \in DOMAIN q
                     /\ Tail(q) # <<>> => Newest(Tail(q)) = Newest(q)
                     /\ Tail(q) = <<>> => Head(q) = Newest(q)
<1>1. Len(q) \in Nat /\ Len(q) # 0 /\ DOMAIN q = 1 .. Len(q)
  BY LenProperties, EmptySeq
<1>2. Tail(q) \in Seq(S) /\ Len(Tail(q)) = Len(q) - 1 /\ Head(q) = q[1]
  BY Tails
<1>3. ASSUME Tail(q) = <<>> PROVE Len(q) = 1
  <2>1. Tail(q) \in Seq(S) /\ Len(Tail(q)) = Len(q) - 1
    BY <1>2
  <2>2. \A p \in Seq(S) : p = <<>> => Len(p) = 0
    BY EmptySeq
  <2>3. Len(Tail(q)) = 0
    BY <1>3, <2>1, <2>2, Zenon
  <2>4. \A n \in Nat : n - 1 = 0 => n = 1
    OBVIOUS
  <2> QED
    BY <1>1, <2>1, <2>3, <2>4, Zenon
<1>4. ASSUME Tail(q) # <<>> PROVE Newest(Tail(q)) = Newest(q)
  <2>1. Len(Tail(q)) # 0
    BY <1>2, <1>4, EmptySeq
  <2>2. Len(Tail(q)) \in DOMAIN Tail(q) /\ Len(Tail(q)) + 1 = Len(q)
    BY <1>1, <1>2, <2>1, LenProperties
  <2>3. Tail(q)[Len(Tail(q))] = q[Len(Tail(q)) + 1]
    BY <2>2, Tails
  <2> QED
    BY <2>2, <2>3 DEF Newest
<1> QED
  BY <1>1, <1>2, <1>3, <1>4 DEF Newest

LEMMA AppendEnds == ASSUME NEW S, NEW q \in Seq(S), NEW m \in S
                    PROVE  Append(q, m) # <<>> /\ Newest(Append(q, m)) = m
<1>1. /\ Len(Append(q, m)) = Len(q) + 1 /\ Len(q) \in Nat
      /\ Append(q, m) \in Seq(S)
  BY Appends, LenProperties
<1>2. Append(q, m) # <<>> /\ Len(q) + 1 \in DOMAIN Append(q, m)
  BY <1>1, EmptySeq, LenProperties
<1>3. Len(q) + 1 \notin DOMAIN q
  BY <1>1, LenProperties
<1> QED
  BY <1>1, <1>2, <1>3, Appends DEF Newest

(* How the way to the PnP node changes.                                    *)
LEMMA ToPnpType == ASSUME TypeOK
                   PROVE  /\ ToPnp \in Seq(Results)
                          /\ \A k \in DOMAIN ToPnp : ToPnp[k].frame \in Int
                          /\ lastProcessed \in Int /\ taken \in Int
                          /\ \A f \in inFlight : f \in Int
                          /\ result # None => result \in Results /\ result.frame \in Int
<1>1. results["pnp"] \in Seq(Results) /\ ("pnp" \in resultFor => result \in Results)
  BY DEF TypeOK, Detectors
<1>2. ToPnp \in Seq(Results)
  BY <1>1, Appends DEF ToPnp
<1>3. \A k \in DOMAIN ToPnp : ToPnp[k] \in Results
  BY <1>2, ElementOfSeq, LenProperties
<1>4. \A k \in DOMAIN ToPnp : ToPnp[k].frame \in Int
  BY <1>3, FramesAreNumbers
<1>5. result # None => result \in Results /\ result.frame \in Int
  BY FramesAreNumbers DEF TypeOK
<1> QED
  BY <1>2, <1>4, <1>5, PosePathAssumption DEF TypeOK, Frames

LEMMA ReceiveTails == ASSUME TypeOK, ReceiveResult
                      PROVE  /\ ToPnp # <<>> /\ Received = Head(ToPnp)
                             /\ ToPnp' = Tail(ToPnp)
<1> DEFINE q == results["pnp"]
<1>1. /\ q \in Seq(Results) /\ q # <<>>
      /\ "pnp" \in resultFor => result \in Results
      /\ results'["pnp"] = Tail(q)
      /\ resultFor' = resultFor /\ result' = result
  BY DEF TypeOK, ReceiveResult, inferVars, Detectors
<1>2. CASE "pnp" \in resultFor
  <2>1. result \in Results /\ ToPnp = Append(q, result) /\ ToPnp' = Append(Tail(q), result)
    BY <1>1, <1>2 DEF ToPnp
  <2>2. Append(q, result) # <<>> /\ Tail(Append(q, result)) = Append(Tail(q), result)
    BY <1>1, <2>1
  <2>3. Head(Append(q, result)) = Head(q)
    BY <1>1, <2>1, <2>2, Tails, Appends
  <2> QED
    BY <2>1, <2>2, <2>3 DEF Received
<1>3. CASE "pnp" \notin resultFor
  BY <1>1, <1>3 DEF ToPnp, Received
<1> QED
  BY <1>2, <1>3

(* What holds when the way to the PnP node stays or loses its head.        *)
LEMMA ShorterApart ==
  ASSUME TypeOK, FramesApart, ToPnp # <<>>, ToPnp' = Tail(ToPnp),
         UNCHANGED <<taken, inFlight>>,
         lastProcessed' = lastProcessed \/ lastProcessed' = Head(ToPnp).frame
  PROVE  FramesApart'
<1> DEFINE q == ToPnp
<1>1. /\ Head(q) = q[1] /\ 1 \in DOMAIN q
      /\ \A k \in DOMAIN Tail(q) : k \in Nat /\ k + 1 \in DOMAIN q /\ Tail(q)[k] = q[k + 1]
      /\ \A k \in DOMAIN Tail(q) : 1 < k + 1
  <2>1. DOMAIN Tail(q) = 1 .. Len(Tail(q)) /\ Len(Tail(q)) \in Nat
    BY ToPnpType, Tails, LenProperties
  <2> QED
    BY <2>1, ToPnpType, Tails
<1>2. \A j, k \in DOMAIN Tail(q) : j < k => j + 1 < k + 1
  BY <1>1
<1>3. \A k \in DOMAIN Tail(q) : q[k + 1].frame # q[1].frame
  BY <1>1 DEF FramesApart
<1>4. /\ \A k \in DOMAIN ToPnp' : /\ ToPnp'[k].frame <= taken
                                 /\ ToPnp'[k].frame \notin inFlight
                                 /\ ToPnp'[k].frame # lastProcessed'
      /\ \A j, k \in DOMAIN ToPnp' : j < k => ToPnp'[j].frame # ToPnp'[k].frame
  BY <1>1, <1>2, <1>3 DEF FramesApart
<1>5. lastProcessed' <= taken /\ lastProcessed' \notin inFlight
  BY <1>1 DEF FramesApart
<1> QED
  BY <1>4, <1>5 DEF FramesApart

LEMMA SendToPnp == ASSUME TypeOK, SendResult("pnp")
                   PROVE  /\ ToPnp # <<>> /\ ToPnp' # <<>>
                          /\ ToPnp' = ToPnp \/ ToPnp' = Tail(ToPnp)
<1>1. /\ "pnp" \in resultFor /\ "pnp" \in Detectors
      /\ result \in Results /\ results["pnp"] \in Seq(Results)
      /\ results'["pnp"] = Put(results["pnp"], result) /\ "pnp" \notin resultFor'
  BY DEF SendResult, TypeOK, Detectors
<1>2. ToPnp = Append(results["pnp"], result) /\ ToPnp' = Put(results["pnp"], result)
  BY <1>1 DEF ToPnp
<1>3. Append(results["pnp"], result) # <<>>
  BY <1>1, AppendEnds
<1> QED
  BY <1>1, <1>2, <1>3, PutKeepsOrTails

(* The same for an observer.                                               *)
LEMMA SendKeepsSafe ==
  ASSUME TypeOK, NEW t \in Observers, SendAnswer(t), NEW s \in Observers, NEW f,
         AnswerSafe(s, f)
  PROVE  AnswerSafe(s, f)'
<1>1. /\ t \in answerFor /\ answer \in Answers /\ answers[t] \in Seq(Answers)
      /\ answer' = answer /\ answerFor' = answerFor \ {t} /\ lastPose' = lastPose
      /\ \A u \in Observers : answers'[u] = IF u = t THEN Put(answers[t], answer) ELSE answers[u]
  BY DEF SendAnswer, TypeOK
<1>2. CASE s # t
  <2>1. OnItsWay(s)' = OnItsWay(s)
    BY <1>1, <1>2 DEF OnItsWay
  <2> QED
    BY <1>1, <2>1 DEF AnswerSafe, HasPose
<1>3. CASE s = t
  <2>1. OnItsWay(t) = Append(answers[t], answer) /\ OnItsWay(t)' = Put(answers[t], answer)
    BY <1>1 DEF OnItsWay
  <2>2. /\ OnItsWay(t) \in Seq(Answers)
        /\ OnItsWay(t)' = OnItsWay(t) \/ OnItsWay(t)' = Tail(OnItsWay(t))
        /\ OnItsWay(t) # <<>> /\ OnItsWay(t)' # <<>>
    BY <1>1, <2>1, PutKeepsOrTails, WayType, AppendEnds
  <2>3. Newest(OnItsWay(t)') = Newest(OnItsWay(t))
    BY <2>2, Ends
  <2> QED
    BY <1>1, <1>3, <2>2, <2>3 DEF AnswerSafe, HasPose, Newest
<1> QED
  BY <1>2, <1>3

LEMMA TakeKeepsSafe ==
  ASSUME TypeOK, OrderInv, NEW t \in Observers, TakeAnswer(t), NEW s \in Observers,
         NEW f \in Int, lastProcessed <= f, AnswerSafe(s, f)
  PROVE  AnswerSafe(s, f)'
<1>1. /\ OnItsWay(t) # <<>> /\ Head(OnItsWay(t)) = Head(answers[t])
      /\ OnItsWay(t)' = Tail(OnItsWay(t)) /\ OnItsWay(t) \in Seq(Answers)
      /\ lastPose'[t] = IF HasPose(Head(answers[t])) THEN Head(answers[t]).frame ELSE lastPose[t]
      /\ lastPose[t] \in Int /\ lastProcessed \in Int
  BY TakeTails, WayType DEF TakeAnswer, TypeOK
<1>2. CASE s # t
  <2>1. OnItsWay(s)' = OnItsWay(s) /\ lastPose'[s] = lastPose[s]
    BY <1>2, TakeTails, TakeKeepsOrder
  <2> QED
    BY <2>1 DEF AnswerSafe, HasPose
<1>3. CASE s = t /\ lastPose[t] = f
  <2>1. InOrder(OnItsWay(t), lastPose[t]) /\ UpTo(OnItsWay(t), lastProcessed)
    BY DEF OrderInv
  <2>2. Head(OnItsWay(t)).frame \in Int
    BY <1>1, Tails, FramesAreNumbers
  <2>3. HasPose(Head(OnItsWay(t))) =>
          f < Head(OnItsWay(t)).frame /\ Head(OnItsWay(t)).frame <= lastProcessed
    BY <1>1, <1>3, <2>1, Tails DEF InOrder, UpTo
  <2>4. ~ HasPose(Head(answers[t]))
    BY <1>1, <2>2, <2>3
  <2> QED
    BY <1>1, <1>3, <2>4 DEF AnswerSafe, HasPose
<1>4. CASE s = t /\ HasPose(Newest(OnItsWay(t))) /\ Newest(OnItsWay(t)).frame = f
  <2>1. CASE Tail(OnItsWay(t)) = <<>>
    <3>1. Head(answers[t]) = Newest(OnItsWay(t))
      BY <1>1, <2>1, Ends
    <3>2. lastPose'[t] = f
      BY <1>1, <1>4, <3>1
    <3> QED
      BY <1>4, <3>2 DEF AnswerSafe
  <2>2. CASE Tail(OnItsWay(t)) # <<>>
    <3>1. Newest(OnItsWay(t)') = Newest(OnItsWay(t)) /\ OnItsWay(t)' # <<>>
      BY <1>1, <2>2, Ends
    <3> QED
      BY <1>4, <3>1 DEF AnswerSafe, HasPose, Newest
  <2> QED
    BY <2>1, <2>2
<1> QED
  BY <1>2, <1>3, <1>4 DEF AnswerSafe

LastInv == PoseInv /\ FramesApart /\ LastSafe

LEMMA LastResultPublished ==
  ASSUME LastInv, NEW f \in inFlight, NEW armors \in Sights, PublishResult(f, armors)
  PROVE  FramesApart' /\ LastSafe'
<1>1. /\ TypeOK /\ FramesApart
      /\ results["pnp"] \in Seq(Results) /\ ToPnp = results["pnp"]
      /\ result' \in Results /\ result'.frame = f /\ f \in Int
      /\ inFlight' = inFlight \ {f} /\ taken' = taken /\ lastProcessed' = lastProcessed
      /\ ToPnp' = Append(results["pnp"], result')
  <2>1. /\ armors \in SUBSET Fits /\ f \in Frames
        /\ resultFor = {} /\ resultFor' = Detectors /\ results' = results
        /\ lastProcessed' = lastProcessed
    BY PosePathAssumption DEF LastInv, PoseInv, TypeOK, PublishResult, pnpVars
  <2> QED
    BY <2>1, ToPnpType DEF LastInv, PoseInv, TypeOK, PublishResult, Results, Detectors, ToPnp
<1>2. \A k \in DOMAIN ToPnp' :
        k \in Nat /\ IF k \in DOMAIN ToPnp THEN ToPnp'[k] = ToPnp[k]
                     ELSE ToPnp'[k] = result' /\ k = Len(ToPnp) + 1
  BY <1>1, Appends
<1>3. \A k \in DOMAIN ToPnp : ToPnp[k].frame # f /\ k \in 1 .. Len(ToPnp)
  BY <1>1, LenProperties DEF FramesApart
<1>4. f # lastProcessed /\ f <= taken
  BY <1>1 DEF FramesApart
<1>5. \A k \in DOMAIN ToPnp' : /\ ToPnp'[k].frame <= taken
                              /\ ToPnp'[k].frame \notin inFlight \ {f}
                              /\ ToPnp'[k].frame # lastProcessed
  BY <1>1, <1>2, <1>4 DEF FramesApart
<1>6. ASSUME NEW j \in DOMAIN ToPnp', NEW k \in DOMAIN ToPnp', j < k
      PROVE  ToPnp'[j].frame # ToPnp'[k].frame
  <2>1. Len(ToPnp) \in Nat
    BY <1>1, LenProperties
  <2>2. j \in DOMAIN ToPnp
    BY <1>1, <1>2, <1>6, <2>1, Appends, LenProperties
  <2>3. CASE k \in DOMAIN ToPnp
    BY <1>1, <1>2, <1>6, <2>2, <2>3 DEF FramesApart
  <2>4. CASE k \notin DOMAIN ToPnp
    BY <1>1, <1>2, <1>3, <2>2, <2>4
  <2> QED
    BY <2>3, <2>4
<1>7. FramesApart'
  BY <1>1, <1>5, <1>6 DEF FramesApart
<1>8. ToPnp' # <<>> /\ Newest(ToPnp') = result'
  BY <1>1, AppendEnds
<1> QED
  BY <1>7, <1>8 DEF LastSafe, Newest

(* A result received is the PnP node's to answer: when none is left it was *)
(* the last one.                                                           *)
LEMMA LastResultReceived ==
  ASSUME LastInv, AnswerNoCorners \/ DropStale \/ Solve
  PROVE  FramesApart' /\ LastSafe'
<1>1. /\ TypeOK /\ FramesApart /\ LastSafe /\ ReceiveResult
      /\ UNCHANGED <<taken, inFlight, result>>
  BY DEF LastInv, PoseInv, AnswerNoCorners, DropStale, Solve, ReceiveResult, inferVars
<1>2. /\ ToPnp # <<>> /\ Received = Head(ToPnp) /\ ToPnp' = Tail(ToPnp)
      /\ ToPnp \in Seq(Results)
  BY <1>1, ReceiveTails, ToPnpType
<1>3. lastProcessed' = lastProcessed \/ lastProcessed' = Head(ToPnp).frame
  BY <1>2 DEF AnswerNoCorners, DropStale, Solve, pnpVars
<1>4. FramesApart'
  BY <1>1, <1>2, <1>3, ShorterApart
<1>5. ASSUME result # None, Tail(ToPnp) # <<>> PROVE Newest(ToPnp') = result'
  <2>1. Newest(Tail(ToPnp)) = result
    BY <1>1, <1>2, <1>5, Ends DEF LastSafe
  <2> QED
    BY <1>1, <1>2, <2>1
<1>6. ASSUME result # None, Tail(ToPnp) = <<>>, Solvable(result), NEW s \in Observers,
             lastProcessed' <= result.frame
      PROVE  AnswerSafe(s, result.frame)'
  <2>1. Received = result
    BY <1>1, <1>2, <1>6, Ends DEF LastSafe
  <2>2. result.frame \in Int /\ lastProcessed \in Int /\ result.frame # lastProcessed
    BY <1>1, <1>2, <1>6, <2>1, ToPnpType, Tails DEF FramesApart
  <2>3. Solve
    BY <1>6, <2>1, <2>2 DEF AnswerNoCorners, DropStale, Stale, Solvable, pnpVars
  <2>4. /\ answer' = [frame |-> result.frame, poses |-> result.armors \ {"unsolved"}]
        /\ answerFor' = Observers /\ answers' = answers
    BY <2>1, <2>3 DEF Solve, Publish, ReceiveResult
  <2>5. answers[s] \in Seq(Answers) /\ answer' \in Answers
    <3>1. result \in Results
      BY <1>1, <1>6, ToPnpType
    <3> QED
      BY <1>1, <2>4, <3>1 DEF TypeOK, Results, Answers
  <2>6. OnItsWay(s)' = Append(answers[s], answer')
    BY <2>4 DEF OnItsWay
  <2>7. OnItsWay(s)' # <<>> /\ Newest(OnItsWay(s)') = answer'
    BY <2>5, <2>6, AppendEnds
  <2>8. HasPose(answer') /\ answer'.frame = result.frame
    BY <1>6, <2>4 DEF HasPose, Solvable
  <2>9. HasPose(Newest(OnItsWay(s)')) /\ Newest(OnItsWay(s)').frame = result'.frame
    BY <1>1, <2>7, <2>8
  <2> QED
    BY <1>1, <2>7, <2>9 DEF AnswerSafe, HasPose, Newest
<1>7. LastSafe'
  BY <1>1, <1>2, <1>5, <1>6 DEF LastSafe, Solvable, AnswerSafe, Newest, HasPose
<1> QED
  BY <1>4, <1>7

LEMMA LastInvariant == Spec => []LastInv
<1>1. Init => FramesApart /\ LastSafe
  <2> SUFFICES ASSUME Init PROVE FramesApart /\ LastSafe
    OBVIOUS
  <2>1. ToPnp = <<>> /\ taken = 0 /\ lastProcessed = 0 /\ inFlight = {} /\ result = None
    BY DEF Init, ToPnp, Detectors
  <2> QED
    BY <2>1 DEF FramesApart, LastSafe
<1>2. LastInv /\ [Next]_vars => FramesApart' /\ LastSafe'
  <2> SUFFICES ASSUME LastInv, [Next]_vars PROVE FramesApart' /\ LastSafe'
    OBVIOUS
  <2>1. TypeOK /\ OrderInv /\ FramesApart /\ LastSafe
    BY DEF LastInv, PoseInv
  <2>2. ASSUME ToPnp' = ToPnp, UNCHANGED <<taken, inFlight, result, lastProcessed>>,
               \A s \in Observers : \A f \in Int :
                 lastProcessed <= f /\ AnswerSafe(s, f) => AnswerSafe(s, f)'
        PROVE  FramesApart' /\ LastSafe'
    <3>1. FramesApart'
      BY <2>1, <2>2 DEF FramesApart
    <3>2. result # None => result.frame \in Int
      BY <2>1, ToPnpType
    <3>3. result # None /\ ToPnp = <<>> /\ Solvable(result) /\ lastProcessed <= result.frame =>
            \A s \in Observers : AnswerSafe(s, result.frame)'
      BY <2>1, <2>2, <3>2 DEF LastSafe
    <3>4. LastSafe'
      BY <2>1, <2>2, <3>3 DEF LastSafe, Solvable, AnswerSafe, Newest, HasPose
    <3> QED
      BY <3>1, <3>4
  <2>3. ASSUME UNCHANGED <<answer, answerFor, answers, lastPose>>
        PROVE  \A s \in Observers : \A f \in Int : AnswerSafe(s, f) => AnswerSafe(s, f)'
    BY <2>3 DEF AnswerSafe, OnItsWay, HasPose, Newest
  <2>4. CASE TakeFrame
    <3>1. /\ ToPnp' = ToPnp /\ UNCHANGED <<result, lastProcessed>>
          /\ UNCHANGED <<answer, answerFor, answers, lastPose>>
          /\ taken' = taken + 1 /\ inFlight' = inFlight \cup {taken + 1}
      BY <2>4 DEF TakeFrame, ToPnp, pnpVars
    <3>2. FramesApart'
      BY <2>1, <3>1, ToPnpType DEF FramesApart
    <3>3. LastSafe'
      BY <2>1, <2>3, <3>1, ToPnpType DEF LastSafe, Solvable, AnswerSafe, Newest, HasPose, OnItsWay
    <3> QED
      BY <3>2, <3>3
  <2>5. CASE \E f \in inFlight, armors \in Sights : PublishResult(f, armors)
    BY <2>5, LastResultPublished
  <2>6. CASE \E s \in Detectors : SendResult(s)
    <3>1. PICK s \in Detectors : SendResult(s)
      BY <2>6
    <3>2. /\ UNCHANGED <<taken, inFlight, result, lastProcessed>>
          /\ UNCHANGED <<answer, answerFor, answers, lastPose>>
      BY <3>1 DEF SendResult, pnpVars
    <3>3. CASE s = "pnp"
      <4>1. /\ ToPnp # <<>> /\ ToPnp' # <<>>
            /\ ToPnp' = ToPnp \/ ToPnp' = Tail(ToPnp)
            /\ ToPnp \in Seq(Results)
        BY <2>1, <3>1, <3>3, SendToPnp, ToPnpType
      <4>2. CASE ToPnp' = ToPnp
        BY <2>2, <2>3, <3>2, <4>2
      <4>3. CASE ToPnp' = Tail(ToPnp)
        <5>1. FramesApart'
          BY <2>1, <3>2, <4>1, <4>3, ShorterApart
        <5>2. result # None => Newest(ToPnp') = result'
          BY <2>1, <3>2, <4>1, <4>3, Ends DEF LastSafe
        <5> QED
          BY <3>2, <4>1, <5>1, <5>2 DEF LastSafe, Newest
      <4> QED
        BY <4>1, <4>2, <4>3
    <3>4. CASE s # "pnp"
      <4>1. ToPnp' = ToPnp
        BY <2>1, <3>1, <3>4 DEF SendResult, ToPnp, TypeOK, Detectors
      <4> QED
        BY <2>2, <2>3, <3>2, <4>1
    <3> QED
      BY <3>3, <3>4
  <2>7. CASE AnswerNoCorners \/ DropStale \/ Solve
    BY <2>7, LastResultReceived
  <2>8. CASE \E s \in Observers : SendAnswer(s)
    <3>1. PICK t \in Observers : SendAnswer(t)
      BY <2>8
    <3>2. ToPnp' = ToPnp /\ UNCHANGED <<taken, inFlight, result, lastProcessed>>
      BY <3>1 DEF SendAnswer, ToPnp, inferVars
    <3>3. \A s \in Observers : \A f \in Int : AnswerSafe(s, f) => AnswerSafe(s, f)'
      BY <2>1, <3>1, SendKeepsSafe
    <3> QED
      BY <2>2, <3>2, <3>3
  <2>9. CASE Track \/ DrainPnpResult
    <3>1. PICK t \in Observers : TakeAnswer(t)
      BY <2>9 DEF Track, DrainPnpResult, Observers
    <3>2. ToPnp' = ToPnp /\ UNCHANGED <<taken, inFlight, result, lastProcessed>>
      BY <2>9, <3>1 DEF Track, DrainPnpResult, TakeAnswer, ToPnp, inferVars, pnpVars
    <3>3. \A s \in Observers : \A f \in Int :
            lastProcessed <= f /\ AnswerSafe(s, f) => AnswerSafe(s, f)'
      BY <2>1, <3>1, TakeKeepsSafe
    <3> QED
      BY <2>2, <3>2, <3>3
  <2>10. CASE ReceiveShown
    <3>1. /\ UNCHANGED <<taken, inFlight, result, lastProcessed, resultFor>>
          /\ UNCHANGED <<answer, answerFor, answers, lastPose>>
          /\ results'["pnp"] = results["pnp"]
      BY <2>1, <2>10 DEF ReceiveShown, inferVars, pnpVars, TypeOK, Detectors
    <3>2. ToPnp' = ToPnp
      BY <3>1 DEF ToPnp
    <3> QED
      BY <2>2, <2>3, <3>1, <3>2
  <2>11. CASE Drained \/ Draw \/ UNCHANGED vars
    <3>1. /\ UNCHANGED <<taken, inFlight, result, lastProcessed>>
          /\ UNCHANGED <<answer, answerFor, answers, lastPose>> /\ ToPnp' = ToPnp
      BY <2>11 DEF Drained, Draw, vars, inferVars, pnpVars, ToPnp
    <3> QED
      BY <2>2, <2>3, <3>1
  <2> QED
    BY <2>4, <2>5, <2>6, <2>7, <2>8, <2>9, <2>10, <2>11 DEF Next, Infer, Pnp, Display
<1>3. Spec => []PoseInv
  BY PoseInvariant, PTL
<1> QED
  BY <1>1, <1>2, <1>3, PTL DEF Spec, LastInv

\* The last result is never lost to topics that keep one message.
THEOREM LastResultStays == Spec => []LastResultNotLost
<1>1. LastInv => LastResultNotLost
  <2> SUFFICES ASSUME LastInv, result # None, Solvable(result), lastProcessed <= result.frame
               PROVE  \/ \E k \in DOMAIN ToPnp : ToPnp[k] = result
                      \/ \A s \in Observers :
                           \/ lastPose[s] = result.frame
                           \/ \E k \in DOMAIN OnItsWay(s) : /\ HasPose(OnItsWay(s)[k])
                                                            /\ OnItsWay(s)[k].frame = result.frame
    BY ToPnpType DEF LastResultNotLost, LastInv, PoseInv
  <2>1. TypeOK /\ LastSafe /\ ToPnp \in Seq(Results)
    BY ToPnpType DEF LastInv, PoseInv
  <2>2. CASE ToPnp # <<>>
    <3>1. Len(ToPnp) \in DOMAIN ToPnp /\ ToPnp[Len(ToPnp)] = result
      BY <2>1, <2>2, Ends DEF LastSafe, Newest
    <3> QED
      BY <3>1
  <2>3. CASE ToPnp = <<>>
    <3> SUFFICES ASSUME NEW s \in Observers
                 PROVE  \/ lastPose[s] = result.frame
                        \/ \E k \in DOMAIN OnItsWay(s) : /\ HasPose(OnItsWay(s)[k])
                                                         /\ OnItsWay(s)[k].frame = result.frame
      OBVIOUS
    <3>1. AnswerSafe(s, result.frame) /\ OnItsWay(s) \in Seq(Answers)
      BY <2>1, <2>3, WayType DEF LastSafe
    <3>2. OnItsWay(s) # <<>> => Len(OnItsWay(s)) \in DOMAIN OnItsWay(s)
      BY <3>1, Ends
    <3> QED
      BY <3>1, <3>2 DEF AnswerSafe, Newest
  <2> QED
    BY <2>2, <2>3
<1> QED
  BY <1>1, LastInvariant, PTL
=============================================================================
