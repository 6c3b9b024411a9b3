-------------------------- MODULE AsyncInferProofs --------------------------
(***************************************************************************)
(* Proofs about module AsyncInfer, for every number of requests and frames,*)
(* every filter setting and every order in which OpenVINO works.           *)
(*                                                                         *)
(* The argument: a frame the node has taken is in one place at a time, the *)
(* hand, a slot, the results or the published results (NodeInv), and the   *)
(* frame on offer is younger than all of them.  So publishing a result     *)
(* answers a frame that was not answered before.                           *)
(***************************************************************************)
EXTENDS AsyncInfer, FiniteSetTheorems, SequenceTheorems, TLAPS

Distinct(s) == \A m, n \in DOMAIN s : s[m] = s[n] => m = n

Answered == {published[n].id : n \in DOMAIN published}

(* Frames taken, wherever they are, are older than the one on offer.       *)
OfferIsYoungest ==
  /\ topic \in {0, sent}
  /\ \A i \in Taken \cup Answered : i <= sent /\ i # topic

(* A frame is in one place.                                                *)
OnePlace ==
  /\ in # 0 => in \notin Elements(results) \cup Answered
  /\ \A k \in Slots : ~ Idle(k) => /\ work[k] # in
                                   /\ work[k] \notin Elements(results) \cup Answered
                                   /\ \A j \in Slots : work[j] = work[k] => j = k
  /\ Elements(results) \cap Answered = {}
  /\ Distinct(results)

(* What the node has at each place in its loop.                            *)
LoopState ==
  /\ in # 0 <=> pc = "submit"
  /\ pc \in {"loop", "consume", "choose", "submit"} => results = <<>>
  /\ pc = "drain" => \A k \in Slots : k < at => Idle(k)
  /\ pc \in {"tail", "done"} => \A k \in Slots : Idle(k)
  /\ pc = "done" => results = <<>>

(* What the filter remembers is what was published last.                   *)
FilterState ==
  filter.initialized =>
    /\ EmaEnable
    /\ published # <<>>
    /\ published[Len(published)].corners
    /\ published[Len(published)].id = filter.last

NodeInv ==
  /\ TypeOK /\ OfferIsYoungest /\ OnePlace /\ LoopState
  /\ FreeSlotsRest /\ AnsweredOnce

-----------------------------------------------------------------------------
(* Elements of a sequence.                                                 *)

LEMMA ElementsEmpty == Elements(<<>>) = {}
BY DEF Elements

LEMMA ElementsAppend ==
  ASSUME NEW S, NEW s \in Seq(S), NEW x \in S
  PROVE  /\ Elements(Append(s, x)) = Elements(s) \cup {x}
         /\ Distinct(s) /\ x \notin Elements(s) => Distinct(Append(s, x))
<1> DEFINE t == Append(s, x)
<1>1. /\ DOMAIN s = 1 .. Len(s) /\ Len(s) \in Nat
      /\ DOMAIN t = 1 .. Len(s) + 1
      /\ \A n \in 1 .. Len(s) : t[n] = s[n]
      /\ t[Len(s) + 1] = x
  BY AppendProperties, LenProperties
<1> HIDE DEF t
<1>2. DOMAIN t = DOMAIN s \cup {Len(s) + 1}
  BY <1>1
<1>3. Elements(t) = Elements(s) \cup {x}
  BY <1>1, <1>2 DEF Elements
<1>4. Distinct(s) /\ x \notin Elements(s) => Distinct(t)
  BY <1>1, <1>2 DEF Distinct, Elements
<1> QED BY <1>3, <1>4 DEF t

LEMMA ElementsTail ==
  ASSUME NEW S, NEW s \in Seq(S), s # <<>>
  PROVE  /\ Elements(s) = {Head(s)} \cup Elements(Tail(s))
         /\ Distinct(s) => Distinct(Tail(s)) /\ Head(s) \notin Elements(Tail(s))
         /\ Head(s) \in S /\ Tail(s) \in Seq(S)
<1> DEFINE t == Tail(s)
           h == Head(s)
<1>1. /\ DOMAIN s = 1 .. Len(s) /\ Len(s) \in Nat \ {0}
      /\ DOMAIN t = 1 .. Len(s) - 1
      /\ \A n \in 1 .. Len(s) - 1 : t[n] = s[n + 1]
      /\ h = s[1] /\ h \in S /\ t \in Seq(S)
  BY HeadTailProperties, LenProperties, EmptySeq
<1> HIDE DEF t, h
<1>2. \A n \in DOMAIN s : n = 1 \/ (n - 1 \in DOMAIN t /\ t[n - 1] = s[n])
  BY <1>1
<1>3. \A n \in DOMAIN t : n + 1 \in DOMAIN s /\ n + 1 # 1 /\ t[n] = s[n + 1]
  BY <1>1
<1>4. 1 \in DOMAIN s
  BY <1>1
<1>5. Elements(s) = {h} \cup Elements(t)
  BY <1>1, <1>2, <1>3, <1>4 DEF Elements
<1>6. ASSUME Distinct(s) PROVE Distinct(t) /\ h \notin Elements(t)
  <2>1. ASSUME NEW m \in DOMAIN t, NEW n \in DOMAIN t, t[m] = t[n] PROVE m = n
    <3>1. m + 1 = n + 1
      BY <1>3, <1>6, <2>1 DEF Distinct
    <3> QED BY <1>1, <3>1
  <2>2. ASSUME NEW n \in DOMAIN t, t[n] = h PROVE FALSE
    <3>1. n + 1 = 1
      BY <1>1, <1>3, <1>4, <1>6, <2>2 DEF Distinct
    <3> QED BY <1>3, <3>1
  <2> QED BY <2>1, <2>2 DEF Distinct, Elements
<1> QED BY <1>1, <1>5, <1>6 DEF t, h

(* Publishing adds one answer.                                             *)
LEMMA PublishedAppend ==
  ASSUME TypeOK, NEW r \in [id : Frames, corners : BOOLEAN, blended : BOOLEAN],
         published' = Append(published, r)
  PROVE  /\ Len(published') = Len(published) + 1 /\ Len(published) \in Nat
         /\ DOMAIN published = 1 .. Len(published)
         /\ DOMAIN published' = 1 .. Len(published) + 1
         /\ \A n \in 1 .. Len(published) : published'[n] = published[n]
         /\ published'[Len(published) + 1] = r
         /\ Answered' = Answered \cup {r.id}
         /\ AnsweredOnce /\ r.id \notin Answered => AnsweredOnce'
<1> DEFINE R == [id : Frames, corners : BOOLEAN, blended : BOOLEAN]
<1>0. published \in Seq(R)
  BY DEF TypeOK
<1> HIDE DEF R
<1>1. /\ Len(published') = Len(published) + 1 /\ Len(published) \in Nat
      /\ DOMAIN published = 1 .. Len(published)
      /\ DOMAIN published' = 1 .. Len(published) + 1
      /\ \A n \in 1 .. Len(published) : published'[n] = published[n]
      /\ published'[Len(published) + 1] = r
  BY <1>0, AppendProperties, LenProperties DEF R
<1>2. DOMAIN published' = DOMAIN published \cup {Len(published) + 1}
  BY <1>1
<1>3. Answered' = Answered \cup {r.id}
  BY <1>1, <1>2 DEF Answered
<1>4. AnsweredOnce /\ r.id \notin Answered => AnsweredOnce'
  BY <1>1, <1>2 DEF AnsweredOnce, Answered
<1> QED BY <1>1, <1>3, <1>4

-----------------------------------------------------------------------------
(* Each step keeps the types, the node's place in its loop, and free slots *)
(* at rest.                                                                *)

LEMMA EnvironmentType ==
  ASSUME TypeOK, SendFrame \/ RequestStop \/ OpenVINO
  PROVE  TypeOK'
<1> USE DEF TypeOK, nodeVars
<1>1. CASE SendFrame
  BY <1>1, AsyncInferAssumption DEF SendFrame
<1>2. CASE RequestStop
  BY <1>2 DEF RequestStop
<1>3. ASSUME NEW k \in Slots, ShowRun(k) PROVE TypeOK'
  BY <1>3 DEF ShowRun
<1>4. ASSUME NEW k \in Slots, NEW failed \in BOOLEAN, EndRun(k, failed) PROVE TypeOK'
  BY <1>4 DEF EndRun
<1>5. ASSUME NEW k \in Slots, NEW failed \in BOOLEAN, notifyRequestCompleted(k, failed)
      PROVE  TypeOK'
  BY <1>5 DEF notifyRequestCompleted
<1> QED BY <1>1, <1>2, <1>3, <1>4, <1>5 DEF OpenVINO

LEMMA NodeType ==
  ASSUME TypeOK, Node
  PROVE  TypeOK'
<1> USE AsyncInferAssumption DEF TypeOK
<1>0. UNCHANGED <<stop, sent, calls>>
  BY DEF Node
<1>1. CASE StartRound
  BY <1>0, <1>1 DEF StartRound
<1>2. CASE consumeCallbackException
  BY <1>0, <1>2 DEF consumeCallbackException
<1>3. CASE PassSlot
  BY <1>0, <1>3 DEF PassSlot, Slots
<1>4. CASE finishSlot
  <2>1. work[at] \in Frames
    BY <1>4 DEF finishSlot, Idle, Frames
  <2>2. results' \in Seq(Frames)
    BY <1>4, <2>1 DEF finishSlot
  <2> QED BY <1>0, <1>4, <2>2 DEF finishSlot, Slots
<1>5. CASE FinishFails
  BY <1>0, <1>5 DEF FinishFails
<1>6. CASE RequestThrows
  BY <1>0, <1>6 DEF RequestThrows
<1>7. CASE AllCollected
  BY <1>0, <1>7 DEF AllCollected
<1>8. ASSUME NEW corners \in BOOLEAN, Publish(corners) PROVE TypeOK'
  <2> DEFINE id == Head(results)
             R == [id : Frames, corners : BOOLEAN, blended : BOOLEAN]
             blended == (EmaEnable /\ corners) /\ ~ StartsOver(id)
             r == [id |-> id, corners |-> corners, blended |-> blended]
  <2>1. id \in Frames /\ results' \in Seq(Frames)
    BY <1>8, ElementsTail DEF Publish
  <2>2. published' = Append(published, r)
    BY <1>8 DEF Publish
  <2>3. blended \in BOOLEAN
    OBVIOUS
  <2>4. r \in R
    BY <2>1, <2>3
  <2>5. published' \in Seq(R)
    BY <2>2, <2>4
  <2>6. filter' \in [initialized : BOOLEAN, last : 0 .. MaxFrames]
    BY <1>8, <2>1 DEF Publish, NoFilter, Frames
  <2> QED BY <1>0, <1>8, <2>1, <2>5, <2>6 DEF Publish
<1>9. CASE AllPublished
  BY <1>0, <1>9 DEF AllPublished
<1>10. CASE waitForCompletionSignal
  BY <1>0, <1>10 DEF waitForCompletionSignal
<1>11. CASE Receive
  BY <1>0, <1>11 DEF Receive
<1>12. CASE ReceiveTimesOut
  BY <1>0, <1>12 DEF ReceiveTimesOut
<1>13. ASSUME NEW k \in Slots, submit(k) PROVE TypeOK'
  BY <1>0, <1>13 DEF submit
<1> QED BY <1>1, <1>2, <1>3, <1>4, <1>5, <1>6, <1>7, <1>8, <1>9, <1>10, <1>11,
           <1>12, <1>13 DEF Node

LEMMA NodeLoop ==
  ASSUME TypeOK, LoopState, Node
  PROVE  LoopState'
<1> USE DEF LoopState, TypeOK, Idle
<1>1. CASE StartRound
  BY <1>1 DEF StartRound, Slots
<1>2. CASE consumeCallbackException
  BY <1>2 DEF consumeCallbackException
<1>3. CASE PassSlot
  BY <1>3 DEF PassSlot, Slots
<1>4. CASE finishSlot
  BY <1>4 DEF finishSlot, Slots
<1>5. CASE FinishFails
  BY <1>5 DEF FinishFails
<1>6. CASE RequestThrows
  BY <1>6 DEF RequestThrows
<1>7. CASE AllCollected
  <2>1. \A k \in Slots : k < at
    BY <1>7, AsyncInferAssumption DEF AllCollected, Slots
  <2>2. /\ pc' = IF pc = "collect" THEN "publish" ELSE "tail"
        /\ pc \in {"collect", "drain"}
        /\ in' = in /\ work' = work /\ results' = results
    BY <1>7 DEF AllCollected
  <2> QED BY <2>1, <2>2
<1>8. ASSUME NEW corners \in BOOLEAN, Publish(corners) PROVE LoopState'
  BY <1>8 DEF Publish
<1>9. CASE AllPublished
  BY <1>9 DEF AllPublished
<1>10. CASE waitForCompletionSignal
  BY <1>10 DEF waitForCompletionSignal
<1>11. CASE Receive
  BY <1>11 DEF Receive
<1>12. CASE ReceiveTimesOut
  BY <1>12 DEF ReceiveTimesOut
<1>13. ASSUME NEW k \in Slots, submit(k) PROVE LoopState'
  BY <1>13 DEF submit
<1> QED BY <1>1, <1>2, <1>3, <1>4, <1>5, <1>6, <1>7, <1>8, <1>9, <1>10, <1>11,
           <1>12, <1>13 DEF Node

LEMMA StepRest ==
  ASSUME TypeOK, LoopState, FreeSlotsRest, Next
  PROVE  FreeSlotsRest'
<1> USE DEF FreeSlotsRest, TypeOK, Idle
<1>1. CASE SendFrame \/ RequestStop
  BY <1>1 DEF SendFrame, RequestStop, nodeVars
<1>2. ASSUME NEW k \in Slots, ShowRun(k) PROVE FreeSlotsRest'
  BY <1>2 DEF ShowRun, nodeVars
<1>3. ASSUME NEW k \in Slots, NEW failed \in BOOLEAN, EndRun(k, failed)
      PROVE  FreeSlotsRest'
  BY <1>3 DEF EndRun, nodeVars
<1>4. ASSUME NEW k \in Slots, NEW failed \in BOOLEAN, notifyRequestCompleted(k, failed)
      PROVE  FreeSlotsRest'
  BY <1>4 DEF notifyRequestCompleted, nodeVars
<1>5. CASE Node
  <2>1. CASE finishSlot \/ FinishFails
    BY <2>1 DEF finishSlot, FinishFails
  <2>2. ASSUME NEW k \in Slots, submit(k) PROVE FreeSlotsRest'
    BY <2>2 DEF submit, LoopState
  <2>3. CASE work' = work /\ request' = request
    BY <2>3
  <2> QED BY <1>5, <2>1, <2>2, <2>3 DEF Node, StartRound, consumeCallbackException,
             PassSlot, RequestThrows, AllCollected, Publish, AllPublished,
             waitForCompletionSignal, Receive, ReceiveTimesOut
<1> QED BY <1>1, <1>2, <1>3, <1>4, <1>5 DEF Next, OpenVINO

-----------------------------------------------------------------------------
(* Where the frames are, and what the service sees of a step.              *)

Places == OfferIsYoungest /\ OnePlace /\ AnsweredOnce

Answers == [n \in DOMAIN published |-> published[n].id]

Outcome == IF pc \in {"done", "failed"} THEN pc ELSE "running"

LEMMA TakenMeans ==
  /\ \A i : i \in Taken <=>
       i # 0 /\ (i = in \/ i \in Elements(results) \/ \E k \in Slots : work[k] = i)
  /\ \A i : i \in Taken' <=>
       i # 0 /\ (i = in' \/ i \in Elements(results') \/ \E k \in Slots : work'[k] = i)
BY Zenon DEF Taken, Elements

LEMMA ElementsType ==
  ASSUME TypeOK
  PROVE  Elements(results) \subseteq Frames
<1>1. results \in Seq(Frames)
  BY DEF TypeOK
<1>2. \A n \in DOMAIN results : results[n] \in Frames
  BY <1>1
<1> QED BY <1>2 DEF Elements

LEMMA FrameNumbers ==
  ASSUME TypeOK
  PROVE  Taken \subseteq Frames /\ Answered \subseteq Frames
<1>1. Taken \subseteq Frames
  BY ElementsType, TakenMeans DEF TypeOK, Frames
<1>2. Answered \subseteq Frames
  <2> DEFINE R == [id : Frames, corners : BOOLEAN, blended : BOOLEAN]
  <2>1. \A r \in R : r.id \in Frames
    OBVIOUS
  <2>2. published \in Seq(R)
    BY DEF TypeOK
  <2> HIDE DEF R
  <2>3. \A n \in DOMAIN published : published[n] \in R
    BY <2>2
  <2> QED BY <2>1, <2>3 DEF Answered
<1> QED BY <1>1, <1>2

(* A step that moves no frame.                                             *)
LEMMA Unmoved ==
  ASSUME UNCHANGED <<sent, topic, in, work, results, published>>
  PROVE  /\ Places => Places'
         /\ Taken' = Taken /\ Answers' = Answers
<1>1. Elements(results)' = Elements(results) /\ Answered' = Answered
  BY DEF Elements, Answered
<1>2. Taken' = Taken
  BY <1>1, TakenMeans
<1> QED BY <1>1, <1>2 DEF Places, OfferIsYoungest, OnePlace, AnsweredOnce, Answers,
           Distinct, Idle

(* Such a step is a stutter of the service, its orderly stop with nothing  *)
(* left, or giving up.                                                     *)
LEMMA UnmovedImplements ==
  ASSUME TypeOK, LoopState,
         UNCHANGED <<sent, topic, in, work, results, published>>,
         Outcome = "running" \/ pc' = pc,
         pc' = "done" => pc = "done" \/ \A k \in Slots : Idle(k),
         pc' = "done" => pc = "done" \/ (results = <<>> /\ in = 0)
  PROVE  [Service!Next]_(Service!vars)
<1>1. Taken' = Taken /\ Answers' = Answers
  BY Unmoved
<1>2. CASE Outcome' = Outcome
  BY <1>1, <1>2 DEF Service!vars, Answers, Outcome
<1>3. CASE Outcome = "running" /\ Outcome' = "failed"
  BY <1>1, <1>3 DEF Service!Next, Service!GiveUp, Answers, Outcome
<1>4. CASE Outcome = "running" /\ Outcome' = "done"
  <2>1. pc' = "done" /\ pc # "done"
    BY <1>4 DEF Outcome
  <2>2. Elements(results) = {}
    BY <2>1, ElementsEmpty
  <2>3. Taken = {}
    BY <2>1, <2>2, TakenMeans DEF Idle
  <2> QED BY <1>1, <1>4, <2>3 DEF Service!Next, Service!Stop, Answers, Outcome
<1> QED BY <1>2, <1>3, <1>4 DEF Outcome

LEMMA SendImplements ==
  ASSUME TypeOK, Places, SendFrame
  PROVE  Places' /\ Service!Offer
<1>1. /\ sent < MaxFrames /\ sent' = sent + 1 /\ topic' = sent + 1
      /\ UNCHANGED <<pc, in, work, results, published>>
      /\ sent \in Nat
  BY AsyncInferAssumption DEF SendFrame, nodeVars, TypeOK
<1>2. /\ Elements(results)' = Elements(results) /\ Answered' = Answered
      /\ Answers' = Answers
  BY <1>1 DEF Elements, Answered, Answers
<1>3. Taken' = Taken
  BY <1>1, <1>2, TakenMeans
<1>4. \A i \in Taken \cup Answered : i \in Nat
  BY FrameNumbers DEF Frames
<1>5. Places'
  BY <1>1, <1>2, <1>3, <1>4
  DEF Places, OfferIsYoungest, OnePlace, AnsweredOnce, Distinct, Idle
<1>6. Service!Offer
  BY <1>1, <1>2, <1>3 DEF Service!Offer, Answers
<1> QED BY <1>5, <1>6

LEMMA FinishImplements ==
  ASSUME TypeOK, Places, finishSlot, UNCHANGED sent
  PROVE  Places' /\ UNCHANGED Service!vars
<1> DEFINE id == work[at]
<1>1. /\ pc' = pc /\ in' = in /\ topic' = topic /\ published' = published
      /\ at \in Slots /\ id # 0 /\ id \in Frames
      /\ work \in [Slots -> 0 .. MaxFrames] /\ work' = [work EXCEPT ![at] = 0]
      /\ results \in Seq(Frames) /\ results' = Append(results, id)
  BY DEF finishSlot, TypeOK, Idle, Frames
<1>2. /\ id # in /\ id \notin Elements(results) \cup Answered
      /\ \A j \in Slots : work[j] = id => j = at
  BY <1>1 DEF Places, OnePlace, Idle
<1>3. /\ Elements(results') = Elements(results) \cup {id}
      /\ Distinct(results')
  BY <1>1, <1>2, ElementsAppend DEF Places, OnePlace
<1>4. Answered' = Answered /\ Answers' = Answers
  BY <1>1 DEF Answered, Answers
<1>5. \A k \in Slots : work'[k] = IF k = at THEN 0 ELSE work[k]
  BY <1>1
<1> HIDE DEF id
<1>6. Taken' = Taken
  <2>1. \A i : i \in Taken' <=> i \in Taken
    BY <1>1, <1>3, <1>5, TakenMeans DEF id
  <2> QED BY <2>1, Zenon
<1>7. OnePlace'
  <2>1. in # 0 => in \notin Elements(results') \cup Answered
    BY <1>2, <1>3 DEF Places, OnePlace
  <2>2. ASSUME NEW k \in Slots, work'[k] # 0
        PROVE  /\ work'[k] # in
               /\ work'[k] \notin Elements(results') \cup Answered
               /\ \A j \in Slots : work'[j] = work'[k] => j = k
    <3>1. k # at /\ work'[k] = work[k] /\ ~ Idle(k)
      BY <1>5, <2>2 DEF Idle
    <3>2. work[k] # id
      BY <1>2, <3>1
    <3> QED BY <1>3, <1>5, <2>2, <3>1, <3>2 DEF Places, OnePlace
  <2>3. Elements(results') \cap Answered = {}
    BY <1>2, <1>3 DEF Places, OnePlace
  <2> QED BY <1>1, <1>3, <1>4, <2>1, <2>2, <2>3 DEF OnePlace, Idle, Elements, Distinct
<1>8. Places'
  BY <1>1, <1>4, <1>6, <1>7 DEF Places, OfferIsYoungest, AnsweredOnce
<1> QED BY <1>1, <1>4, <1>6, <1>8 DEF Service!vars, Answers

LEMMA FailImplements ==
  ASSUME TypeOK, Places, FinishFails, UNCHANGED sent
  PROVE  Places' /\ Service!GiveUp
<1>1. /\ pc' = "failed" /\ pc \notin {"done", "failed"}
      /\ UNCHANGED <<in, topic, published, results>>
      /\ at \in Slots
      /\ work \in [Slots -> 0 .. MaxFrames] /\ work' = [work EXCEPT ![at] = 0]
  BY DEF FinishFails, TypeOK
<1>2. \A k \in Slots : work'[k] = IF k = at THEN 0 ELSE work[k]
  BY <1>1
<1>3. /\ Elements(results)' = Elements(results) /\ Answered' = Answered
      /\ Answers' = Answers
  BY <1>1 DEF Elements, Answered, Answers
<1>4. Taken' \subseteq Taken
  <2>1. \A i : i \in Taken' => i \in Taken
    BY <1>1, <1>2, <1>3, TakenMeans
  <2> QED BY <2>1
<1>5. Places'
  BY <1>1, <1>2, <1>3, <1>4
  DEF Places, OfferIsYoungest, OnePlace, AnsweredOnce, Distinct, Idle
<1>6. Service!GiveUp
  BY <1>1, <1>3, <1>4 DEF Service!GiveUp, Answers
<1> QED BY <1>5, <1>6

LEMMA PublishImplements ==
  ASSUME TypeOK, Places, NEW corners \in BOOLEAN, Publish(corners), UNCHANGED sent
  PROVE  /\ Places'
         /\ \E i \in Taken : Service!Answer(i)
<1> DEFINE id == Head(results)
           r == [id |-> id, corners |-> corners,
                 blended |-> (EmaEnable /\ corners) /\ ~ StartsOver(id)]
<1>1. /\ pc' = pc /\ pc \notin {"done", "failed"}
      /\ UNCHANGED <<in, topic, work>>
      /\ results # <<>> /\ results' = Tail(results) /\ results \in Seq(Frames)
      /\ published' = Append(published, r)
  BY DEF Publish, TypeOK
<1>2. /\ Elements(results) = {id} \cup Elements(results')
      /\ id \in Frames /\ id # 0
      /\ Distinct(results') /\ id \notin Elements(results')
  <2>1. Distinct(results) /\ \A i \in Frames : i # 0
    BY DEF Places, OnePlace, Frames
  <2> QED BY <1>1, <2>1, ElementsTail
<1>3. r \in [id : Frames, corners : BOOLEAN, blended : BOOLEAN] /\ r.id = id
  BY <1>2
<1> HIDE DEF r, id
<1>4. id \notin Answered /\ id # in /\ \A k \in Slots : work[k] # id
  BY <1>2 DEF Places, OnePlace, Idle
<1>5. /\ Answered' = Answered \cup {id}
      /\ AnsweredOnce'
      /\ Answers' = Append(Answers, id)
  <2>1. /\ Len(published) \in Nat
        /\ DOMAIN published = 1 .. Len(published)
        /\ DOMAIN published' = 1 .. Len(published) + 1
        /\ \A n \in 1 .. Len(published) : published'[n] = published[n]
        /\ published'[Len(published) + 1] = r
        /\ Answered' = Answered \cup {id}
        /\ AnsweredOnce'
    BY <1>1, <1>3, <1>4, PublishedAppend DEF Places
  <2> DEFINE S == Answered'
  <2>2. Answers \in Seq(S) /\ Answers' \in Seq(S) /\ id \in S
    <3>1. /\ id \in S
          /\ \A n \in 1 .. Len(published) : published[n].id \in S
          /\ \A n \in 1 .. Len(published) + 1 : published'[n].id \in S
      BY <2>1 DEF Answered
    <3> HIDE DEF S
    <3> QED BY <2>1, <3>1 DEF Answers
  <2>3. /\ Len(Answers) = Len(published)
        /\ \A n \in 1 .. Len(published) : Answers[n] = published[n].id
    BY <2>1, <2>2 DEF Answers
  <2>4. /\ Len(Answers') = Len(published) + 1
        /\ \A n \in 1 .. Len(published) : Answers'[n] = Answers[n]
        /\ Answers'[Len(published) + 1] = id
    BY <1>3, <2>1, <2>2, <2>3 DEF Answers
  <2>5. Answers' = Append(Answers, id)
    <3> DEFINE a == Append(Answers, id)
               b == Answers'
    <3> HIDE DEF S
    <3>1. /\ a \in Seq(S) /\ Len(a) = Len(published) + 1
          /\ \A n \in 1 .. Len(published) : a[n] = Answers[n]
          /\ a[Len(published) + 1] = id
      BY <2>2, <2>3, AppendProperties
    <3>2. b \in Seq(S) /\ Len(b) = Len(a)
      BY <2>2, <2>4, <3>1
    <3>3. \A n \in 1 .. Len(published) + 1 : b[n] = a[n]
      BY <2>1, <2>4, <3>1
    <3> HIDE DEF a, b
    <3>4. a = b
      BY <3>1, <3>2, <3>3, SeqEqual
    <3> QED BY <3>4 DEF a, b
  <2> QED BY <2>1, <2>5
<1>6. Taken' = Taken \ {id}
  <2>1. \A i : i \in Taken' <=> i \in Taken /\ i # id
    BY <1>1, <1>2, <1>4, TakenMeans
  <2> QED BY <2>1, Zenon
<1>7. id \in Taken
  BY <1>2, TakenMeans
<1>8. OnePlace'
  BY <1>1, <1>2, <1>4, <1>5 DEF Places, OnePlace, Idle
<1>9. OfferIsYoungest'
  BY <1>1, <1>5, <1>6, <1>7 DEF Places, OfferIsYoungest
<1>10. Service!Answer(id)
  BY <1>1, <1>5, <1>6 DEF Service!Answer, Answers
<1>11. Places'
  BY <1>5, <1>8, <1>9 DEF Places
<1>12. \E i \in Taken : Service!Answer(i)
  BY <1>7, <1>10 DEF Service!Answer
<1> QED BY <1>11, <1>12

(* With an idle slot and empty hands the node has room for a frame.        *)
LEMMA Room ==
  ASSUME TypeOK, NEW idle \in Slots, Idle(idle), in = 0, results = <<>>
  PROVE  Cardinality(Taken) < Workers
<1> DEFINE D == {k \in Slots : work[k] # 0}
           f == [k \in D |-> work[k]]
<1>1. /\ IsFiniteSet(Slots) /\ Cardinality(Slots) = Workers /\ Workers \in Nat \ {0}
  BY AsyncInferAssumption, FS_Interval DEF Slots
<1>2. /\ IsFiniteSet(Slots \ {idle})
      /\ Cardinality(Slots \ {idle}) = Workers - 1
  BY <1>1, FS_RemoveElement
<1>3. D \subseteq Slots \ {idle}
  BY DEF Idle
<1>4. IsFiniteSet(D) /\ Cardinality(D) <= Workers - 1
  BY <1>2, <1>3, FS_Subset
<1>5. \A i : i \in Taken <=> \E k \in D : work[k] = i
  BY TakenMeans, ElementsEmpty
<1>6. f \in Surjection(D, Taken)
  BY <1>5 DEF Surjection
<1>7. IsFiniteSet(Taken) /\ Cardinality(Taken) <= Cardinality(D)
  BY <1>4, <1>6, FS_Surjection
<1>8. Cardinality(Taken) \in Nat /\ Cardinality(D) \in Nat
  BY <1>4, <1>7, FS_CardinalityType
<1> QED BY <1>1, <1>4, <1>7, <1>8

LEMMA ReceiveImplements ==
  ASSUME TypeOK, LoopState, Places, Receive, UNCHANGED sent
  PROVE  Places' /\ Service!Take
<1>1. /\ pc' = "submit" /\ pc = "choose" /\ topic # 0
      /\ in' = topic /\ topic' = 0 /\ in = 0 /\ results = <<>>
      /\ UNCHANGED <<work, results, published>>
      /\ topic = sent
  BY DEF Receive, LoopState, Places, OfferIsYoungest
<1>2. /\ Elements(results) = {} /\ Elements(results') = {}
      /\ Answered' = Answered /\ Answers' = Answers
  BY <1>1, ElementsEmpty DEF Answered, Answers
<1>3. Taken' = Taken \cup {topic}
  <2>1. \A i : i \in Taken' <=> i \in Taken \/ i = topic
    BY <1>1, <1>2, TakenMeans
  <2> QED BY <2>1, Zenon
<1>4. topic \notin Taken \cup Answered
  BY DEF Places, OfferIsYoungest
<1>5. \A k \in Slots : work[k] # topic
  BY <1>1, <1>4, TakenMeans
<1>6. Cardinality(Taken) < Workers
  BY <1>1, Room DEF Receive
<1>7. OnePlace'
  BY <1>1, <1>2, <1>4, <1>5 DEF Places, OnePlace, Idle, Elements, Distinct
<1>8. OfferIsYoungest'
  <2>1. \A i \in Taken \cup Answered : i <= sent /\ i # 0
    BY FrameNumbers DEF Places, OfferIsYoungest, Frames
  <2> QED BY <1>1, <1>2, <1>3, <2>1, AsyncInferAssumption DEF Places, OfferIsYoungest, TypeOK
<1>9. Service!Take
  BY <1>1, <1>2, <1>3, <1>6 DEF Service!Take, Answers, Service!Cardinality, Cardinality
<1> QED BY <1>1, <1>7, <1>8, <1>9 DEF Places, AnsweredOnce

LEMMA SubmitImplements ==
  ASSUME TypeOK, LoopState, Places, NEW k \in Slots, submit(k), UNCHANGED sent
  PROVE  Places' /\ UNCHANGED Service!vars
<1>1. /\ pc = "submit" /\ pc' = "loop" /\ in' = 0 /\ in # 0 /\ work[k] = 0
      /\ UNCHANGED <<topic, results, published>>
      /\ \A j \in Slots : work'[j] = IF j = k THEN in ELSE work[j]
  BY DEF submit, FirstIdle, Idle, LoopState, TypeOK
<1>2. /\ Elements(results') = Elements(results)
      /\ Answered' = Answered /\ Answers' = Answers
  BY <1>1 DEF Answered, Answers
<1>3. Taken' = Taken
  <2>1. \A i : i \in Taken' <=> i \in Taken
    BY <1>1, <1>2, TakenMeans
  <2> QED BY <2>1, Zenon
<1>4. OnePlace'
  <2>1. ASSUME NEW j \in Slots, work'[j] # 0
        PROVE  /\ work'[j] # in'
               /\ work'[j] \notin Elements(results') \cup Answered'
               /\ \A i \in Slots : work'[i] = work'[j] => i = j
    <3>1. CASE j = k
      BY <1>1, <1>2, <2>1, <3>1 DEF Places, OnePlace, Idle
    <3>2. CASE j # k
      BY <1>1, <1>2, <2>1, <3>2 DEF Places, OnePlace, Idle
    <3> QED BY <3>1, <3>2
  <2> QED BY <1>1, <1>2, <2>1 DEF Places, OnePlace, Idle, Elements, Distinct
<1>5. OfferIsYoungest'
  BY <1>1, <1>2, <1>3 DEF Places, OfferIsYoungest
<1>6. Places'
  BY <1>1, <1>4, <1>5 DEF Places, AnsweredOnce
<1> QED BY <1>1, <1>2, <1>3, <1>6 DEF Service!vars, Answers

LEMMA NodeStart == Init => NodeInv /\ FilterState /\ BlendsForward /\ Service!Init
<1> SUFFICES ASSUME Init
             PROVE  NodeInv /\ FilterState /\ BlendsForward /\ Service!Init
  OBVIOUS
<1> USE DEF Init
<1>1. TypeOK
  <2>1. 0 \in 0 .. MaxFrames /\ 1 \in 1 .. Workers + 1
    BY AsyncInferAssumption
  <2>2. NoFilter \in [initialized : BOOLEAN, last : 0 .. MaxFrames]
    BY <2>1 DEF NoFilter
  <2>3. <<>> \in Seq(Frames)
    OBVIOUS
  <2>4. <<>> \in Seq([id : Frames, corners : BOOLEAN, blended : BOOLEAN])
    OBVIOUS
  <2> QED BY <2>1, <2>2, <2>3, <2>4 DEF TypeOK
<1>2. Elements(results) = {} /\ DOMAIN published = {}
  BY ElementsEmpty
<1>3. Answered = {} /\ Answers = <<>>
  BY <1>2 DEF Answered, Answers
<1>4. Taken = {}
  BY <1>2, TakenMeans
<1>5. OfferIsYoungest /\ AnsweredOnce
  BY <1>2, <1>3, <1>4 DEF OfferIsYoungest, AnsweredOnce
<1>6. OnePlace
  BY <1>2, <1>3 DEF OnePlace, Idle, Distinct
<1>7. LoopState /\ FreeSlotsRest
  BY DEF LoopState, FreeSlotsRest
<1>8. FilterState /\ BlendsForward
  BY <1>2 DEF FilterState, BlendsForward, NoFilter
<1>9. Service!Init
  BY <1>3, <1>4 DEF Service!Init, Answers
<1> QED BY <1>1, <1>5, <1>6, <1>7, <1>8, <1>9 DEF NodeInv

(* Every step keeps the invariant and is a step of the service, or none.   *)
LEMMA NodeStep ==
  ASSUME NodeInv, [Next]_vars
  PROVE  NodeInv' /\ [Service!Next]_(Service!vars)
<1> USE DEF NodeInv
<1> DEFINE Kept == Places' /\ [Service!Next]_(Service!vars)
<1>0. Places
  BY DEF Places
<1>1. CASE SendFrame
  <2>1. LoopState'
    BY <1>1 DEF SendFrame, LoopState, nodeVars, Idle
  <2>2. Kept
    BY <1>0, <1>1, SendImplements DEF Service!Next
  <2> QED BY <1>1, <2>1, <2>2, EnvironmentType, StepRest DEF Places, Next
<1>2. CASE RequestStop \/ OpenVINO
  <2>1. UNCHANGED <<sent, topic, nodeVars>>
    BY <1>2 DEF RequestStop, OpenVINO, ShowRun, EndRun, notifyRequestCompleted
  <2>2. LoopState'
    BY <2>1 DEF LoopState, nodeVars, Idle
  <2>3. Kept
    <3>1. Places'
      BY <1>0, <2>1, Unmoved DEF nodeVars
    <3>2. pc' = pc /\ UNCHANGED <<sent, topic, in, work, results, published>>
      BY <2>1 DEF nodeVars
    <3>3. [Service!Next]_(Service!vars)
      BY <3>2, UnmovedImplements
    <3> QED BY <3>1, <3>3
  <2> QED BY <1>2, <2>2, <2>3, EnvironmentType, StepRest DEF Places, Next
<1>3. CASE Node
  <2>0. UNCHANGED sent
    BY <1>3 DEF Node
  <2>1. Kept
    <3>1. CASE finishSlot
      BY <1>0, <2>0, <3>1, FinishImplements
    <3>2. CASE FinishFails
      BY <1>0, <2>0, <3>2, FailImplements DEF Service!Next
    <3>3. ASSUME NEW corners \in BOOLEAN, Publish(corners) PROVE Kept
      BY <1>0, <2>0, <3>3, PublishImplements DEF Service!Next
    <3>4. CASE Receive
      BY <1>0, <2>0, <3>4, ReceiveImplements DEF Service!Next
    <3>5. ASSUME NEW k \in Slots, submit(k) PROVE Kept
      BY <1>0, <2>0, <3>5, SubmitImplements
    <3>6. CASE StartRound \/ consumeCallbackException \/ PassSlot \/ RequestThrows
               \/ AllCollected \/ AllPublished \/ waitForCompletionSignal
               \/ ReceiveTimesOut
      <4>1. UNCHANGED <<topic, in, work, results, published>>
        BY <3>6 DEF StartRound, consumeCallbackException, PassSlot, RequestThrows,
           AllCollected, AllPublished, waitForCompletionSignal, ReceiveTimesOut, LoopState
      <4>2. Outcome = "running"
        BY <3>6 DEF StartRound, consumeCallbackException, PassSlot, RequestThrows,
           AllCollected, AllPublished, waitForCompletionSignal, ReceiveTimesOut, Outcome
      <4>3. pc' = "done" => /\ \A k \in Slots : Idle(k)
                            /\ results = <<>> /\ in = 0
        BY <3>6 DEF StartRound, consumeCallbackException, PassSlot, RequestThrows,
           AllCollected, AllPublished, waitForCompletionSignal, ReceiveTimesOut, LoopState
      <4>4. Places'
        BY <1>0, <2>0, <4>1, Unmoved
      <4>5. [Service!Next]_(Service!vars)
        BY <2>0, <4>1, <4>2, <4>3, UnmovedImplements
      <4> QED BY <4>4, <4>5
    <3> QED BY <1>3, <3>1, <3>2, <3>3, <3>4, <3>5, <3>6 DEF Node
  <2> QED BY <1>3, <2>1, NodeType, NodeLoop, StepRest DEF Places, Next
<1>4. CASE UNCHANGED vars
  <2>1. UNCHANGED <<stop, sent, topic, pc, at, in, work, results, filter, published,
                    request, calls, notified, exception>>
    BY <1>4 DEF vars, nodeVars
  <2>2. Places'
    BY <1>0, <2>1, Unmoved
  <2>3. [Service!Next]_(Service!vars)
    BY <2>1, UnmovedImplements
  <2> QED BY <2>1, <2>2, <2>3
          DEF Places, TypeOK, LoopState, FreeSlotsRest, Idle
<1> QED BY <1>1, <1>2, <1>3, <1>4 DEF Next

-----------------------------------------------------------------------------
(* The theorems.                                                           *)

(* Types, and the index into the slots.                                    *)
THEOREM TypeCorrect == Spec => []TypeOK
<1>1. NodeInv => TypeOK
  BY DEF NodeInv
<1> QED BY <1>1, NodeStart, NodeStep, PTL DEF Spec

(* submit() never starts a request that is still running.                  *)
THEOREM FreeSlotsStayAtRest == Spec => []FreeSlotsRest
<1>1. NodeInv => FreeSlotsRest
  BY DEF NodeInv
<1> QED BY <1>1, NodeStart, NodeStep, PTL DEF Spec

(* No frame is answered twice, in whatever order the requests complete.    *)
THEOREM NothingAnsweredTwice == Spec => []AnsweredOnce
<1>1. NodeInv => AnsweredOnce
  BY DEF NodeInv
<1> QED BY <1>1, NodeStart, NodeStep, PTL DEF Spec

(* The node answers each frame it takes once and has answered all of them  *)
(* when it stops without an error.                                         *)
THEOREM NodeImplementsService == Spec => ImplementsService
<1> QED BY NodeStart, NodeStep, PTL DEF Spec, ImplementsService, Service!Spec

LEMMA FilterStep ==
  ASSUME NodeInv, FilterState, BlendsForward, [Next]_vars
  PROVE  FilterState' /\ BlendsForward'
<1>1. CASE UNCHANGED <<filter, published>>
  BY <1>1 DEF FilterState, BlendsForward
<1>2. ASSUME NEW corners \in BOOLEAN, Publish(corners)
      PROVE  FilterState' /\ BlendsForward'
  <2> DEFINE id == Head(results)
             n == Len(published)
             r == [id |-> id, corners |-> corners,
                   blended |-> (EmaEnable /\ corners) /\ ~ StartsOver(id)]
  <2>1. id \in Frames
    BY <1>2, ElementsTail DEF Publish, NodeInv, TypeOK
  <2>2. published' = Append(published, r)
    BY <1>2 DEF Publish
  <2>3. r \in [id : Frames, corners : BOOLEAN, blended : BOOLEAN]
    BY <2>1
  <2>4. /\ n \in Nat /\ Len(published') = n + 1
        /\ DOMAIN published = 1 .. n /\ DOMAIN published' = 1 .. n + 1
        /\ \A m \in 1 .. n : published'[m] = published[m]
        /\ published'[n + 1] = r
    BY <2>2, <2>3, PublishedAppend DEF NodeInv
  <2>5. filter' = IF ~ corners THEN NoFilter
                  ELSE IF EmaEnable THEN [initialized |-> TRUE, last |-> id]
                  ELSE filter
    BY <1>2 DEF Publish
  <2>6. FilterState'
    <3>1. ASSUME filter'.initialized
          PROVE  EmaEnable /\ corners /\ filter'.last = id
      BY <2>5, <3>1 DEF FilterState, NoFilter
    <3>2. published' # <<>>
      BY <2>4
    <3> QED BY <2>4, <3>1, <3>2 DEF FilterState
  <2>7. ASSUME r.blended
        PROVE  /\ n + 1 > 1 /\ published[n].corners
               /\ published[n].id < id /\ id - published[n].id <= ResetGap
    <3>1. filter.initialized /\ ~ (id <= filter.last) /\ ~ (id - filter.last > ResetGap)
      BY <2>7 DEF StartsOver
    <3>2. n > 0 /\ published[n].corners /\ published[n].id = filter.last
      BY <2>4, <3>1 DEF FilterState
    <3>3. filter.last \in Nat /\ id \in Nat /\ ResetGap \in Nat
      BY <2>1, AsyncInferAssumption DEF NodeInv, TypeOK, Frames
    <3> QED BY <2>4, <3>1, <3>2, <3>3
  <2>8. BlendsForward'
    <3> HIDE DEF r, id, n
    <3>1. r.id = id
      BY DEF r
    <3>2. ASSUME NEW m \in 1 .. n + 1, published'[m].blended
          PROVE  /\ m > 1
                 /\ published'[m - 1].corners
                 /\ published'[m - 1].id < published'[m].id
                 /\ published'[m].id - published'[m - 1].id <= ResetGap
      <4>1. CASE m = n + 1
        BY <2>4, <2>7, <3>1, <3>2, <4>1
      <4>2. CASE m # n + 1
        <5>1. m \in 1 .. n /\ published[m].blended
          BY <2>4, <3>2, <4>2
        <5>2. m > 1 /\ m - 1 \in 1 .. n
          BY <2>4, <5>1 DEF BlendsForward
        <5> QED BY <2>4, <5>1, <5>2 DEF BlendsForward
      <4> QED BY <4>1, <4>2
    <3> QED BY <2>4, <3>2 DEF BlendsForward
  <2> QED BY <2>6, <2>8
<1> QED BY <1>1, <1>2 DEF Next, vars, nodeVars, SendFrame, RequestStop, OpenVINO,
           ShowRun, EndRun, notifyRequestCompleted, Node, StartRound,
           consumeCallbackException, PassSlot, finishSlot, FinishFails, RequestThrows,
           AllCollected, AllPublished, waitForCompletionSignal, Receive,
           ReceiveTimesOut, submit

(* Corners are blended only into the result published right before, and    *)
(* only forward within the gap.                                            *)
THEOREM BlendsStayForward == Spec => []BlendsForward
<1>1. Init => NodeInv /\ FilterState /\ BlendsForward
  BY NodeStart
<1>2. NodeInv /\ FilterState /\ BlendsForward /\ [Next]_vars
        => NodeInv' /\ FilterState' /\ BlendsForward'
  BY NodeStep, FilterStep
<1> QED BY <1>1, <1>2, PTL DEF Spec

-----------------------------------------------------------------------------
(* Failures.                                                               *)

\* What a callback tells, or is about to tell, of a failure shows in a slot
\* that is still busy, until the node gives up.
FailureShows ==
  exception \/ (\E k \in Slots : <<k, TRUE>> \in calls) =>
    pc = "failed" \/ \E k \in Slots : ~ Idle(k) /\ request[k] \in {"failing", "error"}

\* A node that ended well has no failed inference behind it, and none on its
\* way to it.
GoodEnd ==
  pc = "done" =>
    /\ ~ exception
    /\ \A k \in Slots : <<k, TRUE>> \notin calls /\ request[k] \in {"idle", "ready"}

\* A slot whose inference failed stays busy with it.
LEMMA FailedStays ==
  ASSUME NodeInv, [Next]_vars, pc' # "failed",
         NEW k \in Slots, ~ Idle(k), request[k] \in {"failing", "error"}
  PROVE  ~ Idle(k)' /\ request'[k] \in {"failing", "error"}
<1> USE DEF Idle
<1>1. TypeOK /\ Slots \subseteq Nat
  BY DEF NodeInv, Slots
<1>2. CASE SendFrame \/ RequestStop \/ UNCHANGED vars
  BY <1>2 DEF SendFrame, RequestStop, nodeVars, vars
<1>3. CASE OpenVINO
  BY <1>1, <1>3 DEF OpenVINO, EndRun, ShowRun, notifyRequestCompleted, nodeVars, TypeOK
<1>4. ASSUME NEW j \in Slots, submit(j) PROVE work'[k] # 0 /\ request'[k] \in {"failing", "error"}
  <2>1. work[j] = 0
    BY <1>4 DEF submit, FirstIdle
  <2> QED
    BY <1>1, <1>4, <2>1 DEF submit, TypeOK
<1>5. CASE finishSlot
  <2>1. at # k
    BY <1>5 DEF finishSlot
  <2> QED
    BY <1>1, <1>5, <2>1 DEF finishSlot, TypeOK
<1>6. CASE Node
  <2>1. CASE UNCHANGED <<work, request>>
    BY <2>1
  <2>2. CASE ~ UNCHANGED <<work, request>>
    BY <1>4, <1>5, <1>6, <2>2
    DEF Node, StartRound, consumeCallbackException, PassSlot, FinishFails, RequestThrows, AllCollected,
        Publish, AllPublished, waitForCompletionSignal, Receive, ReceiveTimesOut
  <2> QED
    BY <2>1, <2>2
<1> QED
  BY <1>2, <1>3, <1>6 DEF Next

LEMMA FailureStep ==
  ASSUME NodeInv, FailureShows, [Next]_vars
  PROVE  FailureShows'
<1> SUFFICES ASSUME pc' # "failed", exception' \/ \E k \in Slots : <<k, TRUE>> \in calls'
             PROVE  \E k \in Slots : ~ Idle(k)' /\ request'[k] \in {"failing", "error"}
  BY DEF FailureShows, Idle
<1>1. pc # "failed"
  BY DEF Next, SendFrame, RequestStop, OpenVINO, EndRun, ShowRun, notifyRequestCompleted, Node, StartRound,
         consumeCallbackException, PassSlot, finishSlot, FinishFails, RequestThrows, AllCollected, Publish,
         AllPublished, waitForCompletionSignal, Receive, ReceiveTimesOut, submit, nodeVars, vars
<1>2. CASE exception \/ \E k \in Slots : <<k, TRUE>> \in calls
  <2>1. PICK k \in Slots : ~ Idle(k) /\ request[k] \in {"failing", "error"}
    BY <1>1, <1>2 DEF FailureShows
  <2> QED
    BY <2>1, FailedStays
<1>3. CASE ~ exception /\ \A k \in Slots : <<k, TRUE>> \notin calls
  <2>1. PICK k \in Slots : EndRun(k, TRUE)
    <3>0. ~ (exception' = exception /\ calls' = calls)
      <4>1. ~ exception /\ \A k \in Slots : <<k, TRUE>> \notin calls
        BY <1>3
      <4>2. CASE exception'
        <5>1. exception' # exception
          BY <4>1, <4>2
        <5> QED
          BY <5>1
      <4>3. CASE \E k \in Slots : <<k, TRUE>> \in calls'
        <5>1. PICK k \in Slots : <<k, TRUE>> \in calls'
          BY <4>3
        <5>2. <<k, TRUE>> \notin calls
          BY <4>1
        <5>3. calls' # calls
          BY <5>1, <5>2
        <5> QED
          BY <5>3
      <4> QED
        BY <4>2, <4>3
    <3>1. ~ (SendFrame \/ RequestStop \/ UNCHANGED vars)
      BY <3>0 DEF SendFrame, RequestStop, vars
    <3>2. ~ Node
      <4>1. consumeCallbackException /\ calls' = calls => exception' = exception
        BY <1>3 DEF consumeCallbackException
      <4>2. Node => calls' = calls
        BY DEF Node
      <4> QED
        BY <3>0, <4>1, <4>2 DEF Node, StartRound, PassSlot, finishSlot, FinishFails, RequestThrows, AllCollected,
           Publish, AllPublished, waitForCompletionSignal, Receive, ReceiveTimesOut, submit
    <3>3. PICK j \in Slots : \/ ShowRun(j)
                             \/ \E failed \in BOOLEAN : EndRun(j, failed) \/ notifyRequestCompleted(j, failed)
      BY <3>1, <3>2 DEF Next, OpenVINO
    <3>4. ~ ShowRun(j)
      BY <3>0 DEF ShowRun
    <3>5. ASSUME NEW failed \in BOOLEAN PROVE ~ notifyRequestCompleted(j, failed)
      BY <1>3 DEF notifyRequestCompleted
    <3>6. ~ EndRun(j, FALSE)
      <4> SUFFICES ASSUME EndRun(j, FALSE) PROVE FALSE
        OBVIOUS
      <4>1. exception' = exception /\ calls' = calls \cup {<<j, FALSE>>}
        BY DEF EndRun
      <4>2. \A k \in Slots : <<k, TRUE>> \notin calls'
        BY <1>3, <4>1
      <4> QED
        BY <1>3, <4>1, <4>2
    <3> QED
      BY <3>3, <3>4, <3>5, <3>6
  <2>2. request[k] = "running" /\ request'[k] = "failing" /\ work' = work
    BY <2>1 DEF EndRun, nodeVars, NodeInv, TypeOK
  <2>3. ~ Idle(k)
    BY <2>2 DEF NodeInv, FreeSlotsRest
  <2> QED
    BY <2>2, <2>3 DEF Idle
<1> QED
  BY <1>2, <1>3

(* A node that ends well has seen every failure: none of its requests has  *)
(* failed, and no callback has told of one or will, in whatever order      *)
(* callbacks and completions come, though the tail does not look at the    *)
(* callbacks' exception any more.                                          *)
(* Code: consumeCallbackException, and the rethrow of wait_for and wait.   *)
THEOREM GoodEndHidesNothing == Spec => []GoodEnd
<1>1. Init => FailureShows
  BY DEF Init, FailureShows
<1>2. NodeInv /\ FailureShows => GoodEnd
  BY DEF NodeInv, LoopState, FreeSlotsRest, FailureShows, GoodEnd
<1> QED
  BY <1>1, <1>2, FailureStep, NodeStart, NodeStep, PTL DEF Spec

=============================================================================
