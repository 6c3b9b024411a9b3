-------------------------- MODULE FramePathProofs --------------------------
(***************************************************************************)
(* Proofs about module FramePath, for every ring capacity, number of       *)
(* requests and configured pool size.                                      *)
(*                                                                         *)
(* The argument: a buffer that is being written is in nobody's hands,      *)
(* because the camera alone can hand out a buffer that has no reference    *)
(* and the inference node only passes references on or drops them          *)
(* (ReferencesShrink).  There are never more buffers in use than the ring  *)
(* has cells and the inference node has requests, since the frame it is    *)
(* about to submit has an empty slot waiting for it (UseBounded); a scan   *)
(* that finds every buffer taken has therefore seen a small pool.          *)
(***************************************************************************)
EXTENDS FramePath, FiniteSetTheorems, TLAPS

(* Idle slots hold no frame, save the one that is being filled.            *)
IdleSlotsEmpty ==
  /\ infer # "failed" =>
       \A k \in Slots : Idle(k) => frame[k] = Null \/ (infer = "start" /\ FirstIdle(k))
  /\ infer \in {"loop", "failed"} => in = Null
  /\ in # Null => \E k \in Slots : frame[k] \in {Null, in}

(* The image a finished write has left in the buffer.                      *)
ImageWritten == camera = "send" => pixels[buf] = frameId + 1

(* The buffers the current scan has passed over, and those in use: never   *)
(* more than the ring and the slots hold, since a buffer is passed over    *)
(* while it is in use and none comes into use during a scan.               *)
Passed == {(nextSlot + j) % poolSize : j \in 0 .. scanned - 1}

ScanBounded ==
  /\ camera = "scan" => /\ IsFiniteSet(Passed \cup InUse)
                        /\ Cardinality(Passed \cup InUse) <= Capacity + Workers
  /\ camera # "scan" => scanned = 0

PathInv == TypeOK /\ IdleSlotsEmpty /\ ImageWritten /\ FramesIntact /\ WriterAlone

-----------------------------------------------------------------------------
(* Positions and buffers.                                                  *)

LEMMA ModRange ==
  ASSUME NEW n \in Nat \ {0}, NEW i \in Nat
  PROVE  i % n \in 0 .. n - 1
OBVIOUS

LEMMA ModWrap ==
  ASSUME NEW n \in Nat \ {0}, NEW s \in 0 .. n - 1, NEW b \in 0 .. n - 1
  PROVE  \E j \in 0 .. n - 1 : (s + j) % n = b
<1>1. CASE s <= b
  <2>1. b - s \in 0 .. n - 1 /\ (s + (b - s)) % n = b
    BY <1>1
  <2> QED BY <2>1
<1>2. CASE b < s
  <2>1. b - s + n \in 0 .. n - 1 /\ (s + (b - s + n)) % n = b
    BY <1>2
  <2> QED BY <2>1
<1> QED BY <1>1, <1>2

LEMMA AfterCell == \A c \in Cells : After(c) \in Cells
BY CapacityAssumption DEF After, Cells

LEMMA PoolStart == \A c \in PoolConfigs : InitialPool(c) \in Nat \ {0}
BY FramePathAssumption DEF InitialPool

(* What it means for a buffer to be in use.                                *)
LEMMA UseMeans ==
  \A b : b \in InUse <=>
    \/ \E c \in Cells : ring.cell[c] # Null /\ b = ring.cell[c].buf
    \/ in # Null /\ b = in.buf
    \/ \E k \in Slots : frame[k] # Null /\ b = frame[k].buf
BY Zenon DEF InUse, InRing, InSlots, Carried

LEMMA UseMeansNext ==
  \A b : b \in InUse' <=>
    \/ \E c \in Cells : ring'.cell[c] # Null /\ b = ring'.cell[c].buf
    \/ in' # Null /\ b = in'.buf
    \/ \E k \in Slots : frame'[k] # Null /\ b = frame'[k].buf
BY Zenon DEF InUse, InRing, InSlots, Carried

(* A set every member of which some s \in S is mapped to is no larger.     *)
LEMMA Covered ==
  ASSUME NEW S, IsFiniteSet(S), NEW T, NEW f,
         \A t \in T : \E s \in S : f[s] = t
  PROVE  IsFiniteSet(T) /\ Cardinality(T) <= Cardinality(S)
<1> DEFINE D == {s \in S : f[s] \in T}
           g == [s \in D |-> f[s]]
<1>1. IsFiniteSet(D) /\ Cardinality(D) <= Cardinality(S)
  BY FS_Subset
<1>2. g \in Surjection(D, T)
  BY DEF Surjection
<1>3. IsFiniteSet(T) /\ Cardinality(T) <= Cardinality(D)
  BY <1>1, <1>2, FS_Surjection
<1>4. Cardinality(T) \in Nat /\ Cardinality(D) \in Nat /\ Cardinality(S) \in Nat
  BY <1>1, <1>3, FS_CardinalityType
<1> QED BY <1>1, <1>3, <1>4

(* No more buffers are in use than the ring has cells and the inference    *)
(* node has slots.                                                         *)
LEMMA UseBounded ==
  ASSUME TypeOK, IdleSlotsEmpty
  PROVE  IsFiniteSet(InUse) /\ Cardinality(InUse) <= Capacity + Workers
<1> DEFINE Holders == 0 .. Capacity + Workers - 1
           Slot(h) == h - Capacity + 1
           held == [h \in Holders |->
                      IF h < Capacity THEN ring.cell[h].buf
                      ELSE IF frame[Slot(h)] = Null THEN in.buf
                      ELSE frame[Slot(h)].buf]
<1>0. Capacity \in Nat /\ Workers \in Nat /\ Capacity >= 2 /\ Workers >= 1
  BY CapacityAssumption, FramePathAssumption
<1>1. IsFiniteSet(Holders) /\ Cardinality(Holders) = Capacity + Workers
  BY <1>0, FS_Interval
<1>2. ASSUME NEW b \in InUse PROVE \E h \in Holders : held[h] = b
  <2>1. CASE \E c \in Cells : ring.cell[c] # Null /\ b = ring.cell[c].buf
    <3>1. PICK c \in Cells : b = ring.cell[c].buf
      BY <2>1
    <3>2. c \in Holders /\ c < Capacity
      BY <1>0 DEF Cells
    <3> QED BY <3>1, <3>2
  <2>2. ASSUME NEW k \in Slots, frame[k] = Null => b = in.buf,
                                frame[k] # Null => b = frame[k].buf
        PROVE  \E h \in Holders : held[h] = b
    <3>1. k + Capacity - 1 \in Holders /\ ~(k + Capacity - 1 < Capacity)
          /\ Slot(k + Capacity - 1) = k
      BY <1>0 DEF Slots
    <3> QED BY <2>2, <3>1
  <2>3. CASE in # Null /\ b = in.buf
    <3>1. PICK k \in Slots : frame[k] \in {Null, in}
      BY <2>3 DEF IdleSlotsEmpty
    <3> QED BY <2>2, <2>3, <3>1
  <2>4. CASE \E k \in Slots : frame[k] # Null /\ b = frame[k].buf
    BY <2>2, <2>4
  <2> QED BY <2>1, <2>3, <2>4, UseMeans
<1> HIDE DEF Holders, held
<1> QED BY <1>1, <1>2, Covered

LEMMA UsedAreBuffers ==
  ASSUME FramesIntact
  PROVE  InUse \subseteq Buffers
BY UseMeans DEF FramesIntact, Intact

-----------------------------------------------------------------------------
(* What a step of the inference node does to the references.               *)

LEMMA InferType ==
  ASSUME TypeOK, Infer
  PROVE  TypeOK'
<1> USE DEF TypeOK, Buffers, cameraVars
<1>1. CASE ReceiveFrame
  <2>1. Front(ring) \in Messages \cup {Null} /\ Pop(ring) \in QueueOf(Messages)
    BY AfterCell DEF Front, Pop, QueueOf
  <2> QED BY <1>1, <2>1 DEF ReceiveFrame, Infer
<1>2. ASSUME NEW k \in Slots, FinishSlot(k) PROVE TypeOK'
  BY <1>2 DEF FinishSlot, Infer
<1>3. ASSUME NEW k \in Slots, FinishSlotFails(k) PROVE TypeOK'
  BY <1>3 DEF FinishSlotFails, Infer
<1>4. ASSUME NEW k \in Slots, FillSlot(k) PROVE TypeOK'
  BY <1>4 DEF FillSlot, Infer
<1>5. ASSUME NEW k \in Slots, StartRequest(k) PROVE TypeOK'
  BY <1>5 DEF StartRequest, Infer
<1> QED BY <1>1, <1>2, <1>3, <1>4, <1>5 DEF Infer

LEMMA InferIdleSlots ==
  ASSUME TypeOK, IdleSlotsEmpty, Infer
  PROVE  IdleSlotsEmpty'
<1> USE DEF TypeOK, IdleSlotsEmpty, Idle, FirstIdle
<1>1. CASE ReceiveFrame
  BY <1>1 DEF ReceiveFrame
<1>2. ASSUME NEW k \in Slots, FinishSlot(k) PROVE IdleSlotsEmpty'
  BY <1>2 DEF FinishSlot
<1>3. ASSUME NEW k \in Slots, FinishSlotFails(k) PROVE IdleSlotsEmpty'
  BY <1>3 DEF FinishSlotFails
<1>4. ASSUME NEW k \in Slots, FillSlot(k) PROVE IdleSlotsEmpty'
  BY <1>4 DEF FillSlot
<1>5. ASSUME NEW k \in Slots, StartRequest(k) PROVE IdleSlotsEmpty'
  <2>1. \A j \in Slots : Idle(j)' => Idle(j) /\ j # k
    BY <1>5 DEF StartRequest
  <2>2. \A j \in Slots : FirstIdle(j) => j = k
    BY <1>5 DEF StartRequest, Slots
  <2> QED BY <1>5, <2>1, <2>2 DEF StartRequest
<1> QED BY <1>1, <1>2, <1>3, <1>4, <1>5 DEF Infer

(* Every message the inference node holds after a step it, or the topic,   *)
(* held before: references are passed on or dropped.                       *)
LEMMA MessagesPassedOn ==
  ASSUME TypeOK, IdleSlotsEmpty, Infer
  PROVE  /\ \A c \in Cells : ring'.cell[c] \in {Null, ring.cell[c]}
         /\ in' \in {Null, in} \/ \E c \in Cells : in' = ring.cell[c]
         /\ \A k \in Slots : frame'[k] \in {Null, in, frame[k]}
<1> USE DEF TypeOK
<1>1. CASE ReceiveFrame
  <2>1. /\ ring' = Pop(ring) /\ in' = Front(ring) /\ frame' = frame
        /\ ring \in QueueOf(Messages)
    BY <1>1 DEF ReceiveFrame
  <2>2. ring.head \in Cells /\ ring.cell \in [Cells -> Messages \cup {Null}]
    BY <2>1 DEF QueueOf
  <2>3. in' = ring.cell[ring.head]
    BY <2>1 DEF Front
  <2>4. \A c \in Cells : ring'.cell[c] \in {Null, ring.cell[c]}
    BY <2>1, <2>2 DEF Pop
  <2> QED BY <2>1, <2>2, <2>3, <2>4
<1>2. ASSUME NEW k \in Slots,
             FinishSlot(k) \/ FinishSlotFails(k) \/ FillSlot(k) \/ StartRequest(k)
      PROVE  /\ ring' = ring
             /\ in' \in {Null, in}
             /\ \A j \in Slots : frame'[j] \in {Null, in, frame[j]}
  BY <1>2 DEF FinishSlot, FinishSlotFails, FillSlot, StartRequest
<1> QED BY <1>1, <1>2 DEF Infer

LEMMA ReferencesShrink ==
  ASSUME TypeOK, IdleSlotsEmpty, Infer
  PROVE  InUse' \subseteq InUse
<1> SUFFICES ASSUME NEW b \in InUse' PROVE b \in InUse
  OBVIOUS
<1>1. CASE \E c \in Cells : ring'.cell[c] # Null /\ b = ring'.cell[c].buf
  BY <1>1, MessagesPassedOn, UseMeans
<1>2. CASE in' # Null /\ b = in'.buf
  BY <1>2, MessagesPassedOn, UseMeans
<1>3. CASE \E k \in Slots : frame'[k] # Null /\ b = frame'[k].buf
  BY <1>3, MessagesPassedOn, UseMeans
<1> QED BY <1>1, <1>2, <1>3, UseMeansNext

-----------------------------------------------------------------------------
(* What a step of the camera node does.                                    *)

LEMMA CandidateBuffer ==
  ASSUME TypeOK
  PROVE  Candidate \in Buffers
<1>1. nextSlot + scanned \in Nat /\ poolSize \in Nat \ {0}
  BY DEF TypeOK, Buffers
<1> QED BY <1>1, ModRange DEF Candidate, Buffers

LEMMA PushedType ==
  ASSUME NEW q \in QueueOf(Messages), NEW m \in Messages
  PROVE  PushReplace(q, m) \in QueueOf(Messages)
BY AfterCell DEF PushReplace, QueueOf

LEMMA CameraType ==
  ASSUME TypeOK, Camera
  PROVE  TypeOK'
<1> USE DEF TypeOK, Buffers, inferVars
<1>1. CASE SkipBuffer /\ UNCHANGED ring
  BY <1>1 DEF SkipBuffer, Camera
<1>2. CASE TakeBuffer /\ UNCHANGED ring
  <2>1. Candidate \in 0 .. poolSize - 1 /\ (Candidate + 1) % poolSize \in 0 .. poolSize - 1
    <3>1. Candidate \in 0 .. poolSize - 1
      BY CandidateBuffer
    <3>2. Candidate + 1 \in Nat /\ poolSize \in Nat \ {0}
      BY <3>1
    <3> QED BY <3>1, <3>2, ModRange
  <2> QED BY <1>2, <2>1 DEF TakeBuffer, Camera
<1>3. CASE GrowPool /\ UNCHANGED ring
  <2>1. pixels' \in [0 .. poolSize -> Nat]
    BY <1>3 DEF GrowPool
  <2>2. poolSize' - 1 = poolSize
    BY <1>3 DEF GrowPool
  <2> QED BY <1>3, <2>1, <2>2 DEF GrowPool, Camera
<1>4. CASE BeginWrite /\ UNCHANGED ring
  BY <1>4 DEF BeginWrite, Camera
<1>5. CASE EndWrite /\ UNCHANGED ring
  BY <1>5 DEF EndWrite, Camera
<1>6. CASE GrabFails /\ UNCHANGED ring
  BY <1>6 DEF GrabFails, Camera
<1>7. CASE SendFrame
  <2>1. [id |-> frameId + 1, buf |-> buf] \in Messages
    BY DEF Messages
  <2>2. ring' \in QueueOf(Messages)
    BY <1>7, <2>1, PushedType DEF SendFrame
  <2> QED BY <1>7, <2>2 DEF SendFrame, Camera
<1> QED BY <1>1, <1>2, <1>3, <1>4, <1>5, <1>6, <1>7 DEF Camera

(* Only a send brings a buffer into use: the one that was written.         *)
LEMMA CameraReferences ==
  ASSUME TypeOK, Camera
  PROVE  InUse' = InUse \/ (SendFrame /\ InUse' \subseteq InUse \cup {buf})
<1>1. in' = in /\ frame' = frame
  BY DEF Camera, inferVars
<1>2. CASE ring' = ring
  BY <1>1, <1>2 DEF InUse, InRing, InSlots
<1>3. CASE SendFrame
  <2> DEFINE m == [id |-> frameId + 1, buf |-> buf]
  <2>1. /\ ring' = PushReplace(ring, m)
        /\ ring \in QueueOf(Messages)
    BY <1>3 DEF SendFrame, TypeOK
  <2>2. \A c \in Cells : ring'.cell[c] \in {m, ring.cell[c]}
    BY <2>1 DEF PushReplace, QueueOf
  <2>3. m.buf = buf
    OBVIOUS
  <2> HIDE DEF m
  <2>4. \A b \in InUse' : b \in InUse \/ b = buf
    <3> TAKE b \in InUse'
    <3>1. CASE \E c \in Cells : ring'.cell[c] # Null /\ b = ring'.cell[c].buf
      BY <3>1, <2>2, <2>3, UseMeans
    <3>2. CASE ~ \E c \in Cells : ring'.cell[c] # Null /\ b = ring'.cell[c].buf
      BY <3>2, <1>1, UseMeans, UseMeansNext
    <3> QED BY <3>1, <3>2
  <2> QED BY <1>3, <2>4
<1> QED BY <1>2, <1>3 DEF Camera

LEMMA CameraWriterAlone ==
  ASSUME PathInv, Camera
  PROVE  WriterAlone'
<1> USE DEF PathInv, WriterAlone
<1>1. CASE SendFrame
  BY <1>1 DEF SendFrame
<1>2. CASE ~ SendFrame
  <2>1. InUse' = InUse
    BY <1>2, CameraReferences
  <2>2. CASE TakeBuffer
    BY <2>1, <2>2 DEF TakeBuffer
  <2>3. CASE GrowPool
    <3>1. poolSize \notin InUse
      BY UsedAreBuffers DEF Buffers, TypeOK
    <3> QED BY <2>1, <2>3, <3>1 DEF GrowPool
  <2>4. CASE SkipBuffer \/ BeginWrite \/ EndWrite \/ GrabFails
    BY <2>1, <2>4 DEF SkipBuffer, BeginWrite, EndWrite, GrabFails
  <2> QED BY <1>2, <2>2, <2>3, <2>4 DEF Camera
<1> QED BY <1>1, <1>2

LEMMA CameraImageWritten ==
  ASSUME TypeOK, ImageWritten, Camera
  PROVE  ImageWritten'
<1> USE DEF ImageWritten
<1>1. CASE EndWrite
  BY <1>1 DEF EndWrite, TypeOK
<1>2. CASE SkipBuffer \/ TakeBuffer \/ GrowPool \/ BeginWrite \/ GrabFails \/ SendFrame
  BY <1>2 DEF SkipBuffer, TakeBuffer, GrowPool, BeginWrite, GrabFails, SendFrame
<1> QED BY <1>1, <1>2 DEF Camera

(* The camera changes the image of no buffer in use.                       *)
LEMMA ImagesKept ==
  ASSUME PathInv, Camera
  PROVE  /\ Buffers \subseteq Buffers'
         /\ \A b \in InUse : b \in Buffers /\ pixels'[b] = pixels[b]
<1> USE DEF PathInv, TypeOK, Buffers
<1>1. CASE GrowPool
  BY <1>1, UsedAreBuffers DEF GrowPool
<1>2. CASE BeginWrite \/ EndWrite
  BY <1>2, UsedAreBuffers DEF BeginWrite, EndWrite, WriterAlone
<1>3. CASE SkipBuffer \/ TakeBuffer \/ GrabFails \/ SendFrame
  BY <1>3, UsedAreBuffers DEF SkipBuffer, TakeBuffer, GrabFails, SendFrame
<1> QED BY <1>1, <1>2, <1>3 DEF Camera

LEMMA CameraFramesIntact ==
  ASSUME PathInv, Camera
  PROVE  FramesIntact'
<1> DEFINE IntactNext(m) == m # Null => m.buf \in Buffers' /\ pixels'[m.buf] = m.id
           sent == [id |-> frameId + 1, buf |-> buf]
<1>1. \A m : Intact(m) /\ (m # Null => m.buf \in InUse) => IntactNext(m)
  BY ImagesKept DEF Intact
<1>2. /\ \A c \in Cells : IntactNext(ring.cell[c])
      /\ IntactNext(in)
      /\ \A k \in Slots : IntactNext(frame[k])
  <2>1. /\ \A c \in Cells : Intact(ring.cell[c])
        /\ Intact(in)
        /\ \A k \in Slots : Intact(frame[k])
    BY DEF PathInv, FramesIntact
  <2> HIDE DEF IntactNext
  <2> QED BY <1>1, <2>1, UseMeans
<1>3. in' = in /\ frame' = frame
  BY DEF Camera, inferVars
<1>4. CASE ring' = ring
  BY <1>2, <1>3, <1>4 DEF FramesIntact, Intact
<1>5. CASE SendFrame
  <2>1. ring' = PushReplace(ring, sent) /\ ring \in QueueOf(Messages)
    BY <1>5 DEF SendFrame, PathInv, TypeOK
  <2>2. \A c \in Cells : ring'.cell[c] \in {sent, ring.cell[c]}
    BY <2>1 DEF PushReplace, QueueOf
  <2>3. IntactNext(sent)
    BY <1>5 DEF SendFrame, PathInv, TypeOK, ImageWritten, Buffers
  <2>4. \A c \in Cells : IntactNext(ring'.cell[c])
    <3> HIDE DEF IntactNext, sent
    <3> QED BY <1>2, <2>2, <2>3
  <2> QED BY <1>2, <1>3, <2>4 DEF FramesIntact, Intact
<1> QED BY <1>4, <1>5 DEF Camera

(* The inference node leaves pixels, buffers and the camera alone, and     *)
(* keeps only messages somebody held before.                               *)
LEMMA InferFramesIntact ==
  ASSUME PathInv, Infer
  PROVE  FramesIntact'
<1>1. poolSize' = poolSize /\ pixels' = pixels
  BY DEF Infer, cameraVars
<1>2. \A m : Intact(m) => (m # Null => m.buf \in Buffers' /\ pixels'[m.buf] = m.id)
  BY <1>1 DEF Intact, Buffers
<1>3. /\ \A c \in Cells : Intact(ring'.cell[c])
      /\ Intact(in')
      /\ \A k \in Slots : Intact(frame'[k])
  <2>1. Intact(Null)
    BY DEF Intact
  <2>2. /\ \A c \in Cells : Intact(ring.cell[c])
        /\ Intact(in)
        /\ \A k \in Slots : Intact(frame[k])
    BY DEF PathInv, FramesIntact
  <2>3. /\ \A c \in Cells : ring'.cell[c] \in {Null, ring.cell[c]}
        /\ in' \in {Null, in} \/ \E c \in Cells : in' = ring.cell[c]
        /\ \A k \in Slots : frame'[k] \in {Null, in, frame[k]}
    BY MessagesPassedOn DEF PathInv
  <2> QED BY <2>1, <2>2, <2>3
<1> QED BY <1>2, <1>3 DEF FramesIntact, Intact

LEMMA PathInit ==
  ASSUME Init
  PROVE  PathInv
<1> USE DEF Init
<1>1. \A c \in Cells : ring.cell[c] = Null
  BY DEF EmptyQueue
<1>2. TypeOK
  <2>1. poolSize \in Nat \ {0} /\ nextSlot \in Buffers /\ scanned \in 0 .. poolSize
        /\ buf \in Buffers /\ pixels \in [Buffers -> Nat]
    BY PoolStart DEF Buffers
  <2>2. ring \in QueueOf(Messages)
    BY CapacityAssumption DEF EmptyQueue, QueueOf, Cells
  <2> QED BY <2>1, <2>2 DEF TypeOK
<1>3. IdleSlotsEmpty
  BY DEF IdleSlotsEmpty
<1>4. FramesIntact
  BY <1>1 DEF FramesIntact, Intact
<1> QED BY <1>2, <1>3, <1>4 DEF PathInv, ImageWritten, WriterAlone

LEMMA PathStep ==
  ASSUME PathInv, [Next]_vars
  PROVE  PathInv'
<1>1. CASE Camera
  <2>1. IdleSlotsEmpty'
    BY <1>1 DEF PathInv, IdleSlotsEmpty, Camera, inferVars, Idle, FirstIdle
  <2> QED BY <1>1, <2>1, CameraType, CameraImageWritten, CameraFramesIntact,
             CameraWriterAlone DEF PathInv
<1>2. CASE Infer
  <2>1. ImageWritten'
    BY <1>2 DEF PathInv, ImageWritten, Infer, cameraVars
  <2>2. WriterAlone'
    BY <1>2, ReferencesShrink DEF PathInv, WriterAlone, Infer, cameraVars
  <2> QED BY <1>2, <2>1, <2>2, InferType, InferIdleSlots, InferFramesIntact DEF PathInv
<1>3. CASE UNCHANGED vars
  <2>1. UNCHANGED <<configured, poolSize, nextSlot, scanned, camera, buf, frameId,
                    pixels, ring, infer, in, frame, busy>>
    BY <1>3 DEF vars, cameraVars, inferVars
  <2> QED BY <2>1 DEF PathInv, TypeOK, IdleSlotsEmpty, ImageWritten, FramesIntact,
             WriterAlone, Buffers, Intact, InUse, InRing, InSlots, Idle, FirstIdle
<1> QED BY <1>1, <1>2, <1>3 DEF Next

LEMMA PathInvariant == Spec => []PathInv
<1>1. Init => PathInv
  BY PathInit
<1>2. PathInv /\ [Next]_vars => PathInv'
  BY PathStep
<1> QED BY <1>1, <1>2, PTL DEF Spec

(* Every variable keeps its type, the positions and the buffer number      *)
(* included: nextSlot and buf always name a buffer of the pool.            *)
THEOREM TypeCorrect == Spec => []TypeOK
<1>1. PathInv => TypeOK
  BY DEF PathInv
<1> QED BY <1>1, PathInvariant, PTL

(* Whoever reads a frame reads that frame's image, whole: no buffer is     *)
(* overwritten while the topic, the node or a request refers to it.        *)
THEOREM FramesStayIntact == Spec => []FramesIntact
<1>1. PathInv => FramesIntact
  BY DEF PathInv
<1> QED BY <1>1, PathInvariant, PTL

(* The camera never writes into a buffer somebody refers to.               *)
THEOREM WriterStaysAlone == Spec => []WriterAlone
<1>1. PathInv => WriterAlone
  BY DEF PathInv
<1> QED BY <1>1, PathInvariant, PTL

-----------------------------------------------------------------------------
(* The bound on the pool.                                                  *)

LEMMA ScanInit ==
  ASSUME Init
  PROVE  ScanBounded /\ PoolBounded
<1>1. Passed = {} /\ InUse = {}
  <2>1. 0 .. scanned - 1 = {}
    BY DEF Init
  <2>2. InUse = {}
    BY UseMeans DEF Init, EmptyQueue
  <2> QED BY <2>1, <2>2 DEF Passed
<1>2. IsFiniteSet({}) /\ Cardinality({}) = 0
  BY FS_EmptySet
<1>3. ScanBounded
  BY <1>1, <1>2, CapacityAssumption, FramePathAssumption DEF ScanBounded, Init
<1>4. PoolBounded
  <2>1. poolSize = InitialPool(configured) /\ InitialPool(configured) \in Nat
    BY PoolStart DEF Init
  <2> QED BY <2>1, CapacityAssumption, FramePathAssumption DEF PoolBounded, Enough
<1> QED BY <1>3, <1>4

(* A scan only shrinks what it has passed over or is in use.               *)
LEMMA Shrunk ==
  ASSUME ScanBounded, camera = "scan", NEW T, T \subseteq Passed \cup InUse
  PROVE  IsFiniteSet(T) /\ Cardinality(T) <= Capacity + Workers
<1>1. /\ IsFiniteSet(T)
      /\ Cardinality(T) <= Cardinality(Passed \cup InUse)
  BY FS_Subset DEF ScanBounded
<1>2. Cardinality(T) \in Nat /\ Cardinality(Passed \cup InUse) \in Nat
  BY <1>1, FS_CardinalityType DEF ScanBounded
<1> QED BY <1>1, <1>2, CapacityAssumption, FramePathAssumption DEF ScanBounded

(* A scan that has passed over every buffer has seen a small pool.         *)
LEMMA FullScan ==
  ASSUME TypeOK, ScanBounded, camera = "scan", scanned = poolSize
  PROVE  poolSize <= Capacity + Workers
<1>1. Buffers \subseteq Passed
  <2> SUFFICES ASSUME NEW b \in Buffers PROVE b \in Passed
    OBVIOUS
  <2>1. \E j \in 0 .. poolSize - 1 : (nextSlot + j) % poolSize = b
    BY ModWrap DEF TypeOK, Buffers
  <2> QED BY <2>1 DEF Passed
<1>2. Cardinality(Buffers) = poolSize
  BY FS_Interval DEF TypeOK, Buffers
<1> QED BY <1>1, <1>2, Shrunk

LEMMA InferScan ==
  ASSUME PathInv, ScanBounded, Infer
  PROVE  ScanBounded'
<1>1. UNCHANGED <<camera, scanned, nextSlot, poolSize>>
  BY DEF Infer, cameraVars
<1>2. Passed' = Passed
  BY <1>1 DEF Passed
<1>3. (Passed \cup InUse)' \subseteq Passed \cup InUse
  BY <1>2, ReferencesShrink DEF PathInv
<1>4. CASE camera = "scan"
  BY <1>1, <1>3, <1>4, Shrunk DEF ScanBounded
<1> QED BY <1>1, <1>4 DEF ScanBounded

LEMMA CameraScan ==
  ASSUME PathInv, PathInv', ScanBounded, Camera
  PROVE  ScanBounded'
<1>1. CASE SkipBuffer
  <2>1. /\ camera = "scan" /\ camera' = "scan" /\ Candidate \in InUse
        /\ scanned' = scanned + 1 /\ poolSize' = poolSize /\ nextSlot' = nextSlot
    BY <1>1 DEF SkipBuffer
  <2>2. Passed' \subseteq Passed \cup {Candidate}
    <3>1. 0 .. scanned' - 1 \subseteq (0 .. scanned - 1) \cup {scanned}
      BY <2>1 DEF PathInv, TypeOK
    <3> QED BY <2>1, <3>1 DEF Passed, Candidate
  <2>3. InUse' = InUse
    BY <1>1, CameraReferences DEF SkipBuffer, SendFrame, PathInv
  <2>4. (Passed \cup InUse)' \subseteq Passed \cup InUse
    BY <2>1, <2>2, <2>3
  <2> QED BY <2>1, <2>4, Shrunk DEF ScanBounded
<1>2. CASE SendFrame
  <2>1. camera' = "scan" /\ scanned' = 0
    BY <1>2 DEF SendFrame, ScanBounded
  <2>2. Passed' = {}
    <3>1. 0 .. scanned' - 1 = {}
      BY <2>1
    <3> QED BY <3>1 DEF Passed
  <2>3. (TypeOK /\ IdleSlotsEmpty)'
    BY DEF PathInv
  <2>4. (IsFiniteSet(InUse) /\ Cardinality(InUse) <= Capacity + Workers)'
    BY <2>3, UseBounded, PTL
  <2> QED BY <2>1, <2>2, <2>4 DEF ScanBounded
<1>3. CASE TakeBuffer \/ GrowPool \/ BeginWrite \/ EndWrite \/ GrabFails
  BY <1>3 DEF TakeBuffer, GrowPool, BeginWrite, EndWrite, GrabFails, ScanBounded
<1> QED BY <1>1, <1>2, <1>3 DEF Camera

LEMMA BoundStep ==
  ASSUME PathInv, PathInv', ScanBounded, PoolBounded, [Next]_vars
  PROVE  ScanBounded' /\ PoolBounded'
<1>1. configured' = configured
  BY DEF Next, Camera, Infer, vars
<1>2. ScanBounded'
  <2>1. CASE UNCHANGED vars
    BY <2>1 DEF vars, cameraVars, inferVars, ScanBounded, Passed, InUse, InRing, InSlots
  <2> QED BY <2>1, InferScan, CameraScan DEF Next
<1>3. PoolBounded'
  <2>1. CASE poolSize' = poolSize
    BY <1>1, <2>1 DEF PoolBounded, InitialPool, Enough
  <2>2. CASE GrowPool
    <3>1. poolSize <= Capacity + Workers /\ poolSize' = poolSize + 1
      BY <2>2, FullScan DEF GrowPool, PathInv
    <3>2. poolSize' <= Enough /\ poolSize' \in Nat /\ Enough \in Nat
      BY <3>1, CapacityAssumption, FramePathAssumption DEF Enough, PathInv, TypeOK
    <3>3. InitialPool(configured)' = InitialPool(configured)
          /\ InitialPool(configured) \in Nat
      BY <1>1, PoolStart DEF InitialPool, PathInv, TypeOK
    <3> QED BY <3>2, <3>3 DEF PoolBounded, Enough
  <2> QED BY <2>1, <2>2 DEF Next, Camera, Infer, vars, cameraVars, SkipBuffer,
             TakeBuffer, BeginWrite, EndWrite, GrabFails, SendFrame
<1> QED BY <1>2, <1>3

(* However small the configured pool and however the nodes interleave, the *)
(* pool never exceeds one buffer more than the ring and the requests can   *)
(* hold, or its configured size.                                           *)
THEOREM PoolStaysBounded == Spec => []PoolBounded
<1>1. Init => ScanBounded /\ PoolBounded
  BY ScanInit
<1>2. PathInv /\ PathInv' /\ ScanBounded /\ PoolBounded /\ [Next]_vars
        => ScanBounded' /\ PoolBounded'
  BY BoundStep
<1> QED BY <1>1, <1>2, PathInvariant, PTL DEF Spec

=============================================================================
