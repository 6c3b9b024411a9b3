----------------------------- MODULE FramePath -----------------------------
(***************************************************************************)
(* The life of a frame buffer: the camera node fills a buffer of its pool, *)
(* sends it over FRAME_TOPIC, and the inference node works on it in place. *)
(* No image is copied on the way.  A buffer is a cv::Mat whose reference   *)
(* count tells the camera whether anyone else still uses it: the pool      *)
(* itself holds one reference, and every message in the topic's ring, the  *)
(* message the inference node has just taken, and every request in flight  *)
(* hold one more.                                                          *)
(*                                                                         *)
(* The two nodes run on threads of their own and share the reference       *)
(* counts and the ring, nothing else.  The stop request is left to module  *)
(* AsyncInfer: it is raised only after both nodes have returned.           *)
(***************************************************************************)
EXTENDS RingBufferQueue, FiniteSets

CONSTANTS Workers,      \* requests in flight, max(1, cfg.infer_workers)
          PoolConfigs,  \* values of cfg.frame_buffer_pool_size considered
          MaxFrames     \* bound: the camera delivers this many frames

ASSUME FramePathAssumption ==
  /\ Workers \in Nat \ {0}
  /\ PoolConfigs \subseteq Int
  /\ MaxFrames \in Nat

VARIABLES
  configured,   \* cfg.frame_buffer_pool_size, fixed for a run
  poolSize,     \* frame_pool_.size(): buffers are 0 .. poolSize - 1
  nextSlot,     \* next_frame_slot_
  scanned,      \* buffers acquireFrameBuffer has found in use so far
  camera,       \* where the camera node is
  buf,          \* the buffer it works on
  frameId,      \* frame_id_, the last number given out
  pixels,       \* per buffer, the frame whose image it holds; 0: none whole
  ring,         \* FRAME_TOPIC
  infer,        \* where the inference node is
  in,           \* the message it has taken
  frame,        \* per slot, slot.frame with slot.frame_id
  busy          \* per slot, slot.busy

cameraVars == <<poolSize, nextSlot, scanned, camera, buf, frameId, pixels>>
inferVars == <<infer, in, frame, busy>>
vars == <<configured, cameraVars, ring, inferVars>>

Slots == 1 .. Workers
Buffers == 0 .. poolSize - 1
Messages == [id : Nat, buf : Nat]

\* The pool the camera starts with: as configured, or sized to the workers.
InitialPool(c) ==
  IF c > 0 THEN c
  ELSE IF Workers + 3 > 4 THEN Workers + 3 ELSE 4

Carried(m) == IF m = Null THEN {} ELSE {m.buf}

\* Buffers with a reference besides the pool's own: refcount > 1.
InRing(q) == UNION {Carried(q.cell[c]) : c \in Cells}
InSlots == UNION {Carried(frame[k]) : k \in Slots}
\* Mutant of InUse: requests in flight are forgotten.
InUseByMessages == InRing(ring) \cup Carried(in)

InUse == InRing(ring) \cup Carried(in) \cup InSlots

Idle(k) == ~ busy[k]

FirstIdle(k) == Idle(k) /\ \A j \in Slots : Idle(j) => k <= j

Init ==
  /\ configured \in PoolConfigs
  /\ poolSize = InitialPool(configured)
  /\ nextSlot = 0
  /\ scanned = 0
  /\ camera = "scan"
  /\ buf = 0
  /\ frameId = 0
  /\ pixels = [b \in 0 .. InitialPool(configured) - 1 |-> 0]
  /\ ring = EmptyQueue
  /\ infer = "loop"
  /\ in = Null
  /\ frame = [k \in Slots |-> Null]
  /\ busy = [k \in Slots |-> FALSE]

-----------------------------------------------------------------------------
(* The camera node.  acquireFrameBuffer looks at one buffer after another, *)
(* starting at next_frame_slot_, while the inference node drops references.*)

Candidate == (nextSlot + scanned) % poolSize

\* IsReusableMatBuffer is false: on to the next buffer.
SkipBuffer ==
  /\ camera = "scan"
  /\ frameId < MaxFrames
  /\ scanned < poolSize
  /\ Candidate \in InUse
  /\ scanned' = scanned + 1
  /\ UNCHANGED <<poolSize, nextSlot, camera, buf, frameId, pixels>>

TakeBuffer ==
  /\ camera = "scan"
  /\ frameId < MaxFrames
  /\ scanned < poolSize
  /\ Candidate \notin InUse
  /\ buf' = Candidate
  /\ nextSlot' = (Candidate + 1) % poolSize
  /\ scanned' = 0
  /\ camera' = "grab"
  /\ UNCHANGED <<poolSize, frameId, pixels>>

\* Every buffer was in use when it was looked at: the pool grows by one.
GrowPool ==
  /\ camera = "scan"
  /\ scanned = poolSize
  /\ poolSize' = poolSize + 1
  /\ pixels' = [b \in 0 .. poolSize |-> IF b < poolSize THEN pixels[b] ELSE 0]
  /\ buf' = poolSize
  /\ nextSlot' = 0
  /\ scanned' = 0
  /\ camera' = "grab"
  /\ UNCHANGED frameId

\* grab() converts the SDK's image into the buffer, in place.
BeginWrite ==
  /\ camera = "grab"
  /\ pixels' = [pixels EXCEPT ![buf] = 0]
  /\ camera' = "write"
  /\ UNCHANGED <<poolSize, nextSlot, scanned, buf, frameId>>

EndWrite ==
  /\ camera = "write"
  /\ pixels' = [pixels EXCEPT ![buf] = frameId + 1]
  /\ camera' = "send"
  /\ UNCHANGED <<poolSize, nextSlot, scanned, buf, frameId>>

\* No image within the time-out, or a pixel format it cannot convert: run()
\* returns the error.
GrabFails ==
  /\ camera = "grab"
  /\ camera' = "failed"
  /\ UNCHANGED <<poolSize, nextSlot, scanned, buf, frameId, pixels>>

\* The push drops the reference of the message its cell held before.
SendFrame ==
  /\ camera = "send"
  /\ frameId' = frameId + 1
  /\ ring' = PushReplace(ring, [id |-> frameId + 1, buf |-> buf])
  /\ camera' = "scan"
  /\ UNCHANGED <<poolSize, nextSlot, scanned, buf, pixels>>

Camera ==
  /\ \/ /\ SkipBuffer \/ TakeBuffer \/ GrowPool \/ BeginWrite \/ EndWrite \/ GrabFails
        /\ UNCHANGED ring
     \/ SendFrame
  /\ UNCHANGED <<configured, inferVars>>

-----------------------------------------------------------------------------
(* The inference node.                                                     *)

\* Mutant of FinishSlot: the frame is not released.
FinishKeepsFrame(k) ==
  /\ infer = "loop"
  /\ busy[k]
  /\ busy' = [busy EXCEPT ![k] = FALSE]
  /\ UNCHANGED <<infer, in, frame, ring>>

\* collectCompleted finds the request of slot k complete; finishSlot reads
\* the frame for the last time and drops it.
FinishSlot(k) ==
  /\ infer = "loop"
  /\ busy[k]
  /\ busy' = [busy EXCEPT ![k] = FALSE]
  /\ frame' = [frame EXCEPT ![k] = Null]
  /\ UNCHANGED <<infer, in, ring>>

\* finishSlot throws: the slot is freed, its frame is not, run() returns.
FinishSlotFails(k) ==
  /\ infer = "loop"
  /\ busy[k]
  /\ busy' = [busy EXCEPT ![k] = FALSE]
  /\ infer' = "failed"
  /\ UNCHANGED <<in, frame, ring>>

\* With an idle request, the newest frame is taken from the topic.
ReceiveFrame ==
  /\ infer = "loop"
  /\ \E k \in Slots : Idle(k)
  /\ ~ IsEmpty(ring)
  /\ in' = Front(ring)
  /\ ring' = Pop(ring)
  /\ infer' = "submit"
  /\ UNCHANGED <<frame, busy>>

\* submit: the first idle slot shares the frame, preprocess reads it ...
FillSlot(k) ==
  /\ infer = "submit"
  /\ FirstIdle(k)
  /\ frame' = [frame EXCEPT ![k] = in]
  /\ infer' = "start"
  /\ UNCHANGED <<in, busy, ring>>

\* ... and the request starts; the message goes out of scope.
StartRequest(k) ==
  /\ infer = "start"
  /\ FirstIdle(k)
  /\ busy' = [busy EXCEPT ![k] = TRUE]
  /\ in' = Null
  /\ infer' = "loop"
  /\ UNCHANGED <<frame, ring>>

Infer ==
  /\ \/ ReceiveFrame
     \/ \E k \in Slots :
          FinishSlot(k) \/ FinishSlotFails(k) \/ FillSlot(k) \/ StartRequest(k)
  /\ UNCHANGED <<configured, cameraVars>>

Next == Camera \/ Infer

Spec == Init /\ [][Next]_vars

-----------------------------------------------------------------------------

TypeOK ==
  /\ configured \in PoolConfigs
  /\ poolSize \in Nat \ {0}
  /\ nextSlot \in Buffers
  /\ scanned \in 0 .. poolSize
  /\ camera \in {"scan", "grab", "write", "send", "failed"}
  /\ buf \in Buffers
  /\ frameId \in Nat
  /\ pixels \in [Buffers -> Nat]
  /\ ring \in QueueOf(Messages)
  /\ infer \in {"loop", "submit", "start", "failed"}
  /\ in \in Messages \cup {Null}
  /\ frame \in [Slots -> Messages \cup {Null}]
  /\ busy \in [Slots -> BOOLEAN]

(* A message's buffer holds the image of the message's frame, whole.       *)
Intact(m) == m # Null => m.buf \in Buffers /\ pixels[m.buf] = m.id

(* Whoever reads a frame reads that frame: the buffers of all messages in  *)
(* the topic, of the message just taken and of all requests in flight hold *)
(* their own frame's image, though the camera writes without a lock.       *)
(* Code: IsReusableMatBuffer and the references FrameMParam and AsyncSlot  *)
(* keep; a skipped ring cell counts as a reference too.                    *)
FramesIntact ==
  /\ \A c \in Cells : Intact(ring.cell[c])
  /\ Intact(in)
  /\ \A k \in Slots : Intact(frame[k])

(* While the camera writes into a buffer nobody else refers to it.         *)
(* Code: the reference count is read before grab(), and only the camera    *)
(* can hand out a reference to a buffer that has none.                     *)
WriterAlone == camera \in {"grab", "write", "send"} => buf \notin InUse

(* The pool grows at most until it has one buffer more than the ring's     *)
(* cells and the requests can hold: one sized to the workers never grows   *)
(* (the ring has 2 cells and the pool Workers + 3 buffers), a smaller one  *)
(* stops growing there.                                                    *)
(* Code: the sizing in CameraPubNode::init against acquireFrameBuffer.     *)
Enough == Capacity + Workers + 1

PoolBounded ==
  poolSize <= IF InitialPool(configured) > Enough THEN InitialPool(configured) ELSE Enough

=============================================================================
