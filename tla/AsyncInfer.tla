----------------------------- MODULE AsyncInfer -----------------------------
(***************************************************************************)
(* The inference node: YoloInferNode::run drives the requests of           *)
(* YoloOpenvino.  Round after round it collects the requests that are      *)
(* complete, in the order of their slots, publishes the results through    *)
(* the corner filter, and submits the newest frame to an idle request.     *)
(* When a stop is requested it waits for all requests and publishes what   *)
(* they still return.                                                      *)
(*                                                                         *)
(* Beside the node run the camera, which replaces the frame on offer,      *)
(* OpenVINO, whose requests complete in any order and call back from       *)
(* threads of their own, and whoever requests the stop.  OpenVINO is       *)
(* external: of its order nothing is assumed, a request may call back      *)
(* before or after it shows as complete.                                   *)
(***************************************************************************)
EXTENDS Integers, Sequences

CONSTANTS Workers,      \* async_request_count_ = max(1, cfg.infer_workers)
          MaxFrames,    \* bound: the camera sends this many frames
          EmaEnable,    \* cfg.ema_enable
          ResetGap      \* cfg.ema_reset_frame_gap, at least 1

ASSUME AsyncInferAssumption ==
  /\ Workers \in Nat \ {0}
  /\ MaxFrames \in Nat
  /\ EmaEnable \in BOOLEAN
  /\ ResetGap \in Nat \ {0}

VARIABLES
  stop,         \* g_stop
  sent,         \* frames the camera has sent
  topic,        \* the frame FRAME_TOPIC holds; 0: none
  pc,           \* where the node is
  at,           \* the slot collectCompleted or waitAll looks at
  in,           \* the frame just received; 0: none
  work,         \* per slot, the frame it is busy with; 0: not busy
  results,      \* ready_results_ or tail_results_, by frame
  filter,       \* YoloResultFilter: initialized_ and last_frame_id_
  published,    \* what went to RESULT_TOPIC, in order
  request,      \* OpenVINO, per slot: the state of its request
  calls,        \* OpenVINO: callbacks still to come, <<slot, failed>>
  notified,     \* completion_.notified
  exception     \* completion_.exception is set

nodeVars == <<pc, at, in, work, results, filter, published>>
vars == <<stop, sent, topic, nodeVars, request, calls, notified, exception>>

Slots == 1 .. Workers
Frames == 1 .. MaxFrames

Idle(k) == work[k] = 0

FirstIdle(k) == Idle(k) /\ \A j \in Slots : Idle(j) => k <= j

NoFilter == [initialized |-> FALSE, last |-> 0]

Init ==
  /\ stop = FALSE
  /\ sent = 0
  /\ topic = 0
  /\ pc = "loop"
  /\ at = 1
  /\ in = 0
  /\ work = [k \in Slots |-> 0]
  /\ results = <<>>
  /\ filter = NoFilter
  /\ published = <<>>
  /\ request = [k \in Slots |-> "idle"]
  /\ calls = {}
  /\ notified = FALSE
  /\ exception = FALSE

-----------------------------------------------------------------------------
(* Camera and stop request.                                                *)

SendFrame ==
  /\ sent < MaxFrames
  /\ sent' = sent + 1
  /\ topic' = sent + 1
  /\ UNCHANGED <<stop, nodeVars, request, calls, notified, exception>>

RequestStop ==
  /\ stop' = TRUE
  /\ UNCHANGED <<sent, topic, nodeVars, request, calls, notified, exception>>

-----------------------------------------------------------------------------
(* OpenVINO.  A run ends well or fails; then it shows to wait() and        *)
(* wait_for(), and it calls notifyRequestCompleted, in either order.       *)

EndRun(k, failed) ==
  /\ request[k] = "running"
  /\ request' = [request EXCEPT ![k] = IF failed THEN "failing" ELSE "ending"]
  /\ calls' = calls \cup {<<k, failed>>}
  /\ UNCHANGED <<stop, sent, topic, nodeVars, notified, exception>>

ShowRun(k) ==
  /\ request[k] \in {"ending", "failing"}
  /\ request' = [request EXCEPT ![k] = IF @ = "failing" THEN "error" ELSE "ready"]
  /\ UNCHANGED <<stop, sent, topic, nodeVars, calls, notified, exception>>

notifyRequestCompleted(k, failed) ==
  /\ <<k, failed>> \in calls
  /\ calls' = calls \ {<<k, failed>>}
  /\ exception' = (exception \/ failed)
  /\ notified' = TRUE
  /\ UNCHANGED <<stop, sent, topic, nodeVars, request>>

OpenVINO ==
  \E k \in Slots :
    \/ ShowRun(k)
    \/ \E failed \in BOOLEAN : EndRun(k, failed) \/ notifyRequestCompleted(k, failed)

-----------------------------------------------------------------------------
(* The node.                                                               *)

\* while (!IsYoloStopRequested()): another round, or the tail.
StartRound ==
  /\ pc = "loop"
  /\ pc' = IF stop THEN "drain" ELSE "consume"
  /\ results' = <<>>
  /\ at' = 1
  /\ UNCHANGED <<topic, in, work, filter, published, request, notified, exception>>

consumeCallbackException ==
  /\ pc = "consume"
  /\ pc' = IF exception THEN "failed" ELSE "collect"
  /\ exception' = FALSE
  /\ UNCHANGED <<topic, at, in, work, results, filter, published, request, notified>>

\* Mutant of PassSlot: waitAll does not wait either.
PassRunning ==
  /\ pc \in {"collect", "drain"}
  /\ at \in Slots
  /\ Idle(at) \/ request[at] \notin {"ready", "error"}
  /\ at' = at + 1
  /\ UNCHANGED <<topic, pc, in, work, results, filter, published, request,
                 notified, exception>>

\* collectCompleted passes over a slot that is idle or whose request runs;
\* waitAll only over an idle one.
PassSlot ==
  /\ pc \in {"collect", "drain"}
  /\ at \in Slots
  /\ \/ Idle(at)
     \/ pc = "collect" /\ request[at] \notin {"ready", "error"}
  /\ at' = at + 1
  /\ UNCHANGED <<topic, pc, in, work, results, filter, published, request,
                 notified, exception>>

\* Mutant of finishSlot: trusts the callback, which may come early.
FinishOnCallback ==
  /\ pc \in {"collect", "drain"}
  /\ at \in Slots
  /\ ~ Idle(at) /\ request[at] \in {"ending", "ready"}
  /\ results' = Append(results, work[at])
  /\ work' = [work EXCEPT ![at] = 0]
  /\ at' = at + 1
  /\ UNCHANGED <<topic, pc, in, filter, published, request, notified, exception>>

\* finishSlot turns the output into a result and frees the slot.
finishSlot ==
  /\ pc \in {"collect", "drain"}
  /\ at \in Slots
  /\ ~ Idle(at) /\ request[at] = "ready"
  /\ results' = Append(results, work[at])
  /\ work' = [work EXCEPT ![at] = 0]
  /\ at' = at + 1
  /\ UNCHANGED <<topic, pc, in, filter, published, request, notified, exception>>

\* It throws: the slot is freed and run() returns the error, and with it go
\* the results collected in this round.
FinishFails ==
  /\ pc \in {"collect", "drain"}
  /\ at \in Slots
  /\ ~ Idle(at) /\ request[at] = "ready"
  /\ work' = [work EXCEPT ![at] = 0]
  /\ pc' = "failed"
  /\ UNCHANGED <<topic, at, in, results, filter, published, request, notified, exception>>

\* Mutant of RequestThrows: the slot is freed and the error passed over.
PassFailed ==
  /\ pc \in {"collect", "drain"}
  /\ at \in Slots
  /\ ~ Idle(at) /\ request[at] = "error"
  /\ work' = [work EXCEPT ![at] = 0]
  /\ at' = at + 1
  /\ UNCHANGED <<topic, pc, in, results, filter, published, request,
                 notified, exception>>

\* wait_for() or wait() rethrows what the inference threw.
RequestThrows ==
  /\ pc \in {"collect", "drain"}
  /\ at \in Slots
  /\ ~ Idle(at) /\ request[at] = "error"
  /\ pc' = "failed"
  /\ UNCHANGED <<topic, at, in, work, results, filter, published, request,
                 notified, exception>>

\* Mutant of AllCollected: what waitAll collected is one more round.
CollectedAsRound ==
  /\ pc \in {"collect", "drain"}
  /\ at > Workers
  /\ pc' = "publish"
  /\ UNCHANGED <<topic, at, in, work, results, filter, published, request,
                 notified, exception>>

AllCollected ==
  /\ pc \in {"collect", "drain"}
  /\ at > Workers
  /\ pc' = IF pc = "collect" THEN "publish" ELSE "tail"
  /\ UNCHANGED <<topic, at, in, work, results, filter, published, request,
                 notified, exception>>

\* Mutant of StartsOver: the order of the frames is not looked at.
StartsOverOnGap(id) == ~ filter.initialized \/ id - filter.last > ResetGap

\* YoloResultFilter::apply starts over with this result.
StartsOver(id) ==
  \/ ~ filter.initialized
  \/ id <= filter.last
  \/ id - filter.last > ResetGap

\* One result goes through the filter and out.  Whether the network found
\* an armor in the frame is part of the input.
Publish(corners) ==
  LET id == Head(results)
      filtered == EmaEnable /\ corners
  IN /\ pc \in {"publish", "tail"}
     /\ results # <<>>
     /\ filter' = IF ~ corners THEN NoFilter
                  ELSE IF EmaEnable THEN [initialized |-> TRUE, last |-> id]
                  ELSE filter
     /\ published' = Append(published,
                       [id |-> id, corners |-> corners,
                        blended |-> filtered /\ ~ StartsOver(id)])
     /\ results' = Tail(results)
     /\ UNCHANGED <<topic, pc, at, in, work, request, notified, exception>>

AllPublished ==
  /\ pc \in {"publish", "tail"}
  /\ results = <<>>
  /\ pc' = IF pc = "publish" THEN "choose" ELSE "done"
  /\ UNCHANGED <<topic, at, in, work, results, filter, published, request,
                 notified, exception>>

\* Mutant of waitForCompletionSignal: waits without a time-out.
WaitForCallback ==
  /\ pc = "choose"
  /\ \A k \in Slots : ~ Idle(k)
  /\ notified
  /\ notified' = FALSE
  /\ pc' = "loop"
  /\ UNCHANGED <<topic, at, in, work, results, filter, published, request, exception>>

\* Without an idle request: wait for a notification, but at most 1 ms.
waitForCompletionSignal ==
  /\ pc = "choose"
  /\ \A k \in Slots : ~ Idle(k)
  /\ notified' = FALSE
  /\ pc' = "loop"
  /\ UNCHANGED <<topic, at, in, work, results, filter, published, request, exception>>

Receive ==
  /\ pc = "choose"
  /\ \E k \in Slots : Idle(k)
  /\ topic # 0
  /\ in' = topic
  /\ topic' = 0
  /\ pc' = "submit"
  /\ UNCHANGED <<at, work, results, filter, published, request, notified, exception>>

ReceiveTimesOut ==
  /\ pc = "choose"
  /\ \E k \in Slots : Idle(k)
  /\ topic = 0
  /\ pc' = "loop"
  /\ UNCHANGED <<topic, at, in, work, results, filter, published, request,
                 notified, exception>>

submit(k) ==
  /\ pc = "submit"
  /\ FirstIdle(k)
  /\ work' = [work EXCEPT ![k] = in]
  /\ request' = [request EXCEPT ![k] = "running"]
  /\ in' = 0
  /\ pc' = "loop"
  /\ UNCHANGED <<topic, at, results, filter, published, notified, exception>>

Node ==
  /\ \/ StartRound \/ consumeCallbackException
     \/ PassSlot \/ finishSlot \/ FinishFails \/ RequestThrows \/ AllCollected
     \/ \E corners \in BOOLEAN : Publish(corners)
     \/ AllPublished
     \/ waitForCompletionSignal \/ Receive \/ ReceiveTimesOut
     \/ \E k \in Slots : submit(k)
  /\ UNCHANGED <<stop, sent, calls>>

Next == SendFrame \/ RequestStop \/ OpenVINO \/ Node

Spec == Init /\ [][Next]_vars

\* The node's thread runs, and OpenVINO brings every run to an end, shows it
\* and calls back.  Camera and stop request promise nothing.
Fairness ==
  /\ WF_vars(Node)
  /\ \A k \in Slots :
       /\ WF_vars(\E failed \in BOOLEAN : EndRun(k, failed))
       /\ WF_vars(ShowRun(k))
       /\ WF_vars(\E failed \in BOOLEAN : notifyRequestCompleted(k, failed))

FairSpec == Spec /\ Fairness

-----------------------------------------------------------------------------

TypeOK ==
  /\ stop \in BOOLEAN
  /\ sent \in 0 .. MaxFrames
  /\ topic \in 0 .. MaxFrames
  /\ pc \in {"loop", "consume", "collect", "publish", "choose", "submit",
             "drain", "tail", "done", "failed"}
  /\ at \in 1 .. Workers + 1
  /\ in \in 0 .. MaxFrames
  /\ work \in [Slots -> 0 .. MaxFrames]
  /\ results \in Seq(Frames)
  /\ filter \in [initialized : BOOLEAN, last : 0 .. MaxFrames]
  /\ published \in Seq([id : Frames, corners : BOOLEAN, blended : BOOLEAN])
  /\ request \in [Slots -> {"idle", "running", "ending", "failing", "ready", "error"}]
  /\ calls \subseteq Slots \X BOOLEAN
  /\ notified \in BOOLEAN
  /\ exception \in BOOLEAN

(* A request is only started when its run before is over: submit() never   *)
(* meets a request that OpenVINO still works on, in which the input buffer *)
(* is still read.                                                          *)
(* Code: slot.busy, kept by submit and finishSlot, stands for the request. *)
FreeSlotsRest == \A k \in Slots : Idle(k) => request[k] \in {"idle", "ready"}

(* Corners are only blended into what was published right before, and only *)
(* if that had corners, is older, and by no more than ema_reset_frame_gap: *)
(* results that come out of order, or after a result without corners,      *)
(* start the filter over.                                                  *)
(* Code: YoloResultFilter::apply in the order publishResults calls it.     *)
BlendsForward ==
  \A n \in DOMAIN published :
    published[n].blended =>
      /\ n > 1
      /\ published[n - 1].corners
      /\ published[n - 1].id < published[n].id
      /\ published[n].id - published[n - 1].id <= ResetGap

(* The node is an InferService: it answers each frame it takes once, and   *)
(* has answered all of them when it stops without an error.                *)
Elements(s) == {s[n] : n \in DOMAIN s}

Taken == ({in} \cup {work[k] : k \in Slots} \cup Elements(results)) \ {0}

Service == INSTANCE InferService WITH
  offered <- topic,
  pending <- Taken,
  answered <- [n \in DOMAIN published |-> published[n].id],
  outcome <- IF pc \in {"done", "failed"} THEN pc ELSE "running"

ImplementsService == Service!Spec

(* No frame is answered twice.                                             *)
(* Code: slot.busy between submit, collectCompleted and waitAll.           *)
AnsweredOnce ==
  \A m, n \in DOMAIN published : published[m].id = published[n].id => m = n

(* A frame that was submitted is answered, unless the node ends with an    *)
(* error; no callback has to come in time for that.                        *)
(* Code: the 1 ms bound of waitForCompletionSignal.                        *)
EverySubmitAnswered ==
  \A i \in Frames :
    (\E k \in Slots : work[k] = i) ~>
      (pc = "failed" \/ \E n \in DOMAIN published : published[n].id = i)

(* A requested stop ends the node.  Code: the loop's condition and waitAll.*)
StopEnds == stop ~> pc \in {"done", "failed"}

(* An inference that failed ends the node with an error; it is not passed  *)
(* over.  Code: consumeCallbackException and the rethrow of wait_for, wait.*)
ErrorsSurface == (\E k \in Slots : request[k] = "error") ~> pc = "failed"

=============================================================================
