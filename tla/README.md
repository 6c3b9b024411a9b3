# Formal models of the auto-aim detector

This directory models `2027rm_ws/src`, a RoboMaster auto-aim program in C++20, in TLA+.
Six nodes run in parallel on the thread pool of CGraph (vendored under
`2027rm_ws/include/CGraph/src`): a camera node, an asynchronous inference node on OpenVINO, a
pose solver (PnP), a tracker (CKF), a display node and a serial link to the IMU. They share
nothing but message topics, pooled messages, pooled frame buffers and a stop flag.

The program has no tests of its own. What makes it hard is what the nodes share without copying:
an image travels from the SDK to the network in one buffer, whose reference count is the only
thing that keeps the camera from writing over it; messages come from pools and return to them on
whatever thread drops them last; inference requests end in any order, call back from threads of
their own, fail, and have to be drained when the program stops; and all of it stands on a thread
pool whose threads steal from each other, fall asleep and have to be woken.

## Inventory

Paths are below `2027rm_ws/src` unless they start with `CGraph`.

| Component | State | Operations | Hard behaviour | What makes it correct |
|---|---|---|---|---|
| Message topics (`CGraph/.../UAtomicRingBufferQueue.h`, `GMessageManager.h`) | per connection a ring: cells, head, tail | bind, publish/send with REPLACE, receive with time-out | publisher and readers interleave; a full ring skips its oldest message; a message reaches one subscriber before another | only the oldest messages are lost, never the newest; no reader steps back |
| Message pools (`common/message_pool.hpp`) | owned objects, free list | preallocate, acquire, deleter | the deleter's reset runs outside the lock, on any thread, even inside another send | one owner per object; a message is read as it was sent; the pool stops growing |
| Frame path (`vision/yolo.cpp` `CameraPubNode`, `camera/camera.cpp` `grab`) | pool of `cv::Mat`, next slot, frame number | acquire a buffer, grab into it, send it | reference counts are read while another thread changes them; skipped ring cells keep references; the pool grows | a frame is never overwritten while anyone may read it; the pool stops growing |
| Camera driver (`camera/camera.cpp`) | the SDK's handle, borrowed images | init, grab, shutdown | every call of `init` may fail; shutdown from `destroy()`, from the destructor, or after a failed node's `init` | an image is borrowed only while the stream is on; the camera is given back |
| Inference node (`vision/yolo.cpp` `YoloInferNode`, `vision/yolo_openvino.cpp`) | slots with requests, completion signal, corner filter | collect, publish, wait, receive, submit, drain | any order of completion and callback, lost wake-ups, failures halfway, stop in flight | each frame taken is answered at most once, and all of them before a good end; errors surface; corners blend forward only |
| Image preparation and classifier (`vision/yolo_openvino.cpp`) | per slot: canvas, fit, size it was made for | preprocess, classify | fit and padding are kept from frame to frame, per slot | the canvas is grey around the picture; a result is taken back with its own frame's fit |
| Detection postprocessing (`vision/postprocess.cpp`) | output layout, class table | layout, class filter, boxes, corners, top-k, NMS, best | the layout is guessed once; ties, caps, malformed corners | what is published is one armor of its frame, of the wanted colour, its corners in order, and no likelier one is missed |
| PnP node (`pose/pnp_solver.cpp`) | last frame solved | receive, solve, publish pose or no-pose | results out of order, the newest only | poses are published in the order of their frames; the last result is not lost |
| Tracker (`pose/Tracker.cpp`) | filter state, locked name, counters | predict, gate, update, re-initialise | long sequences of gate failures and foreign names | lock given up only after 30 foreign names, start-over after 3 failed gates |
| Display node (`display/display_node.cpp`) | latest pose, statistics | receive a result, drain poses, draw | pose lags or overtakes the frame | the drawn pose never jumps back to an earlier frame |
| Serial link (`serial/*.cpp`) | file descriptor, parser state | open, read, resynchronise, decode, publish | partial reads, wrong bytes, reconnects | only whole frames are published, in order; the parser gets in step again |
| Thread pool and engine (`CGraph/src/UtilsCtrl/ThreadPool`, `GDynamicEngine.cpp`) | queues with their locks, threads, counters of empty rounds, count of ended elements | push, pop, steal, sleep, notify, run all, destroy | locks only tried, notifications without the waiter's mutex, tasks that never return | every element runs once; nobody sleeps through its notification; no queue is read after its end |
| Process lifecycle (`app/startup_main.cpp`, `common/thread_startup.hpp`, CGraph's pipeline) | where main is, tasks, stop flag | dump, init, run, join, destroy, clear, stop | failures in any node, too few threads, the stop after the join | nodes run between init and destroy; every node gets a thread |
| Configuration (`app/yolo_config_loader.cpp`) | `AppConfig` | load section by section, fall back | an exception halfway keeps what was read | the threads cover the nodes whatever was read |
| Profiling (`common/profiling.cpp`) | counters under a mutex | record, log and reset | none: one mutex for everything | nothing but log lines depends on it |
| Helpers, tools, SDKs | | | | not modelled, see below |

How they interact: camera -> `FRAME_TOPIC` (send/receive, one reader) -> inference -> `RESULT_TOPIC`
(publish/subscribe, read by PnP and display) -> PnP -> `PNP_TOPIC` (read by tracker and display) ->
tracker -> `RGO_OUTPUT_TOPIC`; serial -> `IMU_TOPIC`. Every topic is created with size 2, of which the
ring uses one cell: a topic holds one message. The stop flag `g_stop` is read by all loops except
the PnP node's, and set once, after the pipeline is gone.

## Modules

| Module | Kind | Models |
|---|---|---|
| `RingBufferQueue` | functions | the ring under its mutex: constructor, `push(REPLACE)`, `waitPopWithTimeout` |
| `LatestChannel` | abstract specification | a channel to several readers that keeps the newest messages |
| `MessageTopic` | component | a publish/subscribe topic: one ring per subscriber |
| `MessagePool` | component | `SharedParamPool` with its deleters |
| `MessageFlow` | composition | `MessageTopic` and `MessagePool`: the rings keep references to the pool's objects; implements `LatestChannel` |
| `FramePath` | composition | camera node, `FRAME_TOPIC` and the frame references of the inference node |
| `InferService` | abstract specification | takes the newest frame, answers each one once, stops or gives up |
| `AsyncInfer` | component | the inference node with its requests and callbacks; implements `InferService` |
| `Detection` | component | from a frame to the armor published: fit, network output, postprocessing, choice |
| `PosePath` | composition | PnP node, display node and the tracker's input over `RESULT_TOPIC` and `PNP_TOPIC`, which are taken as `LatestChannel`s |
| `TrackerLock` | component | which armor the tracker follows: locked name, counters, restarts |
| `SerialLink` | component | the reader of the IMU's serial line: parser, coroutine, polling, reopening; the line and the device |
| `TaskPool` | abstract specification | every element offered is run once, or passed over after an error |
| `ThreadPool` | component | CGraph's primary threads, their queues, and the engine; implements `TaskPool` |
| `Pipeline` | component | configuration, main, the nodes as tasks of the pool, initialisation, failure and the stop |
| `CameraDriver` | component | the camera's handle: init, grab and shutdown |
| `Process` | composition | `Pipeline` and `CameraDriver`: the camera node's part in the process, call by call |
| `MC*` | model checking | constants for the runs |
| `*Proofs` | proofs | theorems; `MessageFlowProofs` covers topic, pool and flow, `PipelineProofs` process, camera and thread pool |

A definition named as the mutant of another is an erroneous variant of it, written the way a plausible
bug would be. It is not part of any specification: it documents what the property listed with it in
`PROJECT.json` is there to catch, and TLC finds that property violated when the variant takes the
original's place.

### How the models correspond to the code

**RingBufferQueue.** A queue is a record `head`, `tail`, `cell`. The mutex makes each operation
atomic, so each is a function. `PushReplace` moves the head over the oldest message of a full ring
*without clearing its cell*, as the code does: that cell still owns a reference until `tail` comes by.
`Pop` clears it, because the code moves the pointer out. WAIT and DROP are not used by the program.

**MessageTopic.** `Publish` starts `pubTopicValue`, `Send(s)` is one turn of its loop over the connections,
`Receive(s)` a `subTopicValue` that finds a message; a time-out changes nothing. Publisher and
subscribers interleave between any two of them. There is one publisher, as in the program.

**MessagePool.** A place is anything that holds a `shared_ptr`: the maker's local, a ring cell, a
reader's local. `Drop` of the last reference starts the deleter at that place, which does nothing else
until `Reset` and `Release` are done; only `acquire` and `Release` take the pool's lock.

**MessageFlow.** Each step is one of the pool, one of the topic, or one of each: `Begin` fills a message and
starts its publication, `Put(s)` copies the reference into the cell that `Send(s)` writes, `Take(s)` moves
it out of the cell that `Receive(s)` reads. A cell that REPLACE skipped still holds its message; when the tail
comes by again, `Replace(s)` drops it first. If that was the last reference its deleter runs there, in the
middle of a send, while the sender holds the queue's mutex (`replacing`), and no reader can take from that queue.

**FramePath.** `SkipBuffer`, `TakeBuffer` and `GrowPool` are the turns and the end of the loop in
`acquireFrameBuffer`: one buffer per step, so that the inference node drops and passes on references
between two looks. `BeginWrite` and `EndWrite` are the conversion in `grab`, in which the image is
neither the old nor the new one. `SendFrame` gives the frame its number and pushes it; the local
references of the message pool are left out because `msg` dies before the next acquire. `InUse` is
what `refcount > 1` means: a buffer in a ring cell, in the message just received or in a slot. A slot
whose `finishSlot` threw keeps its frame, since `release()` is skipped. The reference count is read as
one aligned load, as on the x86 machines the HIK libraries are for.

**AsyncInfer.** `pc` follows `YoloInferNode::run`; `at` is the loop variable of `collectCompleted` and
`waitAll`. `PassSlot`, `finishSlot`, `FinishFails` and `RequestThrows` are the ways through the loop's body.
OpenVINO is external: a run ends (`EndRun`), shows to `wait`/`wait_for` (`ShowRun`) and calls back
(`notifyRequestCompleted`), the latter two in either order. Two callbacks of the same slot with the same
outcome that are both still to come count as one; nothing depends on their number, as `notified` and
`exception` are flags. `waitForCompletionSignal` always returns, after a notification or 1 ms.
`submit` is one step because nobody else looks at a slot, and because a request that ends before `busy`
is set is not looked at before. The topic holds the newest frame, which is what `MessageTopic` shows of
a ring with one usable cell.

**Detection.** `Submit` is `preprocess`: the fit (`Scale`, `FitW`, `PadW`...) in exact fractions with the
code's rounding, the size the slot was last prepared for, and of each watched pixel of the slot's canvas the size of the
frame it shows, or that it shows none and is grey, as all of the canvas is at the start. `Finish` is `YoloPostprocessor::run` with `finishSlot`: the layout guessed from the first output of all, the class
table, the decoding of box and corners back into the frame, top-k, `NMSBoxes` and the choice of the best. Ties are any
order the partial sort and OpenCV may leave. Probabilities and coordinates are integers in units of
1/`Unit`. The networks and `NMSBoxes` are external: the first shows each candidate where the canvas shows
it, the classifier names the number inside the corners it is given or is not sure.

**ThreadPool.** A thread is at a `place`; `probe` counts the queues it has tried in this round, its own first. The
queue's lock is only ever tried (`PassQueue` is both an empty queue and a lock somebody holds), from the front of its
own queue, from the back of another's. `DozeOff`, `FallAsleep`, `GetUp`, `SleepOn` and `Timeout` are `fatWait`, in which the
wait's condition reads the queue without the queue's lock. The engine lays its elements out in rows, locks a
row's queue while it pushes (`PushRow`), resets the thread's count of empty rounds under the thread's mutex and notifies
after it. `CountTask` and `TellEngine` are the end of `parallelRunOne`, `Check` its counterpart in
`parallelRunAll`. `StopThread` to `DeleteThread` are `UThreadPool::destroy`. The program uses no secondary threads and
no monitor, so there are none.

**Pipeline.** `main` follows the loading of the configuration, `main()` and `GPipeline::process`. `ReadYolo`,
`ReadPnp`, `ReadSerial` and `Loaded` are the sections of `LoadYoloConfig` that decide which nodes run and on how
many threads; `LoadFails` is an exception anywhere, after which the values read so far stay and `Raised`
applies all the same. `DumpGraph` is what `CGRAPH_DUMP_DOT_PATH` and `CGRAPH_DUMP_ONLY` make of the start; with the latter the
nodes are registered as a chain (`Before`), and the engine then runs them without a look at errors. A thread
takes any waiting task, which is what `ThreadPool` shows of all its queues (`TaskPool`'s `Start`). After a failure
tasks that start do nothing (`SkipNode`). `ReturnNode` covers both nodes that are switched off and nodes that see the stop.

**CameraDriver and Process.** `Following` lists the calls of `HikCameraNode::init` whose results are checked; each
succeeds or fails, and a failure shuts down what there is. `BorrowImage` and `ReturnImage` are
`MV_CC_GetImageBuffer` and `MV_CC_FreeImageBuffer` around the conversion, `NoImage` the second that passes without an image.
`Process` takes every step of `Pipeline` with what it does to the camera: `CameraPubNode::init` is the driver's
init call by call, its `run()` grabs until an image fails, `destroy()` and the destructor shut down.

**PosePath.** The inference node is reduced to what `AsyncInfer` shows of it: it takes frames in order and
publishes each once, in any order two requests allow. A publication reaches its subscribers one after
another (`SendResult`, `SendAnswer`). `AnswerNoCorners`, `DropStale` and `Solve` are the ways through the
PnP node's loop; everything between the receive and the publication touches only the node's own
variables and is one step. A frame without any solved armor is answered without a pose, whether the
status is "depth_rejected" or "failed". `DrainPnpResult` is one turn of the loop of that name. `Matched`
need not look at the function's result: an answer of the shown frame itself is in `latest_pnp_` as well.
The model has `debug.foxglove_enable` and `rigid_constraint_enable` true, as in the configuration.

**TrackerLock.** `Receive` starts a frame with a pose; `StartFilter`, `SkipForeign`, `MissGate`, `RejectUpdate`
and `Correct` are the ways through the loop over its armors; `KeepTracking`, `CountStranger`, `SwitchTarget`,
`CountMiss` and `Reinit` are the ways to its end. The gate and the filter's update are floating-point
arithmetic: whether an armor is outside the gate, rejected or accepted is any choice. The PnP node
only passes on armors with a pose, so the loop's first test never fails. `selected_slot_`, the published
output and frames without a pose, which only predict, change nothing the lock depends on.

**SerialLink.** The coroutine's place is `want` with the bytes `got` so far: which `ReadExact` of
`ReadFramesAsync` it is in. `ReadSome` and `Suspend` are the turns of `tryRead`, `PollOnce` is the loop's call
of the awaiter, `SkipByte` to `TakeFrame` are the ways on after a `ReadExact`. An exception's way through the
task to the catch block is one step (`ReadFails`), since nobody else runs in between, and so is a stop's
way out of both loops (`Return`). `since` and `published` are histories. The line and the device are the
environment: `Send` puts a frame on the line, whole, with a piece cut out, or with a changed byte, and with a
`kSof` or a whole false header somewhere in its body. The checksums are taken as perfect: they are right for bytes
that were sent as one piece, and a false header (one that happens to have a right CRC8) is a piece of
its own. A port that is hung up reads 0 bytes for good.

## Runs

| Run | Bounds | Shows |
|---|---|---|
| `messages` | 2 subscribers, rings of 2 cells, a pool of 1 object at first, 5 messages | `ReadAsSent`, `OneOwner`, `PoolBounded`, the refinement of `LatestChannel` |
| `frame_path` | 2 cells, 2 requests, pool configured as 0 (default) or 1, 7 frames | `FramesIntact`, `PoolBounded` |
| `async_infer` | 2 requests, 3 frames, gap 1 | the refinement of `InferService`, `FreeSlotsRest`, `BlendsForward`, `EverySubmitAnswered`, `StopEnds`, `ErrorsSurface` |
| `detection` | canvas of 32 by 32, 2 requests, 9 frames of 3 sizes and 7 scenes, 5 configurations; unbounded length | `StripsGrey`, `OneArmor`, `ColourKept`, `CornersOrdered`, `BestPublished` |
| `thread_pool` | 3 elements on 2 threads, 2 on 3, and 2 on 2 with two rounds before sleeping; any of them endless or failing; steal range 1 | `SleepersGetWord`, `EngineGetsWord`, `QueuesOutliveThieves`, the refinement of `TaskPool`, `EveryTaskStarts`, `PoolEnds` |
| `pipeline` | any setting of the dump, serial on/off, thread_num 2, 5, 9, pool of at most 8 | `NodesRunInitialised`, `ReturnsOnlyWhenAllFailed`, `ImagesFromStream`, `CameraReleased`, `EveryNodeRuns` |
| `pose_path` | 2 requests, topics of 1 message, 4 frames with no armor, an unsolvable one, or armors of every fit | `PosesInOrder`, `LastResultNotLost`, `DrawnPosesAdvance` |
| `tracker_lock` | 2 names, frames of 1 or 2 armors, switch after 5, restart after 3 frames; unbounded length | `FilterOfTarget`, `FilterNotStale`, `NotGivenUpEarly`, `NewcomerTakesOver` |
| `serial_link` | 3 frames of 2 kinds (payload 1 and 4, header 2, checksum 1), 1 flaw, 1 failure of the device | `PublishedAsSent`, `WholeFramesHeard` |
| `serial_link_live` | 3 frames without flaws, up to 4 bytes unread when the next comes, 1 failure | `BytesRead`, `Reopened`, `StopReturns` |
| `pose_rigid` | as `pose_path` with 2 frames | violated: see Findings |
| `pipeline_threads` | pose solving off, thread_num 3 | violated: see Findings |

Why the bounds are enough: both subscribers of the busiest topics are there, and the rings have the program's
own two cells. Five messages take head and tail around such a ring twice, so that skipped cells are
written again while readers hold what they took; a pool of one object has to grow at once, and has to stop.
Two requests are the program's `infer_workers` and the least that overtake
each other; seven frames are more than the largest number of buffers (five), so buffers are reused, and a
pool of one has to grow to its bound. With gap 1 three frames contain an older one, the next one and one
too far on.
The canvas of `detection` shows frames whole, halved with grey above and below, and one row short of its height;
the watched pixels are those at its edges and where pictures end. Its scenes have armors of both colours that overlap or
lie apart, more of them than the limits keep, armors at the picture's rim, armors that stand on their tip, have a corner that is no number or that the network is not sure of, and tie; the
settings are the program's own, the debug picture with any colour, three channels per corner, the
number of classes left open, and no labels. As jobs come and go forever, every order of sizes in a slot occurs.
`thread_pool` has a row of two with one alone after it, fewer rows than threads (which makes the engine wake
them all), and threads that look once more before they sleep; with three elements of which one or two do not
return, an element lies behind one that never ends and must be stolen. One neighbour is enough to steal from with two threads; with three there is one
a thread does not reach. With four frames one is overtaken by
three, so a late pose meets a full queue, a stale check and a display that has moved on, and the
last result meets older ones on their way before it. Two armors are
the least in which a foreign armor comes before or after an own one, and with two names and none every
armor is the target's, foreign or unnamed; the tracker's run needs no bound on its length, since its
histories are bounded by what it checks. It switches after 5 frames instead of the program's 30 to
stay small: nothing but the comparison depends on the number, and the theorems hold for all.
For the serial line one flaw is enough: it brings the parser to any place in a header or a body at the
moment the next frame begins, and the frames that follow show how it gets out of there. The longest payload is longer
than a whole IMU frame, so that a false header swallows one and part of the next; with one byte less in
`InStep` the run fails. 2, 5 and 9 are fewer threads than nodes, the file's own value and more than CGraph takes.
Each bound is a constant (`MaxFrames`, `MaxMessage`, `MaxMade`...), and the theorems hold for all of their values.

Deadlock is checked in `detection` and `tracker_lock`, which never stop. The other runs end when the last message
is made, and the nodes and the process end or wait for good in the code as well.

**Fairness** is assumed where a property needs it. In `async_infer` the node's thread runs
(`WF(Node)`): it is a thread of the pool that holds no lock while others wait. OpenVINO ends every run, shows it and calls
back, each in a time of its own. The camera, the stop request, and failures promise nothing. In
`Process` main goes on when it can, idle threads take what waits, and a node that can return does; no node has to fail.
In `TrackerLock` the thread finishes the frame it has begun, while poses need not come: `NewcomerTakesOver`
says so in its premise. In `SerialLink` only the node's thread is fair: the line, the device and the stop owe
nothing, and `Reopened` has to hold only while the device is there. In `ThreadPool` the engine's thread and every thread of
the pool are scheduled, and a wait with a time limit ends (weak fairness). Strong fairness is needed in one place, `ResetEpoch`: there
the engine waits for the mutex of a thread that may be woken and fall asleep again meanwhile, and the mutex is taken to be
obtained at last. An element that is endless never has to end, and none has to fail.

## Proofs

Each `*Proofs` module proves type correctness and the safety properties of its components for all values
of their constants, from the assumptions named in the modules (`CapacityAssumption`, `TopicAssumption`,
`PoolAssumption`, `FlowAssumption`, `FramePathAssumption`, `AsyncInferAssumption`, `DetectionAssumption`,
`ThreadPoolAssumption`, `PipelineAssumption`, `PosePathAssumption`, `LockAssumption`, `SerialAssumption`), which say no more than
that a ring has at least two cells (a topic holds at least one message), that the places of references are the
maker, the subscribers and their cells, that there is at least one
request, that a graph has two elements or more and a pool a thread, that sizes are not zero,
that a header has more than a byte and a checksum at least one, that limits and counters are numbers and that `Null` is no message.
`DetectionAssumption` says what the network owes besides: every candidate has four corners, four edges and a
probability per class, and so the class rows of an output are in 0 to 1. It does not say that the rows after them are
not: how many of them look like classes is free. Thresholds and limits are any natural numbers.

* `MessageFlowProofs`: the refinement of `LatestChannel` maps the cells between head and tail to the channel's
  sequence. The modular arithmetic is settled once in lemmas about `PushReplace` and `Pop`; the
  invariant says that each ring holds consecutive messages up to the last one sent to it, from
  which `KeepsNewest` and `ReceivesInOrder` follow. The pool's invariant is `OneOwner` with the types,
  `MessagesIntact`, and the fact that objects on the free list are blank; `PoolBounded` is an argument about
  cardinalities, since no two objects share a place. For the composition each step is shown to be a step or a
  stutter of both parts (`PartsKeepTheirPromises`), and the invariant that a cell's reference is to the message its queue
  knows gives `ReadAsSent`.
* `FramePathProofs`: `FramesIntact` is not inductive by itself. The invariant adds that the buffer being
  written is in nobody else's hands (`WriterAlone`), that an image is whole before it is sent, and that
  a slot that is idle has no frame as long as the node has not failed. A buffer without a reference
  stays without one, because only the camera gives the first one. `PoolBounded` needs more: no buffer comes
  into use during a scan, so the buffers passed over and those in use are together never more than
  ring and slots hold (`ScanBounded`), and a pool that grows has passed over all of its buffers. It is an
  argument about cardinalities and takes the library's theorems on finite sets.
* `AsyncInferProofs`: the invariant ties each slot to its request, and says that the frames on offer,
  in the node's hands, in slots, in results and published are all different. From it follow
  `AnsweredOnce`, the refinement of `InferService` and, with the filter's state tied to the last
  result published, `BlendsForward`. `GoodEndHidesNothing` is what `ErrorsSurface` promises, as far as it is safety: a failure that a
  callback tells of, or will, shows in a busy slot until the node gives up (`FailureShows`), so that a node which
  ends well, with all slots free, has none behind it.
* `DetectionProofs`: `StripsGrey` is inductive with the types and the fact that what a canvas shows is of sizes it was
  prepared for, by the arithmetic of the fit. `UprightCornersOrdered` is the
  lemma about `OrderCorners` for all integers: four points whose edges lean less than 45 degrees come out as top left, top right,
  bottom right, bottom left. With the fact that what is published went through the filter and the ordering it gives
  `CornersOrdered` and `ColourKept`. The other two need the fit and the layout in use to be right (`InUse`: the slot's fit is
  that of the frame in it, and the number of classes, when it is configured, is the network's), which is the invariant the
  rest stands on. `RoundTrip` follows a coordinate through `preprocess` to the canvas and back, with each of its roundings:
  it comes out within half a pixel of the canvas and what rounding adds to it (`Near`). With the place of the corners in the output it gives
  `DecodedRight`, and with the indices kept through the three choices `OneArmor`. For `BestPublished` the candidates
  that could take an armor's place are its rivals, whatever colour they have. There are fewer of them than top-k keeps (`TopKeeps`, an
  argument about cardinalities), its box on the frame is a real one and apart from theirs although both were rounded
  (`Wide` is what it takes: an armor whose box is not wider and higher than a pixel of canvas and frame together may vanish), so NMS keeps it or
  something likelier, the limit of the debug picture does the same, and the best of a finite set exists (`BestExists`).
* `PipelineProofs`, the process: nothing is dispatched before all nodes are initialised, no node runs after the
  join, the stop is the last but one step, and therefore no node that is switched on returns. `RoomForEveryNode` is the safety part
  of `EveryNodeRuns`: with pose solving on, the raised thread_num (`Covered`) is at least the number of nodes that do not return,
  so that one which waits finds a thread; that a thread then takes it is fairness. Every step of
  `Process` is one of `Pipeline` or a stutter (`ProcessRunsPipeline`), so all of this holds of the process with its camera; the
  camera's invariant adds that the handle is what the calls of `init` made so far left, and that an image is out only
  inside `run()`.
* `PipelineProofs`, the thread pool: besides the types the invariant says that a lock is held by a thread that is at
  that queue, that every element handed out is in exactly one queue, with one thread or ended (`EachTaskOnce`), that the count runs
  behind the ended elements by the threads about to report (`Counted`), that a sleeper with work has the engine coming (`WordOnItsWay`) and a
  sleeping engine with nothing to wait for a thread (`WordComing`), and that all threads have ended before the
  first is deleted (`EndedBeforeDeleted`). `NoWordLost`, `EngineIsTold`, `NoQueueGone` and the refinement of `TaskPool` follow.
* `PosePathProofs`: `last_processed_frame_id_` is at least the frame of every pose sent, and what a
  subscriber is still to get (its queue with the message on its way behind it) is one sequence, of
  which a send with REPLACE drops at most the head. `DrawnPosesAdvance` adds that `latest_pnp_` is
  the last pose the display took. For `LastResultNotLost` the same is said of the results on their way to the PnP node: the
  last one is at their end until it is taken, and its answer then at the end of what each subscriber is to get
  (`LastSafe`). It is not taken for stale, since no two results are of one frame (`FramesApart`).
* `TrackerLockProofs`: every frame without correction is counted by one of the two counters
  (`CountsUnseen`), each counted foreign name was seen (`CountsStrangers`), and an armor passed over in a
  frame without a foreign name has the locked name or none (`PassedOver`), so that a restart from the
  front armor, which does not look at the name, keeps the target.
* `SerialLinkProofs`: what the parser has, the kernel's buffer and the line are one stream in which frames and
  positions only go up (`Stream`). A frame that passes the check ends with its last byte, so the rest of the
  stream is of later frames (`RestIsLater`), and no byte of a published frame is left in it (`Fresh`).
  What a body read waits for depends on the first byte only (`Totals`), which arrivals do not change. The second part numbers
  the bytes the line ever carried: while the port is open nothing is lost, so that `Here`, where the parser is, is told by
  the lengths of its bytes, the kernel's and the line's (`Somewhere`, `Coming`). `WholeFramesHeard` needs three invariants on top of that.
  (A frame must not be missed when only clean ones come between it and one the parser was in time for, or so
  many bytes of them that they outlast the longest payload: `InStep`.)
  A header that was accepted lies within one frame (`InOnePiece`), since its checksum is right only for bytes of one piece. In a
  clean frame none is taken to begin but itself (`Aligned`). And the parser is before, at the start of, or past any
  whole frame that must not be missed, never inside it, and past an IMU frame only when it has published it (`OnCourse`). A false
  or damaged frame takes no more than the longest payload and its checksum after the header it was taken for, so it
  ends before the frame that `InStep` speaks about; a clean frame ends where the next begins.

Only model-checked: liveness (`EverySubmitAnswered`, `StopEnds`, `ErrorsSurface`, `EveryNodeRuns`, `EveryTaskStarts`,
`PoolEnds`, `NewcomerTakesOver`, `BytesRead`, `Reopened`, `StopReturns`), which TLAPS does not reach. Every invariant,
every refinement and every other action property the passing runs check has a theorem, and `GoodEndHidesNothing` and
`RoomForEveryNode` are what remains of two of the liveness properties without fairness.

## Findings

`pipeline_threads` violates `EveryNodeRuns`. `config/yolo_config.yaml:13` says that thread_num covers the
long-running nodes "camera + async_infer + pnp + rgo + display". `yolo_config_loader.cpp:203` raises a smaller
value to 5 with pose solving and to 3 without, but without it four nodes still loop for good: camera,
async_infer, rgo and display. With thread_num 2 or 3 and `pnp.enable: false` one of them never gets a
thread: detections are made and not shown, or there is no camera. The value in the file, 5, hides it.

`pose_rigid` violates `PosesRigid`. `config/yolo_config.yaml:42-43` says that rigid pose validation rejects
PnP results "whose fixed 3D armor rectangle cannot reproject tightly onto detected image corners".
`SolveDetection` computes this (`valid_reprojection`) but rejects for depth alone, `run()` publishes the pose with
the status "loose" (`pnp_solver.cpp:885`), and `SatisfiesRigidConstraint`, which would compare the errors, is never
called. The tracker corrects its filter with such a pose, at four times the measurement noise.

A third disagreement has no run of its own. `config/yolo_config.yaml:18-19` says of `max_color_candidates`, "Only evaluate
color on the top-K post-NMS boxes to bound target-hit latency". The code does neither: `postprocess.cpp:270` passes over
candidates whose class is not of the wanted colour before NMS, however many there are, and `yolo_openvino.cpp:298` limits what is
left after NMS only while the debug picture is on. The two differ when a candidate of another colour is as likely as the
armor and covers it, or when there are more than eight boxes: the comment's program would miss an armor that this one
publishes. The model follows the code. `BestPublished` takes no side: the rivals it counts and wants apart are those of
every colour, and it speaks of an armor only if there are fewer of them than `MaxCandidates`, with or without the debug picture.

Not findings, as no document says otherwise, but worth knowing:

* After a failure of the camera or of the inference alone the process neither exits nor logs "process
  exit", since the remaining nodes loop until a stop that is requested only after they are joined
  (`ReturnsOnlyWhenAllFailed`). One image that does not come within a second is such a failure:
  `camera.connection.timeout` and `retry` in `config.yaml` are never read, nor is its `serial_number`.
* `pixel_format: YUV422_Packed`, which `config.yaml` lists, is taken for BayerRG8 by `GetPixelFormatEnum`.
* `CGRAPH_DUMP_ONLY` without `CGRAPH_DUMP_DOT_PATH` dumps nothing and runs the nodes as a chain behind a camera that never returns:
  all but camera and serial link wait for good.
* A configuration that breaks off keeps what was read before, though the log says that defaults are used.
* A picture one row or column short of the canvas leaves the strip on its far side unpainted: it shows the rest of an earlier
  frame of another size (`StripsGrey` makes the exception). A square armor on its tip may get one corner twice from
  `OrderCorners`. With labels that cannot be read and `num_classes` open, the colour filter is off.
* `UThreadBase::reset` notifies without the thread's mutex: a thread on its way to sleep misses it, and the join takes until
  its wait times out (`PoolEnds`).
* With the rigid constraint on, a solver that finds no solution leaves `valid_depth` false, so its frame is
  reported as "depth_rejected" and never as "failed".
* An own armor in the gate whose update is rejected resets the count of foreign names before the frame's
  foreign armor raises it again: while both are seen in each frame neither counter reaches its limit, and
  the filter is neither corrected nor restarted. `FilterNotStale` counts frames without an armor in the gate.
* An unnamed target takes the name of an armor before the gate is tried, even of one that fails it.
* A result of an older frame that comes late takes a waiting newer one's place in the PnP node's topic, and is then often dropped as
  stale itself; an answer without a pose does the same to a newer pose. Only the last result is safe (`LastResultNotLost`).
* The display keeps only the newest answer: one to a later frame takes the place of the one the shown frame could be drawn with, and
  the overlay is then missing for a frame.
* A serial device that hangs up (a USB adapter that is pulled) makes `read()` return 0, which `tryRead` takes for
  nothing to read: the node polls without pause and never opens the device again. Read errors do reopen it.
* The parser does not look again at the bytes of a header or a frame it rejects. A false header with a right
  CRC8 costs up to 257 bytes of good frames (`WholeFramesHeard` gives the bound), and payloads that keep
  containing `kSof` near their ends can keep it out of step.
* The 30 foreign frames may be of different names; the last armor of the last of them gets the lock.

## Not modelled

* Most of the vendored code. Of about 36 000 lines under `2027rm_ws`, 22 000 are CGraph and nearly 8 000 are the headers of
  the camera's SDK, which declare functions, structures and error codes and hold no behaviour of their own. The program
  uses a small part of CGraph: one pipeline of nodes, the dynamic engine's parallel run, primary threads, topics with
  REPLACE, and the dump. That part is modelled (`RingBufferQueue`, `MessageTopic`, `ThreadPool`, `Pipeline`); groups,
  regions, conditions, functions, singletons, daemons, events, aspects, stages, coordinators, parameters, the other
  engines, secondary threads, the monitor, the priority and lock-free queues are never
  reached, and a model of them would not be checked against any use. The program's own code is 6 700 lines.
* Numerics: resizing, networks, PnP and Kalman filter arithmetic, Foxglove's geometry, drawing. They are the larger part of
  `pnp_solver.cpp`, `Tracker.cpp` and `display_node.cpp`; what the models keep of them is which way they come out.
* `Profiling`: counters behind one mutex, of which only log lines depend.
* The bits of the serial checksums and what collides with them; the settings of the port; frames that are written
  (`Append...`), which nobody calls.
* Camera settings whose calls are not checked (exposure, gain, trigger) and the choice of the pixel format.
* Configuration values that do not decide which nodes run: they are the constants of the module they belong to.
* Exceptions out of `start_async`, of the topics or of a node's `run()` that nobody catches: they end the
  process.
* The destruction of `YoloOpenvino` (its completion signal goes before its requests), OpenVINO's insides, logging, affinity,
  memory alignment, Foxglove output and tools.
* Error notification of the engine when `CGRAPH_DUMP_ONLY` makes a chain of the nodes: `ThreadPool` has no dependences between
  elements, and `Pipeline` promises no more than safety there.
* `docs/aat_gaf_tracker方案.html`, a proposal the code does not implement.

## Plan

Done: messages and their pools together, frames, inference, detection, poses, tracker, serial link, thread pool,
process with its camera; their runs and proofs.

Left, in the order of importance:

1. A bound on the whole frames that one damaged frame costs, in frames rather than bytes.
2. The unfolding of `Pipeline`'s tasks into `ThreadPool`, so that one specification has both. `Pipeline` now lets an idle
   thread take any task that waits, which is what `TaskPool` promises.
3. Dependences between elements in `ThreadPool`, which only the dump's chain uses.

The runs stay on the scale of those above: two or three actors of each kind, three to seven messages.
