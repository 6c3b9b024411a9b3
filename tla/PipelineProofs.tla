--------------------------- MODULE PipelineProofs ---------------------------
(***************************************************************************)
(* What holds of the process for every configuration, every size of the    *)
(* thread pool and every order of starts, ends and failures, then of the   *)
(* process with its camera, and in the last part of the thread pool itself *)
(* for every number of elements and threads: that it does what TaskPool    *)
(* says.                                                                   *)
(***************************************************************************)
EXTENDS Process, ThreadPool, TLAPS, SequenceTheorems, FiniteSetTheorems

\* Nothing has been handed to the pool before every node is initialised.
NothingDispatched ==
  main \in {"yolo", "pnp", "serial", "loaded", "dump", "configure", "aborted", "init"} =>
    waiting = {} /\ running = {} /\ returned = {} /\ failed = {}

\* While the pool works all nodes are initialised.
PoolAfterInit == main \in {"wait", "join"} => inited = Nodes

\* destroy() and what follows it find no node running.
JoinedWhenOver == main \in Over => running = {}

\* main() is past everything else when it requests the stop.
StopIsLast == stop => main \in {"topics", "exit"}

\* A node that is switched on never returns, and two of them may fail.
EndsByFailing ==
  /\ returned \subseteq Off
  /\ failed \subseteq {"camera", "infer"}

PipeInv ==
  /\ TypeOK
  /\ NothingDispatched
  /\ PoolAfterInit
  /\ JoinedWhenOver
  /\ StopIsLast
  /\ EndsByFailing

LEMMA InitPipeInv == Init => PipeInv
<1> SUFFICES ASSUME Init PROVE PipeInv
  OBVIOUS
<1>1. cfg \in [pnp : BOOLEAN, serial : BOOLEAN, threads : Int] /\ env \in [only : BOOLEAN, path : BOOLEAN]
  BY PipelineAssumption DEF Init, Defaults
<1>2. PipeInv
  BY <1>1 DEF Init, PipeInv, TypeOK, NothingDispatched, PoolAfterInit,
              JoinedWhenOver, StopIsLast, EndsByFailing, Over
<1> QED BY <1>2

LEMMA MainKeepsPipeInv == PipeInv /\ Main => PipeInv'
<1> SUFFICES ASSUME PipeInv, Main PROVE PipeInv'
  OBVIOUS
<1> USE DEF PipeInv, TypeOK, NothingDispatched, PoolAfterInit, JoinedWhenOver,
            StopIsLast, EndsByFailing, Over, Off, tasks
<1>0. CASE LoadYoloConfig
  <2>1. cfg' \in [pnp : BOOLEAN, serial : BOOLEAN, threads : Int]
    BY <1>0, PipelineAssumption
    DEF LoadYoloConfig, ReadYolo, ReadPnp, ReadSerial, Loaded, LoadFails, Raised, Larger
  <2>2. /\ main' \in {"pnp", "serial", "loaded", "dump"}
        /\ main \in {"yolo", "pnp", "serial", "loaded"}
        /\ UNCHANGED <<env, failure, inited, tasks, stop>>
    BY <1>0 DEF LoadYoloConfig, ReadYolo, ReadPnp, ReadSerial, Loaded, LoadFails
  <2>. QED
    BY <2>1, <2>2
<1>1. CASE Configure
  BY <1>1 DEF Configure
<1>2. CASE Dispatch
  BY <1>2 DEF Dispatch
<1>3. CASE Awake
  BY <1>3 DEF Awake
<1>4. CASE JoinThreads
  BY <1>4 DEF JoinThreads
<1>5. CASE DestroyNodes
  BY <1>5 DEF DestroyNodes
<1>6. CASE ClearPipeline
  BY <1>6 DEF ClearPipeline
<1>7. CASE RequestYoloStop
  BY <1>7 DEF RequestYoloStop
<1>8. CASE ClearYoloMessages
  BY <1>8 DEF ClearYoloMessages
<1>9. ASSUME NEW n \in Nodes, InitNode(n) PROVE PipeInv'
  BY <1>9 DEF InitNode
<1>10. ASSUME NEW n \in Nodes, InitFails(n) PROVE PipeInv'
  BY <1>10 DEF InitFails
<1>11. CASE DumpGraph
  BY <1>11 DEF DumpGraph
<1> QED BY <1>0, <1>1, <1>2, <1>3, <1>4, <1>5, <1>6, <1>7, <1>8, <1>9, <1>10, <1>11 DEF Main

LEMMA NodeKeepsPipeInv ==
  ASSUME PipeInv, NEW n \in Nodes,
         StartNode(n) \/ SkipNode(n) \/ ReturnNode(n) \/ FailNode(n)
  PROVE  PipeInv'
<1> USE DEF PipeInv, TypeOK, NothingDispatched, PoolAfterInit, JoinedWhenOver,
            StopIsLast, EndsByFailing, Over, Off
<1>1. CASE StartNode(n)
  BY <1>1 DEF StartNode
<1>2. CASE SkipNode(n)
  BY <1>2 DEF SkipNode
<1>3. CASE ReturnNode(n)
  <2>1. ~stop
    BY <1>3 DEF ReturnNode
  <2>2. n \in Off
    BY <1>3, <2>1 DEF ReturnNode
  <2> QED BY <1>3, <2>1, <2>2 DEF ReturnNode
<1>4. CASE FailNode(n)
  BY <1>4 DEF FailNode
<1> QED BY <1>1, <1>2, <1>3, <1>4

LEMMA StepKeepsPipeInv == PipeInv /\ [Next]_vars => PipeInv'
<1> SUFFICES ASSUME PipeInv, [Next]_vars PROVE PipeInv'
  OBVIOUS
<1>1. CASE Next
  BY <1>1, MainKeepsPipeInv, NodeKeepsPipeInv DEF Next
<1>2. CASE UNCHANGED vars
  BY <1>2 DEF vars, tasks, PipeInv, TypeOK, NothingDispatched, PoolAfterInit,
              JoinedWhenOver, StopIsLast, EndsByFailing, Over, Off
<1> QED BY <1>1, <1>2

LEMMA PipeInvAlways == Spec => []PipeInv
BY InitPipeInv, StepKeepsPipeInv, PTL DEF Spec

(* Each task is in one place and every variable holds what it is meant to. *)
(* Code: the pool handing a task to one thread.                            *)
THEOREM TypeCorrect == Spec => []TypeOK
<1>1. PipeInv => TypeOK
  BY DEF PipeInv
<1> QED BY <1>1, PipeInvAlways, PTL

(* A node runs only after all nodes were initialised and before any of     *)
(* them is destroyed.                                                      *)
(* Code: GPipeline::init, run and destroy with the joins of the pool.      *)
THEOREM RunsBetweenInitAndDestroy == Spec => []NodesRunInitialised
<1>1. PipeInv => NodesRunInitialised
  BY DEF PipeInv, TypeOK, NothingDispatched, PoolAfterInit, JoinedWhenOver,
         NodesRunInitialised
<1> QED BY <1>1, PipeInvAlways, PTL

(* The stop comes when no node runs.                                       *)
(* Code: ShutdownYoloApp after process().                                  *)
THEOREM StopComesLast == Spec => []StopUnseen
<1>1. PipeInv => StopUnseen
  BY DEF PipeInv, JoinedWhenOver, StopIsLast, StopUnseen, Over
<1> QED BY <1>1, PipeInvAlways, PTL

(* main() gets past the join only when every node that started and is      *)
(* switched on has failed.                                                 *)
(* Code: destroy() joining nodes that loop until the stop.                 *)
THEOREM ReturnNeedsFailures == Spec => []ReturnsOnlyWhenAllFailed
<1>1. PipeInv => ReturnsOnlyWhenAllFailed
  BY DEF PipeInv, JoinedWhenOver, EndsByFailing, ReturnsOnlyWhenAllFailed,
         LongRunning
<1> QED BY <1>1, PipeInvAlways, PTL

-----------------------------------------------------------------------------
(* A thread for every node.                                                *)

\* When the configuration is done its threads are as many as LoadYoloConfig
\* takes for enough.
Covered ==
  main \notin {"yolo", "pnp", "serial", "loaded"} =>
    cfg.threads >= (IF cfg.pnp THEN 5 ELSE 3) + (IF cfg.serial THEN 1 ELSE 0)

\* A node that waits and does not return finds a thread that no other node
\* of its kind keeps.
RoomForAll ==
  main \in {"wait", "join"} /\ cfg.pnp =>
    \A n \in waiting \cap LongRunning : Cardinality(running \cap LongRunning) < cfg.threads

LEMMA SixNodes == IsFiniteSet(Nodes) /\ Cardinality(Nodes) = 6
<1> DEFINE A == {"serial"}
           B == A \cup {"camera"}
           C == B \cup {"infer"}
           D == C \cup {"pnp"}
           E == D \cup {"rgo"}
           F == E \cup {"display"}
<1>1. IsFiniteSet(A) /\ Cardinality(A) = 1
  BY FS_Singleton
<1>2. IsFiniteSet(B) /\ Cardinality(B) = 2
  BY <1>1, FS_AddElement
<1>3. IsFiniteSet(C) /\ Cardinality(C) = 3
  BY <1>2, FS_AddElement
<1>4. IsFiniteSet(D) /\ Cardinality(D) = 4
  BY <1>3, FS_AddElement
<1>5. IsFiniteSet(E) /\ Cardinality(E) = 5
  BY <1>4, FS_AddElement
<1>6. IsFiniteSet(F) /\ Cardinality(F) = 6
  BY <1>5, FS_AddElement
<1>7. F = Nodes
  BY DEF Nodes
<1> QED
  BY <1>6, <1>7

\* With pose solving on, the nodes that do not return are no more than what
\* the threads are raised to.
LEMMA LongRunningCount ==
  ASSUME TypeOK, cfg.pnp
  PROVE  /\ IsFiniteSet(LongRunning)
         /\ Cardinality(LongRunning) = 5 + (IF cfg.serial THEN 1 ELSE 0)
<1>1. CASE cfg.serial
  <2>1. LongRunning = Nodes
    BY <1>1 DEF LongRunning, Off
  <2> QED
    BY <1>1, <2>1, SixNodes
<1>2. CASE ~ cfg.serial
  <2>1. LongRunning = Nodes \ {"serial"} /\ "serial" \in Nodes
    BY <1>2 DEF LongRunning, Off, Nodes
  <2>2. IsFiniteSet(Nodes \ {"serial"}) /\ Cardinality(Nodes \ {"serial"}) = Cardinality(Nodes) - 1
    BY <2>1, SixNodes, FS_RemoveElement
  <2> QED
    BY <1>2, <2>1, <2>2, SixNodes
<1> QED
  BY <1>1, <1>2

LEMMA StepKeepsCovered ==
  ASSUME PipeInv, Covered, [Next]_vars
  PROVE  Covered'
<1> USE DEF PipeInv, TypeOK, Covered
<1>1. CASE LoadYoloConfig
  BY <1>1 DEF LoadYoloConfig, ReadYolo, ReadPnp, ReadSerial, Loaded, LoadFails, Raised, Larger
<1>2. CASE Main /\ ~ LoadYoloConfig
  <2>1. cfg' = cfg /\ main \notin {"yolo", "pnp", "serial", "loaded"}
    BY <1>2 DEF Main, DumpGraph, Configure, Dispatch, Awake, JoinThreads, DestroyNodes,
                ClearPipeline, RequestYoloStop, ClearYoloMessages, InitNode, InitFails
  <2> QED
    BY <2>1
<1>3. CASE \E n \in Nodes : StartNode(n) \/ SkipNode(n) \/ ReturnNode(n) \/ FailNode(n)
  BY <1>3 DEF StartNode, SkipNode, ReturnNode, FailNode
<1>4. CASE UNCHANGED vars
  BY <1>4 DEF vars
<1> QED
  BY <1>1, <1>2, <1>3, <1>4 DEF Next

(* With pose solving on no node that is switched on is left without a      *)
(* thread: as long as one of them waits, the others that do not return     *)
(* keep fewer threads than there are, whatever thread_num asks for and     *)
(* wherever the loading of the configuration broke off.                    *)
(* Code: the least thread_num, in LoadYoloConfig and in its catch block,   *)
(* against the nodes that loop until the stop.                             *)
THEOREM RoomForEveryNode == Spec => []RoomForAll
<1>1. Init => Covered
  BY DEF Init, Covered
<1>2. PipeInv /\ Covered => RoomForAll
  <2> SUFFICES ASSUME PipeInv, Covered, main \in {"wait", "join"}, cfg.pnp,
                      NEW n \in waiting \cap LongRunning
               PROVE  Cardinality(running \cap LongRunning) < cfg.threads
    BY DEF RoomForAll
  <2>1. TypeOK
    BY DEF PipeInv
  <2>2. /\ IsFiniteSet(LongRunning)
        /\ Cardinality(LongRunning) = 5 + (IF cfg.serial THEN 1 ELSE 0)
    BY <2>1, LongRunningCount
  <2>3. /\ IsFiniteSet(LongRunning \ {n})
        /\ Cardinality(LongRunning \ {n}) = Cardinality(LongRunning) - 1
    BY <2>2, FS_RemoveElement
  <2>4. running \cap LongRunning \in SUBSET (LongRunning \ {n})
    BY <2>1 DEF TypeOK
  <2>5. Cardinality(running \cap LongRunning) <= Cardinality(LongRunning \ {n})
    BY <2>3, <2>4, FS_Subset
  <2>6. Cardinality(running \cap LongRunning) \in Nat
    BY <2>3, <2>4, FS_Subset, FS_CardinalityType
  <2>7. cfg.threads \in Int /\ cfg.threads >= 5 + (IF cfg.serial THEN 1 ELSE 0)
    BY <2>1 DEF TypeOK, Covered
  <2> QED
    BY <2>2, <2>3, <2>5, <2>6, <2>7
<1> QED
  BY <1>1, <1>2, StepKeepsCovered, PipeInvAlways, PTL DEF Spec

-----------------------------------------------------------------------------
(* The process with its camera.                                            *)

LEMMA ProcessStepRefines == [ProcessNext]_processVars => [Next]_vars
<1> SUFFICES ASSUME [ProcessNext]_processVars PROVE [Next]_vars
  OBVIOUS
<1>1. CASE ProcessMain
  BY <1>1 DEF ProcessMain, InitCamera, CameraInited, CameraInitFails, InitOthers, RunNodes,
              ShutdownCamera, DeleteCamera, EndProcess, Next, Main, Nodes
<1>2. CASE StartNodes \/ GrabImage \/ CameraFails \/ OtherFails
  BY <1>2 DEF StartNodes, GrabImage, CameraFails, OtherFails, Next, Nodes
<1>3. CASE \E n \in Nodes : EndNode(n)
  BY <1>3 DEF EndNode, Next
<1>4. CASE UNCHANGED processVars
  BY <1>4 DEF processVars
<1> QED BY <1>1, <1>2, <1>3, <1>4 DEF ProcessNext

(* The process with its camera takes only steps of Pipeline: what is       *)
(* proved of the pipeline holds of the process.                            *)
(* Code: the camera node's init, run, destroy and destructor, called by    *)
(* the pipeline and by nobody else.                                        *)
THEOREM ProcessRunsPipeline == ProcessSpec => Spec
<1>1. ProcessInit => Init
  BY DEF ProcessInit
<1> QED BY <1>1, ProcessStepRefines, PTL DEF ProcessSpec, Spec

\* The stream is on while the node waits for an image or has one, and the
\* handle is what the calls of init() made so far have left.
HandleOfCalls ==
  /\ at \in Calls \cup {"off", "ready", "image", "failed"}
  /\ handle \in {"none", "created", "open", "streaming"}
  /\ at \in {"ready", "image"} => handle = "streaming"
  /\ at = "off" => handle = "none"

\* One image is out while the node is between the SDK's two calls.
OneImage ==
  /\ images = IF at = "image" THEN 1 ELSE 0
  /\ at = "image" => "camera" \in running

ProcessInv == PipeInv /\ HandleOfCalls /\ OneImage /\ CameraReleased

LEMMA InitProcessInv == ProcessInit => ProcessInv
<1> SUFFICES ASSUME ProcessInit PROVE ProcessInv
  OBVIOUS
<1>1. PipeInv
  BY InitPipeInv DEF ProcessInit
<1> QED
  BY <1>1 DEF ProcessInit, Init, CameraOff, ProcessInv, HandleOfCalls, OneImage, CameraReleased

LEMMA StepKeepsProcessInv == ProcessInv /\ [ProcessNext]_processVars => ProcessInv'
<1> SUFFICES ASSUME ProcessInv, [ProcessNext]_processVars PROVE ProcessInv'
  OBVIOUS
<1>0. PipeInv'
  BY ProcessStepRefines, StepKeepsPipeInv DEF ProcessInv
<1> USE DEF ProcessInv, HandleOfCalls, OneImage, CameraReleased
<1>a. running # {} => inited = Nodes /\ main \in {"wait", "join"}
  BY DEF PipeInv, NothingDispatched, PoolAfterInit, JoinedWhenOver, TypeOK
<1>1. CASE InitCamera
  <2>1. UNCHANGED <<main, inited, running>> /\ main = "init" /\ "camera" \notin inited
    BY <1>1 DEF InitCamera, vars, tasks
  <2>2. "camera" \notin running
    BY <1>a, <2>1
  <2>3. CASE BeginInit
    BY <1>0, <2>1, <2>2, <2>3 DEF BeginInit, Calls, Following
  <2>4. CASE CallSucceeds
    BY <1>0, <2>1, <2>2, <2>4 DEF CallSucceeds, Calls, Following, HandleAfter
  <2>5. CASE CallFails
    BY <1>0, <2>1, <2>2, <2>5 DEF CallFails, Calls, Following
  <2> QED BY <1>1, <2>3, <2>4, <2>5 DEF InitCamera
<1>2. CASE CameraInited
  BY <1>0, <1>2 DEF CameraInited, InitNode, cameraVars, tasks
<1>3. CASE CameraInitFails
  BY <1>0, <1>3 DEF CameraInitFails, InitFails, cameraVars, tasks
<1>4. CASE InitOthers
  BY <1>0, <1>4 DEF InitOthers, InitNode, InitFails, cameraVars, tasks
<1>5. CASE RunNodes
  <2>1. UNCHANGED cameraVars /\ UNCHANGED <<inited, running>>
        /\ main' \notin {"stop", "topics", "exit"}
    BY <1>5 DEF RunNodes, DumpGraph, LoadYoloConfig, ReadYolo, ReadPnp, ReadSerial, Loaded, LoadFails,
                Configure, Dispatch, Awake, JoinThreads, tasks
  <2> QED BY <1>0, <2>1 DEF cameraVars
<1>6. CASE ShutdownCamera \/ DeleteCamera
  <2>1. running = {} /\ running' = running /\ images = 0
    BY <1>6, <1>a DEF ShutdownCamera, DeleteCamera, DestroyNodes, ClearPipeline, tasks
  <2> QED BY <1>0, <1>6, <2>1 DEF ShutdownCamera, DeleteCamera, Shutdown
<1>7. CASE EndProcess
  BY <1>0, <1>7 DEF EndProcess, RequestYoloStop, ClearYoloMessages, cameraVars, tasks
<1>8. CASE GrabImage
  <2>1. "camera" \in running /\ UNCHANGED <<main, inited, running>>
    BY <1>8 DEF GrabImage, vars, tasks
  <2> QED
    BY <1>0, <1>8, <1>a, <2>1 DEF GrabImage, Grab, BorrowImage, NoImage, ReturnImage, Calls, Following
<1>9. CASE StartNodes
  BY <1>0, <1>9 DEF StartNodes, StartNode, SkipNode, cameraVars
<1>10. CASE CameraFails \/ OtherFails
  BY <1>0, <1>10 DEF CameraFails, OtherFails, FailNode, cameraVars
<1>11. CASE \E n \in Nodes : EndNode(n)
  BY <1>0, <1>11 DEF EndNode, ReturnNode, cameraVars
<1>12. CASE UNCHANGED processVars
  BY <1>0, <1>12 DEF processVars, vars, tasks, cameraVars
<1> QED
  BY <1>1, <1>2, <1>3, <1>4, <1>5, <1>6, <1>7, <1>8, <1>9, <1>10, <1>11, <1>12
  DEF ProcessNext, ProcessMain

LEMMA ProcessInvAlways == ProcessSpec => []ProcessInv
BY InitProcessInv, StepKeepsProcessInv, PTL DEF ProcessSpec

(* An image of the SDK's is out only while the camera node runs and its    *)
(* stream is on, and never a second one.                                   *)
(* Code: grab(), and the joins before destroy() and the destructors.       *)
THEOREM ImagesStayInStream == ProcessSpec => []ImagesFromStream
<1>1. ProcessInv => ImagesFromStream
  BY DEF ProcessInv, HandleOfCalls, OneImage, ImagesFromStream
<1> QED BY <1>1, ProcessInvAlways, PTL

(* A process that comes to its end leaves no handle of the SDK's behind,   *)
(* whatever failed before.                                                 *)
(* Code: HikCameraNode::init, shutdown and the destructor.                 *)
THEOREM CameraGivenBack == ProcessSpec => []CameraReleased
<1>1. ProcessInv => CameraReleased
  BY DEF ProcessInv
<1> QED BY <1>1, ProcessInvAlways, PTL

-----------------------------------------------------------------------------
(* The thread pool: threads, rows and indices.                             *)

LEMMA TriedThread ==
  ASSUME NEW t \in Int, PoolTypeOK, probe[t] \in Nat
  PROVE  Tried(t) \in Threads
<1>1. size \in Nat \ {0}
  BY ThreadPoolAssumption DEF PoolTypeOK
<1>2. (t + probe[t]) % size \in 0 .. size - 1
  BY <1>1
<1>. QED
  BY <1>2 DEF Tried, Threads

LEMMA RowLengthPositive ==
  ASSUME PoolTypeOK
  PROVE  /\ RowLength(size) \in Nat \ {0}
         /\ RowLength(size) * size >= total
         /\ RowLength(size) = 1 => total <= size
<1>. DEFINE q == total \div size
            r == total % size
<1>1. total \in Nat \ {0} /\ size \in Nat \ {0}
  BY ThreadPoolAssumption DEF PoolTypeOK
<1>2. q \in Nat /\ r \in 0 .. size - 1 /\ total = size * q + r
  BY <1>1
<1>3. RowLength(size) = q + (IF r = 0 THEN 0 ELSE 1)
  BY DEF RowLength
<1>. HIDE DEF q, r
<1>4. CASE r = 0
  <2>1. RowLength(size) = q /\ total = size * q
    BY <1>1, <1>2, <1>3, <1>4
  <2>2. q # 0
    BY <1>1, <2>1
  <2>. QED
    BY <1>1, <1>2, <2>1, <2>2
<1>5. CASE r # 0
  <2>1. RowLength(size) = q + 1
    BY <1>2, <1>3, <1>5
  <2>2. (q + 1) * size = size * q + size
    BY <1>1, <1>2
  <2>3. q = 0 => size * q = 0
    BY <1>1
  <2>. QED
    BY <1>1, <1>2, <2>1, <2>2, <2>3
<1>. QED
  BY <1>4, <1>5

LEMMA RowOfThread ==
  ASSUME PoolTypeOK, NEW k \in Tasks
  PROVE  RowOf(k) \in Threads
<1>. DEFINE l == RowLength(size)
            d == (k - 1) \div l
<1>1. l \in Nat \ {0} /\ l * size >= total
  BY RowLengthPositive
<1>2. k - 1 \in Nat /\ k - 1 < total /\ size \in Nat /\ total \in Nat
  BY ThreadPoolAssumption DEF Tasks, PoolTypeOK
<1>. HIDE DEF l
<1>3. d \in Nat /\ l * d <= k - 1
  BY <1>1, <1>2
<1>. HIDE DEF d
<1>4. l * d < l * size
  <2>1. l * d \in Int /\ l * size \in Int
    BY <1>1, <1>2, <1>3
  <2>. QED
    BY <1>1, <1>2, <1>3, <2>1
<1>5. d < size
  BY <1>1, <1>2, <1>3, <1>4
<1>6. RowOf(k) = d
  BY DEF RowOf, l, d
<1>. QED
  BY <1>2, <1>3, <1>5, <1>6 DEF Threads

LEMMA AloneInRow ==
  ASSUME PoolTypeOK, NEW k \in Tasks
  PROVE  /\ RowLength(size) = 1 => IsFront(k) /\ IsBack(k)
         /\ RowLength(size) # 1 /\ IsFront(k) /\ IsBack(k) => k = total
<1>. DEFINE l == RowLength(size)
<1>1. l \in Nat \ {0} /\ k \in Nat /\ k >= 1
  BY RowLengthPositive DEF Tasks
<1>2. IsFront(k) <=> (k - 1) % l = 0
  BY DEF IsFront
<1>3. IsBack(k) <=> k % l = 0 \/ k = total
  BY DEF IsBack
<1>. HIDE DEF l
<1>4. l = 1 => (k - 1) % l = 0 /\ k % l = 0
  BY <1>1
<1>5. ASSUME l # 1, (k - 1) % l = 0, k % l = 0 PROVE FALSE
  <2>. DEFINE a == (k - 1) \div l
              b == k \div l
  <2>1. a \in Int /\ b \in Int /\ k - 1 = l * a + ((k - 1) % l) /\ k = l * b + (k % l)
    BY <1>1
  <2>. HIDE DEF a, b
  <2>2. l * b = l * a + 1
    BY <1>1, <1>5, <2>1
  <2>3. l * (b - a) = 1
    BY <1>1, <2>1, <2>2
  <2>4. b - a >= 1 => l * (b - a) >= l
    BY <1>1, <2>1
  <2>5. b - a <= 0 => l * (b - a) <= 0
    BY <1>1, <2>1
  <2>. QED
    BY <1>1, <1>5, <2>1, <2>3, <2>4, <2>5
<1>. QED
  BY <1>2, <1>3, <1>4, <1>5 DEF l

-----------------------------------------------------------------------------
(* The pool's variables.                                                   *)

\* The engine hands out the elements one by one, and knows whom it deals with.
EngineInOrder ==
  /\ engine = "start" => next = 1
  /\ engine \in {"start", "push"} => next <= total
  /\ engine \notin {"start", "push", "reset", "notify"} => next = total + 1
  /\ target \in Threads
  /\ engine \in {"check", "asleep"} => target = 0
  /\ next <= total => cursor = IF RowLength(size) = 1 THEN next - 1 ELSE 0

\* A thread holds what it is about to take from, and has what it has taken.
ThreadsInOrder ==
  \A t \in Threads :
    /\ place[t] = "hold" => holder[Tried(t)] = t /\ queue[Tried(t)] # <<>>
    /\ place[t] \in {"took", "run"} <=> task[t] \in Tasks
    /\ engine = "start" /\ t >= target => place[t] = "none"

PoolShape == PoolTypeOK /\ EngineInOrder /\ ThreadsInOrder

LEMMA ThreadsAreIndices ==
  ASSUME PoolTypeOK
  PROVE  Threads \subseteq Indices /\ 0 \in Threads /\ Threads \subseteq Nat
BY ThreadPoolAssumption DEF PoolTypeOK, Threads, Indices

LEMMA IndicesReached ==
  ASSUME PoolTypeOK
  PROVE  /\ \A t \in Threads : Tried(t) \in Threads /\ Tried(t) \in Indices
         /\ \A t \in Threads : t \in Indices /\ t \in Int /\ t # Free /\ t # Engine
         /\ \A k \in Tasks : RowOf(k) \in Threads /\ RowOf(k) \in Indices
<1>1. Threads \subseteq Indices /\ Threads \subseteq Nat
  BY ThreadsAreIndices
<1>2. ASSUME NEW t \in Threads PROVE Tried(t) \in Threads
  <2>1. t \in Int /\ probe[t] \in Nat
    BY <1>1 DEF PoolTypeOK
  <2>. QED
    BY <2>1, TriedThread
<1>3. \A k \in Tasks : RowOf(k) \in Threads
  BY RowOfThread
<1>4. \A t \in Threads : t \in Indices /\ t \in Int /\ t # Free /\ t # Engine
  BY <1>1 DEF Free, Engine
<1>. QED
  BY <1>1, <1>2, <1>3, <1>4

LEMMA InitPoolShape == PoolInit => PoolShape
<1>. SUFFICES ASSUME PoolInit PROVE PoolShape
  OBVIOUS
<1>1. total \in Nat \ {0, 1} /\ size \in 1 .. MaxThreads /\ busy \in Nat \ {0}
  BY ThreadPoolAssumption DEF PoolInit
<1>2. PoolTypeOK
  <2>1. 0 \in Indices /\ 1 \in 1 .. total + 1
    BY <1>1, ThreadPoolAssumption DEF Indices
  <2>2. /\ engine \in EnginePlaces
        /\ target \in Indices
        /\ next \in 1 .. total + 1
        /\ cursor \in Indices
        /\ endless \in SUBSET Tasks
        /\ ended \in SUBSET Tasks
        /\ count \in Nat
        /\ error \in BOOLEAN
        /\ deleted \in SUBSET Indices
    BY <2>1 DEF PoolInit, EnginePlaces
  <2>3. queue \in [Indices -> Seq(Tasks)]
    BY DEF PoolInit
  <2>4. /\ holder \in [Indices -> Indices \cup {Free, Engine}]
        /\ place \in [Indices -> ThreadPlaces]
        /\ probe \in [Indices -> Nat]
        /\ epoch \in [Indices -> Nat]
        /\ task \in [Indices -> Tasks \cup {NoTask}]
        /\ alive \in [Indices -> BOOLEAN]
    BY DEF PoolInit, ThreadPlaces
  <2>. QED
    BY <1>1, <2>2, <2>3, <2>4 DEF PoolTypeOK
<1>3. EngineInOrder
  BY <1>1, ThreadPoolAssumption DEF PoolInit, EngineInOrder, Threads
<1>4. ThreadsInOrder
  BY <1>1, ThreadPoolAssumption
  DEF PoolInit, ThreadsInOrder, Threads, Indices, Tasks, NoTask
<1>. QED
  BY <1>2, <1>3, <1>4 DEF PoolShape

LEMMA EngineKeepsType ==
  ASSUME PoolShape, EngineStep
  PROVE  PoolTypeOK'
<1>a. PoolTypeOK
  BY DEF PoolShape
<1>b. Threads \subseteq Indices /\ 0 \in Indices /\ \A k \in Tasks : RowOf(k) \in Indices
  BY <1>a, ThreadsAreIndices, RowOfThread
<1>c. MaxThreads \in Nat \ {0}
  BY ThreadPoolAssumption
<1>d. \A t \in Threads : t + 1 # size => t + 1 \in Threads
  BY <1>a, <1>c DEF PoolTypeOK, Threads
<1>. USE DEF PoolShape, PoolTypeOK, EngineInOrder, setup, threadVars, resultVars, Tasks
<1>0. /\ Threads \subseteq Indices /\ 0 \in Indices /\ MaxThreads \in Nat \ {0}
      /\ \A t \in Threads : t + 1 # size => t + 1 \in Indices
  BY <1>b, <1>c, <1>d, Zenon
<1>1. CASE StartThread
  BY <1>0, <1>1 DEF StartThread, EnginePlaces, ThreadPlaces
<1>2. CASE PushOne
  <2>1. next \in Tasks
    BY <1>2 DEF PushOne
  <2>2. queue' \in [Indices -> Seq(Tasks)]
    BY <1>2, <2>1 DEF PushOne
  <2>3. cursor' \in Indices /\ next' \in 1 .. total + 1
    BY <1>0, <1>2 DEF PushOne, Indices
  <2>. QED
    BY <1>2, <2>2, <2>3 DEF PushOne, EnginePlaces
<1>3. CASE PushRow
  <2>1. next \in Tasks /\ RowOf(next) \in Indices
    BY <1>b, <1>3 DEF PushRow
  <2>2. queue' \in [Indices -> Seq(Tasks)]
    BY <1>3, <2>1 DEF PushRow
  <2>3. holder' \in [Indices -> Indices \cup {Free, Engine}]
    BY <1>3, <2>1 DEF PushRow
  <2>4. target' \in Indices /\ next' \in 1 .. total + 1 /\ engine' \in EnginePlaces
    BY <1>3, <2>1 DEF PushRow, EnginePlaces
  <2>. QED
    BY <1>3, <2>2, <2>3, <2>4 DEF PushRow
<1>4. CASE ResetEpoch
  BY <1>4 DEF ResetEpoch, EnginePlaces
<1>5. CASE NotifyThread
  BY <1>0, <1>5 DEF NotifyThread, Notified, EnginePlaces, ThreadPlaces
<1>6. CASE WakeThread
  BY <1>0, <1>6 DEF WakeThread, Notified, EnginePlaces, ThreadPlaces
<1>7. CASE Check
  BY <1>7 DEF Check, EnginePlaces
<1>8. CASE StopThread
  BY <1>8 DEF StopThread, EnginePlaces
<1>9. CASE Unpark
  BY <1>9 DEF Unpark, Notified, EnginePlaces, ThreadPlaces
<1>10. CASE JoinThread
  BY <1>0, <1>10 DEF JoinThread, EnginePlaces
<1>11. CASE DeleteThread
  BY <1>0, <1>11 DEF DeleteThread, EnginePlaces
<1>. QED
  BY <1>1, <1>2, <1>3, <1>4, <1>5, <1>6, <1>7, <1>8, <1>9, <1>10, <1>11 DEF EngineStep

LEMMA EngineStaysInOrder ==
  ASSUME PoolShape, EngineStep
  PROVE  EngineInOrder'
<1>a. PoolTypeOK
  BY DEF PoolShape
<1>b. 0 \in Threads
  BY <1>a, ThreadsAreIndices
<1>0. 0 \in Threads /\ \A t \in Threads : t + 1 # size => t + 1 \in Threads
  BY <1>b, ThreadPoolAssumption DEF PoolShape, PoolTypeOK, Threads
<1>. USE DEF PoolShape, PoolTypeOK, EngineInOrder, setup, threadVars, resultVars, Tasks
<1>c. UNCHANGED setup => Threads' = Threads /\ RowLength(size)' = RowLength(size)
  BY DEF Threads, RowLength
<1>1. CASE StartThread
  BY <1>0, <1>c, <1>1 DEF StartThread
<1>2. CASE PushOne
  <2>1. next \in Tasks
    BY <1>2 DEF PushOne
  <2>2. RowLength(size) # 1 => next = total
    BY <1>2, <2>1, AloneInRow DEF PushOne
  <2>3. RowLength(size) = 1 => total <= size
    BY RowLengthPositive
  <2>4. cursor \in Threads
    BY <1>0, <1>2, <2>3, ThreadPoolAssumption DEF PushOne, Threads
  <2>5. next' <= total' => cursor' = IF RowLength(size) = 1 THEN next' - 1 ELSE 0
    BY <1>2, <2>1, <2>2, <2>3, ThreadPoolAssumption DEF PushOne
  <2>. QED
    BY <1>c, <1>2, <2>4, <2>5 DEF PushOne
<1>3. CASE PushRow
  <2>1. next \in Tasks /\ RowOf(next) \in Threads
    BY <1>3, RowOfThread DEF PushRow
  <2>2. RowLength(size) # 1
    BY <1>3, <2>1, AloneInRow DEF PushRow
  <2>3. engine' = "push" => next # total
    BY <1>3 DEF PushRow, IsBack
  <2>. QED
    BY <1>c, <1>3, <2>1, <2>2, <2>3 DEF PushRow
<1>4. CASE ResetEpoch
  BY <1>c, <1>4 DEF ResetEpoch
<1>5. CASE NotifyThread
  BY <1>0, <1>c, <1>5 DEF NotifyThread
<1>6. CASE WakeThread
  BY <1>0, <1>c, <1>6 DEF WakeThread
<1>7. CASE Check
  BY <1>c, <1>7 DEF Check
<1>8. CASE StopThread
  BY <1>c, <1>8 DEF StopThread
<1>9. CASE Unpark
  BY <1>c, <1>9 DEF Unpark
<1>10. CASE JoinThread
  BY <1>0, <1>c, <1>10 DEF JoinThread
<1>11. CASE DeleteThread
  BY <1>0, <1>c, <1>11 DEF DeleteThread
<1>. QED
  BY <1>1, <1>2, <1>3, <1>4, <1>5, <1>6, <1>7, <1>8, <1>9, <1>10, <1>11 DEF EngineStep

LEMMA ThreadKeepsType ==
  ASSUME PoolShape, NEW t \in Threads,
         ThreadStep(t) \/ Timeout(t) \/ EndTask(t, TRUE)
  PROVE  PoolTypeOK'
<1>1. Tried(t) \in Indices /\ t \in Indices
  <2>1. PoolTypeOK
    BY DEF PoolShape
  <2>2. Threads \subseteq Indices /\ t \in Int
    BY <2>1, ThreadsAreIndices
  <2>3. probe[t] \in Nat
    BY <2>1, <2>2 DEF PoolTypeOK
  <2>. QED
    BY <2>1, <2>2, <2>3, TriedThread
<1>a. LookAgain(t) => /\ place' \in [Indices -> ThreadPlaces]
                       /\ probe' \in [Indices -> Nat]
  BY <1>1 DEF PoolShape, PoolTypeOK, LookAgain, ThreadPlaces
<1>b. epoch' = [epoch EXCEPT ![t] = 0] => epoch' \in [Indices -> Nat]
  BY <1>1 DEF PoolShape, PoolTypeOK
<1>c. \A p \in {"look", "hold", "doze", "asleep", "took", "run", "count", "tell", "ended"} :
        [place EXCEPT ![t] = p] \in [Indices -> ThreadPlaces]
  BY <1>1 DEF PoolShape, PoolTypeOK, ThreadPlaces
<1>d. /\ [probe EXCEPT ![t] = @ + 1] \in [Indices -> Nat]
      /\ [epoch EXCEPT ![t] = @ + 1] \in [Indices -> Nat]
      /\ count + 1 \in Nat
  <2>1. probe \in [Indices -> Nat] /\ epoch \in [Indices -> Nat] /\ count \in Nat
    BY DEF PoolShape, PoolTypeOK
  <2>. QED
    BY <1>1, <2>1
<1>. USE DEF PoolShape, PoolTypeOK, setup, engineVars, resultVars, Tasks
<1>2. CASE EndThread(t)
  <2>1. place' \in [Indices -> ThreadPlaces]
    BY <1>c, <1>2 DEF EndThread
  <2>. QED
    BY <1>1, <1>2, <2>1 DEF EndThread
<1>3. CASE PassQueue(t)
  BY <1>d, <1>3 DEF PassQueue
<1>4. CASE HoldQueue(t)
  <2>1. place' \in [Indices -> ThreadPlaces]
    BY <1>c, <1>4 DEF HoldQueue
  <2>2. holder' \in [Indices -> Indices \cup {Free, Engine}]
    BY <1>1, <1>4 DEF HoldQueue
  <2>. QED
    BY <1>4, <2>1, <2>2 DEF HoldQueue
<1>5. CASE TakeTask(t)
  <2>. DEFINE q == queue[Tried(t)]
  <2>1. q # <<>> /\ q \in Seq(Tasks)
    BY <1>1, <1>5 DEF TakeTask, ThreadsInOrder
  <2>a. q[1] \in Tasks /\ q[Len(q)] \in Tasks /\ Tail(q) \in Seq(Tasks)
    <3>. HIDE DEF q
    <3>. QED
      BY <2>1
  <2>b. SubSeq(q, 1, Len(q) - 1) \in Seq(Tasks)
    <3>. HIDE DEF q
    <3>1. Len(q) \in Nat /\ \A i \in 1 .. Len(q) : q[i] \in Tasks
      BY <2>1
    <3>2. Len(q) - 1 \in Int /\ 1 \in Int /\ \A i \in 1 .. Len(q) - 1 : q[i] \in Tasks
      BY <3>1
    <3>. QED
      BY <3>2, SubSeqProperties
  <2>2. task' \in [Indices -> Tasks \cup {NoTask}]
    BY <1>1, <1>5, <2>a DEF TakeTask
  <2>3. queue' \in [Indices -> Seq(Tasks)]
    BY <1>1, <1>5, <2>a, <2>b DEF TakeTask
  <2>4. holder' \in [Indices -> Indices \cup {Free, Engine}]
    BY <1>1, <1>5 DEF TakeTask
  <2>5. place' \in [Indices -> ThreadPlaces]
    BY <1>c, <1>5 DEF TakeTask
  <2>. QED
    BY <1>5, <2>2, <2>3, <2>4, <2>5 DEF TakeTask
<1>6. CASE Spin(t)
  <2>1. place' \in [Indices -> ThreadPlaces] /\ probe' \in [Indices -> Nat]
    BY <1>a, <1>6 DEF Spin
  <2>. QED
    BY <1>d, <1>6, <2>1 DEF Spin
<1>7. CASE StayUp(t)
  BY <1>a, <1>b, <1>1, <1>7 DEF StayUp
<1>8. CASE DozeOff(t)
  <2>1. place' \in [Indices -> ThreadPlaces]
    BY <1>c, <1>8 DEF DozeOff
  <2>. QED
    BY <1>d, <1>8, <2>1 DEF DozeOff
<1>9. CASE FallAsleep(t)
  <2>1. place' \in [Indices -> ThreadPlaces]
    BY <1>c, <1>9 DEF FallAsleep
  <2>. QED
    BY <1>1, <1>9, <2>1 DEF FallAsleep
<1>10. CASE GetUp(t)
  BY <1>a, <1>b, <1>1, <1>10 DEF GetUp
<1>11. CASE SleepOn(t)
  <2>1. place' \in [Indices -> ThreadPlaces]
    BY <1>c, <1>11 DEF SleepOn
  <2>. QED
    BY <1>1, <1>11, <2>1 DEF SleepOn
<1>12. CASE PassTask(t)
  BY <1>a, <1>b, <1>1, <1>12 DEF PassTask
<1>13. CASE RunTask(t)
  <2>1. place' \in [Indices -> ThreadPlaces]
    BY <1>c, <1>13 DEF RunTask
  <2>. QED
    BY <1>1, <1>13, <2>1 DEF RunTask
<1>14. ASSUME NEW bad \in BOOLEAN, EndTask(t, bad) PROVE PoolTypeOK'
  <2>1. task[t] \in Tasks
    BY <1>14 DEF EndTask, ThreadsInOrder
  <2>2. place' \in [Indices -> ThreadPlaces]
    BY <1>c, <1>14 DEF EndTask
  <2>3. task' \in [Indices -> Tasks \cup {NoTask}] /\ error' \in BOOLEAN
    BY <1>1, <1>14 DEF EndTask
  <2>. QED
    BY <1>14, <2>1, <2>2, <2>3 DEF EndTask
<1>15. CASE CountTask(t)
  <2>2. place' \in [Indices -> ThreadPlaces] /\ probe' \in [Indices -> Nat]
    BY <1>a, <1>c, <1>15 DEF CountTask
  <2>. QED
    BY <1>d, <1>15, <2>2 DEF CountTask
<1>16. CASE TellEngine(t)
  BY <1>a, <1>b, <1>1, <1>16 DEF TellEngine, EnginePlaces
<1>17. CASE Timeout(t)
  BY <1>a, <1>b, <1>1, <1>17 DEF Timeout
<1>. QED
  BY <1>2, <1>3, <1>4, <1>5, <1>6, <1>7, <1>8, <1>9, <1>10, <1>11, <1>12, <1>13,
     <1>14, <1>15, <1>16, <1>17 DEF ThreadStep

LEMMA ThreadKeepsEngineInOrder ==
  ASSUME PoolShape, NEW t \in Threads,
         ThreadStep(t) \/ Timeout(t) \/ EndTask(t, TRUE)
  PROVE  EngineInOrder'
<1>1. /\ UNCHANGED <<setup, target, next, cursor>>
      /\ engine' = engine \/ (engine = "asleep" /\ engine' = "check")
  BY DEF ThreadStep, EndThread, PassQueue, HoldQueue, TakeTask, Spin, StayUp,
         DozeOff, FallAsleep, GetUp, SleepOn, PassTask, RunTask, EndTask,
         CountTask, TellEngine, Timeout, engineVars
<1>2. Threads' = Threads /\ RowLength(size)' = RowLength(size)
  BY <1>1 DEF Threads, RowLength, setup
<1>. QED
  BY <1>1, <1>2 DEF PoolShape, EngineInOrder, setup

LEMMA EngineKeepsThreadsInOrder ==
  ASSUME PoolShape, EngineStep
  PROVE  ThreadsInOrder'
<1>a. PoolTypeOK /\ EngineInOrder /\ ThreadsInOrder
  BY DEF PoolShape
<1>b. /\ \A t \in Threads : Tried(t) \in Indices
      /\ \A t \in Threads : t \in Indices /\ t \in Int /\ t # Free /\ t # Engine
      /\ \A k \in Tasks : RowOf(k) \in Indices
  BY <1>a, IndicesReached
<1>c. UNCHANGED setup /\ UNCHANGED <<probe, task>>
  BY DEF EngineStep, StartThread, PushOne, PushRow, ResetEpoch, NotifyThread,
         WakeThread, Check, StopThread, Unpark, JoinThread, DeleteThread, threadVars
<1>d. Threads' = Threads /\ Tasks' = Tasks /\ \A t \in Threads : Tried(t)' = Tried(t)
  BY <1>c DEF Threads, Tasks, setup, Tried
<1>. SUFFICES ASSUME NEW t \in Threads
              PROVE  /\ place'[t] = "hold" => holder'[Tried(t)] = t /\ queue'[Tried(t)] # <<>>
                     /\ place'[t] \in {"took", "run"} <=> task'[t] \in Tasks
                     /\ engine' = "start" /\ t >= target' => place'[t] = "none"
  BY <1>d DEF ThreadsInOrder
<1>0. /\ place[t] = "hold" => holder[Tried(t)] = t /\ queue[Tried(t)] # <<>>
      /\ place[t] \in {"took", "run"} <=> task[t] \in Tasks
      /\ engine = "start" /\ t >= target => place[t] = "none"
      /\ t \in Indices /\ Tried(t) \in Indices /\ t # Free /\ t # Engine
      /\ place \in [Indices -> ThreadPlaces]
      /\ queue \in [Indices -> Seq(Tasks)]
      /\ holder \in [Indices -> Indices \cup {Free, Engine}]
      /\ target \in Indices
  <2>1. /\ place[t] = "hold" => holder[Tried(t)] = t /\ queue[Tried(t)] # <<>>
        /\ place[t] \in {"took", "run"} <=> task[t] \in Tasks
        /\ engine = "start" /\ t >= target => place[t] = "none"
    BY <1>a DEF ThreadsInOrder
  <2>2. /\ place \in [Indices -> ThreadPlaces]
        /\ queue \in [Indices -> Seq(Tasks)]
        /\ holder \in [Indices -> Indices \cup {Free, Engine}]
        /\ target \in Indices
    BY <1>a DEF PoolTypeOK
  <2>. QED
    BY <1>b, <2>1, <2>2
<1>1. CASE StartThread
  <2>1. place[target] = "none" /\ target \in Int /\ t \in Int
    BY <1>a, <1>b, <1>1 DEF StartThread, ThreadsInOrder, EngineInOrder, Threads
  <2>. QED
    BY <1>0, <1>c, <1>1, <2>1 DEF StartThread
<1>2. CASE PushOne
  <2>1. next \in Tasks
    BY <1>a, <1>2 DEF PushOne, PoolTypeOK, EngineInOrder, Tasks
  <2>. QED
    BY <1>0, <1>c, <1>2, <2>1 DEF PushOne, threadVars
<1>3. CASE PushRow
  <2>1. next \in Tasks
    BY <1>a, <1>3 DEF PushRow, PoolTypeOK, EngineInOrder, Tasks
  <2>2. RowOf(next) \in Indices
    BY <1>b, <2>1
  <2>3. holder[RowOf(next)] \in {Free, Engine}
    BY <1>3 DEF PushRow
  <2>. QED
    BY <1>0, <1>c, <1>3, <2>1, <2>2, <2>3 DEF PushRow, threadVars
<1>4. CASE NotifyThread \/ WakeThread \/ Unpark
  <2>1. /\ UNCHANGED <<queue, holder, task>>
        /\ place' = Notified(target)
        /\ engine' # "start"
    BY <1>4 DEF NotifyThread, WakeThread, Unpark
  <2>. QED
    BY <1>0, <2>1 DEF Notified
<1>5. CASE ResetEpoch \/ Check \/ StopThread \/ JoinThread \/ DeleteThread
  BY <1>0, <1>5 DEF ResetEpoch, Check, StopThread, JoinThread, DeleteThread, threadVars
<1>. QED
  BY <1>1, <1>2, <1>3, <1>4, <1>5 DEF EngineStep

LEMMA ThreadKeepsThreadsInOrder ==
  ASSUME PoolShape, NEW t \in Threads,
         ThreadStep(t) \/ Timeout(t) \/ EndTask(t, TRUE)
  PROVE  ThreadsInOrder'
<1>a. PoolTypeOK /\ EngineInOrder /\ ThreadsInOrder
  BY DEF PoolShape
<1>b. \A u \in Threads : Tried(u) \in Indices /\ u \in Indices /\ u # Engine /\ u # Free
  BY <1>a, IndicesReached
<1>c. /\ UNCHANGED setup /\ UNCHANGED target
      /\ engine' = engine \/ (engine = "asleep" /\ engine' = "check")
  BY DEF ThreadStep, EndThread, PassQueue, HoldQueue, TakeTask, Spin, StayUp,
         DozeOff, FallAsleep, GetUp, SleepOn, PassTask, RunTask, EndTask,
         CountTask, TellEngine, Timeout, engineVars
<1>d. Threads' = Threads /\ Tasks' = Tasks
  BY <1>c DEF Threads, Tasks, setup
<1>e. place[t] # "none"
  BY DEF ThreadStep, EndThread, PassQueue, HoldQueue, TakeTask, Spin, StayUp,
         DozeOff, FallAsleep, GetUp, SleepOn, PassTask, RunTask, EndTask,
         CountTask, TellEngine, Timeout, Trying, Nothing
<1>. SUFFICES ASSUME NEW u \in Threads
              PROVE  /\ place'[u] = "hold" => holder'[Tried(u)'] = u /\ queue'[Tried(u)'] # <<>>
                     /\ place'[u] \in {"took", "run"} <=> task'[u] \in Tasks
                     /\ engine' = "start" /\ u >= target' => place'[u] = "none"
  BY <1>d DEF ThreadsInOrder
<1>0. /\ place[u] = "hold" => holder[Tried(u)] = u /\ queue[Tried(u)] # <<>>
      /\ place[t] = "hold" => holder[Tried(t)] = t
      /\ place[u] \in {"took", "run"} <=> task[u] \in Tasks
      /\ engine = "start" /\ u >= target => place[u] = "none"
      /\ u \in Indices /\ Tried(u) \in Indices /\ Tried(t) \in Indices
      /\ NoTask \notin Tasks
      /\ place \in [Indices -> ThreadPlaces]
      /\ queue \in [Indices -> Seq(Tasks)]
      /\ holder \in [Indices -> Indices \cup {Free, Engine}]
      /\ probe \in [Indices -> Nat]
      /\ task \in [Indices -> Tasks \cup {NoTask}]
  <2>1. /\ place[u] = "hold" => holder[Tried(u)] = u /\ queue[Tried(u)] # <<>>
        /\ place[t] = "hold" => holder[Tried(t)] = t
        /\ place[u] \in {"took", "run"} <=> task[u] \in Tasks
        /\ engine = "start" /\ u >= target => place[u] = "none"
    BY <1>a DEF ThreadsInOrder
  <2>2. /\ NoTask \notin Tasks
        /\ place \in [Indices -> ThreadPlaces]
        /\ queue \in [Indices -> Seq(Tasks)]
        /\ holder \in [Indices -> Indices \cup {Free, Engine}]
        /\ probe \in [Indices -> Nat]
        /\ task \in [Indices -> Tasks \cup {NoTask}]
    BY <1>a DEF PoolTypeOK, NoTask, Tasks
  <2>. QED
    BY <1>b, <2>1, <2>2
<1>f. u # t => Tried(u)' = Tried(u)
  <2>1. u # t => probe'[u] = probe[u]
    BY <1>0 DEF ThreadStep, EndThread, PassQueue, HoldQueue, TakeTask, Spin, StayUp,
         DozeOff, FallAsleep, GetUp, SleepOn, PassTask, RunTask, EndTask,
         CountTask, TellEngine, Timeout, LookAgain
  <2>. QED
    BY <1>c, <2>1 DEF Tried, setup
<1>. USE <1>0, <1>b, <1>c, <1>e, <1>f
<1>1. CASE PassQueue(t) \/ EndThread(t) \/ DozeOff(t) \/ FallAsleep(t) \/ SleepOn(t)
  BY <1>1 DEF PassQueue, EndThread, DozeOff, FallAsleep, SleepOn, Trying, Nothing
<1>2. CASE HoldQueue(t)
  <2>1. Tried(t)' = Tried(t)
    BY <1>2 DEF HoldQueue, Tried, setup
  <2>2. u # t /\ place[u] = "hold" => Tried(u) # Tried(t)
    BY <1>2 DEF HoldQueue, Free
  <2>. QED
    BY <1>2, <2>1, <2>2 DEF HoldQueue, Trying
<1>3. CASE TakeTask(t)
  <2>1. u # t /\ place[u] = "hold" => Tried(u) # Tried(t)
    BY <1>3 DEF TakeTask
  <2>2. task'[t] \in Tasks /\ (u # t => task'[u] = task[u])
    <3>. DEFINE q == queue[Tried(t)]
    <3>1. q # <<>> /\ q \in Seq(Tasks)
      BY <1>a, <1>3 DEF TakeTask, ThreadsInOrder
    <3>2. q[1] \in Tasks /\ q[Len(q)] \in Tasks
      <4>. HIDE DEF q
      <4>. QED
        BY <3>1
    <3>. QED
      BY <1>3, <3>2 DEF TakeTask
  <2>3. u # t /\ place[u] = "hold" =>
          holder'[Tried(u)] = holder[Tried(u)] /\ queue'[Tried(u)] = queue[Tried(u)]
    BY <1>3, <2>1 DEF TakeTask
  <2>. QED
    BY <1>3, <2>2, <2>3 DEF TakeTask
<1>4. CASE Spin(t) \/ StayUp(t) \/ GetUp(t) \/ Timeout(t) \/ TellEngine(t)
  BY <1>4 DEF Spin, StayUp, GetUp, Timeout, TellEngine, LookAgain, Nothing
<1>5. CASE PassTask(t)
  BY <1>5 DEF PassTask, LookAgain
<1>6. CASE RunTask(t)
  BY <1>6 DEF RunTask
<1>7. ASSUME NEW bad \in BOOLEAN, EndTask(t, bad)
      PROVE  /\ place'[u] = "hold" => holder'[Tried(u)'] = u /\ queue'[Tried(u)'] # <<>>
             /\ place'[u] \in {"took", "run"} <=> task'[u] \in Tasks
             /\ engine' = "start" /\ u >= target' => place'[u] = "none"
  BY <1>7 DEF EndTask
<1>8. CASE CountTask(t)
  BY <1>8 DEF CountTask, LookAgain
<1>. QED
  BY <1>1, <1>2, <1>3, <1>4, <1>5, <1>6, <1>7, <1>8 DEF ThreadStep

LEMMA StepKeepsPoolShape == PoolShape /\ [PoolNext]_poolVars => PoolShape'
<1>. SUFFICES ASSUME PoolShape, [PoolNext]_poolVars PROVE PoolShape'
  OBVIOUS
<1>1. CASE EngineStep
  BY <1>1, EngineKeepsType, EngineStaysInOrder, EngineKeepsThreadsInOrder DEF PoolShape
<1>2. ASSUME NEW t \in Threads, ThreadStep(t) \/ Timeout(t) \/ EndTask(t, TRUE)
      PROVE  PoolShape'
  BY <1>2, ThreadKeepsType, ThreadKeepsEngineInOrder, ThreadKeepsThreadsInOrder
  DEF PoolShape
<1>3. CASE UNCHANGED poolVars
  BY <1>3
  DEF poolVars, setup, engineVars, threadVars, resultVars, PoolShape, PoolTypeOK,
      EngineInOrder, ThreadsInOrder, Threads, Tasks, RowLength, Tried
<1>. QED
  BY <1>1, <1>2, <1>3 DEF PoolNext

-----------------------------------------------------------------------------
(* The notifications, and the end of the threads.                          *)

\* The engine notifies a thread before it can be about to sleep again, or the
\* thread's queue was empty when it decided to.
NotifiedInTime ==
  engine = "notify" /\ place[target] = "doze" => queue[target] = <<>>

WordOnItsWay == SleepersGetWord /\ NotifiedInTime

LEMMA StepKeepsWordOnItsWay ==
  PoolShape /\ WordOnItsWay /\ [PoolNext]_poolVars => WordOnItsWay'
<1>. SUFFICES ASSUME PoolShape, WordOnItsWay, [PoolNext]_poolVars
              PROVE  WordOnItsWay'
  OBVIOUS
<1>a. PoolTypeOK /\ EngineInOrder /\ ThreadsInOrder
  BY DEF PoolShape
<1>b. /\ \A u \in Threads : Tried(u) \in Indices /\ u \in Indices /\ u # Free /\ u # Engine
      /\ \A k \in Tasks : RowOf(k) \in Indices
  BY <1>a, IndicesReached
<1>c. target \in Threads /\ target \in Indices
  BY <1>a, <1>b DEF EngineInOrder
<1>d. UNCHANGED setup
  BY DEF PoolNext, EngineStep, StartThread, PushOne, PushRow, ResetEpoch, NotifyThread,
         WakeThread, Check, StopThread, Unpark, JoinThread, DeleteThread,
         ThreadStep, EndThread, PassQueue, HoldQueue, TakeTask, Spin, StayUp,
         DozeOff, FallAsleep, GetUp, SleepOn, PassTask, RunTask, EndTask,
         CountTask, TellEngine, Timeout, poolVars
<1>e. Threads' = Threads
  BY <1>d DEF Threads, setup
<1>f. /\ place \in [Indices -> ThreadPlaces]
      /\ queue \in [Indices -> Seq(Tasks)]
      /\ holder \in [Indices -> Indices \cup {Free, Engine}]
  BY <1>a DEF PoolTypeOK
<1>. SUFFICES ASSUME NEW u \in Threads
              PROVE  /\ /\ place'[u] \in {"doze", "asleep"}
                        /\ queue'[u] # <<>>
                        => \/ holder'[u] = Engine
                           \/ engine' \in {"reset", "notify"} /\ target' = u
                     /\ engine' = "notify" /\ place'[u] = "doze" /\ target' = u
                          => queue'[u] = <<>>
  <2>1. target' \in Threads
    BY <1>e, StepKeepsPoolShape DEF PoolShape, EngineInOrder
  <2>. QED
    BY <1>e, <2>1 DEF WordOnItsWay, SleepersGetWord, BeingTold, NotifiedInTime
<1>g. /\ place[u] \in {"doze", "asleep"} /\ queue[u] # <<>>
         => holder[u] = Engine \/ (engine \in {"reset", "notify"} /\ target = u)
      /\ engine = "notify" /\ place[u] = "doze" /\ target = u => queue[u] = <<>>
      /\ u \in Indices
  BY <1>b DEF WordOnItsWay, SleepersGetWord, BeingTold, NotifiedInTime
<1>. USE <1>g, <1>f, <1>c
<1>1. CASE EngineStep
  <2>1. CASE StartThread
    BY <2>1 DEF StartThread
  <2>2. CASE PushOne
    BY <2>2 DEF PushOne, threadVars
  <2>3. CASE PushRow
    BY <2>3 DEF PushRow, threadVars
  <2>4. CASE ResetEpoch
    BY <2>4 DEF ResetEpoch
  <2>5. CASE NotifyThread
    BY <2>5 DEF NotifyThread, Notified
  <2>6. CASE WakeThread
    BY <2>6 DEF WakeThread, Notified
  <2>7. CASE Unpark
    BY <2>7 DEF Unpark, Notified
  <2>8. CASE Check \/ StopThread \/ JoinThread \/ DeleteThread
    BY <2>8 DEF Check, StopThread, JoinThread, DeleteThread, threadVars
  <2>. QED
    BY <1>1, <2>1, <2>2, <2>3, <2>4, <2>5, <2>6, <2>7, <2>8 DEF EngineStep
<1>2. ASSUME NEW t \in Threads, ThreadStep(t) \/ Timeout(t) \/ EndTask(t, TRUE)
      PROVE  /\ /\ place'[u] \in {"doze", "asleep"}
                /\ queue'[u] # <<>>
                => \/ holder'[u] = Engine
                   \/ engine' \in {"reset", "notify"} /\ target' = u
             /\ engine' = "notify" /\ place'[u] = "doze" /\ target' = u
                  => queue'[u] = <<>>
  <2>a. t \in Indices /\ Tried(t) \in Indices /\ t # Engine /\ Free # Engine
    BY <1>b DEF Free, Engine
  <2>1. CASE TakeTask(t)
    <3>1. holder[Tried(t)] = t
      BY <1>a, <2>1 DEF ThreadsInOrder, TakeTask
    <3>2. queue[u] = <<>> => queue'[u] = <<>>
      <4>1. queue[Tried(t)] # <<>>
        BY <1>a, <2>1 DEF ThreadsInOrder, TakeTask
      <4>. QED
        BY <2>a, <2>1, <4>1 DEF TakeTask
    <3>. QED
      BY <2>a, <2>1, <3>1, <3>2 DEF TakeTask, engineVars
  <2>2. CASE HoldQueue(t)
    BY <2>a, <2>2 DEF HoldQueue, engineVars
  <2>3. CASE EndThread(t) \/ PassQueue(t) \/ DozeOff(t) \/ FallAsleep(t) \/ SleepOn(t) \/ RunTask(t)
    BY <2>a, <2>3 DEF EndThread, PassQueue, DozeOff, FallAsleep, SleepOn, RunTask, engineVars
  <2>4. CASE Spin(t) \/ StayUp(t) \/ GetUp(t) \/ PassTask(t) \/ Timeout(t)
    BY <2>a, <2>4 DEF Spin, StayUp, GetUp, PassTask, Timeout, LookAgain, engineVars
  <2>5. CASE EndTask(t, TRUE) \/ EndTask(t, FALSE) \/ CountTask(t)
    BY <2>a, <2>5 DEF EndTask, CountTask, LookAgain, engineVars
  <2>6. CASE TellEngine(t)
    BY <2>a, <2>6 DEF TellEngine, LookAgain
  <2>. QED
    BY <1>2, <2>1, <2>2, <2>3, <2>4, <2>5, <2>6 DEF ThreadStep
<1>3. CASE UNCHANGED poolVars
  BY <1>3 DEF poolVars, engineVars, threadVars
<1>. QED
  BY <1>1, <1>2, <1>3 DEF PoolNext

\* The threads are joined in their order, and only then deleted.
EndedBeforeDeleted ==
  /\ engine \in {"stop", "unpark", "join"} =>
       \A u \in Threads : u < target => place[u] = "ended"
  /\ engine \in {"delete", "gone"} => \A u \in Threads : place[u] = "ended"
  /\ deleted # {} => engine \in {"delete", "gone"}

LEMMA StepKeepsEndedBeforeDeleted ==
  PoolShape /\ EndedBeforeDeleted /\ [PoolNext]_poolVars => EndedBeforeDeleted'
<1>. SUFFICES ASSUME PoolShape, EndedBeforeDeleted, [PoolNext]_poolVars
              PROVE  EndedBeforeDeleted'
  OBVIOUS
<1>a. PoolTypeOK /\ EngineInOrder
  BY DEF PoolShape
<1>d. engine = "check" => target = 0
  BY <1>a DEF EngineInOrder
<1>b. \A u \in Threads : u \in Indices /\ u \in Int /\ u >= 0 /\ u < size /\ size \in Int
  <2>1. \A u \in Threads : u \in Indices
    BY <1>a, IndicesReached
  <2>. QED
    BY <1>a, <2>1, ThreadPoolAssumption DEF Threads, PoolTypeOK
<1>c. target \in Threads /\ place \in [Indices -> ThreadPlaces]
  BY <1>a DEF EngineInOrder, PoolTypeOK
<1>. USE <1>b, <1>c
<1>1. CASE EngineStep
  <2>0. Threads' = Threads
    BY <1>1 DEF EngineStep, StartThread, PushOne, PushRow, ResetEpoch, NotifyThread,
         WakeThread, Check, StopThread, Unpark, JoinThread, DeleteThread, setup, Threads
  <2>1. CASE StartThread \/ PushOne \/ PushRow \/ ResetEpoch
    BY <2>0, <2>1 DEF StartThread, PushOne, PushRow, ResetEpoch, EndedBeforeDeleted, threadVars
  <2>2. CASE NotifyThread
    BY <2>0, <2>2 DEF NotifyThread, EndedBeforeDeleted, threadVars
  <2>3. CASE WakeThread
    <3>1. engine = "wakeup" /\ engine' \in {"check", "wakeup"} /\ deleted' = deleted
      BY <2>3 DEF WakeThread
    <3>2. engine' \notin {"stop", "unpark", "join", "delete", "gone"} /\ deleted' = {}
      BY <3>1 DEF EndedBeforeDeleted
    <3>. QED
      BY <3>2 DEF EndedBeforeDeleted
  <2>4. CASE Check
    BY <1>d, <2>0, <2>4 DEF Check, EndedBeforeDeleted, threadVars
  <2>5. CASE StopThread
    BY <2>0, <2>5 DEF StopThread, EndedBeforeDeleted, threadVars
  <2>6. CASE Unpark
    BY <2>0, <2>6 DEF Unpark, Notified, EndedBeforeDeleted, threadVars
  <2>7. CASE JoinThread
    BY <2>0, <2>7 DEF JoinThread, EndedBeforeDeleted, threadVars
  <2>8. CASE DeleteThread
    BY <2>0, <2>8 DEF DeleteThread, EndedBeforeDeleted, threadVars
  <2>. QED
    BY <1>1, <2>1, <2>2, <2>3, <2>4, <2>5, <2>6, <2>7, <2>8 DEF EngineStep
<1>2. ASSUME NEW t \in Threads, ThreadStep(t) \/ Timeout(t) \/ EndTask(t, TRUE)
      PROVE  EndedBeforeDeleted'
  <2>1. /\ \A u \in Threads : place[u] = "ended" => place'[u] = "ended"
        /\ place[t] # "ended"
    BY <1>2 DEF ThreadStep, EndThread, PassQueue, HoldQueue, TakeTask, Spin, StayUp,
         DozeOff, FallAsleep, GetUp, SleepOn, PassTask, RunTask, EndTask,
         CountTask, TellEngine, Timeout, LookAgain, Trying, Nothing
  <2>2. /\ UNCHANGED <<setup, target, deleted>>
        /\ engine' = engine \/ (engine = "asleep" /\ engine' = "check")
    BY <1>2 DEF ThreadStep, EndThread, PassQueue, HoldQueue, TakeTask, Spin, StayUp,
         DozeOff, FallAsleep, GetUp, SleepOn, PassTask, RunTask, EndTask,
         CountTask, TellEngine, Timeout, engineVars
  <2>3. Threads' = Threads
    BY <2>2 DEF Threads, setup
  <2>. QED
    BY <2>1, <2>2, <2>3 DEF EndedBeforeDeleted
<1>3. CASE UNCHANGED poolVars
  BY <1>3 DEF poolVars, setup, engineVars, threadVars, EndedBeforeDeleted, Threads
<1>. QED
  BY <1>1, <1>2, <1>3 DEF PoolNext

-----------------------------------------------------------------------------
(* Every task is in one place.                                             *)

\* Task k lies in the queue of thread t, at place i.
Lies(k, t, i) == i \in 1 .. Len(queue[t]) /\ queue[t][i] = k

\* A task lies in one queue, at one place of it, waits there, and is of those
\* handed out.
QueuedOnce ==
  /\ \A k \in Tasks : \A t, u \in Threads : \A i, j \in Nat :
       Lies(k, t, i) /\ Lies(k, u, j) => t = u /\ i = j
  /\ \A k \in Tasks : \A t \in Threads : \A i \in Nat :
       Lies(k, t, i) => k < next /\ k \notin ended /\ \A v \in Threads : task[v] # k

\* A task that was taken was taken by one thread, and has not ended.
TakenOnce ==
  /\ \A v \in Threads : task[v] \in Tasks =>
       /\ task[v] < next
       /\ task[v] \notin ended
       /\ \A w \in Threads : task[w] = task[v] => w = v
  /\ \A k \in ended : k < next

EachTaskOnce == QueuedOnce /\ TakenOnce

\* An element is appended to one queue, whichever of the two pushes does it.
LEMMA PushLies ==
  ASSUME PoolShape, PushOne \/ PushRow
  PROVE  \E c \in Threads : \A k \in Tasks : \A t \in Threads : \A i \in Nat :
           Lies(k, t, i)' <=> Lies(k, t, i) \/ (k = next /\ t = c /\ i = Len(queue[c]) + 1)
<1>a. PoolTypeOK /\ EngineInOrder
  BY DEF PoolShape
<1>b. \E c \in Threads : queue' = [queue EXCEPT ![c] = Append(@, next)]
  <2>1. CASE PushOne
    <3>1. cursor \in Threads
      <4>1. target' \in Threads'
        BY <2>1, StepKeepsPoolShape DEF PoolNext, EngineStep, PoolShape, EngineInOrder
      <4>2. target' = cursor /\ Threads' = Threads
        BY <2>1 DEF PushOne, Threads, setup
      <4>. QED
        BY <4>1, <4>2
    <3>. QED
      BY <2>1, <3>1 DEF PushOne
  <2>2. CASE PushRow
    <3>1. next \in Tasks
      BY <1>a, <2>2 DEF PushRow, PoolTypeOK, EngineInOrder, Tasks
    <3>2. RowOf(next) \in Threads
      BY <1>a, <3>1, IndicesReached
    <3>. QED
      BY <2>2, <3>2 DEF PushRow
  <2>. QED
    BY <2>1, <2>2
<1>1. PICK c \in Threads : queue' = [queue EXCEPT ![c] = Append(@, next)]
  BY <1>b
<1>2. next \in Tasks
  BY <1>a DEF PushOne, PushRow, PoolTypeOK, EngineInOrder, Tasks
<1>3. \A t \in Threads : t \in Indices /\ queue[t] \in Seq(Tasks) /\ queue \in [Indices -> Seq(Tasks)]
  <2>1. \A t \in Threads : t \in Indices
    BY <1>a, IndicesReached
  <2>. QED
    BY <1>a, <2>1 DEF PoolTypeOK
<1>4. ASSUME NEW k \in Tasks, NEW t \in Threads, NEW i \in Nat
      PROVE  Lies(k, t, i)' <=> Lies(k, t, i) \/ (k = next /\ t = c /\ i = Len(queue[c]) + 1)
  <2>1. CASE t # c
    BY <1>1, <1>3, <2>1 DEF Lies
  <2>2. CASE t = c
    <3>. DEFINE q == queue[c]
    <3>1. queue'[c] = Append(q, next) /\ q \in Seq(Tasks)
      BY <1>1, <1>3
    <3>. HIDE DEF q
    <3>2. /\ Len(Append(q, next)) = Len(q) + 1 /\ Len(q) \in Nat
          /\ i \in 1 .. Len(q) => Append(q, next)[i] = q[i]
          /\ Append(q, next)[Len(q) + 1] = next
      BY <1>2, <3>1
    <3>3. i \in 1 .. Len(q) + 1 <=> i \in 1 .. Len(q) \/ i = Len(q) + 1
      BY <3>2
    <3>. QED
      BY <2>2, <3>1, <3>2, <3>3 DEF Lies, q
  <2>. QED
    BY <2>1, <2>2
<1>. QED
  BY <1>4

LEMMA PushKeepsEachTaskOnce ==
  ASSUME PoolShape, EachTaskOnce, PushOne \/ PushRow
  PROVE  EachTaskOnce'
<1>a. PoolTypeOK /\ EngineInOrder
  BY DEF PoolShape
<1>1. PICK c \in Threads : \A k \in Tasks : \A t \in Threads : \A i \in Nat :
        Lies(k, t, i)' <=> Lies(k, t, i) \/ (k = next /\ t = c /\ i = Len(queue[c]) + 1)
  BY PushLies
<1>2. /\ UNCHANGED <<setup, task, ended>>
      /\ next' = next + 1
      /\ next \in Tasks
  BY <1>a DEF PushOne, PushRow, PoolTypeOK, EngineInOrder, Tasks, threadVars, resultVars
<1>3. /\ Threads' = Threads /\ Tasks' = Tasks
      /\ \A k \in Tasks : k \in Int
      /\ ended \subseteq Tasks
  BY <1>a, <1>2 DEF setup, Threads, Tasks, PoolTypeOK
<1>4. next \notin ended /\ \A v \in Threads : task[v] # next
  BY <1>2, <1>3 DEF EachTaskOnce, TakenOnce
<1>5. \A k \in Tasks : k < next => k < next + 1 /\ k # next
  BY <1>2, <1>3
<1>. HIDE DEF Lies
<1>6. \A k \in Tasks : \A t, u \in Threads : \A i, j \in Nat :
        Lies(k, t, i)' /\ Lies(k, u, j)' => t = u /\ i = j
  BY <1>1, <1>5 DEF EachTaskOnce, QueuedOnce
<1>7. \A k \in Tasks : \A t \in Threads : \A i \in Nat :
        Lies(k, t, i)' => k < next + 1 /\ k \notin ended /\ \A v \in Threads : task[v] # k
  BY <1>1, <1>2, <1>3, <1>4, <1>5 DEF EachTaskOnce, QueuedOnce
<1>8. QueuedOnce'
  BY <1>2, <1>3, <1>6, <1>7 DEF QueuedOnce
<1>9. TakenOnce'
  BY <1>2, <1>3, <1>5 DEF EachTaskOnce, TakenOnce
<1>. QED
  BY <1>8, <1>9 DEF EachTaskOnce

\* A taken task leaves the queue; the others stay in it.
LEMMA TakeLies ==
  ASSUME PoolShape, NEW t \in Threads, TakeTask(t)
  PROVE  \E x \in Tasks, m \in Nat, d \in {0, 1} :
           /\ task' = [task EXCEPT ![t] = x]
           /\ Lies(x, Tried(t), m) /\ (d = 1 => m = 1)
           /\ \A k \in Tasks : \A u \in Threads : \A i \in Nat :
                Lies(k, u, i)' <=> IF u = Tried(t) THEN Lies(k, u, i + d) /\ i + d # m /\ i > 0
                                   ELSE Lies(k, u, i)
<1>. DEFINE c == Tried(t)
            q == queue[c]
            d == IF probe[t] = 0 THEN 1 ELSE 0
            m == IF probe[t] = 0 THEN 1 ELSE Len(q)
<1>a. PoolTypeOK /\ ThreadsInOrder
  BY DEF PoolShape
<1>b. c \in Threads /\ \A u \in Threads : u \in Indices
  BY <1>a, IndicesReached
<1>c. q # <<>> /\ q \in Seq(Tasks)
  BY <1>a, <1>b DEF ThreadsInOrder, TakeTask, PoolTypeOK
<1>d. m \in 1 .. Len(q) /\ q[m] \in Tasks /\ Len(q) \in Nat /\ Len(q) > 0
  <2>. HIDE DEF q
  <2>. QED
    BY <1>c
<1>e. queue \in [Indices -> Seq(Tasks)]
  BY <1>a DEF PoolTypeOK
<1>f. task' = [task EXCEPT ![t] = q[m]]
  BY DEF TakeTask
<1>g. queue'[c] = IF probe[t] = 0 THEN Tail(q) ELSE SubSeq(q, 1, Len(q) - 1)
  BY <1>b, <1>e DEF TakeTask
<1>h. \A u \in Threads : u # c => queue'[u] = queue[u]
  BY <1>b, <1>e DEF TakeTask
<1>i. /\ Len(queue'[c]) = Len(q) - 1
      /\ \A i \in 1 .. Len(q) - 1 : queue'[c][i] = q[i + d]
  <2>. HIDE DEF q
  <2>1. CASE probe[t] = 0
    BY <1>c, <1>d, <1>g, <2>1, HeadTailProperties
  <2>2. CASE probe[t] # 0
    <3>1. \A i \in 1 .. Len(q) - 1 : q[i] \in Tasks
      BY <1>c, <1>d
    <3>2. /\ Len(SubSeq(q, 1, Len(q) - 1)) = IF 1 <= Len(q) - 1 THEN Len(q) - 1 - 1 + 1 ELSE 0
          /\ \A i \in 1 .. Len(q) - 1 - 1 + 1 : SubSeq(q, 1, Len(q) - 1)[i] = q[1 + i - 1]
      BY <1>d, <3>1, SubSeqProperties
    <3>3. Len(SubSeq(q, 1, Len(q) - 1)) = Len(q) - 1
      <4>. DEFINE l == Len(SubSeq(q, 1, Len(q) - 1))
                  n == Len(q)
      <4>1. l = (IF 1 <= n - 1 THEN n - 1 - 1 + 1 ELSE 0) /\ n \in Nat /\ n > 0
        BY <1>d, <3>2
      <4>. HIDE DEF l, n
      <4>2. l = n - 1
        BY <4>1
      <4>. QED
        BY <4>2 DEF l, n
    <3>4. ASSUME NEW i \in 1 .. Len(q) - 1
          PROVE  SubSeq(q, 1, Len(q) - 1)[i] = q[i]
      <4>1. i \in 1 .. Len(q) - 1 - 1 + 1 /\ 1 + i - 1 = i
        BY <1>d
      <4>. QED
        BY <3>2, <4>1
    <3>. QED
      BY <1>d, <1>g, <2>2, <3>3, <3>4
  <2>. QED
    BY <2>1, <2>2
<1>j. ASSUME NEW k \in Tasks, NEW u \in Threads, NEW i \in Nat
      PROVE  Lies(k, u, i)' <=> IF u = c THEN Lies(k, u, i + d) /\ i + d # m /\ i > 0
                                ELSE Lies(k, u, i)
  <2>1. CASE u # c
    BY <1>h, <2>1 DEF Lies
  <2>2. CASE u = c
    <3>. HIDE DEF d, m
    <3>1. (i \in 1 .. Len(queue'[c]) /\ queue'[c][i] = k) <=> i \in 1 .. Len(q) - 1 /\ q[i + d] = k
      <4>. HIDE DEF q
      <4>. QED
        BY <1>i
    <3>2. i \in 1 .. Len(q) - 1 <=> i + d \in 1 .. Len(q) /\ i + d # m /\ i > 0
      <4>1. d \in {0, 1} /\ (d = 0 => m = Len(q)) /\ (d = 1 => m = 1)
        BY DEF d, m
      <4>. HIDE DEF q
      <4>. QED
        BY <1>d, <4>1
    <3>3. Lies(k, c, i + d) <=> i + d \in 1 .. Len(q) /\ q[i + d] = k
      BY DEF Lies
    <3>4. Lies(k, u, i)' <=> i \in 1 .. Len(queue'[c]) /\ queue'[c][i] = k
      BY <2>2 DEF Lies
    <3>. QED
      BY <2>2, <3>1, <3>2, <3>3, <3>4
  <2>. QED
    BY <2>1, <2>2
<1>. QED
  <2>1. m \in Nat /\ d \in {0, 1} /\ q[m] \in Tasks /\ Lies(q[m], c, m)
    BY <1>d DEF Lies
  <2>2. \E x \in Tasks : x = q[m]
    BY <2>1
  <2>3. PICK x \in Tasks : x = q[m]
    BY <2>2
  <2>4. task' = [task EXCEPT ![t] = x] /\ Lies(x, c, m)
    BY <1>f, <2>1, <2>3
  <2>5. \A k \in Tasks : \A u \in Threads : \A i \in Nat :
          Lies(k, u, i)' <=> IF u = c THEN Lies(k, u, i + d) /\ i + d # m /\ i > 0
                             ELSE Lies(k, u, i)
    BY <1>j
  <2>6. d = 1 => m = 1
    OBVIOUS
  <2>. HIDE DEF m, d
  <2>. QED
    BY <2>1, <2>4, <2>5, <2>6, ZenonT(30)

LEMMA TakeKeepsEachTaskOnce ==
  ASSUME PoolShape, EachTaskOnce, NEW t \in Threads, TakeTask(t)
  PROVE  EachTaskOnce'
<1>a. PoolTypeOK
  BY DEF PoolShape
<1>b. Tried(t) \in Threads /\ \A u \in Threads : u \in Indices
  BY <1>a, IndicesReached
<1>1. PICK x \in Tasks, m \in Nat, d \in {0, 1} :
        /\ task' = [task EXCEPT ![t] = x]
        /\ Lies(x, Tried(t), m) /\ (d = 1 => m = 1)
        /\ \A k \in Tasks : \A u \in Threads : \A i \in Nat :
             Lies(k, u, i)' <=> IF u = Tried(t) THEN Lies(k, u, i + d) /\ i + d # m /\ i > 0
                                ELSE Lies(k, u, i)
  BY TakeLies
<1>2. Lies(x, Tried(t), m) /\ x \in Tasks
  BY <1>1
<1>3. /\ UNCHANGED <<setup, next, ended>>
      /\ \A v \in Threads : v # t => task'[v] = task[v]
      /\ task'[t] = x
  <2>1. task \in [Indices -> Tasks \cup {NoTask}]
    BY <1>a DEF PoolTypeOK
  <2>. QED
    BY <1>1, <1>b, <2>1 DEF TakeTask, engineVars, resultVars
<1>4. /\ Threads' = Threads /\ Tasks' = Tasks
      /\ \A i \in Nat : i + d \in Nat
      /\ \A i, j \in Nat : i + d = j + d => i = j
  BY <1>3 DEF setup, Threads, Tasks
<1>5. x < next /\ x \notin ended /\ \A v \in Threads : task[v] # x
  BY <1>1, <1>2, <1>b DEF EachTaskOnce, QueuedOnce
<1>6. \A u \in Threads : \A i \in Nat : ~ Lies(x, u, i)'
  BY <1>1, <1>2, <1>4, <1>b DEF EachTaskOnce, QueuedOnce
<1>7. \A k \in Tasks : \A v, u \in Threads : \A i, j \in Nat :
        Lies(k, v, i)' /\ Lies(k, u, j)' => v = u /\ i = j
  BY <1>1, <1>4 DEF EachTaskOnce, QueuedOnce
<1>8. \A k \in Tasks : \A u \in Threads : \A i \in Nat :
        Lies(k, u, i)' => k < next /\ k \notin ended /\ \A v \in Threads : task[v] # k
  BY <1>1, <1>4 DEF EachTaskOnce, QueuedOnce
<1>9. QueuedOnce'
  BY <1>3, <1>4, <1>6, <1>7, <1>8 DEF QueuedOnce
<1>10. TakenOnce'
  BY <1>2, <1>3, <1>4, <1>5 DEF EachTaskOnce, TakenOnce
<1>. QED
  BY <1>9, <1>10 DEF EachTaskOnce

LEMMA StepKeepsEachTaskOnce ==
  PoolShape /\ EachTaskOnce /\ [PoolNext]_poolVars => EachTaskOnce'
<1>. SUFFICES ASSUME PoolShape, EachTaskOnce, [PoolNext]_poolVars
              PROVE  EachTaskOnce'
  OBVIOUS
<1>a. PoolTypeOK /\ ThreadsInOrder
  BY DEF PoolShape
<1>b. /\ task \in [Indices -> Tasks \cup {NoTask}]
      /\ \A u \in Threads : u \in Indices
      /\ \A k \in Tasks : k # NoTask
  <2>1. \A u \in Threads : u \in Indices
    BY <1>a, IndicesReached
  <2>. QED
    BY <1>a, <2>1 DEF PoolTypeOK, Tasks, NoTask
<1>1. CASE PushOne \/ PushRow
  BY <1>1, PushKeepsEachTaskOnce
<1>2. ASSUME NEW t \in Threads, TakeTask(t) PROVE EachTaskOnce'
  BY <1>2, TakeKeepsEachTaskOnce
<1>3. CASE UNCHANGED <<setup, next, queue, task, ended>>
  <2>1. /\ Threads' = Threads /\ Tasks' = Tasks
        /\ \A k \in Tasks : \A t \in Threads : \A i \in Nat : Lies(k, t, i)' <=> Lies(k, t, i)
    BY <1>3 DEF setup, Threads, Tasks, Lies
  <2>. HIDE DEF Lies
  <2>2. QueuedOnce'
    BY <1>3, <2>1 DEF EachTaskOnce, QueuedOnce
  <2>3. TakenOnce'
    BY <1>3, <2>1 DEF EachTaskOnce, TakenOnce
  <2>. QED
    BY <2>2, <2>3 DEF EachTaskOnce
<1>4. ASSUME NEW t \in Threads, NEW gone \in SUBSET {task[t]},
             UNCHANGED <<setup, next, queue>>,
             task' = [task EXCEPT ![t] = NoTask],
             ended' = ended \cup gone,
             gone # {} => task[t] \in Tasks
      PROVE  EachTaskOnce'
  <2>1. /\ Threads' = Threads /\ Tasks' = Tasks
        /\ \A k \in Tasks : \A u \in Threads : \A i \in Nat : Lies(k, u, i)' <=> Lies(k, u, i)
        /\ task'[t] = NoTask /\ \A u \in Threads : u # t => task'[u] = task[u]
    BY <1>b, <1>4 DEF setup, Threads, Tasks, Lies
  <2>. HIDE DEF Lies
  <2>2. QueuedOnce'
    BY <1>b, <1>4, <2>1 DEF EachTaskOnce, QueuedOnce
  <2>3. TakenOnce'
    BY <1>b, <1>4, <2>1 DEF EachTaskOnce, TakenOnce
  <2>. QED
    BY <2>2, <2>3 DEF EachTaskOnce
<1>5. ASSUME NEW t \in Threads, PassTask(t) PROVE EachTaskOnce'
  <2>1. {} \in SUBSET {task[t]} /\ ended' = ended \cup {}
    BY <1>5 DEF PassTask, resultVars
  <2>2. UNCHANGED <<setup, next, queue>> /\ task' = [task EXCEPT ![t] = NoTask]
    BY <1>5 DEF PassTask, engineVars
  <2>. QED
    BY <1>4, <2>1, <2>2
<1>6. ASSUME NEW t \in Threads, NEW bad \in BOOLEAN, EndTask(t, bad) PROVE EachTaskOnce'
  <2>1. task[t] \in Tasks
    BY <1>a, <1>6 DEF EndTask, ThreadsInOrder
  <2>. QED
    BY <1>4, <1>6, <2>1 DEF EndTask, engineVars
<1>7. ASSUME EngineStep, ~ PushOne, ~ PushRow PROVE EachTaskOnce'
  BY <1>3, <1>7
  DEF EngineStep, StartThread, ResetEpoch, NotifyThread, WakeThread, Check, StopThread,
      Unpark, JoinThread, DeleteThread, threadVars, resultVars
<1>8. ASSUME NEW t \in Threads, ThreadStep(t) \/ Timeout(t),
             ~ TakeTask(t), ~ PassTask(t), ~ EndTask(t, FALSE)
      PROVE  EachTaskOnce'
  BY <1>3, <1>8
  DEF ThreadStep, EndThread, PassQueue, HoldQueue, Spin, StayUp, DozeOff, FallAsleep,
      GetUp, SleepOn, RunTask, CountTask, TellEngine, Timeout, engineVars, resultVars
<1>9. CASE UNCHANGED poolVars
  BY <1>3, <1>9 DEF poolVars, engineVars, threadVars, resultVars
<1>. QED
  BY <1>1, <1>2, <1>5, <1>6, <1>7, <1>8, <1>9 DEF PoolNext, ThreadStep

-----------------------------------------------------------------------------
(* The count of the engine.                                                *)

\* A thread that has finished a task and not counted it yet.
Counting == {t \in Threads : place[t] = "count"}

\* What has ended is counted, or about to be.
Counted == count + Cardinality(Counting) = Cardinality(ended)

LEMMA FiniteCounts ==
  ASSUME PoolTypeOK
  PROVE  /\ IsFiniteSet(Counting) /\ IsFiniteSet(ended)
         /\ Cardinality(Counting) \in Nat /\ Cardinality(ended) \in Nat
         /\ ended = Tasks => Cardinality(ended) = total
         /\ Cardinality(ended) >= total => ended = Tasks
<1>1. /\ size - 1 \in Int /\ total \in Int /\ 0 \in Int /\ 1 \in Int
      /\ total >= 1
  BY ThreadPoolAssumption DEF PoolTypeOK
<1>2. IsFiniteSet(Threads) /\ IsFiniteSet(Tasks) /\ Cardinality(Tasks) = total
  <2>1. IsFiniteSet(0 .. size - 1)
    BY <1>1, FS_Interval
  <2>2. IsFiniteSet(1 .. total) /\ Cardinality(1 .. total) = IF 1 > total THEN 0 ELSE total - 1 + 1
    BY <1>1, FS_Interval
  <2>. QED
    BY <1>1, <2>1, <2>2 DEF Threads, Tasks
<1>3. Counting \subseteq Threads /\ ended \subseteq Tasks
  BY DEF Counting, PoolTypeOK
<1>4. IsFiniteSet(Counting) /\ IsFiniteSet(ended)
  BY <1>2, <1>3, FS_Subset
<1>5. Cardinality(Counting) \in Nat /\ Cardinality(ended) \in Nat
  BY <1>4, FS_CardinalityType
<1>6. Cardinality(ended) >= total => ended = Tasks
  <2>1. /\ Cardinality(ended) <= Cardinality(Tasks)
        /\ Cardinality(Tasks) = Cardinality(ended) => Tasks = ended
    BY <1>2, <1>3, FS_Subset
  <2>. QED
    BY <1>1, <1>2, <1>5, <2>1
<1>. QED
  BY <1>2, <1>4, <1>5, <1>6

LEMMA StepKeepsCounted ==
  PoolShape /\ EachTaskOnce /\ Counted /\ [PoolNext]_poolVars => Counted'
<1>. SUFFICES ASSUME PoolShape, EachTaskOnce, Counted, [PoolNext]_poolVars
              PROVE  Counted'
  OBVIOUS
<1>a. PoolTypeOK /\ ThreadsInOrder /\ EngineInOrder
  BY DEF PoolShape
<1>b. /\ place \in [Indices -> ThreadPlaces]
      /\ \A u \in Threads : u \in Indices
      /\ count \in Nat
  <2>1. \A u \in Threads : u \in Indices
    BY <1>a, IndicesReached
  <2>. QED
    BY <1>a, <2>1 DEF PoolTypeOK
<1>c. /\ IsFiniteSet(Counting) /\ IsFiniteSet(ended)
      /\ Cardinality(Counting) \in Nat /\ Cardinality(ended) \in Nat
  BY <1>a, FiniteCounts
<1>1. ASSUME UNCHANGED <<setup, count, ended>>,
             \A u \in Threads : place'[u] = "count" <=> place[u] = "count"
      PROVE  Counted'
  <2>1. Counting' = Counting
    BY <1>1 DEF Counting, Threads, setup
  <2>. QED
    BY <1>1, <2>1 DEF Counted
<1>2. ASSUME NEW t \in Threads, NEW bad \in BOOLEAN, EndTask(t, bad) PROVE Counted'
  <2>1. task[t] \in Tasks /\ task[t] \notin ended
    BY <1>a, <1>2 DEF EndTask, ThreadsInOrder, EachTaskOnce, TakenOnce
  <2>2. Counting' = Counting \cup {t} /\ t \notin Counting
    BY <1>b, <1>2 DEF EndTask, Counting, Threads, setup
  <2>3. ended' = ended \cup {task[t]} /\ count' = count
    BY <1>2 DEF EndTask
  <2>4. /\ Cardinality(Counting') = Cardinality(Counting) + 1
        /\ Cardinality(ended') = Cardinality(ended) + 1
    BY <1>c, <2>1, <2>2, <2>3, FS_AddElement
  <2>. QED
    BY <1>b, <1>c, <2>3, <2>4 DEF Counted
<1>3. ASSUME NEW t \in Threads, CountTask(t) PROVE Counted'
  <2>1. Counting' = Counting \ {t} /\ t \in Counting
    BY <1>b, <1>3 DEF CountTask, LookAgain, Counting, Threads, setup
  <2>2. ended' = ended /\ count' = count + 1
    BY <1>3 DEF CountTask
  <2>3. Cardinality(Counting') = Cardinality(Counting) - 1
    BY <1>c, <2>1, FS_RemoveElement
  <2>. QED
    BY <1>b, <1>c, <2>2, <2>3 DEF Counted
<1>4. CASE EngineStep
  <2>1. UNCHANGED <<setup, count, ended>>
    BY <1>4 DEF EngineStep, StartThread, PushOne, PushRow, ResetEpoch, NotifyThread,
       WakeThread, Check, StopThread, Unpark, JoinThread, DeleteThread, resultVars
  <2>2. CASE StartThread
    <3>1. place[target] = "none"
      BY <1>a, <2>2 DEF StartThread, ThreadsInOrder, EngineInOrder, Threads
    <3>. QED
      BY <1>1, <1>b, <2>1, <2>2, <3>1 DEF StartThread
  <2>3. CASE NotifyThread \/ WakeThread \/ Unpark
    BY <1>1, <1>b, <2>1, <2>3 DEF NotifyThread, WakeThread, Unpark, Notified
  <2>4. CASE place' = place
    BY <1>1, <2>1, <2>4
  <2>. QED
    BY <1>4, <2>2, <2>3, <2>4
    DEF EngineStep, PushOne, PushRow, ResetEpoch, Check, StopThread, JoinThread,
        DeleteThread, threadVars
<1>5. ASSUME NEW t \in Threads, ThreadStep(t) \/ Timeout(t),
             ~ CountTask(t), ~ EndTask(t, FALSE)
      PROVE  Counted'
  <2>1. UNCHANGED <<setup, count, ended>>
    BY <1>5 DEF ThreadStep, EndThread, PassQueue, HoldQueue, TakeTask, Spin, StayUp,
       DozeOff, FallAsleep, GetUp, SleepOn, PassTask, RunTask, TellEngine, Timeout,
       resultVars
  <2>2. \A u \in Threads : place'[u] = "count" <=> place[u] = "count"
    BY <1>b, <1>5
    DEF ThreadStep, EndThread, PassQueue, HoldQueue, TakeTask, Spin, StayUp,
        DozeOff, FallAsleep, GetUp, SleepOn, PassTask, RunTask, TellEngine, Timeout,
        LookAgain, Trying, Nothing
  <2>. QED
    BY <1>1, <2>1, <2>2
<1>6. CASE UNCHANGED poolVars
  BY <1>1, <1>6 DEF poolVars, threadVars, resultVars
<1>. QED
  BY <1>2, <1>3, <1>4, <1>5, <1>6 DEF PoolNext, ThreadStep

\* An engine that sleeps though it need not wait is about to be told.
WordComing ==
  /\ engine = "asleep" /\ count >= total => \E t \in Threads : place[t] = "tell"
  /\ engine = "asleep" /\ error => \E t \in Threads : place[t] \in {"count", "tell"}

LEMMA StepKeepsWordComing ==
  PoolShape /\ WordComing /\ [PoolNext]_poolVars => WordComing'
<1>. SUFFICES ASSUME PoolShape, WordComing, [PoolNext]_poolVars
              PROVE  WordComing'
  OBVIOUS
<1>a. PoolTypeOK
  BY DEF PoolShape
<1>b. /\ place \in [Indices -> ThreadPlaces]
      /\ \A u \in Threads : u \in Indices
      /\ count \in Nat /\ total \in Nat /\ error \in BOOLEAN
  <2>1. \A u \in Threads : u \in Indices
    BY <1>a, IndicesReached
  <2>. QED
    BY <1>a, <2>1 DEF PoolTypeOK
<1>1. CASE EngineStep
  <2>1. engine' = "asleep" => Check
    BY <1>1 DEF EngineStep, StartThread, PushOne, PushRow, ResetEpoch, NotifyThread,
       WakeThread, StopThread, Unpark, JoinThread, DeleteThread
  <2>2. Check /\ engine' = "asleep" =>
          ~ (count >= total \/ error) /\ UNCHANGED <<setup, count, error>>
    BY DEF Check, resultVars
  <2>. QED
    BY <1>b, <2>1, <2>2 DEF WordComing, setup
<1>2. ASSUME NEW t \in Threads, ThreadStep(t) \/ Timeout(t) \/ EndTask(t, TRUE)
      PROVE  WordComing'
  <2>0. UNCHANGED setup /\ Threads' = Threads
    BY <1>2 DEF ThreadStep, EndThread, PassQueue, HoldQueue, TakeTask, Spin, StayUp,
       DozeOff, FallAsleep, GetUp, SleepOn, PassTask, RunTask, EndTask, CountTask,
       TellEngine, Timeout, setup, Threads
  <2>1. CASE TellEngine(t)
    BY <2>1 DEF TellEngine, WordComing
  <2>2. CASE CountTask(t)
    <3>1. \A u \in Threads : u # t => place'[u] = place[u]
      BY <1>b, <2>2 DEF CountTask, LookAgain
    <3>2. (count' >= total \/ error) => place'[t] = "tell"
      BY <1>b, <2>2 DEF CountTask
    <3>3. engine' = engine /\ error' = error /\ total' = total
      BY <2>0, <2>2 DEF CountTask, engineVars, setup
    <3>. QED
      BY <2>0, <3>2, <3>3 DEF WordComing
  <2>3. ASSUME NEW bad \in BOOLEAN, EndTask(t, bad) PROVE WordComing'
    <3>1. /\ \A u \in Threads : u # t => place'[u] = place[u]
          /\ place[t] = "run" /\ place'[t] = "count"
      BY <1>b, <2>3 DEF EndTask
    <3>2. engine' = engine /\ count' = count /\ total' = total
      BY <2>0, <2>3 DEF EndTask, engineVars, setup
    <3>. QED
      BY <2>0, <3>1, <3>2 DEF WordComing
  <2>4. ASSUME ~ TellEngine(t), ~ CountTask(t), ~ EndTask(t, TRUE), ~ EndTask(t, FALSE)
        PROVE  WordComing'
    <3>1. UNCHANGED <<engine, count, error>>
      BY <1>2, <2>4 DEF ThreadStep, EndThread, PassQueue, HoldQueue, TakeTask, Spin, StayUp,
         DozeOff, FallAsleep, GetUp, SleepOn, PassTask, RunTask, Timeout, engineVars, resultVars
    <3>2. \A u \in Threads : place[u] \in {"count", "tell"} => place'[u] = place[u]
      BY <1>2, <1>b, <2>4
      DEF ThreadStep, EndThread, PassQueue, HoldQueue, TakeTask, Spin, StayUp,
          DozeOff, FallAsleep, GetUp, SleepOn, PassTask, RunTask, Timeout, LookAgain,
          Trying, Nothing
    <3>. QED
      BY <2>0, <3>1, <3>2 DEF WordComing, setup
  <2>. QED
    BY <2>1, <2>2, <2>3, <2>4
<1>3. CASE UNCHANGED poolVars
  BY <1>3 DEF poolVars, setup, engineVars, threadVars, resultVars, WordComing, Threads
<1>. QED
  BY <1>1, <1>2, <1>3 DEF PoolNext

PoolInv ==
  /\ PoolShape
  /\ WordOnItsWay
  /\ EndedBeforeDeleted
  /\ EachTaskOnce
  /\ Counted
  /\ WordComing

LEMMA InitPoolInv == PoolInit => PoolInv
<1>. SUFFICES ASSUME PoolInit PROVE PoolInv
  OBVIOUS
<1>1. PoolShape /\ PoolTypeOK
  BY InitPoolShape DEF PoolShape
<1>2. \A u \in Threads : u \in Indices
  BY <1>1, IndicesReached
<1>3. /\ \A u \in Threads : queue[u] = <<>> /\ place[u] = "none" /\ task[u] = NoTask
      /\ engine = "start" /\ deleted = {} /\ ended = {} /\ count = 0
  BY <1>2 DEF PoolInit
<1>4. WordOnItsWay /\ EndedBeforeDeleted /\ WordComing
  BY <1>3 DEF WordOnItsWay, SleepersGetWord, NotifiedInTime, EndedBeforeDeleted, WordComing
<1>5. EachTaskOnce
  <2>1. \A k \in Tasks : \A t \in Threads : \A i \in Nat : ~ Lies(k, t, i)
    BY <1>3 DEF Lies
  <2>2. NoTask \notin Tasks
    BY DEF NoTask, Tasks
  <2>. HIDE DEF Lies
  <2>. QED
    BY <1>3, <2>1, <2>2 DEF EachTaskOnce, QueuedOnce, TakenOnce
<1>6. Counted
  <2>1. Counting = {} /\ Cardinality({}) = 0
    BY <1>3, FS_EmptySet DEF Counting
  <2>. QED
    BY <1>3, <2>1 DEF Counted
<1>. QED
  BY <1>1, <1>4, <1>5, <1>6 DEF PoolInv

LEMMA StepKeepsPoolInv == PoolInv /\ [PoolNext]_poolVars => PoolInv'
BY StepKeepsPoolShape, StepKeepsWordOnItsWay, StepKeepsEndedBeforeDeleted,
   StepKeepsEachTaskOnce, StepKeepsCounted, StepKeepsWordComing DEF PoolInv

LEMMA PoolInvAlways == PoolSpec => []PoolInv
BY InitPoolInv, StepKeepsPoolInv, PTL DEF PoolSpec

(* The variables of the pool hold what they are meant to hold.             *)
(* Code: the members of UThreadPool, UThreadPrimary and GDynamicEngine.    *)
THEOREM PoolTypeCorrect == PoolSpec => []PoolTypeOK
<1>1. PoolInv => PoolTypeOK
  BY DEF PoolInv, PoolShape
<1>. QED BY <1>1, PoolInvAlways, PTL

(* No notification of a thread gets lost, however many threads and         *)
(* elements there are and in whatever order they push, look and sleep.     *)
(* Code: pushTask, wakeup and waitRunTask of UThreadPrimary.               *)
THEOREM NoWordLost == PoolSpec => []SleepersGetWord
<1>1. PoolInv => SleepersGetWord
  BY DEF PoolInv, WordOnItsWay
<1>. QED BY <1>1, PoolInvAlways, PTL

(* Nor does the notification of the engine.                                *)
(* Code: parallelRunOne and parallelRunAll.                                *)
THEOREM EngineIsTold == PoolSpec => []EngineGetsWord
<1>1. PoolInv => EngineGetsWord
  <2>. SUFFICES ASSUME PoolInv, engine = "asleep", error \/ ended = Tasks
                PROVE  \E t \in Threads : place[t] \in {"count", "tell"}
    BY DEF EngineGetsWord
  <2>1. CASE error
    BY <2>1 DEF PoolInv, WordComing
  <2>2. CASE ended = Tasks
    <3>1. PoolTypeOK
      BY DEF PoolInv, PoolShape
    <3>2. /\ Cardinality(ended) = total /\ IsFiniteSet(Counting)
          /\ Cardinality(Counting) \in Nat /\ total \in Nat /\ count \in Nat
      <4>1. count \in Nat /\ total \in Nat
        BY <3>1 DEF PoolTypeOK
      <4>. QED
        BY <2>2, <3>1, <4>1, FiniteCounts
    <3>3. CASE Counting = {}
      <4>1. Cardinality(Counting) = 0
        BY <3>3, FS_EmptySet
      <4>2. count >= total
        BY <3>2, <4>1 DEF PoolInv, Counted
      <4>. QED
        BY <4>2 DEF PoolInv, WordComing
    <3>4. CASE Counting # {}
      BY <3>4 DEF Counting
    <3>. QED
      BY <3>3, <3>4
  <2>. QED
    BY <2>1, <2>2
<1>. QED BY <1>1, PoolInvAlways, PTL

(* A thread finds every queue it looks into alive.                         *)
(* Code: the two loops of UThreadPool::destroy.                            *)
THEOREM NoQueueGone == PoolSpec => []QueuesOutliveThieves
<1>1. PoolInv => QueuesOutliveThieves
  BY DEF PoolInv, EndedBeforeDeleted, QueuesOutliveThieves
<1>. QED BY <1>1, PoolInvAlways, PTL

-----------------------------------------------------------------------------
(* The refinement of TaskPool.                                             *)

\* What TaskPool's variables stand for.
Taken == {task[t] : t \in {u \in Threads : place[u] = "took"}}
Waits == Queued \cup Taken
Runs == {task[t] : t \in {u \in Threads : place[u] = "run"}}
IsOver == engine \in {"stop", "unpark", "join", "delete", "gone"}

LEMMA PoolInitRefines == PoolInit => Pool!Init
<1>. SUFFICES ASSUME PoolInit PROVE Pool!Init
  OBVIOUS
<1>1. PoolTypeOK /\ \A u \in Threads : u \in Indices
  <2>1. PoolTypeOK
    BY InitPoolShape DEF PoolShape
  <2>. QED
    BY <2>1, IndicesReached
<1>2. Tasks \subseteq Nat
  BY <1>1 DEF PoolTypeOK, Tasks
<1>3. \A u \in Threads : queue[u] = <<>> /\ place[u] = "none"
  BY <1>1 DEF PoolInit
<1>4. Waits = {} /\ Runs = {}
  BY <1>3 DEF Waits, Queued, Taken, Runs
<1>5. 1 .. next - 1 = {} /\ ended = {} /\ error = FALSE /\ IsOver = FALSE
  BY DEF PoolInit, IsOver
<1>. QED
  BY <1>2, <1>4, <1>5 DEF Pool!Init, Waits, Taken, Runs, IsOver

LEMMA QueuedIsLying ==
  PoolTypeOK =>
    \A k : k \in Queued <=>
      k \in Tasks /\ \E t \in Threads \ deleted : \E i \in Nat : Lies(k, t, i)
<1>. SUFFICES ASSUME PoolTypeOK
              PROVE  \A k : k \in Queued <=>
                k \in Tasks /\ \E t \in Threads \ deleted : \E i \in Nat : Lies(k, t, i)
  OBVIOUS
<1>1. \A t \in Threads : Len(queue[t]) \in Nat
  <2>1. \A t \in Threads : t \in Indices
    BY IndicesReached
  <2>. QED
    BY <2>1 DEF PoolTypeOK
<1>2. \A t \in Threads : \A i : i \in 1 .. Len(queue[t]) => i \in Nat
  BY <1>1
<1>. QED
  BY <1>2 DEF Queued, Lies

LEMMA QueuedIsLyingNext ==
  PoolTypeOK' =>
    (\A k : k \in Queued <=>
       k \in Tasks /\ \E t \in Threads \ deleted : \E i \in Nat : Lies(k, t, i))'
BY QueuedIsLying, PTL

\* A step that TaskPool does not see.
LEMMA PoolStutters ==
  ASSUME UNCHANGED <<total, next, ended, error>>,
         Waits' = Waits, Runs' = Runs, IsOver' = IsOver
  PROVE  UNCHANGED Pool!vars
BY DEF Pool!vars, Tasks, Waits, Taken, Runs, IsOver

\* Queues that keep their tasks, of threads that are not deleted.
LEMMA SameQueued ==
  ASSUME UNCHANGED <<total, size, queue, deleted>>
  PROVE  Queued' = Queued
BY DEF Queued, Tasks, Threads

LEMMA PushRefines ==
  ASSUME PoolInv, PoolInv', PushOne \/ PushRow
  PROVE  Pool!Next
<1>a. PoolTypeOK /\ PoolTypeOK' /\ EngineInOrder /\ deleted = {} /\ engine = "push"
  BY DEF PoolInv, PoolShape, EndedBeforeDeleted, PushOne, PushRow
<1>1. PICK c \in Threads : \A k \in Tasks : \A t \in Threads : \A i \in Nat :
        Lies(k, t, i)' <=> Lies(k, t, i) \/ (k = next /\ t = c /\ i = Len(queue[c]) + 1)
  BY PushLies DEF PoolInv
<1>2. /\ UNCHANGED <<setup, place, task, ended, error, deleted>>
      /\ next' = next + 1
      /\ next \in Tasks /\ next \in Nat /\ next >= 1
      /\ engine' \in {"push", "reset"}
  <2>1. next \in Tasks /\ next \in Nat /\ next >= 1
    BY <1>a DEF PoolTypeOK, EngineInOrder, Tasks
  <2>2. UNCHANGED <<setup, place, task, ended, error, deleted>> /\ next' = next + 1
    BY DEF PushOne, PushRow, threadVars, resultVars
  <2>3. engine' \in {"push", "reset"}
    BY DEF PushOne, PushRow
  <2>. QED
    BY <2>1, <2>2, <2>3
<1>3. Threads' = Threads /\ Tasks' = Tasks
  BY <1>2 DEF setup, Threads, Tasks
<1>4. Len(queue[c]) + 1 \in Nat
  <2>1. c \in Indices
    BY <1>a, IndicesReached
  <2>. QED
    BY <1>a, <2>1 DEF PoolTypeOK
<1>5. Queued' = Queued \cup {next}
  <2>1. \A k : k \in Queued' <=>
          k \in Tasks /\ \E t \in Threads \ deleted : \E i \in Nat : Lies(k, t, i)'
    BY <1>a, <1>2, <1>3, QueuedIsLyingNext
  <2>2. \A k : k \in Queued <=>
          k \in Tasks /\ \E t \in Threads \ deleted : \E i \in Nat : Lies(k, t, i)
    BY <1>a, QueuedIsLying
  <2>. HIDE DEF Lies
  <2>3. \A k \in Tasks : k \in Queued' <=> k \in Queued \/ k = next
    BY <1>a, <1>1, <1>4, <2>1, <2>2
  <2>. QED
    BY <1>2, <2>1, <2>2, <2>3
<1>6. Taken' = Taken /\ Runs' = Runs
  BY <1>2, <1>3 DEF Taken, Runs
<1>7. Waits' = Waits \cup {next}
  BY <1>5, <1>6 DEF Waits
<1>8. /\ 1 .. next' - 1 = (1 .. next - 1) \cup {next}
      /\ next \notin 1 .. next - 1
  BY <1>2
<1>9. IsOver = FALSE /\ IsOver' = FALSE
  BY <1>a, <1>2 DEF IsOver
<1>10. PICK k \in Tasks : k = next
  BY <1>2
<1>11. Pool!Offer(k)
  <2>1. ~ IsOver /\ k \in Tasks \ (1 .. next - 1)
    BY <1>2, <1>8, <1>9, <1>10
  <2>2. UNCHANGED <<Tasks, Runs, ended, error, IsOver>>
    BY <1>2, <1>3, <1>6, <1>9
  <2>. QED
    BY <1>7, <1>8, <1>10, <2>1, <2>2 DEF Pool!Offer, Waits, Taken, Runs, IsOver
<1>. QED
  BY <1>11 DEF Pool!Next

LEMMA TakeRefines ==
  ASSUME PoolInv, PoolInv', NEW t \in Threads, TakeTask(t)
  PROVE  UNCHANGED Pool!vars
<1>a. /\ PoolTypeOK /\ PoolTypeOK' /\ ThreadsInOrder
      /\ \A u \in Threads : u \in Indices
      /\ place \in [Indices -> ThreadPlaces]
      /\ task \in [Indices -> Tasks \cup {NoTask}]
  <2>1. PoolTypeOK /\ PoolTypeOK' /\ ThreadsInOrder
    BY DEF PoolInv, PoolShape
  <2>2. \A u \in Threads : u \in Indices
    BY <2>1, IndicesReached
  <2>. QED
    BY <2>1, <2>2 DEF PoolTypeOK
<1>b. Tried(t) \in Threads
  BY <1>a, IndicesReached
<1>1. PICK x \in Tasks, m \in Nat, d \in {0, 1} :
        /\ task' = [task EXCEPT ![t] = x]
        /\ Lies(x, Tried(t), m) /\ (d = 1 => m = 1)
        /\ \A k \in Tasks : \A u \in Threads : \A i \in Nat :
             Lies(k, u, i)' <=> IF u = Tried(t) THEN Lies(k, u, i + d) /\ i + d # m /\ i > 0
                                ELSE Lies(k, u, i)
  BY TakeLies DEF PoolInv
<1>2. /\ UNCHANGED <<setup, next, ended, error, engine, deleted>>
      /\ place' = [place EXCEPT ![t] = "took"] /\ place[t] = "hold"
  BY DEF TakeTask, engineVars, resultVars
<1>3. deleted = {}
  BY <1>2 DEF PoolInv, EndedBeforeDeleted
<1>4. Threads' = Threads /\ Tasks' = Tasks /\ \A i \in Nat : i + d \in Nat
  BY <1>2 DEF setup, Threads, Tasks
<1>5. \A k : k \in Queued' <=>
        k \in Tasks /\ \E u \in Threads : \E i \in Nat : Lies(k, u, i)'
  BY <1>a, <1>2, <1>3, <1>4, QueuedIsLyingNext
<1>6. \A k : k \in Queued <=>
        k \in Tasks /\ \E u \in Threads : \E i \in Nat : Lies(k, u, i)
  BY <1>a, <1>3, QueuedIsLying
<1>. HIDE DEF Lies
<1>7. \A k \in Tasks : \A u \in Threads : \A i \in Nat :
        Lies(k, u, i) => k = x \/ \E j \in Nat : Lies(k, u, j)'
  <2>. SUFFICES ASSUME NEW k \in Tasks, NEW u \in Threads, NEW i \in Nat,
                       Lies(k, u, i), k # x
                PROVE  \E j \in Nat : Lies(k, u, j)'
    OBVIOUS
  <2>1. CASE u # Tried(t)
    BY <1>1, <2>1
  <2>2. CASE u = Tried(t)
    <3>1. i \in 1 .. Len(queue[u]) /\ i # m
      BY <1>1, <2>2 DEF Lies
    <3>2. i - d \in Nat /\ (i - d) + d = i /\ (i - d > 0 \/ i = d)
      BY <3>1
    <3>3. CASE i - d > 0
      BY <1>1, <2>2, <3>1, <3>2, <3>3
    <3>4. CASE i = d
      BY <1>1, <3>1, <3>4
    <3>. QED
      BY <3>2, <3>3, <3>4
  <2>. QED
    BY <2>1, <2>2
<1>8. Queued \subseteq Queued' \cup {x} /\ Queued' \subseteq Queued /\ x \in Queued
  BY <1>1, <1>4, <1>5, <1>6, <1>7, <1>b
<1>9. Taken' = Taken \cup {x}
  BY <1>a, <1>1, <1>2, <1>4 DEF Taken
<1>10. Waits' = Waits
  BY <1>8, <1>9 DEF Waits
<1>11. Runs' = Runs
  BY <1>a, <1>1, <1>2, <1>4 DEF Runs
<1>12. IsOver' = IsOver /\ UNCHANGED <<total, next, ended, error>>
  BY <1>2 DEF IsOver, setup
<1>. QED
  BY <1>10, <1>11, <1>12, PoolStutters

\* A step of one thread that takes its task no further than off the queue.
LEMMA RunRefines ==
  ASSUME PoolInv, NEW t \in Threads, RunTask(t) \/ PassTask(t)
  PROVE  Pool!Next
<1>a. PoolTypeOK /\ ThreadsInOrder
  BY DEF PoolInv, PoolShape
<1>b. /\ \A u \in Threads : u \in Indices
      /\ place \in [Indices -> ThreadPlaces]
      /\ task \in [Indices -> Tasks \cup {NoTask}]
  <2>1. \A u \in Threads : u \in Indices
    BY <1>a, IndicesReached
  <2>. QED
    BY <1>a, <2>1 DEF PoolTypeOK
<1>0. task[t] \in Tasks /\ place[t] = "took"
  BY <1>a DEF RunTask, PassTask, ThreadsInOrder
<1>1. PICK k \in Tasks : k = task[t] /\ place[t] = "took"
  BY <1>0
<1>2. UNCHANGED <<setup, next, engine, queue, ended, error, deleted>>
  BY DEF RunTask, PassTask, engineVars, resultVars
<1>3. Threads' = Threads /\ Tasks' = Tasks /\ Queued' = Queued /\ IsOver' = IsOver /\ next' = next
  BY <1>2, SameQueued DEF Threads, Tasks, setup, IsOver
<1>4. \A u \in Threads : u # t => place'[u] = place[u] /\ task'[u] = task[u] /\ task[u] # k
  <2>1. \A u \in Threads : u # t => place'[u] = place[u] /\ task'[u] = task[u]
    BY <1>b DEF RunTask, PassTask, LookAgain
  <2>2. \A u \in Threads : task[u] = k => u = t
    BY <1>1 DEF PoolInv, EachTaskOnce, TakenOnce
  <2>. QED
    BY <2>1, <2>2
<1>5. k \notin Queued
  <2>1. \A u \in Threads : \A i \in Nat : ~ Lies(k, u, i)
    BY <1>1 DEF PoolInv, EachTaskOnce, QueuedOnce
  <2>. HIDE DEF Lies
  <2>. QED
    BY <1>a, <2>1, QueuedIsLying
<1>6. k \in Waits
  BY <1>1 DEF Waits, Taken
<1>7. place'[t] # "took"
  BY <1>b DEF RunTask, PassTask, LookAgain
<1>8. Waits' = Waits \ {k}
  <2>1. Taken' = Taken \ {k}
    BY <1>1, <1>3, <1>4, <1>7 DEF Taken
  <2>. QED
    BY <1>3, <1>5, <2>1 DEF Waits
<1>9. CASE RunTask(t)
  <2>1. place'[t] = "run" /\ task'[t] = k /\ ~ error
    BY <1>b, <1>1, <1>9 DEF RunTask
  <2>2. Runs' = Runs \cup {k}
    BY <1>1, <1>3, <1>4, <2>1 DEF Runs
  <2>3. UNCHANGED <<Tasks, 1 .. next - 1, ended, error, IsOver>>
    BY <1>2, <1>3
  <2>4. Pool!Start(k)
    BY <1>6, <1>8, <2>1, <2>2, <2>3 DEF Pool!Start, Waits, Taken, Runs, IsOver
  <2>. QED
    BY <1>1, <2>4 DEF Pool!Next
<1>10. CASE PassTask(t)
  <2>1. place'[t] = "look" /\ error
    BY <1>b, <1>10 DEF PassTask, LookAgain
  <2>2. Runs' = Runs
    BY <1>1, <1>3, <1>4, <2>1 DEF Runs
  <2>3. UNCHANGED <<Tasks, 1 .. next - 1, ended, error, IsOver>>
    BY <1>2, <1>3
  <2>4. Pool!PassOver(k)
    BY <1>6, <1>8, <2>1, <2>2, <2>3 DEF Pool!PassOver, Waits, Taken, Runs, IsOver
  <2>. QED
    BY <1>1, <2>4 DEF Pool!Next
<1>. QED
  BY <1>9, <1>10

LEMMA EndRefines ==
  ASSUME PoolInv, NEW t \in Threads, NEW bad \in BOOLEAN, EndTask(t, bad)
  PROVE  Pool!Next
<1>a. PoolTypeOK /\ ThreadsInOrder
  BY DEF PoolInv, PoolShape
<1>b. /\ \A u \in Threads : u \in Indices
      /\ place \in [Indices -> ThreadPlaces]
      /\ task \in [Indices -> Tasks \cup {NoTask}]
      /\ error \in BOOLEAN
  <2>1. \A u \in Threads : u \in Indices
    BY <1>a, IndicesReached
  <2>. QED
    BY <1>a, <2>1 DEF PoolTypeOK
<1>0. task[t] \in Tasks /\ place[t] = "run" /\ place'[t] = "count"
  BY <1>a, <1>b DEF EndTask, ThreadsInOrder
<1>1. PICK k \in Tasks : k = task[t] /\ place[t] = "run" /\ place'[t] = "count"
  BY <1>0
<1>2. /\ UNCHANGED <<setup, next, engine, queue, deleted>>
      /\ ended' = ended \cup {k}
      /\ error' \in {error, TRUE}
  BY <1>b, <1>1 DEF EndTask, engineVars
<1>3. Threads' = Threads /\ Tasks' = Tasks /\ Queued' = Queued /\ IsOver' = IsOver /\ next' = next
  BY <1>2, SameQueued DEF Threads, Tasks, setup, IsOver
<1>4. \A u \in Threads : u # t => place'[u] = place[u] /\ task'[u] = task[u] /\ task[u] # k
  <2>1. \A u \in Threads : u # t => place'[u] = place[u] /\ task'[u] = task[u]
    BY <1>b DEF EndTask
  <2>2. \A u \in Threads : task[u] = k => u = t
    BY <1>1 DEF PoolInv, EachTaskOnce, TakenOnce
  <2>. QED
    BY <2>1, <2>2
<1>5. Waits' = Waits
  <2>1. Taken' = Taken
    BY <1>1, <1>3, <1>4 DEF Taken
  <2>. QED
    BY <1>3, <2>1 DEF Waits
<1>6. Runs' = Runs \ {k} /\ k \in Runs
  BY <1>1, <1>3, <1>4 DEF Runs
<1>7. UNCHANGED <<Tasks, 1 .. next - 1, Waits, IsOver>>
  BY <1>2, <1>3, <1>5
<1>8. Pool!End(k)
  BY <1>2, <1>6, <1>7 DEF Pool!End, Waits, Taken, Runs, IsOver
<1>. QED
  BY <1>1, <1>8 DEF Pool!Next

LEMMA CheckRefines ==
  ASSUME PoolInv, Check
  PROVE  Pool!Next \/ UNCHANGED Pool!vars
<1>a. PoolTypeOK /\ EngineInOrder
  BY DEF PoolInv, PoolShape
<1>1. UNCHANGED <<setup, next, queue, place, task, ended, error, deleted>> /\ engine = "check"
  BY DEF Check, threadVars, resultVars
<1>2. Threads' = Threads /\ Tasks' = Tasks /\ Queued' = Queued
  BY <1>1, SameQueued DEF Threads, Tasks, setup
<1>3. Waits' = Waits /\ Runs' = Runs
  BY <1>1, <1>2 DEF Waits, Taken, Runs
<1>4. CASE count >= total \/ error
  <2>1. 1 .. next - 1 = Tasks
    <3>1. next = total + 1 /\ total \in Nat
      BY <1>1, <1>a DEF EngineInOrder, PoolTypeOK
    <3>. QED
      BY <3>1 DEF Tasks
  <2>2. ended = Tasks \/ error
    <3>1. /\ Cardinality(Counting) \in Nat /\ Cardinality(ended) \in Nat
          /\ Cardinality(ended) >= total => ended = Tasks
      BY <1>a, FiniteCounts
    <3>2. count \in Nat /\ total \in Nat
      BY <1>a DEF PoolTypeOK
    <3>. QED
      BY <1>4, <3>1, <3>2 DEF PoolInv, Counted
  <2>3. IsOver' = TRUE
    BY <1>4 DEF Check, IsOver
  <2>4. UNCHANGED <<Tasks, 1 .. next - 1, Waits, Runs, ended, error>>
    BY <1>1, <1>2, <1>3
  <2>5. Pool!ComeBack
    BY <2>1, <2>2, <2>3, <2>4 DEF Pool!ComeBack, Waits, Taken, Runs, IsOver
  <2>. QED
    BY <2>5 DEF Pool!Next
<1>5. CASE ~ (count >= total \/ error)
  <2>1. IsOver' = IsOver /\ UNCHANGED <<total, next, ended, error>>
    BY <1>1, <1>5 DEF Check, IsOver, setup
  <2>. QED
    BY <1>3, <2>1, PoolStutters
<1>. QED
  BY <1>4, <1>5

LEMMA DeleteRefines ==
  ASSUME PoolInv, DeleteThread
  PROVE  Pool!Next
<1>1. /\ UNCHANGED <<setup, next, queue, place, task, ended, error>>
      /\ engine = "delete" /\ engine' \in {"delete", "gone"}
      /\ deleted \subseteq deleted'
  BY DEF DeleteThread, threadVars, resultVars
<1>2. Threads' = Threads /\ Tasks' = Tasks
  BY <1>1 DEF Threads, Tasks, setup
<1>3. \A u \in Threads : place[u] = "ended"
  BY <1>1 DEF PoolInv, EndedBeforeDeleted
<1>4. Runs = {} /\ Runs' = {}
  BY <1>1, <1>2, <1>3 DEF Runs
<1>5. Waits' \subseteq Waits
  <2>1. Queued' \subseteq Queued
    BY <1>1, <1>2 DEF Queued
  <2>2. Taken' = Taken
    BY <1>1, <1>2 DEF Taken
  <2>. QED
    BY <2>1, <2>2 DEF Waits
<1>6. IsOver = TRUE /\ IsOver' = TRUE
  BY <1>1 DEF IsOver
<1>7. UNCHANGED <<Tasks, 1 .. next - 1, Runs, ended, error, IsOver>>
  BY <1>1, <1>2, <1>4, <1>6
<1>8. Pool!GiveUp
  BY <1>4, <1>5, <1>6, <1>7 DEF Pool!GiveUp, Waits, Taken, Runs, IsOver
<1>. QED
  BY <1>8 DEF Pool!Next

LEMMA PoolStepRefines ==
  PoolInv /\ PoolInv' /\ [PoolNext]_poolVars => [Pool!Next]_(Pool!vars)
<1>. SUFFICES ASSUME PoolInv, PoolInv', [PoolNext]_poolVars
              PROVE  Pool!Next \/ UNCHANGED Pool!vars
  OBVIOUS
<1>a. /\ PoolTypeOK /\ ThreadsInOrder /\ EngineInOrder
      /\ \A u \in Threads : u \in Indices
      /\ place \in [Indices -> ThreadPlaces]
  <2>1. PoolTypeOK /\ ThreadsInOrder /\ EngineInOrder
    BY DEF PoolInv, PoolShape
  <2>2. \A u \in Threads : u \in Indices
    BY <2>1, IndicesReached
  <2>. QED
    BY <2>1, <2>2 DEF PoolTypeOK
<1>1. ASSUME UNCHANGED <<setup, next, queue, task, ended, error, deleted>>,
             IsOver' = IsOver,
             \A u \in Threads : \A p \in {"took", "run"} : place'[u] = p <=> place[u] = p
      PROVE  UNCHANGED Pool!vars
  <2>1. Threads' = Threads /\ Queued' = Queued
    BY <1>1, SameQueued DEF Threads, setup
  <2>2. Taken' = Taken /\ Runs' = Runs
    BY <1>1, <2>1 DEF Taken, Runs
  <2>3. Waits' = Waits /\ UNCHANGED <<total, next, ended, error>>
    BY <1>1, <2>1, <2>2 DEF Waits, setup
  <2>. QED
    BY <1>1, <2>2, <2>3, PoolStutters
<1>2. CASE EngineStep
  <2>1. CASE StartThread
    <3>1. place[target] = "none" /\ IsOver' = IsOver
      BY <1>a, <2>1 DEF StartThread, ThreadsInOrder, EngineInOrder, Threads, IsOver
    <3>2. UNCHANGED <<setup, next, queue, task, ended, error, deleted>>
      BY <2>1 DEF StartThread, resultVars
    <3>3. \A u \in Threads : \A p \in {"took", "run"} : place'[u] = p <=> place[u] = p
      BY <1>a, <2>1, <3>1 DEF StartThread
    <3>. QED
      BY <1>1, <3>1, <3>2, <3>3
  <2>2. CASE NotifyThread \/ WakeThread \/ Unpark
    <3>1. UNCHANGED <<setup, next, queue, task, ended, error, deleted>> /\ IsOver' = IsOver
      BY <2>2 DEF NotifyThread, WakeThread, Unpark, resultVars, IsOver
    <3>2. \A u \in Threads : \A p \in {"took", "run"} : place'[u] = p <=> place[u] = p
      BY <1>a, <2>2 DEF NotifyThread, WakeThread, Unpark, Notified
    <3>. QED
      BY <1>1, <3>1, <3>2
  <2>3. CASE ResetEpoch \/ StopThread \/ JoinThread
    <3>1. UNCHANGED <<setup, next, queue, place, task, ended, error, deleted>> /\ IsOver' = IsOver
      BY <2>3 DEF ResetEpoch, StopThread, JoinThread, threadVars, resultVars, IsOver
    <3>. QED
      BY <1>1, <3>1
  <2>. QED
    BY <1>2, <2>1, <2>2, <2>3, PushRefines, CheckRefines, DeleteRefines DEF EngineStep
<1>3. ASSUME NEW t \in Threads, ThreadStep(t) \/ Timeout(t),
             ~ TakeTask(t), ~ PassTask(t), ~ RunTask(t), ~ EndTask(t, FALSE)
      PROVE  UNCHANGED Pool!vars
  <2>0. engine' = engine \/ (engine = "asleep" /\ engine' = "check")
    BY <1>3
    DEF ThreadStep, EndThread, PassQueue, HoldQueue, Spin, StayUp, DozeOff, FallAsleep,
        GetUp, SleepOn, CountTask, TellEngine, Timeout, engineVars
  <2>1. UNCHANGED <<setup, next, queue, task, ended, error, deleted>>
    BY <1>3
    DEF ThreadStep, EndThread, PassQueue, HoldQueue, Spin, StayUp, DozeOff, FallAsleep,
        GetUp, SleepOn, CountTask, TellEngine, Timeout, engineVars, resultVars
  <2>2. \A u \in Threads : \A p \in {"took", "run"} : place'[u] = p <=> place[u] = p
    BY <1>a, <1>3
    DEF ThreadStep, EndThread, PassQueue, HoldQueue, Spin, StayUp, DozeOff, FallAsleep,
        GetUp, SleepOn, CountTask, TellEngine, Timeout, LookAgain, Trying, Nothing
  <2>3. IsOver' = IsOver
    BY <2>0 DEF IsOver
  <2>. QED
    BY <1>1, <2>1, <2>2, <2>3
<1>4. CASE UNCHANGED poolVars
  <2>1. UNCHANGED <<setup, next, queue, place, task, ended, error, deleted>> /\ IsOver' = IsOver
    BY <1>4 DEF poolVars, engineVars, threadVars, resultVars, IsOver
  <2>. QED
    BY <1>1, <2>1
<1>. QED
  BY <1>2, <1>3, <1>4, TakeRefines, RunRefines, EndRefines DEF PoolNext, ThreadStep

(* The pool runs every element once and comes back when it should, for     *)
(* every number of elements and threads and every range of theft.          *)
(* Code: UWorkStealingQueue, UThreadPrimary, GDynamicEngine and            *)
(* UThreadPool::destroy.                                                   *)
THEOREM PoolRunsEachTaskOnce == PoolSpec => ImplementsTaskPool
<1>1. PoolInv /\ PoolInv' /\ [PoolNext]_poolVars => [Pool!Next]_(Pool!vars)
  BY PoolStepRefines
<1>. QED
  BY <1>1, PoolInitRefines, PoolInvAlways, PTL DEF PoolSpec, ImplementsTaskPool, Pool!Spec

=============================================================================
