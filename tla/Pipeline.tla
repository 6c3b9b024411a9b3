------------------------------ MODULE Pipeline ------------------------------
(***************************************************************************)
(* The process: the configuration is read before main() begins, main()     *)
(* lets CGraph initialise the six nodes and run them all in parallel on a  *)
(* thread pool, and afterwards requests the stop and clears the topics.    *)
(* Of the configuration only the keys that decide which nodes run and on   *)
(* how many threads are kept.                                              *)
(*                                                                         *)
(* Every node is a task of the pool, and most of them loop until the stop  *)
(* is requested.  An idle thread takes any task that waits, its own or one *)
(* it steals (the steal range covers all threads), and the elements lie in *)
(* the queues in the order of their addresses: the model lets any waiting  *)
(* node be the next.                                                       *)
(***************************************************************************)
EXTENDS Integers, FiniteSets

CONSTANTS DumpChoices,      \* settings of CGRAPH_DUMP_ONLY and _DUMP_DOT_PATH
          PnpChoices,       \* values of pnp.enable considered
          SerialChoices,    \* values of serial.enable considered
          ThreadRequests,   \* values of yolo.thread_num considered
          MaxThreadSize     \* CGRAPH_MAX_THREAD_SIZE

ASSUME PipelineAssumption ==
  /\ DumpChoices \subseteq [only : BOOLEAN, path : BOOLEAN]
  /\ PnpChoices \subseteq BOOLEAN
  /\ SerialChoices \subseteq BOOLEAN
  /\ ThreadRequests \subseteq Int
  /\ MaxThreadSize \in Nat

VARIABLES
  env,          \* whether the environment asks for a dump only, and where to
  cfg,          \* the configuration: pnp, serial, threads
  main,         \* where main() is, or the loading of the configuration
  failure,      \* the pipeline's status is an error
  inited,       \* nodes whose init() has succeeded
  waiting,      \* tasks no thread has taken
  running,      \* nodes whose run() a thread is in
  returned,     \* nodes whose run() came to its end
  failed,       \* nodes whose run() returned an error
  stop          \* g_stop

tasks == <<waiting, running, returned, failed>>
vars == <<env, cfg, main, failure, inited, tasks, stop>>

Nodes == {"serial", "camera", "infer", "pnp", "rgo", "display"}

Larger(a, b) == IF a < b THEN b ELSE a

\* MakeDefaultAppConfig.
Defaults == [pnp |-> TRUE, serial |-> FALSE, threads |-> 4]

\* Mutant of Raised: the threads as they were asked for.
AsRequested(c) == c

\* cfg.thread_num covers the nodes that are switched on.
Raised(c) == [c EXCEPT !.threads = Larger(@, (IF c.pnp THEN 5 ELSE 3) + (IF c.serial THEN 1 ELSE 0))]

\* The nodes whose run() returns at once, for they are switched off.
Off == (IF cfg.serial THEN {} ELSE {"serial"}) \cup (IF cfg.pnp THEN {} ELSE {"pnp"})

LongRunning == Nodes \ Off

\* What a node depends on: nothing, but for the dump, whose nodes are
\* registered as a chain to be drawn as one.
Before(n) ==
  CASE ~ env.only -> {}
    [] n = "infer" -> {"camera"}
    [] n = "pnp" -> {"infer"}
    [] n = "rgo" -> {"pnp"}
    [] n = "display" -> {"infer", "pnp", "rgo"}
    [] OTHER -> {}

Init ==
  /\ env \in DumpChoices
  /\ cfg = Defaults
  /\ main = "yolo"
  /\ failure = FALSE
  /\ inited = {}
  /\ waiting = {}
  /\ running = {}
  /\ returned = {}
  /\ failed = {}
  /\ stop = FALSE

-----------------------------------------------------------------------------
(* LoadYoloConfig, section by section.  A key the file does not have       *)
(* leaves its value alone.                                                 *)

ReadYolo ==
  /\ main = "yolo"
  /\ cfg' \in {cfg} \cup {[cfg EXCEPT !.threads = Larger(2, request)] : request \in ThreadRequests}
  /\ main' = "pnp"
  /\ UNCHANGED <<env, failure, inited, tasks, stop>>

ReadPnp ==
  /\ main = "pnp"
  /\ cfg' \in {cfg} \cup {[cfg EXCEPT !.pnp = on] : on \in PnpChoices}
  /\ main' = "serial"
  /\ UNCHANGED <<env, failure, inited, tasks, stop>>

ReadSerial ==
  /\ main = "serial"
  /\ cfg' \in {cfg} \cup {[cfg EXCEPT !.serial = on] : on \in SerialChoices}
  /\ main' = "loaded"
  /\ UNCHANGED <<env, failure, inited, tasks, stop>>

Loaded ==
  /\ main = "loaded"
  /\ cfg' = Raised(cfg)
  /\ main' = "dump"
  /\ UNCHANGED <<env, failure, inited, tasks, stop>>

\* A file or a value that cannot be read throws: what was read before stays
\* in force, and the threads are raised all the same.
LoadFails ==
  /\ main \in {"yolo", "pnp", "serial", "loaded"}
  /\ cfg' = Raised(cfg)
  /\ main' = "dump"
  /\ UNCHANGED <<env, failure, inited, tasks, stop>>

LoadYoloConfig == ReadYolo \/ ReadPnp \/ ReadSerial \/ Loaded \/ LoadFails

-----------------------------------------------------------------------------
(* main(), from RunThreadedPipeline to ShutdownYoloApp.                    *)

\* With a path in the environment the graph is dumped first, and with
\* CGRAPH_DUMP_ONLY that is all; a file that does not open is an error.
DumpGraph ==
  /\ main = "dump"
  /\ \/ ~ (env.path /\ env.only) /\ main' = "configure" /\ UNCHANGED failure
     \/ env.path /\ env.only /\ main' = "clear" /\ UNCHANGED failure
     \/ env.path /\ main' = "clear" /\ failure' = TRUE
  /\ UNCHANGED <<env, cfg, inited, tasks, stop>>

\* setUniqueThreadPoolConfig checks the pool's size and throws; nobody
\* catches it.
Configure ==
  /\ main = "configure"
  /\ main' = IF cfg.threads > MaxThreadSize THEN "aborted" ELSE "init"
  /\ UNCHANGED <<env, cfg, failure, inited, tasks, stop>>

\* GPipeline::init takes the nodes one by one.
InitNode(n) ==
  /\ main = "init"
  /\ n \in Nodes \ inited
  /\ inited' = inited \cup {n}
  /\ UNCHANGED <<env, cfg, main, failure, tasks, stop>>

\* A camera that does not open, a model or a calibration that does not load:
\* process() returns at once, without destroy().
InitFails(n) ==
  /\ main = "init"
  /\ n \in ({"camera", "infer"} \cup (IF cfg.pnp THEN {"pnp"} ELSE {})) \ inited
  /\ failure' = TRUE
  /\ main' = "clear"
  /\ UNCHANGED <<env, cfg, inited, tasks, stop>>

\* Mutant of Dispatch: a node runs as soon as it is initialised.
DispatchInited ==
  /\ main = "init"
  /\ inited # {}
  /\ waiting' = inited
  /\ main' = "wait"
  /\ UNCHANGED <<env, cfg, failure, inited, running, returned, failed, stop>>

\* parallelRunAll hands all nodes to the pool.
Dispatch ==
  /\ main = "init"
  /\ inited = Nodes
  /\ waiting' = Nodes
  /\ main' = "wait"
  /\ UNCHANGED <<env, cfg, failure, inited, running, returned, failed, stop>>

\* ... and waits for all of them, or for an error.
Awake ==
  /\ main = "wait"
  /\ returned \cup failed = Nodes \/ failed # {}
  /\ failure' = (failed # {})
  /\ main' = "join"
  /\ UNCHANGED <<env, cfg, inited, tasks, stop>>

\* GPipeline::destroy deletes the pool, which joins its threads; what still
\* waits is lost.
JoinThreads ==
  /\ main = "join"
  /\ running = {}
  /\ waiting' = {}
  /\ main' = "destroy"
  /\ UNCHANGED <<env, cfg, failure, inited, running, returned, failed, stop>>

\* destroy() of every node.
DestroyNodes ==
  /\ main = "destroy"
  /\ inited' = {}
  /\ main' = "clear"
  /\ UNCHANGED <<env, cfg, failure, tasks, stop>>

\* GPipelineFactory::clear deletes pipeline and nodes; then ShutdownYoloApp.
ClearPipeline ==
  /\ main = "clear"
  /\ main' = "stop"
  /\ UNCHANGED <<env, cfg, failure, inited, tasks, stop>>

\* Mutant of RequestYoloStop: the stop may be requested while the nodes run.
RequestStopEarly ==
  /\ main \in {"wait", "join", "stop"}
  /\ stop' = TRUE
  /\ main' = IF main = "stop" THEN "topics" ELSE main
  /\ UNCHANGED <<env, cfg, failure, inited, tasks>>

RequestYoloStop ==
  /\ main = "stop"
  /\ stop' = TRUE
  /\ main' = "topics"
  /\ UNCHANGED <<env, cfg, failure, inited, tasks>>

ClearYoloMessages ==
  /\ main = "topics"
  /\ main' = "exit"
  /\ UNCHANGED <<env, cfg, failure, inited, tasks, stop>>

Main ==
  \/ LoadYoloConfig \/ DumpGraph \/ Configure \/ Dispatch \/ Awake \/ JoinThreads
  \/ DestroyNodes \/ ClearPipeline \/ RequestYoloStop \/ ClearYoloMessages
  \/ \E n \in Nodes : InitNode(n) \/ InitFails(n)

-----------------------------------------------------------------------------
(* The pool's threads, parallelRunOne.                                     *)

\* An idle thread takes a node that is ready, while no error is known; nodes
\* that depend on others are taken without a look at errors (innerExec).
StartNode(n) ==
  /\ main \in {"wait", "join"}
  /\ n \in waiting
  /\ Before(n) \subseteq returned
  /\ Cardinality(running) < cfg.threads
  /\ failed = {} \/ env.only
  /\ waiting' = waiting \ {n}
  /\ running' = running \cup {n}
  /\ UNCHANGED <<env, cfg, main, failure, inited, returned, failed, stop>>

\* After an error the task does nothing.
SkipNode(n) ==
  /\ main \in {"wait", "join"}
  /\ n \in waiting
  /\ Cardinality(running) < cfg.threads
  /\ failed # {} /\ ~ env.only
  /\ waiting' = waiting \ {n}
  /\ UNCHANGED <<env, cfg, main, failure, inited, running, returned, failed, stop>>

\* run() ends: at once when the node is switched off, else when it sees the
\* stop, for which the PnP node does not look.
ReturnNode(n) ==
  /\ n \in running
  /\ n \in Off \/ (stop /\ n # "pnp")
  /\ running' = running \ {n}
  /\ returned' = returned \cup {n}
  /\ UNCHANGED <<env, cfg, main, failure, inited, waiting, failed, stop>>

\* No image from the camera, an inference that failed: the only errors run()
\* returns.
FailNode(n) ==
  /\ n \in running \cap {"camera", "infer"}
  /\ running' = running \ {n}
  /\ failed' = failed \cup {n}
  /\ UNCHANGED <<env, cfg, main, failure, inited, waiting, returned, stop>>

Next ==
  \/ Main
  \/ \E n \in Nodes : StartNode(n) \/ SkipNode(n) \/ ReturnNode(n) \/ FailNode(n)

Spec == Init /\ [][Next]_vars

-----------------------------------------------------------------------------

Over == {"destroy", "clear", "stop", "topics", "exit"}

(* The variables hold what they are meant to hold, and a node's task is in *)
(* one place only: it waits, runs, has returned or has failed.             *)
(* Code: the work-stealing queues hand a task to one thread.               *)
TypeOK ==
  /\ env \in [only : BOOLEAN, path : BOOLEAN]
  /\ cfg \in [pnp : BOOLEAN, serial : BOOLEAN, threads : Int]
  /\ main \in Over \cup {"yolo", "pnp", "serial", "loaded", "dump", "configure", "aborted", "init", "wait", "join"}
  /\ failure \in BOOLEAN
  /\ inited \subseteq Nodes
  /\ waiting \subseteq Nodes
  /\ running \subseteq Nodes \ waiting
  /\ returned \subseteq Nodes \ (waiting \cup running)
  /\ failed \subseteq Nodes \ (waiting \cup running \cup returned)
  /\ stop \in BOOLEAN

(* Whatever order the nodes were started and failed in, no node is inside  *)
(* run() once nodes are destroyed, deleted or their topics cleared, and a  *)
(* node that runs does so after all of them were initialised: the topics   *)
(* it publishes on have been bound by their readers.                       *)
(* Code: GPipeline::init before run, destroy joining before it destroys,   *)
(* main clearing the topics last.                                          *)
NodesRunInitialised == running # {} => inited = Nodes /\ main \in {"wait", "join"}

(* No node ever sees the stop: it is requested when none of them runs any  *)
(* more.  What the other modules say about a requested stop is what the    *)
(* nodes are written for, not what main() makes of them.                   *)
(* Code: ShutdownYoloApp after process(), its only caller.                 *)
StopUnseen == stop => running = {}

(* Once started the nodes only end by failing: process() comes back from a *)
(* run only when every node that is switched on and was started has failed *)
(* itself, and the camera and the inference are the only ones that do.     *)
(* After a first failure main() joins the others for good, and "process    *)
(* exit" is not logged while one of them runs.                             *)
(* Code: parallelRunAll wakes on an error, destroy joins nodes that loop   *)
(* until a stop which is requested after the join.                         *)
ReturnsOnlyWhenAllFailed ==
  main \in Over =>
    LongRunning \cap (running \cup returned \cup failed) \subseteq {"camera", "infer"} \cap failed

(* Every node that is switched on gets a thread, unless one fails before,  *)
(* even when the loading of the configuration broke off at any section.    *)
(* CGRAPH_DUMP_ONLY must not be set: without a path to dump to the process *)
(* runs after all, and nodes that depend on the camera never start.        *)
(* Code: the least thread_num, in LoadYoloConfig and in its catch block,   *)
(* against the nodes that do not return.                                   *)
EveryNodeRuns ==
  \A n \in Nodes :
    (main = "wait" /\ n \in LongRunning /\ ~ env.only) ~>
      (n \in running \cup returned \cup failed \/ failed # {})

=============================================================================
