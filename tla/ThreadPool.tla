----------------------------- MODULE ThreadPool -----------------------------
(***************************************************************************)
(* CGraph's thread pool and the engine that runs the graph on it, as this  *)
(* program uses them: two elements or more, without dependences, all given *)
(* to the pool at once, and primary threads only (no secondary thread, no  *)
(* monitor).                                                               *)
(*                                                                         *)
(* A primary thread takes tasks from the front of its own queue, steals    *)
(* from the back of the others', and falls asleep after some rounds in     *)
(* which it finds nothing.  A queue's lock is only ever tried.  The        *)
(* elements are numbered in the order in which the engine hands them out.  *)
(***************************************************************************)
EXTENDS Integers, Sequences, FiniteSets

CONSTANTS Setups,         \* elements of the graph, threads, and rounds before
                          \* a thread sleeps: primary_thread_busy_epoch_
          MaxThreads,     \* max_thread_size_
          StealRange      \* max_task_steal_range_

ASSUME ThreadPoolAssumption ==
  /\ MaxThreads \in Nat \ {0}
  /\ Setups \subseteq (Nat \ {0, 1}) \X (1 .. MaxThreads) \X (Nat \ {0})
  /\ StealRange \in Nat

VARIABLES
  total,        \* total_end_size_
  size,         \* default_thread_size_
  busy,         \* primary_thread_busy_epoch_
  endless,      \* the elements whose run() loops until the stop
  engine,       \* where the thread that runs the engine is
  target,       \* the primary thread it deals with
  next,         \* the element it hands out next
  cursor,       \* cur_index_
  queue,        \* wsq_ of every thread
  holder,       \* who holds the lock of that queue
  place,        \* where a thread is
  probe,        \* how many queues it has tried in this round
  epoch,        \* cur_empty_epoch_
  task,         \* the task it has taken
  alive,        \* done_, TRUE until the thread is to end
  ended,        \* the elements whose run() is over
  count,        \* parallel_run_num_
  error,        \* cur_status_ is an error
  deleted       \* threads whose object is deleted

setup == <<total, size, busy, endless>>
engineVars == <<engine, target, next, cursor>>
threadVars == <<place, probe, epoch, task>>
resultVars == <<ended, count, error>>
poolVars == <<setup, engineVars, queue, holder, threadVars, alive,
              resultVars, deleted>>

Tasks == 1 .. total
Indices == 0 .. MaxThreads - 1
Free == -1            \* nobody holds the lock
Engine == -2          \* the engine does
NoTask == 0

Threads == 0 .. size - 1

Lesser(a, b) == IF a < b THEN a ELSE b

-----------------------------------------------------------------------------
(* How the engine lays out the elements: rows of equal length, one after   *)
(* the other.                                                              *)

RowLength(n) == (total \div n) + (IF total % n = 0 THEN 0 ELSE 1)
RowOf(k) == (k - 1) \div RowLength(size)
IsFront(k) == (k - 1) % RowLength(size) = 0
IsBack(k) == k % RowLength(size) = 0 \/ k = total
Rows == RowOf(total) + 1

PoolInit ==
  /\ \E s \in Setups : total = s[1] /\ size = s[2] /\ busy = s[3]
  /\ endless \in SUBSET Tasks
  /\ engine = "start"
  /\ target = 0
  /\ next = 1
  /\ cursor = 0
  /\ queue = [t \in Indices |-> <<>>]
  /\ holder = [t \in Indices |-> Free]
  /\ place = [t \in Indices |-> "none"]
  /\ probe = [t \in Indices |-> 0]
  /\ epoch = [t \in Indices |-> 0]
  /\ task = [t \in Indices |-> NoTask]
  /\ alive = [t \in Indices |-> TRUE]
  /\ ended = {}
  /\ count = 0
  /\ error = FALSE
  /\ deleted = {}

-----------------------------------------------------------------------------
(* The engine's thread.                                                    *)

\* All threads exist before the first is started: they look into each
\* other's queues.
StartThread ==
  /\ engine = "start"
  /\ place' = [place EXCEPT ![target] = "look"]
  /\ target' = IF target + 1 = size THEN 0 ELSE target + 1
  /\ engine' = IF target + 1 = size THEN "push" ELSE "start"
  /\ UNCHANGED <<setup, next, cursor, queue, holder, probe, epoch, task,
                 alive, resultVars, deleted>>

\* An element alone in its row goes to the thread whose turn it is.
PushOne ==
  /\ engine = "push"
  /\ IsFront(next) /\ IsBack(next)
  /\ holder[cursor] = Free
  /\ queue' = [queue EXCEPT ![cursor] = Append(@, next)]
  /\ target' = cursor
  /\ cursor' = IF cursor + 1 >= MaxThreads THEN 0 ELSE cursor + 1
  /\ next' = next + 1
  /\ engine' = "reset"
  /\ UNCHANGED <<setup, holder, threadVars, alive, resultVars, deleted>>

\* A longer row goes to the thread with the row's number; the queue stays
\* locked from its first element to its last.
PushRow ==
  /\ engine = "push"
  /\ ~ (IsFront(next) /\ IsBack(next))
  /\ holder[RowOf(next)] = IF IsFront(next) THEN Free ELSE Engine
  /\ queue' = [queue EXCEPT ![RowOf(next)] = Append(@, next)]
  /\ holder' = [holder EXCEPT ![RowOf(next)] = IF IsBack(next) THEN Free ELSE Engine]
  /\ target' = RowOf(next)
  /\ next' = next + 1
  /\ engine' = IF IsBack(next) THEN "reset" ELSE "push"
  /\ UNCHANGED <<setup, cursor, threadVars, alive, resultVars, deleted>>

\* Under the thread's mutex, which it gives up only once it is asleep.
ResetEpoch ==
  /\ engine = "reset"
  /\ place[target] # "doze"
  /\ epoch' = [epoch EXCEPT ![target] = 0]
  /\ engine' = "notify"
  /\ UNCHANGED <<setup, target, next, cursor, queue, holder, place, probe,
                 task, alive, resultVars, deleted>>

\* notify_one on a thread's condition variable.
Notified(t) == [place EXCEPT ![t] = IF @ = "asleep" THEN "woken" ELSE @]

NotifyThread ==
  /\ engine = "notify"
  /\ place' = Notified(target)
  /\ target' = 0
  /\ engine' = IF next <= total THEN "push"
               ELSE IF Rows < size THEN "wakeup" ELSE "check"
  /\ UNCHANGED <<setup, next, cursor, queue, holder, probe, epoch, task,
                 alive, resultVars, deleted>>

\* wakeupAllThread, when there are fewer rows than threads.
WakeThread ==
  /\ engine = "wakeup"
  /\ place' = Notified(target)
  /\ target' = IF target + 1 = size THEN 0 ELSE target + 1
  /\ engine' = IF target + 1 = size THEN "check" ELSE "wakeup"
  /\ UNCHANGED <<setup, next, cursor, queue, holder, probe, epoch, task,
                 alive, resultVars, deleted>>

\* The engine waits for all elements or for an error; it looks and falls
\* asleep under its mutex.
Check ==
  /\ engine = "check"
  /\ engine' = IF count >= total \/ error THEN "stop" ELSE "asleep"
  /\ UNCHANGED <<setup, target, next, cursor, queue, holder, threadVars,
                 alive, resultVars, deleted>>

\* UThreadPool::destroy: each thread is told to end, notified without its
\* mutex, and joined before the next.
StopThread ==
  /\ engine = "stop"
  /\ alive' = [alive EXCEPT ![target] = FALSE]
  /\ engine' = "unpark"
  /\ UNCHANGED <<setup, target, next, cursor, queue, holder, threadVars,
                 resultVars, deleted>>

Unpark ==
  /\ engine = "unpark"
  /\ place' = Notified(target)
  /\ engine' = "join"
  /\ UNCHANGED <<setup, target, next, cursor, queue, holder, probe, epoch,
                 task, alive, resultVars, deleted>>

\* Mutant of JoinThread: a thread's object is deleted as soon as it is joined.
JoinAndDelete ==
  /\ engine = "join"
  /\ place[target] = "ended"
  /\ deleted' = deleted \cup {target}
  /\ target' = IF target + 1 = size THEN 0 ELSE target + 1
  /\ engine' = IF target + 1 = size THEN "gone" ELSE "stop"
  /\ UNCHANGED <<setup, next, cursor, queue, holder, threadVars, alive,
                 resultVars>>

JoinThread ==
  /\ engine = "join"
  /\ place[target] = "ended"
  /\ target' = IF target + 1 = size THEN 0 ELSE target + 1
  /\ engine' = IF target + 1 = size THEN "delete" ELSE "stop"
  /\ UNCHANGED <<setup, next, cursor, queue, holder, threadVars, alive,
                 resultVars, deleted>>

\* ... and the objects are deleted when all of them are joined.
DeleteThread ==
  /\ engine = "delete"
  /\ deleted' = deleted \cup {target}
  /\ target' = IF target + 1 = size THEN 0 ELSE target + 1
  /\ engine' = IF target + 1 = size THEN "gone" ELSE "delete"
  /\ UNCHANGED <<setup, next, cursor, queue, holder, threadVars, alive,
                 resultVars>>

EngineStep ==
  \/ StartThread \/ PushOne \/ PushRow \/ ResetEpoch \/ NotifyThread \/ WakeThread
  \/ Check \/ StopThread \/ Unpark \/ JoinThread \/ DeleteThread

-----------------------------------------------------------------------------
(* A primary thread.                                                       *)

\* The queue it tries: its own first, then its neighbours'.
Tried(t) == (t + probe[t]) % size
\* Mutant of LastProbe: no thread steals.
OwnOnly == 0

LastProbe == Lesser(StealRange, size - 1)

LookAgain(t) ==
  /\ place' = [place EXCEPT ![t] = "look"]
  /\ probe' = [probe EXCEPT ![t] = 0]

\* The loop's condition is looked at once a round.
EndThread(t) ==
  /\ place[t] = "look"
  /\ probe[t] = 0
  /\ ~ alive[t]
  /\ place' = [place EXCEPT ![t] = "ended"]
  /\ UNCHANGED <<setup, engineVars, queue, holder, probe, epoch, task, alive,
                 resultVars, deleted>>

Trying(t) ==
  /\ place[t] = "look"
  /\ probe[t] <= LastProbe
  /\ probe[t] > 0 \/ alive[t]

\* The queue seems empty, or somebody holds it.
PassQueue(t) ==
  /\ Trying(t)
  /\ queue[Tried(t)] = <<>> \/ holder[Tried(t)] # Free
  /\ probe' = [probe EXCEPT ![t] = @ + 1]
  /\ UNCHANGED <<setup, engineVars, queue, holder, place, epoch, task, alive,
                 resultVars, deleted>>

HoldQueue(t) ==
  /\ Trying(t)
  /\ queue[Tried(t)] # <<>>
  /\ holder[Tried(t)] = Free
  /\ holder' = [holder EXCEPT ![Tried(t)] = t]
  /\ place' = [place EXCEPT ![t] = "hold"]
  /\ UNCHANGED <<setup, engineVars, queue, probe, epoch, task, alive,
                 resultVars, deleted>>

\* Mutant of TakeTask: the thief leaves the task where it is.
TakeTaskKept(t) ==
  /\ place[t] = "hold"
  /\ LET q == queue[Tried(t)] IN
       /\ task' = [task EXCEPT ![t] = IF probe[t] = 0 THEN q[1] ELSE q[Len(q)]]
       /\ queue' = [queue EXCEPT ![Tried(t)] = IF probe[t] = 0 THEN Tail(q) ELSE q]
  /\ holder' = [holder EXCEPT ![Tried(t)] = Free]
  /\ place' = [place EXCEPT ![t] = "took"]
  /\ UNCHANGED <<setup, engineVars, probe, epoch, alive, resultVars, deleted>>

\* From the front of its own queue, from the back of another's.
TakeTask(t) ==
  /\ place[t] = "hold"
  /\ LET q == queue[Tried(t)] IN
       /\ task' = [task EXCEPT ![t] = IF probe[t] = 0 THEN q[1] ELSE q[Len(q)]]
       /\ queue' = [queue EXCEPT ![Tried(t)] = IF probe[t] = 0 THEN Tail(q)
                                               ELSE SubSeq(q, 1, Len(q) - 1)]
  /\ holder' = [holder EXCEPT ![Tried(t)] = Free]
  /\ place' = [place EXCEPT ![t] = "took"]
  /\ UNCHANGED <<setup, engineVars, probe, epoch, alive, resultVars, deleted>>

Nothing(t) == place[t] = "look" /\ probe[t] > LastProbe

\* fatWait: a round without a task.
Spin(t) ==
  /\ Nothing(t)
  /\ epoch[t] + 1 < busy
  /\ epoch' = [epoch EXCEPT ![t] = @ + 1]
  /\ LookAgain(t)
  /\ UNCHANGED <<setup, engineVars, queue, holder, task, alive, resultVars,
                 deleted>>

\* The last of these rounds: the wait's condition holds already ...  It reads
\* the thread's own queue without the queue's lock, and finds it as it was
\* before or as it is after what somebody else does to it.
StayUp(t) ==
  /\ Nothing(t)
  /\ epoch[t] + 1 >= busy
  /\ queue[t] # <<>> \/ ~ alive[t]
  /\ epoch' = [epoch EXCEPT ![t] = 0]
  /\ LookAgain(t)
  /\ UNCHANGED <<setup, engineVars, queue, holder, task, alive, resultVars,
                 deleted>>

\* Mutant of DozeOff: the condition looks at the count of rounds only.
DozeOffBlind(t) ==
  /\ Nothing(t)
  /\ epoch[t] + 1 >= busy
  /\ alive[t]
  /\ epoch' = [epoch EXCEPT ![t] = @ + 1]
  /\ place' = [place EXCEPT ![t] = "doze"]
  /\ UNCHANGED <<setup, engineVars, queue, holder, probe, task, alive, resultVars,
                 deleted>>

\* ... or does not, and the thread is about to sleep, its mutex still held.
DozeOff(t) ==
  /\ Nothing(t)
  /\ epoch[t] + 1 >= busy
  /\ queue[t] = <<>> /\ alive[t]
  /\ epoch' = [epoch EXCEPT ![t] = @ + 1]
  /\ place' = [place EXCEPT ![t] = "doze"]
  /\ UNCHANGED <<setup, engineVars, queue, holder, probe, task, alive,
                 resultVars, deleted>>

FallAsleep(t) ==
  /\ place[t] = "doze"
  /\ place' = [place EXCEPT ![t] = "asleep"]
  /\ UNCHANGED <<setup, engineVars, queue, holder, probe, epoch, task, alive,
                 resultVars, deleted>>

\* A notified thread looks at the wait's condition again.
GetUp(t) ==
  /\ place[t] = "woken"
  /\ epoch[t] = 0 \/ queue[t] # <<>> \/ ~ alive[t]
  /\ epoch' = [epoch EXCEPT ![t] = 0]
  /\ LookAgain(t)
  /\ UNCHANGED <<setup, engineVars, queue, holder, task, alive, resultVars,
                 deleted>>

SleepOn(t) ==
  /\ place[t] = "woken"
  /\ epoch[t] # 0 /\ queue[t] = <<>> /\ alive[t]
  /\ place' = [place EXCEPT ![t] = "doze"]
  /\ UNCHANGED <<setup, engineVars, queue, holder, probe, epoch, task, alive,
                 resultVars, deleted>>

\* Mutant of Timeout: a wait without a limit.
NoTimeout(t) ==
  /\ FALSE
  /\ UNCHANGED poolVars

\* primary_thread_empty_interval_ is over.
Timeout(t) ==
  /\ place[t] = "asleep"
  /\ epoch' = [epoch EXCEPT ![t] = 0]
  /\ LookAgain(t)
  /\ UNCHANGED <<setup, engineVars, queue, holder, task, alive, resultVars,
                 deleted>>

\* parallelRunOne: nothing is run any more after an error.
PassTask(t) ==
  /\ place[t] = "took"
  /\ error
  /\ task' = [task EXCEPT ![t] = NoTask]
  /\ LookAgain(t)
  /\ UNCHANGED <<setup, engineVars, queue, holder, epoch, alive, resultVars,
                 deleted>>

RunTask(t) ==
  /\ place[t] = "took"
  /\ ~ error
  /\ place' = [place EXCEPT ![t] = "run"]
  /\ UNCHANGED <<setup, engineVars, queue, holder, probe, epoch, task, alive,
                 resultVars, deleted>>

EndTask(t, bad) ==
  /\ place[t] = "run"
  /\ bad \/ task[t] \notin endless
  /\ error' = (error \/ bad)
  /\ ended' = ended \cup {task[t]}
  /\ task' = [task EXCEPT ![t] = NoTask]
  /\ place' = [place EXCEPT ![t] = "count"]
  /\ UNCHANGED <<setup, engineVars, queue, holder, probe, epoch, alive, count,
                 deleted>>

\* Mutant of CountTask: the engine hears of the last element only.
CountLastOnly(t) ==
  /\ place[t] = "count"
  /\ count' = count + 1
  /\ IF count + 1 >= total
       THEN place' = [place EXCEPT ![t] = "tell"] /\ UNCHANGED probe
       ELSE LookAgain(t)
  /\ UNCHANGED <<setup, engineVars, queue, holder, epoch, task, alive, ended,
                 error, deleted>>

CountTask(t) ==
  /\ place[t] = "count"
  /\ count' = count + 1
  /\ IF count + 1 >= total \/ error
       THEN place' = [place EXCEPT ![t] = "tell"] /\ UNCHANGED probe
       ELSE LookAgain(t)
  /\ UNCHANGED <<setup, engineVars, queue, holder, epoch, task, alive, ended,
                 error, deleted>>

\* The engine is notified under its mutex.
TellEngine(t) ==
  /\ place[t] = "tell"
  /\ engine' = IF engine = "asleep" THEN "check" ELSE engine
  /\ LookAgain(t)
  /\ UNCHANGED <<setup, target, next, cursor, queue, holder, epoch, task,
                 alive, resultVars, deleted>>

\* What a thread does of itself.
ThreadStep(t) ==
  \/ EndThread(t) \/ PassQueue(t) \/ HoldQueue(t) \/ TakeTask(t)
  \/ Spin(t) \/ StayUp(t) \/ DozeOff(t) \/ FallAsleep(t) \/ GetUp(t) \/ SleepOn(t)
  \/ PassTask(t) \/ RunTask(t) \/ EndTask(t, FALSE) \/ CountTask(t) \/ TellEngine(t)

PoolNext ==
  \/ EngineStep
  \/ \E t \in Threads : ThreadStep(t) \/ Timeout(t) \/ EndTask(t, TRUE)

PoolSpec == PoolInit /\ [][PoolNext]_poolVars

\* Every thread is scheduled, a wait does end, and a mutex that is free again
\* and again is obtained at last.  No element has to fail.
PoolFairness ==
  /\ WF_poolVars(EngineStep)
  /\ SF_poolVars(ResetEpoch)
  /\ \A t \in Indices : WF_poolVars(t \in Threads /\ (ThreadStep(t) \/ Timeout(t)))

FairPoolSpec == PoolSpec /\ PoolFairness

-----------------------------------------------------------------------------

EnginePlaces == {"start", "push", "reset", "notify", "wakeup", "check", "asleep",
                 "stop", "unpark", "join", "delete", "gone"}
ThreadPlaces == {"none", "look", "hold", "doze", "asleep", "woken", "took", "run",
                 "count", "tell", "ended"}

(* The variables hold what they are meant to hold. *)
(* Code: the members of UThreadPool, UThreadPrimary and GDynamicEngine.    *)
PoolTypeOK ==
  /\ total \in Nat \ {0, 1}
  /\ size \in 1 .. MaxThreads
  /\ busy \in Nat \ {0}
  /\ endless \in SUBSET Tasks
  /\ engine \in EnginePlaces
  /\ target \in Indices
  /\ next \in 1 .. total + 1
  /\ cursor \in Indices
  /\ queue \in [Indices -> Seq(Tasks)]
  /\ holder \in [Indices -> Indices \cup {Free, Engine}]
  /\ place \in [Indices -> ThreadPlaces]
  /\ probe \in [Indices -> Nat]
  /\ epoch \in [Indices -> Nat]
  /\ task \in [Indices -> Tasks \cup {NoTask}]
  /\ alive \in [Indices -> BOOLEAN]
  /\ ended \in SUBSET Tasks
  /\ count \in Nat
  /\ error \in BOOLEAN
  /\ deleted \in SUBSET Indices

\* The engine is on its way to wake thread t for a task it has given it.
BeingTold(t) ==
  \/ holder[t] = Engine
  \/ engine \in {"reset", "notify"} /\ target = t

(* A thread that sleeps, or is about to, with a task in its own queue is   *)
(* going to be woken: the engine is still on its way to it.  No order in   *)
(* which the task is pushed and the thread looks at its queue lets the     *)
(* notification get lost, though the queue's lock is not the thread's      *)
(* mutex.                                                                  *)
(* Code: pushTask resets the count of empty rounds under the mutex of the  *)
(* condition variable before it notifies.                                  *)
SleepersGetWord ==
  \A t \in Threads :
    /\ place[t] \in {"doze", "asleep"}
    /\ queue[t] # <<>>
    => BeingTold(t)

(* An engine that sleeps with nothing left to wait for, all elements ended *)
(* or one with an error, is going to be woken by a thread that has still   *)
(* to report.                                                              *)
(* Code: parallelRunOne counts and sets the error first, then notifies     *)
(* under the mutex the engine looks under; parallelRunAll.                 *)
EngineGetsWord ==
  engine = "asleep" /\ (error \/ ended = Tasks) =>
    \E t \in Threads : place[t] \in {"count", "tell"}

(* No thread looks into the queue of a thread whose object is gone.        *)
(* Code: UThreadPool::destroy deletes the primary threads in a loop of its *)
(* own after all of them are joined.                                       *)
QueuesOutliveThieves ==
  \A t \in Threads :
    place[t] \in {"look", "hold"} /\ probe[t] <= LastProbe => Tried(t) \notin deleted

Queued == {k \in Tasks : \E t \in Threads \ deleted : \E i \in 1 .. Len(queue[t]) : queue[t][i] = k}

Pool == INSTANCE TaskPool WITH
  Tasks <- Nat,
  graph <- Tasks,
  offered <- 1 .. next - 1,
  waiting <- Queued \cup {task[t] : t \in {u \in Threads : place[u] = "took"}},
  running <- {task[t] : t \in {u \in Threads : place[u] = "run"}},
  ended <- ended,
  error <- error,
  over <- engine \in {"stop", "unpark", "join", "delete", "gone"}

(* Through all its queues and thefts the pool runs every element once, on  *)
(* one thread, starts none after an error is known, comes back only when   *)
(* all have ended or one with an error, and forgets an element only when   *)
(* no thread is left.                                                      *)
(* Code: UWorkStealingQueue, UThreadPrimary::processTask, parallelRunOne,  *)
(* parallelRunAll, UThreadPool::destroy.                                   *)
ImplementsTaskPool == Pool!Spec

(* An element for which the elements that do not return leave a thread     *)
(* runs at last, unless one fails before: what lies behind such an element *)
(* in its thread's queue is stolen, if not at once then when the wait of   *)
(* the others ends.                                                        *)
(* Code: stealTask over all the others, fatWait's time limit, and          *)
(* LoadYoloConfig's least thread_num.                                      *)
EveryTaskStarts ==
  \A k \in UNION {1 .. s[1] : s \in Setups} :
    k \in Tasks /\ Cardinality(endless \cup {k}) <= size =>
      <>(error \/ k \in ended \/ \E t \in Threads : place[t] = "run" /\ task[t] = k)

(* destroy() comes to its end when the elements do, though a thread may    *)
(* miss the notification and sleep on: its wait ends.                      *)
(* Code: UThreadBase::reset sets done_ and notifies without the mutex.     *)
PoolEnds ==
  (engine = "stop" /\ \A t \in Threads : place[t] = "run" => task[t] \notin endless)
    ~> engine = "gone"

=============================================================================
