------------------------------ MODULE TaskPool ------------------------------
(***************************************************************************)
(* What the engine expects of the thread pool: every task it offers is run *)
(* once, by one thread, unless an error is known before a thread gets to   *)
(* it; and a task is given up only after the engine has come back.         *)
(***************************************************************************)
EXTENDS Integers

CONSTANT Tasks        \* what may be in a graph

VARIABLES
  graph,        \* the tasks to be run
  offered,      \* tasks handed to the pool
  waiting,      \* of these, the ones no thread has begun or passed over
  running,      \* tasks a thread is in
  ended,        \* tasks that came to their end, well or not
  error,        \* one of them ended with an error
  over          \* the engine has come back

vars == <<graph, offered, waiting, running, ended, error, over>>

Init ==
  /\ graph \in SUBSET Tasks
  /\ offered = {}
  /\ waiting = {}
  /\ running = {}
  /\ ended = {}
  /\ error = FALSE
  /\ over = FALSE

Offer(k) ==
  /\ ~ over
  /\ k \in graph \ offered
  /\ offered' = offered \cup {k}
  /\ waiting' = waiting \cup {k}
  /\ UNCHANGED <<graph, running, ended, error, over>>

Start(k) ==
  /\ k \in waiting
  /\ ~ error
  /\ waiting' = waiting \ {k}
  /\ running' = running \cup {k}
  /\ UNCHANGED <<graph, offered, ended, error, over>>

PassOver(k) ==
  /\ k \in waiting
  /\ error
  /\ waiting' = waiting \ {k}
  /\ UNCHANGED <<graph, offered, running, ended, error, over>>

End(k) ==
  /\ k \in running
  /\ running' = running \ {k}
  /\ ended' = ended \cup {k}
  /\ error' \in {error, TRUE}
  /\ UNCHANGED <<graph, offered, waiting, over>>

ComeBack ==
  /\ offered = graph
  /\ ended = graph \/ error
  /\ over' = TRUE
  /\ UNCHANGED <<graph, offered, waiting, running, ended, error>>

\* What nobody took goes with the pool, when none of its threads is left.
GiveUp ==
  /\ over
  /\ running = {}
  /\ waiting' \in SUBSET waiting
  /\ UNCHANGED <<graph, offered, running, ended, error, over>>

Next ==
  \/ \E k \in graph : Offer(k) \/ Start(k) \/ PassOver(k) \/ End(k)
  \/ ComeBack
  \/ GiveUp

Spec == Init /\ [][Next]_vars

=============================================================================
