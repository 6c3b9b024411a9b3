--------------------------- MODULE LatestChannel ---------------------------
(***************************************************************************)
(* What a message topic promises its users, without the ring buffer: every *)
(* subscriber has a queue of at most Depth messages; a message that finds  *)
(* its subscriber's queue full pushes out the oldest one, never itself.    *)
(*                                                                         *)
(* One node publishes on each topic of the program.  Its messages carry    *)
(* increasing numbers, 1, 2, ...                                           *)
(***************************************************************************)
EXTENDS Integers, Sequences

CONSTANTS Subscribers,    \* the connections bound to the topic
          Depth,          \* messages a subscriber's queue can hold
          MaxMessage      \* bound: the publisher stops after this many

VARIABLES published,      \* number of the last message published
          unsent,         \* subscribers that message has not reached yet
          queue,          \* per subscriber, the messages waiting for it
          received        \* per subscriber, the last message it took

vars == <<published, unsent, queue, received>>

KeepNewest(s) == IF Len(s) > Depth THEN Tail(s) ELSE s

Init ==
  /\ published = 0
  /\ unsent = {}
  /\ queue = [s \in Subscribers |-> <<>>]
  /\ received = [s \in Subscribers |-> 0]

Publish ==
  /\ unsent = {}
  /\ published < MaxMessage
  /\ published' = published + 1
  /\ unsent' = Subscribers
  /\ UNCHANGED <<queue, received>>

Deliver(s) ==
  /\ s \in unsent
  /\ unsent' = unsent \ {s}
  /\ queue' = [queue EXCEPT ![s] = KeepNewest(Append(@, published))]
  /\ UNCHANGED <<published, received>>

Receive(s) ==
  /\ queue[s] # <<>>
  /\ received' = [received EXCEPT ![s] = Head(queue[s])]
  /\ queue' = [queue EXCEPT ![s] = Tail(@)]
  /\ UNCHANGED <<published, unsent>>

Next == Publish \/ \E s \in Subscribers : Deliver(s) \/ Receive(s)

Spec == Init /\ [][Next]_vars

-----------------------------------------------------------------------------

TypeOK ==
  /\ published \in 0 .. MaxMessage
  /\ unsent \in SUBSET Subscribers
  /\ queue \in [Subscribers -> Seq(1 .. MaxMessage)]
  /\ received \in [Subscribers -> 0 .. MaxMessage]

\* The newest message that has reached s.
Reached(s) == IF s \in unsent THEN published - 1 ELSE published

(* Only the oldest messages are lost, and never the newest: what waits for *)
(* a subscriber is the unbroken run of messages that ends with the newest  *)
(* one that reached it, all of them newer than the last it took; a         *)
(* subscriber with nothing waiting has taken the newest.                   *)
(* Code: the REPLACE branch of UAtomicRingBufferQueue::push, and the       *)
(* comment on the frame topic that the newest frame is kept.               *)
NewestKept ==
  \A s \in Subscribers :
    LET n == Len(queue[s]) IN
    /\ n <= Depth
    /\ \A i \in 1 .. n : queue[s][i] = Reached(s) - n + i
    /\ received[s] <= Reached(s) - n
    /\ n = 0 => received[s] = Reached(s)

(* A subscriber never takes a message older than one it took before.       *)
(* Code: waitPopWithTimeout after any interleaving of pushes.              *)
NoStepBack == [][\A s \in Subscribers : received'[s] >= received[s]]_vars

=============================================================================
