---------------------------- MODULE MessageTopic ----------------------------
(***************************************************************************)
(* A message topic of the pipeline: GMessageManager's set of message       *)
(* objects, one ring buffer per connection.  pubTopicValue sends the       *)
(* message to one connection after another, in no order a subscriber can   *)
(* rely on (the set is ordered by address), and each send locks that       *)
(* connection's queue alone, so subscribers run between the sends.  A      *)
(* send/recv topic (FRAME_TOPIC) is the case of one subscriber.            *)
(*                                                                         *)
(* A receive that times out returns an error status and changes nothing;   *)
(* it happens only when the queue is empty at the end of the wait, since   *)
(* wait_for evaluates its predicate once more.                             *)
(***************************************************************************)
EXTENDS RingBufferQueue

CONSTANTS Subscribers, MaxMessage

ASSUME TopicAssumption == MaxMessage \in Nat /\ Null \notin 1 .. MaxMessage

VARIABLES published, unsent, ring, received

vars == <<published, unsent, ring, received>>

Init ==
  /\ published = 0
  /\ unsent = {}
  /\ ring = [s \in Subscribers |-> EmptyQueue]
  /\ received = [s \in Subscribers |-> 0]

\* The publisher, done with the previous message, starts the next.
Publish ==
  /\ unsent = {}
  /\ published < MaxMessage
  /\ published' = published + 1
  /\ unsent' = Subscribers
  /\ UNCHANGED <<ring, received>>

\* msg->send(value, REPLACE) to one connection of the set.
Send(s) ==
  /\ s \in unsent
  /\ unsent' = unsent \ {s}
  /\ ring' = [ring EXCEPT ![s] = PushReplace(@, published)]
  /\ UNCHANGED <<published, received>>

\* subTopicValue, when a message is there before the time-out.
Receive(s) ==
  /\ ~ IsEmpty(ring[s])
  /\ received' = [received EXCEPT ![s] = Front(ring[s])]
  /\ ring' = [ring EXCEPT ![s] = Pop(@)]
  /\ UNCHANGED <<published, unsent>>

Next == Publish \/ \E s \in Subscribers : Send(s) \/ Receive(s)

Spec == Init /\ [][Next]_vars

-----------------------------------------------------------------------------

TypeOK ==
  /\ published \in 0 .. MaxMessage
  /\ unsent \in SUBSET Subscribers
  /\ ring \in [Subscribers -> QueueOf(1 .. MaxMessage)]
  /\ received \in [Subscribers -> 0 .. MaxMessage]

\* The topic as a channel of depth Capacity - 1.
Channel ==
  INSTANCE LatestChannel WITH
    Depth <- Capacity - 1,
    queue <- [s \in Subscribers |-> Contents(ring[s])]

(* The ring buffers implement the channel: every step of the topic is a    *)
(* step of the channel on the contents of the rings.                       *)
(* Code: head and tail arithmetic of UAtomicRingBufferQueue.               *)
ImplementsChannel == Channel!Spec

(* Only the oldest waiting messages are ever lost, and never the newest.   *)
(* Code: the REPLACE branch of push, with the sends to the subscribers and *)
(* their receives interleaved in any way.                                  *)
NewestKept == Channel!NewestKept

(* No subscriber takes a message older than one it took before.            *)
(* Code: waitPopWithTimeout between any sends.                             *)
NoStepBack == Channel!NoStepBack

=============================================================================
