---------------------------- MODULE MessageFlow ----------------------------
(***************************************************************************)
(* The messages of a topic on their way: module MessagePool, from which    *)
(* the publisher takes each message, together with module MessageTopic,    *)
(* whose ring buffers keep references to them.  Every place a reference    *)
(* can be in is a local variable of the publisher or of a subscriber, or a *)
(* cell of a ring.                                                         *)
(*                                                                         *)
(* A step here is one of the pool, one of the topic, or one of each.  The  *)
(* deleter of a message which a cell drops when it is written again runs   *)
(* while the sender has that queue's mutex.                                *)
(***************************************************************************)
EXTENDS MessageTopic, MessagePool

ASSUME FlowAssumption ==
  /\ Places = {Maker} \cup Subscribers \cup (Subscribers \X Cells)
  /\ Maker \notin Subscribers \cup (Subscribers \X Cells)
  /\ Subscribers \cap (Subscribers \X Cells) = {}

VARIABLE replacing    \* the subscribers whose queue the sender has locked

flowVars == <<vars, poolVars, replacing>>

FlowInit == Init /\ PoolInit /\ replacing = {}

\* Before it makes a message the publisher is done with the last one.
Acquire ==
  /\ unsent = {}
  /\ AcquireFree \/ AcquireNew
  /\ UNCHANGED <<vars, replacing>>

Begin ==
  /\ Fill
  /\ Publish
  /\ UNCHANGED replacing

\* The cell to be written holds a message: the sender drops it first.
Replace(s) ==
  /\ s \in unsent
  /\ replacing = {}
  /\ Drop(<<s, ring[s].tail>>)
  /\ replacing' = {s}
  /\ UNCHANGED vars

Put(s) ==
  /\ replacing \subseteq {s}
  /\ Share(Maker, <<s, ring[s].tail>>)
  /\ Send(s)
  /\ replacing' = {}

Take(s) ==
  /\ s \notin replacing
  /\ Move(<<s, ring[s].head>>, s)
  /\ Receive(s)
  /\ UNCHANGED replacing

\* A subscriber is done with its message, the publisher with the one it has
\* sent to all or does not send at all.
LetGo(p) ==
  /\ p = Maker => unsent = {}
  /\ Drop(p)
  /\ UNCHANGED <<vars, replacing>>

Delete(p) ==
  /\ Reset(p) \/ Release(p)
  /\ UNCHANGED <<vars, replacing>>

FlowNext ==
  \/ Acquire \/ Begin
  \/ \E s \in Subscribers : Replace(s) \/ Put(s) \/ Take(s)
  \/ \E p \in {Maker} \cup Subscribers : LetGo(p)
  \/ \E p \in Places : Delete(p)

FlowSpec == FlowInit /\ [][FlowNext]_flowVars

-----------------------------------------------------------------------------

\* The cell the sender has dropped the old message of, not yet written.
BeingReplaced(s, c) == s \in replacing /\ c = ring[s].tail

(* In the object it got from its queue a subscriber reads the message that *)
(* was published under the number its queue says, for as long as it keeps  *)
(* the object, and so it is with the messages in the queue: none is taken  *)
(* back by the pool while a cell or a reader refers to it, though a cell   *)
(* that REPLACE skipped lets go of its message rounds later only, in the   *)
(* middle of another send.                                                 *)
(* Code: the deleter of SharedParamPool::acquire, and the assignments of   *)
(* push and waitPopWithTimeout.                                            *)
ReadAsSent ==
  \A s \in Subscribers :
    /\ held[s] # NoRef => content[held[s].obj] = received[s]
    /\ \A c \in Cells :
         ~ BeingReplaced(s, c) /\ ring[s].cell[c] # Null =>
           held[<<s, c>>] # NoRef /\ content[held[<<s, c>>].obj] = ring[s].cell[c]

=============================================================================
