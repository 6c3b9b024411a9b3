---------------------------- MODULE InferService ----------------------------
(***************************************************************************)
(* What the inference node promises, whatever the order in which its       *)
(* requests complete: it takes the newest frame on offer, works on at most *)
(* Workers frames at a time and answers every frame it has taken exactly   *)
(* once.  It stops orderly only with nothing left to answer.  When an      *)
(* inference fails it gives up, and what it had taken stays unanswered.    *)
(***************************************************************************)
EXTENDS Integers, Sequences, FiniteSets

CONSTANTS Workers,      \* frames worked on at a time
          MaxFrames     \* bound: this many frames are offered

VARIABLES sent,         \* frames offered so far
          offered,      \* the newest frame not taken yet; 0: none
          pending,      \* frames taken and not answered
          answered,     \* answers given, in order
          outcome       \* "running", "done" or "failed"

vars == <<sent, offered, pending, answered, outcome>>

Init ==
  /\ sent = 0
  /\ offered = 0
  /\ pending = {}
  /\ answered = <<>>
  /\ outcome = "running"

\* A frame replaces the one on offer.
Offer ==
  /\ sent < MaxFrames
  /\ sent' = sent + 1
  /\ offered' = sent + 1
  /\ UNCHANGED <<pending, answered, outcome>>

Take ==
  /\ outcome = "running"
  /\ offered # 0
  /\ Cardinality(pending) < Workers
  /\ pending' = pending \cup {offered}
  /\ offered' = 0
  /\ UNCHANGED <<sent, answered, outcome>>

Answer(i) ==
  /\ outcome = "running"
  /\ pending' = pending \ {i}
  /\ answered' = Append(answered, i)
  /\ UNCHANGED <<sent, offered, outcome>>

Stop ==
  /\ outcome = "running"
  /\ pending = {}
  /\ outcome' = "done"
  /\ UNCHANGED <<sent, offered, pending, answered>>

GiveUp ==
  /\ outcome = "running"
  /\ outcome' = "failed"
  /\ pending' \in SUBSET pending
  /\ UNCHANGED <<sent, offered, answered>>

Next == Offer \/ Take \/ (\E i \in pending : Answer(i)) \/ Stop \/ GiveUp

Spec == Init /\ [][Next]_vars

=============================================================================
