---------------------------- MODULE MessagePool ----------------------------
(***************************************************************************)
(* SharedParamPool: the pool every node takes its messages from.  acquire  *)
(* hands out a std::shared_ptr whose deleter resets the message and puts   *)
(* it back on the free list.  One node acquires and fills messages; its    *)
(* references are copied to topics and to the nodes that receive, and      *)
(* whoever drops the last one runs the deleter, on its own thread, before  *)
(* it goes on.                                                             *)
(*                                                                         *)
(* The pool's mutex guards the two vectors only.  The reset in the deleter *)
(* runs outside it, so that acquire may run in between.                    *)
(***************************************************************************)
EXTENDS Integers, Sequences, FiniteSets

CONSTANTS Prealloc,     \* preallocate(count), the pool's size at init()
          Places,       \* where references are kept: locals and ring cells
          Maker,        \* the place of the node that acquires
          NoRef,        \* no reference
          MaxMade       \* bound: this many messages are made

ASSUME PoolAssumption ==
  /\ Prealloc \in Nat
  /\ IsFiniteSet(Places)
  /\ Maker \in Places
  /\ MaxMade \in Nat
  /\ NoRef \notin [obj : Nat, message : 0 .. MaxMade] \cup [obj : Nat, reset : BOOLEAN]

VARIABLES
  owned,        \* owned.size(): the objects are 1 .. owned
  free,         \* the free list, a stack
  content,      \* per object, the message it holds; 0: T()
  held,         \* per place, the object referred to and the message expected
  deleter,      \* per place, the deleter that runs for its last reference
  made          \* messages made so far

poolVars == <<owned, free, content, held, deleter, made>>

Objects == 1 .. owned

Refs(o) == {p \in Places : held[p] # NoRef /\ held[p].obj = o}

Deleting(o) == {p \in Places : deleter[p] # NoRef /\ deleter[p].obj = o}

\* Nothing is kept here, and no deleter has still to return.
Vacant(p) == held[p] = NoRef /\ deleter[p] = NoRef

Elements(s) == {s[n] : n \in DOMAIN s}

Larger(a, b) == IF a < b THEN b ELSE a

\* preallocate at init().
PoolInit ==
  /\ owned = Prealloc
  /\ free = [n \in 1 .. Prealloc |-> n]
  /\ content = [o \in 1 .. Prealloc |-> 0]
  /\ held = [p \in Places |-> NoRef]
  /\ deleter = [p \in Places |-> NoRef]
  /\ made = 0

\* Mutant of AcquireFree: the object stays on the free list.
AcquireTop ==
  /\ Vacant(Maker)
  /\ free # <<>>
  /\ held' = [held EXCEPT ![Maker] = [obj |-> free[Len(free)], message |-> 0]]
  /\ UNCHANGED <<owned, free, content, deleter, made>>

\* acquire, with an object on the free list: its last one is taken.
AcquireFree ==
  /\ Vacant(Maker)
  /\ free # <<>>
  /\ held' = [held EXCEPT ![Maker] = [obj |-> free[Len(free)], message |-> 0]]
  /\ free' = SubSeq(free, 1, Len(free) - 1)
  /\ UNCHANGED <<owned, content, deleter, made>>

\* Mutant of AcquireNew: allocates without a look at the free list.
AcquireAlwaysNew ==
  /\ Vacant(Maker)
  /\ owned' = owned + 1
  /\ content' = [o \in 1 .. owned + 1 |-> IF o <= owned THEN content[o] ELSE 0]
  /\ held' = [held EXCEPT ![Maker] = [obj |-> owned + 1, message |-> 0]]
  /\ UNCHANGED <<free, deleter, made>>

\* acquire, without one: the pool grows.
AcquireNew ==
  /\ Vacant(Maker)
  /\ free = <<>>
  /\ owned' = owned + 1
  /\ content' = [o \in 1 .. owned + 1 |-> IF o <= owned THEN content[o] ELSE 0]
  /\ held' = [held EXCEPT ![Maker] = [obj |-> owned + 1, message |-> 0]]
  /\ UNCHANGED <<free, deleter, made>>

\* The node fills the message in place, before it shares it.
Fill ==
  /\ made < MaxMade
  /\ held[Maker] # NoRef
  /\ held[Maker].message = 0
  /\ content' = [content EXCEPT ![held[Maker].obj] = made + 1]
  /\ held' = [held EXCEPT ![Maker].message = made + 1]
  /\ made' = made + 1
  /\ UNCHANGED <<owned, free, deleter>>

\* A reference is copied: the node sends, a topic keeps, a node receives.
Share(p, q) ==
  /\ held[p] # NoRef
  /\ held[p].message # 0
  /\ Vacant(q)
  /\ held' = [held EXCEPT ![q] = held[p]]
  /\ UNCHANGED <<owned, free, content, deleter, made>>

\* A reference is moved: waitPopWithTimeout takes it out of its cell.
Move(p, q) ==
  /\ held[p] # NoRef
  /\ held[p].message # 0
  /\ Vacant(q)
  /\ held' = [held EXCEPT ![p] = NoRef, ![q] = held[p]]
  /\ UNCHANGED <<owned, free, content, deleter, made>>

\* A reference is dropped; the deleter starts with the last one.
Drop(p) ==
  /\ held[p] # NoRef
  /\ held' = [held EXCEPT ![p] = NoRef]
  /\ deleter' = IF Refs(held[p].obj) = {p}
                THEN [deleter EXCEPT ![p] = [obj |-> held[p].obj, reset |-> FALSE]]
                ELSE deleter
  /\ UNCHANGED <<owned, free, content, made>>

\* *released = T(), without the lock ...
Reset(p) ==
  /\ deleter[p] # NoRef
  /\ ~ deleter[p].reset
  /\ content' = [content EXCEPT ![deleter[p].obj] = 0]
  /\ deleter' = [deleter EXCEPT ![p] = [obj |-> deleter[p].obj, reset |-> TRUE]]
  /\ UNCHANGED <<owned, free, held, made>>

\* ... and back onto the free list, with it.
Release(p) ==
  /\ deleter[p] # NoRef
  /\ deleter[p].reset
  /\ free' = Append(free, deleter[p].obj)
  /\ deleter' = [deleter EXCEPT ![p] = NoRef]
  /\ UNCHANGED <<owned, content, held, made>>

PoolNext ==
  \/ AcquireFree \/ AcquireNew \/ Fill
  \/ \E p, q \in Places : Share(p, q) \/ Move(p, q)
  \/ \E p \in Places : Drop(p) \/ Reset(p) \/ Release(p)

PoolSpec == PoolInit /\ [][PoolNext]_poolVars

-----------------------------------------------------------------------------

PoolTypeOK ==
  /\ owned \in Nat
  /\ free \in Seq(Objects)
  /\ content \in [Objects -> 0 .. MaxMade]
  /\ held \in [Places -> [obj : Objects, message : 0 .. MaxMade] \cup {NoRef}]
  /\ deleter \in [Places -> [obj : Objects, reset : BOOLEAN] \cup {NoRef}]
  /\ made \in 0 .. MaxMade

(* Every object of the pool is in one place: on the free list once, in the *)
(* hands of those that refer to it, or with one deleter.  None is handed   *)
(* out while somebody still reads it, none is released twice, none lost.   *)
(* Code: acquire and the deleter, each taking the lock on its own.         *)
OneOwner ==
  /\ \A m, n \in DOMAIN free : free[m] = free[n] => m = n
  /\ \A o \in Objects :
       \/ o \in Elements(free) /\ Refs(o) = {} /\ Deleting(o) = {}
       \/ o \notin Elements(free) /\ Refs(o) # {} /\ Deleting(o) = {}
       \/ o \notin Elements(free) /\ Refs(o) = {} /\ \E p \in Places : Deleting(o) = {p}

(* Whoever holds a reference reads the message that was sent, unchanged,   *)
(* and what the maker has just acquired is empty: no earlier message shows *)
(* through, though the reset runs without the lock.                        *)
(* Code: the deleter resets before it releases.                            *)
MessagesIntact ==
  \A p \in Places : held[p] # NoRef => content[held[p].obj] = held[p].message

(* The pool is never larger than it was made, or than there are places     *)
(* that can keep a reference: however late a deleter is, acquire does not  *)
(* grow the pool on and on.                                                *)
(* Code: acquire prefers the free list, and every object comes back to it. *)
PoolBounded == owned <= Larger(Prealloc, Cardinality(Places))

=============================================================================
