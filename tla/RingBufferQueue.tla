-------------------------- MODULE RingBufferQueue --------------------------
(***************************************************************************)
(* The circular queue under every message topic of the pipeline            *)
(* (UAtomicRingBufferQueue): a vector of Capacity cells, the read position *)
(* head and the write position tail.  One cell always stays unused, so the *)
(* queue is full with Capacity - 1 messages: the topics of the program are *)
(* created with 2 and hold one message.                                    *)
(*                                                                         *)
(* Every operation runs under the queue's mutex, so each is one function   *)
(* from a queue to a queue.  The program pushes with REPLACE only; WAIT    *)
(* and DROP are not modelled.                                              *)
(*                                                                         *)
(* A cell that was skipped by REPLACE keeps its message until the cell is  *)
(* written again: the cells are part of the state because they keep        *)
(* messages alive (module FramePath).                                      *)
(***************************************************************************)
EXTENDS Integers

CONSTANTS Capacity,     \* the number of cells, setCapacity()
          Null          \* an empty std::shared_ptr

ASSUME CapacityAssumption == Capacity \in Nat /\ Capacity >= 2

Cells == 0 .. Capacity - 1

\* The position after c.
After(c) == (c + 1) % Capacity

EmptyQueue == [head |-> 0, tail |-> 0, cell |-> [c \in Cells |-> Null]]

IsEmpty(q) == q.head = q.tail

\* Mutant of IsFull: all cells are to be used.
IsFullWithAllCells(q) == q.head = q.tail

IsFull(q) == q.head = After(q.tail)

\* Mutant of PushReplace: push(m, DROP), the other strategy.
PushDrop(q, m) ==
  IF IsFull(q) THEN q
  ELSE [head |-> q.head, tail |-> After(q.tail), cell |-> [q.cell EXCEPT ![q.tail] = m]]

\* push(m, REPLACE): a full queue first drops its oldest message by moving
\* the head over it.  The dropped message stays in its cell.
PushReplace(q, m) ==
  [head |-> IF IsFull(q) THEN After(q.head) ELSE q.head,
   tail |-> After(q.tail),
   cell |-> [q.cell EXCEPT ![q.tail] = m]]

\* What waitPopWithTimeout hands out, when the queue is not empty.
Front(q) == q.cell[q.head]

\* waitPopWithTimeout on a queue that is not empty: the message is moved out,
\* so its cell is left empty.
Pop(q) ==
  [head |-> After(q.head),
   tail |-> q.tail,
   cell |-> [q.cell EXCEPT ![q.head] = Null]]

-----------------------------------------------------------------------------
(* How a queue reads as a sequence: the messages from head up to tail.     *)

Length(q) == IF q.head <= q.tail THEN q.tail - q.head
                                 ELSE q.tail - q.head + Capacity

Contents(q) == [i \in 1 .. Length(q) |-> q.cell[(q.head + i - 1) % Capacity]]

\* The queues whose cells hold messages of M.
QueueOf(M) == [head : Cells, tail : Cells, cell : [Cells -> M \cup {Null}]]

=============================================================================
