-------------------------- MODULE MessageFlowProofs --------------------------
(***************************************************************************)
(* For every number of cells, of subscribers and of objects at the start:  *)
(* the ring buffers of a topic implement the channel that keeps the newest *)
(* messages, no object of the pool has two owners, and the two together    *)
(* let every subscriber read what was sent.                                *)
(*                                                                         *)
(* The topic: NewestKept with the types is inductive, by what push and pop *)
(* do to the contents of a ring.  The pool: what is on the free list, or   *)
(* about to get there, has been reset (ResetBeforeRelease), and a message  *)
(* that is not filled yet has only its maker's reference (UnfilledAlone).  *)
(***************************************************************************)
EXTENDS MessageFlow, SequenceTheorems, FunctionTheorems, FiniteSetTheorems, TLAPS

USE CapacityAssumption, TopicAssumption

\* The positions of a queue: where After leads, without the remainder.
LEMMA AfterStep ==
  ASSUME NEW c \in Cells
  PROVE  After(c) = IF c = Capacity - 1 THEN 0 ELSE c + 1
BY DEF After, Cells

LEMMA LengthType ==
  ASSUME NEW q, q.head \in Cells, q.tail \in Cells
  PROVE  /\ Length(q) \in 0 .. Capacity - 1
         /\ IsEmpty(q) <=> Length(q) = 0
         /\ IsFull(q) <=> Length(q) = Capacity - 1
BY AfterStep DEF Length, IsEmpty, IsFull, Cells

\* The cell of the i-th waiting message, without the remainder.
LEMMA Position ==
  ASSUME NEW h \in Cells, NEW i \in 0 .. Capacity - 1
  PROVE  (h + i) % Capacity = IF h + i < Capacity THEN h + i ELSE h + i - Capacity
BY DEF Cells

LEMMA ShiftedPosition ==
  ASSUME NEW h \in Cells, NEW i \in 1 .. Capacity - 1
  PROVE  /\ (After(h) + i - 1) % Capacity = (h + i) % Capacity
         /\ (h + i) % Capacity \in Cells \ {h}
<1>1. CASE h + i < Capacity
  <2>1. h + 1 < Capacity /\ After(h) = h + 1
    BY <1>1, AfterStep DEF Cells
  <2>2. QED
    BY <1>1, <2>1 DEF Cells
<1>2. CASE h + i >= Capacity
  <2>1. (h + i) % Capacity = h + i - Capacity
    BY <1>2, Position DEF Cells
  <2>2. CASE h = Capacity - 1
    <3>1. After(h) + i - 1 = h + i - Capacity
      BY <2>2, AfterStep DEF Cells
    <3>2. QED
      BY <2>1, <2>2, <3>1 DEF Cells
  <2>3. CASE h # Capacity - 1
    <3>1. After(h) + i - 1 = h + i
      BY <2>3, AfterStep DEF Cells
    <3>2. QED
      BY <2>1, <3>1, <1>2 DEF Cells
  <2>4. QED
    BY <2>2, <2>3
<1>3. QED
  BY <1>1, <1>2 DEF Cells

\* From position h, the first n positions are not t, and the next one is.
LEMMA Distance ==
  ASSUME NEW h \in Cells, NEW t \in Cells, NEW j \in Nat,
         NEW n \in Nat, n = IF h <= t THEN t - h ELSE t - h + Capacity, j <= n
  PROVE  /\ (h + j) % Capacity \in Cells
         /\ (h + j) % Capacity = t <=> j = n
<1>1. j \in 0 .. Capacity - 1
  BY DEF Cells
<1>2. (h + j) % Capacity = IF h + j < Capacity THEN h + j ELSE h + j - Capacity
  BY <1>1, Position
<1>3. QED
  BY <1>1, <1>2 DEF Cells

LEMMA PushType ==
  ASSUME NEW M, NEW q \in QueueOf(M), NEW m \in M
  PROVE  PushReplace(q, m) \in QueueOf(M)
BY AfterStep DEF PushReplace, QueueOf, Cells

LEMMA PopType ==
  ASSUME NEW M, NEW q \in QueueOf(M)
  PROVE  Pop(q) \in QueueOf(M)
BY AfterStep DEF Pop, QueueOf, Cells

-----------------------------------------------------------------------------
(* The operations, read on the contents.                                   *)

LEMMA ContentsType ==
  ASSUME NEW M, NEW q \in QueueOf(M)
  PROVE  /\ Contents(q) \in [1 .. Length(q) -> M \cup {Null}]
         /\ DOMAIN Contents(q) = 1 .. Length(q)
         /\ Contents(q) \in Seq(M \cup {Null})
         /\ Len(Contents(q)) = Length(q)
<1>1. q.head \in Cells /\ q.tail \in Cells /\ q.cell \in [Cells -> M \cup {Null}]
  BY DEF QueueOf
<1>2. Length(q) \in 0 .. Capacity - 1
  BY <1>1, LengthType
<1>3. \A i \in 1 .. Length(q) : (q.head + i - 1) % Capacity \in Cells
  BY <1>1, <1>2 DEF Cells
<1>4. Contents(q) \in [1 .. Length(q) -> M \cup {Null}]
  BY <1>1, <1>3 DEF Contents
<1>5. QED
  BY <1>2, <1>4

\* A push appends the message; a full queue loses its oldest message.
LEMMA PushContents ==
  ASSUME NEW M, NEW q \in QueueOf(M), NEW m \in M
  PROVE  Contents(PushReplace(q, m)) = Channel!KeepNewest(Append(Contents(q), m))
<1> DEFINE p == PushReplace(q, m)
           c == Contents(q)
           a == Append(c, m)
<1> SUFFICES Contents(p) = Channel!KeepNewest(a)
  OBVIOUS
<1>1. q.head \in Cells /\ q.tail \in Cells /\ q.cell \in [Cells -> M \cup {Null}]
  BY DEF QueueOf
<1>2. /\ p.head = IF IsFull(q) THEN After(q.head) ELSE q.head
      /\ p.tail = After(q.tail)
      /\ p.cell = [q.cell EXCEPT ![q.tail] = m]
      /\ p \in QueueOf(M)
  BY PushType DEF PushReplace
<1>3. /\ Length(q) \in 0 .. Capacity - 1
      /\ IsFull(q) <=> Length(q) = Capacity - 1
  BY <1>1, LengthType
<1>4. c \in Seq(M \cup {Null}) /\ Len(c) = Length(q)
  BY ContentsType
<1>5. /\ a \in Seq(M \cup {Null})
      /\ Len(a) = Length(q) + 1
      /\ a # <<>>
      /\ \A i \in 1 .. Length(q) : a[i] = c[i]
      /\ a[Length(q) + 1] = m
  <2>1. m \in M \cup {Null}
    OBVIOUS
  <2>2. QED
    BY <1>4, <2>1, AppendProperties
<1>6. Length(p) = IF IsFull(q) THEN Length(q) ELSE Length(q) + 1
  <2>1. /\ After(q.tail) = IF q.tail = Capacity - 1 THEN 0 ELSE q.tail + 1
        /\ After(q.head) = IF q.head = Capacity - 1 THEN 0 ELSE q.head + 1
    BY <1>1, AfterStep
  <2> HIDE DEF p
  <2> DEFINE h == q.head
             t == q.tail
  <2>2. h \in 0 .. Capacity - 1 /\ t \in 0 .. Capacity - 1
    BY <1>1 DEF Cells
  <2>3. CASE IsFull(q)
    <3>1. p.head = After(h) /\ p.tail = After(t) /\ h = After(t)
      BY <1>2, <2>3 DEF IsFull
    <3> HIDE DEF h, t
    <3>2. Length(p) = Capacity - 1
      BY <2>1, <2>2, <3>1 DEF Length, h, t
    <3>3. QED
      BY <3>2, <2>3, <1>3
  <2>4. CASE ~ IsFull(q)
    <3>1. p.head = h /\ p.tail = After(t) /\ h # After(t)
      BY <1>2, <2>4 DEF IsFull
    <3>2. Length(q) = IF h <= t THEN t - h ELSE t - h + Capacity
      BY DEF Length
    <3>3. Length(p) = IF h <= After(t) THEN After(t) - h ELSE After(t) - h + Capacity
      BY <3>1 DEF Length
    <3>4. After(t) = IF t = Capacity - 1 THEN 0 ELSE t + 1
      BY <2>1
    <3> HIDE DEF h, t
    <3>5. Length(p) = Length(q) + 1
      BY <2>2, <3>1, <3>2, <3>3, <3>4
    <3>6. QED
      BY <3>5, <2>4
  <2>5. QED
    BY <2>3, <2>4
<1> HIDE DEF p, c, a
<1>7. \A i \in 1 .. Length(q) + 1 :
        a[i] = p.cell[(q.head + i - 1) % Capacity]
  <2> SUFFICES ASSUME NEW i \in 1 .. Length(q) + 1
               PROVE  a[i] = p.cell[(q.head + i - 1) % Capacity]
    OBVIOUS
  <2> DEFINE k == (q.head + i - 1) % Capacity
  <2>1. k \in Cells /\ (k = q.tail <=> i = Length(q) + 1)
    <3> DEFINE j == i - 1
               n == Length(q)
    <3>1. j \in Nat /\ n \in Nat /\ j <= n /\ (j = n <=> i = Length(q) + 1)
      BY <1>3
    <3>2. k = (q.head + j) % Capacity
      BY <1>1, <1>3 DEF Cells
    <3>3. n = IF q.head <= q.tail THEN q.tail - q.head ELSE q.tail - q.head + Capacity
      BY DEF Length
    <3> HIDE DEF j, n, k
    <3>4. QED
      BY <3>1, <3>2, <3>3, <1>1, Distance
  <2> HIDE DEF k
  <2>2. CASE i = Length(q) + 1
    <3>1. a[i] = m
      BY <2>2, <1>5
    <3>2. QED
      BY <3>1, <2>1, <2>2, <1>1, <1>2 DEF k
  <2>3. CASE i \in 1 .. Length(q)
    <3>1. a[i] = q.cell[k]
      BY <2>3, <1>5 DEF Contents, c, k
    <3>2. i # Length(q) + 1
      BY <2>3, <1>3
    <3>3. QED
      BY <3>1, <3>2, <2>1, <1>1, <1>2 DEF k
  <2>4. i = Length(q) + 1 \/ i \in 1 .. Length(q)
    BY <1>3
  <2>5. QED
    BY <2>2, <2>3, <2>4
<1>8. CASE ~ IsFull(q)
  <2>1. Channel!KeepNewest(a) = a
    BY <1>8, <1>5, <1>3 DEF Channel!KeepNewest
  <2>2. \A i \in 1 .. Length(q) + 1 : Contents(p)[i] = a[i]
    BY <1>8, <1>2, <1>6, <1>7 DEF Contents
  <2>3. Contents(p) = a
    <3>1. Contents(p) \in Seq(M \cup {Null}) /\ Len(Contents(p)) = Length(q) + 1
      BY <1>8, <1>2, <1>6, ContentsType
    <3>2. QED
      BY <2>2, <3>1, <1>5, SeqEqual
  <2>4. QED
    BY <2>1, <2>3
<1>9. CASE IsFull(q)
  <2>1. Channel!KeepNewest(a) = Tail(a)
    BY <1>9, <1>5, <1>3 DEF Channel!KeepNewest
  <2>2. /\ Tail(a) \in Seq(M \cup {Null})
        /\ Len(Tail(a)) = Length(q)
        /\ \A i \in 1 .. Length(q) : Tail(a)[i] = a[i + 1]
    BY <1>5, <1>3, HeadTailProperties
  <2>3. \A i \in 1 .. Length(q) :
          (p.head + i - 1) % Capacity = (q.head + (i + 1) - 1) % Capacity
    <3> SUFFICES ASSUME NEW i \in 1 .. Length(q)
                 PROVE  (p.head + i - 1) % Capacity = (q.head + (i + 1) - 1) % Capacity
      OBVIOUS
    <3>1. i \in 1 .. Capacity - 1 /\ q.head + (i + 1) - 1 = q.head + i
      BY <1>1, <1>3 DEF Cells
    <3>2. QED
      BY <3>1, <1>1, <1>2, <1>9, ShiftedPosition
  <2>4. \A i \in 1 .. Length(q) : Contents(p)[i] = a[i + 1]
    BY <1>9, <1>3, <1>6, <1>7, <2>3 DEF Contents
  <2>5. Contents(p) \in Seq(M \cup {Null}) /\ Len(Contents(p)) = Length(q)
    BY <1>9, <1>2, <1>6, ContentsType
  <2>6. Contents(p) = Tail(a)
    BY <2>2, <2>4, <2>5, SeqEqual
  <2>7. QED
    BY <2>1, <2>6
<1>10. QED
  BY <1>8, <1>9

\* A receive takes the head of the contents and leaves the tail.
LEMMA PopContents ==
  ASSUME NEW M, NEW q \in QueueOf(M), ~ IsEmpty(q)
  PROVE  /\ Contents(q) # <<>>
         /\ Front(q) = Head(Contents(q))
         /\ Contents(Pop(q)) = Tail(Contents(q))
<1> DEFINE p == Pop(q)
           c == Contents(q)
<1>1. q.head \in Cells /\ q.tail \in Cells /\ q.cell \in [Cells -> M \cup {Null}]
  BY DEF QueueOf
<1>2. /\ p.head = After(q.head)
      /\ p.tail = q.tail
      /\ p.cell = [q.cell EXCEPT ![q.head] = Null]
      /\ p \in QueueOf(M)
  BY PopType DEF Pop
<1>3. Length(q) \in 1 .. Capacity - 1
  BY <1>1, LengthType
<1>4. c \in Seq(M \cup {Null}) /\ Len(c) = Length(q)
  BY ContentsType
<1>5. c # <<>> /\ c[1] = q.cell[q.head]
  <2>1. c[1] = q.cell[(q.head + 1 - 1) % Capacity]
    BY <1>3 DEF Contents
  <2>2. (q.head + 1 - 1) % Capacity = q.head
    BY <1>1 DEF Cells
  <2>3. QED
    BY <2>1, <2>2, <1>3, <1>4
<1>6. /\ Tail(c) \in Seq(M \cup {Null})
      /\ Len(Tail(c)) = Length(q) - 1
      /\ \A i \in 1 .. Length(q) - 1 : Tail(c)[i] = c[i + 1]
  <2> HIDE DEF c
  <2>1. QED
    BY <1>3, <1>4, <1>5, HeadTailProperties
<1>7. Length(p) = Length(q) - 1
  BY <1>1, <1>2, <1>3, AfterStep DEF Length, Cells
<1>8. \A i \in 1 .. Length(q) - 1 :
        /\ (p.head + i - 1) % Capacity = (q.head + (i + 1) - 1) % Capacity
        /\ (p.head + i - 1) % Capacity \in Cells \ {q.head}
  <2> SUFFICES ASSUME NEW i \in 1 .. Length(q) - 1
               PROVE  /\ (p.head + i - 1) % Capacity = (q.head + (i + 1) - 1) % Capacity
                      /\ (p.head + i - 1) % Capacity \in Cells \ {q.head}
    OBVIOUS
  <2>1. i \in 1 .. Capacity - 1 /\ q.head + (i + 1) - 1 = q.head + i
    BY <1>1, <1>3 DEF Cells
  <2>2. QED
    BY <2>1, <1>1, <1>2, ShiftedPosition
<1>9. \A i \in 1 .. Length(q) - 1 : Contents(p)[i] = c[i + 1]
  BY <1>1, <1>2, <1>3, <1>7, <1>8 DEF Contents
<1>10. Contents(p) \in Seq(M \cup {Null}) /\ Len(Contents(p)) = Length(q) - 1
  BY <1>2, <1>7, ContentsType
<1>11. Contents(p) = Tail(c)
  <2> HIDE DEF c, p
  <2>1. QED
    BY <1>6, <1>9, <1>10, SeqEqual
<1>12. QED
  BY <1>5, <1>11 DEF Front

-----------------------------------------------------------------------------
(* The topic.  NewestKept with the types is inductive: what a step does to *)
(* one ring is what the channel does to its contents, by the lemmas above. *)

Inv == TypeOK /\ NewestKept

\* The invariant for one subscriber, in the terms of its ring.
LEMMA Subscriber ==
  ASSUME Inv, NEW s \in Subscribers
  PROVE  /\ ring[s] \in QueueOf(1 .. MaxMessage)
         /\ Length(ring[s]) \in 0 .. Capacity - 1
         /\ Contents(ring[s]) \in Seq((1 .. MaxMessage) \cup {Null})
         /\ Len(Contents(ring[s])) = Length(ring[s])
         /\ Channel!Reached(s) \in 0 .. MaxMessage
         /\ Channel!Reached(s) <= published
         /\ received[s] \in 0 .. Channel!Reached(s) - Length(ring[s])
         /\ Length(ring[s]) = 0 => received[s] = Channel!Reached(s)
         /\ \A i \in 1 .. Length(ring[s]) :
              Contents(ring[s])[i] = Channel!Reached(s) - Length(ring[s]) + i
<1> DEFINE q == ring[s]
           n == Length(q)
<1>1. q \in QueueOf(1 .. MaxMessage) /\ published \in 0 .. MaxMessage
      /\ received[s] \in 0 .. MaxMessage
  BY DEF Inv, TypeOK
<1>2. n \in 0 .. Capacity - 1
  BY <1>1, LengthType DEF QueueOf
<1>3. Contents(q) \in Seq((1 .. MaxMessage) \cup {Null}) /\ Len(Contents(q)) = n
  BY <1>1, ContentsType
<1>4. /\ \A i \in 1 .. n : Contents(q)[i] = Channel!Reached(s) - n + i
      /\ received[s] <= Channel!Reached(s) - n
      /\ n = 0 => received[s] = Channel!Reached(s)
  BY <1>3 DEF Inv, NewestKept, Channel!NewestKept
<1>5. Channel!Reached(s) \in {published, published - 1}
  BY DEF Channel!Reached
<1> HIDE DEF q, n
<1>6. /\ received[s] \in 0 .. Channel!Reached(s) - n
      /\ Channel!Reached(s) \in 0 .. MaxMessage
      /\ Channel!Reached(s) <= published
  BY <1>1, <1>2, <1>4, <1>5
<1>7. QED
  BY <1>1, <1>2, <1>3, <1>4, <1>6 DEF q, n

LEMMA InitImplements == Init => Inv /\ Channel!Init
<1> SUFFICES ASSUME Init PROVE Inv /\ Channel!Init
  OBVIOUS
<1>1. EmptyQueue \in QueueOf(1 .. MaxMessage)
  BY DEF EmptyQueue, QueueOf, Cells
<1>2. Length(EmptyQueue) = 0
  BY DEF EmptyQueue, Length
<1>3. Contents(EmptyQueue) = <<>>
  BY <1>1, <1>2, ContentsType, EmptySeq
<1>4. TypeOK
  BY <1>1 DEF Init, TypeOK
<1>5. NewestKept
  BY <1>3 DEF Init, NewestKept, Channel!NewestKept, Channel!Reached
<1>6. Channel!Init
  BY <1>3 DEF Init, Channel!Init
<1>7. QED
  BY <1>4, <1>5, <1>6 DEF Inv

LEMMA SendImplements ==
  ASSUME Inv, NEW s \in Subscribers, Send(s)
  PROVE  Inv' /\ Channel!Deliver(s)
<1> DEFINE q == ring[s]
           c == Contents(q)
           n == Length(q)
           d == Contents(PushReplace(q, published))
<1>1. /\ s \in unsent /\ unsent' = unsent \ {s}
      /\ ring' = [ring EXCEPT ![s] = PushReplace(q, published)]
      /\ published' = published /\ received' = received
  BY DEF Send
<1>2. /\ published \in 1 .. MaxMessage
      /\ Channel!Reached(s) = published - 1
      /\ n \in 0 .. Capacity - 1
      /\ received[s] \in 0 .. published - 1 - n
      /\ \A i \in 1 .. n : c[i] = published - 1 - n + i
      /\ c \in Seq((1 .. MaxMessage) \cup {Null}) /\ Len(c) = n
      /\ q \in QueueOf(1 .. MaxMessage)
  <2>1. Channel!Reached(s) = published - 1
    BY <1>1 DEF Channel!Reached
  <2>2. published \in 0 .. MaxMessage
    BY DEF Inv, TypeOK
  <2>3. QED
    BY <2>1, <2>2, Subscriber
<1>3. PushReplace(q, published) \in QueueOf(1 .. MaxMessage)
  BY <1>2, PushType
<1>4. d = Channel!KeepNewest(Append(c, published))
  BY <1>2, PushContents
<1>5. TypeOK'
  BY <1>1, <1>3 DEF Inv, TypeOK
<1>6. Channel!Deliver(s)
  BY <1>1, <1>4 DEF Channel!Deliver, Inv, TypeOK
<1>7. /\ Len(d) \in 1 .. Capacity - 1
      /\ \A i \in 1 .. Len(d) : d[i] = published - Len(d) + i
      /\ received[s] <= published - Len(d)
  <2> DEFINE a == Append(c, published)
  <2> HIDE DEF c, n, q
  <2>1. /\ a \in Seq((1 .. MaxMessage) \cup {Null}) /\ a # <<>>
        /\ Len(a) = n + 1
        /\ \A i \in 1 .. n : a[i] = c[i]
        /\ a[n + 1] = published
    <3> DEFINE S == (1 .. MaxMessage) \cup {Null}
    <3>1. published \in S /\ c \in Seq(S) /\ Len(c) = n
      BY <1>2
    <3> HIDE DEF S
    <3>2. /\ a \in Seq(S) /\ a # <<>>
          /\ Len(a) = Len(c) + 1
          /\ \A i \in 1 .. Len(c) : a[i] = c[i]
          /\ a[Len(c) + 1] = published
      BY <3>1, AppendProperties
    <3>3. QED
      BY <3>1, <3>2 DEF S
  <2>2. \A i \in 1 .. n + 1 : a[i] = published - (n + 1) + i
    <3> SUFFICES ASSUME NEW i \in 1 .. n + 1
                 PROVE  a[i] = published - (n + 1) + i
      OBVIOUS
    <3> HIDE DEF a
    <3>1. n \in Nat /\ published \in Nat
      BY <1>2
    <3>2. CASE i = n + 1
      BY <2>1, <3>1, <3>2
    <3>3. CASE i \in 1 .. n
      <4>1. a[i] = c[i] /\ c[i] = published - 1 - n + i
        BY <1>2, <2>1, <3>3
      <4> QED
        BY <3>1, <3>3, <4>1
    <3> QED
      BY <3>1, <3>2, <3>3
  <2> HIDE DEF a, d
  <2>3. CASE n + 1 > Capacity - 1
    <3>1. n = Capacity - 1 /\ d = Tail(a)
      <4>1. d = Channel!KeepNewest(a) /\ Len(a) > Capacity - 1
        BY <1>4, <2>1, <2>3 DEF a
      <4>2. d = Tail(a)
        BY <4>1 DEF Channel!KeepNewest
      <4>3. n = Capacity - 1
        BY <1>2, <2>3, CapacityAssumption
      <4> QED
        BY <4>2, <4>3
    <3>2. Len(d) = n /\ \A i \in 1 .. n : d[i] = a[i + 1]
      BY <1>2, <2>1, <3>1, HeadTailProperties
    <3>3. \A i \in 1 .. n : d[i] = published - n + i
      BY <1>2, <2>2, <3>2
    <3>4. received[s] <= published - n
      BY <1>2
    <3>5. Len(d) = n /\ n \in 1 .. Capacity - 1
      BY <1>2, <3>1, <3>2
    <3>6. QED
      BY <3>3, <3>4, <3>5
  <2>4. CASE ~ (n + 1 > Capacity - 1)
    <3>1. d = a
      <4>1. d = Channel!KeepNewest(a) /\ ~ (Len(a) > Capacity - 1)
        BY <1>4, <2>1, <2>4 DEF a
      <4> QED
        BY <4>1 DEF Channel!KeepNewest
    <3>2. \A i \in 1 .. n + 1 : d[i] = published - (n + 1) + i
      BY <2>2, <3>1
    <3>3. received[s] <= published - (n + 1) /\ n + 1 \in 1 .. Capacity - 1
      BY <1>2, <2>4
    <3>4. QED
      BY <2>1, <3>1, <3>2, <3>3
  <2>5. QED
    BY <2>3, <2>4
<1>8. NewestKept'
  <2> SUFFICES ASSUME NEW r \in Subscribers
               PROVE  LET m == Len(Contents(ring'[r])) IN
                      /\ m <= Capacity - 1
                      /\ \A i \in 1 .. m : Contents(ring'[r])[i] = Channel!Reached(r)' - m + i
                      /\ received'[r] <= Channel!Reached(r)' - m
                      /\ m = 0 => received'[r] = Channel!Reached(r)'
    BY DEF NewestKept, Channel!NewestKept
  <2>1. CASE r = s
    <3>1. Contents(ring'[r]) = d /\ Channel!Reached(r)' = published
      BY <2>1, <1>1 DEF Inv, TypeOK, Channel!Reached
    <3>2. QED
      BY <2>1, <3>1, <1>1, <1>7
  <2>2. CASE r # s
    <3>1. ring'[r] = ring[r] /\ Channel!Reached(r)' = Channel!Reached(r)
      BY <2>2, <1>1 DEF Inv, TypeOK, Channel!Reached
    <3>2. QED
      BY <3>1, <1>1 DEF Inv, NewestKept, Channel!NewestKept
  <2>3. QED
    BY <2>1, <2>2
<1>9. QED
  BY <1>5, <1>6, <1>8 DEF Inv

LEMMA ReceiveImplements ==
  ASSUME Inv, NEW s \in Subscribers, Receive(s)
  PROVE  Inv' /\ Channel!Receive(s) /\ received'[s] >= received[s]
<1> DEFINE q == ring[s]
           c == Contents(q)
           n == Length(q)
           d == Contents(Pop(q))
           reached == Channel!Reached(s)
<1>1. /\ ~ IsEmpty(q)
      /\ received' = [received EXCEPT ![s] = Front(q)]
      /\ ring' = [ring EXCEPT ![s] = Pop(q)]
      /\ published' = published /\ unsent' = unsent
  BY DEF Receive
<1>2. /\ q \in QueueOf(1 .. MaxMessage)
      /\ n \in 1 .. Capacity - 1
      /\ reached \in 0 .. MaxMessage
      /\ received[s] \in 0 .. reached - n
      /\ \A i \in 1 .. n : c[i] = reached - n + i
      /\ c \in Seq((1 .. MaxMessage) \cup {Null}) /\ Len(c) = n
  BY <1>1, Subscriber, LengthType DEF QueueOf
<1>3. c # <<>> /\ Front(q) = Head(c) /\ d = Tail(c)
  BY <1>1, <1>2, PopContents
<1>4. Pop(q) \in QueueOf(1 .. MaxMessage)
  BY <1>2, PopType
<1>5. /\ Front(q) = reached - n + 1
      /\ Front(q) \in 1 .. MaxMessage
      /\ Front(q) > received[s]
      /\ Len(d) = n - 1
      /\ \A i \in 1 .. n - 1 : d[i] = reached - (n - 1) + i
  <2> HIDE DEF c, d, n, q, reached
  <2>1. Head(c) = c[1]
    BY <1>2
  <2>2. Len(d) = n - 1 /\ \A i \in 1 .. n - 1 : d[i] = c[i + 1]
    BY <1>2, <1>3, HeadTailProperties
  <2>3. QED
    BY <1>2, <1>3, <2>1, <2>2
<1>6. TypeOK'
  BY <1>1, <1>4, <1>5 DEF Inv, TypeOK
<1>7. Channel!Receive(s)
  BY <1>1, <1>3 DEF Channel!Receive, Inv, TypeOK
<1>8. NewestKept'
  <2> SUFFICES ASSUME NEW r \in Subscribers
               PROVE  LET m == Len(Contents(ring'[r])) IN
                      /\ m <= Capacity - 1
                      /\ \A i \in 1 .. m : Contents(ring'[r])[i] = Channel!Reached(r)' - m + i
                      /\ received'[r] <= Channel!Reached(r)' - m
                      /\ m = 0 => received'[r] = Channel!Reached(r)'
    BY DEF NewestKept, Channel!NewestKept
  <2>1. Channel!Reached(r)' = Channel!Reached(r)
    BY <1>1 DEF Channel!Reached
  <2>2. CASE r = s
    <3>1. Contents(ring'[r]) = d /\ received'[r] = Front(q)
      BY <2>2, <1>1 DEF Inv, TypeOK
    <3> HIDE DEF d, n, q, c
    <3>2. QED
      BY <2>1, <2>2, <3>1, <1>2, <1>5
  <2>3. CASE r # s
    <3>1. ring'[r] = ring[r] /\ received'[r] = received[r]
      BY <2>3, <1>1 DEF Inv, TypeOK
    <3>2. QED
      BY <2>1, <3>1 DEF Inv, NewestKept, Channel!NewestKept
  <2>4. QED
    BY <2>2, <2>3
<1>9. received'[s] >= received[s]
  BY <1>1, <1>2, <1>5 DEF Inv, TypeOK
<1>10. QED
  BY <1>6, <1>7, <1>8, <1>9 DEF Inv

LEMMA PublishImplements ==
  ASSUME Inv, Publish
  PROVE  Inv' /\ Channel!Publish
<1>1. /\ unsent = {} /\ unsent' = Subscribers
      /\ published < MaxMessage /\ published' = published + 1
      /\ ring' = ring /\ received' = received
  BY DEF Publish
<1>2. TypeOK'
  BY <1>1 DEF Inv, TypeOK
<1>3. \A s \in Subscribers : Channel!Reached(s)' = Channel!Reached(s)
  BY <1>1 DEF Inv, TypeOK, Channel!Reached
<1>4. NewestKept'
  BY <1>1, <1>3 DEF Inv, NewestKept, Channel!NewestKept
<1>5. Channel!Publish
  BY <1>1 DEF Channel!Publish
<1>6. QED
  BY <1>2, <1>4, <1>5 DEF Inv

\* One step of the topic is one step of the channel, and no step moves a
\* subscriber back.
LEMMA StepImplements ==
  ASSUME Inv, [Next]_vars
  PROVE  /\ Inv'
         /\ [Channel!Next]_(Channel!vars)
         /\ \A s \in Subscribers : received'[s] >= received[s]
<1> DEFINE Forward == \A s \in Subscribers : received'[s] >= received[s]
<1>0. received \in [Subscribers -> 0 .. MaxMessage]
  BY DEF Inv, TypeOK
<1>1. CASE Publish
  <2>1. Forward
    BY <1>0, <1>1 DEF Publish
  <2>2. QED
    BY <1>1, <2>1, PublishImplements DEF Channel!Next
<1>2. ASSUME NEW s \in Subscribers, Send(s)
      PROVE  Inv' /\ [Channel!Next]_(Channel!vars) /\ Forward
  <2>1. Forward
    BY <1>0, <1>2 DEF Send
  <2>2. QED
    BY <1>2, <2>1, SendImplements DEF Channel!Next
<1>3. ASSUME NEW s \in Subscribers, Receive(s)
      PROVE  Inv' /\ [Channel!Next]_(Channel!vars) /\ Forward
  <2>1. \A r \in Subscribers \ {s} : received'[r] = received[r]
    BY <1>0, <1>3 DEF Receive
  <2>2. Forward
    BY <1>0, <1>3, <2>1, ReceiveImplements
  <2>3. QED
    BY <1>3, <2>2, ReceiveImplements DEF Channel!Next
<1>4. CASE UNCHANGED vars
  <2>1. Inv'
    BY <1>4 DEF vars, Inv, TypeOK, NewestKept, Channel!NewestKept, Channel!Reached
  <2>2. UNCHANGED Channel!vars
    BY <1>4 DEF vars, Channel!vars
  <2>3. QED
    BY <1>0, <1>4, <2>1, <2>2 DEF vars
<1>5. QED
  BY <1>1, <1>2, <1>3, <1>4 DEF Next

(* The rings never lose the newest message, only the oldest of a full      *)
(* queue: UAtomicRingBufferQueue::push with REPLACE, for any capacity, any *)
(* number of subscribers and any interleaving.                             *)
THEOREM KeepsNewest == Spec => []NewestKept
<1>1. Init => Inv
  BY InitImplements
<1>2. Inv /\ [Next]_vars => Inv'
  BY StepImplements
<1>3. Inv => NewestKept
  BY DEF Inv
<1>4. QED
  BY <1>1, <1>2, <1>3, PTL DEF Spec

(* The types of the topic's state: positions stay inside the vector.       *)
THEOREM TypeCorrect == Spec => []TypeOK
<1>1. Init => Inv
  BY InitImplements
<1>2. Inv /\ [Next]_vars => Inv'
  BY StepImplements
<1>3. Inv => TypeOK
  BY DEF Inv
<1>4. QED
  BY <1>1, <1>2, <1>3, PTL DEF Spec

(* The ring buffers of a topic implement the channel of depth Capacity - 1.*)
THEOREM TopicImplementsChannel == Spec => ImplementsChannel
<1>1. Init => Inv /\ Channel!Init
  BY InitImplements
<1>2. Inv /\ [Next]_vars => Inv' /\ [Channel!Next]_(Channel!vars)
  BY StepImplements
<1>3. QED
  BY <1>1, <1>2, PTL DEF Spec, ImplementsChannel, Channel!Spec

(* No subscriber ever takes a message older than the one before.           *)
THEOREM ReceivesInOrder == Spec => NoStepBack
<1>1. Init => Inv
  BY InitImplements
<1>2. Inv /\ [Next]_vars =>
        Inv' /\ [\A s \in Subscribers : received'[s] >= received[s]]_(Channel!vars)
  BY StepImplements
<1>3. QED
  BY <1>1, <1>2, PTL DEF Spec, NoStepBack, Channel!NoStepBack

-----------------------------------------------------------------------------
(* The pool. *)

ResetBeforeRelease ==
  /\ \A o \in Elements(free) : content[o] = 0
  /\ \A p \in Places : deleter[p] # NoRef /\ deleter[p].reset => content[deleter[p].obj] = 0

UnfilledAlone ==
  \A p \in Places : held[p] # NoRef /\ held[p].message = 0 => Refs(held[p].obj) = {p}

(* While a deleter runs, its place keeps nothing.                          *)
DeleterAlone == \A p \in Places : held[p] = NoRef \/ deleter[p] = NoRef

PoolInv == PoolTypeOK /\ DeleterAlone /\ OneOwner /\ ResetBeforeRelease /\ UnfilledAlone /\ MessagesIntact

Ref == [obj : Objects, message : 0 .. MaxMade]
Deleter == [obj : Objects, reset : BOOLEAN]

-----------------------------------------------------------------------------

LEMMA NotNoRef ==
  /\ \A o \in Nat, m \in 0 .. MaxMade : [obj |-> o, message |-> m] # NoRef
  /\ \A o \in Nat, r \in BOOLEAN : [obj |-> o, reset |-> r] # NoRef
<1>1. ASSUME NEW o \in Nat, NEW m \in 0 .. MaxMade PROVE [obj |-> o, message |-> m] # NoRef
  BY <1>1, PoolAssumption
<1>2. ASSUME NEW o \in Nat, NEW r \in BOOLEAN PROVE [obj |-> o, reset |-> r] # NoRef
  BY <1>2, PoolAssumption
<1> QED BY <1>1, <1>2

(* What a change of one place does to the references.                      *)
LEMMA RefsAfter ==
  ASSUME PoolTypeOK, NEW p \in Places, NEW v, held' = [held EXCEPT ![p] = v]
  PROVE  \A o : Refs(o)' = IF v # NoRef /\ v.obj = o THEN Refs(o) \cup {p} ELSE Refs(o) \ {p}
<1>1. \A q \in Places : held'[q] = IF q = p THEN v ELSE held[q]
  BY DEF PoolTypeOK
<1> QED BY <1>1 DEF Refs

LEMMA DeletingAfter ==
  ASSUME PoolTypeOK, NEW p \in Places, NEW v, deleter' = [deleter EXCEPT ![p] = v]
  PROVE  \A o : Deleting(o)' = IF v # NoRef /\ v.obj = o THEN Deleting(o) \cup {p}
                               ELSE Deleting(o) \ {p}
<1>1. \A q \in Places : deleter'[q] = IF q = p THEN v ELSE deleter[q]
  BY DEF PoolTypeOK
<1> QED BY <1>1 DEF Deleting

(* The top of a free list without duplicates, and what is left below it.   *)
LEMMA Top ==
  ASSUME NEW S, NEW s \in Seq(S), s # <<>>,
         \A m, n \in DOMAIN s : s[m] = s[n] => m = n
  PROVE  LET top == s[Len(s)]
             rest == SubSeq(s, 1, Len(s) - 1)
         IN /\ top \in S /\ top \in Elements(s)
            /\ rest \in Seq(S) /\ Len(rest) = Len(s) - 1
            /\ Elements(rest) = Elements(s) \ {top}
            /\ \A m, n \in DOMAIN rest : rest[m] = rest[n] => m = n
<1> DEFINE k == Len(s)
           top == s[k]
           rest == SubSeq(s, 1, k - 1)
<1>1. k \in Nat \ {0} /\ DOMAIN s = 1 .. k
  BY LenProperties, EmptySeq
<1>2. top \in S /\ top \in Elements(s)
  BY <1>1 DEF Elements
<1>3. /\ rest \in Seq(S) /\ Len(rest) = k - 1
      /\ DOMAIN rest = 1 .. k - 1
      /\ \A n \in 1 .. k - 1 : rest[n] = s[n]
  BY <1>1
<1> HIDE DEF rest
<1>4. DOMAIN s = DOMAIN rest \cup {k} /\ k \notin DOMAIN rest
  BY <1>1, <1>3
<1>5. Elements(rest) = Elements(s) \ {top}
  BY <1>1, <1>3, <1>4 DEF Elements
<1>6. \A m, n \in DOMAIN rest : rest[m] = rest[n] => m = n
  BY <1>1, <1>3, <1>4
<1> QED BY <1>2, <1>3, <1>5, <1>6 DEF rest

LEMMA Pushed ==
  ASSUME NEW S, NEW s \in Seq(S), NEW x \in S, x \notin Elements(s),
         \A m, n \in DOMAIN s : s[m] = s[n] => m = n
  PROVE  /\ Append(s, x) \in Seq(S)
         /\ Elements(Append(s, x)) = Elements(s) \cup {x}
         /\ \A m, n \in DOMAIN Append(s, x) : Append(s, x)[m] = Append(s, x)[n] => m = n
<1> DEFINE t == Append(s, x)
<1>1. /\ t \in Seq(S)
      /\ DOMAIN s = 1 .. Len(s) /\ Len(s) \in Nat
      /\ DOMAIN t = 1 .. Len(s) + 1
      /\ \A n \in 1 .. Len(s) : t[n] = s[n]
      /\ t[Len(s) + 1] = x
  BY AppendProperties, LenProperties
<1> HIDE DEF t
<1>2. DOMAIN t = DOMAIN s \cup {Len(s) + 1}
  BY <1>1
<1>3. Elements(t) = Elements(s) \cup {x}
  BY <1>1, <1>2 DEF Elements
<1>4. \A m, n \in DOMAIN t : t[m] = t[n] => m = n
  BY <1>1, <1>2 DEF Elements
<1> QED BY <1>1, <1>3, <1>4 DEF t

-----------------------------------------------------------------------------
(* Each operation keeps the invariant.                                     *)

LEMMA AcquireFreeStep ==
  ASSUME PoolInv, AcquireFree
  PROVE  PoolInv'
<1> USE DEF PoolInv
<1> DEFINE top == free[Len(free)]
           v == [obj |-> top, message |-> 0]
<1>1. /\ top \in Objects /\ top \in Elements(free)
      /\ free' \in Seq(Objects)
      /\ Elements(free') = Elements(free) \ {top}
      /\ \A m, n \in DOMAIN free' : free'[m] = free'[n] => m = n
      /\ Len(free) \in Nat
  BY Top, LenProperties DEF AcquireFree, PoolTypeOK, OneOwner
<1>2. /\ held' = [held EXCEPT ![Maker] = v]
      /\ UNCHANGED <<owned, content, deleter, made>>
      /\ Maker \in Places /\ held[Maker] = NoRef
  BY PoolAssumption DEF AcquireFree, Vacant
<1>3. v \in Ref /\ v # NoRef /\ v.obj = top /\ v.message = 0
  BY <1>1, PoolAssumption, NotNoRef DEF Ref, Objects, PoolTypeOK
<1>4. content[top] = 0 /\ Refs(top) = {} /\ Deleting(top) = {}
  BY <1>1 DEF ResetBeforeRelease, OneOwner
<1> HIDE DEF top, v
<1>5. \A q \in Places : held'[q] = IF q = Maker THEN v ELSE held[q]
  BY <1>2 DEF PoolTypeOK
<1>6. \A o : Refs(o)' = IF o = top THEN {Maker} ELSE Refs(o) \ {Maker}
  BY <1>2, <1>3, <1>4, RefsAfter
<1>7. \A o : Maker \notin Refs(o)
  BY <1>2 DEF Refs
<1>8. \A o : Deleting(o)' = Deleting(o)
  BY <1>2 DEF Deleting
<1>9. PoolTypeOK'
  <2>1. held' \in [Places -> Ref \cup {NoRef}]
    BY <1>2, <1>3 DEF PoolTypeOK, Ref
  <2> QED BY <1>1, <1>2, <2>1 DEF PoolTypeOK, Ref, Objects
<1>10. OneOwner'
  <2>1. Objects' = Objects
    BY <1>2 DEF Objects
  <2>2. ASSUME NEW o \in Objects, o = top
        PROVE  o \notin Elements(free') /\ Refs(o)' = {Maker} /\ Deleting(o)' = {}
    BY <1>1, <1>4, <1>6, <1>8, <2>2
  <2>3. ASSUME NEW o \in Objects, o # top
        PROVE  /\ Refs(o)' = Refs(o) /\ Deleting(o)' = Deleting(o)
               /\ o \in Elements(free') <=> o \in Elements(free)
    BY <1>1, <1>6, <1>7, <1>8, <2>3
  <2> QED BY <1>1, <2>1, <2>2, <2>3 DEF OneOwner, Elements
<1>11. ResetBeforeRelease'
  BY <1>1, <1>2 DEF ResetBeforeRelease, Elements
<1>12. UnfilledAlone'
  BY <1>1, <1>3, <1>4, <1>5, <1>6, <1>7 DEF UnfilledAlone, Refs
<1>13. MessagesIntact'
  BY <1>2, <1>3, <1>4, <1>5 DEF MessagesIntact
<1>20. DeleterAlone'
  BY <1>2, <1>5 DEF DeleterAlone, AcquireFree, Vacant
<1> QED BY <1>20, <1>9, <1>10, <1>11, <1>12, <1>13

LEMMA AcquireNewStep ==
  ASSUME PoolInv, AcquireNew
  PROVE  PoolInv'
<1> USE DEF PoolInv
<1> DEFINE top == owned + 1
           v == [obj |-> top, message |-> 0]
<1>1. /\ held' = [held EXCEPT ![Maker] = v]
      /\ UNCHANGED <<free, deleter, made>> /\ owned' = owned + 1
      /\ content' = [o \in 1 .. owned + 1 |-> IF o <= owned THEN content[o] ELSE 0]
      /\ Maker \in Places /\ held[Maker] = NoRef
      /\ free = <<>>
  BY PoolAssumption DEF AcquireNew, Vacant
<1>2. /\ Objects' = Objects \cup {top} /\ top \notin Objects
      /\ owned \in Nat
  BY <1>1 DEF Objects, PoolTypeOK
<1>3. v \in Ref' /\ v # NoRef /\ v.obj = top /\ v.message = 0
  BY <1>2, PoolAssumption, NotNoRef DEF Ref
<1>4. /\ content' \in [Objects' -> 0 .. MaxMade]
      /\ content'[top] = 0 /\ \A o \in Objects : content'[o] = content[o]
  BY <1>1, <1>2, PoolAssumption DEF Objects, PoolTypeOK
<1>5. Refs(top) = {} /\ Deleting(top) = {} /\ top \notin Elements(free)
  BY <1>1, <1>2 DEF PoolTypeOK, Refs, Deleting, Elements
<1> HIDE DEF top, v
<1>6. \A q \in Places : held'[q] = IF q = Maker THEN v ELSE held[q]
  BY <1>1 DEF PoolTypeOK
<1>7. \A o : Refs(o)' = IF o = top THEN {Maker} ELSE Refs(o) \ {Maker}
  BY <1>1, <1>3, <1>5, RefsAfter
<1>8. \A o : Maker \notin Refs(o)
  BY <1>1 DEF Refs
<1>9. \A o : Deleting(o)' = Deleting(o)
  BY <1>1 DEF Deleting
<1>10. PoolTypeOK'
  <2>1. held' \in [Places -> Ref' \cup {NoRef}]
    <3>1. held \in [Places -> Ref' \cup {NoRef}]
      BY <1>2 DEF PoolTypeOK, Ref
    <3> QED BY <1>1, <1>3, <3>1
  <2>3. free' \in Seq(Objects')
    BY <1>1
  <2>4. deleter' \in [Places -> [obj : Objects', reset : BOOLEAN] \cup {NoRef}]
    BY <1>1, <1>2 DEF PoolTypeOK
  <2> QED BY <1>1, <1>4, <2>1, <2>3, <2>4 DEF PoolTypeOK, Ref
<1>11. OneOwner'
  BY <1>1, <1>2, <1>5, <1>7, <1>8, <1>9 DEF OneOwner, Elements
<1>12. ResetBeforeRelease'
  <2>1. Elements(free') = {}
    BY <1>1 DEF Elements
  <2>2. \A p \in Places : deleter[p] # NoRef => deleter[p].obj \in Objects
    BY DEF PoolTypeOK
  <2> QED BY <1>1, <1>4, <2>1, <2>2 DEF ResetBeforeRelease, Elements
<1>13. UnfilledAlone'
  BY <1>2, <1>3, <1>5, <1>6, <1>7, <1>8 DEF UnfilledAlone, Refs
<1>14. MessagesIntact'
  <2> SUFFICES ASSUME NEW p \in Places, held'[p] # NoRef
               PROVE  content'[held'[p].obj] = held'[p].message
    BY DEF MessagesIntact
  <2>1. CASE p = Maker
    BY <1>3, <1>4, <1>6, <2>1
  <2>2. CASE p # Maker
    <3>1. held'[p] = held[p]
      BY <1>6, <2>2
    <3>2. held[p].obj \in Objects /\ content[held[p].obj] = held[p].message
      BY <3>1 DEF MessagesIntact, PoolTypeOK
    <3> QED
      BY <1>4, <3>1, <3>2
  <2> QED
    BY <2>1, <2>2
<1>20. DeleterAlone'
  BY <1>1, <1>6 DEF DeleterAlone, AcquireNew, Vacant
<1> QED BY <1>20, <1>10, <1>11, <1>12, <1>13, <1>14

LEMMA FillStep ==
  ASSUME PoolInv, Fill
  PROVE  PoolInv'
<1> USE DEF PoolInv
<1> DEFINE o1 == held[Maker].obj
           v == [obj |-> o1, message |-> made + 1]
<1>1. /\ Maker \in Places /\ held[Maker] # NoRef /\ held[Maker] \in Ref
      /\ held[Maker].message = 0
      /\ made' = made + 1 /\ made' \in 0 .. MaxMade
      /\ held' = [held EXCEPT ![Maker].message = made + 1]
      /\ content' = [content EXCEPT ![o1] = made + 1]
      /\ UNCHANGED <<owned, free, deleter>>
      /\ o1 \in Objects
  BY PoolAssumption DEF Fill, PoolTypeOK, Ref
<1>2. v \in Ref /\ v # NoRef /\ v.obj = o1 /\ v.message = made + 1 /\ v.message # 0
  BY <1>1, PoolAssumption, NotNoRef DEF Ref, Objects, PoolTypeOK
<1>3. \A q \in Places : held'[q] = IF q = Maker THEN v ELSE held[q]
  <2>1. held'[Maker] = v
    BY <1>1 DEF PoolTypeOK, Ref
  <2> QED BY <1>1, <2>1 DEF PoolTypeOK
<1>4. Refs(o1) = {Maker}
  BY <1>1 DEF UnfilledAlone
<1>5. o1 \notin Elements(free) /\ Deleting(o1) = {}
  BY <1>1, <1>4 DEF OneOwner
<1>6. \A o \in Objects : content'[o] = IF o = o1 THEN made + 1 ELSE content[o]
  BY <1>1 DEF PoolTypeOK
<1> HIDE DEF v
<1>7. \A o : Refs(o)' = Refs(o)
  BY <1>1, <1>2, <1>3 DEF Refs
<1> HIDE DEF o1
<1>8. \A o : Deleting(o)' = Deleting(o)
  BY <1>1 DEF Deleting
<1>9. PoolTypeOK'
  <2>1. \A q \in Places : held'[q] \in Ref \cup {NoRef}
    BY <1>2, <1>3 DEF PoolTypeOK, Ref
  <2>2. held' \in [Places -> Ref \cup {NoRef}]
    BY <1>1, <2>1 DEF PoolTypeOK
  <2>3. content' \in [Objects -> 0 .. MaxMade]
    BY <1>1 DEF PoolTypeOK
  <2> QED BY <1>1, <2>2, <2>3 DEF PoolTypeOK, Ref, Objects
<1>10. OneOwner'
  BY <1>1, <1>7, <1>8 DEF OneOwner, Objects, Elements
<1>11. ResetBeforeRelease'
  <2>1. \A o \in Elements(free) : o \in Objects /\ o # o1
    BY <1>5 DEF Elements, PoolTypeOK
  <2>2. \A p \in Places : deleter[p] # NoRef => deleter[p].obj \in Objects /\ deleter[p].obj # o1
    BY <1>5 DEF Deleting, PoolTypeOK
  <2> QED BY <1>1, <1>6, <2>1, <2>2 DEF ResetBeforeRelease, Elements
<1>12. UnfilledAlone'
  BY <1>2, <1>3, <1>7 DEF UnfilledAlone
<1>13. MessagesIntact'
  <2>1. \A q \in Places : q # Maker /\ held[q] # NoRef => held[q].obj \in Objects /\ held[q].obj # o1
    BY <1>4 DEF Refs, PoolTypeOK
  <2>2. content'[v.obj] = v.message
    BY <1>1, <1>2, <1>6
  <2>3. \A q \in Places : q # Maker /\ held[q] # NoRef => content'[held[q].obj] = held[q].message
    BY <1>6, <2>1 DEF MessagesIntact
  <2> QED BY <1>3, <2>2, <2>3 DEF MessagesIntact
<1>20. DeleterAlone'
  BY <1>1, <1>3 DEF DeleterAlone
<1> QED BY <1>20, <1>9, <1>10, <1>11, <1>12, <1>13

LEMMA ShareStep ==
  ASSUME PoolInv, NEW p \in Places, NEW q \in Places, Share(p, q)
  PROVE  PoolInv'
<1> USE DEF PoolInv
<1> DEFINE v == held[p]
<1>1. /\ held' = [held EXCEPT ![q] = v]
      /\ UNCHANGED <<owned, free, content, deleter, made>>
      /\ v # NoRef /\ v.message # 0 /\ v \in Ref /\ held[q] = NoRef
      /\ content[v.obj] = v.message
  BY DEF Share, Vacant, PoolTypeOK, Ref, MessagesIntact
<1>2. p \in Refs(v.obj) /\ v.obj \in Objects
  BY <1>1 DEF Refs, Ref
<1> HIDE DEF v
<1>3. \A r \in Places : held'[r] = IF r = q THEN v ELSE held[r]
  BY <1>1 DEF PoolTypeOK
<1>4. \A o : Refs(o)' = IF o = v.obj THEN Refs(o) \cup {q} ELSE Refs(o) \ {q}
  BY <1>1, RefsAfter
<1>5. \A o : q \notin Refs(o)
  BY <1>1 DEF Refs
<1>6. \A o : Deleting(o)' = Deleting(o)
  BY <1>1 DEF Deleting
<1>7. PoolTypeOK'
  <2>1. held' \in [Places -> Ref \cup {NoRef}]
    BY <1>1 DEF PoolTypeOK, Ref
  <2> QED BY <1>1, <2>1 DEF PoolTypeOK, Ref, Objects
<1>8. OneOwner'
  <2>1. Objects' = Objects
    BY <1>1 DEF Objects
  <2>2. \A o \in Objects : Refs(o) = {} <=> Refs(o)' = {}
    BY <1>2, <1>4, <1>5
  <2> QED BY <1>1, <1>6, <2>1, <2>2 DEF OneOwner, Elements
<1>9. ResetBeforeRelease'
  BY <1>1 DEF ResetBeforeRelease, Elements
<1>10. UnfilledAlone'
  <2>1. ASSUME NEW r \in Places, NEW o, held'[r] # NoRef, held'[r].message = 0,
               o = held'[r].obj
        PROVE  Refs(o)' = {r}
    <3>1. r # q /\ held'[r] = held[r]
      BY <1>1, <1>3, <2>1
    <3>2. Refs(held[r].obj) = {r}
      BY <2>1, <3>1 DEF UnfilledAlone
    <3>3. held[r].obj # v.obj
      <4>1. CASE p = r
        BY <1>1, <2>1, <3>1, <4>1 DEF v
      <4>2. CASE p # r
        BY <1>2, <3>2, <4>2
      <4> QED BY <4>1, <4>2
    <3> QED BY <1>4, <1>5, <2>1, <3>1, <3>2, <3>3
  <2> QED BY <2>1 DEF UnfilledAlone, Refs
<1>11. MessagesIntact'
  BY <1>1, <1>3 DEF MessagesIntact
<1>20. DeleterAlone'
  BY <1>1, <1>3 DEF DeleterAlone, Share, Vacant
<1> QED BY <1>20, <1>7, <1>8, <1>9, <1>10, <1>11

LEMMA MoveStep ==
  ASSUME PoolInv, NEW p \in Places, NEW q \in Places, Move(p, q)
  PROVE  PoolInv'
<1> USE DEF PoolInv
<1> DEFINE v == held[p]
<1>1. /\ held' = [held EXCEPT ![p] = NoRef, ![q] = v]
      /\ UNCHANGED <<owned, free, content, deleter, made>>
      /\ v # NoRef /\ v.message # 0 /\ v \in Ref /\ held[q] = NoRef /\ p # q
      /\ content[v.obj] = v.message
  BY DEF Move, Vacant, PoolTypeOK, Ref, MessagesIntact
<1>2. p \in Refs(v.obj) /\ v.obj \in Objects
  BY <1>1 DEF Refs, Ref
<1>2a. \A r \in Places : held[r] # NoRef /\ held[r].obj = v.obj => r \in Refs(v.obj)
  BY DEF Refs
<1>2b. held[p] = v
  OBVIOUS
<1> HIDE DEF v
<1>3. \A r \in Places : held'[r] = IF r = q THEN v ELSE IF r = p THEN NoRef ELSE held[r]
  BY <1>1 DEF PoolTypeOK
<1>4. \A o : Refs(o)' = IF o = v.obj THEN (Refs(o) \ {p}) \cup {q} ELSE Refs(o)
  BY <1>1, <1>2b, <1>3 DEF Refs
<1>6. \A o : Deleting(o)' = Deleting(o)
  BY <1>1 DEF Deleting
<1>7. PoolTypeOK'
  <2>1. held' \in [Places -> Ref \cup {NoRef}]
    BY <1>1 DEF PoolTypeOK, Ref
  <2> QED BY <1>1, <2>1 DEF PoolTypeOK, Ref, Objects
<1>8. OneOwner'
  <2>1. Objects' = Objects
    BY <1>1 DEF Objects
  <2>2. \A o \in Objects : Refs(o) = {} <=> Refs(o)' = {}
    BY <1>2, <1>4
  <2> QED BY <1>1, <1>6, <2>1, <2>2 DEF OneOwner, Elements
<1>9. ResetBeforeRelease'
  BY <1>1 DEF ResetBeforeRelease, Elements
<1>10. UnfilledAlone'
  <2>1. ASSUME NEW r \in Places, NEW o, held'[r] # NoRef, held'[r].message = 0,
               o = held'[r].obj
        PROVE  Refs(o)' = {r}
    <3>1. r # q /\ r # p /\ held'[r] = held[r]
      BY <1>1, <1>3, <2>1
    <3>2. Refs(held[r].obj) = {r}
      BY <2>1, <3>1 DEF UnfilledAlone
    <3>3. held[r].obj # v.obj
      BY <1>2, <3>1, <3>2
    <3> QED BY <1>4, <2>1, <3>1, <3>2, <3>3
  <2> QED BY <2>1 DEF UnfilledAlone, Refs
<1>11. MessagesIntact'
  BY <1>1, <1>3 DEF MessagesIntact
<1>20. DeleterAlone'
  BY <1>1, <1>3 DEF DeleterAlone, Move, Vacant
<1> QED BY <1>20, <1>7, <1>8, <1>9, <1>10, <1>11

LEMMA DropStep ==
  ASSUME PoolInv, NEW p \in Places, Drop(p)
  PROVE  PoolInv'
<1> USE DEF PoolInv
<1> DEFINE o1 == held[p].obj
           v == [obj |-> o1, reset |-> FALSE]
<1>1. /\ held' = [held EXCEPT ![p] = NoRef]
      /\ UNCHANGED <<owned, free, content, made>>
      /\ deleter' = IF Refs(o1) = {p} THEN [deleter EXCEPT ![p] = v] ELSE deleter
      /\ held[p] # NoRef /\ o1 \in Objects
  BY DEF Drop, PoolTypeOK
<1>2. v \in Deleter /\ v # NoRef /\ v.obj = o1 /\ ~ v.reset
  <2>1. o1 \in Nat
    BY <1>1 DEF Objects, PoolTypeOK
  <2>2. v # NoRef
    BY <2>1, NotNoRef
  <2> QED BY <1>1, <2>2 DEF Deleter
<1>3. p \in Refs(o1)
  BY <1>1 DEF Refs
<1>4. o1 \notin Elements(free) /\ Deleting(o1) = {}
  BY <1>1, <1>3 DEF OneOwner
<1>5. \A o : p \in Refs(o) => o = o1
  BY DEF Refs
<1> HIDE DEF o1, v
<1>6. \A r \in Places : held'[r] = IF r = p THEN NoRef ELSE held[r]
  BY <1>1 DEF PoolTypeOK
<1>7. \A o : Refs(o)' = Refs(o) \ {p}
  BY <1>1, RefsAfter
<1>8. \A r \in Places : deleter'[r] = IF r = p /\ Refs(o1) = {p} THEN v ELSE deleter[r]
  BY <1>1 DEF PoolTypeOK
<1>9. PoolTypeOK'
  <2>1. held' \in [Places -> Ref \cup {NoRef}]
    BY <1>1 DEF PoolTypeOK, Ref
  <2>2. deleter' \in [Places -> Deleter \cup {NoRef}]
    BY <1>1, <1>2 DEF PoolTypeOK, Deleter
  <2> QED BY <1>1, <2>1, <2>2 DEF PoolTypeOK, Ref, Deleter, Objects
<1>10. Objects' = Objects /\ Elements(free') = Elements(free)
  BY <1>1 DEF Objects, Elements
<1>11. OneOwner'
  <2>1. CASE Refs(o1) = {p}
    <3>1. deleter[p] = NoRef
      BY <1>1 DEF DeleterAlone
    <3>2. \A o : Deleting(o)' = IF o = o1 THEN {p} ELSE Deleting(o)
      <4>1. \A o : p \notin Deleting(o)
        BY <3>1 DEF Deleting
      <4>2. \A o : Deleting(o)' = IF v # NoRef /\ v.obj = o THEN Deleting(o) \cup {p}
                                  ELSE Deleting(o) \ {p}
        BY <1>1, <2>1, DeletingAfter
      <4> QED BY <1>2, <1>4, <4>1, <4>2
    <3>3. \A o \in Objects : IF o = o1 THEN Refs(o)' = {} ELSE Refs(o)' = Refs(o)
      BY <1>5, <1>7, <2>1
    <3> QED BY <1>1, <1>4, <1>10, <3>2, <3>3 DEF OneOwner, Elements
  <2>2. CASE Refs(o1) # {p}
    <3>1. \A o : Deleting(o)' = Deleting(o)
      BY <1>1, <2>2 DEF Deleting
    <3>2. \A o \in Objects : Refs(o)' = {} <=> Refs(o) = {}
      BY <1>3, <1>5, <1>7, <2>2
    <3> QED BY <1>1, <1>10, <3>1, <3>2 DEF OneOwner, Elements
  <2> QED BY <2>1, <2>2
<1>12. ResetBeforeRelease'
  BY <1>1, <1>2, <1>8, <1>10 DEF ResetBeforeRelease
<1>13. UnfilledAlone'
  BY <1>6, <1>7 DEF UnfilledAlone
<1>14. MessagesIntact'
  BY <1>1, <1>6 DEF MessagesIntact
<1>20. DeleterAlone'
  BY <1>6, <1>8 DEF DeleterAlone
<1> QED BY <1>20, <1>9, <1>11, <1>12, <1>13, <1>14

LEMMA ResetStep ==
  ASSUME PoolInv, NEW p \in Places, Reset(p)
  PROVE  PoolInv'
<1> USE DEF PoolInv
<1> DEFINE o1 == deleter[p].obj
           v == [obj |-> o1, reset |-> TRUE]
<1>1. /\ content' = [content EXCEPT ![o1] = 0]
      /\ deleter' = [deleter EXCEPT ![p] = v]
      /\ UNCHANGED <<owned, free, held, made>>
      /\ deleter[p] # NoRef /\ o1 \in Objects
  BY DEF Reset, PoolTypeOK
<1>2. v \in Deleter /\ v # NoRef /\ v.obj = o1
  <2>1. o1 \in Nat
    BY <1>1 DEF Objects, PoolTypeOK
  <2>2. v # NoRef
    BY <2>1, NotNoRef
  <2> QED BY <1>1, <2>2 DEF Deleter
<1>3. p \in Deleting(o1)
  BY <1>1 DEF Deleting
<1>4. Refs(o1) = {}
  BY <1>1, <1>3 DEF OneOwner
<1>5. \A o : p \in Deleting(o) => o = o1
  BY DEF Deleting
<1> HIDE DEF o1, v
<1>6. \A r \in Places : deleter'[r] = IF r = p THEN v ELSE deleter[r]
  BY <1>1 DEF PoolTypeOK
<1>7. \A o : Deleting(o)' = Deleting(o)
  <2>1. \A o : Deleting(o)' = IF v # NoRef /\ v.obj = o THEN Deleting(o) \cup {p}
                              ELSE Deleting(o) \ {p}
    BY <1>1, DeletingAfter
  <2> QED BY <1>2, <1>3, <1>5, <2>1
<1>8. \A o : Refs(o)' = Refs(o)
  BY <1>1 DEF Refs
<1>9. \A o \in Objects : content'[o] = IF o = o1 THEN 0 ELSE content[o]
  BY <1>1 DEF PoolTypeOK
<1>10. PoolTypeOK'
  <2>1. deleter' \in [Places -> Deleter \cup {NoRef}]
    BY <1>1, <1>2 DEF PoolTypeOK, Deleter
  <2>2. content' \in [Objects -> 0 .. MaxMade]
    BY <1>1, PoolAssumption DEF PoolTypeOK
  <2> QED BY <1>1, <2>1, <2>2 DEF PoolTypeOK, Deleter, Objects
<1>11. OneOwner'
  BY <1>1, <1>7, <1>8 DEF OneOwner, Objects, Elements
<1>12. ResetBeforeRelease'
  <2>1. \A o \in Elements(free) : o \in Objects
    BY DEF Elements, PoolTypeOK
  <2>2. \A r \in Places : deleter[r] # NoRef => deleter[r].obj \in Objects
    BY DEF PoolTypeOK
  <2> QED BY <1>1, <1>2, <1>6, <1>9, <2>1, <2>2 DEF ResetBeforeRelease, Elements
<1>13. UnfilledAlone'
  BY <1>1, <1>8 DEF UnfilledAlone
<1>14. MessagesIntact'
  <2>1. \A q \in Places : held[q] # NoRef => held[q].obj \in Objects /\ held[q].obj # o1
    BY <1>4 DEF Refs, PoolTypeOK
  <2> QED BY <1>1, <1>9, <2>1 DEF MessagesIntact
<1>15. DeleterAlone'
  BY <1>1, <1>6 DEF DeleterAlone
<1> QED BY <1>10, <1>11, <1>12, <1>13, <1>14, <1>15

LEMMA ReleaseStep ==
  ASSUME PoolInv, NEW p \in Places, Release(p)
  PROVE  PoolInv'
<1> USE DEF PoolInv
<1> DEFINE o1 == deleter[p].obj
<1>1. /\ free' = Append(free, o1)
      /\ deleter' = [deleter EXCEPT ![p] = NoRef]
      /\ UNCHANGED <<owned, content, held, made>>
      /\ deleter[p] # NoRef /\ o1 \in Objects /\ content[o1] = 0
  BY DEF Release, PoolTypeOK, ResetBeforeRelease
<1>2. p \in Deleting(o1)
  BY <1>1 DEF Deleting
<1>3. /\ o1 \notin Elements(free) /\ Refs(o1) = {} /\ Deleting(o1) = {p}
  BY <1>1, <1>2 DEF OneOwner
<1>4. \A o : p \in Deleting(o) => o = o1
  BY DEF Deleting
<1> HIDE DEF o1
<1>5. /\ free' \in Seq(Objects)
      /\ Elements(free') = Elements(free) \cup {o1}
      /\ \A m, n \in DOMAIN free' : free'[m] = free'[n] => m = n
  <2>1. /\ free \in Seq(Objects) /\ o1 \in Objects /\ o1 \notin Elements(free)
        /\ \A m, n \in DOMAIN free : free[m] = free[n] => m = n
    BY <1>1, <1>3 DEF PoolTypeOK, OneOwner
  <2> QED BY <1>1, <2>1, Pushed
<1>6. \A r \in Places : deleter'[r] = IF r = p THEN NoRef ELSE deleter[r]
  BY <1>1 DEF PoolTypeOK
<1>7. \A o : Deleting(o)' = IF o = o1 THEN {} ELSE Deleting(o)
  <2>1. \A o : Deleting(o)' = Deleting(o) \ {p}
    BY <1>1, DeletingAfter
  <2> QED BY <1>3, <1>4, <2>1
<1>8. \A o : Refs(o)' = Refs(o)
  BY <1>1 DEF Refs
<1>9. PoolTypeOK'
  <2>1. deleter' \in [Places -> Deleter \cup {NoRef}]
    BY <1>1 DEF PoolTypeOK, Deleter
  <2> QED BY <1>1, <1>5, <2>1 DEF PoolTypeOK, Deleter, Objects
<1>10. OneOwner'
  <2>1. Objects' = Objects
    BY <1>1 DEF Objects
  <2>2. \A o \in Objects : o # o1 => (o \in Elements(free') <=> o \in Elements(free))
    BY <1>5
  <2> QED BY <1>3, <1>5, <1>7, <1>8, <2>1, <2>2 DEF OneOwner, Elements
<1>11. ResetBeforeRelease'
  BY <1>1, <1>5, <1>6 DEF ResetBeforeRelease, Elements
<1>12. UnfilledAlone'
  BY <1>1, <1>8 DEF UnfilledAlone
<1>13. MessagesIntact'
  BY <1>1 DEF MessagesIntact
<1>14. DeleterAlone'
  BY <1>1, <1>6 DEF DeleterAlone
<1> QED BY <1>9, <1>10, <1>11, <1>12, <1>13, <1>14

LEMMA PoolStart ==
  ASSUME PoolInit
  PROVE  PoolInv
<1> USE DEF PoolInit
<1>1. /\ free \in Seq(Objects) /\ DOMAIN free = 1 .. Prealloc
      /\ \A n \in 1 .. Prealloc : free[n] = n
  BY PoolAssumption DEF Objects
<1>2. Elements(free) = Objects
  BY <1>1 DEF Elements, Objects
<1>3. PoolTypeOK
  <2>1. owned \in Nat /\ made \in 0 .. MaxMade /\ 0 \in 0 .. MaxMade
    BY PoolAssumption
  <2>2. content \in [Objects -> 0 .. MaxMade]
    BY <2>1 DEF Objects
  <2>3. \A S : held \in [Places -> S \cup {NoRef}] /\ deleter \in [Places -> S \cup {NoRef}]
    OBVIOUS
  <2> QED BY <1>1, <2>1, <2>2, <2>3 DEF PoolTypeOK
<1>4. \A o : Refs(o) = {} /\ Deleting(o) = {}
  BY DEF Refs, Deleting
<1>5. OneOwner
  BY <1>1, <1>2, <1>4 DEF OneOwner
<1>6. ResetBeforeRelease
  BY <1>2 DEF ResetBeforeRelease, Objects
<1> QED BY <1>3, <1>5, <1>6 DEF PoolInv, UnfilledAlone, MessagesIntact, DeleterAlone

LEMMA PoolStepInv ==
  ASSUME PoolInv, [PoolNext]_poolVars
  PROVE  PoolInv'
<1>1. CASE UNCHANGED poolVars
  <2> USE <1>1 DEF poolVars
  <2>1. /\ Objects' = Objects /\ Elements(free)' = Elements(free)
        /\ \A o : Refs(o)' = Refs(o) /\ Deleting(o)' = Deleting(o)
    BY DEF Objects, Elements, Refs, Deleting
  <2>2. PoolTypeOK'
    BY <2>1 DEF PoolInv, PoolTypeOK
  <2>3. DeleterAlone'
    BY <2>1 DEF PoolInv, DeleterAlone
  <2>4. OneOwner'
    BY <2>1 DEF PoolInv, OneOwner
  <2>5. ResetBeforeRelease'
    BY <2>1 DEF PoolInv, ResetBeforeRelease
  <2>6. UnfilledAlone'
    BY <2>1 DEF PoolInv, UnfilledAlone
  <2>7. MessagesIntact'
    BY DEF PoolInv, MessagesIntact
  <2> QED BY <2>2, <2>3, <2>4, <2>5, <2>6, <2>7 DEF PoolInv
<1> QED BY <1>1, AcquireFreeStep, AcquireNewStep, FillStep, ShareStep, MoveStep, DropStep,
           ResetStep, ReleaseStep DEF PoolNext

LEMMA PoolInvariant == PoolSpec => []PoolInv
<1> QED BY PoolStart, PoolStepInv, PTL DEF PoolSpec

-----------------------------------------------------------------------------
(* The theorems.                                                           *)

(* Types; the free list only ever names objects of the pool.               *)
THEOREM PoolTypeCorrect == PoolSpec => []PoolTypeOK
<1>1. PoolInv => PoolTypeOK
  BY DEF PoolInv
<1> QED BY <1>1, PoolInvariant, PTL

(* No message object is handed out twice, released twice or lost.          *)
THEOREM EveryObjectHasOneOwner == PoolSpec => []OneOwner
<1>1. PoolInv => OneOwner
  BY DEF PoolInv
<1> QED BY <1>1, PoolInvariant, PTL

(* Nobody sees a message change, or what an earlier message left.          *)
THEOREM MessagesStayIntact == PoolSpec => []MessagesIntact
<1>1. PoolInv => MessagesIntact
  BY DEF PoolInv
<1> QED BY <1>1, PoolInvariant, PTL

(* Every object that is not free is somewhere, no two of them at the same  *)
(* place, and the maker's place is vacant when the pool grows.             *)
LEMMA GrowthStep ==
  ASSUME PoolInv, PoolBounded, [PoolNext]_poolVars
  PROVE  PoolBounded'
<1>1. owned \in Nat /\ Prealloc \in Nat /\ IsFiniteSet(Places) /\ Maker \in Places
  BY PoolAssumption DEF PoolInv, PoolTypeOK
<1>2. CASE AcquireNew
  <2> DEFINE f == [o \in Objects |-> CHOOSE p \in Places : p \in Refs(o) \cup Deleting(o)]
             Others == Places \ {Maker}
  <2>1. free = <<>> /\ owned' = owned + 1 /\ Vacant(Maker)
    BY <1>2 DEF AcquireNew
  <2>2. \A o \in Objects : f[o] \in Places /\ f[o] \in Refs(o) \cup Deleting(o)
    <3>1. Elements(free) = {}
      BY <2>1 DEF Elements
    <3>2. \A o \in Objects : \E p \in Places : p \in Refs(o) \cup Deleting(o)
      BY <3>1 DEF PoolInv, OneOwner, Refs, Deleting
    <3> QED BY <3>2
  <2> HIDE DEF f
  <2>3. \A o \in Objects : f[o] # Maker
    BY <2>1, <2>2 DEF Vacant, Refs, Deleting
  <2>4. ASSUME NEW o \in Objects, NEW q \in Objects, f[o] = f[q] PROVE o = q
    BY <2>2, <2>4 DEF Refs, Deleting, PoolInv, DeleterAlone
  <2>5. f \in Injection(Objects, Others)
    <3>1. f \in [Objects -> Others]
      BY <2>2, <2>3 DEF f
    <3> QED BY <2>4, <3>1 DEF Injection, IsInjective
  <2>6. IsFiniteSet(Others) /\ Cardinality(Others) = Cardinality(Places) - 1
    BY <1>1, FS_RemoveElement
  <2>7. Cardinality(Objects) = owned
    BY <1>1, FS_Interval DEF Objects
  <2>8. owned <= Cardinality(Places) - 1 /\ Cardinality(Places) \in Nat
    BY <1>1, <2>5, <2>6, <2>7, FS_Injection, FS_CardinalityType
  <2> QED BY <1>1, <2>1, <2>8 DEF PoolBounded, Larger
<1>3. CASE UNCHANGED owned
  BY <1>3 DEF PoolBounded
<1> QED BY <1>2, <1>3 DEF PoolNext, poolVars, AcquireFree, Fill, Share, Move, Drop, Reset, Release

(* However late the deleters are, the pool grows to one object per place   *)
(* that can keep a reference, and no further.                              *)
(* Code: SharedParamPool::acquire.                                         *)
THEOREM PoolStaysBounded == PoolSpec => []PoolBounded
<1>1. PoolInit => PoolBounded
  <2>1. Prealloc \in Nat /\ Cardinality(Places) \in Nat
    BY PoolAssumption, FS_CardinalityType
  <2> QED BY <2>1 DEF PoolInit, PoolBounded, Larger
<1> QED BY <1>1, GrowthStep, PoolInvariant, PTL DEF PoolSpec

-----------------------------------------------------------------------------
(* The flow.  Each of its steps is one of the topic or none, and one of    *)
(* the pool or none; what ties the two together is InTouch.                *)

CellHolds(s, c) ==
  IF ring[s].cell[c] = Null THEN held[<<s, c>>] = NoRef
  ELSE held[<<s, c>>] # NoRef /\ held[<<s, c>>].message = ring[s].cell[c]

(* Cells and readers refer to the objects of the messages the topic says.  *)
InTouch ==
  /\ \A s \in replacing : s \in unsent /\ replacing = {s}
  /\ \A s \in Subscribers, c \in Cells : BeingReplaced(s, c) \/ CellHolds(s, c)
  /\ \A s \in Subscribers, c \in Cells : BeingReplaced(s, c) => held[<<s, c>>] = NoRef
  /\ \A s \in Subscribers : held[s] # NoRef => held[s].message = received[s]
  /\ made = published
  /\ unsent # {} => held[Maker] # NoRef /\ held[Maker].message = published

FlowInv == Inv /\ PoolInv /\ PoolBounded /\ InTouch

(* A place is the publisher's, a subscriber's or a cell.                   *)
LEMMA PlacesApart ==
  /\ Maker \in Places
  /\ \A s \in Subscribers : s \in Places /\ s # Maker
  /\ \A s \in Subscribers, c \in Cells : <<s, c>> \in Places /\ <<s, c>> # Maker
  /\ \A r, s \in Subscribers, c \in Cells : <<s, c>> # r
BY FlowAssumption

LEMMA QueueParts ==
  ASSUME TypeOK, NEW s \in Subscribers
  PROVE  /\ ring[s].head \in Cells /\ ring[s].tail \in Cells
         /\ ring[s].cell \in [Cells -> (1 .. MaxMessage) \cup {Null}]
         /\ After(ring[s].tail) \in Cells
<1>1. ring[s] \in QueueOf(1 .. MaxMessage)
  BY DEF TypeOK
<1>2. ring[s].head \in Cells /\ ring[s].tail \in Cells
      /\ ring[s].cell \in [Cells -> (1 .. MaxMessage) \cup {Null}]
  BY <1>1 DEF QueueOf
<1>3. After(ring[s].tail) \in Cells
  BY <1>2, AfterStep, CapacityAssumption DEF Cells
<1> QED BY <1>2, <1>3

LEMMA FlowStart == FlowInit => FlowInv
<1> SUFFICES ASSUME FlowInit PROVE FlowInv
  OBVIOUS
<1>1. Inv
  BY InitImplements DEF FlowInit
<1>2. PoolInv
  BY PoolStart DEF FlowInit
<1>3. PoolBounded
  <2>1. Prealloc \in Nat /\ Cardinality(Places) \in Nat
    BY PoolAssumption, FS_CardinalityType
  <2> QED BY <2>1 DEF FlowInit, PoolInit, PoolBounded, Larger
<1>4. InTouch
  BY PlacesApart DEF InTouch, FlowInit, Init, PoolInit, EmptyQueue, CellHolds, BeingReplaced
<1> QED BY <1>1, <1>2, <1>3, <1>4 DEF FlowInv

(* Each step of the flow, seen from the topic and from the pool.           *)
LEMMA StepsOfParts ==
  ASSUME TypeOK, [FlowNext]_flowVars
  PROVE  [Next]_vars /\ [PoolNext]_poolVars
<1>1. CASE Acquire
  BY <1>1 DEF Acquire, PoolNext
<1>2. CASE Begin
  BY <1>2 DEF Begin, Next, PoolNext
<1>3. ASSUME NEW s \in Subscribers, Replace(s)
      PROVE  [Next]_vars /\ [PoolNext]_poolVars
  BY <1>3, PlacesApart, QueueParts DEF Replace, PoolNext
<1>4. ASSUME NEW s \in Subscribers, Put(s)
      PROVE  [Next]_vars /\ [PoolNext]_poolVars
  BY <1>4, PlacesApart, QueueParts DEF Put, PoolNext, Next
<1>5. ASSUME NEW s \in Subscribers, Take(s)
      PROVE  [Next]_vars /\ [PoolNext]_poolVars
  BY <1>5, PlacesApart, QueueParts DEF Take, PoolNext, Next
<1>6. ASSUME NEW p \in {Maker} \cup Subscribers, LetGo(p)
      PROVE  [Next]_vars /\ [PoolNext]_poolVars
  BY <1>6, FlowAssumption DEF LetGo, PoolNext
<1>7. ASSUME NEW p \in Places, Delete(p)
      PROVE  [Next]_vars /\ [PoolNext]_poolVars
  BY <1>7 DEF Delete, PoolNext
<1>8. CASE UNCHANGED flowVars
  BY <1>8 DEF flowVars
<1> QED BY <1>1, <1>2, <1>3, <1>4, <1>5, <1>6, <1>7, <1>8 DEF FlowNext

(* Steps that leave cells, readers and the topic as they are.              *)
LEMMA MakerStep ==
  ASSUME InTouch, PoolTypeOK, Acquire \/ Begin \/ LetGo(Maker)
  PROVE  InTouch'
<1>1. \A p \in Places : p # Maker => held'[p] = held[p]
  BY DEF PoolTypeOK, Acquire, AcquireFree, AcquireNew, Begin, Fill, LetGo, Drop
<1>2. /\ \A s \in Subscribers : held'[s] = held[s]
      /\ \A s \in Subscribers, c \in Cells : held'[<<s, c>>] = held[<<s, c>>]
  BY <1>1, PlacesApart
<1>3. ring' = ring /\ received' = received /\ replacing' = replacing
  BY DEF Acquire, Begin, Publish, LetGo, vars
<1>4. /\ \A s \in Subscribers, c \in Cells : BeingReplaced(s, c)' = BeingReplaced(s, c)
      /\ \A s \in Subscribers, c \in Cells : CellHolds(s, c)' = CellHolds(s, c)
  BY <1>2, <1>3 DEF BeingReplaced, CellHolds
<1>5. unsent = {} /\ replacing = {}
  BY DEF InTouch, Acquire, Begin, Publish, LetGo
<1>6. made' = published'
  BY DEF InTouch, Acquire, AcquireFree, AcquireNew, Begin, Fill, Publish, LetGo, Drop, vars
<1>7. unsent' # {} => held'[Maker] # NoRef /\ held'[Maker].message = published'
  <2>1. CASE Acquire \/ LetGo(Maker)
    BY <1>5, <2>1 DEF Acquire, LetGo, vars
  <2>2. CASE Begin
    <3>1. /\ held' = [held EXCEPT ![Maker].message = made + 1]
          /\ Maker \in Places /\ held[Maker] \in Ref /\ made \in 0 .. MaxMade /\ made < MaxMade
      BY <2>2, PoolAssumption DEF Begin, Fill, PoolTypeOK, Ref
    <3>2. held'[Maker] = [obj |-> held[Maker].obj, message |-> made + 1]
      BY <3>1 DEF PoolTypeOK, Ref
    <3>3. held'[Maker] # NoRef
      BY <3>1, <3>2, NotNoRef, PoolAssumption DEF Ref, Objects
    <3> QED BY <2>2, <3>2, <3>3 DEF Begin, Publish, InTouch
  <2> QED BY <2>1, <2>2
<1> QED BY <1>2, <1>3, <1>4, <1>5, <1>6, <1>7 DEF InTouch

LEMMA ReplaceStep ==
  ASSUME InTouch, TypeOK, PoolTypeOK, NEW s \in Subscribers, Replace(s)
  PROVE  InTouch'
<1> DEFINE cell == <<s, ring[s].tail>>
<1>1. ring[s].tail \in Cells
  BY QueueParts
<1>2. /\ s \in unsent /\ replacing = {} /\ replacing' = {s}
      /\ UNCHANGED <<published, unsent, ring, received, made>>
      /\ held' = [held EXCEPT ![cell] = NoRef]
  BY DEF Replace, Drop, vars
<1>3. cell \in Places /\ cell # Maker
  BY <1>1, PlacesApart
<1>4. \A p \in Places : held'[p] = IF p = cell THEN NoRef ELSE held[p]
  BY <1>2, <1>3 DEF PoolTypeOK
<1>5. \A r \in Subscribers : held'[r] = held[r]
  BY <1>1, <1>4, PlacesApart
<1>6. \A r \in Subscribers, c \in Cells :
        /\ BeingReplaced(r, c)' <=> r = s /\ c = ring[s].tail
        /\ ~ BeingReplaced(r, c)
        /\ held'[<<r, c>>] = IF r = s /\ c = ring[s].tail THEN NoRef ELSE held[<<r, c>>]
  BY <1>1, <1>2, <1>4, PlacesApart DEF BeingReplaced
<1>7. ASSUME NEW r \in Subscribers, NEW c \in Cells
      PROVE  BeingReplaced(r, c)' \/ CellHolds(r, c)'
  <2>1. CellHolds(r, c)
    BY <1>6 DEF InTouch
  <2>2. CASE r = s /\ c = ring[s].tail
    BY <1>6, <2>2
  <2>3. CASE ~ (r = s /\ c = ring[s].tail)
    BY <1>2, <1>6, <2>1, <2>3 DEF CellHolds
  <2> QED BY <2>2, <2>3
<1>8. held'[Maker] = held[Maker]
  BY <1>3, <1>4, PoolAssumption
<1> QED BY <1>2, <1>5, <1>6, <1>7, <1>8 DEF InTouch

LEMMA PutStep ==
  ASSUME InTouch, TypeOK, PoolTypeOK, NEW s \in Subscribers, Put(s)
  PROVE  InTouch'
<1> DEFINE t == ring[s].tail
           cell == <<s, t>>
           v == held[Maker]
<1>1. t \in Cells /\ ring[s].cell \in [Cells -> (1 .. MaxMessage) \cup {Null}]
  BY QueueParts
<1>2. /\ s \in unsent /\ replacing \subseteq {s} /\ replacing' = {}
      /\ unsent' = unsent \ {s}
      /\ UNCHANGED <<published, received, made>>
      /\ ring' = [ring EXCEPT ![s] = PushReplace(@, published)]
      /\ held' = [held EXCEPT ![cell] = v]
      /\ v # NoRef /\ v.message # 0
  BY DEF Put, Share, Send
<1>3. v.message = published /\ published # Null
  <2>1. v.message = published
    BY <1>2 DEF InTouch
  <2> QED BY <1>2, <2>1, TopicAssumption DEF TypeOK
<1>4. cell \in Places /\ cell # Maker
  BY <1>1, PlacesApart
<1>5. \A p \in Places : held'[p] = IF p = cell THEN v ELSE held[p]
  BY <1>2, <1>4 DEF PoolTypeOK
<1>6. /\ \A r \in Subscribers : held'[r] = held[r]
      /\ held'[Maker] = v
  BY <1>1, <1>4, <1>5, PlacesApart, PoolAssumption
<1>7. /\ ring'[s].cell = [ring[s].cell EXCEPT ![t] = published]
      /\ \A r \in Subscribers : r # s => ring'[r] = ring[r]
  BY <1>2 DEF PushReplace, TypeOK
<1>8. ASSUME NEW r \in Subscribers, NEW c \in Cells
      PROVE  ~ BeingReplaced(r, c)' /\ CellHolds(r, c)'
  <2>1. ~ BeingReplaced(r, c)'
    BY <1>2 DEF BeingReplaced
  <2>2. CASE r = s /\ c = t
    <3>1. ring'[r].cell[c] = published /\ held'[<<r, c>>] = v
      BY <1>1, <1>4, <1>5, <1>7, <2>2
    <3> QED BY <1>2, <1>3, <2>1, <3>1 DEF CellHolds
  <2>3. CASE ~ (r = s /\ c = t)
    <3>1. held'[<<r, c>>] = held[<<r, c>>]
      BY <1>1, <1>5, <2>3, PlacesApart
    <3>2. ring'[r].cell[c] = ring[r].cell[c]
      BY <1>1, <1>7, <2>3
    <3>3. ~ BeingReplaced(r, c)
      BY <1>2, <2>3 DEF BeingReplaced
    <3>4. CellHolds(r, c)
      BY <3>3 DEF InTouch
    <3> QED BY <2>1, <3>1, <3>2, <3>4 DEF CellHolds
  <2> QED BY <2>2, <2>3
<1> QED BY <1>2, <1>3, <1>6, <1>8 DEF InTouch

LEMMA TakeStep ==
  ASSUME InTouch, TypeOK, PoolTypeOK, NEW s \in Subscribers, Take(s)
  PROVE  InTouch'
<1> DEFINE h == ring[s].head
           cell == <<s, h>>
           v == held[cell]
<1>1. h \in Cells /\ ring[s].cell \in [Cells -> (1 .. MaxMessage) \cup {Null}]
  BY QueueParts
<1>2. /\ s \notin replacing /\ replacing' = replacing
      /\ UNCHANGED <<published, unsent, made>>
      /\ ring' = [ring EXCEPT ![s] = Pop(@)]
      /\ received' = [received EXCEPT ![s] = Front(ring[s])]
      /\ held' = [held EXCEPT ![cell] = NoRef, ![s] = v]
      /\ v # NoRef
  BY DEF Take, Move, Receive
<1>3. cell \in Places /\ cell # Maker /\ cell # s /\ s \in Places /\ s # Maker
  BY <1>1, PlacesApart
<1>4. \A p \in Places : held'[p] = IF p = s THEN v ELSE IF p = cell THEN NoRef ELSE held[p]
  BY <1>2, <1>3 DEF PoolTypeOK
<1>5. v.message = ring[s].cell[h]
  BY <1>1, <1>2 DEF InTouch, CellHolds, BeingReplaced
<1>6. /\ ring'[s].cell = [ring[s].cell EXCEPT ![h] = Null]
      /\ ring'[s].tail = ring[s].tail
      /\ \A r \in Subscribers : r # s => ring'[r] = ring[r]
      /\ \A r \in Subscribers : received'[r] = IF r = s THEN ring[s].cell[h] ELSE received[r]
  BY <1>2 DEF Pop, Front, TypeOK
<1>7. \A r \in Subscribers : held'[r] # NoRef => held'[r].message = received'[r]
  BY <1>1, <1>3, <1>4, <1>5, <1>6, PlacesApart DEF InTouch
<1>8. ASSUME NEW r \in Subscribers, NEW c \in Cells
      PROVE  /\ BeingReplaced(r, c)' \/ CellHolds(r, c)'
             /\ BeingReplaced(r, c)' => held'[<<r, c>>] = NoRef
  <2>1. BeingReplaced(r, c)' = BeingReplaced(r, c)
    BY <1>2, <1>6 DEF BeingReplaced
  <2>2. CASE r = s /\ c = h
    <3>1. ring'[r].cell[c] = Null /\ held'[<<r, c>>] = NoRef
      BY <1>1, <1>3, <1>4, <1>6, <2>2
    <3> QED BY <3>1 DEF CellHolds
  <2>3. CASE ~ (r = s /\ c = h)
    <3>1. held'[<<r, c>>] = held[<<r, c>>]
      BY <1>1, <1>4, <2>3, PlacesApart
    <3>2. ring'[r].cell[c] = ring[r].cell[c]
      BY <1>1, <1>6, <2>3
    <3> QED BY <2>1, <3>1, <3>2 DEF CellHolds, InTouch
  <2> QED BY <2>2, <2>3
<1>9. held'[Maker] = held[Maker]
  BY <1>3, <1>4, PoolAssumption
<1> QED BY <1>2, <1>7, <1>8, <1>9 DEF InTouch

(* A subscriber lets its message go, or a deleter runs.                    *)
LEMMA LeaveStep ==
  ASSUME InTouch, PoolTypeOK,
         (\E s \in Subscribers : LetGo(s)) \/ (\E p \in Places : Delete(p))
  PROVE  InTouch'
<1>1. UNCHANGED <<published, unsent, ring, received, made, replacing>>
  BY DEF LetGo, Drop, Delete, Reset, Release, vars
<1>2. /\ held'[Maker] = held[Maker]
      /\ \A r \in Subscribers : held'[r] \in {held[r], NoRef}
      /\ \A r \in Subscribers, c \in Cells : held'[<<r, c>>] = held[<<r, c>>]
  <2>1. ASSUME NEW s \in Subscribers, LetGo(s)
        PROVE  \A p \in Places : held'[p] = IF p = s THEN NoRef ELSE held[p]
    BY <2>1, FlowAssumption DEF LetGo, Drop, PoolTypeOK
  <2>2. ASSUME NEW p \in Places, Delete(p) PROVE held' = held
    BY <2>2 DEF Delete, Reset, Release
  <2> QED BY <2>1, <2>2, PlacesApart, FlowAssumption
<1>3. \A r \in Subscribers, c \in Cells :
        BeingReplaced(r, c)' = BeingReplaced(r, c) /\ CellHolds(r, c)' = CellHolds(r, c)
  BY <1>1, <1>2 DEF BeingReplaced, CellHolds
<1> QED BY <1>1, <1>2, <1>3 DEF InTouch

LEMMA FlowStep ==
  ASSUME FlowInv, [FlowNext]_flowVars
  PROVE  FlowInv'
<1>1. TypeOK /\ PoolTypeOK /\ InTouch
  BY DEF FlowInv, Inv, PoolInv
<1>2. [Next]_vars /\ [PoolNext]_poolVars
  BY <1>1, StepsOfParts
<1>3. Inv'
  BY <1>2, StepImplements DEF FlowInv
<1>4. PoolInv' /\ PoolBounded'
  BY <1>2, PoolStepInv, GrowthStep DEF FlowInv
<1>5. InTouch'
  <2>1. CASE UNCHANGED flowVars
    BY <1>1, <2>1 DEF flowVars, vars, poolVars, InTouch, BeingReplaced, CellHolds
  <2> QED BY <1>1, <2>1, MakerStep, ReplaceStep, PutStep, TakeStep, LeaveStep DEF FlowNext
<1> QED BY <1>3, <1>4, <1>5 DEF FlowInv

(* Every subscriber reads the message that was sent under the number its   *)
(* queue says, for any capacity, any pool and any interleaving of sends,   *)
(* receives and deleters.                                                  *)
(* Code: SharedParamPool under the ring buffers of a topic.                *)
THEOREM ReadersSeeWhatWasSent == FlowSpec => []ReadAsSent
<1>1. FlowInit => FlowInv
  BY FlowStart
<1>2. FlowInv /\ [FlowNext]_flowVars => FlowInv'
  BY FlowStep
<1>3. FlowInv => ReadAsSent
  BY PlacesApart DEF FlowInv, PoolInv, MessagesIntact, InTouch, CellHolds, ReadAsSent
<1> QED BY <1>1, <1>2, <1>3, PTL DEF FlowSpec

(* The topic and the pool keep what they promise when they work together:  *)
(* each step of the flow is a step of either, or leaves it alone.          *)
(* Code: pubTopicValue, subTopicValue and acquire interleaved.             *)
THEOREM PartsKeepTheirPromises == FlowSpec => Spec /\ PoolSpec
<1>1. FlowInit => Init /\ PoolInit
  BY DEF FlowInit
<1>2. FlowInit => FlowInv
  BY FlowStart
<1>3. FlowInv /\ [FlowNext]_flowVars => FlowInv' /\ [Next]_vars /\ [PoolNext]_poolVars
  BY FlowStep, StepsOfParts DEF FlowInv, Inv
<1> QED BY <1>1, <1>2, <1>3, PTL DEF FlowSpec, Spec, PoolSpec

=============================================================================
