-------------------------- MODULE SerialLinkProofs --------------------------
(***************************************************************************)
(* Theorems about SerialLink, for every size of headers, payloads and      *)
(* checksums, every number of frames, of flaws and of failures.            *)
(*                                                                         *)
(* The argument: what the parser has, what the kernel has and what is on   *)
(* the line is one stream, in which frames and the positions in them only  *)
(* go up.  A frame that is published ends where the rest of the stream     *)
(* begins, so all that comes later is of later frames.                     *)
(*                                                                         *)
(* That no frame is missed needs to know where the parser is among the     *)
(* bytes carried: see the second part.                                     *)
(***************************************************************************)
EXTENDS SerialLink, SequenceTheorems, TLAPS

\* The bytes of s are of frames that were sent, within their length.
Known(s) ==
  \A i \in DOMAIN s :
    /\ s[i].frame <= Len(sent)
    /\ s[i].pos <= FrameSize(sent[s[i].frame].kind.len)

\* Byte a was put on the line before byte b.
Before(a, b) == a.frame < b.frame \/ (a.frame = b.frame /\ a.pos < b.pos)

Sorted(s) == \A i, j \in DOMAIN s : i < j => Before(s[i], s[j])

Follows(s, t) == \A i \in DOMAIN s : \A j \in DOMAIN t : Before(s[i], t[j])

\* No frame published has bytes in s.
Fresh(s) == \A m \in DOMAIN published : \A i \in DOMAIN s : published[m].frame < s[i].frame

\* The ways a header can be right.
Headed == want = "body" => (got[1].pos = 1 \/ sent[got[1].frame].mimic # NoHeader)

Stream ==
  /\ sent \in Seq(Sent) /\ Len(sent) <= MaxFrame
  /\ line \in Seq(Byte) /\ input \in Seq(Byte) /\ got \in Seq(Byte)
  /\ Known(line) /\ Known(input) /\ Known(got)
  /\ Sorted(line) /\ Sorted(input)
  /\ Follows(got, input) /\ Follows(got, line) /\ Follows(input, line)

Parser ==
  /\ want \in {"sof", "header", "body"}
  /\ want # "sof" => got # <<>>
  /\ Headed
  /\ Len(got) <= Total

Output ==
  /\ sequence \in Nat /\ sequence = Len(published)
  /\ published \in Seq(Message)
  /\ \A m \in DOMAIN published : published[m].frame <= Len(sent)
  /\ Fresh(line) /\ Fresh(input) /\ Fresh(got)
  /\ PublishedAsSent

Control ==
  /\ flaws \in Nat /\ fails \in Nat
  /\ device \in {"up", "gone"}
  /\ fd \in {"closed", "open", "failing", "hungup"}
  /\ pc \in {"opening", "reading", "polling", "sleeping", "returned"}
  /\ pending \in BOOLEAN /\ stop \in BOOLEAN
  /\ since \in Nat

IInv == Stream /\ Parser /\ Output /\ Control

LEMMA IInvImplies == ASSUME IInv PROVE TypeOK /\ PublishedAsSent
  BY DEF IInv, Stream, Parser, Output, Control, TypeOK

-----------------------------------------------------------------------------
(* Pieces of sequences.                                                    *)

LEMMA Split == ASSUME NEW S, NEW s \in Seq(S), NEW n \in 0 .. Len(s)
               PROVE  /\ SubSeq(s, 1, n) \in Seq(S) /\ Len(SubSeq(s, 1, n)) = n
                      /\ \A i \in DOMAIN SubSeq(s, 1, n) :
                           i \in DOMAIN s /\ i \in 1 .. n /\ SubSeq(s, 1, n)[i] = s[i]
                      /\ SubSeq(s, n + 1, Len(s)) \in Seq(S)
                      /\ Len(SubSeq(s, n + 1, Len(s))) = Len(s) - n
                      /\ \A i \in DOMAIN SubSeq(s, n + 1, Len(s)) :
                           /\ i \in Nat \ {0} /\ n + i \in DOMAIN s
                           /\ SubSeq(s, n + 1, Len(s))[i] = s[n + i]
<1> DEFINE front == SubSeq(s, 1, n)
           back == SubSeq(s, n + 1, Len(s))
<1>1. Len(s) \in Nat /\ DOMAIN s = 1 .. Len(s) /\ \A i \in 1 .. Len(s) : s[i] \in S
  BY LenProperties, ElementOfSeq
<1>2. front \in Seq(S) /\ Len(front) = n /\ \A i \in 1 .. n : front[i] = s[i]
  <2>1. \A i \in 1 .. n : s[i] \in S
    BY <1>1
  <2> QED
    BY <1>1, <2>1, SubSeqProperties
<1>3. /\ back \in Seq(S)
      /\ Len(back) = IF n + 1 <= Len(s) THEN Len(s) - (n + 1) + 1 ELSE 0
      /\ \A i \in 1 .. Len(s) - (n + 1) + 1 : back[i] = s[n + 1 + i - 1]
  <2>1. \A i \in n + 1 .. Len(s) : s[i] \in S
    BY <1>1
  <2>2. n + 1 \in Int /\ Len(s) \in Int
    BY <1>1
  <2> QED
    BY <2>1, <2>2, SubSeqProperties
<1>4. DOMAIN front = 1 .. n /\ DOMAIN back = 1 .. Len(back)
  BY <1>2, <1>3, LenProperties
<1> HIDE DEF front, back
<1>5. Len(back) = Len(s) - n
  <2>1. CASE n + 1 <= Len(s)
    BY <1>1, <1>3, <2>1
  <2>2. CASE n = Len(s)
    BY <1>1, <1>3, <2>2
  <2>3. n + 1 <= Len(s) \/ n = Len(s)
    <3>1. \A l \in Nat : n \in 0 .. l => n + 1 <= l \/ n = l
      OBVIOUS
    <3> QED
      BY <1>1, <3>1
  <2> QED
    BY <2>1, <2>2, <2>3
<1>6. \A i \in DOMAIN front : i \in DOMAIN s /\ i \in 1 .. n /\ front[i] = s[i]
  BY <1>1, <1>2, <1>4
<1>7. \A i \in DOMAIN back :
        i \in Nat \ {0} /\ n + i \in DOMAIN s /\ back[i] = s[n + i]
  <2> SUFFICES ASSUME NEW i \in DOMAIN back
               PROVE  i \in Nat \ {0} /\ n + i \in DOMAIN s /\ back[i] = s[n + i]
    OBVIOUS
  <2>1. i \in 1 .. Len(s) - n
    BY <1>4, <1>5
  <2>2. i \in 1 .. Len(s) - (n + 1) + 1 /\ n + 1 + i - 1 = n + i
    BY <1>1, <2>1
  <2>3. back[i] = s[n + i]
    BY <1>3, <2>2
  <2> QED
    BY <1>1, <2>1, <2>3
<1> QED
  BY <1>2, <1>3, <1>5, <1>6, <1>7 DEF front, back

LEMMA Joins == ASSUME NEW S, NEW a \in Seq(S), NEW b \in Seq(S)
               PROVE  /\ a \o b \in Seq(S) /\ Len(a \o b) = Len(a) + Len(b)
                      /\ \A i \in DOMAIN (a \o b) :
                           \/ i \in DOMAIN a /\ (a \o b)[i] = a[i]
                           \/ /\ i - Len(a) \in DOMAIN b /\ i - Len(a) \in Nat
                              /\ (a \o b)[i] = b[i - Len(a)]
<1>1. Len(a) \in Nat /\ Len(b) \in Nat /\ DOMAIN a = 1 .. Len(a) /\ DOMAIN b = 1 .. Len(b)
  BY LenProperties
<1>2. /\ a \o b \in Seq(S) /\ Len(a \o b) = Len(a) + Len(b)
      /\ \A i \in 1 .. Len(a) + Len(b) :
           (a \o b)[i] = IF i <= Len(a) THEN a[i] ELSE b[i - Len(a)]
  BY ConcatProperties
<1>3. DOMAIN (a \o b) = 1 .. Len(a) + Len(b)
  BY <1>2, LenProperties
<1> QED
  BY <1>1, <1>2, <1>3

-----------------------------------------------------------------------------
(* The stream: what is sent, lost, moved on and read.                      *)

LEMMA Sizes == /\ HeaderSize \in Nat \ {0, 1} /\ CrcSize \in Nat \ {0}
               /\ Lengths \subseteq Nat /\ MaxFrame \in Nat
               /\ \A n \in Nat : FrameSize(n) \in Nat /\ FrameSize(n) >= HeaderSize
  BY SerialAssumption DEF Lengths, FrameSize

LEMMA SentTypes == ASSUME sent \in Seq(Sent), NEW k \in DOMAIN sent
                   PROVE  /\ sent[k] \in Sent /\ sent[k].kind.len \in Nat
                          /\ sent[k].mimic \in Lengths \cup {NoHeader}
<1>1. sent[k] \in Sent
  BY ElementOfSeq, LenProperties
<1> QED
  BY <1>1, SerialAssumption DEF Sent

LEMMA ByteTypes == ASSUME NEW s \in Seq(Byte)
                   PROVE  /\ Len(s) \in Nat /\ DOMAIN s = 1 .. Len(s)
                          /\ \A i \in DOMAIN s : /\ s[i] \in Byte
                                                 /\ s[i].frame \in Nat \ {0}
                                                 /\ s[i].pos \in Nat \ {0}
<1>1. Len(s) \in Nat /\ DOMAIN s = 1 .. Len(s) /\ \A i \in 1 .. Len(s) : s[i] \in Byte
  BY LenProperties, ElementOfSeq
<1>2. \A b \in Byte : b.frame \in Nat \ {0} /\ b.pos \in Nat \ {0}
  <2>1. 1 .. MaxFrame \subseteq Nat \ {0}
    BY Sizes
  <2> QED
    BY <2>1 DEF Byte
<1> QED
  BY <1>1, <1>2

\* What Damaged and RightBytes are made of: bytes of one frame, in order.
LEMMA CarriageTypes ==
  ASSUME sent \in Seq(Sent), Len(sent) < MaxFrame, NEW len \in Nat, NEW at,
         flaws \in Nat, NEW c \in Carriages(len, at)
  PROVE  /\ c.bytes \in Seq(Byte) /\ Sorted(c.bytes) /\ c.flaws \in Nat
         /\ \A i \in DOMAIN c.bytes :
              c.bytes[i].frame = Len(sent) + 1 /\ c.bytes[i].pos <= FrameSize(len)
<1> DEFINE k == Len(sent) + 1
           Good(s) == /\ s \in Seq(Byte) /\ Sorted(s)
                      /\ \A i \in DOMAIN s : s[i].frame = k /\ s[i].pos <= FrameSize(len)
           right == RightBytes(len)
<1>1. Len(sent) \in Nat /\ k \in 1 .. MaxFrame /\ FrameSize(len) \in Nat
  <2>1. Len(sent) \in Nat /\ MaxFrame \in Nat
    BY Sizes, LenProperties
  <2>2. k \in 1 .. MaxFrame
    BY <2>1
  <2> QED
    BY <2>1, <2>2, Sizes
<1>2. /\ right \in Seq(Byte) /\ DOMAIN right = 1 .. FrameSize(len) /\ Len(right) = FrameSize(len)
      /\ \A i \in DOMAIN right : right[i] = [frame |-> k, pos |-> i, value |-> "right"]
  <2>1. right = [i \in 1 .. FrameSize(len) |-> [frame |-> k, pos |-> i, value |-> "right"]]
    BY DEF RightBytes
  <2>2. \A i \in 1 .. FrameSize(len) : [frame |-> k, pos |-> i, value |-> "right"] \in Byte
    BY <1>1 DEF Byte
  <2>3. right \in Seq(Byte)
    BY <1>1, <2>1, <2>2, IsASeq
  <2> QED
    BY <1>1, <2>1, <2>3, LenProperties
<1> HIDE DEF right, k
<1>3. Good(right)
  BY <1>1, <1>2 DEF Sorted, Before
<1>4. ASSUME NEW i \in 1 .. Len(right), NEW j \in i .. Len(right)
      PROVE  Good(Cut(right, i, j))
  <2> DEFINE a == SubSeq(right, 1, i - 1)
             b == SubSeq(right, j + 1, Len(right))
  <2>1. /\ a \in Seq(Byte) /\ Len(a) = i - 1
        /\ \A n \in DOMAIN a : n \in DOMAIN right /\ n \in 1 .. i - 1 /\ a[n] = right[n]
    <3>1. i - 1 \in 0 .. Len(right)
      BY <1>1, <1>2
    <3> QED
      BY <1>2, <3>1, Split
  <2>2. /\ b \in Seq(Byte)
        /\ \A n \in DOMAIN b : /\ n \in Nat \ {0} /\ j + n \in DOMAIN right
                               /\ b[n] = right[j + n]
    <3>1. j \in 0 .. Len(right)
      BY <1>1, <1>2
    <3> QED
      BY <1>2, <3>1, Split
  <2> HIDE DEF a, b
  <2> DEFINE ab == a \o b
  <2> HIDE DEF ab
  <2>0. a \in Seq(Byte) /\ b \in Seq(Byte)
    BY <2>1, <2>2
  <2>3. /\ a \o b \in Seq(Byte)
        /\ \A n \in DOMAIN (a \o b) :
             \/ n \in DOMAIN a /\ (a \o b)[n] = a[n]
             \/ /\ n - Len(a) \in DOMAIN b /\ n - Len(a) \in Nat
                /\ (a \o b)[n] = b[n - Len(a)]
    BY <2>0, Joins
  <2>4. ab \in Seq(Byte) /\ DOMAIN ab \subseteq Nat
    BY <2>3, LenProperties DEF ab
  <2>5. \A n \in DOMAIN ab :
          \/ n \in 1 .. i - 1 /\ n \in DOMAIN right /\ ab[n] = right[n]
          \/ /\ n - (i - 1) \in Nat \ {0} /\ j + (n - (i - 1)) \in DOMAIN right
             /\ ab[n] = right[j + (n - (i - 1))]
    BY <2>1, <2>2, <2>3 DEF ab
  <2>6. \A n \in DOMAIN ab : /\ ab[n].frame = k /\ ab[n].pos \in 1 .. FrameSize(len)
                             /\ ab[n].pos = IF n <= i - 1 THEN n ELSE j + (n - (i - 1))
    <3> SUFFICES ASSUME NEW n \in DOMAIN ab
                 PROVE  /\ ab[n].frame = k /\ ab[n].pos \in 1 .. FrameSize(len)
                        /\ ab[n].pos = IF n <= i - 1 THEN n ELSE j + (n - (i - 1))
      OBVIOUS
    <3>1. CASE n \in 1 .. i - 1 /\ n \in DOMAIN right /\ ab[n] = right[n]
      BY <1>1, <1>2, <3>1
    <3>2. CASE /\ n - (i - 1) \in Nat \ {0} /\ j + (n - (i - 1)) \in DOMAIN right
               /\ ab[n] = right[j + (n - (i - 1))]
      <4>1. n \in Nat /\ i \in Nat
        BY <1>1, <1>2, <2>4
      <4>2. ~ (n <= i - 1)
        BY <3>2, <4>1
      <4>3. ab[n] = [frame |-> k, pos |-> j + (n - (i - 1)), value |-> "right"]
        BY <1>2, <3>2
      <4>4. j + (n - (i - 1)) \in 1 .. FrameSize(len)
        BY <1>2, <3>2
      <4> QED
        BY <4>2, <4>3, <4>4
    <3> QED
      BY <2>5, <3>1, <3>2
  <2>7. Sorted(ab)
    <3> SUFFICES ASSUME NEW m \in DOMAIN ab, NEW n \in DOMAIN ab, m < n
                 PROVE  Before(ab[m], ab[n])
      BY DEF Sorted
    <3>1. i \in Nat /\ j \in Nat /\ i <= j /\ m \in Nat /\ n \in Nat
      BY <1>1, <1>2, <2>4
    <3>2. /\ ab[m].pos = IF m <= i - 1 THEN m ELSE j + (m - (i - 1))
          /\ ab[n].pos = IF n <= i - 1 THEN n ELSE j + (n - (i - 1))
          /\ ab[m].frame = ab[n].frame
      BY <2>6
    <3>3. ab[m].pos < ab[n].pos
      BY <3>1, <3>2
    <3> QED
      BY <3>2, <3>3 DEF Before
  <2>8. Good(ab)
    BY <1>1, <2>4, <2>6, <2>7
  <2> QED
    BY <2>8 DEF ab, a, b, Cut
<1>5. ASSUME NEW i \in 1 .. Len(right), NEW v \in {"wrong", "sof"}
      PROVE  Good(Changed(right, i, v))
  <2> DEFINE s == [right EXCEPT ![i].value = v]
  <2>1. s = [right EXCEPT ![i] = [right[i] EXCEPT !.value = v]]
    OBVIOUS
  <2>2. i \in DOMAIN right /\ right[i] = [frame |-> k, pos |-> i, value |-> "right"]
    BY <1>2
  <2>3. [right[i] EXCEPT !.value = v] = [frame |-> k, pos |-> i, value |-> v]
    BY <2>2
  <2>4. [frame |-> k, pos |-> i, value |-> v] \in Byte
    BY <1>1, <1>2, <2>2 DEF Byte
  <2>5. /\ s \in Seq(Byte) /\ DOMAIN s = DOMAIN right
        /\ \A n \in DOMAIN s : s[n].frame = k /\ s[n].pos = n
    BY <1>2, <2>1, <2>2, <2>3, <2>4, ExceptSeq
  <2> HIDE DEF s
  <2> QED
    BY <1>1, <1>2, <2>5 DEF Sorted, Before, s, Changed
<1>6. \A s \in Damaged(right) : Good(s)
  <2> SUFFICES ASSUME NEW s \in Damaged(right) PROVE Good(s)
    OBVIOUS
  <2> HIDE DEF Good
  <2>1. 1 \in 1 .. Len(right) /\ 2 .. Len(right) \subseteq 1 .. Len(right)
    <3>1. HeaderSize \in Nat \ {0, 1} /\ FrameSize(len) \in Nat /\ FrameSize(len) >= HeaderSize
      BY Sizes
    <3>2. Len(right) = FrameSize(len)
      BY <1>2
    <3>3. Len(right) \in Nat /\ Len(right) >= HeaderSize
      BY <3>1, <3>2
    <3>4. Len(right) >= 2
      BY <3>1, <3>3
    <3> QED
      BY <3>3, <3>4
  <2>2. CASE s \in UNION {{Cut(right, i, j) : j \in i .. Len(right)} : i \in 1 .. Len(right)}
    BY <1>4, <2>2
  <2>3. CASE s \in {Changed(right, i, "wrong") : i \in 1 .. Len(right)}
    BY <1>5, <2>3
  <2>4. CASE s \in {Changed(right, i, "sof") : i \in 2 .. Len(right)}
    <3>1. PICK i \in 2 .. Len(right) : s = Changed(right, i, "sof")
      BY <2>4
    <3>2. i \in 1 .. Len(right)
      BY <2>1
    <3> QED
      BY <1>5, <3>1, <3>2
  <2> QED
    BY <2>2, <2>3, <2>4, Zenon DEF Damaged
<1>7. Good(c.bytes) /\ c.flaws \in Nat
  BY <1>3, <1>6 DEF Carriages, right
<1> QED
  BY <1>7 DEF k

-----------------------------------------------------------------------------
(* The steps on the stream.                                                *)

LEMMA EmptyStream == /\ <<>> \in Seq(Byte) /\ Len(<<>>) = 0 /\ DOMAIN <<>> = {}
                     /\ Sorted(<<>>) /\ Known(<<>>) /\ Known(<<>>)'
                     /\ \A s : Follows(s, <<>>) /\ Follows(<<>>, s)
<1>1. <<>> \in Seq(Byte) /\ Len(<<>>) = 0 /\ DOMAIN <<>> = {}
  BY EmptySeq
<1> QED
  BY <1>1 DEF Sorted, Known, Follows

\* Anything may be thrown away.
LEMMA DropBytes == ASSUME Stream, sent' = sent, line' \in {line, <<>>},
                          input' \in {input, <<>>}, got' \in {got, <<>>}
                   PROVE  Stream'
  BY EmptyStream DEF Stream, Known, Sorted, Follows

LEMMA ReadStream == ASSUME Stream, ReadSome, Missing \in Int
                    PROVE  Stream' /\ Len(got') = Len(got) + Smaller(Missing, Len(input))
                           /\ (got # <<>> => got' # <<>> /\ got'[1] = got[1])
                           /\ (Fresh(got) /\ Fresh(input) /\ UNCHANGED published
                               => Fresh(got)' /\ Fresh(input)')
<1> DEFINE n == Smaller(Missing, Len(input))
           a == SubSeq(input, 1, n)
           b == SubSeq(input, n + 1, Len(input))
<1>1. Missing > 0 /\ input # <<>> /\ sent' = sent /\ line' = line /\ input' = b /\ got' = got \o a
  BY DEF ReadSome, lineVars
<1>2. /\ input \in Seq(Byte) /\ line \in Seq(Byte) /\ got \in Seq(Byte)
      /\ Len(input) \in Nat \ {0} /\ Len(got) \in Nat
  BY <1>1, ByteTypes, EmptySeq DEF Stream
<1>3. n \in 0 .. Len(input)
  BY <1>1, <1>2 DEF Smaller
<1> HIDE DEF n
<1>4. /\ a \in Seq(Byte) /\ Len(a) = n
      /\ \A i \in DOMAIN a : i \in DOMAIN input /\ i \in 1 .. n /\ a[i] = input[i]
      /\ b \in Seq(Byte)
      /\ \A i \in DOMAIN b : i \in Nat \ {0} /\ n + i \in DOMAIN input /\ b[i] = input[n + i]
  BY <1>2, <1>3, Split
<1> HIDE DEF a, b
<1>5. /\ got' \in Seq(Byte) /\ Len(got') = Len(got) + n
      /\ \A i \in DOMAIN got' :
           \/ i \in DOMAIN got /\ got'[i] = got[i]
           \/ i - Len(got) \in DOMAIN a /\ got'[i] = a[i - Len(got)]
  <2>1. a \in Seq(Byte) /\ Len(a) = n
    BY <1>4
  <2>2. /\ got \o a \in Seq(Byte) /\ Len(got \o a) = Len(got) + Len(a)
        /\ \A i \in DOMAIN (got \o a) :
             \/ i \in DOMAIN got /\ (got \o a)[i] = got[i]
             \/ i - Len(got) \in DOMAIN a /\ (got \o a)[i] = a[i - Len(got)]
    BY <1>2, <2>1, Joins
  <2> QED
    BY <1>1, <2>1, <2>2
<1>6. \A i \in DOMAIN got' :
        (\E j \in DOMAIN got : got'[i] = got[j])
        \/ (\E j \in DOMAIN input : j <= n /\ got'[i] = input[j])
  BY <1>4, <1>5
<1>7. \A i \in DOMAIN input' : \E j \in DOMAIN input : j > n /\ input'[i] = input[j]
  BY <1>1, <1>3, <1>4
<1>8. Known(line)' /\ Known(input)' /\ Known(got)'
  <2>1. Known(line) /\ Known(input) /\ Known(got)
    BY DEF Stream
  <2>2. Known(line)'
    BY <1>1, <2>1 DEF Known
  <2>3. Known(input)'
    BY <1>1, <1>7, <2>1 DEF Known
  <2>4. Known(got)'
    BY <1>1, <1>6, <2>1 DEF Known
  <2> QED
    BY <2>2, <2>3, <2>4
<1>9. Sorted(line)' /\ Sorted(input)'
  <2>1. ASSUME NEW i \in DOMAIN b, NEW j \in DOMAIN b, i < j PROVE Before(b[i], b[j])
    BY <1>3, <1>4, <2>1 DEF Stream, Sorted
  <2> QED
    BY <1>1, <2>1 DEF Stream, Sorted
<1>10. Follows(got, input)'
  <2>1. ASSUME NEW i \in DOMAIN got', NEW j \in DOMAIN input'
        PROVE  Before(got'[i], input'[j])
    <3>1. PICK k \in DOMAIN input : k > n /\ input'[j] = input[k]
      BY <1>7
    <3>2. CASE \E m \in DOMAIN got : got'[i] = got[m]
      BY <3>1, <3>2 DEF Stream, Follows
    <3>3. CASE \E m \in DOMAIN input : m <= n /\ got'[i] = input[m]
      <4>1. PICK m \in DOMAIN input : m <= n /\ got'[i] = input[m]
        BY <3>3
      <4>2. m < k
        BY <1>2, <1>3, <3>1, <4>1, ByteTypes
      <4> QED
        BY <3>1, <4>1, <4>2 DEF Stream, Sorted
    <3> QED
      BY <1>6, <3>2, <3>3
  <2> QED
    BY <2>1 DEF Follows, Before
<1>11. Follows(got, line)' /\ Follows(input, line)'
  <2>1. ASSUME NEW i \in DOMAIN got', NEW j \in DOMAIN line PROVE Before(got'[i], line[j])
    <3>1. CASE \E m \in DOMAIN got : got'[i] = got[m]
      BY <3>1 DEF Stream, Follows
    <3>2. CASE \E m \in DOMAIN input : m <= n /\ got'[i] = input[m]
      BY <3>2 DEF Stream, Follows
    <3> QED
      BY <1>6, <3>1, <3>2
  <2>2. ASSUME NEW i \in DOMAIN input', NEW j \in DOMAIN line PROVE Before(input'[i], line[j])
    BY <1>7 DEF Stream, Follows
  <2> QED
    BY <1>1, <2>1, <2>2 DEF Follows, Before
<1>12. got # <<>> => got' # <<>> /\ got'[1] = got[1]
  <2> SUFFICES ASSUME got # <<>> PROVE got' # <<>> /\ got'[1] = got[1]
    OBVIOUS
  <2>1. Len(got) \in Nat \ {0} /\ Len(a) \in Nat
    BY <1>2, <1>3, <1>4, EmptySeq
  <2>2. /\ Len(got \o a) = Len(got) + Len(a) /\ got \o a \in Seq(Byte)
        /\ \A i \in 1 .. Len(got) + Len(a) :
             (got \o a)[i] = IF i <= Len(got) THEN got[i] ELSE a[i - Len(got)]
    <3>1. got \in Seq(Byte) /\ a \in Seq(Byte)
      BY <1>2, <1>4
    <3> QED
      BY <3>1, ConcatProperties
  <2>3. 1 \in 1 .. Len(got) + Len(a) /\ 1 <= Len(got)
    BY <2>1
  <2>4. (got \o a)[1] = got[1] /\ Len(got \o a) # 0
    BY <2>1, <2>2, <2>3
  <2> QED
    BY <1>1, <2>4, EmptySeq
<1>13. Fresh(got) /\ Fresh(input) /\ UNCHANGED published => Fresh(got)' /\ Fresh(input)'
  BY <1>6, <1>7 DEF Fresh
<1> QED
  BY <1>1, <1>2, <1>4, <1>5, <1>8, <1>9, <1>10, <1>11, <1>12, <1>13 DEF Stream, n

LEMMA ArriveStream == ASSUME Stream, Arrive
                      PROVE  Stream' /\ (Fresh(input) /\ Fresh(line) /\ UNCHANGED published
                                         => Fresh(input)' /\ Fresh(line)')
<1>1. /\ line # <<>> /\ line' = Tail(line) /\ UNCHANGED <<sent, got>>
      /\ input' = input \/ input' = Append(input, Head(line))
  BY DEF Arrive, parserVars
<1>2. line \in Seq(Byte) /\ input \in Seq(Byte) /\ got \in Seq(Byte)
  BY DEF Stream
<1>3. /\ Head(line) = line[1] /\ Head(line) \in Byte /\ 1 \in DOMAIN line
      /\ line' \in Seq(Byte)
      /\ \A i \in DOMAIN line' : i \in Nat \ {0} /\ i + 1 \in DOMAIN line /\ line'[i] = line[i + 1]
  BY <1>1, <1>2, HeadTailProperties, LenProperties, EmptySeq
<1>4. /\ input' \in Seq(Byte)
      /\ \A i \in DOMAIN input' : \/ i \in DOMAIN input /\ input'[i] = input[i]
                                  \/ input'[i] = line[1] /\ i = Len(input) + 1
      /\ \A i \in DOMAIN input : i < Len(input) + 1
      /\ \A i \in DOMAIN input' : i \in Nat /\ i <= Len(input) + 1
  <2>1. Append(input, Head(line)) \in Seq(Byte)
        /\ Len(Append(input, Head(line))) = Len(input) + 1
        /\ \A i \in 1 .. Len(input) : Append(input, Head(line))[i] = input[i]
        /\ Append(input, Head(line))[Len(input) + 1] = Head(line)
    BY <1>2, <1>3, AppendProperties
  <2>2. /\ DOMAIN Append(input, Head(line)) = 1 .. Len(input) + 1
        /\ DOMAIN input = 1 .. Len(input) /\ Len(input) \in Nat
    BY <1>2, <2>1, LenProperties
  <2>3. CASE input' = input
    BY <1>2, <2>2, <2>3
  <2>4. CASE input' = Append(input, Head(line))
    BY <1>3, <2>1, <2>2, <2>4
  <2> QED
    BY <1>1, <2>3, <2>4
<1>5. Known(line)' /\ Known(input)' /\ Known(got)'
  BY <1>1, <1>3, <1>4 DEF Stream, Known
<1>6. Sorted(line)'
  <2>1. ASSUME NEW i \in DOMAIN line', NEW j \in DOMAIN line', i < j
        PROVE  Before(line'[i], line'[j])
    <3>1. /\ i + 1 \in DOMAIN line /\ line'[i] = line[i + 1]
          /\ j + 1 \in DOMAIN line /\ line'[j] = line[j + 1]
      BY <1>3
    <3>2. i + 1 < j + 1
      BY <1>3, <2>1
    <3>3. Sorted(line)
      BY DEF Stream
    <3> QED
      BY <3>1, <3>2, <3>3 DEF Sorted
  <2> QED
    BY <2>1 DEF Sorted, Before
<1>7. Sorted(input)'
  <2>1. ASSUME NEW i \in DOMAIN input', NEW j \in DOMAIN input', i < j
        PROVE  Before(input'[i], input'[j])
    <3>1. i \in DOMAIN input /\ input'[i] = input[i]
      <4>1. Len(input) \in Nat
        BY <1>2, LenProperties
      <4>2. i # Len(input) + 1
        BY <1>4, <2>1, <4>1
      <4> QED
        BY <1>4, <4>2
    <3>2. CASE j \in DOMAIN input /\ input'[j] = input[j]
      BY <2>1, <3>1, <3>2 DEF Stream, Sorted
    <3>3. CASE input'[j] = line[1]
      BY <1>3, <3>1, <3>3 DEF Stream, Follows
    <3> QED
      BY <1>4, <3>2, <3>3
  <2> QED
    BY <2>1 DEF Sorted, Before
<1>8. Follows(got, line)' /\ Follows(got, input)'
  <2>1. ASSUME NEW i \in DOMAIN got, NEW j \in DOMAIN line' PROVE Before(got[i], line'[j])
    BY <1>3 DEF Stream, Follows
  <2>2. ASSUME NEW i \in DOMAIN got, NEW j \in DOMAIN input' PROVE Before(got[i], input'[j])
    BY <1>3, <1>4 DEF Stream, Follows
  <2> QED
    BY <1>1, <2>1, <2>2 DEF Follows, Before
<1>9. Follows(input, line)'
  <2>1. ASSUME NEW i \in DOMAIN input', NEW j \in DOMAIN line'
        PROVE  Before(input'[i], line'[j])
    <3>1. j + 1 \in DOMAIN line /\ 1 < j + 1 /\ line'[j] = line[j + 1]
      BY <1>3
    <3>2. Before(line[1], line[j + 1])
      BY <1>3, <3>1 DEF Stream, Sorted
    <3> QED
      BY <1>4, <3>1, <3>2 DEF Stream, Follows
  <2> QED
    BY <2>1 DEF Follows, Before
<1> QED
  BY <1>1, <1>2, <1>3, <1>4, <1>5, <1>6, <1>7, <1>8, <1>9 DEF Stream, Fresh

LEMMA SendStream ==
  ASSUME Stream, flaws \in Nat, Send
  PROVE  /\ Stream' /\ flaws' \in Nat
         /\ Len(sent') = Len(sent) + 1 /\ Len(sent) \in Nat
         /\ \A k \in DOMAIN sent : k \in DOMAIN sent' /\ sent'[k] = sent[k]
         /\ \A i \in DOMAIN line' : line'[i].frame = Len(sent) + 1
<1>1. PICK kind \in Kinds, mimic \in Lengths \cup {NoHeader} :
        \E at \in {0} \cup (HeaderSize + 1) .. FrameSize(kind.len) :
          \E c \in Carriages(kind.len, at) : SendFrame(kind, at, mimic, c)
  BY DEF Send
<1>2. PICK at \in {0} \cup (HeaderSize + 1) .. FrameSize(kind.len) :
        \E c \in Carriages(kind.len, at) : SendFrame(kind, at, mimic, c)
  BY <1>1
<1>3. PICK c \in Carriages(kind.len, at) : SendFrame(kind, at, mimic, c)
  BY <1>2
<1>4. /\ line = <<>> /\ Len(sent) < MaxFrame /\ UNCHANGED <<input, got>>
      /\ line' = c.bytes /\ flaws' = flaws + c.flaws
  BY <1>3 DEF Send, SendFrame, parserVars
<1>5. kind.len \in Nat /\ at \in Nat
  BY SerialAssumption, Sizes
<1>6. /\ sent \in Seq(Sent) /\ Len(sent) \in Nat /\ input \in Seq(Byte) /\ got \in Seq(Byte)
      /\ DOMAIN sent = 1 .. Len(sent)
  BY LenProperties DEF Stream
<1>7. /\ line' \in Seq(Byte) /\ Sorted(line') /\ flaws' \in Nat
      /\ \A i \in DOMAIN line' :
           line'[i].frame = Len(sent) + 1 /\ line'[i].pos <= FrameSize(kind.len)
  <2>1. /\ c.bytes \in Seq(Byte) /\ Sorted(c.bytes) /\ c.flaws \in Nat
        /\ \A i \in DOMAIN c.bytes :
             c.bytes[i].frame = Len(sent) + 1 /\ c.bytes[i].pos <= FrameSize(kind.len)
    BY <1>4, <1>5, <1>6, CarriageTypes
  <2> QED
    BY <1>4, <2>1
<1> DEFINE new == [kind |-> kind, at |-> at, mimic |-> mimic,
                   whole |-> c.bytes = RightBytes(kind.len),
                   from |-> Carried, to |-> Carried + Len(c.bytes)]
<1>8. sent' = Append(sent, new)
  BY <1>3 DEF SendFrame
<1>9. new \in Sent /\ new.kind = kind
  <2>1. Carried \in Nat
    <3>1. CASE sent = <<>>
      BY <3>1 DEF Carried
    <3>2. CASE sent # <<>>
      <4>1. Len(sent) \in DOMAIN sent
        BY <1>6, <3>2, EmptySeq
      <4>2. sent[Len(sent)] \in Sent
        BY <1>6, <4>1, SentTypes
      <4> QED
        BY <3>2, <4>2 DEF Carried, Sent
    <3> QED
      BY <3>1, <3>2
  <2>2. Len(c.bytes) \in Nat
    BY <1>4, <1>7, LenProperties
  <2> QED
    BY <1>5, <2>1, <2>2 DEF Sent
<1> HIDE DEF new
<1>10. /\ sent' \in Seq(Sent) /\ Len(sent') = Len(sent) + 1
       /\ sent'[Len(sent) + 1] = new
       /\ \A k \in DOMAIN sent : k \in DOMAIN sent' /\ sent'[k] = sent[k]
  <2>1. /\ sent' \in Seq(Sent) /\ Len(sent') = Len(sent) + 1
        /\ \A k \in 1 .. Len(sent) : sent'[k] = sent[k]
        /\ sent'[Len(sent) + 1] = new
    BY <1>6, <1>8, <1>9, AppendProperties
  <2>2. DOMAIN sent' = 1 .. Len(sent) + 1
    BY <2>1, LenProperties
  <2> QED
    BY <1>6, <2>1, <2>2
<1>11. Known(line)'
  BY <1>6, <1>7, <1>9, <1>10 DEF Known
<1>12. Known(input)' /\ Known(got)'
  <2>1. ASSUME NEW s \in Seq(Byte), Known(s)
        PROVE  \A i \in DOMAIN s : /\ s[i].frame <= Len(sent')
                                   /\ s[i].pos <= FrameSize(sent'[s[i].frame].kind.len)
    <3> SUFFICES ASSUME NEW i \in DOMAIN s
                 PROVE  /\ s[i].frame <= Len(sent')
                        /\ s[i].pos <= FrameSize(sent'[s[i].frame].kind.len)
      OBVIOUS
    <3>1. s[i].frame \in Nat \ {0}
      BY ByteTypes
    <3>2. s[i].frame <= Len(sent) /\ s[i].pos <= FrameSize(sent[s[i].frame].kind.len)
      BY <2>1 DEF Known
    <3>3. s[i].frame \in DOMAIN sent
      BY <1>6, <3>1, <3>2
    <3> QED
      BY <1>6, <1>10, <3>1, <3>2, <3>3
  <2> QED
    BY <1>4, <1>6, <2>1 DEF Stream, Known
<1>13. ASSUME NEW s \in Seq(Byte), Known(s) PROVE Follows(s, line')
  <2>1. ASSUME NEW i \in DOMAIN s, NEW j \in DOMAIN line' PROVE Before(s[i], line'[j])
    <3>1. s[i].frame \in Nat /\ s[i].frame <= Len(sent)
      BY <1>13, ByteTypes DEF Known
    <3> QED
      BY <1>6, <1>7, <3>1 DEF Before
  <2> QED
    BY <2>1 DEF Follows
<1>14. Follows(got, line)' /\ Follows(input, line)' /\ Follows(got, input)'
  <2>1. Known(got) /\ Known(input) /\ Follows(got, input)
    BY DEF Stream
  <2>2. got' = got /\ input' = input
    BY <1>4
  <2>3. Follows(got, line') /\ Follows(input, line')
    BY <1>6, <1>13, <2>1
  <2> QED
    BY <2>1, <2>2, <2>3 DEF Follows, Before
<1>15. Len(sent') <= MaxFrame
  BY <1>4, <1>6, <1>10, Sizes
<1>16. Sorted(line)' /\ Sorted(input)'
  BY <1>4, <1>7 DEF Stream, Sorted, Before
<1> QED
  BY <1>4, <1>6, <1>7, <1>10, <1>11, <1>12, <1>14, <1>15, <1>16 DEF Stream

-----------------------------------------------------------------------------
(* The steps of the parser.                                                *)

LEMMA GotFrame == ASSUME Stream, got # <<>>
                  PROVE  /\ 1 \in DOMAIN got /\ got[1] \in Byte /\ got[1].frame \in DOMAIN sent
                         /\ sent[got[1].frame].kind.len \in Nat
                         /\ got[1].frame \in Nat /\ got[1].frame <= Len(sent)
<1>1. Len(got) \in Nat \ {0} /\ DOMAIN got = 1 .. Len(got) /\ got \in Seq(Byte)
  BY ByteTypes, EmptySeq DEF Stream
<1>2. 1 \in DOMAIN got
  BY <1>1
<1>3. got[1] \in Byte /\ got[1].frame \in Nat \ {0} /\ got[1].frame <= Len(sent)
  BY <1>1, <1>2, ByteTypes DEF Stream, Known
<1>4. got[1].frame \in DOMAIN sent
  BY <1>3, LenProperties DEF Stream
<1> QED
  BY <1>2, <1>3, <1>4, SentTypes DEF Stream

\* How much is missing only depends on the first byte.
LEMMA Totals == ASSUME Stream, Parser
                PROVE  /\ Total \in Nat /\ Len(got) \in Nat /\ Missing \in Nat
                       /\ (want = "body" => HeaderLen \in Nat /\ Total = FrameSize(HeaderLen))
<1>1. Len(got) \in Nat
  BY ByteTypes DEF Stream
<1>2. CASE want = "body"
  <2>1. got # <<>>
    BY <1>2 DEF Parser
  <2>2. HeaderLen \in Nat
    <3>1. sent[got[1].frame].mimic \in Lengths \cup {NoHeader}
      BY <2>1, GotFrame, SentTypes DEF Stream
    <3> QED
      BY <1>2, <2>1, <3>1, GotFrame, Sizes DEF HeaderLen, Parser, Headed
  <2>3. Total = FrameSize(HeaderLen)
    BY <1>2 DEF Total
  <2>4. Total \in Nat
    BY <2>2, <2>3, Sizes
  <2>5. Len(got) <= Total
    BY DEF Parser
  <2>6. Missing \in Nat
    BY <1>1, <2>4, <2>5 DEF Missing
  <2> QED
    BY <1>1, <2>2, <2>3, <2>4, <2>6
<1>3. CASE want = "sof"
  BY <1>1, <1>3 DEF Total, Missing, Parser
<1>4. CASE want = "header"
  BY <1>1, <1>4, Sizes DEF Total, Missing, Parser
<1> QED
  BY <1>2, <1>3, <1>4 DEF Parser

\* The parser is not touched by what happens outside, and starts afresh.
LEMMA ParserKept == ASSUME Parser, Stream, UNCHANGED parserVars,
                           \A k \in DOMAIN sent : k \in DOMAIN sent' /\ sent'[k] = sent[k]
                    PROVE  Parser'
<1>1. UNCHANGED <<want, got>>
  BY DEF parserVars
<1>2. got # <<>> => got[1].frame \in DOMAIN sent
  BY GotFrame
<1>3. want = "body" => HeaderLen' = HeaderLen /\ Headed'
  BY <1>1, <1>2 DEF Parser, Headed, HeaderLen
<1>4. Total' = Total
  BY <1>1, <1>3 DEF Total, FrameSize, Parser
<1> QED
  BY <1>1, <1>3, <1>4 DEF Parser, Headed

LEMMA ParserCleared == ASSUME got' = <<>>, want' = "sof" PROVE Parser'
  BY EmptySeq DEF Parser, Headed, Total

LEMMA ParserReads == ASSUME Stream, Parser, ReadSome PROVE Parser'
<1>1. Missing \in Nat /\ Total \in Nat /\ Len(got) \in Nat /\ Missing = Total - Len(got)
  BY Totals DEF Missing
<1>2. Len(input) \in Nat
  BY ByteTypes DEF Stream
<1>3. /\ Len(got') = Len(got) + Smaller(Missing, Len(input))
      /\ got # <<>> => got' # <<>> /\ got'[1] = got[1]
  BY <1>1, ReadStream
<1>4. want' = want /\ sent' = sent
  BY DEF ReadSome, lineVars
<1>5. want = "body" => HeaderLen' = HeaderLen /\ Headed'
  BY <1>3, <1>4 DEF Parser, Headed, HeaderLen
<1>6. Total' = Total
  BY <1>4, <1>5 DEF Total, FrameSize, Parser
<1>7. Smaller(Missing, Len(input)) \in Nat /\ Smaller(Missing, Len(input)) <= Missing
  BY <1>1, <1>2 DEF Smaller
<1>8. Len(got') <= Total'
  BY <1>1, <1>3, <1>6, <1>7
<1> QED
  BY <1>3, <1>4, <1>5, <1>8 DEF Parser, Headed

LEMMA ParserAdvances == ASSUME Stream, Parser, TakeSof \/ TakeHeader
                        PROVE  Parser' /\ UNCHANGED <<sent, line, input, got>>
<1>1. /\ UNCHANGED <<sent, line, input, got>> /\ Missing = 0
      /\ Total \in Nat /\ Len(got) \in Nat /\ Len(got) = Total
  BY Totals DEF TakeSof, TakeHeader, Resume, Missing, lineVars
<1>2. CASE TakeSof
  <2>1. want = "sof" /\ want' = "header" /\ Total = 1 /\ Total' = HeaderSize
    BY <1>2 DEF TakeSof, Resume, Total
  <2>2. got # <<>> /\ Len(got) <= HeaderSize
    <3>1. Len(got) = 1 /\ 1 <= HeaderSize
      BY <1>1, <2>1, Sizes
    <3> QED
      BY <3>1, EmptySeq
  <2> QED
    BY <1>1, <2>1, <2>2 DEF Parser, Headed
<1>3. CASE TakeHeader
  <2>1. want = "header" /\ want' = "body" /\ Total = HeaderSize /\ HeaderRight(got)
    BY <1>3 DEF TakeHeader, Resume, Total
  <2>2. Headed'
    BY <1>1, <2>1 DEF HeaderRight, Headed
  <2>3. Total' = FrameSize(HeaderLen)
    BY <1>1, <2>1 DEF Total, HeaderLen, FrameSize
  <2>4. got # <<>>
    BY <2>1 DEF Parser
  <2>5. HeaderLen \in Nat
    <3>1. sent[got[1].frame].mimic \in Lengths \cup {NoHeader}
      BY <2>4, GotFrame, SentTypes DEF Stream
    <3> QED
      BY <2>1, <2>4, <3>1, GotFrame, Sizes DEF HeaderLen, HeaderRight
  <2> QED
    BY <1>1, <2>1, <2>2, <2>3, <2>4, <2>5, Sizes DEF Parser
<1> QED
  BY <1>1, <1>2, <1>3

LEMMA OutputKept ==
  ASSUME Output, UNCHANGED outVars, Len(sent) \in Nat, Len(sent') \in Nat,
         Len(sent) <= Len(sent'), Fresh(line)', Fresh(input)', Fresh(got)'
  PROVE  Output'
<1>1. UNCHANGED <<sequence, published>>
  BY DEF outVars
<1>2. \A m \in DOMAIN published : published[m].frame \in Nat
  <2>1. \A m \in DOMAIN published : published[m] \in Message
    BY ElementOfSeq, LenProperties DEF Output
  <2> QED
    BY <2>1, Sizes DEF Message
<1> QED
  BY <1>1, <1>2 DEF Output, PublishedAsSent

\* All that follows a whole frame in the stream is of later frames.
LEMMA RestIsLater == ASSUME Stream, got # <<>>, FrameRight(got),
                            NEW s \in Seq(Byte), Known(s), Follows(got, s)
                     PROVE  \A i \in DOMAIN s : got[1].frame < s[i].frame
<1> DEFINE last == Len(got)
<1>1. last \in DOMAIN got /\ last \in Nat \ {0} /\ got \in Seq(Byte)
  BY ByteTypes, EmptySeq DEF Stream
<1>2. /\ got[last].frame = got[1].frame
      /\ got[last].pos = FrameSize(sent[got[1].frame].kind.len)
  BY <1>1 DEF FrameRight, OnePiece
<1> SUFFICES ASSUME NEW i \in DOMAIN s PROVE got[1].frame < s[i].frame
  OBVIOUS
<1>3. Before(got[last], s[i])
  BY <1>1 DEF Follows
<1>4. s[i].pos <= FrameSize(sent[s[i].frame].kind.len) /\ s[i].pos \in Nat
  BY ByteTypes DEF Known
<1>5. FrameSize(sent[got[1].frame].kind.len) \in Nat
  BY GotFrame, Sizes
<1> QED
  BY <1>2, <1>3, <1>4, <1>5 DEF Before

LEMMA OutputPublishes == ASSUME Stream, Parser, Output, TakeFrame PROVE Output'
<1>1. /\ want = "body" /\ got # <<>> /\ FrameRight(got)
      /\ UNCHANGED <<sent, line, input>> /\ got' = <<>>
  BY DEF TakeFrame, Resume, Parser, lineVars
<1>2. Fresh(got)'
  BY <1>1, EmptySeq DEF Fresh
<1>3. Len(sent) \in Nat /\ line \in Seq(Byte) /\ input \in Seq(Byte)
  BY LenProperties DEF Stream
<1>4. CASE UNCHANGED outVars
  BY <1>1, <1>2, <1>3, <1>4, OutputKept DEF Output, Fresh, outVars
<1>5. CASE /\ sequence' = sequence + 1
           /\ published' = Append(published, [frame |-> got[1].frame,
                                              sequence |-> sequence + 1,
                                              whole |-> FrameRight(got)])
  <2> DEFINE msg == [frame |-> got[1].frame, sequence |-> sequence + 1, whole |-> FrameRight(got)]
  <2>1. /\ published \in Seq(Message) /\ sequence \in Nat /\ sequence = Len(published)
        /\ DOMAIN published = 1 .. Len(published) /\ Len(published) \in Nat
    BY LenProperties DEF Output
  <2>2. /\ msg \in Message /\ msg.frame = got[1].frame /\ msg.sequence = Len(published) + 1
        /\ msg.whole
    <3>1. got[1] \in Byte
      BY <1>1, GotFrame
    <3>2. FrameRight(got) \in BOOLEAN
      BY DEF FrameRight, OnePiece
    <3> QED
      BY <1>1, <2>1, <3>1, <3>2 DEF Message, Byte
  <2> HIDE DEF msg
  <2>3. /\ published' \in Seq(Message) /\ Len(published') = Len(published) + 1
        /\ DOMAIN published' = 1 .. Len(published) + 1
        /\ \A m \in 1 .. Len(published) : published'[m] = published[m]
        /\ published'[Len(published) + 1] = msg
    <3>1. published' = Append(published, msg)
      BY <1>5 DEF msg
    <3>2. /\ published' \in Seq(Message) /\ Len(published') = Len(published) + 1
          /\ \A m \in 1 .. Len(published) : published'[m] = published[m]
          /\ published'[Len(published) + 1] = msg
      BY <2>1, <2>2, <3>1, AppendProperties
    <3> QED
      BY <3>2, LenProperties
  <2>4. \A m \in DOMAIN published' : m \in DOMAIN published \/ m = Len(published) + 1
    BY <2>1, <2>3
  <2>5. \A m \in DOMAIN published' : published'[m].frame <= Len(sent')
    BY <1>1, <2>1, <2>2, <2>3, <2>4, GotFrame DEF Output
  <2>6. ASSUME NEW s \in Seq(Byte), Known(s), Follows(got, s), Fresh(s)
        PROVE  \A m \in DOMAIN published' : \A i \in DOMAIN s : published'[m].frame < s[i].frame
    BY <1>1, <2>1, <2>2, <2>3, <2>4, <2>6, RestIsLater DEF Fresh
  <2>7. Fresh(line)' /\ Fresh(input)'
    BY <1>1, <1>3, <2>6 DEF Stream, Output, Fresh
  <2>8. PublishedAsSent'
    <3> SUFFICES ASSUME NEW m \in DOMAIN published'
                 PROVE  /\ published'[m].whole
                        /\ published'[m].sequence = m
                        /\ \A n \in 1 .. m - 1 : published'[n].frame < published'[m].frame
      BY DEF PublishedAsSent
    <3>1. CASE m \in DOMAIN published
      <4>1. published'[m] = published[m] /\ \A n \in 1 .. m - 1 : published'[n] = published[n]
        BY <2>1, <2>3, <3>1
      <4> QED
        BY <3>1, <4>1 DEF Output, PublishedAsSent
    <3>2. CASE m = Len(published) + 1
      <4>1. \A n \in 1 .. m - 1 : n \in DOMAIN published /\ published'[n] = published[n]
        BY <2>1, <2>3, <3>2
      <4>2. \A n \in DOMAIN published : published[n].frame < got[1].frame
        BY <1>1, GotFrame DEF Output, Fresh
      <4> QED
        BY <2>2, <2>3, <3>2, <4>1, <4>2
    <3> QED
      BY <2>4, <3>1, <3>2
  <2> QED
    BY <1>2, <1>5, <2>1, <2>3, <2>5, <2>7, <2>8 DEF Output
<1> QED
  BY <1>4, <1>5 DEF TakeFrame

-----------------------------------------------------------------------------
(* The invariant and the theorems.                                         *)

LEMMA Initial == ASSUME Init PROVE IInv
<1>1. Stream
  <2>1. sent \in Seq(Sent) /\ Len(sent) <= MaxFrame
    BY EmptySeq, Sizes DEF Init
  <2> QED
    BY <2>1, EmptyStream DEF Init, Stream
<1>2. Parser
  BY EmptySeq DEF Init, Parser, Headed, Total
<1>3. Output
  BY EmptySeq, EmptyStream DEF Init, Output, Fresh, PublishedAsSent
<1> QED
  BY <1>1, <1>2, <1>3 DEF Init, IInv, Control

\* Steps that leave the parser as it is, or reset it, and publish nothing.
LEMMA QuietStep ==
  ASSUME IInv, sent' = sent, line' \in {line, <<>>}, input' \in {input, <<>>},
         UNCHANGED outVars, UNCHANGED parserVars \/ (got' = <<>> /\ want' = "sof")
  PROVE  Stream' /\ Parser' /\ Output'
<1>1. got' \in {got, <<>>}
  BY DEF parserVars
<1>2. Stream'
  BY <1>1, DropBytes DEF IInv
<1>3. Parser'
  BY ParserKept, ParserCleared DEF IInv
<1>4. Fresh(line)' /\ Fresh(input)' /\ Fresh(got)'
  BY <1>1, EmptyStream DEF IInv, Output, Fresh, outVars
<1>5. Len(sent) \in Nat
  BY LenProperties DEF IInv, Stream
<1> QED
  BY <1>2, <1>3, <1>4, <1>5, OutputKept DEF IInv

LEMMA ControlStep == ASSUME IInv, Next, flaws' \in Nat PROVE Control'
<1>1. Len(sent) \in Nat
  BY LenProperties DEF IInv, Stream
<1>2. Control
  BY DEF IInv
<1>3. CASE ReadFrames \/ PollOnce
  <2>1. CASE ReadSome \/ Suspend \/ PollOnce
    BY <1>2, <2>1 DEF ReadSome, Suspend, PollOnce, Control, lineVars, portVars
  <2>2. CASE SkipByte \/ TakeSof \/ DropHeader \/ TakeHeader \/ DropFrame \/ TakeFrame
    <3>1. UNCHANGED <<flaws, portVars, pc, since, stop>> /\ pending' = FALSE
      BY <2>2 DEF SkipByte, TakeSof, DropHeader, TakeHeader, DropFrame, TakeFrame, Resume, lineVars
    <3> QED
      BY <1>2, <3>1 DEF Control, portVars
  <2> QED
    BY <1>3, <2>1, <2>2 DEF ReadFrames
<1>4. CASE Open \/ OpenFails \/ ReadFails \/ Wake \/ Return
  <2>1. CASE Open
    BY <1>1, <1>2, <2>1 DEF Open, Control, lineVars
  <2>2. CASE OpenFails \/ Wake
    BY <1>2, <2>2 DEF OpenFails, Wake, Control, lineVars, portVars
  <2>3. CASE ReadFails \/ Return
    BY <1>2, <2>3 DEF ReadFails, Return, Control, lineVars
  <2> QED
    BY <1>4, <2>1, <2>2, <2>3
<1>5. CASE Send
  <2>1. UNCHANGED <<portVars, pc, pending, since, stop>>
    BY <1>5 DEF Send, SendFrame
  <2> QED
    BY <1>2, <2>1 DEF Control, portVars
<1>6. CASE Arrive \/ Replug \/ RequestStop \/ \E how \in {"failing", "hungup"} : Unplug(how)
  <2>1. CASE Arrive \/ RequestStop
    BY <1>2, <2>1 DEF Arrive, RequestStop, Control, lineVars, portVars
  <2>2. CASE Replug
    BY <1>2, <2>2 DEF Replug, Control, lineVars
  <2>3. CASE \E how \in {"failing", "hungup"} : Unplug(how)
    BY <1>2, <2>3 DEF Unplug, Control
  <2> QED
    BY <1>6, <2>1, <2>2, <2>3
<1> QED
  BY <1>3, <1>4, <1>5, <1>6 DEF Next, Node, Environment

LEMMA Inductive == ASSUME IInv, [Next]_vars PROVE IInv'
<1>1. Stream /\ Parser /\ Output /\ Control /\ flaws \in Nat /\ Len(sent) \in Nat
  BY LenProperties DEF IInv, Control, Stream
<1>2. CASE Send
  <2>1. /\ Stream' /\ flaws' \in Nat
        /\ Len(sent') = Len(sent) + 1
        /\ \A k \in DOMAIN sent : k \in DOMAIN sent' /\ sent'[k] = sent[k]
        /\ \A i \in DOMAIN line' : line'[i].frame = Len(sent) + 1
    BY <1>1, <1>2, SendStream
  <2>2. UNCHANGED <<input, got, want, outVars>>
    BY <1>2 DEF Send, SendFrame, parserVars
  <2>3. Parser'
    BY <1>1, <2>1, <2>2, ParserKept DEF parserVars
  <2>4. Fresh(line)'
    <3>1. \A m \in DOMAIN published : published[m].frame \in Nat /\ published[m].frame <= Len(sent)
      <4>1. \A m \in DOMAIN published : published[m] \in Message
        BY <1>1, ElementOfSeq, LenProperties DEF Output
      <4> QED
        BY <1>1, <4>1, Sizes DEF Output, Message
    <3> QED
      BY <1>1, <2>1, <2>2, <3>1 DEF Fresh, outVars
  <2>5. Fresh(input)' /\ Fresh(got)'
    BY <1>1, <2>2 DEF Output, Fresh, outVars
  <2>6. Output'
    BY <1>1, <2>1, <2>2, <2>4, <2>5, OutputKept
  <2>7. Control'
    BY <1>2, <2>1, ControlStep DEF Next, Environment
  <2> QED
    BY <2>1, <2>3, <2>6, <2>7 DEF IInv
<1>3. CASE Arrive
  <2>1. UNCHANGED <<sent, flaws, parserVars, outVars>>
    BY <1>3 DEF Arrive
  <2>2. Stream' /\ Fresh(input)' /\ Fresh(line)'
    BY <1>1, <1>3, <2>1, ArriveStream DEF Output, outVars
  <2>3. Parser'
    BY <1>1, <2>1, ParserKept
  <2>4. Fresh(got)'
    BY <1>1, <2>1 DEF Output, Fresh, outVars, parserVars
  <2>5. Output'
    BY <1>1, <2>1, <2>2, <2>4, OutputKept
  <2>6. Control'
    BY <1>1, <1>3, <2>1, ControlStep DEF Next, Environment
  <2> QED
    BY <2>2, <2>3, <2>5, <2>6 DEF IInv
<1>4. CASE ReadSome
  <2>1. UNCHANGED <<sent, line, flaws, outVars>>
    BY <1>4 DEF ReadSome, lineVars
  <2>2. Stream' /\ Fresh(got)' /\ Fresh(input)'
    BY <1>1, <1>4, <2>1, ReadStream, Totals DEF Output, outVars
  <2>3. Parser'
    BY <1>1, <1>4, ParserReads
  <2>4. Fresh(line)'
    BY <1>1, <2>1 DEF Output, Fresh, outVars
  <2>5. Output'
    BY <1>1, <2>1, <2>2, <2>4, OutputKept
  <2>6. Control'
    BY <1>1, <1>4, <2>1, ControlStep DEF Next, Node, ReadFrames
  <2> QED
    BY <2>2, <2>3, <2>5, <2>6 DEF IInv
<1>5. CASE TakeSof \/ TakeHeader
  <2>1. Parser' /\ UNCHANGED <<sent, line, input, got>>
    BY <1>1, <1>5, ParserAdvances
  <2>2. UNCHANGED outVars /\ UNCHANGED flaws
    BY <1>5 DEF TakeSof, TakeHeader, Resume, lineVars
  <2>3. Stream'
    BY <1>1, <2>1, DropBytes
  <2>4. Fresh(line)' /\ Fresh(input)' /\ Fresh(got)'
    BY <1>1, <2>1, <2>2 DEF Output, Fresh, outVars
  <2>5. Output'
    BY <1>1, <2>1, <2>2, <2>4, OutputKept
  <2>6. Control'
    BY <1>1, <1>5, <2>2, ControlStep DEF Next, Node, ReadFrames
  <2> QED
    BY <2>1, <2>3, <2>5, <2>6 DEF IInv
<1>6. CASE TakeFrame
  <2>1. UNCHANGED <<sent, line, input, flaws>> /\ got' = <<>> /\ want' = "sof"
    BY <1>6 DEF TakeFrame, Resume, lineVars
  <2>2. Stream' /\ Parser'
    BY <1>1, <2>1, DropBytes, ParserCleared
  <2>3. Output'
    BY <1>1, <1>6, OutputPublishes
  <2>4. Control'
    BY <1>1, <1>6, <2>1, ControlStep DEF Next, Node, ReadFrames
  <2> QED
    BY <2>2, <2>3, <2>4 DEF IInv
<1>7. CASE SkipByte \/ DropHeader \/ DropFrame \/ Open \/ ReadFails \/ Return
  <2>1. /\ UNCHANGED <<sent, line, flaws, outVars>> /\ input' \in {input, <<>>}
        /\ got' = <<>> /\ want' = "sof"
    BY <1>7 DEF SkipByte, DropHeader, DropFrame, Open, ReadFails, Return, Resume, lineVars
  <2>2. Control'
    BY <1>1, <1>7, <2>1, ControlStep DEF Next, Node, ReadFrames
  <2> QED
    BY <2>1, <2>2, QuietStep DEF IInv
<1>8. CASE \/ Suspend \/ PollOnce \/ OpenFails \/ Wake \/ Replug \/ RequestStop
           \/ \E how \in {"failing", "hungup"} : Unplug(how)
  <2>1. /\ UNCHANGED <<sent, flaws, parserVars, outVars>>
        /\ line' \in {line, <<>>} /\ input' \in {input, <<>>}
    BY <1>8 DEF Suspend, PollOnce, OpenFails, Wake, Replug, RequestStop, Unplug, lineVars
  <2>2. Control'
    BY <1>1, <1>8, <2>1, ControlStep DEF Next, Node, ReadFrames, Environment
  <2> QED
    BY <2>1, <2>2, QuietStep DEF IInv
<1>9. CASE UNCHANGED vars
  <2>1. /\ UNCHANGED <<sent, line, input, parserVars, outVars>>
        /\ UNCHANGED <<flaws, portVars, pc, pending, since, stop>>
    BY <1>9 DEF vars, lineVars
  <2>2. Control'
    BY <1>1, <2>1 DEF Control, portVars
  <2> QED
    BY <2>1, <2>2, QuietStep DEF IInv
<1> QED
  BY <1>2, <1>3, <1>4, <1>5, <1>6, <1>7, <1>8, <1>9 DEF Next, Node, ReadFrames, Environment

(* The types hold, and the parser never has more bytes than it asked for,  *)
(* for every length a header may announce.                                 *)
(* Code: the sizes passed to ReadExact in ReadFramesAsync.                 *)
THEOREM TypeCorrect == Spec => []TypeOK
<1>1. Init => IInv
  BY Initial
<1>2. IInv /\ [Next]_vars => IInv'
  BY Inductive
<1>3. IInv => TypeOK
  BY IInvImplies
<1> QED
  BY <1>1, <1>2, <1>3, PTL DEF Spec

(* Whatever the line does to the frames, what is published are whole       *)
(* frames, each once, in the order they were sent, numbered without gaps.  *)
(* Code: ReadFramesAsync and the callback of run().                        *)
THEOREM FramesPublishedAsSent == Spec => []PublishedAsSent
<1>1. Init => IInv
  BY Initial
<1>2. IInv /\ [Next]_vars => IInv'
  BY Inductive
<1>3. IInv => PublishedAsSent
  BY IInvImplies
<1> QED
  BY <1>1, <1>2, <1>3, PTL DEF Spec

-----------------------------------------------------------------------------
(* Where the parser is.                                                    *)
(*                                                                         *)
(* All bytes put on the line so far are numbered from 1 to Carried, and    *)
(* frame k has those after its from up to its to.  While the port is open  *)
(* nothing is lost: what the parser has, what the kernel has and what is   *)
(* on the line are the last of these bytes.                                *)

\* What has been carried before the bytes on the line, those in the kernel's
\* buffer, and those the parser has.
Behind == Carried - Len(line)
Waiting == Behind - Len(input)
Here == Waiting - Len(got)

\* Byte b is the o-th of those the frames fs came to.
InPlace(fs, b, o) ==
  /\ fs[b.frame].from < o /\ o <= fs[b.frame].to
  /\ fs[b.frame].whole => b.value = "right" /\ b.pos = o - fs[b.frame].from

Laid(fs, s, base) == \A i \in DOMAIN s : InPlace(fs, s[i], base + i)

\* The frames sent follow each other.
Chained ==
  /\ \A k \in DOMAIN sent :
       /\ sent[k].from <= sent[k].to
       /\ sent[k].whole => sent[k].to = sent[k].from + FrameSize(sent[k].kind.len)
       /\ k = 1 => sent[k].from = 0
  /\ \A j, k \in DOMAIN sent :
       /\ j < k => sent[j].to <= sent[k].from
       /\ k = j + 1 => sent[j].to = sent[k].from

\* The line has what is left of the last frame.
Coming ==
  /\ Behind \in Nat
  /\ \A k \in DOMAIN sent : k = Len(sent) => sent[k].from <= Behind
  /\ Laid(sent, line, Behind)

\* While the port is open the parser is somewhere after the start of the
\* last frame sent before.
Somewhere ==
  /\ since <= Len(sent)
  /\ fd = "open" =>
       /\ Here \in Nat
       /\ since # 0 => sent[since].from <= Here
       /\ Laid(sent, input, Waiting) /\ Laid(sent, got, Here)

\* A header that was accepted is one piece of a frame.
InOnePiece == fd = "open" /\ want = "body" => Here + HeaderSize <= sent[got[1].frame].to

\* In a clean frame no frame is taken to begin but itself.
Aligned ==
  fd = "open" /\ want # "sof" =>
    \A k \in DOMAIN sent :
      Clean(sent[k]) /\ sent[k].from <= Here /\ Here < sent[k].to => Here = sent[k].from

Heard(k) == \E m \in DOMAIN published : published[m].frame = k

Imu == [imu |-> TRUE, len |-> ImuLength]

\* The parser is never within a whole frame it should not miss, but before
\* it, at its start, or past it when it has published it.
OnCourse ==
  fd = "open" =>
    \A k \in since + 1 .. Len(sent) :
      sent[k].whole /\ InStep(k) =>
        Here <= sent[k].from \/ (sent[k].to <= Here /\ (sent[k].kind = Imu => Heard(k)))

Position == Chained /\ Coming /\ Somewhere /\ InOnePiece /\ Aligned /\ OnCourse

-----------------------------------------------------------------------------

\* What becomes of bytes in their places when a sequence is cut or joined.
LEMMA LaidEmpty == ASSUME NEW fs, NEW n PROVE Laid(fs, <<>>, n)
  BY EmptySeq DEF Laid

LEMMA LaidTail ==
  ASSUME NEW fs, NEW s \in Seq(Byte), s # <<>>, NEW n \in Int, Laid(fs, s, n)
  PROVE  /\ Tail(s) \in Seq(Byte) /\ Len(Tail(s)) = Len(s) - 1 /\ Len(s) \in Nat \ {0}
         /\ Laid(fs, Tail(s), n + 1) /\ InPlace(fs, Head(s), n + 1)
<1>1. Len(s) \in Nat \ {0} /\ DOMAIN s = 1 .. Len(s)
  BY ByteTypes, EmptySeq
<1>2. /\ Head(s) = s[1] /\ Tail(s) \in Seq(Byte) /\ Len(Tail(s)) = Len(s) - 1
      /\ \A i \in 1 .. Len(Tail(s)) : Tail(s)[i] = s[i + 1]
  BY HeadTailProperties
<1>3. DOMAIN Tail(s) = 1 .. Len(s) - 1
  BY <1>2, LenProperties
<1>4. 1 \in DOMAIN s
  BY <1>1
<1>5. ASSUME NEW i \in DOMAIN Tail(s) PROVE InPlace(fs, Tail(s)[i], n + 1 + i)
  <2>1. i + 1 \in DOMAIN s /\ n + (i + 1) = n + 1 + i /\ Tail(s)[i] = s[i + 1]
    BY <1>1, <1>2, <1>3
  <2>2. InPlace(fs, s[i + 1], n + (i + 1))
    BY <2>1 DEF Laid
  <2> QED
    BY <2>1, <2>2
<1> QED
  BY <1>1, <1>2, <1>4, <1>5 DEF Laid

LEMMA LaidAppend ==
  ASSUME NEW fs, NEW s \in Seq(Byte), NEW b \in Byte, NEW n \in Int,
         Laid(fs, s, n), InPlace(fs, b, n + Len(s) + 1)
  PROVE  /\ Append(s, b) \in Seq(Byte) /\ Len(Append(s, b)) = Len(s) + 1
         /\ Laid(fs, Append(s, b), n)
<1>1. Len(s) \in Nat /\ DOMAIN s = 1 .. Len(s)
  BY ByteTypes
<1>2. /\ Append(s, b) \in Seq(Byte) /\ Len(Append(s, b)) = Len(s) + 1
      /\ \A i \in 1 .. Len(s) : Append(s, b)[i] = s[i]
      /\ Append(s, b)[Len(s) + 1] = b
  BY AppendProperties
<1>3. DOMAIN Append(s, b) = 1 .. Len(s) + 1
  BY <1>2, LenProperties
<1>4. ASSUME NEW i \in DOMAIN Append(s, b) PROVE InPlace(fs, Append(s, b)[i], n + i)
  <2>1. CASE i \in 1 .. Len(s)
    BY <1>1, <1>2, <2>1 DEF Laid
  <2>2. CASE i = Len(s) + 1
    <3>1. n + Len(s) + 1 = n + i
      BY <1>1, <2>2
    <3> QED
      BY <1>2, <2>2, <3>1
  <2> QED
    BY <1>1, <1>3, <2>1, <2>2
<1> QED
  BY <1>2, <1>4 DEF Laid

LEMMA LaidSplit ==
  ASSUME NEW fs, NEW s \in Seq(Byte), NEW n \in Int, Laid(fs, s, n), NEW c \in 0 .. Len(s)
  PROVE  /\ Laid(fs, SubSeq(s, 1, c), n)
         /\ Laid(fs, SubSeq(s, c + 1, Len(s)), n + c)
<1> DEFINE a == SubSeq(s, 1, c)
           b == SubSeq(s, c + 1, Len(s))
<1>1. /\ \A i \in DOMAIN a : i \in DOMAIN s /\ a[i] = s[i]
      /\ \A i \in DOMAIN b : i \in Nat /\ c + i \in DOMAIN s /\ b[i] = s[c + i]
  BY Split
<1>2. c \in Nat
  BY ByteTypes
<1> HIDE DEF a, b
<1>3. ASSUME NEW i \in DOMAIN b PROVE InPlace(fs, b[i], n + c + i)
  <2>1. n + (c + i) = n + c + i
    BY <1>1, <1>2
  <2>2. InPlace(fs, s[c + i], n + (c + i))
    BY <1>1 DEF Laid
  <2> QED
    BY <1>1, <2>1, <2>2
<1>4. Laid(fs, a, n) /\ Laid(fs, b, n + c)
  BY <1>1, <1>3 DEF Laid
<1> QED
  BY <1>4 DEF a, b

LEMMA LaidJoin ==
  ASSUME NEW fs, NEW a \in Seq(Byte), NEW b \in Seq(Byte), NEW n \in Int,
         Laid(fs, a, n), Laid(fs, b, n + Len(a))
  PROVE  Laid(fs, a \o b, n)
<1>1. Len(a) \in Nat /\ DOMAIN a = 1 .. Len(a)
  BY ByteTypes
<1>2. \A i \in DOMAIN (a \o b) :
        \/ i \in DOMAIN a /\ (a \o b)[i] = a[i]
        \/ /\ i - Len(a) \in DOMAIN b /\ i - Len(a) \in Nat
           /\ (a \o b)[i] = b[i - Len(a)]
  BY Joins
<1>0. \A i \in DOMAIN (a \o b) : i \in Nat
  <2>1. a \o b \in Seq(Byte)
    BY Joins
  <2> QED
    BY <2>1, ByteTypes
<1> SUFFICES ASSUME NEW i \in DOMAIN (a \o b) PROVE InPlace(fs, (a \o b)[i], n + i)
  BY DEF Laid
<1>3. CASE i \in DOMAIN a /\ (a \o b)[i] = a[i]
  BY <1>3 DEF Laid
<1>4. CASE i - Len(a) \in DOMAIN b /\ (a \o b)[i] = b[i - Len(a)]
  <2>1. n + Len(a) + (i - Len(a)) = n + i
    BY <1>0, <1>1
  <2>2. InPlace(fs, b[i - Len(a)], n + Len(a) + (i - Len(a)))
    BY <1>4 DEF Laid
  <2> QED
    BY <1>4, <2>1, <2>2
<1> QED
  BY <1>2, <1>3, <1>4

-----------------------------------------------------------------------------

\* The numbers the positions are made of.
LEMMA Spots ==
  ASSUME Stream, Chained
  PROVE  /\ Carried \in Nat /\ Len(line) \in Nat /\ Len(input) \in Nat /\ Len(got) \in Nat
         /\ Len(sent) \in Nat /\ DOMAIN sent = 1 .. Len(sent)
         /\ Behind \in Int /\ Waiting \in Int /\ Here \in Int
         /\ Carried = Behind + Len(line) /\ Behind = Waiting + Len(input) /\ Waiting = Here + Len(got)
         /\ \A k \in DOMAIN sent : /\ sent[k].from \in Nat /\ sent[k].to \in Nat
                                   /\ sent[k].to <= Carried
<1>1. Len(line) \in Nat /\ Len(input) \in Nat /\ Len(got) \in Nat
  BY ByteTypes DEF Stream
<1>2. Len(sent) \in Nat /\ DOMAIN sent = 1 .. Len(sent)
  BY LenProperties DEF Stream
<1>3. \A k \in DOMAIN sent : sent[k].from \in Nat /\ sent[k].to \in Nat
  BY SentTypes DEF Stream, Sent
<1>4. Carried \in Nat
  <2>1. CASE sent = <<>>
    BY <2>1 DEF Carried
  <2>2. CASE sent # <<>>
    <3>1. Len(sent) \in DOMAIN sent
      BY <1>2, <2>2, EmptySeq DEF Stream
    <3> QED
      BY <1>3, <2>2, <3>1 DEF Carried
  <2> QED
    BY <2>1, <2>2
<1>5. ASSUME NEW k \in DOMAIN sent PROVE sent[k].to <= Carried
  <2>1. sent # <<>> /\ Len(sent) \in DOMAIN sent /\ k <= Len(sent) /\ k \in Nat
    BY <1>2, EmptySeq
  <2>2. Carried = sent[Len(sent)].to
    BY <2>1 DEF Carried
  <2>3. CASE k = Len(sent)
    BY <1>3, <2>2, <2>3
  <2>4. CASE k < Len(sent)
    <3>1. sent[k].to <= sent[Len(sent)].from /\ sent[Len(sent)].from <= sent[Len(sent)].to
      BY <2>1, <2>4 DEF Chained
    <3> QED
      BY <1>3, <2>1, <2>2, <3>1
  <2> QED
    BY <1>2, <2>1, <2>3, <2>4
<1>6. Behind \in Int /\ Carried = Behind + Len(line)
  BY <1>1, <1>4 DEF Behind
<1>7. Waiting \in Int /\ Behind = Waiting + Len(input)
  BY <1>1, <1>6 DEF Waiting
<1>8. Here \in Int /\ Waiting = Here + Len(got)
  BY <1>1, <1>7 DEF Here
<1> QED
  BY <1>1, <1>2, <1>3, <1>4, <1>5, <1>6, <1>7, <1>8

\* A place on the line belongs to one frame.
LEMMA OneFrame ==
  ASSUME Stream, Chained, NEW j \in DOMAIN sent, NEW k \in DOMAIN sent, NEW o \in Int,
         sent[j].from < o, o <= sent[j].to, sent[k].from < o, o <= sent[k].to
  PROVE  j = k
<1>0. DOMAIN sent \subseteq Nat
  BY Spots
<1>1. j \in Nat /\ k \in Nat /\ sent[j].from \in Nat /\ sent[j].to \in Nat
      /\ sent[k].from \in Nat /\ sent[k].to \in Nat
  BY <1>0, Spots
<1>2. ~ (j < k)
  BY <1>1 DEF Chained
<1>3. ~ (k < j)
  BY <1>1 DEF Chained
<1> QED
  BY <1>1, <1>2, <1>3

\* The frame of a byte.
LEMMA ByteFrame ==
  ASSUME Stream, NEW s \in Seq(Byte), Known(s), NEW i \in DOMAIN s
  PROVE  s[i].frame \in DOMAIN sent
<1>1. s[i].frame \in Nat \ {0} /\ s[i].frame <= Len(sent)
  BY ByteTypes DEF Known
<1>2. Len(sent) \in Nat /\ DOMAIN sent = 1 .. Len(sent)
  BY LenProperties DEF Stream
<1> QED
  BY <1>1, <1>2

\* While the port is open, all after the parser's place is still to come.
LEMMA StillThere ==
  ASSUME Stream, Chained, Coming, Somewhere, fd = "open", NEW o \in Int, Here < o, o <= Carried
  PROVE  \E s \in {line, input, got} : \E i \in DOMAIN s :
           InPlace(sent, s[i], o) /\ s[i].frame \in DOMAIN sent
<1>1. /\ line \in Seq(Byte) /\ input \in Seq(Byte) /\ got \in Seq(Byte)
      /\ Known(line) /\ Known(input) /\ Known(got)
  BY DEF Stream
<1>2. /\ DOMAIN line = 1 .. Len(line) /\ DOMAIN input = 1 .. Len(input) /\ DOMAIN got = 1 .. Len(got)
  BY <1>1, ByteTypes
<1>0. /\ Here \in Int /\ Waiting \in Int /\ Behind \in Int /\ Carried = Behind + Len(line)
      /\ Behind = Waiting + Len(input) /\ Waiting = Here + Len(got)
      /\ Len(got) \in Nat /\ Len(input) \in Nat /\ Len(line) \in Nat
  BY Spots
<1>3. CASE o <= Waiting
  <2>1. o - Here \in DOMAIN got /\ Here + (o - Here) = o
    BY <1>0, <1>2, <1>3
  <2>2. InPlace(sent, got[o - Here], Here + (o - Here))
    BY <2>1 DEF Somewhere, Laid
  <2> QED
    BY <1>1, <2>1, <2>2, ByteFrame
<1>4. CASE Waiting < o /\ o <= Behind
  <2>1. o - Waiting \in DOMAIN input /\ Waiting + (o - Waiting) = o
    BY <1>0, <1>2, <1>4
  <2>2. InPlace(sent, input[o - Waiting], Waiting + (o - Waiting))
    BY <2>1 DEF Somewhere, Laid
  <2> QED
    BY <1>1, <2>1, <2>2, ByteFrame
<1>5. CASE Behind < o
  <2>1. o - Behind \in DOMAIN line /\ Behind + (o - Behind) = o
    BY <1>0, <1>2, <1>5
  <2>2. InPlace(sent, line[o - Behind], Behind + (o - Behind))
    BY <2>1 DEF Coming, Laid
  <2> QED
    BY <1>1, <2>1, <2>2, ByteFrame
<1> QED
  BY <1>0, <1>3, <1>4, <1>5

\* Whoever is published is behind the parser.
LEMMA PastPublished ==
  ASSUME Stream, Output, Chained, Coming, Somewhere, fd = "open",
         NEW m \in DOMAIN published, published[m].frame \in DOMAIN sent
  PROVE  sent[published[m].frame].to <= Here
<1> DEFINE f == published[m].frame
<1>1. Here \in Int /\ sent[f].to \in Nat /\ sent[f].to <= Carried /\ Carried \in Nat
  BY Spots
<1> SUFFICES ASSUME Here < sent[f].to PROVE FALSE
  BY <1>1
<1>2. Here + 1 \in Int /\ Here < Here + 1 /\ Here + 1 <= Carried
  BY <1>1
<1>3. PICK s \in {line, input, got} : \E i \in DOMAIN s :
        InPlace(sent, s[i], Here + 1) /\ s[i].frame \in DOMAIN sent
  BY <1>2, StillThere
<1>4. PICK i \in DOMAIN s : InPlace(sent, s[i], Here + 1) /\ s[i].frame \in DOMAIN sent
  BY <1>3
<1>5. f < s[i].frame
  BY <1>3 DEF Output, Fresh
<1>6. sent[f].to <= sent[s[i].frame].from
  BY <1>4, <1>5 DEF Chained
<1>7. sent[s[i].frame].from < Here + 1 /\ sent[s[i].frame].from \in Nat
  BY <1>4, Spots DEF InPlace
<1> QED
  BY <1>1, <1>6, <1>7

\* What the parser has of the frame it is in: got[1] is where the parser is.
LEMMA FirstByte ==
  ASSUME Stream, Chained, Somewhere, fd = "open", got # <<>>
  PROVE  /\ got[1].frame \in DOMAIN sent
         /\ sent[got[1].frame].from <= Here /\ Here < sent[got[1].frame].to
         /\ sent[got[1].frame].whole => got[1].value = "right" /\ got[1].pos = Here + 1 - sent[got[1].frame].from
<1>1. 1 \in DOMAIN got /\ got[1].frame \in DOMAIN sent
  BY GotFrame
<1>2. InPlace(sent, got[1], Here + 1)
  BY <1>1 DEF Somewhere, Laid
<1>3. Here \in Int /\ sent[got[1].frame].from \in Nat /\ sent[got[1].frame].to \in Nat
  BY <1>1, Spots
<1> QED
  BY <1>1, <1>2, <1>3 DEF InPlace

\* At the start of a whole frame, what the parser has is this frame.
LEMMA WholeFrame ==
  ASSUME Stream, Chained, Somewhere, fd = "open", got # <<>>,
         NEW k \in DOMAIN sent, sent[k].whole, Here = sent[k].from,
         NEW i \in DOMAIN got, i <= FrameSize(sent[k].kind.len)
  PROVE  got[i].frame = k /\ got[i].value = "right" /\ got[i].pos = i
<1>1. /\ Here \in Int /\ sent[k].from \in Nat /\ sent[k].to = sent[k].from + FrameSize(sent[k].kind.len)
      /\ i \in Nat \ {0} /\ FrameSize(sent[k].kind.len) \in Nat
  <2>1. DOMAIN got \subseteq Nat \ {0}
    BY ByteTypes DEF Stream
  <2>2. sent[k].kind.len \in Nat
    BY SentTypes DEF Stream
  <2> QED
    BY <2>1, <2>2, Spots, Sizes DEF Chained
<1>2. InPlace(sent, got[i], Here + i) /\ got[i].frame \in DOMAIN sent
  BY ByteFrame DEF Somewhere, Laid, Stream
<1>3. Here + i \in Int /\ sent[k].from < Here + i /\ Here + i <= sent[k].to
  BY <1>1
<1>4. sent[got[i].frame].from < Here + i /\ Here + i <= sent[got[i].frame].to
  BY <1>2 DEF InPlace
<1>5. got[i].frame = k
  BY <1>2, <1>3, <1>4, OneFrame
<1>6. got[i].value = "right" /\ got[i].pos = (Here + i) - sent[k].from
  BY <1>2, <1>5 DEF InPlace
<1> QED
  BY <1>1, <1>5, <1>6

\* How many bytes a frame that was begun at a whole frame's start comes to.
LEMMA WholeTotal ==
  ASSUME Stream, Parser, Chained, Somewhere, fd = "open", want # "sof",
         NEW k \in DOMAIN sent, sent[k].whole, Here = sent[k].from
  PROVE  /\ Total \in Nat /\ Total <= FrameSize(sent[k].kind.len)
         /\ want = "body" => Total = FrameSize(sent[k].kind.len)
         /\ sent[k].to = Here + FrameSize(sent[k].kind.len)
         /\ got[1].frame = k /\ got[1].pos = 1
<1>1. got # <<>>
  BY DEF Parser
<1>2. sent[k].kind.len \in Nat /\ FrameSize(sent[k].kind.len) \in Nat /\ HeaderSize \in Nat \ {0, 1}
      /\ FrameSize(sent[k].kind.len) >= HeaderSize
  BY SentTypes, Sizes DEF Stream
<1>3. 1 \in DOMAIN got /\ 1 <= FrameSize(sent[k].kind.len)
  BY <1>1, <1>2, GotFrame
<1>4. got[1].frame = k /\ got[1].pos = 1
  BY <1>1, <1>3, WholeFrame
<1>5. want = "body" => Total = FrameSize(sent[k].kind.len)
  BY <1>4 DEF Total, HeaderLen
<1>6. want = "header" => Total = HeaderSize
  BY DEF Total
<1>7. want \in {"header", "body"}
  BY DEF Parser
<1>8. sent[k].to = Here + FrameSize(sent[k].kind.len)
  BY DEF Chained
<1> QED
  BY <1>2, <1>4, <1>5, <1>6, <1>7, <1>8

\* There the parser rejects nothing.
LEMMA WholeTaken ==
  ASSUME Stream, Parser, Chained, Somewhere, fd = "open", Missing = 0,
         NEW k \in DOMAIN sent, sent[k].whole, Here = sent[k].from
  PROVE  /\ want = "sof" => IsSof(got[1])
         /\ want = "header" => HeaderRight(got)
         /\ want = "body" => FrameRight(got) /\ got[1].frame = k /\ Here + Len(got) = sent[k].to
<1>1. Len(got) = Total /\ Len(got) \in Nat /\ DOMAIN got = 1 .. Len(got)
  <2>1. Total \in Nat /\ Len(got) \in Nat
    BY Totals
  <2>2. DOMAIN got = 1 .. Len(got)
    BY ByteTypes DEF Stream
  <2> QED
    BY <2>1, <2>2 DEF Missing
<1>2. sent[k].kind.len \in Nat /\ FrameSize(sent[k].kind.len) \in Nat /\ HeaderSize \in Nat \ {0, 1}
      /\ FrameSize(sent[k].kind.len) >= HeaderSize
  BY SentTypes, Sizes DEF Stream
<1>3. ASSUME want = "sof" PROVE IsSof(got[1])
  <2>1. Len(got) = 1
    BY <1>1, <1>3 DEF Total
  <2>2. 1 \in DOMAIN got /\ 1 <= FrameSize(sent[k].kind.len) /\ got # <<>>
    <3>1. got # <<>>
      BY <2>1, EmptySeq
    <3>2. 1 <= FrameSize(sent[k].kind.len)
      BY <1>2
    <3> QED
      BY <3>1, <3>2, GotFrame
  <2>3. got[1].value = "right" /\ got[1].pos = 1
    BY <2>2, WholeFrame
  <2> QED
    BY <2>3 DEF IsSof
<1>4. ASSUME want # "sof" PROVE OnePiece(got) /\ got[1].frame = k /\ got[1].pos = 1
  <2>1. got # <<>> /\ Len(got) <= FrameSize(sent[k].kind.len) /\ got[1].frame = k /\ got[1].pos = 1
    BY <1>1, <1>4, WholeTotal DEF Parser
  <2>2. ASSUME NEW i \in DOMAIN got
        PROVE  got[i].value = "right" /\ got[i].frame = k /\ got[i].pos = 1 + i - 1
    <3>1. i <= FrameSize(sent[k].kind.len) /\ i \in Nat /\ 1 + i - 1 = i
      BY <1>1, <1>2, <2>1
    <3>2. got[i].frame = k /\ got[i].value = "right" /\ got[i].pos = i
      BY <2>1, <3>1, WholeFrame
    <3> QED
      BY <3>1, <3>2
  <2> QED
    BY <2>1, <2>2 DEF OnePiece
<1>5. want = "header" => HeaderRight(got)
  BY <1>4 DEF HeaderRight
<1>6. want = "body" => FrameRight(got) /\ got[1].frame = k /\ Here + Len(got) = sent[k].to
  BY <1>1, <1>4, WholeTotal DEF FrameRight
<1> QED
  BY <1>3, <1>5, <1>6

\* What is begun in a clean frame ends with it.
LEMMA CleanEnd ==
  ASSUME Stream, Parser, Chained, Somewhere, Aligned, fd = "open", want # "sof", Clean(sent[got[1].frame])
  PROVE  Here + Total <= sent[got[1].frame].to
<1> DEFINE k == got[1].frame
<1>1. got # <<>>
  BY DEF Parser
<1>2. k \in DOMAIN sent /\ sent[k].from <= Here /\ Here < sent[k].to
  BY <1>1, FirstByte
<1>3. Here = sent[k].from /\ sent[k].whole
  BY <1>2 DEF Aligned, Clean
<1>4. /\ Total \in Nat /\ Total <= FrameSize(sent[k].kind.len)
      /\ sent[k].to = Here + FrameSize(sent[k].kind.len)
  BY <1>2, <1>3, WholeTotal
<1>5. Here \in Int /\ FrameSize(sent[k].kind.len) \in Nat
  BY <1>2, Spots, SentTypes, Sizes DEF Stream
<1> QED
  BY <1>4, <1>5

\* Before a frame it should not miss, the parser never goes past its start.
LEMMA NotPast ==
  ASSUME Stream, Parser, Output, Chained, Coming, Somewhere, InOnePiece, Aligned, fd = "open", since \in Nat,
         NEW k \in since + 1 .. Len(sent), sent[k].whole, InStep(k), Here < sent[k].from, Missing = 0
  PROVE  Here + Len(got) <= sent[k].from
<1> DEFINE i == got[1].frame
<1>0. /\ Here \in Int /\ Len(sent) \in Nat /\ DOMAIN sent = 1 .. Len(sent)
      /\ \A n \in DOMAIN sent : sent[n].from \in Nat /\ sent[n].to \in Nat
  BY Spots
<1>1. Len(got) = Total /\ Len(got) \in Nat
  BY Totals DEF Missing
<1>2. k \in DOMAIN sent /\ k \in Nat /\ since < k
  BY <1>0
<1>3. CASE want = "sof"
  BY <1>0, <1>1, <1>2, <1>3 DEF Total
<1>4. CASE want # "sof"
  <2>1. got # <<>>
    BY <1>4 DEF Parser
  <2>2. /\ i \in DOMAIN sent /\ i \in Nat /\ sent[i].from <= Here /\ Here < sent[i].to
    BY <1>0, <2>1, FirstByte
  <2>3. i < k
    <3>1. ~ (k < i)
      <4>1. k < i => sent[k].to <= sent[i].from /\ sent[k].from <= sent[k].to
        BY <1>2, <2>2 DEF Chained
      <4> QED
        BY <1>0, <1>2, <2>2, <4>1
    <3>2. k # i
      BY <1>0, <1>2, <2>2
    <3> QED
      BY <1>2, <2>2, <3>1, <3>2
  <2>4. sent[i].to <= sent[k].from
    BY <1>2, <2>2, <2>3 DEF Chained
  <2>5. ASSUME Clean(sent[i]) PROVE Here + Len(got) <= sent[k].from
    <3>1. Here + Total <= sent[i].to
      BY <1>4, <2>5, CleanEnd
    <3> QED
      BY <1>0, <1>1, <1>2, <2>2, <2>4, <3>1
  <2>6. PICK j \in since + 1 .. k :
          /\ \A n \in j .. k - 1 : Clean(sent[n])
          /\ InTime(j) \/ sent[k].from - sent[j].from >= MaxLength + CrcSize
    BY DEF InStep
  <2>7. j \in DOMAIN sent /\ j \in Nat /\ j <= k /\ since < j
    BY <1>0, <1>2
  <2>8. CASE j <= i
    <3>1. i \in j .. k - 1
      BY <1>2, <2>2, <2>3, <2>7, <2>8
    <3> QED
      BY <2>5, <2>6, <3>1
  <2>9. CASE i < j /\ j = since + 1 /\ (since = 0 \/ Clean(sent[since]))
    <3>1. since # 0
      BY <1>0, <2>2, <2>9
    <3>2. since \in DOMAIN sent /\ sent[since].from <= Here
      BY <1>0, <3>1 DEF Somewhere
    <3>3. ~ (i < since)
      <4>1. i < since => sent[i].to <= sent[since].from
        BY <2>2, <3>2 DEF Chained
      <4> QED
        BY <1>0, <2>2, <3>2, <4>1
    <3>4. i = since
      BY <2>2, <2>9, <3>3
    <3> QED
      BY <2>5, <2>9, <3>1, <3>4
  <2>10. CASE i < j /\ j > since + 1 /\ \E m \in DOMAIN published : published[m].frame = j - 1
    <3>1. PICK m \in DOMAIN published : published[m].frame = j - 1
      BY <2>10
    <3>2. j - 1 \in DOMAIN sent /\ j - 1 \in Nat
      BY <1>0, <2>7, <2>10
    <3>3. sent[j - 1].to <= Here
      BY <3>1, <3>2, PastPublished
    <3>4. sent[i].to <= sent[j - 1].to
      <4>1. CASE i < j - 1
        <5>1. sent[i].to <= sent[j - 1].from /\ sent[j - 1].from <= sent[j - 1].to
          BY <2>2, <3>2, <4>1 DEF Chained
        <5>2. sent[i].to \in Nat /\ sent[j - 1].from \in Nat /\ sent[j - 1].to \in Nat
          BY <1>0, <2>2, <3>2
        <5> QED
          BY <5>1, <5>2
      <4>2. CASE i = j - 1
        BY <1>0, <2>2, <4>2
      <4> QED
        BY <2>2, <2>7, <2>10, <4>1, <4>2
    <3> QED
      BY <1>0, <2>2, <3>2, <3>3, <3>4
  <2>11. CASE i < j /\ sent[k].from - sent[j].from >= MaxLength + CrcSize
    <3>0. MaxLength \in Nat /\ CrcSize \in Nat \ {0} /\ HeaderSize \in Nat
      BY SerialAssumption
    <3>1. sent[i].to <= sent[j].from
      BY <2>2, <2>7, <2>11 DEF Chained
    <3>2. j < k
      BY <1>0, <1>2, <2>6, <2>11, <3>0, <2>7
    <3>3. sent[j].whole
      BY <1>2, <2>6, <2>11, <2>7, <3>2 DEF Clean
    <3>4. sent[j].from + HeaderSize <= sent[k].from
      <4>1. sent[j].to = sent[j].from + FrameSize(sent[j].kind.len) /\ sent[j].to <= sent[k].from
        BY <1>2, <2>7, <3>2, <3>3 DEF Chained
      <4>2. FrameSize(sent[j].kind.len) \in Nat /\ FrameSize(sent[j].kind.len) >= HeaderSize
        BY <2>7, SentTypes, Sizes DEF Stream
      <4> QED
        BY <1>0, <1>2, <3>0, <2>7, <4>1, <4>2
    <3>5. CASE want = "header"
      <4>1. Len(got) = HeaderSize
        BY <1>1, <3>5 DEF Total
      <4>2. sent[i].to \in Nat /\ sent[j].from \in Nat /\ sent[k].from \in Nat
        BY <1>0, <1>2, <2>2, <2>7
      <4>3. Here < sent[j].from
        BY <1>0, <2>2, <3>1, <4>2
      <4> QED
        BY <1>0, <3>0, <3>4, <4>1, <4>2, <4>3
    <3>6. CASE want = "body"
      <4>1. Here + HeaderSize <= sent[j].from
        BY <1>0, <2>2, <3>0, <2>7, <3>1, <3>6 DEF InOnePiece
      <4>2. Total = HeaderSize + HeaderLen + CrcSize /\ HeaderLen \in Nat
        BY <3>6, Totals DEF FrameSize
      <4>3. HeaderLen <= MaxLength
        <5>1. \A n \in Lengths : n \in Nat /\ n <= MaxLength
          BY SerialAssumption DEF Lengths
        <5>2. sent[i].kind.len \in Lengths /\ sent[i].mimic \in Lengths \cup {NoHeader}
          BY <2>2, SentTypes DEF Stream, Sent, Lengths
        <5>3. HeaderLen \in Lengths
          BY <3>6, <5>2 DEF Parser, Headed, HeaderLen
        <5> QED
          BY <5>1, <5>3
      <4> QED
        BY <1>0, <1>1, <1>2, <2>6, <2>11, <3>0, <2>7, <4>1, <4>2, <4>3
    <3> QED
      BY <1>4, <3>5, <3>6 DEF Parser
  <2> QED
    BY <2>2, <2>6, <2>7, <2>8, <2>9, <2>10, <2>11 DEF InTime
<1> QED
  BY <1>3, <1>4

-----------------------------------------------------------------------------
(* The steps.                                                              *)

\* What InStep looks at.
LEMMA SameSteps ==
  ASSUME NEW k, UNCHANGED <<sent, since, published>>
  PROVE  InStep(k)' = InStep(k) /\ Heard(k)' = Heard(k)
<1>1. sent' = sent /\ since' = since /\ published' = published
  OBVIOUS
<1> QED
  BY <1>1 DEF InStep, InTime, Clean, Heard

\* The parser and its place stay as they are.
LEMMA SamePlace ==
  ASSUME Position, UNCHANGED <<sent, since, published, want, fd>>,
         fd = "open" => Here' = Here, want = "body" => got'[1] = got[1]
  PROVE  Chained' /\ InOnePiece' /\ Aligned' /\ OnCourse'
<1>1. sent' = sent /\ since' = since /\ published' = published /\ want' = want /\ fd' = fd
  OBVIOUS
<1>2. Chained'
  BY <1>1 DEF Position, Chained
<1>3. InOnePiece'
  BY <1>1 DEF Position, InOnePiece
<1>4. Aligned'
  BY <1>1 DEF Position, Aligned, Clean
<1>5. OnCourse'
  <2> SUFFICES ASSUME fd = "open", NEW k \in since + 1 .. Len(sent), sent[k].whole, InStep(k)'
               PROVE  \/ Here' <= sent[k].from
                      \/ sent[k].to <= Here' /\ (sent[k].kind = Imu => Heard(k)')
    BY <1>1 DEF OnCourse
  <2>1. InStep(k) /\ Heard(k)' = Heard(k) /\ Here' = Here
    BY <1>1, SameSteps
  <2> QED
    BY <2>1 DEF Position, OnCourse
<1> QED
  BY <1>2, <1>3, <1>4, <1>5

\* The port is not open.
LEMMA Away ==
  ASSUME IInv, Position, UNCHANGED <<sent, since>>, line' \in {line, <<>>}, fd' # "open"
  PROVE  Position'
<1>1. sent' = sent /\ since' = since /\ Stream /\ Chained
  BY DEF IInv, Position
<1>2. Chained'
  BY <1>1 DEF Chained
<1>3. Coming'
  <2>1. Carried' = Carried
    BY <1>1 DEF Carried
  <2>2. CASE line' = line
    BY <1>1, <2>1, <2>2 DEF Position, Coming, Behind
  <2>3. CASE line' = <<>>
    <3>1. Behind' = Carried /\ Carried \in Nat /\ Behind <= Carried /\ Behind \in Int
      <4>1. Len(<<>>) = 0
        BY EmptySeq
      <4> QED
        BY <1>1, <2>1, <2>3, <4>1, Spots DEF Behind
    <3>2. \A k \in DOMAIN sent : k = Len(sent) => sent[k].from <= Carried
      <4>1. \A k \in DOMAIN sent : sent[k].from \in Nat
        BY <1>1, Spots
      <4> QED
        BY <3>1, <4>1 DEF Position, Coming
    <3>3. Laid(sent, <<>>, Carried)
      BY LaidEmpty
    <3> QED
      BY <1>1, <2>3, <3>1, <3>2, <3>3 DEF Coming
  <2> QED
    BY <2>2, <2>3
<1>4. Somewhere' /\ InOnePiece' /\ Aligned' /\ OnCourse'
  BY <1>1 DEF Position, Somewhere, InOnePiece, Aligned, OnCourse
<1> QED
  BY <1>2, <1>3, <1>4 DEF Position

\* Nothing the position is made of changes.
LEMMA Quiet ==
  ASSUME IInv, Position, UNCHANGED <<sent, line, input, want, got, fd, since, published>>
  PROVE  Position'
<1>1. /\ sent' = sent /\ line' = line /\ input' = input /\ want' = want /\ got' = got
      /\ fd' = fd /\ since' = since /\ published' = published
  OBVIOUS
<1>2. Behind' = Behind /\ Waiting' = Waiting /\ Here' = Here
  BY <1>1 DEF Behind, Waiting, Here, Carried
<1>3. Chained' /\ InOnePiece' /\ Aligned' /\ OnCourse'
  BY <1>1, <1>2, SamePlace
<1>4. Coming' /\ Somewhere'
  BY <1>1, <1>2 DEF Position, Coming, Somewhere
<1> QED
  BY <1>3, <1>4 DEF Position

\* A byte arrives, or is lost while the port is closed.
LEMMA ArrivePlace ==
  ASSUME IInv, Position, Arrive
  PROVE  Position'
<1>1. /\ sent' = sent /\ want' = want /\ got' = got /\ fd' = fd /\ since' = since /\ published' = published
      /\ line # <<>> /\ line' = Tail(line)
      /\ input' = IF fd = "open" THEN Append(input, Head(line)) ELSE input
  BY DEF Arrive, portVars, parserVars, outVars
<1>2. Stream /\ Chained /\ Coming /\ line \in Seq(Byte) /\ input \in Seq(Byte)
  BY DEF IInv, Position, Stream
<1>3. /\ Behind \in Int /\ Waiting \in Int /\ Here \in Int /\ Behind = Waiting + Len(input)
      /\ Carried \in Nat /\ Len(input) \in Nat /\ Len(got) \in Nat /\ Carried = Behind + Len(line)
      /\ Waiting = Here + Len(got) /\ Len(line) \in Nat
  BY <1>2, Spots
<1>4. /\ Len(Tail(line)) = Len(line) - 1 /\ Laid(sent, Tail(line), Behind + 1)
      /\ InPlace(sent, Head(line), Behind + 1)
  BY <1>1, <1>2, <1>3, LaidTail DEF Coming
<1>5. Behind' = Behind + 1
  BY <1>1, <1>3, <1>4 DEF Behind, Carried
<1>6. Coming'
  <2>1. \A k \in DOMAIN sent : sent[k].from \in Nat
    BY <1>2, Spots
  <2>2. \A k \in DOMAIN sent : k = Len(sent) => sent[k].from <= Behind + 1
    BY <1>2, <1>3, <2>1 DEF Coming
  <2>3. Behind + 1 \in Nat
    BY <1>2 DEF Coming
  <2> QED
    BY <1>1, <1>4, <1>5, <2>2, <2>3 DEF Coming
<1>7. CASE fd = "open"
  <2>1. Head(line) \in Byte
    BY <1>1, <1>2, HeadTailProperties, ByteTypes
  <2>2. Laid(sent, input, Waiting) /\ InPlace(sent, Head(line), Waiting + Len(input) + 1)
    <3>1. Behind + 1 = Waiting + Len(input) + 1
      BY <1>3
    <3> QED
      BY <1>4, <1>7, <3>1 DEF Position, Somewhere
  <2>3. Len(input') = Len(input) + 1 /\ Laid(sent, input', Waiting)
    BY <1>1, <1>2, <1>3, <1>7, <2>1, <2>2, LaidAppend
  <2>4. Waiting' = Waiting /\ Here' = Here
    BY <1>1, <1>3, <1>5, <2>3 DEF Waiting, Here
  <2>5. Somewhere'
    BY <1>1, <2>3, <2>4 DEF Position, Somewhere
  <2>6. Chained' /\ InOnePiece' /\ Aligned' /\ OnCourse'
    BY <1>1, <2>4, SamePlace
  <2> QED
    BY <1>6, <2>5, <2>6 DEF Position
<1>8. CASE fd # "open"
  <2>1. Somewhere'
    BY <1>1, <1>8 DEF Position, Somewhere
  <2>2. Chained' /\ InOnePiece' /\ Aligned' /\ OnCourse'
    BY <1>1, <1>8, SamePlace
  <2> QED
    BY <1>6, <2>1, <2>2 DEF Position
<1> QED
  BY <1>7, <1>8

\* Bytes are read: the parser's place is where its frame begins.
LEMMA ReadPlace ==
  ASSUME IInv, Position, ReadSome
  PROVE  Position'
<1> DEFINE n == Smaller(Missing, Len(input))
           a == SubSeq(input, 1, n)
           b == SubSeq(input, n + 1, Len(input))
<1>1. /\ sent' = sent /\ line' = line /\ want' = want /\ fd' = fd /\ since' = since /\ published' = published
      /\ fd = "open" /\ Missing > 0 /\ got' = got \o a /\ input' = b
  BY DEF ReadSome, lineVars, portVars, outVars
<1>2. Stream /\ Parser /\ Chained /\ input \in Seq(Byte) /\ got \in Seq(Byte) /\ Missing \in Nat
  BY Totals DEF IInv, Position, Stream
<1>3. /\ Behind \in Int /\ Waiting \in Int /\ Here \in Int /\ Behind = Waiting + Len(input)
      /\ Waiting = Here + Len(got) /\ Len(input) \in Nat /\ Len(got) \in Nat
  BY <1>2, Spots
<1>4. n \in 0 .. Len(input)
  BY <1>1, <1>2, <1>3 DEF Smaller
<1> HIDE DEF n
<1>5. a \in Seq(Byte) /\ Len(a) = n /\ b \in Seq(Byte) /\ Len(b) = Len(input) - n
  BY <1>2, <1>4, Split
<1>6. Laid(sent, input, Waiting) /\ Laid(sent, got, Here)
  BY <1>1 DEF Position, Somewhere
<1>7. Laid(sent, a, Waiting) /\ Laid(sent, b, Waiting + n)
  BY <1>2, <1>3, <1>4, <1>6, LaidSplit
<1> HIDE DEF a, b
<1>8. Laid(sent, got \o a, Here) /\ Len(got \o a) = Len(got) + n
  <2>1. Laid(sent, a, Here + Len(got))
    BY <1>3, <1>7
  <2> QED
    BY <1>2, <1>3, <1>5, <1>6, <2>1, LaidJoin, Joins
<1>9. Behind' = Behind /\ Waiting' = Waiting + n /\ Here' = Here
  <2>1. Behind' = Behind
    BY <1>1 DEF Behind, Carried
  <2>2. Waiting' = Waiting + n
    BY <1>1, <1>3, <1>4, <1>5, <2>1 DEF Waiting
  <2> QED
    BY <1>1, <1>3, <1>4, <1>8, <2>1, <2>2 DEF Here
<1>10. Coming'
  BY <1>1, <1>9 DEF Position, Coming
<1>11. Somewhere'
  BY <1>1, <1>7, <1>8, <1>9 DEF Position, Somewhere
<1>12. want = "body" => got'[1] = got[1]
  <2>1. want = "body" => got # <<>>
    BY <1>2 DEF Parser
  <2> QED
    BY <1>2, <2>1, ReadStream
<1>13. Chained' /\ InOnePiece' /\ Aligned' /\ OnCourse'
  BY <1>1, <1>9, <1>12, SamePlace
<1> QED
  BY <1>10, <1>11, <1>13 DEF Position

\* More of a frame is asked for: a kSof is only taken at the start of a
\* clean frame, and an accepted header lies within one frame.
LEMMA AdvancePlace ==
  ASSUME IInv, Position, TakeSof \/ TakeHeader
  PROVE  Position'
<1>1. /\ sent' = sent /\ line' = line /\ input' = input /\ got' = got /\ fd' = fd
      /\ since' = since /\ published' = published /\ Missing = 0
  BY DEF TakeSof, TakeHeader, Resume, lineVars, portVars, outVars
<1>2. Stream /\ Parser /\ Chained /\ Somewhere
  BY DEF IInv, Position
<1>3. Behind' = Behind /\ Waiting' = Waiting /\ Here' = Here
  BY <1>1 DEF Behind, Waiting, Here, Carried
<1>4. Chained' /\ Coming' /\ Somewhere'
  BY <1>1, <1>3 DEF Position, Chained, Coming, Somewhere
<1>5. OnCourse'
  <2> SUFFICES ASSUME fd = "open", NEW k \in since + 1 .. Len(sent), sent[k].whole, InStep(k)'
               PROVE  \/ Here <= sent[k].from
                      \/ sent[k].to <= Here /\ (sent[k].kind = Imu => Heard(k)')
    BY <1>1, <1>3 DEF OnCourse
  <2>1. InStep(k) /\ Heard(k)' = Heard(k)
    BY <1>1, SameSteps
  <2> QED
    BY <2>1 DEF Position, OnCourse
<1>6. CASE TakeSof
  <2>1. want = "sof" /\ want' = "header" /\ IsSof(got[1])
    BY <1>6 DEF TakeSof, Resume
  <2>2. InOnePiece'
    BY <2>1 DEF InOnePiece
  <2>3. Aligned'
    <3> SUFFICES ASSUME fd = "open", NEW k \in DOMAIN sent, Clean(sent[k]),
                        sent[k].from <= Here, Here < sent[k].to
                 PROVE  Here = sent[k].from
      BY <1>1, <1>3 DEF Aligned, Clean
    <3>1. got # <<>>
      <4>1. Len(got) = 1
        BY <1>1, <1>2, <2>1, Totals DEF Missing, Total
      <4> QED
        BY <4>1, EmptySeq
    <3>2. /\ got[1].frame \in DOMAIN sent
          /\ sent[got[1].frame].from <= Here /\ Here < sent[got[1].frame].to
          /\ sent[got[1].frame].whole =>
               got[1].value = "right" /\ got[1].pos = Here + 1 - sent[got[1].frame].from
      BY <1>2, <3>1, FirstByte
    <3>3. Here \in Int /\ sent[k].from \in Nat /\ sent[k].to \in Nat
          /\ sent[got[1].frame].from \in Nat /\ sent[got[1].frame].to \in Nat
      BY <1>2, <3>2, Spots
    <3>4. got[1].frame = k
      <4>1. /\ Here + 1 \in Int /\ sent[k].from < Here + 1 /\ Here + 1 <= sent[k].to
            /\ sent[got[1].frame].from < Here + 1 /\ Here + 1 <= sent[got[1].frame].to
        BY <3>2, <3>3
      <4> QED
        BY <1>2, <3>2, <4>1, OneFrame
    <3>5. sent[k].whole /\ sent[k].at = 0
      BY DEF Clean
    <3>6. got[1].value = "right" /\ got[1].pos = Here + 1 - sent[k].from
      BY <3>2, <3>4, <3>5
    <3>7. got[1].pos = 1
      <4>1. got[1].pos \in {1, sent[k].at}
        BY <2>1, <3>4, <3>6 DEF IsSof
      <4>2. got[1].pos \in Nat \ {0}
        BY <1>2, <3>1, GotFrame DEF Byte
      <4> QED
        BY <3>5, <4>1, <4>2
    <3> QED
      BY <3>3, <3>6, <3>7
  <2> QED
    BY <1>4, <1>5, <2>2, <2>3 DEF Position
<1>7. CASE TakeHeader
  <2>1. want = "header" /\ want' = "body" /\ HeaderRight(got)
    BY <1>7 DEF TakeHeader, Resume
  <2>2. Aligned'
    BY <1>1, <1>3, <2>1 DEF Position, Aligned, Clean
  <2>3. InOnePiece'
    <3> SUFFICES ASSUME fd = "open" PROVE Here + HeaderSize <= sent[got[1].frame].to
      BY <1>1, <1>3 DEF InOnePiece
    <3>1. Len(got) = HeaderSize
      BY <1>1, <1>2, <2>1, Totals, Sizes DEF Missing, Total
    <3>2. HeaderSize \in DOMAIN got
      BY <1>2, <3>1, ByteTypes, Sizes DEF Stream
    <3>3. got[HeaderSize].frame = got[1].frame
      BY <2>1, <3>2 DEF HeaderRight, OnePiece
    <3>4. InPlace(sent, got[HeaderSize], Here + HeaderSize)
      BY <1>2, <3>2 DEF Somewhere, Laid
    <3> QED
      BY <3>3, <3>4 DEF InPlace
  <2> QED
    BY <1>4, <1>5, <2>2, <2>3 DEF Position
<1> QED
  BY <1>6, <1>7

\* What the parser had is judged.
LEMMA JudgePlace ==
  ASSUME IInv, Position, SkipByte \/ DropHeader \/ DropFrame \/ TakeFrame
  PROVE  Position'
<1>1. /\ sent' = sent /\ line' = line /\ input' = input /\ got' = <<>> /\ want' = "sof" /\ fd' = fd
      /\ since' = since /\ Missing = 0
  BY DEF SkipByte, DropHeader, DropFrame, TakeFrame, Resume, lineVars, portVars
<1>2. /\ Stream /\ Parser /\ Output /\ Chained /\ Coming /\ Somewhere /\ InOnePiece /\ Aligned
      /\ since \in Nat
  BY DEF IInv, Position, Control
<1>3. /\ Behind \in Int /\ Waiting \in Int /\ Here \in Int /\ Waiting = Here + Len(got)
      /\ Len(got) \in Nat /\ Len(sent) \in Nat /\ DOMAIN sent = 1 .. Len(sent)
      /\ \A n \in DOMAIN sent : sent[n].from \in Nat /\ sent[n].to \in Nat
  BY <1>2, Spots
<1>4. Behind' = Behind /\ Waiting' = Waiting /\ Here' = Here + Len(got)
  <2>1. Len(<<>>) = 0
    BY EmptySeq
  <2>2. Behind' = Behind /\ Waiting' = Waiting
    BY <1>1 DEF Behind, Waiting, Carried
  <2>3. Here' = Waiting - 0
    BY <1>1, <2>1, <2>2 DEF Here
  <2> QED
    BY <1>3, <2>2, <2>3
<1>5. Chained' /\ Coming' /\ InOnePiece' /\ Aligned'
  BY <1>1, <1>2, <1>4 DEF Chained, Coming, InOnePiece, Aligned
<1>6. Somewhere'
  <2>1. since # 0 => since \in DOMAIN sent
    BY <1>2, <1>3 DEF Somewhere
  <2>2. fd = "open" => Here + Len(got) \in Nat /\ (since # 0 => sent[since].from <= Here + Len(got))
    BY <1>2, <1>3, <2>1 DEF Somewhere
  <2>3. Laid(sent, <<>>, Here + Len(got))
    BY LaidEmpty
  <2> QED
    BY <1>1, <1>2, <1>4, <2>2, <2>3 DEF Somewhere
<1>7. ASSUME NEW k \in DOMAIN sent, Heard(k) PROVE Heard(k)'
  <2>1. CASE published' = published
    BY <1>7, <2>1 DEF Heard
  <2>2. CASE TakeFrame /\ published' # published
    <3>1. published' = Append(published, [frame |-> got[1].frame, sequence |-> sequence + 1,
                                          whole |-> FrameRight(got)])
      BY <2>2 DEF TakeFrame, outVars
    <3>2. published \in Seq(Message)
      BY <1>2 DEF Output
    <3>3. \A m \in DOMAIN published : m \in DOMAIN published' /\ published'[m] = published[m]
      BY <3>1, <3>2, LenProperties
    <3> QED
      BY <1>7, <3>3 DEF Heard
  <2> QED
    BY <2>1, <2>2 DEF SkipByte, DropHeader, DropFrame, outVars
<1>8. ASSUME fd = "open", NEW k \in since + 1 .. Len(sent), sent[k].whole, InStep(k)
      PROVE  \/ Here' <= sent[k].from
             \/ sent[k].to <= Here' /\ (sent[k].kind = Imu => Heard(k)')
  <2>0. k \in DOMAIN sent
    BY <1>2, <1>3
  <2>1. CASE Here < sent[k].from
    BY <1>1, <1>2, <1>4, <1>8, <2>1, NotPast
  <2>2. CASE Here = sent[k].from
    <3>1. /\ want = "sof" => IsSof(got[1])
          /\ want = "header" => HeaderRight(got)
          /\ want = "body" => FrameRight(got) /\ got[1].frame = k /\ Here + Len(got) = sent[k].to
      BY <1>1, <1>2, <1>8, <2>0, <2>2, WholeTaken
    <3>2. TakeFrame /\ want = "body"
      BY <3>1 DEF SkipByte, DropHeader, DropFrame, TakeFrame
    <3>3. Here' = sent[k].to
      BY <1>4, <3>1, <3>2
    <3>4. ASSUME sent[k].kind = Imu PROVE Heard(k)'
      <4>1. IsImu
        BY <3>1, <3>2, <3>4 DEF IsImu, Imu
      <4>2. published' = Append(published, [frame |-> got[1].frame, sequence |-> sequence + 1,
                                            whole |-> FrameRight(got)])
        BY <3>2, <4>1 DEF TakeFrame
      <4>3. published \in Seq(Message)
        BY <1>2 DEF Output
      <4>4. Len(published) + 1 \in DOMAIN published' /\ published'[Len(published) + 1].frame = got[1].frame
        BY <4>2, <4>3, LenProperties
      <4> QED
        BY <3>1, <3>2, <4>4 DEF Heard
    <3> QED
      BY <1>3, <2>0, <3>3, <3>4
  <2>3. CASE Here > sent[k].from
    <3>1. sent[k].to <= Here /\ (sent[k].kind = Imu => Heard(k))
      BY <1>3, <1>8, <2>0, <2>3 DEF Position, OnCourse
    <3>2. sent[k].to <= Here'
      BY <1>3, <1>4, <2>0, <3>1
    <3> QED
      BY <1>7, <2>0, <3>1, <3>2
  <2> QED
    BY <1>3, <2>0, <2>1, <2>2, <2>3
\* A frame that has just been published ends where the parser now is.
<1>9. ASSUME fd = "open", NEW k \in since + 1 .. Len(sent), InStep(k)', ~ InStep(k)
      PROVE  Here' <= sent[k].from
  <2>0. k \in DOMAIN sent /\ k \in Nat
    BY <1>2, <1>3
  <2>1. PICK j \in since + 1 .. k : InTime(j)' /\ ~ InTime(j)
    BY <1>1, <1>9 DEF InStep, Clean
  <2>2. j > since + 1 /\ Heard(j - 1)' /\ ~ Heard(j - 1)
    BY <1>1, <2>1 DEF InTime, Clean, Heard
  <2>3. published' # published
    BY <2>2 DEF Heard
  <2>4. /\ TakeFrame /\ FrameRight(got) /\ want = "body"
        /\ published' = Append(published, [frame |-> got[1].frame, sequence |-> sequence + 1,
                                           whole |-> FrameRight(got)])
    BY <2>3 DEF TakeFrame, SkipByte, DropHeader, DropFrame, outVars
  <2>5. got[1].frame = j - 1
    <3>1. published \in Seq(Message)
      BY <1>2 DEF Output
    <3>2. \A m \in DOMAIN published' :
            \/ m \in DOMAIN published /\ published'[m] = published[m]
            \/ published'[m].frame = got[1].frame
      BY <2>4, <3>1, LenProperties
    <3> QED
      BY <2>2, <3>2 DEF Heard
  <2>6. Len(got) \in DOMAIN got /\ got # <<>>
    <3>1. got # <<>>
      BY <1>2, <2>4 DEF Parser
    <3> QED
      BY <1>2, <3>1, ByteTypes, EmptySeq DEF Stream
  <2>7. got[Len(got)].frame = j - 1
    BY <2>4, <2>5, <2>6 DEF FrameRight, OnePiece
  <2>8. InPlace(sent, got[Len(got)], Here + Len(got))
    BY <1>2, <1>9, <2>6 DEF Somewhere, Laid
  <2>9. Here + Len(got) <= sent[j - 1].to
    BY <2>7, <2>8 DEF InPlace
  <2>10. j \in DOMAIN sent /\ j - 1 \in DOMAIN sent /\ j = (j - 1) + 1 /\ j \in Nat /\ j <= k
    BY <1>2, <1>3, <2>0, <2>2
  <2>11. sent[j - 1].to = sent[j].from
    BY <1>2, <2>10 DEF Chained
  <2>12. sent[j].from <= sent[k].from
    <3>1. CASE j < k
      <4>1. sent[j].from <= sent[j].to /\ sent[j].to <= sent[k].from
        BY <1>2, <2>0, <2>10, <3>1 DEF Chained
      <4> QED
        BY <1>3, <2>0, <2>10, <4>1
    <3>2. CASE j = k
      BY <1>3, <2>0, <3>2
    <3> QED
      BY <2>0, <2>10, <3>1, <3>2
  <2> QED
    BY <1>3, <1>4, <2>0, <2>9, <2>10, <2>11, <2>12
<1>10. OnCourse'
  <2> SUFFICES ASSUME fd = "open", NEW k \in since + 1 .. Len(sent), sent[k].whole, InStep(k)'
               PROVE  \/ Here' <= sent[k].from
                      \/ sent[k].to <= Here' /\ (sent[k].kind = Imu => Heard(k)')
    BY <1>1 DEF OnCourse
  <2> QED
    BY <1>8, <1>9
<1> QED
  BY <1>5, <1>6, <1>10 DEF Position

\* After the port is opened the parser is before what is left on the line.
LEMMA OpenPlace ==
  ASSUME IInv, Position, Open
  PROVE  Position'
<1>1. /\ sent' = sent /\ line' = line /\ input' = <<>> /\ got' = <<>> /\ want' = "sof"
      /\ since' = Len(sent)
  BY DEF Open, lineVars
<1>2. Stream /\ Chained /\ Coming
  BY DEF IInv, Position
<1>3. Behind \in Int /\ Len(sent) \in Nat /\ DOMAIN sent = 1 .. Len(sent)
  BY <1>2, Spots
<1>4. Behind' = Behind /\ Waiting' = Behind /\ Here' = Behind
  <2>1. Len(<<>>) = 0
    BY EmptySeq
  <2>2. Behind' = Behind
    BY <1>1 DEF Behind, Carried
  <2>3. Waiting' = Behind
    BY <1>1, <1>3, <2>1, <2>2 DEF Waiting
  <2> QED
    BY <1>1, <1>3, <2>1, <2>2, <2>3 DEF Here
<1>5. Chained' /\ Coming' /\ InOnePiece' /\ Aligned'
  BY <1>1, <1>2, <1>4 DEF Chained, Coming, InOnePiece, Aligned
<1>6. Somewhere'
  <2>1. Behind \in Nat /\ (Len(sent) # 0 => sent[Len(sent)].from <= Behind)
    BY <1>2, <1>3 DEF Coming
  <2>2. Laid(sent, <<>>, Behind)
    BY LaidEmpty
  <2> QED
    BY <1>1, <1>3, <1>4, <2>1, <2>2 DEF Somewhere
<1>7. OnCourse'
  BY <1>1, <1>3 DEF OnCourse
<1> QED
  BY <1>5, <1>6, <1>7 DEF Position

\* A frame is sent: the parser is not past its start.
LEMMA SendPlace ==
  ASSUME IInv, Position, Send
  PROVE  Position'
<1>1. PICK kind \in Kinds, mimic \in Lengths \cup {NoHeader} :
        \E at \in {0} \cup (HeaderSize + 1) .. FrameSize(kind.len) :
          \E c \in Carriages(kind.len, at) : SendFrame(kind, at, mimic, c)
  BY DEF Send
<1>2. PICK at \in {0} \cup (HeaderSize + 1) .. FrameSize(kind.len) :
        \E c \in Carriages(kind.len, at) : SendFrame(kind, at, mimic, c)
  BY <1>1
<1>3. PICK c \in Carriages(kind.len, at) : SendFrame(kind, at, mimic, c)
  BY <1>2
<1> DEFINE new == [kind |-> kind, at |-> at, mimic |-> mimic,
                   whole |-> c.bytes = RightBytes(kind.len),
                   from |-> Carried, to |-> Carried + Len(c.bytes)]
           k == Len(sent) + 1
<1>4. /\ line = <<>> /\ line' = c.bytes /\ sent' = Append(sent, new)
      /\ input' = input /\ got' = got /\ want' = want /\ fd' = fd /\ since' = since
      /\ published' = published
  BY <1>3 DEF Send, SendFrame, portVars, parserVars, outVars
<1>5. /\ Stream /\ Parser /\ Output /\ Chained /\ Coming /\ Somewhere /\ InOnePiece /\ Aligned /\ OnCourse
      /\ flaws \in Nat /\ since \in Nat
  BY DEF IInv, Position, Control
<1>6. /\ Carried \in Nat /\ Len(sent) \in Nat /\ DOMAIN sent = 1 .. Len(sent) /\ sent \in Seq(Sent)
      /\ Behind \in Int /\ Waiting \in Int /\ Here \in Int
      /\ Carried = Behind + Len(line) /\ Behind = Waiting + Len(input) /\ Waiting = Here + Len(got)
      /\ Len(line) \in Nat /\ Len(input) \in Nat /\ Len(got) \in Nat
  BY <1>5, Spots DEF Stream
<1>a. \A n \in DOMAIN sent : sent[n].from \in Nat /\ sent[n].to \in Nat /\ sent[n].to <= Carried
  BY <1>5, Spots
<1>b. Len(line) = 0 /\ Behind = Carried
  <2>1. Len(line) = 0
    BY <1>4, EmptySeq
  <2> QED
    BY <1>6, <2>1
<1>7. /\ Stream' /\ \A i \in DOMAIN line' : line'[i].frame = k
      /\ \A n \in DOMAIN sent : sent'[n] = sent[n]
  BY <1>5, SendStream
<1>8. line' \in Seq(Byte) /\ Len(c.bytes) \in Nat /\ DOMAIN c.bytes = 1 .. Len(c.bytes)
  <2>1. line' \in Seq(Byte)
    BY <1>7 DEF Stream
  <2> QED
    BY <1>4, <2>1, ByteTypes
<1>9. /\ new.from = Carried /\ new.to = Carried + Len(c.bytes) /\ new.kind = kind
      /\ new.whole = (c.bytes = RightBytes(kind.len))
  OBVIOUS
<1>c. k \notin DOMAIN sent /\ k \in Nat
  BY <1>6
<1> HIDE DEF new
<1>10. DOMAIN sent' = DOMAIN sent \cup {k} /\ Len(sent') = k /\ sent'[k] = new
  <2>1. Len(Append(sent, new)) = Len(sent) + 1 /\ Append(sent, new)[Len(sent) + 1] = new
    BY <1>6, AppendProperties
  <2>2. sent' \in Seq(Sent)
    BY <1>7 DEF Stream
  <2>3. DOMAIN sent' = 1 .. Len(sent) + 1
    BY <1>4, <2>1, <2>2, LenProperties
  <2> QED
    BY <1>4, <1>6, <2>1, <2>3
<1>d. kind.len \in Nat /\ FrameSize(kind.len) \in Nat
  BY SerialAssumption, Sizes
<1>11. ASSUME new.whole
       PROVE  /\ Len(c.bytes) = FrameSize(kind.len)
              /\ \A i \in DOMAIN c.bytes : c.bytes[i].value = "right" /\ c.bytes[i].pos = i
  <2>1. c.bytes = [i \in 1 .. FrameSize(kind.len) |-> [frame |-> Len(sent) + 1, pos |-> i, value |-> "right"]]
    BY <1>9, <1>11 DEF RightBytes
  <2>2. DOMAIN c.bytes = 1 .. FrameSize(kind.len)
    BY <2>1
  <2>3. Len(c.bytes) = FrameSize(kind.len)
    BY <1>4, <1>8, <1>d, <2>2, LenProperties
  <2>4. ASSUME NEW i \in DOMAIN c.bytes PROVE c.bytes[i].value = "right" /\ c.bytes[i].pos = i
    <3>1. c.bytes[i] = [frame |-> Len(sent) + 1, pos |-> i, value |-> "right"]
      BY <2>1, <2>2
    <3> QED
      BY <3>1
  <2> QED
    BY <2>3, <2>4
<1> HIDE DEF k
<1>12. Chained'
  <2>1. ASSUME NEW n \in DOMAIN sent'
        PROVE  /\ sent'[n].from <= sent'[n].to
               /\ sent'[n].whole => sent'[n].to = sent'[n].from + FrameSize(sent'[n].kind.len)
               /\ n = 1 => sent'[n].from = 0
    <3>1. CASE n \in DOMAIN sent
      BY <1>5, <1>7, <3>1 DEF Chained
    <3>2. CASE n = k
      <4>1. n = 1 => Carried = 0
        <5>1. n = 1 => Len(sent) = 0
          BY <1>6, <3>2 DEF k
        <5>2. Len(sent) = 0 => sent = <<>>
          BY <1>6, EmptySeq
        <5> QED
          BY <5>1, <5>2 DEF Carried
      <4> QED
        <5>1. new.from <= new.to
          <6>1. \A a, l \in Nat : a <= a + l
            OBVIOUS
          <6> QED
            BY <1>6, <1>8, <1>9, <6>1
        <5>2. new.whole => new.to = new.from + FrameSize(new.kind.len)
          BY <1>9, <1>11
        <5> QED
          BY <1>9, <1>10, <3>2, <4>1, <5>1, <5>2
    <3> QED
      BY <1>10, <3>1, <3>2
  <2>2. ASSUME NEW j \in DOMAIN sent', NEW n \in DOMAIN sent'
        PROVE  /\ j < n => sent'[j].to <= sent'[n].from
               /\ n = j + 1 => sent'[j].to = sent'[n].from
    <3>1. CASE j \in DOMAIN sent /\ n \in DOMAIN sent
      BY <1>5, <1>7, <3>1 DEF Chained
    <3>2. CASE j \in DOMAIN sent /\ n = k
      <4>1. sent'[j] = sent[j] /\ sent'[n].from = Carried
        BY <1>7, <1>9, <1>10, <3>2
      <4>2. n = j + 1 => sent[j].to = Carried
        <5>1. n = j + 1 => j = Len(sent)
          BY <1>6, <3>2 DEF k
        <5>2. sent # <<>>
          BY <3>2, EmptySeq
        <5> QED
          BY <5>1, <5>2 DEF Carried
      <4> QED
        BY <1>a, <3>2, <4>1, <4>2
    <3>3. CASE j = k
      <4>1. ~ (j < n) /\ ~ (n = j + 1)
        BY <1>6, <1>10, <3>3 DEF k
      <4> QED
        BY <4>1
    <3> QED
      BY <1>10, <3>1, <3>2, <3>3
  <2> QED
    BY <2>1, <2>2 DEF Chained
<1>13. Carried' = Carried + Len(c.bytes) /\ Behind' = Behind
  <2>1. sent' # <<>>
    BY <1>10, EmptySeq
  <2>2. Carried' = Carried + Len(c.bytes)
    BY <1>9, <1>10, <2>1 DEF Carried
  <2> QED
    BY <1>4, <1>6, <1>8, <1>b, <2>2 DEF Behind
<1>14. Waiting' = Waiting /\ Here' = Here
  BY <1>4, <1>13 DEF Waiting, Here
<1>15. Coming'
  <2>1. \A n \in DOMAIN sent' : n = Len(sent') => sent'[n].from <= Behind
    BY <1>6, <1>9, <1>10, <1>b
  <2>2. ASSUME NEW i \in DOMAIN line' PROVE InPlace(sent', line'[i], Behind + i)
    <3>1. line'[i].frame = k /\ i \in 1 .. Len(c.bytes) /\ line'[i] = c.bytes[i]
      BY <1>4, <1>7, <1>8
    <3>2. Carried < Carried + i /\ Carried + i <= Carried + Len(c.bytes) /\ i = (Carried + i) - Carried
      <4>1. \A l \in Nat : i \in 1 .. l => i \in Nat \ {0} /\ i <= l
        OBVIOUS
      <4>2. i \in Nat \ {0} /\ i <= Len(c.bytes)
        BY <1>8, <3>1, <4>1
      <4>3. \A a, l \in Nat : i <= l => a < a + i /\ a + i <= a + l /\ i = (a + i) - a
        BY <4>2
      <4> QED
        BY <1>6, <1>8, <4>2, <4>3
    <3>3. new.whole => line'[i].value = "right" /\ line'[i].pos = i
      BY <1>8, <1>11, <3>1
    <3> QED
      BY <1>9, <1>10, <1>b, <3>1, <3>2, <3>3 DEF InPlace
  <2>3. Behind \in Nat
    BY <1>5 DEF Coming
  <2> QED
    BY <1>13, <2>1, <2>2, <2>3 DEF Coming, Laid
<1>16. ASSUME NEW s \in Seq(Byte), Known(s), NEW n, Laid(sent, s, n)
       PROVE  Laid(sent', s, n)
  <2> SUFFICES ASSUME NEW i \in DOMAIN s PROVE InPlace(sent', s[i], n + i)
    BY DEF Laid
  <2>1. s[i].frame \in DOMAIN sent
    BY <1>5, <1>16, ByteFrame
  <2>2. sent'[s[i].frame] = sent[s[i].frame]
    BY <1>7, <2>1
  <2>3. InPlace(sent, s[i], n + i)
    BY <1>16 DEF Laid
  <2> QED
    BY <2>2, <2>3 DEF InPlace
<1>e. since # 0 => since \in DOMAIN sent
  BY <1>5, <1>6 DEF Somewhere
<1>17. Somewhere'
  <2>1. since <= Len(sent')
    BY <1>5, <1>6, <1>10 DEF Somewhere, k
  <2>2. ASSUME fd = "open" PROVE Laid(sent', input, Waiting) /\ Laid(sent', got, Here)
    BY <1>5, <1>16, <2>2 DEF Stream, Somewhere
  <2>3. fd = "open" => Here \in Nat /\ (since # 0 => sent'[since].from <= Here)
    BY <1>5, <1>7, <1>e DEF Somewhere
  <2> QED
    BY <1>4, <1>14, <2>1, <2>2, <2>3 DEF Somewhere
<1>18. Here <= Carried
  BY <1>6
<1>19. InOnePiece'
  <2> SUFFICES ASSUME fd = "open", want = "body" PROVE Here + HeaderSize <= sent'[got[1].frame].to
    BY <1>4, <1>14 DEF InOnePiece
  <2>1. got # <<>>
    BY <1>5 DEF Parser
  <2>2. got[1].frame \in DOMAIN sent
    BY <1>5, <2>1, GotFrame
  <2> QED
    BY <1>5, <1>7, <2>2 DEF InOnePiece
<1>20. Aligned'
  <2> SUFFICES ASSUME fd = "open", want # "sof", NEW n \in DOMAIN sent', Clean(sent'[n]),
                      sent'[n].from <= Here, Here < sent'[n].to
               PROVE  Here = sent'[n].from
    BY <1>4, <1>14 DEF Aligned, Clean
  <2>1. CASE n \in DOMAIN sent
    BY <1>5, <1>7, <2>1 DEF Aligned
  <2>2. CASE n = k
    BY <1>6, <1>9, <1>10, <1>18, <2>2
  <2> QED
    BY <1>10, <2>1, <2>2
<1>21. OnCourse'
  <2> SUFFICES ASSUME fd = "open", NEW n \in since + 1 .. Len(sent'), sent'[n].whole, InStep(n)'
               PROVE  \/ Here <= sent'[n].from
                      \/ sent'[n].to <= Here /\ (sent'[n].kind = Imu => Heard(n)')
    BY <1>4, <1>14 DEF OnCourse
  <2>1. CASE n = k
    BY <1>9, <1>10, <1>18, <2>1
  <2>2. CASE n # k
    <3>1. n \in since + 1 .. Len(sent) /\ n \in DOMAIN sent
      BY <1>5, <1>6, <1>10, <2>2 DEF k
    <3>2. sent'[n] = sent[n] /\ Heard(n)' = Heard(n)
      BY <1>4, <1>7, <3>1 DEF Heard
    <3>3. InStep(n)
      <4>0. n \in Nat /\ n <= Len(sent) /\ since \in Nat
        BY <1>5, <1>6, <3>1
      <4>a. \A j \in since + 1 .. n : j \in DOMAIN sent /\ j \in Nat /\ since < j
        BY <1>6, <4>0
      <4>1. \A j \in since + 1 .. n : j \in DOMAIN sent /\ sent'[j] = sent[j]
        BY <1>7, <4>a
      <4>b. \A j \in since + 1 .. n : \A i \in j .. n - 1 : i \in since + 1 .. n
        BY <4>0, <4>a
      <4>2. \A j \in since + 1 .. n : \A i \in j .. n - 1 : i \in DOMAIN sent /\ sent'[i] = sent[i]
        BY <4>1, <4>b
      <4>3. since # 0 => sent'[since] = sent[since]
        BY <1>7, <1>e
      <4>4. PICK j \in since + 1 .. n :
              /\ \A i \in j .. n - 1 : Clean(sent'[i])
              /\ InTime(j)' \/ sent'[n].from - sent'[j].from >= MaxLength + CrcSize
        BY <1>4 DEF InStep, Clean
      <4>5. InTime(j)' => InTime(j)
        BY <1>4, <4>3 DEF InTime, Clean
      <4>6. \A i \in j .. n - 1 : Clean(sent[i])
        BY <4>2, <4>4
      <4> QED
        BY <3>2, <4>1, <4>4, <4>5, <4>6 DEF InStep
    <3> QED
      BY <1>5, <3>1, <3>2, <3>3 DEF OnCourse
  <2> QED
    BY <2>1, <2>2
<1> QED
  BY <1>12, <1>15, <1>17, <1>19, <1>20, <1>21 DEF Position

LEMMA PositionHolds == ASSUME IInv, Position, [Next]_vars PROVE Position'
<1>1. CASE Send
  BY <1>1, SendPlace
<1>2. CASE Arrive
  BY <1>2, ArrivePlace
<1>3. CASE ReadSome
  BY <1>3, ReadPlace
<1>4. CASE TakeSof \/ TakeHeader
  BY <1>4, AdvancePlace
<1>5. CASE SkipByte \/ DropHeader \/ DropFrame \/ TakeFrame
  BY <1>5, JudgePlace
<1>6. CASE Open
  BY <1>6, OpenPlace
<1>7. CASE ReadFails \/ Return \/ \E how \in {"failing", "hungup"} : Unplug(how)
  <2>1. UNCHANGED <<sent, since>> /\ line' \in {line, <<>>} /\ fd' # "open"
    BY <1>7 DEF ReadFails, Return, Unplug, lineVars
  <2> QED
    BY <2>1, Away
<1>8. CASE Suspend \/ PollOnce \/ OpenFails \/ Wake \/ Replug \/ RequestStop \/ UNCHANGED vars
  <2>1. UNCHANGED <<sent, line, input, want, got, fd, since, published>>
    BY <1>8 DEF Suspend, PollOnce, OpenFails, Wake, Replug, RequestStop, vars,
                lineVars, portVars, parserVars, outVars
  <2> QED
    BY <2>1, Quiet
<1> QED
  BY <1>1, <1>2, <1>3, <1>4, <1>5, <1>6, <1>7, <1>8 DEF Next, Node, ReadFrames, Environment

(* Once the parser is in step it misses no whole IMU frame: it gets over   *)
(* any damage and any imitated header with the longest payload's worth of  *)
(* clean bytes, for every size of headers, payloads and checksums, however *)
(* the bytes arrive, however often the device goes and comes back.         *)
(* Code: the continue statements of ReadFramesAsync.                       *)
THEOREM WholeFramesAreHeard == Spec => []WholeFramesHeard
<1>1. Init => IInv /\ Position
  <2> SUFFICES ASSUME Init PROVE Position
    BY Initial
  <2>1. sent = <<>> /\ line = <<>> /\ DOMAIN sent = {} /\ fd = "closed" /\ since = 0
    BY EmptySeq DEF Init
  <2>2. Chained
    BY <2>1 DEF Chained
  <2>3. Coming
    BY <2>1, EmptySeq, LaidEmpty DEF Coming, Behind, Carried
  <2>4. Somewhere /\ InOnePiece /\ Aligned /\ OnCourse
    BY <2>1, EmptySeq DEF Somewhere, InOnePiece, Aligned, OnCourse
  <2> QED
    BY <2>2, <2>3, <2>4 DEF Position
<1>2. IInv /\ Position /\ [Next]_vars => IInv' /\ Position'
  BY Inductive, PositionHolds
<1>3. IInv /\ Position => WholeFramesHeard
  <2> SUFFICES ASSUME IInv, Position, NEW k \in since + 1 .. Len(sent), fd = "open", sent[k].whole,
                      sent[k].kind = Imu, InStep(k), Consumed(k)
               PROVE  Heard(k)
    BY DEF WholeFramesHeard, Heard, Imu
  <2>1. Stream /\ Chained /\ Coming /\ Somewhere /\ since \in Nat
    BY DEF IInv, Position, Control
  <2>2. k \in DOMAIN sent /\ sent[k].from \in Nat /\ sent[k].to \in Nat /\ sent[k].to <= Carried
        /\ Here \in Int /\ Carried \in Nat
    <3>1. Len(sent) \in Nat /\ DOMAIN sent = 1 .. Len(sent)
      BY <2>1, Spots
    <3>2. k \in DOMAIN sent
      BY <2>1, <3>1
    <3> QED
      BY <2>1, <3>2, Spots
  <2>3. ~ (Here <= sent[k].from)
    <3> SUFFICES ASSUME Here <= sent[k].from PROVE FALSE
      OBVIOUS
    <3>1. sent[k].from + 1 <= sent[k].to
      <4>1. FrameSize(sent[k].kind.len) \in Nat /\ FrameSize(sent[k].kind.len) >= 1
        <5>1. sent[k].kind.len \in Nat
          BY <2>1, <2>2, SentTypes DEF Stream
        <5>2. \A l \in Nat : FrameSize(l) \in Nat /\ FrameSize(l) >= 1
          BY SerialAssumption DEF FrameSize
        <5> QED
          BY <5>1, <5>2
      <4> QED
        BY <2>1, <2>2, <4>1 DEF Chained
    <3>2. sent[k].from + 1 \in Int /\ Here < sent[k].from + 1 /\ sent[k].from + 1 <= Carried
          /\ sent[k].from < sent[k].from + 1
      BY <2>2, <3>1
    <3>3. PICK s \in {line, input, got} : \E i \in DOMAIN s :
            InPlace(sent, s[i], sent[k].from + 1) /\ s[i].frame \in DOMAIN sent
      BY <2>1, <3>2, StillThere
    <3>4. PICK i \in DOMAIN s : InPlace(sent, s[i], sent[k].from + 1) /\ s[i].frame \in DOMAIN sent
      BY <3>3
    <3>5. s[i].frame = k
      <4>1. sent[s[i].frame].from < sent[k].from + 1 /\ sent[k].from + 1 <= sent[s[i].frame].to
        BY <3>4 DEF InPlace
      <4> QED
        BY <2>1, <2>2, <3>1, <3>2, <3>4, <4>1, OneFrame
    <3> QED
      BY <3>3, <3>5 DEF Consumed
  <2> QED
    BY <2>3 DEF Position, OnCourse
<1> QED
  BY <1>1, <1>2, <1>3, PTL DEF Spec

=============================================================================
