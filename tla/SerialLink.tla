----------------------------- MODULE SerialLink -----------------------------
(***************************************************************************)
(* SerialImuNode: the reader of the serial line to the IMU.  run() opens   *)
(* the port, starts the coroutine ReadFramesAsync and polls until the      *)
(* coroutine fails or the process stops; after a failure it closes the     *)
(* port, sleeps and opens it again.                                        *)
(*                                                                         *)
(* The coroutine looks for a byte kSof, reads the rest of a header behind  *)
(* it, checks its CRC8, reads as many bytes as the header says and checks  *)
(* the frame's CRC16.  What it has read it never looks at again: a header  *)
(* that starts within a rejected one is lost.                              *)
(*                                                                         *)
(* The device and the line are the environment: frames are cut short or    *)
(* damaged on their way, bodies may contain kSof and whatever looks like a *)
(* header, the device may go and come back.  Of a byte's value the model   *)
(* keeps whether it is what was sent, and whether it is kSof.  Checksums   *)
(* are taken to be perfect: they are right for what was sent as one piece. *)
(***************************************************************************)
EXTENDS Integers, Sequences

CONSTANTS HeaderSize,   \* kHeaderSize, 4
          CrcSize,      \* kCrc16Size, 2
          ImuLength,    \* payload of a ReceiveImuData, 28
          Kinds,        \* the frames that occur: whether the id is kIdImu, and len
          MaxLength,    \* kMaxPayloadLen, 255
          NoHeader,     \* the "length" of a kSof no right CRC8 follows
          MaxFrame,     \* bound: frames the device sends
          MaxBacklog,   \* bound: bytes unread when it sends the next one
          MaxFlaws,     \* bound: damaged frames and bodies with a kSof
          MaxFails      \* bound: times the device goes away

ASSUME SerialAssumption ==
  /\ HeaderSize \in Nat \ {0, 1} /\ CrcSize \in Nat \ {0} /\ MaxLength \in Nat
  /\ Kinds \subseteq [imu : BOOLEAN, len : 0 .. MaxLength]
  /\ NoHeader \notin Nat
  /\ MaxFrame \in Nat /\ MaxBacklog \in Nat /\ MaxFlaws \in Nat /\ MaxFails \in Nat

Lengths == {k.len : k \in Kinds}

VARIABLES
  sent,         \* what the device sent, frame by frame
  line,         \* bytes on their way
  input,        \* bytes in the kernel's buffer
  flaws,        \* damaged frames and bodies with a kSof so far
  device,       \* "up" or "gone"
  fails,        \* times the device went away
  fd,           \* fd_: "closed", "open", "failing" or "hungup"
  pc,           \* where run() is
  want,         \* what ReadFramesAsync reads: "sof", "header" or "body"
  got,          \* the bytes of frame.bytes read so far
  pending,      \* pending_: the loop has an awaiter to call
  sequence,     \* messages made by run()
  published,    \* history: what was published
  since,        \* history: frames sent before the parser last started
  stop          \* IsYoloStopRequested()

lineVars == <<sent, line, flaws>>
portVars == <<device, fails, fd>>
parserVars == <<want, got>>
outVars == <<sequence, published>>
vars == <<lineVars, input, portVars, pc, parserVars, pending, outVars, since, stop>>

Byte == [frame : 1 .. MaxFrame, pos : Nat \ {0}, value : {"right", "wrong", "sof"}]

\* A frame sent: its id and length, where in its body a kSof is (0: nowhere)
\* and what length the header there pretends; and what became of it.
Sent == [kind : Kinds, at : Nat, mimic : Lengths \cup {NoHeader},
         whole : BOOLEAN, from : Nat, to : Nat]

FrameSize(len) == HeaderSize + len + CrcSize

Smaller(a, b) == IF a < b THEN a ELSE b

-----------------------------------------------------------------------------
(* The device and the line.                                                *)

\* Bytes put on the line so far.
Carried == IF sent = <<>> THEN 0 ELSE sent[Len(sent)].to

RightBytes(len) ==
  [i \in 1 .. FrameSize(len) |-> [frame |-> Len(sent) + 1, pos |-> i, value |-> "right"]]

\* Bytes i to j are lost; byte i is another one.
Cut(bytes, i, j) == SubSeq(bytes, 1, i - 1) \o SubSeq(bytes, j + 1, Len(bytes))

Changed(bytes, i, v) == [bytes EXCEPT ![i].value = v]

\* What the line may make of a frame.
Damaged(bytes) ==
  (UNION {{Cut(bytes, i, j) : j \in i .. Len(bytes)} : i \in 1 .. Len(bytes)})
  \cup {Changed(bytes, i, "wrong") : i \in 1 .. Len(bytes)}
  \cup {Changed(bytes, i, "sof") : i \in 2 .. Len(bytes)}

\* What may become of the bytes, and how many flaws the frame then has.
Carriages(len, at) ==
  LET inBody == IF at = 0 THEN 0 ELSE 1
      right == RightBytes(len)
  IN  {[bytes |-> right, flaws |-> inBody]}
      \cup (IF flaws + inBody < MaxFlaws
            THEN {[bytes |-> b, flaws |-> inBody + 1] : b \in Damaged(right)} ELSE {})

SendFrame(kind, at, mimic, c) ==
  /\ flaws + c.flaws <= MaxFlaws
  /\ sent' = Append(sent, [kind |-> kind, at |-> at, mimic |-> mimic,
                           whole |-> c.bytes = RightBytes(kind.len),
                           from |-> Carried, to |-> Carried + Len(c.bytes)])
  /\ line' = c.bytes
  /\ flaws' = flaws + c.flaws
  /\ UNCHANGED <<input, portVars, pc, parserVars, pending, outVars, since, stop>>

\* (After a stop nobody reads what it sends: the model leaves it out.)
Send ==
  /\ ~ stop
  /\ device = "up"
  /\ line = <<>>
  /\ Len(input) <= MaxBacklog
  /\ Len(sent) < MaxFrame
  /\ \E kind \in Kinds, mimic \in Lengths \cup {NoHeader} :
       \E at \in {0} \cup (HeaderSize + 1) .. FrameSize(kind.len) :
         /\ at = 0 => mimic = NoHeader
         /\ \E c \in Carriages(kind.len, at) : SendFrame(kind, at, mimic, c)

\* The next byte reaches the port, and is lost when nobody has it open.
Arrive ==
  /\ line # <<>>
  /\ line' = Tail(line)
  /\ input' = IF fd = "open" THEN Append(input, Head(line)) ELSE input
  /\ UNCHANGED <<sent, flaws, portVars, pc, parserVars, pending, outVars, since, stop>>

\* The device goes: reads fail from now on, or return nothing for ever.
Unplug(how) ==
  /\ device = "up"
  /\ fails < MaxFails
  /\ device' = "gone"
  /\ fails' = fails + 1
  /\ fd' = IF fd = "open" THEN how ELSE fd
  /\ line' = <<>>
  /\ input' = <<>>
  /\ UNCHANGED <<sent, flaws, pc, parserVars, pending, outVars, since, stop>>

Replug ==
  /\ device = "gone"
  /\ device' = "up"
  /\ UNCHANGED <<lineVars, input, fails, fd, pc, parserVars, pending, outVars, since, stop>>

RequestStop ==
  /\ ~ stop
  /\ stop' = TRUE
  /\ UNCHANGED <<lineVars, input, portVars, pc, parserVars, pending, outVars, since>>

-----------------------------------------------------------------------------
(* The parser: ReadFramesAsync.                                            *)

\* A byte that reads as kSof.
IsSof(b) ==
  \/ b.value = "sof"
  \/ (b.value = "right" /\ b.pos \in {1, sent[b.frame].at})

\* The bytes of one frame as they were sent, without a gap.
OnePiece(bytes) ==
  \A i \in DOMAIN bytes :
    /\ bytes[i].value = "right"
    /\ bytes[i].frame = bytes[1].frame
    /\ bytes[i].pos = bytes[1].pos + i - 1

\* VerifyCrc8 of a header that starts with a kSof.
HeaderRight(bytes) ==
  /\ OnePiece(bytes)
  /\ bytes[1].pos = 1 \/ sent[bytes[1].frame].mimic # NoHeader

\* header.len
HeaderLen ==
  IF got[1].pos = 1 THEN sent[got[1].frame].kind.len ELSE sent[got[1].frame].mimic

\* VerifyCrc16 of the frame that was read.
FrameRight(bytes) ==
  /\ OnePiece(bytes)
  /\ bytes[1].pos = 1
  /\ Len(bytes) = FrameSize(sent[bytes[1].frame].kind.len)

\* Mutant of Total: the length is taken for that of the whole frame's rest.
TotalWithHeader ==
  CASE want = "sof" -> 1
    [] want = "header" -> HeaderSize
    [] want = "body" -> HeaderSize + HeaderSize + HeaderLen + CrcSize

\* The bytes of the frame to have when the ReadExact under way is done.
Total ==
  CASE want = "sof" -> 1
    [] want = "header" -> HeaderSize
    [] want = "body" -> FrameSize(HeaderLen)

Missing == Total - Len(got)

\* tryRead, when read() returns bytes: all that is missing, or all there is.
ReadSome ==
  /\ pc = "reading"
  /\ ~ stop
  /\ Missing > 0
  /\ fd = "open"
  /\ input # <<>>
  /\ LET n == Smaller(Missing, Len(input))
     IN  /\ got' = got \o SubSeq(input, 1, n)
         /\ input' = SubSeq(input, n + 1, Len(input))
  /\ UNCHANGED <<lineVars, portVars, pc, want, pending, outVars, since, stop>>

\* Mutant of Suspend: the loop forgets the awaiter before it tries to read.
SuspendForgotten ==
  /\ pc = "reading"
  /\ ~ stop
  /\ Missing > 0
  /\ fd = "hungup" \/ (fd = "open" /\ input = <<>>)
  /\ pc' = "polling"
  /\ pending' = ~ pending
  /\ UNCHANGED <<lineVars, input, portVars, parserVars, outVars, since, stop>>

\* tryRead, when read() has nothing: the awaiter is, or stays, the loop's.
Suspend ==
  /\ pc = "reading"
  /\ ~ stop
  /\ Missing > 0
  /\ fd = "hungup" \/ (fd = "open" /\ input = <<>>)
  /\ pc' = "polling"
  /\ pending' = TRUE
  /\ UNCHANGED <<lineVars, input, portVars, parserVars, outVars, since, stop>>

\* pollOnce: the port is readable, the loop calls the awaiter.
PollOnce ==
  /\ pc = "polling"
  /\ ~ stop
  /\ pending
  /\ input # <<>> \/ fd \in {"failing", "hungup"}
  /\ pc' = "reading"
  /\ UNCHANGED <<lineVars, input, portVars, parserVars, pending, outVars, since, stop>>

\* What is common to the ways on after a ReadExact: await_resume, and the
\* loop forgets the awaiter it called.
Resume(bytes, next) ==
  /\ pc = "reading"
  /\ Missing = 0
  /\ pending' = FALSE
  /\ got' = bytes
  /\ want' = next
  /\ UNCHANGED <<lineVars, input, portVars, pc, since, stop>>

\* sof != kSof
SkipByte ==
  /\ want = "sof"
  /\ Resume(<<>>, "sof")
  /\ ~ IsSof(got[1])
  /\ UNCHANGED outVars

TakeSof ==
  /\ want = "sof"
  /\ Resume(got, "header")
  /\ IsSof(got[1])
  /\ UNCHANGED outVars

DropHeader ==
  /\ want = "header"
  /\ Resume(<<>>, "sof")
  /\ ~ HeaderRight(got)
  /\ UNCHANGED outVars

TakeHeader ==
  /\ want = "header"
  /\ Resume(got, "body")
  /\ HeaderRight(got)
  /\ UNCHANGED outVars

DropFrame ==
  /\ want = "body"
  /\ Resume(<<>>, "sof")
  /\ ~ FrameRight(got)
  /\ UNCHANGED outVars

\* DecodeImuFrame
IsImu == LET kind == sent[got[1].frame].kind IN kind.imu /\ kind.len = ImuLength

\* Mutant of TakeFrame: the header's checksum is enough.
TakeAnyFrame ==
  /\ want = "body"
  /\ Resume(<<>>, "sof")
  /\ IF IsImu
     THEN /\ sequence' = sequence + 1
          /\ published' = Append(published, [frame |-> got[1].frame, sequence |-> sequence + 1,
                                             whole |-> FrameRight(got)])
     ELSE UNCHANGED outVars

\* on_frame: what is not an IMU frame is passed over.
TakeFrame ==
  /\ want = "body"
  /\ Resume(<<>>, "sof")
  /\ FrameRight(got)
  /\ IF IsImu
     THEN /\ sequence' = sequence + 1
          /\ published' = Append(published, [frame |-> got[1].frame, sequence |-> sequence + 1,
                                             whole |-> FrameRight(got)])
     ELSE UNCHANGED outVars

ReadFrames ==
  \/ ReadSome \/ Suspend
  \/ SkipByte \/ TakeSof \/ DropHeader \/ TakeHeader \/ DropFrame \/ TakeFrame

-----------------------------------------------------------------------------
(* The node: run().                                                        *)

\* open, with its tcflush, a new loop and a new coroutine.
Open ==
  /\ pc = "opening"
  /\ ~ stop
  /\ device = "up"
  /\ fd' = "open"
  /\ input' = <<>>
  /\ pc' = "reading"
  /\ want' = "sof"
  /\ got' = <<>>
  /\ pending' = FALSE
  /\ since' = Len(sent)
  /\ UNCHANGED <<lineVars, device, fails, outVars, stop>>

\* open throws: the port is closed and the node sleeps.
OpenFails ==
  /\ pc = "opening"
  /\ ~ stop
  /\ device = "gone"
  /\ pc' = "sleeping"
  /\ UNCHANGED <<lineVars, input, portVars, parserVars, pending, outVars, since, stop>>

\* Mutant of ReadFails: an error is taken for "nothing there".
ReadFailsAgain ==
  /\ pc = "reading"
  /\ ~ stop
  /\ Missing > 0
  /\ fd = "failing"
  /\ pc' = "polling"
  /\ pending' = TRUE
  /\ UNCHANGED <<lineVars, input, portVars, parserVars, outVars, since, stop>>

\* read() fails: await_resume throws through the coroutine, run() rethrows,
\* closes the port and sleeps.
ReadFails ==
  /\ pc = "reading"
  /\ ~ stop
  /\ Missing > 0
  /\ fd = "failing"
  /\ fd' = "closed"
  /\ got' = <<>>
  /\ want' = "sof"
  /\ pending' = FALSE
  /\ pc' = "sleeping"
  /\ UNCHANGED <<lineVars, input, device, fails, outVars, since, stop>>

Wake ==
  /\ pc = "sleeping"
  /\ pc' = "opening"
  /\ UNCHANGED <<lineVars, input, portVars, parserVars, pending, outVars, since, stop>>

\* Mutant of Return: only the coroutine looks at the stop.
ReturnFromRead ==
  /\ stop
  /\ pc = "opening" \/ (pc = "reading" /\ Missing > 0)
  /\ fd' = "closed"
  /\ got' = <<>>
  /\ want' = "sof"
  /\ pending' = FALSE
  /\ pc' = "returned"
  /\ UNCHANGED <<lineVars, input, device, fails, outVars, since, stop>>

\* A stop ends the coroutine at its next read, and both loops of run().
Return ==
  /\ stop
  /\ pc \in {"opening", "polling"} \/ (pc = "reading" /\ Missing > 0)
  /\ fd' = "closed"
  /\ got' = <<>>
  /\ want' = "sof"
  /\ pending' = FALSE
  /\ pc' = "returned"
  /\ UNCHANGED <<lineVars, input, device, fails, outVars, since, stop>>

Node == ReadFrames \/ PollOnce \/ Open \/ OpenFails \/ ReadFails \/ Wake \/ Return

Environment ==
  \/ Send \/ Arrive \/ Replug \/ RequestStop
  \/ \E how \in {"failing", "hungup"} : Unplug(how)

Init ==
  /\ sent = <<>> /\ line = <<>> /\ input = <<>> /\ flaws = 0
  /\ device = "up" /\ fails = 0 /\ fd = "closed"
  /\ pc = "opening" /\ want = "sof" /\ got = <<>> /\ pending = FALSE
  /\ sequence = 0 /\ published = <<>> /\ since = 0
  /\ stop = FALSE

Next == Node \/ Environment

Spec == Init /\ [][Next]_vars

FairSpec == Spec /\ WF_vars(Node)

-----------------------------------------------------------------------------

Message == [frame : 1 .. MaxFrame, sequence : Nat, whole : BOOLEAN]

TypeOK ==
  /\ sent \in Seq(Sent) /\ Len(sent) <= MaxFrame
  /\ line \in Seq(Byte) /\ input \in Seq(Byte) /\ got \in Seq(Byte)
  /\ flaws \in Nat /\ fails \in Nat
  /\ device \in {"up", "gone"}
  /\ fd \in {"closed", "open", "failing", "hungup"}
  /\ pc \in {"opening", "reading", "polling", "sleeping", "returned"}
  /\ want \in {"sof", "header", "body"}
  /\ want # "sof" => got # <<>>
  /\ Len(got) <= Total
  /\ pending \in BOOLEAN /\ stop \in BOOLEAN
  /\ sequence \in Nat
  /\ published \in Seq(Message)
  /\ since \in Nat

(* Every message published is a frame of the device, as it was sent and    *)
(* whole; each frame makes one message at most, in the order they were     *)
(* sent, and sequence numbers count them over all times the port is        *)
(* opened, whatever the line loses, damages or imitates.                   *)
(* Code: ReadFramesAsync with both checksums; sequence of run().           *)
PublishedAsSent ==
  \A m \in DOMAIN published :
    /\ published[m].whole
    /\ published[m].sequence = m
    /\ \A n \in 1 .. m - 1 : published[n].frame < published[m].frame

\* A whole frame in whose body nothing can be taken for a header.
Clean(f) == f.whole /\ f.at = 0

\* When frame j begins the parser is not inside another one: the frame before
\* was published, or j is the first since the port was opened and what was
\* left on the line then cannot be taken for a header.
InTime(j) ==
  \/ j = since + 1 /\ (since = 0 \/ Clean(sent[since]))
  \/ j > since + 1 /\ (\E m \in DOMAIN published : published[m].frame = j - 1)

\* Only clean frames come between frame k and one the parser was in time
\* for, or so many bytes of them that they get it over any frame it may have
\* taken to begin before.
InStep(k) ==
  \E j \in since + 1 .. k :
    /\ \A i \in j .. k - 1 : Clean(sent[i])
    /\ InTime(j) \/ sent[k].from - sent[j].from >= MaxLength + CrcSize

\* All bytes of frame k were read, and what was read of them was judged.
Consumed(k) ==
  \A s \in {line, input, got} : \A i \in DOMAIN s : s[i].frame # k

(* The parser gets in step again: after any damage or imitated header, and *)
(* once the longest payload's worth of clean bytes has come, every whole   *)
(* IMU frame is published.  In step it stays there: after the opening of   *)
(* the port, or a frame that was published, none is missed until one is    *)
(* damaged or looks like two, though the parser never looks twice at what  *)
(* it has read.                                                            *)
(* Code: the continue statements of ReadFramesAsync.                       *)
WholeFramesHeard ==
  \A k \in since + 1 .. Len(sent) :
    ( /\ fd = "open"
      /\ sent[k].whole /\ sent[k].kind = [imu |-> TRUE, len |-> ImuLength]
      /\ InStep(k)
      /\ Consumed(k) )
    => \E m \in DOMAIN published : published[m].frame = k

(* What has arrived is read, however the arrivals fall between the read    *)
(* and the wait for the next byte: the awaiter is never lost to the loop.  *)
(* Code: watchReadable, onReady and clear.                                 *)
BytesRead == input # <<>> ~> (input = <<>> \/ stop)

(* After a read error the port is opened again as soon as the device is    *)
(* there.  (A device that hangs up makes read() return 0 for ever: then    *)
(* nothing is opened again.)                                               *)
(* Code: the catch block of run().                                         *)
Reopened ==
  (fd = "failing" /\ device = "up") ~> (fd = "open" \/ device = "gone" \/ stop)

(* A stop ends the node, also while it waits for bytes that do not come or *)
(* the device has hung up.                                                 *)
(* Code: the conditions of the loops in run(), tryRead, ReadFramesAsync.   *)
StopReturns == stop ~> pc = "returned"

=============================================================================
