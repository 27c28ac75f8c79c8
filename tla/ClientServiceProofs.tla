------------------------ MODULE ClientServiceProofs ------------------------
(***************************************************************************)
(* The receive loop implements the safety half of HeartbeatService, for    *)
(* every buffer size, every set of chunk sizes and any number of frames,   *)
(* when nothing can be lost (Lossless).  That it also goes on until all is *)
(* done rests on fairness, and is left to TLC.                             *)
(***************************************************************************)
EXTENDS ClientLoopProofs

-----------------------------------------------------------------------------
(* What the service sees of the loop.                                      *)

Asks == [k \in 1..Len(sent) |-> IsRequest(PayloadOf(sent[k]))]

ArrivingFrames == {k \in 1..Len(sent) : Arrives(k)}

Line == IF TornBefore(Len(replies) + 1) THEN "torn" ELSE "whole"

PeerNow == IF closed THEN "gone" ELSE "connected"

ServiceNow ==
  IF pc = "returned" THEN "stopped" ELSE IF pc = "killed" THEN "killed" ELSE "running"

\* A step that moves none of these is a stutter of the service.
LEMMA StutterSeen ==
  ASSUME UNCHANGED <<Asks, ArrivingFrames, HandledCount, Answered, Line, PeerNow,
                     ServiceNow>>
  PROVE  UNCHANGED Service!serviceVars
BY DEF Service!serviceVars, Asks, ArrivingFrames, Line, PeerNow, ServiceNow

-----------------------------------------------------------------------------
(* The frames that arrive.                                                 *)

\* The members of a set of numbers that lacks none below its largest.
LEMMA InitialSegment ==
  ASSUME NEW n \in Nat, NEW T \in SUBSET (1..n), \A k \in T : 1..k \subseteq T
  PROVE  /\ Cardinality(T) \in 0..n
         /\ \A k \in 1..n : k \in T <=> k <= Cardinality(T)
<1>1. IsFiniteSet(1..n) /\ Cardinality(1..n) = n
  BY FS_Interval
<1>2. IsFiniteSet(T) /\ Cardinality(T) <= n
  BY <1>1, FS_Subset
<1>3. Cardinality(T) \in Nat
  BY <1>2, FS_CardinalityType
<1>4. ASSUME NEW k \in 1..n, k \in T
      PROVE  k <= Cardinality(T)
  <2>1. Cardinality(1..k) = k
    BY FS_Interval
  <2>2. Cardinality(1..k) <= Cardinality(T)
    BY <1>2, <1>4, FS_Subset
  <2> QED
    BY <2>1, <2>2
<1>5. ASSUME NEW k \in 1..n, k \notin T
      PROVE  Cardinality(T) < k
  <2>1. IsFiniteSet(1..(k - 1)) /\ Cardinality(1..(k - 1)) = k - 1
    BY FS_Interval
  <2>2. T \in SUBSET (1..(k - 1))
    <3>1. ASSUME NEW j \in T
          PROVE  j \in 1..(k - 1)
      <4>1. j \in 1..n /\ k \notin 1..j
        BY <1>5
      <4> QED
        BY <4>1
    <3> QED
      BY <3>1
  <2>3. Cardinality(T) <= Cardinality(1..(k - 1))
    BY <2>1, <2>2, FS_Subset
  <2> QED
    BY <1>3, <2>1, <2>3
<1> QED
  BY <1>2, <1>3, <1>4, <1>5

ArrivingCount == Cardinality(ArrivingFrames)

\* A frame arrives whole if a later one does; every frame returned has, and as
\* long as nothing is cut off every frame does.
FramesArrive ==
  /\ ArrivingCount \in 0..Len(sent)
  /\ \A k \in 1..Len(sent) : Arrives(k) <=> k <= ArrivingCount
  /\ HandledCount \in Nat /\ HandledCount <= Len(delivered)
  /\ Len(delivered) <= ArrivingCount
  /\ ~closed => ArrivingCount = Len(sent)

LEMMA ArrivalsCounted == LosslessInv => FramesArrive
<1> SUFFICES ASSUME LosslessInv PROVE FramesArrive
  OBVIOUS
<1>1. LoopInv /\ LoopTypes /\ IInv /\ TypeOK /\ FramesInOrder
  BY DEF LosslessInv, LoopInv, IInv
<1>2. /\ Len(wire) \in Nat /\ Len(sent) \in Nat /\ Len(delivered) \in Nat
      /\ fed \in Nat /\ fed <= Len(wire)
      /\ buffer_write - parser_read \in Nat
      /\ Len(delivered) <= Len(sent)
  BY <1>1, CursorTypes DEF IInv, DeliveredAsSent
<1>3. /\ cut \in Nat /\ fed <= Len(wire) - cut /\ (~closed => cut = 0)
  BY <1>1, <1>2 DEF LoopTypes
<1>4. \A k \in 1..Len(sent) : sent[k].at \in Nat /\ sent[k].length \in Nat
  BY <1>1, SentFrameTypes
<1>5. \A k \in ArrivingFrames : 1..k \subseteq ArrivingFrames
  <2>1. ASSUME NEW k \in 1..Len(sent), Arrives(k), NEW j \in 1..k
        PROVE  j \in 1..Len(sent) /\ Arrives(j)
    <3>1. j \in 1..Len(sent) /\ (j < k \/ j = k)
      BY <1>2
    <3>2. CASE j < k
      <4>1. sent[j].at + 4 + sent[j].length <= sent[k].at
        BY <1>1, <3>1, <3>2 DEF FramesInOrder
      <4> DEFINE a == sent[j].at
                 l == sent[j].length
                 b == sent[k].at
                 m == sent[k].length
      <4>2. a \in Nat /\ l \in Nat /\ b \in Nat /\ m \in Nat
        BY <1>4, <3>1
      <4>3. b + 4 + m <= Arriving
        BY <2>1 DEF Arrives
      <4>4. Arriving \in Int /\ a + 4 + l <= b
        BY <1>2, <1>3, <4>1 DEF Arriving
      <4> HIDE DEF a, l, b, m
      <4>5. a + 4 + l <= Arriving
        BY <4>2, <4>3, <4>4
      <4> QED
        BY <3>1, <4>5 DEF Arrives, a, l
    <3> QED
      BY <2>1, <3>1, <3>2
  <2> QED
    BY <2>1 DEF ArrivingFrames
<1>6. /\ ArrivingCount \in 0..Len(sent)
      /\ \A k \in 1..Len(sent) : k \in ArrivingFrames <=> k <= ArrivingCount
  <2>1. ArrivingFrames \in SUBSET (1..Len(sent))
    BY DEF ArrivingFrames
  <2> QED
    BY <1>2, <1>5, <2>1, InitialSegment DEF ArrivingCount
<1>7. \A k \in 1..Len(sent) : Arrives(k) <=> k <= ArrivingCount
  BY <1>6 DEF ArrivingFrames
<1>8. HandledCount \in Nat /\ HandledCount <= Len(delivered)
  BY <1>1, <1>2 DEF HandledCount, LoopTypes
<1>9. Len(delivered) <= ArrivingCount
  <2>1. CASE Len(delivered) = 0
    BY <1>6, <2>1
  <2>2. CASE Len(delivered) > 0
    <3> DEFINE k == Len(delivered)
    <3>1. k \in 1..Len(sent)
      BY <1>2, <2>2
    <3>2. fed - (buffer_write - parser_read) = sent[k].at + 4 + sent[k].length
      BY <1>1, <3>1 DEF IInv, WireFramed, ReadAtFrameStart
    <3>3. Arrives(k)
      BY <1>2, <1>3, <1>4, <3>1, <3>2 DEF Arrives, Arriving
    <3> QED
      BY <1>7, <3>1, <3>3
  <2> QED
    BY <1>2, <2>1, <2>2
<1>10. ASSUME ~closed
       PROVE  ArrivingCount = Len(sent)
  <2>1. \A k \in 1..Len(sent) : Arrives(k)
    BY <1>1, <1>2, <1>3, <1>10 DEF IInv, WireFramed, Arrives, Arriving
  <2>2. CASE Len(sent) = 0
    BY <1>6, <2>2
  <2>3. CASE Len(sent) > 0
    <3>1. Len(sent) \in 1..Len(sent)
      BY <1>2, <2>3
    <3>2. Len(sent) <= ArrivingCount
      BY <1>7, <2>1, <3>1
    <3> QED
      BY <1>2, <1>6, <3>2
  <2> QED
    BY <1>2, <2>2, <2>3
<1> QED
  BY <1>6, <1>7, <1>8, <1>9, <1>10 DEF FramesArrive

\* The same after a step.
LEMMA ArrivalsCountedNext == (LosslessInv => FramesArrive)'
<1>1. LosslessInv => FramesArrive
  BY ArrivalsCounted
<1> QED
  BY <1>1, PTL

-----------------------------------------------------------------------------
(* The steps the service does not see.                                     *)

LEMMA SameAsks ==
  ASSUME UNCHANGED <<wire, sent>>
  PROVE  UNCHANGED Asks
BY DEF Asks, IsRequest, PayloadOf

LEMMA SameArrivals ==
  ASSUME UNCHANGED <<wire, sent, cut>>
  PROVE  UNCHANGED ArrivingFrames
BY DEF ArrivingFrames, Arrives, Arriving

LEMMA SameAnswers ==
  ASSUME UNCHANGED replies
  PROVE  UNCHANGED <<Answered, Line>>
BY DEF Answered, Line, TornBefore

\* What the parser does between two frames handled does not show.
LEMMA QuietRefines ==
  ASSUME LosslessInv, Lossless,
         \/ \E n \in ChunkSizes : ReadChunk(n)
         \/ NextMessage \/ NoMessage \/ Compress \/ UNCHANGED clientVars
  PROVE  UNCHANGED Service!serviceVars
<1>1. UNCHANGED <<wire, sent, cut, replies, closed>>
  BY DEF ReadChunk, AddData, NextMessage, ReadNext, NoMessage, Compress,
         CompressSpace, clientVars, vars, loopVars, peerVars, outputVars, socketVars
<1>2. UNCHANGED HandledCount
  <2>1. CASE NextMessage
    <3> DEFINE payload == Payload(NextLength)
    <3>1. pc = "drain" /\ pc' = "handle" /\ delivered' = Append(delivered, payload)
      BY <2>1 DEF NextMessage, ReadNext
    <3>2. delivered \in Seq(Seq(Nat)) /\ payload \in Seq(Nat)
      BY <2>1, NextMessagePayload DEF LosslessInv, LoopInv, LoopTypes
    <3> HIDE DEF payload
    <3>3. Len(delivered') = Len(delivered) + 1 /\ Len(delivered) \in Nat
      BY <3>1, <3>2
    <3> QED
      BY <3>1, <3>3 DEF HandledCount
  <2>2. CASE ~NextMessage
    <3>1. UNCHANGED delivered /\ (pc' = "handle" <=> pc = "handle")
      BY <2>2 DEF ReadChunk, AddData, NoMessage, Compress, CompressSpace,
                  clientVars, vars, loopVars, callerVars
    <3> QED
      BY <3>1 DEF HandledCount
  <2> QED
    BY <2>1, <2>2
<1>3. UNCHANGED <<PeerNow, ServiceNow>>
  BY <1>1 DEF PeerNow, ServiceNow, ReadChunk, NextMessage, NoMessage, Compress,
              clientVars, loopVars
<1> QED
  BY <1>1, <1>2, <1>3, SameAsks, SameArrivals, SameAnswers, StutterSeen

-----------------------------------------------------------------------------
(* The peer.                                                               *)

\* A frame the peer sends asks for a heartbeat or does not.
LEMMA PeerSendRefines ==
  ASSUME LosslessInv, LosslessInv', PeerSend
  PROVE  \E heartbeat \in BOOLEAN : Service!Ask(heartbeat)
<1>1. PICK length \in FrameLengths, byte \in PayloadBytes : SendFrame(length, byte)
  BY DEF PeerSend
<1>2. /\ ~closed
      /\ UNCHANGED <<delivered, pc, replies, log, closed, cut, read_errors>>
  BY <1>1 DEF PeerSend, SendFrame, callerVars, loopVars
<1>3. /\ Len(sent) \in Nat /\ Len(sent') = Len(sent) + 1
      /\ \A k \in 1..Len(sent) : sent'[k] = sent[k]
  BY <1>1, SendFrameSent, CursorTypes DEF LosslessInv, IInv
<1>4. \A p \in 1..Len(wire) : wire'[p] = wire[p]
  BY <1>1, SendFrameBytes DEF LosslessInv, IInv
<1> DEFINE n == Len(sent)
           heartbeat == IsRequest(PayloadOf(sent[n + 1]))'
<1>5. ArrivingCount' = ArrivingCount + 1
  BY <1>2, <1>3, ArrivalsCounted, ArrivalsCountedNext DEF FramesArrive
<1>6. ASSUME NEW k \in 1..n
      PROVE  IsRequest(PayloadOf(sent[k]))' = IsRequest(PayloadOf(sent[k]))
  <2> DEFINE frame == PayloadOf(sent[k])
             at == sent[k].at
             l == sent[k].length
             end == Len(wire)
  <2>1. at \in Nat /\ l \in Nat /\ end \in Nat /\ at + 4 + l <= end
    BY SentFrameTypes, CursorTypes DEF LosslessInv, IInv, WireFramed
  <2>2. frame = [i \in 1..l |-> at + 4 + i] /\ sent'[k] = sent[k]
    BY <1>3 DEF PayloadOf
  <2>3. PayloadOf(sent[k])' = frame
    BY <2>2 DEF PayloadOf
  <2> HIDE DEF at, l, end
  <2>4. Len(frame) = l
    BY <2>1, <2>2
  <2>5. Len(frame) >= MandatorySize => frame[1] \in 1..end
    BY <2>1, <2>2, <2>4 DEF MandatorySize
  <2> HIDE DEF frame
  <2>6. Len(frame) >= MandatorySize => wire'[frame[1]] = wire[frame[1]]
    BY <1>4, <2>5 DEF end
  <2> QED
    BY <2>3, <2>6 DEF IsRequest, frame
<1>7. Asks' = Append(Asks, heartbeat)
  <2> DEFINE ask(k) == IsRequest(PayloadOf(sent[k]))
             askNext(k) == IsRequest(PayloadOf(sent[k]))'
  <2>1. /\ Asks = [k \in 1..n |-> ask(k)]
        /\ Asks' = [k \in 1..(n + 1) |-> askNext(k)]
        /\ heartbeat = askNext(n + 1)
    BY <1>3 DEF Asks
  <2>2. \A k \in 1..n : askNext(k) = ask(k)
    BY <1>6
  <2>3. n \in Nat
    BY <1>3
  <2> HIDE DEF ask, askNext, n, heartbeat
  <2>4. Append(Asks, heartbeat) =
          [k \in 1..(n + 1) |-> IF k <= n THEN ask(k) ELSE heartbeat]
    BY <2>1, <2>3
  <2>5. \A k \in 1..(n + 1) : askNext(k) = IF k <= n THEN ask(k) ELSE heartbeat
    BY <2>1, <2>2, <2>3
  <2> QED
    BY <2>1, <2>4, <2>5
<1>8. heartbeat \in BOOLEAN
  BY DEF IsRequest
<1>9. UNCHANGED <<HandledCount, Answered, Line, PeerNow, ServiceNow>>
  BY <1>2, SameAnswers DEF HandledCount, PeerNow, ServiceNow
<1>10. Service!Ask(heartbeat)
  <2>1. PeerNow = "connected"
    BY <1>2 DEF PeerNow
  <2> HIDE DEF heartbeat
  <2> QED
    BY <1>5, <1>7, <1>9, <2>1
       DEF Service!Ask, Asks, ArrivingCount, ArrivingFrames, Line, PeerNow, ServiceNow
<1> QED
  BY <1>8, <1>10

\* A peer that closes the connection may take back only what the loop has not
\* accepted, so no frame the loop has handled.
LEMMA PeerCloseRefines ==
  ASSUME LosslessInv, LosslessInv', NEW n \in CutLengths, PeerClose(n)
  PROVE  Service!HangUp
<1>1. /\ ~closed /\ closed' = TRUE
      /\ UNCHANGED <<wire, sent, delivered, pc, replies>>
  BY DEF PeerClose, vars, outputVars
<1>2. UNCHANGED <<Asks, HandledCount, Answered, Line, ServiceNow>>
  BY <1>1, SameAsks, SameAnswers DEF HandledCount, ServiceNow
<1>3. ArrivingCount' \in HandledCount..ArrivingCount
  <2>1. Len(sent) \in Nat /\ Len(delivered) \in Nat
    BY CursorTypes DEF LosslessInv, IInv
  <2>2. FramesArrive /\ FramesArrive'
    BY ArrivalsCounted, ArrivalsCountedNext
  <2>3. /\ ArrivingCount = Len(sent) /\ ArrivingCount' \in 0..Len(sent)
        /\ HandledCount \in Nat /\ HandledCount <= Len(delivered)
        /\ Len(delivered) <= ArrivingCount'
    BY <1>1, <2>2 DEF FramesArrive
  <2> QED
    BY <2>1, <2>3
<1>4. PeerNow = "connected" /\ PeerNow' = "gone"
  BY <1>1 DEF PeerNow
<1> QED
  BY <1>2, <1>3, <1>4
     DEF Service!HangUp, Asks, ArrivingCount, ArrivingFrames, Line, PeerNow, ServiceNow

-----------------------------------------------------------------------------
(* The loop.                                                               *)

\* The loop returns when every frame that arrives has been handled: the next one
\* would have been ready, and the loop polls only when none is.
LEMMA SocketDroppedRefines ==
  ASSUME LosslessInv, Lossless, SocketDropped
  PROVE  Service!Stop
<1>1. /\ pc = "poll" /\ pc' = "returned" /\ closed /\ fed = Arriving /\ ~FrameReady
      /\ UNCHANGED <<wire, sent, delivered, replies, closed, cut>>
  BY DEF SocketDropped, vars, outputVars, socketVars, LosslessInv, LoopInv, Drained
<1>2. UNCHANGED <<Asks, ArrivingFrames, Answered, Line, PeerNow>>
  BY <1>1, SameAsks, SameArrivals, SameAnswers DEF PeerNow
<1>3. HandledCount = ArrivingCount
  <2>1. /\ Len(sent) \in Nat /\ Len(delivered) \in Nat /\ alive
        /\ Len(delivered) <= ArrivingCount /\ ArrivingCount \in 0..Len(sent)
        /\ \A k \in 1..Len(sent) : Arrives(k) <=> k <= ArrivingCount
        /\ HandledCount = Len(delivered)
    BY <1>1, ArrivalsCounted, CursorTypes
       DEF FramesArrive, LosslessInv, LoopInv, LoopTypes, IInv, HandledCount
  <2>2. ASSUME Len(delivered) < ArrivingCount
        PROVE  FALSE
    <3> DEFINE k == Len(delivered) + 1
    <3>1. k \in 1..Len(sent) /\ Arrives(k)
      BY <2>1, <2>2
    <3>2. sent[k].at + 4 + sent[k].length <= fed
      BY <1>1, <3>1 DEF Arrives
    <3>3. CompleteFrameIsReady
      BY CompleteFrame DEF LosslessInv, Lossless
    <3> QED
      BY <1>1, <2>1, <3>1, <3>2, <3>3 DEF CompleteFrameIsReady
  <2> QED
    BY <2>1, <2>2
<1>4. UNCHANGED HandledCount
  BY <1>1 DEF HandledCount
<1>5. PeerNow = "gone" /\ ServiceNow = "running" /\ ServiceNow' = "stopped"
  BY <1>1 DEF PeerNow, ServiceNow
<1> QED
  BY <1>2, <1>3, <1>4, <1>5
     DEF Service!Stop, Asks, ArrivingCount, ArrivingFrames, Line, PeerNow, ServiceNow

\* What one more answer changes for the peer.
LEMMA OneMoreAnswer ==
  ASSUME replies \in Seq(Replies), NEW reply \in Replies,
         replies' = Append(replies, reply)
  PROVE  /\ Answered' = IF reply.outcome = "whole" /\ Line = "whole"
                          THEN Answered \cup {reply.to} ELSE Answered
         /\ Line' = IF reply.outcome = "part" THEN "torn" ELSE Line
<1> DEFINE r == Len(replies)
           next == replies'
           Torn(j) == \E i \in 1..(j - 1) : replies[i].outcome = "part"
           TornNext(j) == \E i \in 1..(j - 1) : next[i].outcome = "part"
           Good(j) == replies[j].outcome = "whole" /\ ~Torn(j)
           GoodNext(j) == next[j].outcome = "whole" /\ ~TornNext(j)
<1>1. /\ r \in Nat /\ Len(next) = r + 1
      /\ \A j \in 1..r : next[j] = replies[j]
      /\ next[r + 1] = reply
  <2> HIDE DEF Replies
  <2> QED
    OBVIOUS
<1>2. /\ Line = IF Torn(r + 1) THEN "torn" ELSE "whole"
      /\ Line' = IF TornNext(r + 2) THEN "torn" ELSE "whole"
  <2>1. Line' = IF TornNext(Len(next) + 1) THEN "torn" ELSE "whole"
    BY DEF Line, TornBefore
  <2>2. Len(next) + 1 = r + 2
    BY <1>1
  <2> HIDE DEF next, TornNext
  <2> QED
    BY <2>1, <2>2 DEF Line, TornBefore
<1>3. /\ Answered = {replies[j].to : j \in {i \in 1..r : Good(i)}}
      /\ Answered' = {next[j].to : j \in {i \in 1..(r + 1) : GoodNext(i)}}
  BY <1>1 DEF Answered, TornBefore
<1> HIDE DEF r, next
<1>4. \A j : j \in 1..(r + 1) <=> j \in 1..r \/ j = r + 1
  BY <1>1
<1>5. ASSUME NEW j \in 1..(r + 1)
      PROVE  TornNext(j) <=> Torn(j)
  <2>1. \A i \in 1..(j - 1) : i \in 1..r
    BY <1>1
  <2> QED
    BY <1>1, <2>1
<1>6. TornNext(r + 2) <=> Torn(r + 1) \/ reply.outcome = "part"
  <2>1. r + 2 - 1 = r + 1 /\ r + 1 - 1 = r
    BY <1>1
  <2> QED
    BY <1>1, <1>4, <2>1
<1>7. /\ \A j \in 1..r : GoodNext(j) <=> Good(j)
      /\ GoodNext(r + 1) <=> reply.outcome = "whole" /\ ~Torn(r + 1)
  BY <1>1, <1>4, <1>5
<1>8. Answered' = IF reply.outcome = "whole" /\ ~Torn(r + 1)
                    THEN Answered \cup {reply.to} ELSE Answered
  <2> HIDE DEF Good, GoodNext, Torn
  <2>1. CASE GoodNext(r + 1)
    BY <1>1, <1>3, <1>4, <1>7, <2>1
  <2>2. CASE ~GoodNext(r + 1)
    BY <1>1, <1>3, <1>4, <1>7, <2>2
  <2> QED
    BY <1>7, <2>1, <2>2
<1>9. Line' = IF reply.outcome = "part" THEN "torn" ELSE Line
  <2> HIDE DEF Torn, TornNext
  <2> QED
    BY <1>2, <1>6
<1>10. Line = "whole" <=> ~Torn(r + 1)
  <2> HIDE DEF Torn
  <2> QED
    BY <1>2
<1> QED
  <2> HIDE DEF Torn
  <2> QED
    BY <1>8, <1>9, <1>10

\* The body of the loop settles the next frame: it answers a request, or fails to,
\* and lets every other frame pass.
LEMMA HandleMessageRefines ==
  ASSUME LosslessInv, HandleMessage
  PROVE  Service!Settle
<1> DEFINE d == Len(delivered)
<1>1. /\ pc = "handle" /\ pc' \in {"drain", "killed"}
      /\ UNCHANGED <<wire, sent, delivered, closed, cut>>
  BY HandleMessageEffect DEF LosslessInv
<1>2. /\ d \in Nat /\ d > 0 /\ Message = delivered[d] /\ Len(sent) \in Nat
      /\ d <= ArrivingCount /\ d <= Len(sent)
  <2>1. FramesArrive /\ LoopInv /\ TypeOK
    BY ArrivalsCounted DEF LosslessInv, IInv
  <2>2. d \in Nat /\ d > 0 /\ Message = delivered[d]
    BY <1>1, <2>1, MessagePositions
  <2>3. Len(sent) \in Nat /\ ArrivingCount \in 0..Len(sent) /\ d <= ArrivingCount
    BY <2>1, CursorTypes DEF FramesArrive
  <2> QED
    BY <2>2, <2>3
<1>3. HandledCount = d - 1 /\ HandledCount' = d
  BY <1>1 DEF HandledCount
<1>4. Asks[d] = IsRequest(Message)
  <2>1. d \in 1..d /\ d \in 1..Len(sent)
    BY <1>2
  <2>2. Message = PayloadOf(sent[d])
    BY <1>2, <2>1 DEF LosslessInv, IInv, DeliveredAsSent
  <2>3. Asks[d] = IsRequest(PayloadOf(sent[d]))
    BY <2>1 DEF Asks
  <2> QED
    BY <2>2, <2>3
<1>5. UNCHANGED <<Asks, ArrivingFrames, PeerNow>> /\ ServiceNow = "running"
  BY <1>1, SameAsks, SameArrivals DEF PeerNow, ServiceNow
<1>6. CASE ~IsRequest(Message)
  <2>1. pc' = "drain" /\ replies' = replies
    BY <1>6, HandleMessageEffect DEF LosslessInv
  <2>2. UNCHANGED <<Answered, Line, ServiceNow>>
    BY <1>1, <2>1, SameAnswers DEF ServiceNow
  <2>3. HandledCount + 1 = d /\ HandledCount < ArrivingCount
    BY <1>2, <1>3, ArrivalsCounted DEF FramesArrive
  <2> QED
    BY <1>3, <1>4, <1>5, <1>6, <2>2, <2>3
       DEF Service!Settle, Asks, ArrivingCount, ArrivingFrames, Line, PeerNow,
           ServiceNow
<1>7. CASE IsRequest(Message)
  <2>1. PICK outcome \in SendOutcomes :
          /\ outcome = "sigpipe" => closed
          /\ replies' = Append(replies, [to |-> d, outcome |-> outcome,
                                         frame |-> AnswerTo(Message)])
          /\ pc' = IF outcome = "sigpipe" THEN "killed" ELSE "drain"
          /\ AnswerTo(Message) \in Answers
    BY <1>7, HandleMessageEffect DEF LosslessInv
  <2> DEFINE reply == [to |-> d, outcome |-> outcome, frame |-> AnswerTo(Message)]
  <2>2. reply \in Replies /\ reply.to = d /\ reply.outcome = outcome
    BY <1>2, <2>1 DEF Replies
  <2>3. replies \in Seq(Replies) /\ replies' = Append(replies, reply)
    BY <2>1 DEF LosslessInv, LoopInv, LoopTypes
  <2> HIDE DEF reply
  <2>4. /\ Answered' = IF outcome = "whole" /\ Line = "whole"
                         THEN Answered \cup {d} ELSE Answered
        /\ Line' = IF outcome = "part" THEN "torn" ELSE Line
    BY <2>2, <2>3, OneMoreAnswer
  <2>5. /\ ServiceNow' = IF outcome = "sigpipe" THEN "killed" ELSE "running"
        /\ outcome = "sigpipe" => PeerNow = "gone"
    BY <2>1 DEF ServiceNow, PeerNow
  <2>6. HandledCount + 1 = d /\ HandledCount < ArrivingCount
    BY <1>2, <1>3, ArrivalsCounted DEF FramesArrive
  <2>7. Service!Answer(d) \/ Service!FailToAnswer
    <3>1. CASE outcome = "whole" /\ Line = "whole"
      <4>1. /\ Line = "whole" /\ Answered' = Answered \cup {d}
            /\ UNCHANGED <<Line, ServiceNow>>
        BY <1>5, <2>4, <2>5, <3>1
      <4> QED
        BY <4>1 DEF Service!Answer, Line, ServiceNow
    <3>2. CASE ~(outcome = "whole" /\ Line = "whole")
      <4>1. /\ Line' \in {Line, "torn"} /\ UNCHANGED Answered
            /\ \/ UNCHANGED ServiceNow
               \/ PeerNow = "gone" /\ ServiceNow' = "killed"
        BY <1>5, <2>4, <2>5, <3>2
      <4> QED
        BY <4>1 DEF Service!FailToAnswer, Line, PeerNow, ServiceNow
    <3> QED
      BY <3>1, <3>2
  <2> QED
    BY <1>3, <1>4, <1>5, <1>7, <2>6, <2>7
       DEF Service!Settle, Asks, ArrivingCount, ArrivingFrames, PeerNow, ServiceNow
<1> QED
  BY <1>6, <1>7

-----------------------------------------------------------------------------
(* The theorem.                                                            *)

LEMMA InitRefines ==
  ASSUME ClientInit
  PROVE  Service!ServiceInit
<1>1. /\ sent = <<>> /\ delivered = <<>> /\ replies = <<>> /\ pc = "poll"
      /\ closed = FALSE
  BY DEF ClientInit, Init
<1>2. Len(sent) = 0 /\ Len(delivered) = 0 /\ Len(replies) = 0
  BY <1>1
<1>3. Asks = <<>>
  BY <1>2 DEF Asks
<1>4. ArrivingFrames = {} /\ Cardinality(ArrivingFrames) = 0
  BY <1>2, FS_EmptySet DEF ArrivingFrames
<1>5. HandledCount = 0 /\ PeerNow = "connected" /\ ServiceNow = "running"
  BY <1>1, <1>2 DEF HandledCount, PeerNow, ServiceNow
<1>6. Answered = {} /\ Line = "whole"
  BY <1>2 DEF Answered, Line, TornBefore
<1> QED
  BY <1>3, <1>4, <1>5, <1>6
     DEF Service!ServiceInit, Asks, ArrivingFrames, Line, PeerNow, ServiceNow

\* The loop implements the heartbeat service, its fairness apart: every frame
\* that arrives is handled once and in order, a request is answered unless its
\* send fails, and the loop returns only after the last frame that arrives.
THEOREM ClientImplementsService ==
  ASSUME Lossless, UpwardMemcpy
  PROVE  ClientSpec => Service!ServiceSafety
<1>1. ClientInit => Service!ServiceInit
  BY InitRefines
<1>2. LosslessInv /\ LosslessInv' /\ [ClientNext]_clientVars
        => [Service!ServiceNext]_(Service!serviceVars)
  <2>1. SUFFICES ASSUME LosslessInv, LosslessInv', [ClientNext]_clientVars
                 PROVE  Service!ServiceNext \/ UNCHANGED Service!serviceVars
    OBVIOUS
  <2>2. LoopInv /\ IInv
    BY <2>1 DEF LosslessInv
  <2>3. CASE PeerSend
    BY <2>1, <2>3, PeerSendRefines DEF Service!ServiceNext
  <2>4. ASSUME NEW n \in CutLengths, PeerClose(n)
        PROVE  Service!ServiceNext
    BY <2>1, <2>4, PeerCloseRefines DEF Service!ServiceNext
  <2>5. CASE SocketDropped
    BY <2>1, <2>5, SocketDroppedRefines DEF Service!ServiceNext
  <2>6. CASE HandleMessage
    BY <2>1, <2>6, HandleMessageRefines DEF Service!ServiceNext
  <2>7. CASE \/ \E n \in ChunkSizes : ReadChunk(n)
             \/ NextMessage \/ NoMessage \/ Compress \/ UNCHANGED clientVars
    BY <2>1, <2>7, QuietRefines
  <2>8. ASSUME NEW n \in ChunkSizes, DropChunk(n)
        PROVE  FALSE
    BY <2>2, <2>8, RoomForChunk DEF DropChunk, RoomAtPoll
  <2>9. CASE ReadError
    BY <2>2, <2>9 DEF ReadError, LoopInv, LoopTypes, Lossless
  <2>10. CASE GoAstray
    BY <2>1, <2>2, <2>10, LosslessStaysInBuffer DEF GoAstray
  <2> QED
    BY <2>1, <2>3, <2>4, <2>5, <2>6, <2>7, <2>8, <2>9, <2>10 DEF ClientNext, LoopStep
<1> QED
  BY <1>1, <1>2, LosslessInvariance, PTL DEF ClientSpec, Service!ServiceSafety
=============================================================================
