-------------------------- MODULE ClientLoopProofs --------------------------
(***************************************************************************)
(* Theorems about ClientLoop for every buffer size, every set of chunk     *)
(* sizes, any number of frames and whatever bytes are in them, for a memcpy *)
(* that copies upwards where its regions overlap (UpwardMemcpy).  LoopInv  *)
(* holds also when the loop has lost bytes and takes others for a length;  *)
(* where nothing can be lost (Lossless) the parser's invariant holds too.  *)
(***************************************************************************)
EXTENDS ClientLoop, EsMsgParserProofs, EsHeaderProofs, FiniteSetTheorems

\* The buffer holds an unfinished frame and one more chunk.
Roomy ==
  \A n \in ChunkSizes :
    /\ n <= BufferSize
    /\ \A length \in FrameLengths : length + 3 + n <= BufferSize

\* read does not fail, and the parser has room for what it returns.
Lossless == MaxReadErrors = 0 /\ Roomy /\ ShortFrames

-----------------------------------------------------------------------------
(* What holds also when bytes have been lost.                              *)

Names == {"none"} \cup {GetStringForTcpMessage(b) : b \in 0..255}

Answers ==
  [prefix : {<<18, 0, 0, 0>>},
   header : [command : {HeartbeatResponse}, flags : {0},
             correlation_id : [UuidOffsets -> Nat]]]

Replies == [to : Nat, outcome : SendOutcomes, frame : Answers]

\* A frame of a length below 0 has no bytes.
BytesIn(length) == IF length > 0 THEN length ELSE 0

HeldFrames == [location : Nat, length : Int, payload : Seq(Nat), fresh : BOOLEAN]

Places == {"poll", "drain", "handle", "compress", "returned", "killed", "astray"}

\* The types of the variables, and where the parser's pointers may be: an error
\* of read can leave buffer_write in front of parser_read, and of the buffer.
LoopTypes ==
  /\ wire \in Seq(0..255)
  /\ fed \in 0..Len(wire)
  /\ parser_read \in 0..BufferSize
  /\ buffer_write \in Int /\ buffer_write <= BufferSize
  /\ delivered \in Seq(Seq(Nat))
  /\ held \subseteq HeldFrames
  /\ alive = TRUE
  /\ pc \in Places
  /\ pc = "poll" => parser_read = 0
  /\ pc = "handle" => Len(delivered) > 0
  /\ replies \in Seq(Replies)
  /\ log \in Seq(Names)
  /\ closed \in BOOLEAN
  /\ cut \in 0..(Len(wire) - fed)
  /\ ~closed => cut = 0
  /\ read_errors \in 0..MaxReadErrors

\* The cells not parsed yet hold bytes that have been accepted, in the order of
\* the stream, though perhaps not all of them.
UnreadAscending ==
  \A a \in Offsets : parser_read <= a /\ a < buffer_write =>
    /\ buffer[a] \in 1..fed
    /\ \A b \in Offsets : a < b /\ b < buffer_write => buffer[a] < buffer[b]

\* A frame returned has bytes of the stream in front of those of every later
\* frame and of those not parsed yet.
DeliveredAscending ==
  \A k \in 1..Len(delivered) : \A i \in 1..Len(delivered[k]) :
    /\ delivered[k][i] \in 1..fed
    /\ \A a \in Offsets : parser_read <= a /\ a < buffer_write =>
         delivered[k][i] < buffer[a]

\* A held frame is one that was returned.
HeldDelivered ==
  \A f \in held :
    /\ Len(f.payload) = BytesIn(f.length)
    /\ \E k \in 1..Len(delivered) : f.payload = delivered[k]

\* While the loop handles msg, the frames it could be taken for are fresh.
MessageFresh ==
  pc = "handle" =>
    /\ \E f \in held : f.payload = Message
    /\ \A f \in held : f.payload = Message => f.fresh \/ f.length <= 0

\* Neither compress_space nor what the peer does meanwhile makes a frame of
\* what read_next has refused.
Drained == pc \in {"compress", "poll"} => ~FrameReady

LoopInv ==
  /\ LoopTypes
  /\ UnreadAscending
  /\ DeliveredAscending
  /\ HeldDelivered
  /\ HeldFramesIntact
  /\ FreshFramesParsed
  /\ MessageFresh
  /\ Drained
  /\ RequestsAnsweredInOrder
  /\ CommandsNamedAsSent

-----------------------------------------------------------------------------
(* Steps that return, handle and move no frame.                            *)

\* The arithmetic the steps rely on.
LEMMA LoopCursors ==
  ASSUME LoopTypes
  PROVE  /\ Len(wire) \in Nat /\ Len(delivered) \in Nat
         /\ fed \in Nat /\ fed <= Len(wire)
         /\ BufferSize \in Nat
         /\ parser_read \in Nat /\ parser_read <= BufferSize
         /\ buffer_write \in Int /\ buffer_write <= BufferSize
<1>1. Len(wire) \in Nat /\ Len(delivered) \in Nat
  BY DEF LoopTypes
<1> QED
  BY <1>1, BufferSizeAssumption DEF LoopTypes

\* A cell not parsed yet is a cell of the buffer and holds a byte of the stream.
LEMMA UnreadCell ==
  ASSUME LoopTypes, UnreadAscending,
         NEW a \in Int, parser_read <= a, a < buffer_write
  PROVE  /\ a \in Offsets
         /\ buffer[a] \in 1..fed
         /\ buffer[a] \in 1..Len(wire)
<1>1. a \in Offsets
  BY LoopCursors DEF Offsets
<1>2. buffer[a] \in 1..fed
  BY <1>1 DEF UnreadAscending
<1> QED
  BY <1>1, <1>2, LoopCursors

\* A step that accepts or loses bytes without writing any, and neither returns
\* a frame nor finishes one, preserves all but the types and Drained.
LEMMA QuietStep ==
  ASSUME LoopInv, LoopTypes', Drained',
         UNCHANGED <<wire, buffer, parser_read, delivered, held, replies, log>>,
         buffer_write' <= buffer_write, fed <= fed',
         (pc' = "handle") <=> (pc = "handle")
  PROVE  LoopInv'
<1>1. /\ fed \in Nat /\ fed' \in Nat
      /\ parser_read \in Int /\ buffer_write \in Int /\ buffer_write' \in Int
  BY LoopCursors DEF LoopInv, LoopTypes
<1>2. \A a \in Offsets : a \in Int
  BY BufferSizeAssumption DEF Offsets
<1>3. UnreadAscending'
  BY <1>1, <1>2 DEF LoopInv, UnreadAscending
<1>4. DeliveredAscending'
  <2> SUFFICES ASSUME NEW k \in 1..Len(delivered), NEW i \in 1..Len(delivered[k])
               PROVE  /\ delivered[k][i] \in 1..fed'
                      /\ \A a \in Offsets :
                           parser_read <= a /\ a < buffer_write' =>
                             delivered[k][i] < buffer[a]
    BY DEF DeliveredAscending
  <2>1. /\ delivered[k][i] \in 1..fed
        /\ \A a \in Offsets : parser_read <= a /\ a < buffer_write =>
             delivered[k][i] < buffer[a]
    BY DEF LoopInv, DeliveredAscending
  <2> DEFINE byte == delivered[k][i]
  <2> HIDE DEF byte
  <2>2. byte \in 1..fed'
    BY <1>1, <2>1 DEF byte
  <2>3. ASSUME NEW a \in Offsets, parser_read <= a, a < buffer_write'
        PROVE  byte < buffer[a]
    <3>1. a < buffer_write
      BY <1>1, <1>2, <2>3
    <3> QED
      BY <2>1, <2>3, <3>1 DEF byte
  <2> QED
    BY <2>2, <2>3 DEF byte
<1>5. HeldDelivered' /\ HeldFramesIntact' /\ FreshFramesParsed' /\ MessageFresh'
  BY DEF LoopInv, HeldDelivered, HeldFramesIntact, FreshFramesParsed,
         MessageFresh, Message
<1>6. HandledCount' = HandledCount
  BY DEF HandledCount
<1>7. RequestsAnsweredInOrder' /\ CommandsNamedAsSent'
  BY <1>6 DEF LoopInv, RequestsAnsweredInOrder, CommandsNamedAsSent, IsRequest,
              AnswerTo
<1> QED
  BY <1>3, <1>4, <1>5, <1>7 DEF LoopInv

\* What read_next would answer does not change as long as what it reads does not.
LEMMA SameFrameReady ==
  ASSUME UNCHANGED <<wire, buffer, parser_read, buffer_write>>
  PROVE  FrameReady' = FrameReady
BY DEF FrameReady, NextLength

\* PeerClose preserves the invariant.
LEMMA PeerCloseInv ==
  ASSUME LoopInv, NEW n \in CutLengths, PeerClose(n)
  PROVE  LoopInv'
<1>1. /\ closed' = TRUE /\ cut' = n /\ n <= Len(wire) - fed
      /\ UNCHANGED <<wire, fed, buffer, parser_read, buffer_write, delivered,
                     held, alive, pc, replies, log, read_errors>>
  BY DEF PeerClose, vars, outputVars
<1>2. n \in Nat
  BY CutLengthsAssumption
<1>3. LoopTypes'
  BY <1>1, <1>2, LoopCursors DEF LoopInv, LoopTypes
<1>4. Drained'
  BY <1>1, SameFrameReady DEF LoopInv, Drained
<1> QED
  BY <1>1, <1>3, <1>4, LoopCursors, QuietStep DEF LoopInv

\* A chunk the parser has no room for: bytes are lost, and nothing else happens.
LEMMA DropChunkInv ==
  ASSUME LoopInv, NEW n \in ChunkSizes, DropChunk(n)
  PROVE  LoopInv'
<1>1. /\ fed' = fed + n /\ fed + n <= Arriving /\ pc = "poll" /\ pc' = "drain"
      /\ UNCHANGED <<wire, buffer, parser_read, buffer_write, delivered, held,
                     alive, replies, log, closed, cut, read_errors>>
  BY DEF DropChunk, peerVars, callerVars, outputVars, socketVars
<1>2. n \in Nat
  BY ChunkSizesAssumption
<1>3. cut \in 0..(Len(wire) - fed)
  BY DEF LoopInv, LoopTypes
<1>4. fed' \in 0..Len(wire) /\ cut \in 0..(Len(wire) - fed')
  BY <1>1, <1>2, <1>3, LoopCursors DEF Arriving, LoopInv
<1>5. LoopTypes'
  BY <1>1, <1>4 DEF LoopInv, LoopTypes, Places
<1>6. Drained'
  BY <1>1 DEF Drained
<1> QED
  BY <1>1, <1>2, <1>5, <1>6, LoopCursors, QuietStep DEF LoopInv

\* An error of read takes the last byte back out of the buffer.
LEMMA ReadErrorInv ==
  ASSUME LoopInv, ReadError
  PROVE  LoopInv'
<1>1. /\ buffer_write' = buffer_write - 1 /\ read_errors' = read_errors + 1
      /\ read_errors < MaxReadErrors /\ pc = "poll" /\ pc' = "drain"
      /\ UNCHANGED <<wire, fed, buffer, parser_read, delivered, held, alive,
                     replies, log, closed, cut>>
  BY DEF ReadError, peerVars, callerVars, outputVars
<1>2. LoopTypes'
  BY <1>1, LoopCursors, MaxReadErrorsAssumption DEF LoopInv, LoopTypes, Places
<1>3. Drained'
  BY <1>1 DEF Drained
<1> QED
  BY <1>1, <1>2, <1>3, LoopCursors, QuietStep DEF LoopInv

\* The steps that only move the loop on.
LEMMA MoveOnInv ==
  ASSUME LoopInv, SocketDropped \/ GoAstray \/ NoMessage \/ UNCHANGED clientVars
  PROVE  LoopInv'
<1>1. UNCHANGED <<wire, fed, buffer, parser_read, buffer_write, delivered, held,
                  alive, replies, log, closed, cut, read_errors>>
  BY DEF SocketDropped, GoAstray, NoMessage, clientVars, vars, loopVars, outputVars,
         socketVars
<1>2. \/ pc = "poll" /\ pc' = "returned"
      \/ pc = "drain" /\ pc' = "astray"
      \/ pc = "drain" /\ pc' = "compress" /\ ~FrameReady
      \/ pc' = pc
  BY DEF SocketDropped, GoAstray, NoMessage, clientVars, loopVars
<1>3. LoopTypes'
  BY <1>1, <1>2 DEF LoopInv, LoopTypes, Places
<1>4. Drained'
  BY <1>1, <1>2, SameFrameReady DEF LoopInv, Drained
<1> QED
  BY <1>1, <1>2, <1>3, <1>4, LoopCursors, QuietStep DEF LoopInv

-----------------------------------------------------------------------------
(* The peer sends a frame, the loop reads a chunk.                         *)

\* The bytes already sent stay where they are.
LEMMA PeerSendWire ==
  ASSUME wire \in Seq(0..255), NEW length \in FrameLengths, NEW byte \in PayloadBytes,
         SendFrame(length, byte)
  PROVE  /\ wire' \in Seq(0..255)
         /\ Len(wire') \in Nat /\ Len(wire') >= Len(wire)
         /\ \A p \in 1..Len(wire) : wire'[p] = wire[p]
<1> DEFINE Bytes == 0..255
<1>1. /\ wire \in Seq(Bytes) /\ byte \in Bytes /\ length \in Nat
      /\ LengthPrefix(length) \in [1..4 -> Bytes]
  BY FrameLengthsAssumption, PayloadBytesAssumption, LengthPrefixType
<1>2. /\ wire' \in Seq(Bytes)
      /\ Len(wire') = Len(wire) + 4 + length
      /\ \A p \in 1..Len(wire) : wire'[p] = wire[p]
  <2> HIDE DEF Bytes
  <2> QED
    BY <1>1, SendFrameWire
<1>3. Len(wire) \in Nat
  OBVIOUS
<1> QED
  BY <1>1, <1>2, <1>3

\* What read_next has refused it refuses also when the peer has sent more.
LEMMA PeerSendFrameReady ==
  ASSUME LoopTypes, UnreadAscending,
         \A p \in 1..Len(wire) : wire'[p] = wire[p],
         UNCHANGED <<buffer, parser_read, buffer_write>>
  PROVE  FrameReady' = FrameReady
<1>1. CASE ~(buffer_write - parser_read >= 4)
  BY <1>1 DEF FrameReady
<1>2. CASE buffer_write - parser_read >= 4
  <2>1. ASSUME NEW j \in 1..4
        PROVE  wire'[buffer[parser_read + j - 1]] = wire[buffer[parser_read + j - 1]]
    <3>1. /\ parser_read + j - 1 \in Int
          /\ parser_read <= parser_read + j - 1
          /\ parser_read + j - 1 < buffer_write
      BY <1>2, LoopCursors
    <3>2. buffer[parser_read + j - 1] \in 1..Len(wire)
      BY <3>1, UnreadCell
    <3> QED
      BY <3>2
  <2>2. NextLength' = NextLength
    BY <2>1 DEF NextLength
  <2> QED
    BY <2>2 DEF FrameReady
<1> QED
  BY <1>1, <1>2

\* A position of a frame returned is one of the stream.
LEMMA DeliveredPosition ==
  ASSUME LoopTypes, DeliveredAscending,
         NEW k \in 1..Len(delivered), NEW i \in 1..Len(delivered[k])
  PROVE  delivered[k][i] \in 1..Len(wire)
<1>1. delivered[k][i] \in 1..fed
  BY DEF DeliveredAscending
<1> QED
  BY <1>1, LoopCursors

\* The first byte of a returned frame that is as long as a header.
LEMMA DeliveredCommand ==
  ASSUME LoopTypes, DeliveredAscending, NEW k \in 1..Len(delivered),
         Len(delivered[k]) >= MandatorySize
  PROVE  delivered[k][1] \in 1..Len(wire)
<1>1. Len(delivered[k]) \in Nat
  <2>1. delivered[k] \in Seq(Nat)
    BY DEF LoopTypes
  <2> QED
    BY <2>1
<1>2. 1 \in 1..Len(delivered[k])
  BY <1>1 DEF MandatorySize
<1> QED
  BY <1>2, DeliveredPosition

\* PeerSend preserves the invariant.
LEMMA PeerSendInv ==
  ASSUME LoopInv, PeerSend
  PROVE  LoopInv'
<1>1. PICK length \in FrameLengths, byte \in PayloadBytes : SendFrame(length, byte)
  BY DEF PeerSend
<1>2. /\ UNCHANGED <<fed, buffer, parser_read, buffer_write, delivered, held, alive,
                     pc, replies, log, closed, cut, read_errors>>
      /\ ~closed
  BY <1>1 DEF PeerSend, SendFrame, parserVars, callerVars, loopVars
<1>3. /\ wire' \in Seq(0..255)
      /\ Len(wire') \in Nat /\ Len(wire') >= Len(wire)
      /\ \A p \in 1..Len(wire) : wire'[p] = wire[p]
  BY <1>1, PeerSendWire DEF LoopInv, LoopTypes
<1>4. LoopTypes'
  <2>1. fed' \in 0..Len(wire') /\ cut' \in 0..(Len(wire') - fed')
    BY <1>2, <1>3, LoopCursors DEF LoopInv, LoopTypes
  <2>2. /\ parser_read' \in 0..BufferSize
        /\ buffer_write' \in Int /\ buffer_write' <= BufferSize
        /\ delivered' \in Seq(Seq(Nat))
        /\ held' \subseteq HeldFrames
    BY <1>2 DEF LoopInv, LoopTypes
  <2>3. /\ alive' = TRUE
        /\ pc' \in Places
        /\ pc' = "poll" => parser_read' = 0
        /\ pc' = "handle" => Len(delivered') > 0
        /\ replies' \in Seq(Replies)
        /\ log' \in Seq(Names)
        /\ closed' \in BOOLEAN
        /\ ~closed' => cut' = 0
        /\ read_errors' \in 0..MaxReadErrors
    BY <1>2 DEF LoopInv, LoopTypes
  <2> QED
    BY <1>3, <2>1, <2>2, <2>3 DEF LoopTypes
<1>5. /\ UnreadAscending' /\ DeliveredAscending' /\ HeldDelivered'
      /\ HeldFramesIntact' /\ FreshFramesParsed' /\ MessageFresh'
  BY <1>2 DEF LoopInv, UnreadAscending, DeliveredAscending, HeldDelivered,
              HeldFramesIntact, FreshFramesParsed, MessageFresh, Message
<1>6. Drained'
  BY <1>2, <1>3, PeerSendFrameReady DEF LoopInv, Drained
<1>7. HandledCount' = HandledCount /\ HandledCount \in Int /\ HandledCount <= Len(delivered)
  BY <1>2, LoopCursors DEF HandledCount, LoopInv
<1>8. ASSUME NEW k \in 1..Len(delivered)
      PROVE  \/ Len(delivered[k]) < MandatorySize /\ ~(Len(delivered[k]) >= MandatorySize)
             \/ wire'[delivered[k][1]] = wire[delivered[k][1]]
  <2>1. delivered[k] \in Seq(Nat) /\ Len(delivered[k]) \in Nat
    BY DEF LoopInv, LoopTypes
  <2> QED
    BY <1>3, <2>1, DeliveredCommand DEF LoopInv, MandatorySize
<1>9. \A k \in 1..HandledCount : IsRequest(delivered[k])' = IsRequest(delivered[k])
  BY <1>2, <1>7, <1>8, LoopCursors DEF IsRequest, LoopInv
<1>10. RequestsAnsweredInOrder'
  BY <1>2, <1>7, <1>9 DEF LoopInv, RequestsAnsweredInOrder, AnswerTo
<1>11. CommandsNamedAsSent'
  <2>1. \A k \in 1..Len(log) : k \in 1..Len(delivered)
    BY <1>7, LoopCursors DEF LoopInv, CommandsNamedAsSent
  <2> QED
    BY <1>2, <1>7, <1>8, <2>1 DEF LoopInv, CommandsNamedAsSent
<1> QED
  BY <1>4, <1>5, <1>6, <1>10, <1>11 DEF LoopInv

\* A chunk written behind the unread bytes keeps them, and them ascending.
LEMMA ReadChunkInv ==
  ASSUME LoopInv, NEW n \in ChunkSizes, ReadChunk(n)
  PROVE  LoopInv'
<1>1. /\ pc = "poll" /\ pc' = "drain" /\ fed + n <= Arriving
      /\ buffer_write + n <= BufferSize
      /\ buffer_write' = buffer_write + n /\ fed' = fed + n
      /\ UNCHANGED <<wire, parser_read, delivered, held, alive, replies, log,
                     closed, cut, read_errors>>
  BY DEF ReadChunk, AddData, Fits, peerVars, callerVars, outputVars, socketVars
<1>2. n \in Nat /\ n > 0
  BY ChunkSizesAssumption
<1>3. /\ Len(wire) \in Nat /\ fed \in Nat /\ BufferSize \in Nat
      /\ buffer_write \in Int /\ parser_read = 0
  BY <1>1, LoopCursors DEF LoopInv, LoopTypes
<1>4. fed' \in 0..Len(wire) /\ cut \in 0..(Len(wire) - fed')
  BY <1>1, <1>2, <1>3 DEF Arriving, LoopInv, LoopTypes
<1>5. LoopTypes'
  BY <1>1, <1>2, <1>3, <1>4 DEF LoopInv, LoopTypes, Places
<1>6. ASSUME NEW a \in Offsets
      PROVE  /\ a \in Int
             /\ a >= buffer_write /\ a < buffer_write + n
                  => buffer'[a] = fed + 1 + (a - buffer_write)
             /\ a < buffer_write => buffer'[a] = buffer[a]
  <2>1. a \in Int
    BY <1>3 DEF Offsets
  <2>2. buffer'[a] = IF a \in buffer_write..(buffer_write + n - 1)
                       THEN fed + 1 + (a - buffer_write) ELSE buffer[a]
    BY DEF ReadChunk, AddData
  <2> QED
    BY <1>2, <1>3, <2>1, <2>2
<1>7. ASSUME NEW a \in Offsets, parser_read <= a, a < buffer_write
      PROVE  buffer[a] \in 1..fed
  BY <1>7 DEF LoopInv, UnreadAscending
<1>8. UnreadAscending'
  <2>1. ASSUME NEW a \in Offsets, parser_read <= a, a < buffer_write + n
        PROVE  /\ buffer'[a] \in 1..(fed + n)
               /\ \A b \in Offsets : a < b /\ b < buffer_write + n => buffer'[a] < buffer'[b]
    <3>1. CASE a >= buffer_write
      <4>1. a \in Int /\ buffer'[a] = fed + 1 + (a - buffer_write)
        BY <1>6, <2>1, <3>1
      <4>2. ASSUME NEW b \in Offsets, a < b, b < buffer_write + n
            PROVE  buffer'[b] = fed + 1 + (b - buffer_write) /\ b \in Int
        BY <1>3, <1>6, <3>1, <4>1, <4>2
      <4> QED
        BY <1>2, <1>3, <2>1, <3>1, <4>1, <4>2
    <3>2. CASE a < buffer_write
      <4>1. buffer'[a] = buffer[a] /\ buffer[a] \in 1..fed
        BY <1>6, <1>7, <2>1, <3>2
      <4>2. ASSUME NEW b \in Offsets, a < b, b < buffer_write + n
            PROVE  buffer[a] < buffer'[b]
        <5>1. CASE b < buffer_write
          BY <1>6, <2>1, <3>2, <4>2, <5>1 DEF LoopInv, UnreadAscending
        <5>2. CASE ~(b < buffer_write)
          BY <1>2, <1>3, <1>6, <4>1, <4>2, <5>2
        <5> QED
          BY <5>1, <5>2
      <4> QED
        BY <1>2, <1>3, <4>1, <4>2
    <3> QED
      BY <1>3, <1>6, <3>1, <3>2
  <2> QED
    BY <1>1, <2>1 DEF UnreadAscending
<1>9. DeliveredAscending'
  <2>1. ASSUME NEW k \in 1..Len(delivered), NEW i \in 1..Len(delivered[k])
        PROVE  /\ delivered[k][i] \in 1..(fed + n)
               /\ \A a \in Offsets : parser_read <= a /\ a < buffer_write + n =>
                    delivered[k][i] < buffer'[a]
    <3>1. delivered[k][i] \in 1..fed
      BY DEF LoopInv, DeliveredAscending
    <3>2. ASSUME NEW a \in Offsets, parser_read <= a, a < buffer_write + n
          PROVE  delivered[k][i] < buffer'[a]
      <4>1. CASE a < buffer_write
        <5>1. delivered[k][i] < buffer[a]
          BY <3>2, <4>1 DEF LoopInv, DeliveredAscending
        <5> QED
          BY <1>6, <4>1, <5>1
      <4>2. CASE ~(a < buffer_write)
        <5>1. a \in Int /\ buffer'[a] = fed + 1 + (a - buffer_write)
          BY <1>3, <1>6, <3>2, <4>2
        <5> QED
          BY <1>2, <1>3, <3>1, <4>2, <5>1
      <4> QED
        BY <4>1, <4>2
    <3> QED
      BY <1>2, <1>3, <3>1, <3>2
  <2> QED
    BY <1>1, <2>1 DEF DeliveredAscending
<1>10. HeldFramesIntact'
  <2>1. ASSUME NEW f \in held, f.fresh, NEW i \in 1..f.length
        PROVE  FALSE
    <3>1. f.location \in Nat /\ f.length \in Int
      BY DEF LoopInv, LoopTypes, HeldFrames
    <3>2. f.location + f.length <= 0
      BY <1>3, <2>1 DEF LoopInv, FreshFramesParsed
    <3> QED
      BY <3>1, <3>2
  <2> QED
    BY <1>1, <2>1 DEF HeldFramesIntact
<1>11. HeldDelivered' /\ FreshFramesParsed' /\ MessageFresh' /\ Drained'
  BY <1>1 DEF LoopInv, HeldDelivered, FreshFramesParsed, MessageFresh, Drained
<1>12. HandledCount' = HandledCount
  BY <1>1 DEF HandledCount
<1>13. RequestsAnsweredInOrder' /\ CommandsNamedAsSent'
  BY <1>1, <1>12 DEF LoopInv, RequestsAnsweredInOrder, CommandsNamedAsSent,
                     IsRequest, AnswerTo
<1> QED
  BY <1>5, <1>8, <1>9, <1>10, <1>11, <1>13 DEF LoopInv

-----------------------------------------------------------------------------
(* read_next returns a frame.                                              *)

\* Four bytes, wherever they come from, decode to a length of 0 or more, to -1, or
\* to one far below: a byte of 128 or more sets all bytes in front of it to 255.
LEMMA DecodedLength ==
  ASSUME NEW prefix \in [1..4 -> 0..255]
  PROVE  LET n == DecodeLength(prefix)
         IN n \in Int /\ (n >= -1 \/ n <= -16777217)
<1> DEFINE a == DecodedByte(prefix, 1)
           b == DecodedByte(prefix, 2)
           c == DecodedByte(prefix, 3)
           d == DecodedByte(prefix, 4)
<1>1. \A j \in 1..4 : prefix[j] \in 0..255
  OBVIOUS
<1>2. a \in 0..255 /\ b \in 0..255 /\ c \in 0..255 /\ d \in 0..255
  BY <1>1 DEF DecodedByte
<1>3. d >= 128 => a = 255 /\ b = 255 /\ c = 255
  <2>1. d = prefix[4]
    BY DEF DecodedByte
  <2> QED
    BY <2>1 DEF DecodedByte
<1>4. DecodeLength(prefix)
        = a + 256 * b + 65536 * c + 16777216 * (IF d >= 128 THEN d - 256 ELSE d)
  BY DEF DecodeLength
<1> HIDE DEF a, b, c, d
<1> QED
  BY <1>2, <1>3, <1>4, SMT

\* The four bytes read_next decodes are bytes of the stream.
LEMMA NextLengthDecoded ==
  ASSUME LoopTypes, UnreadAscending, FrameReady
  PROVE  NextLength \in Int /\ (NextLength >= -1 \/ NextLength <= -16777217)
<1> DEFINE prefix == [j \in 1..4 |-> wire[buffer[parser_read + j - 1]]]
<1>1. ASSUME NEW j \in 1..4
      PROVE  wire[buffer[parser_read + j - 1]] \in 0..255
  <2>1. /\ parser_read + j - 1 \in Int /\ parser_read <= parser_read + j - 1
        /\ parser_read + j - 1 < buffer_write
    BY LoopCursors DEF FrameReady
  <2>2. buffer[parser_read + j - 1] \in 1..Len(wire)
    BY <2>1, UnreadCell
  <2> QED
    BY <2>2, ElementOf DEF LoopTypes
<1>2. prefix \in [1..4 -> 0..255]
  BY <1>1
<1>3. NextLength = DecodeLength(prefix)
  BY DEF NextLength
<1> HIDE DEF prefix
<1> QED
  BY <1>2, <1>3, DecodedLength

\* A frame read_next returns without leaving the buffer ends in the unread bytes,
\* and has at least no bytes.
LEMMA NextMessageSpan ==
  ASSUME LoopTypes, UnreadAscending, FrameReady, NextStaysInBuffer
  PROVE  /\ NextLength \in Int /\ NextLength >= -1
         /\ parser_read + NextLength + 4 <= buffer_write
<1> DEFINE n == NextLength
<1>1. n \in Int /\ (n >= -1 \/ n <= -16777217)
  BY NextLengthDecoded
<1>2. /\ n \in -(parser_read + 4)..(BufferSize - parser_read - 4)
      /\ buffer_write - parser_read >= 4
      /\ buffer_write - parser_read >= FrameSpan(n)
  BY DEF NextStaysInBuffer, FrameReady
<1> HIDE DEF n
<1>3. /\ parser_read \in Nat /\ buffer_write \in Int /\ BufferSize \in Nat
      /\ buffer_write <= BufferSize /\ BufferSize < 16777216
  BY LoopCursors, LoopBufferAssumption
<1>4. n >= -1 /\ n <= MaxInt32 - 4
  BY <1>1, <1>2, <1>3, SMT DEF MaxInt32
<1>5. FrameSpan(n) = n + 4
  BY <1>1, <1>4, SMT DEF FrameSpan, MaxInt32
<1> QED
  BY <1>1, <1>2, <1>3, <1>4, <1>5 DEF n

\* The answers and the log stay true of the frames handled.
LEMMA SameFramesHandled ==
  ASSUME LoopInv, UNCHANGED <<wire, replies, log>>, HandledCount' = HandledCount,
         \A k \in 1..HandledCount : delivered'[k] = delivered[k]
  PROVE  RequestsAnsweredInOrder' /\ CommandsNamedAsSent'
<1>1. \A k \in 1..HandledCount : IsRequest(delivered[k])' = IsRequest(delivered[k])
  BY DEF IsRequest
<1>2. \A j \in 1..Len(replies) : replies[j].to \in 1..HandledCount
  BY DEF LoopInv, RequestsAnsweredInOrder
<1>3. RequestsAnsweredInOrder'
  BY <1>1, <1>2 DEF LoopInv, RequestsAnsweredInOrder, AnswerTo
<1>4. CommandsNamedAsSent'
  BY DEF LoopInv, CommandsNamedAsSent
<1> QED
  BY <1>3, <1>4

\* The frame read_next returns: the unread bytes behind a prefix.
LEMMA NextMessagePayload ==
  ASSUME LoopInv, NextMessage
  PROVE  LET n == NextLength
             payload == Payload(n)
         IN /\ n \in Int /\ n >= -1 /\ parser_read + n + 4 <= buffer_write
            /\ payload \in Seq(Nat) /\ Len(payload) = BytesIn(n)
            /\ \A i \in 1..n : LET a == parser_read + 3 + i
                               IN /\ a \in Offsets
                                  /\ parser_read <= a /\ a < parser_read + n + 4
                                  /\ payload[i] = buffer[a]
                                  /\ payload[i] \in 1..fed
<1> DEFINE n == NextLength
           payload == Payload(n)
<1>1. FrameReady /\ NextStaysInBuffer
  BY DEF NextMessage
<1>2. n \in Int /\ n >= -1 /\ parser_read + n + 4 <= buffer_write
  BY <1>1, NextMessageSpan DEF LoopInv
<1>3. /\ parser_read \in Nat /\ buffer_write \in Int /\ fed \in Nat
  BY LoopCursors DEF LoopInv
<1>4. payload = [i \in 1..n |-> buffer[parser_read + 3 + i]]
  BY DEF Payload
<1> HIDE DEF n, payload
<1>5. ASSUME NEW i \in 1..n
      PROVE  LET a == parser_read + 3 + i
             IN /\ a \in Offsets
                /\ parser_read <= a /\ a < parser_read + n + 4
                /\ payload[i] = buffer[a]
                /\ payload[i] \in 1..fed
  <2> DEFINE a == parser_read + 3 + i
  <2>1. a \in Int /\ parser_read <= a /\ a < parser_read + n + 4 /\ a < buffer_write
    BY <1>2, <1>3
  <2>2. payload[i] = buffer[a]
    BY <1>4
  <2> HIDE DEF a
  <2>3. a \in Offsets /\ buffer[a] \in 1..fed
    BY <2>1, UnreadCell DEF LoopInv
  <2> QED
    BY <2>1, <2>2, <2>3 DEF a
<1>6. payload \in [1..BytesIn(n) -> Nat] /\ BytesIn(n) \in Nat
  <2>1. \A i \in 1..n : payload[i] \in Nat
    BY <1>3, <1>5
  <2>2. 1..n = 1..BytesIn(n) /\ BytesIn(n) \in Nat
    BY <1>2 DEF BytesIn
  <2> QED
    BY <1>4, <2>1, <2>2
<1>7. payload \in Seq(Nat) /\ Len(payload) = BytesIn(n)
  BY <1>6, FunctionIsSeq
<1> QED
  BY <1>2, <1>5, <1>7 DEF n, payload

\* NextMessage preserves the invariant.
LEMMA NextMessageInv ==
  ASSUME LoopInv, NextMessage
  PROVE  LoopInv'
<1> DEFINE n == NextLength
           payload == Payload(n)
           new == [location |-> parser_read + 4, length |-> n,
                   payload |-> payload, fresh |-> TRUE]
           d == Len(delivered)
<1>1. /\ delivered' = Append(delivered, payload)
      /\ held' = held \cup {new}
      /\ parser_read' = parser_read + n + 4
      /\ pc = "drain" /\ pc' = "handle"
      /\ UNCHANGED <<wire, fed, buffer, buffer_write, alive, replies, log, closed,
                     cut, read_errors>>
  BY DEF NextMessage, ReadNext, peerVars, outputVars, socketVars
<1>2. /\ n \in Int /\ n >= -1 /\ parser_read + n + 4 <= buffer_write
      /\ payload \in Seq(Nat) /\ Len(payload) = BytesIn(n)
  BY NextMessagePayload
<1>3. ASSUME NEW i \in 1..n
      PROVE  /\ parser_read + 3 + i \in Offsets
             /\ parser_read <= parser_read + 3 + i
             /\ parser_read + 3 + i < parser_read + n + 4
             /\ payload[i] = buffer[parser_read + 3 + i]
             /\ payload[i] \in 1..fed
  BY NextMessagePayload
<1> HIDE DEF n, payload
<1>4. /\ Len(wire) \in Nat /\ d \in Nat /\ fed \in Nat
      /\ BufferSize \in Nat /\ parser_read \in Nat
      /\ buffer_write \in Int /\ buffer_write <= BufferSize
  BY LoopCursors DEF LoopInv
<1>5. /\ delivered' \in Seq(Seq(Nat)) /\ Len(delivered') = d + 1
      /\ \A k \in 1..d : delivered'[k] = delivered[k]
      /\ delivered'[d + 1] = payload
  <2>1. delivered \in Seq(Seq(Nat))
    BY DEF LoopInv, LoopTypes
  <2> QED
    BY <1>1, <1>2, <2>1
<1>6. ASSUME NEW f \in held
      PROVE  /\ f.location \in Nat /\ f.length \in Int /\ f.payload \in Seq(Nat)
             /\ Len(f.payload) = BytesIn(f.length)
             /\ \E k \in 1..d : f.payload = delivered[k]
  BY DEF LoopInv, LoopTypes, HeldFrames, HeldDelivered
<1>7. LoopTypes'
  <2>1. new \in HeldFrames
    BY <1>2, <1>4 DEF HeldFrames
  <2>2. held' \subseteq HeldFrames
    <3> HIDE DEF new
    <3> QED
      BY <1>1, <2>1 DEF LoopInv, LoopTypes
  <2>3. parser_read' \in 0..BufferSize
    BY <1>1, <1>2, <1>4
  <2>4. Len(delivered') > 0
    BY <1>4, <1>5
  <2> QED
    BY <1>1, <1>5, <2>2, <2>3, <2>4 DEF LoopInv, LoopTypes, Places
<1>8. \A a \in Offsets : a \in Int
  BY <1>4 DEF Offsets
<1>9. UnreadAscending'
  <2>1. ASSUME NEW a \in Offsets, parser_read + n + 4 <= a
        PROVE  parser_read <= a
    BY <1>2, <1>4, <1>8, <2>1
  <2> QED
    BY <1>1, <2>1 DEF LoopInv, UnreadAscending
<1>10. DeliveredAscending'
  <2>1. ASSUME NEW k \in 1..(d + 1), NEW i \in 1..Len(delivered'[k])
        PROVE  /\ delivered'[k][i] \in 1..fed
               /\ \A a \in Offsets : parser_read + n + 4 <= a /\ a < buffer_write =>
                    delivered'[k][i] < buffer[a]
    <3>1. CASE k = d + 1
      <4>1. i \in 1..n /\ delivered'[k][i] = payload[i]
        BY <1>2, <1>5, <3>1 DEF BytesIn
      <4>2. ASSUME NEW a \in Offsets, parser_read + n + 4 <= a, a < buffer_write
            PROVE  payload[i] < buffer[a]
        <5> DEFINE b == parser_read + 3 + i
        <5>0. /\ b \in Offsets /\ parser_read <= b /\ b < parser_read + n + 4
              /\ payload[i] = buffer[b]
          BY <1>3, <4>1
        <5> HIDE DEF b
        <5>1. b \in Offsets /\ parser_read <= b /\ b < a /\ payload[i] = buffer[b]
          BY <1>2, <1>4, <1>8, <4>2, <5>0
        <5>2. b < buffer_write
          BY <1>4, <1>8, <4>2, <5>1
        <5> QED
          BY <4>2, <5>1, <5>2 DEF LoopInv, UnreadAscending
      <4> QED
        BY <1>3, <4>1, <4>2
    <3>2. CASE k # d + 1
      <4>1. k \in 1..d
        BY <1>4, <3>2
      <4>2. i \in 1..Len(delivered[k]) /\ delivered'[k][i] = delivered[k][i]
        BY <1>5, <4>1
      <4>3. ASSUME NEW a \in Offsets, parser_read + n + 4 <= a, a < buffer_write
            PROVE  delivered[k][i] < buffer[a]
        <5>1. parser_read <= a
          BY <1>2, <1>4, <1>8, <4>3
        <5> QED
          BY <4>1, <4>2, <4>3, <5>1 DEF LoopInv, DeliveredAscending
      <4> QED
        BY <4>1, <4>2, <4>3 DEF LoopInv, DeliveredAscending
    <3> QED
      BY <3>1, <3>2
  <2> QED
    BY <1>1, <1>5, <2>1 DEF DeliveredAscending
<1>11. HeldDelivered'
  <2>1. ASSUME NEW f \in held
        PROVE  \E k \in 1..(d + 1) : f.payload = delivered'[k]
    BY <1>4, <1>5, <1>6
  <2>2. d + 1 \in 1..(d + 1)
    BY <1>4
  <2>3. /\ Len(new.payload) = BytesIn(new.length)
        /\ \E k \in 1..(d + 1) : new.payload = delivered'[k]
    BY <1>2, <1>5, <2>2
  <2> HIDE DEF new, d
  <2> QED
    BY <1>1, <1>5, <1>6, <2>1, <2>3 DEF HeldDelivered
<1>12. HeldFramesIntact' /\ FreshFramesParsed'
  <2>1. ASSUME NEW f \in held, f.fresh
        PROVE  /\ f.location + f.length <= parser_read'
               /\ \A i \in 1..f.length : buffer[f.location + i - 1] = f.payload[i]
    <3>1. f.location + f.length <= parser_read
      BY <2>1 DEF LoopInv, FreshFramesParsed
    <3>2. f.location + f.length <= parser_read'
      BY <1>1, <1>2, <1>4, <1>6, <3>1
    <3> QED
      BY <2>1, <3>2 DEF LoopInv, HeldFramesIntact
  <2>2. /\ new.location + new.length <= parser_read'
        /\ \A i \in 1..new.length : buffer[new.location + i - 1] = new.payload[i]
    <3>1. ASSUME NEW i \in 1..n
          PROVE  buffer[(parser_read + 4) + i - 1] = payload[i]
      <4>1. (parser_read + 4) + i - 1 = parser_read + 3 + i
        BY <1>2, <1>4
      <4> QED
        BY <1>3, <4>1
    <3> QED
      BY <1>1, <1>2, <1>4, <3>1
  <2> HIDE DEF new
  <2> QED
    BY <1>1, <2>1, <2>2 DEF HeldFramesIntact, FreshFramesParsed
<1>13. MessageFresh'
  <2>1. Message' = payload
    BY <1>5 DEF Message
  <2>2. ASSUME NEW f \in held, f.payload = payload
        PROVE  f.length <= 0
    <3>1. BytesIn(f.length) = BytesIn(n) /\ f.length \in Int
      BY <1>2, <1>6, <2>2
    <3>2. ASSUME n > 0
          PROVE  FALSE
      <4>1. 1 \in 1..n
        BY <1>2, <3>2
      <4>2. PICK k \in 1..d : payload = delivered[k]
        BY <1>6, <2>2
      <4>3. /\ parser_read + 3 + 1 \in Offsets
            /\ parser_read <= parser_read + 3 + 1
            /\ parser_read + 3 + 1 < buffer_write
            /\ payload[1] = buffer[parser_read + 3 + 1]
            /\ payload[1] \in 1..fed
        BY <1>2, <1>3, <1>4, <4>1
      <4>4. delivered[k][1] < buffer[parser_read + 3 + 1]
        <5>1. Len(delivered[k]) = n /\ 1 \in 1..Len(delivered[k])
          BY <1>2, <3>2, <4>1, <4>2 DEF BytesIn
        <5> QED
          BY <4>2, <4>3, <5>1 DEF LoopInv, DeliveredAscending
      <4> QED
        BY <1>4, <4>2, <4>3, <4>4
    <3> QED
      BY <1>2, <3>1, <3>2 DEF BytesIn
  <2>3. new.payload = payload /\ new.fresh
    OBVIOUS
  <2> HIDE DEF new
  <2> QED
    BY <1>1, <2>1, <2>2, <2>3 DEF MessageFresh
<1>14. Drained'
  BY <1>1 DEF Drained
<1>15. HandledCount' = HandledCount /\ HandledCount = d
  BY <1>1, <1>4, <1>5 DEF HandledCount
<1>16. RequestsAnsweredInOrder' /\ CommandsNamedAsSent'
  BY <1>1, <1>5, <1>15, SameFramesHandled
<1> QED
  BY <1>7, <1>9, <1>10, <1>11, <1>12, <1>13, <1>14, <1>16 DEF LoopInv

-----------------------------------------------------------------------------
(* The body of the while loop.                                             *)

\* What the loop makes of a frame of the stream: the name of its command, whether
\* it is a request, and the answer.
LEMMA FrameRead ==
  ASSUME wire \in Seq(0..255), NEW frame \in Seq(1..Len(wire))
  PROVE  /\ CommandIn(frame) = IF Len(frame) < MandatorySize THEN "none"
                               ELSE GetStringForTcpMessage(wire[frame[1]])
         /\ CommandIn(frame) \in Names
         /\ AsksForHeartbeat(frame) <=> IsRequest(frame)
         /\ AsksForHeartbeat(frame) =>
              /\ Response(ReadHeader(wire, frame)) = AnswerTo(frame)
              /\ AnswerTo(frame) \in Answers
<1>1. Len(frame) \in Nat /\ Len(wire) \in Nat
  OBVIOUS
<1>2. CASE ~HasHeader(frame)
  <2>1. Len(frame) < MandatorySize /\ ~(Len(frame) >= MandatorySize)
    BY <1>1, <1>2 DEF HasHeader, MandatorySize
  <2> QED
    BY <1>2, <2>1 DEF CommandIn, AsksForHeartbeat, IsRequest, Names
<1>3. CASE HasHeader(frame)
  <2>1. Len(frame) >= MandatorySize /\ ~(Len(frame) < MandatorySize)
    BY <1>1, <1>3 DEF HasHeader, MandatorySize
  <2>2. frame[1] \in 1..Len(wire)
    BY <1>1, <2>1 DEF MandatorySize
  <2>3. wire[frame[1]] \in 0..255
    BY <2>2, ElementOf
  <2>4. GetStringForHeader(ReadHeader(wire, frame))
          = GetStringForTcpMessage(wire[frame[1]])
    BY <1>3, CommandNamed
  <2>5. AsksForHeartbeat(frame) <=> IsRequest(frame)
    <3>1. ReadHeader(wire, frame).command = Char(wire[frame[1]])
      BY DEF ReadHeader
    <3>2. Char(wire[frame[1]]) = HeartbeatRequest <=> wire[frame[1]] = HeartbeatRequest
      <4> DEFINE b == wire[frame[1]]
      <4>1. b \in 0..255
        BY <2>3
      <4> HIDE DEF b
      <4>2. Char(b) = HeartbeatRequest <=> b = HeartbeatRequest
        BY <4>1 DEF Char, HeartbeatRequest
      <4> QED
        BY <4>2 DEF b
    <3>3. AsksForHeartbeat(frame) <=> Char(wire[frame[1]]) = HeartbeatRequest
      BY <1>3, <3>1, Zenon DEF AsksForHeartbeat
    <3> QED
      BY <2>1, <3>2, <3>3 DEF IsRequest
  <2>6. \A j \in UuidOffsets : frame[3 + j] \in Nat
    BY <1>1, <2>1 DEF MandatorySize, UuidOffsets
  <2>7. AnswerTo(frame) \in Answers
    BY <2>6 DEF AnswerTo, Answers
  <2>8. LengthPrefix(MandatorySize) = <<18, 0, 0, 0>>
    BY DEF LengthPrefix, MandatorySize
  <2>9. WriteHeader([command |-> HeartbeatResponse, flags |-> 0,
                     correlation_id |-> ReadHeader(wire, frame).correlation_id])
          = [command |-> HeartbeatResponse, flags |-> 0,
             correlation_id |-> [j \in UuidOffsets |-> frame[3 + j]]]
    <3>1. WriteHeader(ReadHeader(wire, frame)).correlation_id
            = [j \in UuidOffsets |-> frame[3 + j]]
      BY <1>3, HeaderRoundTrip
    <3>2. WriteUuidToWtf(ReadHeader(wire, frame).correlation_id)
            = [j \in UuidOffsets |-> frame[3 + j]]
      BY <3>1 DEF WriteHeader
    <3>3. UnsignedChar(HeartbeatResponse) = HeartbeatResponse /\ UnsignedChar(0) = 0
      BY DEF UnsignedChar, HeartbeatResponse
    <3> QED
      BY <3>2, <3>3 DEF WriteHeader
  <2>10. Response(ReadHeader(wire, frame)) = AnswerTo(frame)
    BY <2>8, <2>9 DEF Response, AnswerTo
  <2>11. GetStringForTcpMessage(wire[frame[1]]) \in Names
    BY <2>3 DEF Names
  <2> QED
    BY <1>3, <2>1, <2>4, <2>5, <2>7, <2>10, <2>11 DEF CommandIn
<1> QED
  BY <1>2, <1>3

\* The cells msg points at are those of the frame read_next returned.
LEMMA MessageIntact ==
  ASSUME LoopInv, pc = "handle"
  PROVE  MessageBytes = Message
<1> DEFINE f == CHOOSE g \in held : g.payload = Message
<1>1. f \in held /\ f.payload = Message
  BY DEF LoopInv, MessageFresh
<1>2. f.fresh \/ f.length <= 0
  BY <1>1 DEF LoopInv, MessageFresh
<1>3. /\ f.payload \in Seq(Nat) /\ Len(f.payload) = BytesIn(f.length)
      /\ f.length \in Int
  BY <1>1 DEF LoopInv, LoopTypes, HeldFrames, HeldDelivered
<1> HIDE DEF f
<1>4. \A i \in 1..f.length : buffer[f.location + i - 1] = f.payload[i]
  <2>1. CASE f.fresh
    BY <1>1, <2>1 DEF LoopInv, HeldFramesIntact
  <2>2. CASE f.length <= 0
    BY <1>3, <2>2
  <2> QED
    BY <1>2, <2>1, <2>2
<1>5. [i \in 1..f.length |-> buffer[f.location + i - 1]] = f.payload
  <2> DEFINE n == f.length
             payload == f.payload
             cell(i) == buffer[f.location + i - 1]
  <2>1. payload \in [1..n -> Nat]
    <3>1. 1..n = 1..Len(payload)
      BY <1>3 DEF BytesIn
    <3> QED
      BY <1>3, <3>1
  <2>2. \A i \in 1..n : cell(i) = payload[i]
    BY <1>4
  <2> HIDE DEF n, payload, cell
  <2>3. [i \in 1..n |-> cell(i)] = payload
    BY <2>1, <2>2
  <2> QED
    BY <2>3 DEF n, payload, cell
<1> QED
  BY <1>1, <1>5 DEF MessageBytes, f

\* The frame handled is one of the stream.
LEMMA MessagePositions ==
  ASSUME LoopInv, pc = "handle"
  PROVE  /\ Len(delivered) \in Nat /\ Len(delivered) > 0
         /\ Message = delivered[Len(delivered)]
         /\ Message \in Seq(1..Len(wire))
<1>1. Len(delivered) \in 1..Len(delivered)
  BY LoopCursors DEF LoopInv, LoopTypes
<1>2. Message = delivered[Len(delivered)] /\ Message \in Seq(Nat)
  BY <1>1 DEF Message, LoopInv, LoopTypes
<1>3. \A i \in 1..Len(Message) : Message[i] \in 1..Len(wire)
  BY <1>1, <1>2, DeliveredPosition DEF LoopInv
<1>4. Message \in Seq(1..Len(wire))
  <2> DEFINE S == 1..Len(wire)
  <2>1. \A i \in 1..Len(Message) : Message[i] \in S
    BY <1>3
  <2> HIDE DEF S
  <2>2. Message \in [1..Len(Message) -> S] /\ Len(Message) \in Nat
    BY <1>2, <2>1
  <2>3. Message \in Seq(S)
    BY <2>2, FunctionIsSeq
  <2> QED
    BY <2>3 DEF S
<1> QED
  BY <1>1, <1>2, <1>4, LoopCursors DEF LoopInv

\* What HandleMessage does, in terms of the frame read_next returned.
LEMMA HandleMessageEffect ==
  ASSUME LoopInv, HandleMessage
  PROVE  /\ pc = "handle"
         /\ log' = Append(log, CommandIn(Message))
         /\ \/ /\ IsRequest(Message)
               /\ \E outcome \in SendOutcomes :
                    /\ outcome = "sigpipe" => closed
                    /\ replies' = Append(replies, [to |-> Len(delivered),
                                                   outcome |-> outcome,
                                                   frame |-> AnswerTo(Message)])
                    /\ pc' = IF outcome = "sigpipe" THEN "killed" ELSE "drain"
               /\ AnswerTo(Message) \in Answers
            \/ ~IsRequest(Message) /\ pc' = "drain" /\ replies' = replies
         /\ UNCHANGED <<wire, sent, fed, buffer, parser_read, buffer_write,
                        delivered, held, alive, closed, cut, read_errors>>
<1>1. pc = "handle" /\ UNCHANGED <<vars, socketVars>>
  BY DEF HandleMessage
<1>2. MessageBytes = Message
  BY <1>1, MessageIntact
<1>3. /\ AsksForHeartbeat(Message) <=> IsRequest(Message)
      /\ AsksForHeartbeat(Message) =>
           /\ Response(ReadHeader(wire, Message)) = AnswerTo(Message)
           /\ AnswerTo(Message) \in Answers
  BY <1>1, MessagePositions, FrameRead DEF LoopInv, LoopTypes
<1>4. UNCHANGED <<wire, sent, fed, buffer, parser_read, buffer_write, delivered,
                  held, alive, closed, cut, read_errors>>
  BY <1>1 DEF vars, socketVars
<1> QED
  BY <1>1, <1>2, <1>3, <1>4 DEF HandleMessage, Reply

\* Handling a frame adds it to those the answers and the log are about.
LEMMA HandleMessageInv ==
  ASSUME LoopInv, HandleMessage
  PROVE  LoopInv'
<1> DEFINE d == Len(delivered)
           r == Len(replies)
<1>1. /\ pc = "handle" /\ pc' \in {"drain", "killed"}
      /\ log' = Append(log, CommandIn(Message))
      /\ UNCHANGED <<wire, fed, buffer, parser_read, buffer_write, delivered, held,
                     alive, closed, cut, read_errors>>
  BY HandleMessageEffect
<1>2. d \in Nat /\ d > 0 /\ Message = delivered[d] /\ Message \in Seq(1..Len(wire))
  BY <1>1, MessagePositions
<1>3. /\ CommandIn(Message) = IF Len(Message) < MandatorySize THEN "none"
                              ELSE GetStringForTcpMessage(wire[Message[1]])
      /\ CommandIn(Message) \in Names
  BY <1>2, FrameRead DEF LoopInv, LoopTypes
<1>4. HandledCount = d - 1 /\ HandledCount' = d
  BY <1>1 DEF HandledCount
<1>5. replies \in Seq(Replies) /\ r \in Nat /\ log \in Seq(Names) /\ Len(log) = d - 1
  BY <1>4 DEF LoopInv, LoopTypes, CommandsNamedAsSent
<1>6. \A j \in 1..r : replies[j].to \in 1..(d - 1)
  BY <1>4 DEF LoopInv, RequestsAnsweredInOrder
<1>7. /\ {replies[j].to : j \in 1..r} = {k \in 1..(d - 1) : IsRequest(delivered[k])}
      /\ \A j \in 1..r : /\ replies[j].frame = AnswerTo(delivered[replies[j].to])
                         /\ \A i \in 1..(j - 1) : replies[i].to < replies[j].to
  BY <1>4 DEF LoopInv, RequestsAnsweredInOrder
<1>8. \A k \in 1..d : IsRequest(delivered[k])' = IsRequest(delivered[k])
  BY <1>1 DEF IsRequest
<1>9. replies' \in Seq(Replies) /\ RequestsAnsweredInOrder'
  <2>1. CASE ~IsRequest(Message)
    <3>1. replies' = replies
      BY <2>1, HandleMessageEffect
    <3>2. {k \in 1..d : IsRequest(delivered[k])}
            = {k \in 1..(d - 1) : IsRequest(delivered[k])}
      BY <1>2, <2>1
    <3> QED
      BY <1>1, <1>4, <1>5, <1>6, <1>7, <1>8, <3>1, <3>2
         DEF RequestsAnsweredInOrder, AnswerTo
  <2>2. CASE IsRequest(Message)
    <3>1. PICK outcome \in SendOutcomes :
            replies' = Append(replies, [to |-> d, outcome |-> outcome,
                                        frame |-> AnswerTo(Message)])
      BY <2>2, HandleMessageEffect
    <3> DEFINE new == [to |-> d, outcome |-> outcome, frame |-> AnswerTo(Message)]
    <3>2. new \in Replies
      BY <1>2, <2>2, HandleMessageEffect DEF Replies
    <3>3. new.to = d /\ new.frame = AnswerTo(delivered[d])
      BY <1>2
    <3>4. replies' = Append(replies, new)
      BY <3>1
    <3> HIDE DEF new
    <3>5. /\ replies' \in Seq(Replies) /\ Len(replies') = r + 1
          /\ \A j \in 1..r : replies'[j] = replies[j]
          /\ replies'[r + 1] = new
      BY <1>5, <3>2, <3>4
    <3>6. \A j \in 1..(r + 1) : j \in 1..r \/ j = r + 1
      BY <1>5
    <3>7. {replies'[j].to : j \in 1..(r + 1)} = {replies[j].to : j \in 1..r} \cup {d}
      <4>1. 1..r \subseteq 1..(r + 1) /\ r + 1 \in 1..(r + 1)
        BY <1>5
      <4> HIDE DEF r, d
      <4> QED
        BY <3>3, <3>5, <3>6, <4>1
    <3>8. {k \in 1..d : IsRequest(delivered[k])}
            = {k \in 1..(d - 1) : IsRequest(delivered[k])} \cup {d}
      BY <1>2, <2>2
    <3>9. {replies'[j].to : j \in 1..Len(replies')}
            = {k \in 1..HandledCount : IsRequest(delivered[k])}'
      <4>1. {k \in 1..d : IsRequest(delivered[k])'} = {k \in 1..d : IsRequest(delivered[k])}
        BY <1>8
      <4> QED
        BY <1>1, <1>4, <1>7, <3>5, <3>7, <3>8, <4>1
    <3>10. ASSUME NEW j \in 1..(r + 1)
           PROVE  /\ replies'[j].frame = AnswerTo(delivered[replies'[j].to])
                  /\ \A i \in 1..(j - 1) : replies'[i].to < replies'[j].to
      <4>1. CASE j \in 1..r
        <5>1. \A i \in 1..(j - 1) : i \in 1..r
          BY <1>5, <4>1
        <5> QED
          BY <1>7, <3>5, <4>1, <5>1
      <4>2. CASE j = r + 1
        <5>1. \A i \in 1..(j - 1) : i \in 1..r
          BY <1>5, <4>2
        <5>2. \A i \in 1..(j - 1) : replies'[i].to < d
          BY <1>2, <1>6, <3>5, <5>1
        <5> QED
          BY <3>3, <3>5, <4>2, <5>2
      <4> QED
        BY <3>6, <4>1, <4>2
    <3> QED
      BY <1>1, <3>5, <3>9, <3>10 DEF RequestsAnsweredInOrder, AnswerTo
  <2> QED
    BY <2>1, <2>2
<1>10. log' \in Seq(Names) /\ CommandsNamedAsSent'
  <2>1. /\ log' \in Seq(Names) /\ Len(log') = d
        /\ \A k \in 1..(d - 1) : log'[k] = log[k]
        /\ log'[d] = CommandIn(Message)
    BY <1>1, <1>2, <1>3, <1>5
  <2>2. ASSUME NEW k \in 1..d
        PROVE  log'[k] = IF Len(delivered[k]) < MandatorySize THEN "none"
                         ELSE GetStringForTcpMessage(wire[delivered[k][1]])
    <3>1. CASE k = d
      BY <1>2, <1>3, <2>1, <3>1
    <3>2. CASE k # d
      <4>1. k \in 1..(d - 1)
        BY <1>2, <3>2
      <4> QED
        BY <1>5, <2>1, <4>1 DEF LoopInv, CommandsNamedAsSent
    <3> QED
      BY <3>1, <3>2
  <2> QED
    BY <1>1, <1>4, <2>1, <2>2 DEF CommandsNamedAsSent
<1>11. LoopTypes'
  BY <1>1, <1>9, <1>10 DEF LoopInv, LoopTypes, Places
<1>12. /\ UnreadAscending' /\ DeliveredAscending' /\ HeldDelivered'
       /\ HeldFramesIntact' /\ FreshFramesParsed' /\ MessageFresh' /\ Drained'
  BY <1>1 DEF LoopInv, UnreadAscending, DeliveredAscending, HeldDelivered,
              HeldFramesIntact, FreshFramesParsed, MessageFresh, Drained
<1> QED
  BY <1>9, <1>10, <1>11, <1>12 DEF LoopInv

-----------------------------------------------------------------------------
(* The end of the body of while(3).                                        *)

\* A cell moved to the front of the buffer is an unread one.
LEMMA CompressMoves ==
  ASSUME LoopInv, UpwardMemcpy, CompressSpace,
         NEW a \in Offsets, a < buffer_write - parser_read
  PROVE  /\ a + parser_read \in Offsets
         /\ parser_read <= a + parser_read /\ a + parser_read < buffer_write
         /\ buffer'[a] = buffer[a + parser_read]
<1>1. /\ parser_read \in Nat /\ buffer_write \in Int /\ buffer_write <= BufferSize
      /\ BufferSize \in Nat
  BY LoopCursors DEF LoopInv
<1>2. a \in Nat
  BY <1>1 DEF Offsets
<1>3. a + parser_read \in Offsets
  BY <1>1, <1>2 DEF Offsets
<1>4. buffer' = Memcpy("ascending", parser_read, buffer_write - parser_read)
  BY <1>1, <1>2 DEF CompressSpace, UpwardMemcpy
<1> DEFINE unread == buffer_write - parser_read
<1>5. ~(a >= unread)
  BY <1>1, <1>2
<1> HIDE DEF unread
<1>6. Memcpy("ascending", parser_read, unread)[a] = buffer[a + parser_read]
  BY <1>5 DEF Memcpy
<1> QED
  BY <1>1, <1>2, <1>3, <1>4, <1>6 DEF unread

\* Frames that have gone stale are still the frames returned.
LEMMA StaleFrames ==
  ASSUME LoopInv, held' = AllStale, UNCHANGED delivered
  PROVE  /\ held' \subseteq HeldFrames
         /\ HeldDelivered' /\ HeldFramesIntact' /\ FreshFramesParsed'
<1>1. ASSUME NEW f \in held'
      PROVE  /\ f \in HeldFrames /\ ~f.fresh
             /\ Len(f.payload) = BytesIn(f.length)
             /\ \E k \in 1..Len(delivered) : f.payload = delivered[k]
  <2>1. PICK g \in held : f = [g EXCEPT !.fresh = FALSE]
    BY DEF AllStale
  <2>2. g \in HeldFrames
    BY DEF LoopInv, LoopTypes
  <2>3. /\ f \in HeldFrames /\ ~f.fresh
        /\ f.payload = g.payload /\ f.length = g.length
    BY <2>1, <2>2 DEF HeldFrames
  <2> QED
    BY <2>3 DEF LoopInv, HeldDelivered
<1> QED
  BY <1>1 DEF HeldDelivered, HeldFramesIntact, FreshFramesParsed

\* Moving the unread bytes to the front keeps them, and what read_next makes of
\* them.
LEMMA CompressInv ==
  ASSUME LoopInv, UpwardMemcpy, Compress
  PROVE  LoopInv'
<1>1. /\ pc = "compress" /\ pc' = "poll"
      /\ UNCHANGED <<replies, log, closed, cut, read_errors>>
  BY DEF Compress, outputVars, socketVars
<1>2. /\ parser_read \in Nat /\ parser_read <= BufferSize /\ BufferSize \in Nat
      /\ buffer_write \in Int /\ buffer_write <= BufferSize
  BY LoopCursors DEF LoopInv
<1>3. CASE ~SpaceToReclaim /\ UNCHANGED vars
  <2>1. /\ parser_read = 0
        /\ UNCHANGED <<wire, fed, buffer, parser_read, buffer_write, delivered,
                       held, alive>>
    BY <1>3 DEF SpaceToReclaim, vars
  <2>2. LoopTypes'
    BY <1>1, <2>1 DEF LoopInv, LoopTypes, Places
  <2>3. Drained'
    BY <1>1, <2>1, SameFrameReady DEF LoopInv, Drained
  <2> QED
    BY <1>1, <2>1, <2>2, <2>3, LoopCursors, QuietStep DEF LoopInv
<1>4. CASE CompressSpace
  <2> DEFINE unread == buffer_write - parser_read
  <2>1. /\ buffer_write' = unread
        /\ parser_read' = 0
        /\ held' = AllStale
        /\ UNCHANGED <<wire, fed, delivered, alive>>
    BY <1>4 DEF CompressSpace, peerVars
  <2>2. unread \in Int /\ unread <= BufferSize
    BY <1>2
  <2>3. ASSUME NEW a \in Offsets, a < unread
        PROVE  /\ a + parser_read \in Offsets
               /\ parser_read <= a + parser_read /\ a + parser_read < buffer_write
               /\ buffer'[a] = buffer[a + parser_read]
    BY <1>4, <2>3, CompressMoves
  <2>4. \A a \in Offsets : a \in Nat
    BY <1>2 DEF Offsets
  <2>5. Drained'
    <3>1. SUFFICES FrameReady' = FrameReady
      BY <1>1 DEF LoopInv, Drained
    <3>2. buffer_write' - parser_read' = unread
      BY <2>1, <2>2
    <3>3. CASE ~(unread >= 4)
      BY <3>2, <3>3 DEF FrameReady
    <3>4. CASE unread >= 4
      <4>1. ASSUME NEW j \in 1..4
            PROVE  buffer'[0 + j - 1] = buffer[parser_read + j - 1]
        <5> DEFINE a == 0 + j - 1
        <5>1. a \in Offsets /\ a < unread /\ a + parser_read = parser_read + j - 1
          BY <1>2, <2>2, <3>4 DEF Offsets
        <5> HIDE DEF a, unread
        <5>2. buffer'[a] = buffer[parser_read + j - 1]
          BY <2>3, <5>1
        <5> QED
          BY <5>2 DEF a
      <4>2. NextLength' = NextLength
        BY <2>1, <4>1 DEF NextLength
      <4> QED
        BY <3>2, <4>2 DEF FrameReady
    <3> QED
      BY <3>3, <3>4
  <2> HIDE DEF unread
  <2>6. UnreadAscending'
    <3>1. ASSUME NEW a \in Offsets, a < unread
          PROVE  /\ buffer'[a] \in 1..fed
                 /\ \A b \in Offsets : a < b /\ b < unread => buffer'[a] < buffer'[b]
      <4>1. buffer'[a] \in 1..fed
        BY <2>3, <3>1 DEF LoopInv, UnreadAscending
      <4>2. ASSUME NEW b \in Offsets, a < b, b < unread
            PROVE  buffer'[a] < buffer'[b]
        <5> DEFINE x == a + parser_read
                   y == b + parser_read
        <5>1. x < y
          BY <1>2, <2>4, <4>2
        <5>2. /\ x \in Offsets /\ parser_read <= x /\ x < buffer_write
              /\ buffer'[a] = buffer[x]
          BY <2>3, <3>1
        <5>3. /\ y \in Offsets /\ y < buffer_write /\ buffer'[b] = buffer[y]
          BY <2>3, <4>2
        <5> HIDE DEF x, y
        <5> QED
          BY <5>1, <5>2, <5>3 DEF LoopInv, UnreadAscending
      <4> QED
        BY <4>1, <4>2
    <3> QED
      BY <2>1, <3>1 DEF UnreadAscending
  <2>7. DeliveredAscending'
    <3>1. ASSUME NEW k \in 1..Len(delivered), NEW i \in 1..Len(delivered[k])
          PROVE  /\ delivered[k][i] \in 1..fed
                 /\ \A a \in Offsets : a < unread => delivered[k][i] < buffer'[a]
      <4>1. ASSUME NEW a \in Offsets, a < unread
            PROVE  delivered[k][i] < buffer'[a]
        <5> DEFINE x == a + parser_read
        <5>1. /\ x \in Offsets /\ parser_read <= x /\ x < buffer_write
              /\ buffer'[a] = buffer[x]
          BY <2>3, <4>1
        <5> HIDE DEF x
        <5> QED
          BY <5>1 DEF LoopInv, DeliveredAscending
      <4> QED
        BY <4>1 DEF LoopInv, DeliveredAscending
    <3> QED
      BY <2>1, <3>1 DEF DeliveredAscending
  <2>8. /\ held' \subseteq HeldFrames
        /\ HeldDelivered' /\ HeldFramesIntact' /\ FreshFramesParsed'
    BY <2>1, StaleFrames
  <2>9. LoopTypes'
    BY <1>1, <1>2, <2>1, <2>2, <2>8 DEF LoopInv, LoopTypes, Places
  <2>10. MessageFresh'
    BY <1>1 DEF MessageFresh
  <2>11. HandledCount' = HandledCount
    BY <1>1, <2>1 DEF HandledCount
  <2>12. RequestsAnsweredInOrder' /\ CommandsNamedAsSent'
    BY <1>1, <2>1, <2>11, SameFramesHandled
  <2> QED
    BY <2>5, <2>6, <2>7, <2>8, <2>9, <2>10, <2>12 DEF LoopInv
<1> QED
  BY <1>3, <1>4 DEF Compress

-----------------------------------------------------------------------------
(* Every step preserves the invariant.                                     *)

LEMMA ClientNextInv ==
  ASSUME LoopInv, UpwardMemcpy, [ClientNext]_clientVars
  PROVE  LoopInv'
<1>1. CASE PeerSend
  BY <1>1, PeerSendInv
<1>2. ASSUME NEW n \in CutLengths, PeerClose(n)
      PROVE  LoopInv'
  BY <1>2, PeerCloseInv
<1>3. ASSUME NEW n \in ChunkSizes, ReadChunk(n)
      PROVE  LoopInv'
  BY <1>3, ReadChunkInv
<1>4. ASSUME NEW n \in ChunkSizes, DropChunk(n)
      PROVE  LoopInv'
  BY <1>4, DropChunkInv
<1>5. CASE ReadError
  BY <1>5, ReadErrorInv
<1>6. CASE SocketDropped \/ GoAstray \/ NoMessage \/ UNCHANGED clientVars
  BY <1>6, MoveOnInv
<1>7. CASE NextMessage
  BY <1>7, NextMessageInv
<1>8. CASE HandleMessage
  BY <1>8, HandleMessageInv
<1>9. CASE Compress
  BY <1>9, CompressInv
<1> QED
  BY <1>1, <1>2, <1>3, <1>4, <1>5, <1>6, <1>7, <1>8, <1>9 DEF ClientNext, LoopStep

\* The loop starts with an empty buffer and nothing done.
LEMMA ClientInitInv ==
  ASSUME ClientInit
  PROVE  LoopInv
<1>1. /\ wire = <<>> /\ fed = 0 /\ parser_read = 0 /\ buffer_write = 0
      /\ delivered = <<>> /\ held = {} /\ alive = TRUE
      /\ pc = "poll" /\ replies = <<>> /\ log = <<>> /\ closed = FALSE
      /\ cut = 0 /\ read_errors = 0
  BY DEF ClientInit, Init
<1>2. Len(wire) = 0 /\ Len(delivered) = 0 /\ Len(replies) = 0 /\ Len(log) = 0
  BY <1>1
<1>3. LoopTypes
  <2>1. /\ wire \in Seq(0..255) /\ delivered \in Seq(Seq(Nat))
        /\ replies \in Seq(Replies) /\ log \in Seq(Names)
    BY <1>1
  <2>2. /\ fed \in 0..Len(wire) /\ cut \in 0..(Len(wire) - fed)
        /\ parser_read \in 0..BufferSize
        /\ buffer_write \in Int /\ buffer_write <= BufferSize
        /\ read_errors \in 0..MaxReadErrors
    BY <1>1, <1>2, BufferSizeAssumption, MaxReadErrorsAssumption
  <2>3. held \subseteq HeldFrames
    BY <1>1
  <2> QED
    BY <1>1, <2>1, <2>2, <2>3 DEF LoopTypes, Places
<1>4. UnreadAscending /\ Drained
  BY <1>1, BufferSizeAssumption DEF UnreadAscending, Drained, FrameReady, Offsets
<1>5. /\ DeliveredAscending /\ HeldDelivered /\ HeldFramesIntact /\ FreshFramesParsed
      /\ MessageFresh
  BY <1>1, <1>2 DEF DeliveredAscending, HeldDelivered, HeldFramesIntact,
                    FreshFramesParsed, MessageFresh
<1>6. RequestsAnsweredInOrder /\ CommandsNamedAsSent
  BY <1>1, <1>2 DEF RequestsAnsweredInOrder, CommandsNamedAsSent, HandledCount
<1> QED
  BY <1>3, <1>4, <1>5, <1>6 DEF LoopInv

-----------------------------------------------------------------------------
(* When nothing can be lost, the loop drives the parser as Next does.      *)

\* The frames the peer sent follow one another.
FramesInOrder ==
  \A j, k \in 1..Len(sent) : j < k => sent[j].at + 4 + sent[j].length <= sent[k].at

LosslessInv == LoopInv /\ IInv /\ FramesInOrder /\ pc # "astray"

\* At poll the buffer holds less than a frame, all of it at its front.
LEMMA RoomForChunk ==
  ASSUME LoopInv, IInv, Lossless
  PROVE  RoomAtPoll
<1>1. SUFFICES ASSUME pc = "poll", NEW n \in ChunkSizes
               PROVE  buffer_write + n <= BufferSize
  BY DEF RoomAtPoll, Fits
<1>2. parser_read = 0 /\ ~FrameReady
  BY <1>1 DEF LoopInv, LoopTypes, Drained
<1>3. /\ Len(wire) \in Nat /\ Len(sent) \in Nat /\ Len(delivered) \in Nat
      /\ fed \in Nat /\ fed <= Len(wire) /\ BufferSize \in Nat
      /\ buffer_write \in Nat /\ buffer_write - parser_read \in Nat
      /\ Len(delivered) <= Len(sent)
  BY CursorTypes DEF IInv, DeliveredAsSent
<1>4. /\ n \in Nat /\ n <= BufferSize
      /\ \A length \in FrameLengths : length \in Nat /\ length + 3 + n <= BufferSize
  BY ChunkSizesAssumption, FrameLengthsAssumption DEF Lossless, Roomy
<1>5. CASE buffer_write = 0
  BY <1>3, <1>4, <1>5
<1>6. CASE buffer_write \in 1..3
  <2>1. fed - buffer_write = StartOf(sent, Len(wire), Len(delivered) + 1)
    BY <1>2, <1>3 DEF IInv, ReadAtFrameStart
  <2>2. Len(delivered) + 1 \in 1..Len(sent)
    BY <1>3, <1>6, <2>1 DEF StartOf
  <2>3. sent[Len(delivered) + 1].length \in FrameLengths
    BY <2>2, SentFrameTypes DEF IInv
  <2> QED
    BY <1>3, <1>4, <1>6, <2>3
<1>7. CASE buffer_write >= 4
  <2>1. NextLength \in FrameLengths /\ FrameSpan(NextLength) = NextLength + 4
    BY <1>2, <1>3, <1>7, NextFrameDecoded DEF Lossless
  <2> DEFINE length == NextLength
  <2>2. length \in FrameLengths /\ ~(buffer_write >= length + 4)
    BY <1>2, <1>3, <1>7, <2>1 DEF FrameReady
  <2> HIDE DEF length
  <2> QED
    BY <1>3, <1>4, <2>2
<1> QED
  BY <1>3, <1>5, <1>6, <1>7

\* Every step of the client is one of the parser or leaves it alone.
LEMMA ClientStepsParser ==
  ASSUME LoopInv, IInv, Lossless, [ClientNext]_clientVars
  PROVE  [Next]_vars
<1>1. CASE PeerSend
  BY <1>1 DEF PeerSend, Next
<1>2. ASSUME NEW n \in CutLengths, PeerClose(n)
      PROVE  UNCHANGED vars
  BY <1>2 DEF PeerClose
<1>3. ASSUME NEW n \in ChunkSizes, ReadChunk(n)
      PROVE  Next
  BY <1>3 DEF ReadChunk, Next
<1>4. ASSUME NEW n \in ChunkSizes, DropChunk(n)
      PROVE  FALSE
  BY <1>4, RoomForChunk DEF DropChunk, RoomAtPoll
<1>5. CASE ReadError
  BY <1>5 DEF ReadError, LoopInv, LoopTypes, Lossless
<1>6. CASE SocketDropped \/ GoAstray \/ NoMessage \/ HandleMessage \/ UNCHANGED clientVars
  BY <1>6 DEF SocketDropped, GoAstray, NoMessage, HandleMessage, clientVars
<1>7. CASE NextMessage
  BY <1>7 DEF NextMessage, Next
<1>8. CASE Compress
  BY <1>8 DEF Compress, Next
<1> QED
  BY <1>1, <1>2, <1>3, <1>4, <1>5, <1>6, <1>7, <1>8 DEF ClientNext, LoopStep

\* A frame sent is the last one.
LEMMA FramesStayInOrder ==
  ASSUME IInv, FramesInOrder, [Next]_vars
  PROVE  FramesInOrder'
<1>1. CASE UNCHANGED sent
  BY <1>1 DEF FramesInOrder
<1>2. ASSUME NEW length \in FrameLengths, NEW byte \in PayloadBytes,
             SendFrame(length, byte)
      PROVE  FramesInOrder'
  <2>1. /\ Len(sent) \in Nat /\ Len(sent') = Len(sent) + 1
        /\ \A k \in 1..Len(sent) : sent'[k] = sent[k]
        /\ sent'[Len(sent) + 1].at = Len(wire)
    BY <1>2, SendFrameSent, CursorTypes DEF IInv
  <2>2. \A k \in 1..Len(sent) : sent[k].at + 4 + sent[k].length <= Len(wire)
    BY DEF IInv, WireFramed
  <2>3. ASSUME NEW j \in 1..Len(sent'), NEW k \in 1..Len(sent'), j < k
        PROVE  sent'[j].at + 4 + sent'[j].length <= sent'[k].at
    <3>1. j \in 1..Len(sent) /\ (k \in 1..Len(sent) \/ k = Len(sent) + 1)
      BY <2>1, <2>3
    <3>2. CASE k \in 1..Len(sent)
      BY <2>1, <2>3, <3>1, <3>2 DEF FramesInOrder
    <3>3. CASE k = Len(sent) + 1
      BY <2>1, <2>2, <3>1, <3>3
    <3> QED
      BY <3>1, <3>2, <3>3
  <2> QED
    BY <2>3 DEF FramesInOrder
<1>3. ASSUME Next, ~\E length \in FrameLengths, byte \in PayloadBytes :
                       SendFrame(length, byte)
      PROVE  UNCHANGED sent
  BY <1>3 DEF Next, AddData, ReadNext, CompressSpace, DestroyParserState, FreeFrame,
              peerVars
<1> QED
  BY <1>1, <1>2, <1>3 DEF vars

\* What read_next sees is a length, since it is that of a frame the peer sent: it
\* does not leave the buffer.
LEMMA LosslessStaysInBuffer ==
  ASSUME LoopInv, IInv, Lossless, FrameReady
  PROVE  NextStaysInBuffer
<1> DEFINE n == NextLength
<1>1. n \in FrameLengths /\ FrameSpan(n) = n + 4
  BY NextFrameDecoded DEF FrameReady, Lossless
<1>2. n \in Nat /\ buffer_write - parser_read >= n + 4
  BY <1>1, FrameLengthsAssumption DEF FrameReady
<1>3. /\ parser_read \in Nat /\ buffer_write \in Int /\ BufferSize \in Nat
      /\ buffer_write <= BufferSize
  BY LoopCursors DEF LoopInv
<1> HIDE DEF n
<1>4. n \in -(parser_read + 4)..(BufferSize - parser_read - 4)
  BY <1>2, <1>3
<1> QED
  BY <1>4 DEF NextStaysInBuffer, n

LEMMA LosslessNotAstray ==
  ASSUME LosslessInv, Lossless, [ClientNext]_clientVars
  PROVE  pc' # "astray"
<1>1. LoopInv /\ IInv /\ pc # "astray"
  BY DEF LosslessInv
<1>2. CASE PeerSend \/ UNCHANGED clientVars
  BY <1>1, <1>2 DEF PeerSend, loopVars, clientVars
<1>3. ASSUME NEW n \in CutLengths, PeerClose(n)
      PROVE  pc' # "astray"
  BY <1>1, <1>3 DEF PeerClose
<1>4. ASSUME NEW n \in ChunkSizes, ReadChunk(n) \/ DropChunk(n)
      PROVE  pc' # "astray"
  BY <1>4 DEF ReadChunk, DropChunk
<1>5. CASE SocketDropped \/ NextMessage \/ NoMessage \/ Compress \/ ReadError
  BY <1>5 DEF SocketDropped, NextMessage, NoMessage, Compress, ReadError
<1>6. CASE GoAstray
  BY <1>1, <1>6, LosslessStaysInBuffer DEF GoAstray
<1>7. CASE HandleMessage
  BY <1>7 DEF HandleMessage, Reply
<1> QED
  BY <1>2, <1>3, <1>4, <1>5, <1>6, <1>7 DEF ClientNext, LoopStep

LEMMA LosslessNextInv ==
  ASSUME LosslessInv, Lossless, UpwardMemcpy, [ClientNext]_clientVars
  PROVE  LosslessInv'
<1>1. LoopInv /\ IInv /\ FramesInOrder /\ ShortFrames
  BY DEF LosslessInv, Lossless
<1>2. [Next]_vars
  BY <1>1, ClientStepsParser
<1>3. LoopInv'
  BY <1>1, ClientNextInv
<1>4. IInv'
  BY <1>1, <1>2, NextInv
<1>5. FramesInOrder'
  BY <1>1, <1>2, FramesStayInOrder
<1> QED
  BY <1>3, <1>4, <1>5, LosslessNotAstray DEF LosslessInv

LEMMA LosslessInitInv ==
  ASSUME ClientInit
  PROVE  LosslessInv
<1>1. Init /\ pc = "poll"
  BY DEF ClientInit
<1>2. LoopInv /\ IInv
  BY <1>1, ClientInitInv, InitInv
<1>3. FramesInOrder
  BY <1>1 DEF Init, FramesInOrder
<1> QED
  BY <1>1, <1>2, <1>3 DEF LosslessInv

-----------------------------------------------------------------------------
(* The theorems.                                                           *)

\* Whatever bytes the peer sends and whichever of them the loop loses, the loop's
\* invariant holds.
THEOREM LoopInvariance ==
  ASSUME UpwardMemcpy
  PROVE  ClientSpec => []LoopInv
<1>1. ClientInit => LoopInv
  BY ClientInitInv
<1>2. LoopInv /\ [ClientNext]_clientVars => LoopInv'
  BY ClientNextInv
<1> QED
  BY <1>1, <1>2, PTL DEF ClientSpec

\* When nothing can be lost the loop's invariant and the parser's both hold,
\* whatever the bytes are.
THEOREM LosslessInvariance ==
  ASSUME Lossless, UpwardMemcpy
  PROVE  ClientSpec => []LosslessInv
<1>1. ClientInit => LosslessInv
  BY LosslessInitInv
<1>2. LosslessInv /\ [ClientNext]_clientVars => LosslessInv'
  BY LosslessNextInv
<1> QED
  BY <1>1, <1>2, PTL DEF ClientSpec

\* Every heartbeat request read_next returns is answered once, in order, with
\* its own correlation id, also when reads fail, chunks are dropped or sends are
\* refused.
THEOREM RequestsAlwaysAnsweredInOrder ==
  ASSUME UpwardMemcpy
  PROVE  ClientSpec => []RequestsAnsweredInOrder
<1>1. LoopInv => RequestsAnsweredInOrder
  BY DEF LoopInv
<1> QED
  BY <1>1, LoopInvariance, PTL

\* The loop names the command of every frame it handles by the byte the peer
\* sent.
THEOREM CommandsAlwaysNamedAsSent ==
  ASSUME UpwardMemcpy
  PROVE  ClientSpec => []CommandsNamedAsSent
<1>1. LoopInv => CommandsNamedAsSent
  BY DEF LoopInv
<1> QED
  BY <1>1, LoopInvariance, PTL

\* While the loop waits in poll, no complete frame lies in its buffer.
THEOREM AlwaysPollsDrained ==
  ASSUME UpwardMemcpy
  PROVE  ClientSpec => []PollsOnlyWhenDrained
<1>1. LoopInv => PollsOnlyWhenDrained
  BY DEF LoopInv, Drained, PollsOnlyWhenDrained
<1> QED
  BY <1>1, LoopInvariance, PTL

\* With a buffer one chunk larger than an unfinished frame, add_data never
\* refuses a chunk: the result the loop ignores is never -1.
THEOREM AlwaysRoomAtPoll ==
  ASSUME Lossless, UpwardMemcpy
  PROVE  ClientSpec => []RoomAtPoll
<1>1. LosslessInv => RoomAtPoll
  BY RoomForChunk DEF LosslessInv
<1> QED
  BY <1>1, LosslessInvariance, PTL

\* The frames the loop handles are the frames the peer sent.
THEOREM ClientDeliversAsSent ==
  ASSUME Lossless, UpwardMemcpy
  PROVE  ClientSpec => []DeliveredAsSent
<1>1. LosslessInv => DeliveredAsSent
  BY DEF LosslessInv, IInv
<1> QED
  BY <1>1, LosslessInvariance, PTL

\* The parser's pointers stay in order and the loop's variables have their
\* types; in particular every answer is to a frame that was returned.
THEOREM ClientTypeCorrect ==
  ASSUME Lossless, UpwardMemcpy
  PROVE  ClientSpec => []ClientTypeOK
<1>1. LosslessInv => ClientTypeOK
  <2>1. SUFFICES ASSUME LosslessInv PROVE ClientTypeOK
    OBVIOUS
  <2>2. LoopTypes /\ TypeOK /\ RequestsAnsweredInOrder
    BY <2>1 DEF LosslessInv, LoopInv, IInv
  <2>3. ASSUME NEW j \in 1..Len(replies)
        PROVE  replies[j].to \in 1..Len(delivered) /\ replies[j].outcome \in SendOutcomes
    <3>1. replies[j].to \in 1..HandledCount
      BY <2>2 DEF RequestsAnsweredInOrder
    <3>2. replies[j].to \in 1..Len(delivered)
      BY <2>2, <3>1, LoopCursors DEF HandledCount
    <3>3. replies \in Seq(Replies)
      BY <2>2 DEF LoopTypes
    <3>4. replies[j] \in Replies
      BY <3>3, ElementOf
    <3> QED
      BY <3>2, <3>4 DEF Replies
  <2> QED
    BY <2>1, <2>2, <2>3 DEF LosslessInv, LoopTypes, Places, ClientTypeOK
<1> QED
  BY <1>1, LosslessInvariance, PTL
=============================================================================
