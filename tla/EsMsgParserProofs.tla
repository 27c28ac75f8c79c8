------------------------- MODULE EsMsgParserProofs -------------------------
(***************************************************************************)
(* Theorems about EsMsgParser for every buffer size, every set of chunk    *)
(* sizes and any number of frames, under the two hypotheses the code needs: *)
(* frames shorter than 32768 bytes (ShortFrames) and a memcpy that copies  *)
(* upwards where its regions overlap (UpwardMemcpy).                       *)
(***************************************************************************)
EXTENDS EsMsgParser, TLAPS

ShortFrames == \A length \in FrameLengths : length < 32768

UpwardMemcpy == MemcpyOrders = {"ascending"}

-----------------------------------------------------------------------------
(* The inductive invariant.                                                *)

\* Where the k-th of these frames starts in a stream of end bytes, or will
\* when it is sent.
StartOf(frames, end, k) == IF k <= Len(frames) THEN frames[k].at ELSE end

\* The peer's frames lie end to end in wire, each after its prefix.
WireFramed ==
  /\ StartOf(sent, Len(wire), 1) = 0
  /\ \A k \in 1..Len(sent) :
       /\ StartOf(sent, Len(wire), k + 1) = sent[k].at + 4 + sent[k].length
       /\ sent[k].at + 4 + sent[k].length <= Len(wire)
       /\ \A j \in 1..4 : wire[sent[k].at + j] = LengthPrefix(sent[k].length)[j]

\* parser_read stands at the start of the first frame not yet delivered.
ReadAtFrameStart ==
  fed - (buffer_write - parser_read) = StartOf(sent, Len(wire), Len(delivered) + 1)

\* A fresh frame lies wholly in the part of the buffer already parsed, where
\* add_data never writes.
FreshFramesParsed ==
  \A f \in held : f.fresh => f.location + f.length <= parser_read

IInv ==
  /\ TypeOK
  /\ WireFramed
  /\ DeliveredAsSent
  /\ ReadAtFrameStart
  /\ UnreadBytesInOrder
  /\ HeldFramesIntact
  /\ FreshFramesParsed

-----------------------------------------------------------------------------
(* The length prefix.                                                      *)

\* The bytes the peer writes for a length are bytes.
LEMMA LengthPrefixType ==
  ASSUME NEW length \in Nat, length <= MaxInt32
  PROVE  LengthPrefix(length) \in [1..4 -> 0..255]
<1>1. /\ length % 256 \in 0..255
      /\ (length \div 256) % 256 \in 0..255
      /\ (length \div 65536) % 256 \in 0..255
      /\ length \div 16777216 \in 0..255
  BY SMT DEF MaxInt32
<1>2. QED
  BY <1>1, SMT DEF LengthPrefix

\* read_next decodes what the peer encoded, for every length below 32768, which
\* is the first one it does not decode.
THEOREM LengthPrefixDecoded ==
  ASSUME NEW length \in Nat, length < 32768
  PROVE  DecodeLength(LengthPrefix(length)) = length
<1> DEFINE prefix == LengthPrefix(length)
<1>1. /\ prefix[1] = length % 256
      /\ prefix[2] = length \div 256
      /\ prefix[3] = 0
      /\ prefix[4] = 0
      /\ prefix[2] \in 0..127
  BY SMT DEF LengthPrefix
<1>2. /\ DecodedByte(prefix, 1) = prefix[1]
      /\ DecodedByte(prefix, 2) = prefix[2]
      /\ DecodedByte(prefix, 3) = 0
      /\ DecodedByte(prefix, 4) = 0
  <2> HIDE DEF prefix
  <2> QED
    BY <1>1 DEF DecodedByte
<1>3. DecodeLength(prefix) = (length % 256) + 256 * (length \div 256)
  <2> HIDE DEF prefix
  <2> QED
    BY <1>1, <1>2, SMT DEF DecodeLength
<1>4. QED
  BY <1>3

-----------------------------------------------------------------------------
(* What read_next sees.                                                    *)

\* The arithmetic every step relies on: the cursors are ordered naturals.
LEMMA CursorTypes ==
  ASSUME TypeOK
  PROVE  /\ Len(wire) \in Nat /\ Len(sent) \in Nat /\ Len(delivered) \in Nat
         /\ fed \in Nat /\ fed <= Len(wire)
         /\ BufferSize \in Nat
         /\ parser_read \in Nat /\ parser_read <= buffer_write
         /\ buffer_write \in Nat /\ buffer_write <= BufferSize
         /\ buffer_write - parser_read \in Nat
<1>1. Len(wire) \in Nat /\ Len(sent) \in Nat /\ Len(delivered) \in Nat
  BY DEF TypeOK
<1>2. QED
  BY <1>1, BufferSizeAssumption DEF TypeOK

\* A frame sent is a record of a stream position and a length.
LEMMA SentFrameTypes ==
  ASSUME TypeOK, NEW k \in 1..Len(sent)
  PROVE  /\ sent[k].at \in Nat
         /\ sent[k].length \in FrameLengths
         /\ sent[k].length \in Nat
         /\ sent[k].length <= MaxInt32
<1> DEFINE Frame == [at : Nat, length : FrameLengths]
<1>1. sent[k] \in Frame
  <2>1. sent \in Seq(Frame)
    BY DEF TypeOK
  <2> HIDE DEF Frame
  <2>2. QED
    BY <2>1
<1>2. QED
  BY <1>1, FrameLengthsAssumption

\* Four buffered bytes are the prefix of the first frame not yet delivered, so
\* read_next decodes that frame's length.
LEMMA NextFrameDecoded ==
  ASSUME IInv, ShortFrames, buffer_write - parser_read >= 4
  PROVE  /\ Len(delivered) < Len(sent)
         /\ NextLength = sent[Len(delivered) + 1].length
         /\ NextLength \in FrameLengths
         /\ NextLength \in Nat
         /\ FrameSpan(NextLength) = NextLength + 4
<1> DEFINE k == Len(delivered) + 1
           unread == buffer_write - parser_read
<1>1. /\ Len(delivered) \in Nat /\ Len(sent) \in Nat /\ Len(wire) \in Nat
      /\ fed \in Nat /\ fed <= Len(wire)
      /\ parser_read \in Nat /\ buffer_write \in Nat /\ unread \in Nat
      /\ Len(delivered) <= Len(sent)
      /\ fed - unread = StartOf(sent, Len(wire), k)
  BY CursorTypes DEF IInv, DeliveredAsSent, ReadAtFrameStart
<1>2. Len(delivered) < Len(sent)
  BY <1>1 DEF StartOf
<1>3. k \in 1..Len(sent) /\ StartOf(sent, Len(wire), k) = sent[k].at
  BY <1>1, <1>2 DEF StartOf
<1>4. /\ sent[k].at \in Nat
      /\ sent[k].length \in FrameLengths
      /\ sent[k].length \in Nat
      /\ sent[k].length <= MaxInt32
      /\ sent[k].length < 32768
  BY <1>3, SentFrameTypes DEF IInv, ShortFrames
<1>5. ASSUME NEW j \in 1..4
      PROVE  wire[buffer[parser_read + j - 1]] = LengthPrefix(sent[k].length)[j]
  <2>1. j \in 1..unread
    BY <1>1
  <2>2. buffer[parser_read + j - 1] = sent[k].at + j
    BY <2>1, <1>1, <1>3 DEF IInv, UnreadBytesInOrder
  <2>3. wire[sent[k].at + j] = LengthPrefix(sent[k].length)[j]
    BY <1>3 DEF IInv, WireFramed
  <2>4. QED
    BY <2>2, <2>3
<1>6. LengthPrefix(sent[k].length) \in [1..4 -> 0..255]
  <2> DEFINE length == sent[k].length
  <2>1. length \in Nat /\ length <= MaxInt32
    BY <1>4
  <2> HIDE DEF length
  <2>2. LengthPrefix(length) \in [1..4 -> 0..255]
    BY <2>1, LengthPrefixType
  <2>3. QED
    BY <2>2 DEF length
<1>7. [j \in 1..4 |-> wire[buffer[parser_read + j - 1]]]
        = LengthPrefix(sent[k].length)
  <2> DEFINE prefix == LengthPrefix(sent[k].length)
             seen(j) == wire[buffer[parser_read + j - 1]]
  <2>1. prefix \in [1..4 -> 0..255]
    BY <1>6
  <2>2. \A j \in 1..4 : seen(j) = prefix[j]
    BY <1>5
  <2> HIDE DEF prefix, seen
  <2>3. [j \in 1..4 |-> seen(j)] = prefix
    BY <2>1, <2>2
  <2>4. QED
    BY <2>3 DEF prefix, seen
<1>8. NextLength = sent[k].length
  BY <1>4, <1>7, LengthPrefixDecoded DEF NextLength
<1>9. FrameSpan(NextLength) = NextLength + 4
  BY <1>4, <1>8, SMT DEF FrameSpan, MaxInt32
<1>10. QED
  BY <1>2, <1>4, <1>8, <1>9

\* A frame read_next returns holds the payload of the next frame sent.
LEMMA NextPayload ==
  ASSUME IInv, ShortFrames, FrameReady
  PROVE  Payload(NextLength) = PayloadOf(sent[Len(delivered) + 1])
<1> DEFINE k == Len(delivered) + 1
           unread == buffer_write - parser_read
<1>1. /\ unread >= 4
      /\ Len(delivered) < Len(sent)
      /\ NextLength = sent[k].length
      /\ NextLength \in Nat
      /\ unread >= NextLength + 4
  BY NextFrameDecoded DEF FrameReady
<1>2. /\ Len(delivered) \in Nat /\ Len(sent) \in Nat
      /\ fed \in Nat /\ parser_read \in Nat /\ buffer_write \in Nat
      /\ fed - unread = StartOf(sent, Len(wire), k)
      /\ StartOf(sent, Len(wire), k) = sent[k].at
      /\ sent[k].at \in Nat
  BY <1>1, CursorTypes, SentFrameTypes DEF IInv, ReadAtFrameStart, StartOf
<1>3. ASSUME NEW i \in 1..NextLength
      PROVE  buffer[parser_read + 3 + i] = sent[k].at + 4 + i
  <2>1. i + 4 \in 1..unread /\ parser_read + 3 + i = parser_read + (i + 4) - 1
    BY <1>1, <1>2
  <2>2. buffer[parser_read + (i + 4) - 1] = fed - unread + (i + 4)
    BY <2>1 DEF IInv, UnreadBytesInOrder
  <2>3. QED
    BY <2>1, <2>2, <1>1, <1>2
<1>4. QED
  BY <1>1, <1>3 DEF Payload, PayloadOf

\* Once the last byte of the next frame has been added, read_next decodes its
\* length and finds all of it.
LEMMA CompleteFrame ==
  ASSUME IInv, ShortFrames
  PROVE  CompleteFrameIsReady
<1> DEFINE unread == buffer_write - parser_read
<1>1. SUFFICES ASSUME NEW k \in 1..Len(sent), k = Len(delivered) + 1,
                      sent[k].at + 4 + sent[k].length <= fed
               PROVE  FrameReady
  BY DEF CompleteFrameIsReady
<1>2. /\ sent[k].at \in Nat /\ sent[k].length \in Nat
      /\ fed \in Nat /\ unread \in Nat
  BY SentFrameTypes, CursorTypes, <1>1 DEF IInv
<1>3. fed - unread = sent[k].at
  BY <1>1 DEF IInv, ReadAtFrameStart, StartOf
<1>4. unread >= 4 + sent[k].length
  BY <1>1, <1>2, <1>3
<1>5. unread >= 4
  BY <1>2, <1>4
<1>6. /\ NextLength = sent[k].length
      /\ FrameSpan(NextLength) = NextLength + 4
  BY <1>1, <1>5, NextFrameDecoded
<1>7. unread >= NextLength + 4
  BY <1>2, <1>4, <1>6
<1> QED
  BY <1>5, <1>6, <1>7 DEF FrameReady

-----------------------------------------------------------------------------
(* Every step preserves the invariant.                                     *)

\* A function on 1..n is a sequence of length n.
LEMMA FunctionIsSeq ==
  ASSUME NEW S, NEW n \in Nat, NEW f \in [1..n -> S]
  PROVE  f \in Seq(S) /\ Len(f) = n
  OBVIOUS

\* A frame the peer sends extends wire, and overwrites nothing in it; its bytes
\* are of whatever kind the prefix and the payload are.
LEMMA SendFrameWire ==
  ASSUME NEW Bytes, wire \in Seq(Bytes),
         NEW length \in FrameLengths, LengthPrefix(length) \in [1..4 -> Bytes],
         NEW byte \in Bytes, SendFrame(length, byte)
  PROVE  /\ wire' \in Seq(Bytes)
         /\ Len(wire') = Len(wire) + 4 + length
         /\ \A p \in 1..Len(wire) : wire'[p] = wire[p]
         /\ \A j \in 1..4 : wire'[Len(wire) + j] = LengthPrefix(length)[j]
<1> DEFINE n == Len(wire) + 4 + length
           prefix == LengthPrefix(length)
           cell(p) == IF p <= Len(wire) THEN wire[p]
                      ELSE IF p <= Len(wire) + 4 THEN prefix[p - Len(wire)]
                      ELSE byte
<1>1. length \in Nat
  BY FrameLengthsAssumption
<1>2. prefix \in [1..4 -> Bytes]
  OBVIOUS
<1>3. Len(wire) \in Nat /\ n \in Nat
  BY <1>1
<1>4. wire' = [p \in 1..n |-> cell(p)]
  BY DEF SendFrame
<1> HIDE DEF prefix
<1>5. \A p \in 1..n : cell(p) \in Bytes
  <2>1. ASSUME NEW p \in 1..n, p <= Len(wire) PROVE wire[p] \in Bytes
    <3>1. p \in 1..Len(wire)
      BY <1>1, <1>3, <2>1
    <3>2. QED
      BY <3>1
  <2>2. ASSUME NEW p \in 1..n, ~(p <= Len(wire)), p <= Len(wire) + 4
        PROVE  prefix[p - Len(wire)] \in Bytes
    <3>1. p - Len(wire) \in 1..4
      BY <1>1, <1>3, <2>2
    <3>2. QED
      BY <1>2, <3>1
  <2>3. QED
    BY <1>1, <2>1, <2>2
<1>6. /\ \A p \in 1..Len(wire) : cell(p) = wire[p] /\ p \in 1..n
      /\ \A j \in 1..4 : /\ cell(Len(wire) + j) = prefix[j]
                        /\ Len(wire) + j \in 1..n
  BY <1>1, <1>3
<1>7. wire' \in [1..n -> Bytes]
  <2> HIDE DEF cell, n
  <2> QED
    BY <1>4, <1>5
<1>8. wire' \in Seq(Bytes) /\ Len(wire') = n
  <2> HIDE DEF n
  <2> QED
    BY <1>3, <1>7, FunctionIsSeq
<1>9. /\ \A p \in 1..Len(wire) : wire'[p] = wire[p]
      /\ \A j \in 1..4 : wire'[Len(wire) + j] = prefix[j]
  <2> HIDE DEF cell, n
  <2> QED
    BY <1>4, <1>6
<1>10. QED
  BY <1>8, <1>9 DEF prefix

\* The same for bytes of any value.
LEMMA SendFrameBytes ==
  ASSUME TypeOK, NEW length \in FrameLengths,
         NEW byte \in PayloadBytes, SendFrame(length, byte)
  PROVE  /\ wire' \in Seq(0..255)
         /\ Len(wire') = Len(wire) + 4 + length
         /\ \A p \in 1..Len(wire) : wire'[p] = wire[p]
         /\ \A j \in 1..4 : wire'[Len(wire) + j] = LengthPrefix(length)[j]
<1> DEFINE Bytes == 0..255
<1>1. byte \in Bytes
  BY PayloadBytesAssumption
<1>2. LengthPrefix(length) \in [1..4 -> Bytes]
  BY FrameLengthsAssumption, LengthPrefixType
<1>3. wire \in Seq(Bytes)
  BY DEF TypeOK
<1>4. /\ wire' \in Seq(Bytes)
      /\ Len(wire') = Len(wire) + 4 + length
      /\ \A p \in 1..Len(wire) : wire'[p] = wire[p]
      /\ \A j \in 1..4 : wire'[Len(wire) + j] = LengthPrefix(length)[j]
  <2> HIDE DEF Bytes
  <2> QED
    BY <1>1, <1>2, <1>3, SendFrameWire
<1>5. QED
  BY <1>4

\* A frame the peer sends is the last of sent, at the end of the old wire.
LEMMA SendFrameSent ==
  ASSUME TypeOK, NEW length \in FrameLengths,
         NEW byte \in PayloadBytes, SendFrame(length, byte)
  PROVE  /\ sent' \in Seq([at : Nat, length : FrameLengths])
         /\ Len(sent') = Len(sent) + 1
         /\ \A k \in 1..Len(sent) : sent'[k] = sent[k]
         /\ sent'[Len(sent) + 1].at = Len(wire)
         /\ sent'[Len(sent) + 1].length = length
<1> DEFINE Frame == [at : Nat, length : FrameLengths]
           new == [at |-> Len(wire), length |-> length]
<1>1. sent \in Seq(Frame) /\ Len(sent) \in Nat /\ new \in Frame
  BY DEF TypeOK
<1>2. sent' = Append(sent, new)
  BY DEF SendFrame
<1>3. /\ sent' \in Seq(Frame)
      /\ Len(sent') = Len(sent) + 1
      /\ \A k \in 1..Len(sent) : sent'[k] = sent[k]
      /\ sent'[Len(sent) + 1] = new
  <2> HIDE DEF Frame, new
  <2> QED
    BY <1>1, <1>2
<1>4. QED
  BY <1>3

\* The frames already sent start where they did, and the next one starts where
\* the old wire ended.
LEMMA SendFrameStarts ==
  ASSUME TypeOK, NEW length \in FrameLengths,
         NEW byte \in PayloadBytes, SendFrame(length, byte),
         NEW k \in Nat, k > 0, k <= Len(sent) + 1
  PROVE  StartOf(sent', Len(wire'), k) = StartOf(sent, Len(wire), k)
<1>1. Len(sent) \in Nat /\ Len(sent') = Len(sent) + 1
  BY SendFrameSent, CursorTypes
<1>2. CASE k <= Len(sent)
  BY <1>1, <1>2, SendFrameSent DEF StartOf
<1>3. CASE k = Len(sent) + 1
  BY <1>1, <1>3, SendFrameSent DEF StartOf
<1>4. QED
  BY <1>1, <1>2, <1>3

\* SendFrame preserves the invariant.
LEMMA SendFrameInv ==
  ASSUME IInv, NEW length \in FrameLengths,
         NEW byte \in PayloadBytes, SendFrame(length, byte)
  PROVE  IInv'
<1>1. TypeOK
  BY DEF IInv
<1>2. /\ length \in Nat /\ Len(wire) \in Nat /\ Len(sent) \in Nat
      /\ Len(delivered) \in Nat /\ Len(delivered) <= Len(sent)
  BY <1>1, CursorTypes, FrameLengthsAssumption DEF IInv, DeliveredAsSent
<1>3. /\ Len(wire') = Len(wire) + 4 + length
      /\ Len(sent') = Len(sent) + 1
  BY <1>1, SendFrameBytes, SendFrameSent
<1>4. \A k \in 1..Len(sent) : sent'[k] = sent[k]
  BY <1>1, SendFrameSent
<1>5. UNCHANGED <<fed, buffer, parser_read, buffer_write, delivered, held, alive>>
  BY DEF SendFrame, parserVars, callerVars
<1>6. TypeOK'
  <2>1. fed \in 0..Len(wire') /\ buffer \in [Offsets -> 0..Len(wire')]
    BY <1>1, <1>2, <1>3 DEF TypeOK
  <2>2. wire' \in Seq(0..255) /\ sent' \in Seq([at : Nat, length : FrameLengths])
    BY <1>1, SendFrameBytes, SendFrameSent
  <2>3. QED
    BY <1>1, <1>5, <2>1, <2>2 DEF TypeOK
<1>7. WireFramed'
  <2>1. StartOf(sent', Len(wire'), 1) = 0
    <3>1. 1 <= Len(sent) + 1
      BY <1>2
    <3>2. StartOf(sent', Len(wire'), 1) = StartOf(sent, Len(wire), 1)
      BY <1>1, <3>1, SendFrameStarts
    <3>3. QED
      BY <3>2 DEF IInv, WireFramed
  <2>2. ASSUME NEW k \in 1..Len(sent)
        PROVE  /\ StartOf(sent', Len(wire'), k + 1) = sent'[k].at + 4 + sent'[k].length
               /\ sent'[k].at + 4 + sent'[k].length <= Len(wire')
               /\ \A j \in 1..4 :
                    wire'[sent'[k].at + j] = LengthPrefix(sent'[k].length)[j]
    <3>1. /\ sent'[k] = sent[k]
          /\ sent[k].at \in Nat /\ sent[k].length \in Nat
      BY <1>1, <1>4, SentFrameTypes
    <3>2. StartOf(sent', Len(wire'), k + 1) = StartOf(sent, Len(wire), k + 1)
      BY <1>1, <1>2, SendFrameStarts
    <3>3. /\ StartOf(sent, Len(wire), k + 1) = sent[k].at + 4 + sent[k].length
          /\ sent[k].at + 4 + sent[k].length <= Len(wire)
      BY DEF IInv, WireFramed
    <3>4. ASSUME NEW j \in 1..4
          PROVE  wire'[sent[k].at + j] = LengthPrefix(sent[k].length)[j]
      <4>1. sent[k].at + j \in 1..Len(wire)
        <5> DEFINE at == sent[k].at
                   len == sent[k].length
                   end == Len(wire)
        <5>1. at \in Nat /\ len \in Nat /\ end \in Nat /\ at + 4 + len <= end
          BY <1>2, <3>1, <3>3
        <5> HIDE DEF at, len, end
        <5>2. at + j \in 1..end
          BY <5>1
        <5>3. QED
          BY <5>2 DEF at, end
      <4>2. wire'[sent[k].at + j] = wire[sent[k].at + j]
        BY <1>1, <4>1, SendFrameBytes
      <4>3. QED
        BY <4>2 DEF IInv, WireFramed
    <3>5. sent[k].at + 4 + sent[k].length <= Len(wire')
      BY <1>2, <1>3, <3>1, <3>3
    <3>6. QED
      BY <3>1, <3>2, <3>3, <3>4, <3>5
  <2>3. StartOf(sent', Len(wire'), Len(sent) + 2) = Len(wire) + 4 + length
    BY <1>2, <1>3 DEF StartOf
  <2>4. ASSUME NEW k \in 1..Len(sent'), k \notin 1..Len(sent)
        PROVE  /\ StartOf(sent', Len(wire'), k + 1) = sent'[k].at + 4 + sent'[k].length
               /\ sent'[k].at + 4 + sent'[k].length <= Len(wire')
               /\ \A j \in 1..4 :
                    wire'[sent'[k].at + j] = LengthPrefix(sent'[k].length)[j]
    <3>1. k = Len(sent) + 1 /\ k + 1 = Len(sent) + 2
      BY <1>2, <1>3, <2>4
    <3>2. sent'[k].at = Len(wire) /\ sent'[k].length = length
      BY <1>1, <3>1, SendFrameSent
    <3>3. \A j \in 1..4 : wire'[Len(wire) + j] = LengthPrefix(length)[j]
      BY <1>1, SendFrameBytes
    <3>4. StartOf(sent', Len(wire'), k + 1) = Len(wire) + 4 + length
      BY <3>1, <2>3
    <3>5. QED
      BY <1>2, <1>3, <3>2, <3>3, <3>4
  <2>5. QED
    BY <2>1, <2>2, <2>4 DEF WireFramed
<1>8. DeliveredAsSent'
  <2>1. ASSUME NEW k \in 1..Len(delivered)
        PROVE  delivered[k] = PayloadOf(sent'[k])
    <3>1. k \in 1..Len(sent)
      BY <1>2
    <3>2. QED
      BY <1>4, <3>1 DEF IInv, DeliveredAsSent
  <2>2. Len(delivered) <= Len(sent')
    BY <1>2, <1>3
  <2>3. QED
    BY <1>5, <2>1, <2>2 DEF DeliveredAsSent, PayloadOf
<1>9. ReadAtFrameStart'
  <2> DEFINE k == Len(delivered) + 1
  <2>1. StartOf(sent', Len(wire'), k) = StartOf(sent, Len(wire), k)
    <3>1. k \in Nat /\ k > 0 /\ k <= Len(sent) + 1
      BY <1>2
    <3> HIDE DEF k
    <3>2. QED
      BY <1>1, <3>1, SendFrameStarts
  <2>2. QED
    BY <1>5, <2>1 DEF IInv, ReadAtFrameStart
<1>10. UnreadBytesInOrder' /\ HeldFramesIntact' /\ FreshFramesParsed'
  BY <1>5 DEF IInv, UnreadBytesInOrder, HeldFramesIntact, FreshFramesParsed
<1>11. QED
  BY <1>6, <1>7, <1>8, <1>9, <1>10 DEF IInv

\* A step that leaves wire, sent and delivered alone, and keeps the number of
\* bytes between them and parser_read, keeps the invariant's account of them.
LEMMA PeerUnchanged ==
  ASSUME IInv, UNCHANGED <<wire, sent, delivered>>,
         fed' - (buffer_write' - parser_read') = fed - (buffer_write - parser_read)
  PROVE  WireFramed' /\ DeliveredAsSent' /\ ReadAtFrameStart'
<1>1. \A k : StartOf(sent', Len(wire'), k) = StartOf(sent, Len(wire), k)
  BY DEF StartOf
<1>2. QED
  BY <1>1 DEF IInv, WireFramed, DeliveredAsSent, ReadAtFrameStart, StartOf,
              PayloadOf

\* AddData preserves the invariant.
LEMMA AddDataInv ==
  ASSUME IInv, NEW n \in ChunkSizes, AddData(n)
  PROVE  IInv'
<1>1. n \in Nat /\ n > 0
  BY ChunkSizesAssumption
<1>2. /\ Len(wire) \in Nat /\ fed \in Nat /\ BufferSize \in Nat
      /\ parser_read \in Nat /\ buffer_write \in Nat
      /\ parser_read <= buffer_write
  BY CursorTypes DEF IInv
<1>b. buffer' = [a \in Offsets |->
                   IF a \in buffer_write..(buffer_write + n - 1)
                     THEN fed + 1 + (a - buffer_write) ELSE buffer[a]]
  BY DEF AddData
<1>3. /\ fed + n <= Len(wire) /\ buffer_write + n <= BufferSize
      /\ buffer_write' = buffer_write + n /\ fed' = fed + n
      /\ UNCHANGED <<wire, sent, parser_read, delivered, held, alive>>
  BY DEF AddData, Fits, peerVars, callerVars
<1>4. \A a \in Offsets : a < buffer_write => buffer'[a] = buffer[a]
  BY <1>2, <1>b DEF Offsets
<1>5. TypeOK'
  <2>1. buffer' \in [Offsets -> 0..Len(wire)]
    <3>1. buffer \in [Offsets -> 0..Len(wire)]
      BY DEF IInv, TypeOK
    <3>2. QED
      BY <1>1, <1>2, <1>3, <1>b, <3>1 DEF Offsets
  <2>2. QED
    BY <1>1, <1>2, <1>3, <2>1 DEF IInv, TypeOK
<1>6. WireFramed' /\ DeliveredAsSent' /\ ReadAtFrameStart'
  BY <1>1, <1>2, <1>3, PeerUnchanged
<1>7. UnreadBytesInOrder'
  <2>1. ASSUME NEW i \in 1..(buffer_write + n - parser_read)
        PROVE  buffer'[parser_read + i - 1]
                 = fed + n - (buffer_write + n - parser_read) + i
    <3>1. parser_read + i - 1 \in Offsets
      BY <1>1, <1>2, <1>3 DEF Offsets
    <3>2. CASE i <= buffer_write - parser_read
      <4>1. /\ i \in 1..(buffer_write - parser_read)
            /\ parser_read + i - 1 < buffer_write
        BY <1>1, <1>2, <3>2
      <4>2. buffer'[parser_read + i - 1] = fed - (buffer_write - parser_read) + i
        BY <1>4, <3>1, <4>1 DEF IInv, UnreadBytesInOrder
      <4>3. QED
        BY <1>1, <1>2, <4>2
    <3>3. CASE i > buffer_write - parser_read
      <4>1. parser_read + i - 1 \in buffer_write..(buffer_write + n - 1)
        BY <1>1, <1>2, <3>3
      <4>2. buffer'[parser_read + i - 1]
              = fed + 1 + ((parser_read + i - 1) - buffer_write)
        BY <1>b, <3>1, <4>1
      <4>3. QED
        BY <1>1, <1>2, <4>2
    <3>4. QED
      BY <1>2, <3>2, <3>3
  <2> DEFINE unread == buffer_write + n - parser_read
  <2>2. UnreadBytesInOrder'
          <=> \A i \in 1..unread : buffer'[parser_read + i - 1] = fed + n - unread + i
    BY <1>1, <1>2, <1>3 DEF UnreadBytesInOrder
  <2>3. QED
    BY <2>1, <2>2
<1>8. HeldFramesIntact' /\ FreshFramesParsed'
  <2>1. FreshFramesParsed'
    BY <1>3 DEF IInv, FreshFramesParsed
  <2>2. ASSUME NEW f \in held, f.fresh, NEW i \in 1..f.length
        PROVE  buffer'[f.location + i - 1] = f.payload[i]
    <3>1. f.location \in Nat /\ f.length \in Nat
      BY DEF IInv, TypeOK
    <3>2. f.location + f.length <= parser_read
      BY <2>2 DEF IInv, FreshFramesParsed
    <3>3. f.location + i - 1 \in Offsets /\ f.location + i - 1 < buffer_write
      BY <1>1, <1>2, <1>3, <3>1, <3>2 DEF Offsets
    <3>4. buffer[f.location + i - 1] = f.payload[i]
      BY <2>2 DEF IInv, HeldFramesIntact
    <3>5. QED
      BY <1>4, <3>3, <3>4
  <2>3. QED
    BY <1>3, <2>1, <2>2 DEF HeldFramesIntact
<1>9. QED
  BY <1>5, <1>6, <1>7, <1>8 DEF IInv

\* A step that adds nothing to the caller's frames that is fresh, and reads and
\* moves nothing, keeps what the invariant says of them.
LEMMA FramesGoStale ==
  ASSUME IInv, held' = AllStale
  PROVE  /\ held' \subseteq [location : Nat, length : Nat, payload : Seq(Nat),
                            fresh : BOOLEAN]
         /\ HeldFramesIntact' /\ FreshFramesParsed'
<1>1. ASSUME NEW f \in held'
      PROVE  /\ f \in [location : Nat, length : Nat, payload : Seq(Nat),
                       fresh : BOOLEAN]
             /\ ~f.fresh
  <2>1. PICK g \in held : f = [g EXCEPT !.fresh = FALSE]
    BY DEF AllStale
  <2>2. g \in [location : Nat, length : Nat, payload : Seq(Nat), fresh : BOOLEAN]
    BY DEF IInv, TypeOK
  <2>3. QED
    BY <2>1, <2>2
<1>2. QED
  BY <1>1 DEF HeldFramesIntact, FreshFramesParsed

\* ReadNext preserves the invariant.
LEMMA ReadNextInv ==
  ASSUME IInv, ShortFrames, ReadNext
  PROVE  IInv'
<1> DEFINE k == Len(delivered) + 1
           n == NextLength
           payload == Payload(n)
           new == [location |-> parser_read + 4, length |-> n,
                   payload |-> payload, fresh |-> TRUE]
<1>1. /\ Len(delivered) \in Nat /\ Len(sent) \in Nat /\ Len(wire) \in Nat
      /\ fed \in Nat /\ BufferSize \in Nat
      /\ parser_read \in Nat /\ buffer_write \in Nat
      /\ parser_read <= buffer_write /\ buffer_write <= BufferSize
  BY CursorTypes DEF IInv
<1>2. /\ buffer_write - parser_read >= 4
      /\ buffer_write - parser_read >= FrameSpan(NextLength)
  BY DEF ReadNext, FrameReady
<1>3. /\ Len(delivered) < Len(sent)
      /\ n \in Nat
      /\ buffer_write - parser_read >= n + 4
  BY <1>2, NextFrameDecoded
<1>n. n = sent[k].length
  BY <1>2, NextFrameDecoded
<1>4. payload = PayloadOf(sent[k])
  BY NextPayload DEF ReadNext
<1>5. k \in 1..Len(sent) /\ sent[k].at \in Nat
  BY <1>1, <1>3, SentFrameTypes DEF IInv
<1>6. /\ delivered' = Append(delivered, payload)
      /\ held' = held \cup {new}
      /\ parser_read' = parser_read + n + 4
  BY DEF ReadNext
<1>7. UNCHANGED <<wire, sent, fed, buffer, buffer_write, alive>>
  BY DEF ReadNext, peerVars
<1>8. payload \in Seq(Nat)
  <2>1. payload = [i \in 1..n |-> sent[k].at + 4 + i]
    BY <1>n, <1>4 DEF PayloadOf
  <2>2. payload \in [1..n -> Nat]
    <3> HIDE DEF payload, n, k
    <3>1. \A i \in 1..n : sent[k].at + 4 + i \in Nat
      BY <1>3, <1>5
    <3>2. QED
      BY <2>1, <3>1
  <2>3. QED
    <3> HIDE DEF payload, n
    <3> QED
      BY <1>3, <2>2, FunctionIsSeq
<1>9. delivered \in Seq(Seq(Nat))
  BY DEF IInv, TypeOK
<1>10. /\ delivered' \in Seq(Seq(Nat))
       /\ Len(delivered') = k
       /\ \A j \in 1..Len(delivered) : delivered'[j] = delivered[j]
       /\ delivered'[k] = payload
  <2> HIDE DEF payload
  <2> QED
    BY <1>6, <1>8, <1>9
<1>11. TypeOK'
  <2>1. parser_read' \in 0..BufferSize /\ buffer_write \in parser_read'..BufferSize
    <3> HIDE DEF n
    <3> QED
      BY <1>1, <1>3, <1>6
  <2>2. held' \subseteq [location : Nat, length : Nat, payload : Seq(Nat),
                         fresh : BOOLEAN]
    <3>1. new \in [location : Nat, length : Nat, payload : Seq(Nat),
                   fresh : BOOLEAN]
      <4> HIDE DEF payload, n
      <4> QED
        BY <1>1, <1>3, <1>8
    <3>2. QED
      <4> HIDE DEF new
      <4> QED
        BY <1>6, <3>1 DEF IInv, TypeOK
  <2>3. QED
    BY <1>7, <1>10, <2>1, <2>2 DEF IInv, TypeOK
<1>12. WireFramed'
  BY <1>7 DEF IInv, WireFramed
<1>13. DeliveredAsSent'
  <2>1. ASSUME NEW j \in 1..Len(delivered')
        PROVE  delivered'[j] = PayloadOf(sent[j])
    <3>1. CASE j = k
      BY <1>4, <1>10, <3>1
    <3>2. CASE j # k
      <4>1. j \in 1..Len(delivered)
        BY <1>1, <1>10, <3>2
      <4>2. QED
        BY <1>10, <4>1 DEF IInv, DeliveredAsSent
    <3>3. QED
      BY <3>1, <3>2
  <2>2. Len(delivered') <= Len(sent)
    BY <1>1, <1>3, <1>10
  <2>3. QED
    BY <1>7, <2>1, <2>2 DEF DeliveredAsSent, PayloadOf
<1>14. ReadAtFrameStart'
  <2>1. fed - (buffer_write - parser_read) = sent[k].at
    BY <1>5 DEF IInv, ReadAtFrameStart, StartOf
  <2>2. StartOf(sent, Len(wire), k + 1) = sent[k].at + 4 + n
    BY <1>n, <1>5 DEF IInv, WireFramed
  <2>3. fed - (buffer_write - parser_read') = StartOf(sent, Len(wire), k + 1)
    <3> HIDE DEF n, k
    <3> QED
      BY <1>1, <1>3, <1>5, <1>6, <2>1, <2>2
  <2>4. QED
    BY <1>7, <1>10, <2>3 DEF ReadAtFrameStart
<1>15. UnreadBytesInOrder'
  <2> DEFINE unread == buffer_write - (parser_read + n + 4)
  <2>1. ASSUME NEW i \in 1..unread
        PROVE  buffer[(parser_read + n + 4) + i - 1] = fed - unread + i
    <3> HIDE DEF n
    <3>1. n + 4 + i \in 1..(buffer_write - parser_read)
      BY <1>1, <1>3
    <3>2. buffer[parser_read + (n + 4 + i) - 1]
            = fed - (buffer_write - parser_read) + (n + 4 + i)
      BY <3>1 DEF IInv, UnreadBytesInOrder
    <3>3. QED
      BY <1>1, <1>3, <3>2
  <2>2. QED
    <3> HIDE DEF n
    <3> QED
      BY <1>6, <1>7, <2>1 DEF UnreadBytesInOrder
<1>16. HeldFramesIntact' /\ FreshFramesParsed'
  <2>1. ASSUME NEW f \in held, f.fresh
        PROVE  /\ f.location + f.length <= parser_read'
               /\ \A i \in 1..f.length : buffer[f.location + i - 1] = f.payload[i]
    <3>1. /\ f.location \in Nat /\ f.length \in Nat
      BY DEF IInv, TypeOK
    <3>2. f.location + f.length <= parser_read
      BY <2>1 DEF IInv, FreshFramesParsed
    <3>3. f.location + f.length <= parser_read'
      <4> HIDE DEF n
      <4> QED
        BY <1>1, <1>3, <1>6, <3>1, <3>2
    <3>4. QED
      BY <2>1, <3>3 DEF IInv, HeldFramesIntact
  <2>2. /\ new.location + new.length <= parser_read'
        /\ \A i \in 1..new.length : buffer[new.location + i - 1] = new.payload[i]
    <3> HIDE DEF n
    <3>1. new.location + new.length <= parser_read'
      BY <1>1, <1>3, <1>6
    <3>2. ASSUME NEW i \in 1..n
          PROVE  buffer[(parser_read + 4) + i - 1] = payload[i]
      <4>1. (parser_read + 4) + i - 1 = parser_read + 3 + i
        BY <1>1, <1>3
      <4>2. QED
        BY <4>1 DEF Payload
    <3>3. QED
      BY <3>1, <3>2
  <2>3. QED
    <3> HIDE DEF new
    <3> QED
      BY <1>6, <1>7, <2>1, <2>2 DEF HeldFramesIntact, FreshFramesParsed
<1>17. QED
  BY <1>11, <1>12, <1>13, <1>14, <1>15, <1>16 DEF IInv

\* CompressSpace preserves the invariant: where memcpy copies upwards, moving
\* the unread bytes down over cells already parsed keeps them and their order.
LEMMA CompressSpaceInv ==
  ASSUME IInv, UpwardMemcpy, CompressSpace
  PROVE  IInv'
<1> DEFINE unread == buffer_write - parser_read
<1>1. /\ Len(wire) \in Nat /\ fed \in Nat /\ BufferSize \in Nat
      /\ parser_read \in Nat /\ buffer_write \in Nat /\ unread \in Nat
      /\ parser_read <= buffer_write /\ buffer_write <= BufferSize
  BY CursorTypes DEF IInv
<1>2. /\ buffer_write' = unread
      /\ parser_read' = 0
      /\ held' = AllStale
      /\ UNCHANGED <<wire, sent, fed, delivered, alive>>
  BY DEF CompressSpace, peerVars
<1>3. \/ buffer' = Memcpy("ascending", parser_read, unread)
      \/ unread = 0 /\ buffer' = buffer
  BY <1>1 DEF CompressSpace, UpwardMemcpy
<1>4. buffer \in [Offsets -> 0..Len(wire)]
  BY DEF IInv, TypeOK
<1>5. ASSUME NEW a \in Offsets, a < unread
      PROVE  a + parser_read \in Offsets /\ buffer'[a] = buffer[a + parser_read]
  <2>1. a + parser_read \in Offsets
    BY <1>1, <1>5 DEF Offsets
  <2>2. CASE buffer' = Memcpy("ascending", parser_read, unread)
    <3>1. ~(a >= unread)
      BY <1>1, <1>5 DEF Offsets
    <3> HIDE DEF unread
    <3>2. QED
      BY <2>1, <2>2, <3>1 DEF Memcpy
  <2>3. CASE unread = 0
    BY <1>5, <2>3 DEF Offsets
  <2>4. QED
    BY <1>3, <2>1, <2>2, <2>3
<1>6. buffer' \in [Offsets -> 0..Len(wire)]
  <2>1. CASE buffer' = Memcpy("ascending", parser_read, unread)
    <3> DEFINE cell(a) == IF a >= unread THEN buffer[a] ELSE buffer[a + parser_read]
               Position == 0..Len(wire)
    <3>1. buffer' = [a \in Offsets |-> cell(a)]
      BY <2>1 DEF Memcpy
    <3>2. ASSUME NEW a \in Offsets
          PROVE  cell(a) \in Position
      <4>1. CASE a >= unread
        BY <1>4, <4>1
      <4>2. CASE ~(a >= unread)
        <5>1. a + parser_read \in Offsets
          BY <1>1, <4>2 DEF Offsets
        <5>2. QED
          BY <1>4, <4>2, <5>1
      <4>3. QED
        BY <4>1, <4>2
    <3> HIDE DEF cell, Position
    <3>3. buffer' \in [Offsets -> Position]
      BY <3>1, <3>2
    <3>4. QED
      BY <3>3 DEF Position
  <2>2. QED
    BY <1>3, <1>4, <2>1
<1>7. TypeOK' /\ HeldFramesIntact' /\ FreshFramesParsed'
  <2>1. parser_read' \in 0..BufferSize /\ buffer_write' \in parser_read'..BufferSize
    BY <1>1, <1>2
  <2>2. /\ HeldFramesIntact' /\ FreshFramesParsed'
        /\ held' \subseteq [location : Nat, length : Nat, payload : Seq(Nat),
                            fresh : BOOLEAN]
    BY <1>2, FramesGoStale
  <2>3. QED
    BY <1>2, <1>6, <2>1, <2>2 DEF IInv, TypeOK
<1>8. WireFramed' /\ DeliveredAsSent' /\ ReadAtFrameStart'
  BY <1>1, <1>2, PeerUnchanged
<1>9. UnreadBytesInOrder'
  <2>1. ASSUME NEW i \in 1..unread
        PROVE  buffer'[0 + i - 1] = fed - (unread - 0) + i
    <3>1. i - 1 \in Offsets /\ i - 1 < unread
      BY <1>1 DEF Offsets
    <3>2. buffer'[i - 1] = buffer[(i - 1) + parser_read]
      BY <1>5, <3>1
    <3>3. (i - 1) + parser_read = parser_read + i - 1
      BY <1>1
    <3>4. buffer[parser_read + i - 1] = fed - unread + i
      BY DEF IInv, UnreadBytesInOrder
    <3>5. 0 + i - 1 = i - 1 /\ unread - 0 = unread
      BY <1>1
    <3>6. QED
      BY <3>2, <3>3, <3>4, <3>5
  <2> HIDE DEF unread
  <2>2. unread - 0 = unread
    BY <1>1
  <2>3. QED
    BY <1>2, <2>1, <2>2 DEF UnreadBytesInOrder
<1>10. QED
  BY <1>7, <1>8, <1>9 DEF IInv

\* DestroyParserState preserves the invariant.
LEMMA DestroyParserStateInv ==
  ASSUME IInv, DestroyParserState
  PROVE  IInv'
<1>1. /\ UNCHANGED <<wire, sent, fed, buffer, parser_read, buffer_write, delivered>>
      /\ held' = AllStale /\ alive' = FALSE
  BY DEF DestroyParserState, peerVars, parserVars
<1>2. /\ held' \subseteq [location : Nat, length : Nat, payload : Seq(Nat),
                          fresh : BOOLEAN]
      /\ HeldFramesIntact' /\ FreshFramesParsed'
  BY <1>1, FramesGoStale
<1>3. TypeOK'
  BY <1>1, <1>2 DEF IInv, TypeOK
<1>4. WireFramed' /\ DeliveredAsSent' /\ ReadAtFrameStart'
  BY <1>1, PeerUnchanged
<1>5. UnreadBytesInOrder'
  BY <1>1 DEF IInv, UnreadBytesInOrder
<1>6. QED
  BY <1>2, <1>3, <1>4, <1>5 DEF IInv

\* FreeFrame preserves the invariant, and so does a step that changes nothing.
LEMMA FreeFrameInv ==
  ASSUME IInv, held' \subseteq held,
         UNCHANGED <<peerVars, parserVars, delivered, alive>>
  PROVE  IInv'
<1>1. /\ UNCHANGED <<wire, sent, fed, buffer, parser_read, buffer_write, delivered>>
      /\ UNCHANGED alive
  BY DEF peerVars, parserVars
<1>2. TypeOK'
  BY <1>1 DEF IInv, TypeOK
<1>3. WireFramed' /\ DeliveredAsSent' /\ ReadAtFrameStart'
  BY <1>1, PeerUnchanged
<1>4. UnreadBytesInOrder' /\ HeldFramesIntact' /\ FreshFramesParsed'
  BY <1>1 DEF IInv, UnreadBytesInOrder, HeldFramesIntact, FreshFramesParsed
<1>5. QED
  BY <1>2, <1>3, <1>4 DEF IInv

\* Every step preserves the invariant.
LEMMA NextInv ==
  ASSUME ShortFrames, UpwardMemcpy, IInv, [Next]_vars
  PROVE  IInv'
<1>1. ASSUME NEW length \in FrameLengths, NEW byte \in PayloadBytes,
             SendFrame(length, byte)
      PROVE  IInv'
  BY <1>1, SendFrameInv
<1>2. ASSUME NEW n \in ChunkSizes, AddData(n)
      PROVE  IInv'
  BY <1>2, AddDataInv
<1>3. CASE ReadNext
  BY <1>3, ReadNextInv
<1>4. CASE CompressSpace
  BY <1>4, CompressSpaceInv
<1>5. CASE DestroyParserState
  BY <1>5, DestroyParserStateInv
<1>6. ASSUME NEW frame \in held, FreeFrame(frame)
      PROVE  IInv'
  BY <1>6, FreeFrameInv DEF FreeFrame
<1>7. CASE UNCHANGED vars
  BY <1>7, FreeFrameInv DEF vars, peerVars, parserVars
<1>8. QED
  BY <1>1, <1>2, <1>3, <1>4, <1>5, <1>6, <1>7 DEF Next

\* The state create_parser_state leaves satisfies the invariant.
LEMMA InitInv ==
  ASSUME Init
  PROVE  IInv
<1>1. TypeOK
  <2>1. /\ wire = <<>> /\ Len(wire) = 0 /\ wire \in Seq(0..255)
        /\ sent \in Seq([at : Nat, length : FrameLengths])
        /\ delivered \in Seq(Seq(Nat))
    BY DEF Init
  <2>2. buffer \in [Offsets -> 0..Len(wire)]
    BY <2>1 DEF Init
  <2>3. QED
    BY <2>1, <2>2, BufferSizeAssumption DEF Init, TypeOK
<1>2. Len(wire) = 0 /\ Len(sent) = 0 /\ Len(delivered) = 0
  BY DEF Init
<1>3. WireFramed
  BY <1>2 DEF WireFramed, StartOf
<1>4. DeliveredAsSent /\ ReadAtFrameStart
  BY <1>2 DEF Init, DeliveredAsSent, ReadAtFrameStart, StartOf
<1>5. UnreadBytesInOrder /\ HeldFramesIntact /\ FreshFramesParsed
  BY DEF Init, UnreadBytesInOrder, HeldFramesIntact, FreshFramesParsed
<1>6. QED
  BY <1>1, <1>3, <1>4, <1>5 DEF IInv

-----------------------------------------------------------------------------
(* The theorems.                                                           *)

\* The inductive invariant holds in every reachable state.
THEOREM Invariance ==
  ASSUME ShortFrames, UpwardMemcpy
  PROVE  Spec => []IInv
<1>1. Init => IInv
  BY InitInv
<1>2. IInv /\ [Next]_vars => IInv'
  BY NextInv
<1>3. QED
  BY <1>1, <1>2, PTL DEF Spec

\* create_parser_state, add_data, read_next and compress_space keep the
\* parser's pointers ordered and inside the buffer.
THEOREM TypeCorrect ==
  ASSUME ShortFrames, UpwardMemcpy
  PROVE  Spec => []TypeOK
<1>1. IInv => TypeOK
  BY DEF IInv
<1>2. QED
  BY <1>1, Invariance, PTL

\* The bytes waiting in the buffer are the unparsed end of the accepted stream,
\* in order, whatever the sizes of the chunks and of the buffer.
THEOREM UnreadBytesAlwaysInOrder ==
  ASSUME ShortFrames, UpwardMemcpy
  PROVE  Spec => []UnreadBytesInOrder
<1>1. IInv => UnreadBytesInOrder
  BY DEF IInv
<1>2. QED
  BY <1>1, Invariance, PTL

\* The k-th frame read_next returns is the k-th frame the peer sent.
THEOREM DeliveredAlwaysAsSent ==
  ASSUME ShortFrames, UpwardMemcpy
  PROVE  Spec => []DeliveredAsSent
<1>1. IInv => DeliveredAsSent
  BY DEF IInv
<1>2. QED
  BY <1>1, Invariance, PTL

\* A frame the caller holds keeps its bytes until the buffer is compressed.
THEOREM HeldFramesAlwaysIntact ==
  ASSUME ShortFrames, UpwardMemcpy
  PROVE  Spec => []HeldFramesIntact
<1>1. IInv => HeldFramesIntact
  BY DEF IInv
<1>2. QED
  BY <1>1, Invariance, PTL

\* read_next returns a frame as soon as the frame's last byte has been added.
THEOREM CompleteFrameAlwaysReady ==
  ASSUME ShortFrames, UpwardMemcpy
  PROVE  Spec => []CompleteFrameIsReady
<1>1. IInv => CompleteFrameIsReady
  BY CompleteFrame
<1>2. QED
  BY <1>1, Invariance, PTL

-----------------------------------------------------------------------------
(* The refinement of FrameStream.                                          *)

\* The payloads the peer has sent, which is what Stream calls sent.
Payloads == [k \in 1..Len(sent) |-> PayloadOf(sent[k])]

\* Payloads has one element for each frame sent.
LEMMA PayloadsLength ==
  ASSUME TypeOK
  PROVE  Len(sent) \in Nat /\ Len(Payloads) = Len(sent)
<1>1. Len(sent) \in Nat
  BY CursorTypes
<1>2. QED
  BY <1>1 DEF Payloads

\* A frame the peer sends is a payload sent in the stream.
LEMMA SendFrameRefines ==
  ASSUME IInv, NEW length \in FrameLengths,
         NEW byte \in PayloadBytes, SendFrame(length, byte)
  PROVE  Stream!Send
<1>1. TypeOK /\ TypeOK'
  BY SendFrameInv DEF IInv
<1>2. Len(sent) \in Nat /\ Len(sent') = Len(sent) + 1
  BY <1>1, CursorTypes, SendFrameSent
<1>3. Len(Payloads) = Len(sent) /\ Len(Payloads') = Len(sent) + 1
  <2>1. Len(Payloads) = Len(sent)
    BY <1>1, PayloadsLength
  <2>2. Len(Payloads') = Len(sent')
    BY <1>2 DEF Payloads
  <2>3. QED
    BY <1>2, <2>1, <2>2
<1>4. ASSUME NEW k \in 1..Len(sent)
      PROVE  Payloads'[k] = Payloads[k]
  <2>1. k \in 1..Len(sent')
    BY <1>2
  <2>2. sent'[k] = sent[k]
    BY <1>1, SendFrameSent
  <2>3. Payloads'[k] = PayloadOf(sent'[k]) /\ Payloads[k] = PayloadOf(sent[k])
    BY <2>1 DEF Payloads, PayloadOf
  <2>4. QED
    BY <2>2, <2>3
<1>5. UNCHANGED <<delivered, alive>>
  BY DEF SendFrame, callerVars
<1>6. QED
  BY <1>3, <1>4, <1>5 DEF Stream!Send, Payloads

\* A frame read_next returns is the next payload delivered in the stream.
LEMMA ReadNextRefines ==
  ASSUME IInv, ShortFrames, ReadNext
  PROVE  Stream!Deliver
<1> DEFINE k == Len(delivered) + 1
           payload == Payload(NextLength)
<1>1. Len(delivered) < Len(sent) /\ payload = PayloadOf(sent[k])
  BY NextFrameDecoded, NextPayload DEF ReadNext, FrameReady
<1>2. delivered' = Append(delivered, payload) /\ alive
  BY DEF ReadNext
<1>3. /\ Len(Payloads) = Len(sent) /\ Len(sent) \in Nat /\ Len(delivered) \in Nat
  BY PayloadsLength, CursorTypes DEF IInv
<1>4. Payloads[k] = PayloadOf(sent[k])
  BY <1>1, <1>3 DEF Payloads
<1>5. UNCHANGED <<sent, alive>>
  BY DEF ReadNext, peerVars
<1>6. delivered' = Append(delivered, Payloads[k])
  <2> HIDE DEF payload
  <2> QED
    BY <1>1, <1>2, <1>4
<1>7. Payloads' = Payloads
  BY <1>5 DEF Payloads, PayloadOf
<1>8. QED
  BY <1>1, <1>2, <1>3, <1>5, <1>6, <1>7 DEF Stream!Deliver, Payloads

\* The parser implements the abstract stream: SendFrame is Send, ReadNext is
\* Deliver, DestroyParserState is Close, and no other step shows.
THEOREM ParserImplementsStream ==
  ASSUME ShortFrames, UpwardMemcpy
  PROVE  Spec => ImplementsStream
<1>1. Init => Stream!StreamInit
  BY DEF Init, Stream!StreamInit
<1>2. IInv /\ [Next]_vars => [Stream!StreamNext]_(Stream!streamVars)
  <2>1. SUFFICES ASSUME IInv, [Next]_vars
                 PROVE  Stream!StreamNext \/ UNCHANGED Stream!streamVars
    OBVIOUS
  <2>2. ASSUME UNCHANGED <<sent, delivered, alive>>
        PROVE  UNCHANGED Stream!streamVars
    BY <2>2 DEF Stream!streamVars, PayloadOf
  <2>3. ASSUME NEW length \in FrameLengths, NEW byte \in PayloadBytes,
               SendFrame(length, byte)
        PROVE  Stream!StreamNext
    BY <2>1, <2>3, SendFrameRefines DEF Stream!StreamNext
  <2>4. ASSUME NEW n \in ChunkSizes, AddData(n)
        PROVE  UNCHANGED Stream!streamVars
    BY <2>2, <2>4 DEF AddData, peerVars, callerVars
  <2>5. CASE ReadNext
    BY <2>1, <2>5, ReadNextRefines DEF Stream!StreamNext
  <2>6. CASE CompressSpace
    BY <2>2, <2>6 DEF CompressSpace, peerVars
  <2>7. CASE DestroyParserState
    <3>1. alive /\ alive' = FALSE /\ UNCHANGED <<sent, delivered>>
      BY <2>7 DEF DestroyParserState, peerVars
    <3>2. Stream!Close
      BY <3>1 DEF Stream!Close, PayloadOf
    <3>3. QED
      BY <3>2 DEF Stream!StreamNext
  <2>8. ASSUME NEW frame \in held, FreeFrame(frame)
        PROVE  UNCHANGED Stream!streamVars
    BY <2>2, <2>8 DEF FreeFrame, peerVars
  <2>9. CASE UNCHANGED vars
    BY <2>2, <2>9 DEF vars
  <2>10. QED
    BY <2>1, <2>3, <2>4, <2>5, <2>6, <2>7, <2>8, <2>9 DEF Next
<1>3. QED
  BY <1>1, <1>2, Invariance, PTL DEF Spec, ImplementsStream, Stream!StreamSpec
=============================================================================
