--------------------------- MODULE HeadersProofs ---------------------------
(***************************************************************************)
(* Theorems about Headers for any number of headers and blocks, under the  *)
(* hypotheses of EsMsgParserProofs on the frames and on memcpy: a header   *)
(* is only as good as the frame it was read from.                          *)
(***************************************************************************)
EXTENDS Headers, EsMsgParserProofs, EsHeaderProofs, HeapProofs

-----------------------------------------------------------------------------
(* The inductive invariant.                                                *)

\* The bytes of a held frame are bytes of the stream.
HeldInStream ==
  \A f \in held : f.payload \in Seq(1..Len(wire)) /\ Len(f.payload) = f.length

\* A header says what its frame said, in the types of struct Header.
HeaderOfFrame(h) ==
  /\ h.serial \in 1..MaxSerial
  /\ h.command \in -128..127
  /\ h.flags \in -128..127
  /\ h.from \in Seq(1..Len(wire))
  /\ Len(h.from) >= MandatorySize
  /\ h.correlation_id = GetUuidFromWtf([j \in UuidOffsets |-> h.from[3 + j]])
  /\ h.maker = "read_header" => /\ h.command = Char(wire[h.from[1]])
                                /\ h.flags = Char(wire[h.from[2]])

HeadersInv ==
  /\ IInv
  /\ HeldInStream
  /\ \A h \in headers : HeaderOfFrame(h)
  /\ destroyed \subseteq 1..MaxSerial
  /\ HeaderBlocksAccounted

-----------------------------------------------------------------------------
(* What the parser does meanwhile.                                         *)

\* A step that leaves the parser alone leaves its invariant alone.
LEMMA ParserUnchanged ==
  ASSUME IInv, UNCHANGED vars
  PROVE  IInv'
BY FreeFrameInv DEF vars, peerVars, parserVars

\* No step takes back or changes a byte the peer has sent.
LEMMA WireGrows ==
  ASSUME TypeOK, [Next]_vars
  PROVE  /\ Len(wire) \in Nat /\ Len(wire') \in Nat /\ Len(wire) <= Len(wire')
         /\ \A p \in 1..Len(wire) : wire'[p] = wire[p]
<1>1. Len(wire) \in Nat
  BY CursorTypes
<1>2. CASE UNCHANGED wire
  BY <1>1, <1>2
<1>3. ASSUME NEW length \in FrameLengths, NEW byte \in PayloadBytes,
             SendFrame(length, byte)
      PROVE  /\ Len(wire') \in Nat /\ Len(wire) <= Len(wire')
             /\ \A p \in 1..Len(wire) : wire'[p] = wire[p]
  BY <1>1, <1>3, SendFrameBytes, FrameLengthsAssumption
<1>4. ASSUME Next, ~\E length \in FrameLengths, byte \in PayloadBytes :
                       SendFrame(length, byte)
      PROVE  UNCHANGED wire
  BY <1>4 DEF Next, AddData, ReadNext, CompressSpace, DestroyParserState, FreeFrame,
              peerVars
<1> QED
  BY <1>1, <1>2, <1>3, <1>4 DEF vars

\* A sequence of positions of a stream is one of any longer stream.
LEMMA PositionsWiden ==
  ASSUME NEW m \in Nat, NEW n \in Nat, m <= n, NEW s \in Seq(1..m)
  PROVE  s \in Seq(1..n)
<1>1. Len(s) \in Nat /\ s \in [1..Len(s) -> 1..m]
  OBVIOUS
<1>2. s \in [1..Len(s) -> 1..n]
  BY <1>1
<1> QED
  BY <1>1, <1>2

\* The frame read_next returns has the positions of one the peer has sent.
LEMMA NextPositions ==
  ASSUME IInv, ShortFrames, FrameReady
  PROVE  /\ Payload(NextLength) \in Seq(1..Len(wire))
         /\ Len(Payload(NextLength)) = NextLength
<1> DEFINE k == Len(delivered) + 1
           at == sent[k].at
           length == sent[k].length
           end == Len(wire)
           payload == Payload(NextLength)
<1>1. /\ buffer_write - parser_read >= 4
      /\ Len(delivered) < Len(sent) /\ NextLength = length
  BY NextFrameDecoded DEF FrameReady
<1>2. k \in 1..Len(sent)
  BY <1>1, CursorTypes DEF IInv
<1>3. at \in Nat /\ length \in Nat /\ end \in Nat /\ at + 4 + length <= end
  BY <1>2, SentFrameTypes, CursorTypes DEF IInv, WireFramed
<1>4. payload = [i \in 1..length |-> at + 4 + i]
  BY NextPayload DEF PayloadOf
<1> HIDE DEF at, length, end, payload
<1>5. payload \in [1..length -> 1..end]
  BY <1>3, <1>4
<1>6. payload \in Seq(1..end) /\ Len(payload) = length
  BY <1>3, <1>5, FunctionIsSeq
<1> QED
  BY <1>1, <1>6 DEF payload, end

\* The parser keeps the frames it has returned in the stream.
LEMMA ParserHeldInStream ==
  ASSUME IInv, HeldInStream, ShortFrames, [Next]_vars
  PROVE  HeldInStream'
<1>1. /\ Len(wire) \in Nat /\ Len(wire') \in Nat /\ Len(wire) <= Len(wire')
  BY WireGrows DEF IInv
<1>2. \A f \in held : f.payload \in Seq(1..Len(wire')) /\ Len(f.payload) = f.length
  BY <1>1, PositionsWiden DEF HeldInStream
<1>3. CASE held' \subseteq held
  BY <1>2, <1>3 DEF HeldInStream
<1>4. CASE held' = AllStale
  <2>1. ASSUME NEW f \in held'
        PROVE  \E g \in held : f.payload = g.payload /\ f.length = g.length
    <3>1. PICK g \in held : f = [g EXCEPT !.fresh = FALSE]
      BY <1>4, <2>1 DEF AllStale
    <3>2. g \in [location : Nat, length : Nat, payload : Seq(Nat), fresh : BOOLEAN]
      BY DEF IInv, TypeOK
    <3> QED
      BY <3>1, <3>2
  <2> QED
    BY <1>2, <2>1 DEF HeldInStream
<1>5. CASE ReadNext
  <2> DEFINE payload == Payload(NextLength)
             new == [location |-> parser_read + 4, length |-> NextLength,
                     payload |-> payload, fresh |-> TRUE]
  <2>1. held' = held \cup {new} /\ UNCHANGED wire
    BY <1>5 DEF ReadNext, peerVars
  <2>2. payload \in Seq(1..Len(wire)) /\ Len(payload) = NextLength
    BY <1>5, NextPositions DEF ReadNext
  <2>3. new.payload = payload /\ new.length = NextLength
    OBVIOUS
  <2> HIDE DEF new, payload
  <2> QED
    BY <2>1, <2>2, <2>3 DEF HeldInStream
<1>6. [Next]_vars => held' \subseteq held \/ held' = AllStale \/ ReadNext
  BY DEF Next, SendFrame, AddData, CompressSpace, DestroyParserState, FreeFrame,
         callerVars, vars
<1> QED
  BY <1>3, <1>4, <1>5, <1>6

\* A header says what its frame said also when the peer has sent more.
LEMMA HeaderKept ==
  ASSUME TypeOK, [Next]_vars, NEW h, HeaderOfFrame(h)
  PROVE  /\ h.from \in Seq(1..Len(wire'))
         /\ h.maker = "read_header" => /\ h.command = Char(wire'[h.from[1]])
                                       /\ h.flags = Char(wire'[h.from[2]])
<1>1. /\ Len(wire) \in Nat /\ Len(wire') \in Nat /\ Len(wire) <= Len(wire')
      /\ \A p \in 1..Len(wire) : wire'[p] = wire[p]
  BY WireGrows
<1> DEFINE from == h.from
<1>2. from \in Seq(1..Len(wire)) /\ Len(from) >= MandatorySize
  BY DEF HeaderOfFrame
<1>3. from \in Seq(1..Len(wire'))
  <2> HIDE DEF from
  <2> QED
    BY <1>1, <1>2, PositionsWiden
<1>4. from[1] \in 1..Len(wire) /\ from[2] \in 1..Len(wire)
  BY <1>2 DEF MandatorySize
<1> QED
  BY <1>1, <1>3, <1>4 DEF HeaderOfFrame

LEMMA ParserStepInv ==
  ASSUME HeadersInv, ShortFrames, UpwardMemcpy, [Next]_vars, UNCHANGED headerVars
  PROVE  HeadersInv'
<1>1. /\ IInv /\ TypeOK /\ HeldInStream
      /\ UNCHANGED <<headers, destroyed, live>>
  BY DEF HeadersInv, IInv, headerVars
<1>2. IInv' /\ HeldInStream'
  BY <1>1, NextInv, ParserHeldInStream
<1>3. ASSUME NEW h \in headers
      PROVE  HeaderOfFrame(h)'
  <2>1. HeaderOfFrame(h)
    BY DEF HeadersInv
  <2>2. /\ h.from \in Seq(1..Len(wire'))
        /\ h.maker = "read_header" => /\ h.command = Char(wire'[h.from[1]])
                                      /\ h.flags = Char(wire'[h.from[2]])
    BY <1>1, <2>1, HeaderKept
  <2> QED
    BY <2>1, <2>2 DEF HeaderOfFrame
<1>4. HeaderBlocksAccounted'
  BY <1>1 DEF HeadersInv, HeaderBlocksAccounted
<1> QED
  BY <1>1, <1>2, <1>3, <1>4 DEF HeadersInv

-----------------------------------------------------------------------------
(* The heap.                                                               *)

\* Every block of a header carries the header's serial number, and the struct and
\* the correlation id are among them.
LEMMA BlocksOfHeader ==
  ASSUME NEW h
  PROVE  /\ \A b \in HeaderBlocks(h) : b[1] = h.serial
         /\ <<h.serial, "struct">> \in HeaderBlocks(h)
         /\ <<h.serial, "correlation_id">> \in HeaderBlocks(h)
BY DEF HeaderBlocks

\* The serial numbers in use are those of the headers and of the correlation ids
\* nothing points at.
LEMMA SerialsInUse ==
  ASSUME HeaderBlocksAccounted
  PROVE  /\ \A b \in live : \/ \E h \in headers : b[1] = h.serial
                            \/ b[1] \in destroyed
         /\ \A h \in headers : \E b \in live : b[1] = h.serial
         /\ \A n \in destroyed : \E b \in live : b[1] = n
<1>1. live = {<<n, "correlation_id">> : n \in destroyed}
               \cup UNION {HeaderBlocks(h) : h \in headers}
  BY DEF HeaderBlocksAccounted
<1>2. \A h \in headers : \E b \in live : b[1] = h.serial
  <2>1. TAKE h \in headers
  <2>2. <<h.serial, "struct">> \in live
    BY <1>1, BlocksOfHeader
  <2> QED
    BY <2>2
<1>3. \A n \in destroyed : \E b \in live : b[1] = n
  <2>1. TAKE n \in destroyed
  <2>2. <<n, "correlation_id">> \in live
    BY <1>1
  <2> QED
    BY <2>2
<1>4. ASSUME NEW b \in live
      PROVE  (\E h \in headers : b[1] = h.serial) \/ b[1] \in destroyed
  <2>1. CASE b \in {<<n, "correlation_id">> : n \in destroyed}
    <3>1. PICK n \in destroyed : b = <<n, "correlation_id">>
      BY <2>1
    <3> QED
      BY <3>1
  <2>2. CASE b \in UNION {HeaderBlocks(h) : h \in headers}
    <3>1. PICK h \in headers : b \in HeaderBlocks(h)
      BY <2>2
    <3>2. b[1] = h.serial
      BY <3>1, BlocksOfHeader
    <3> QED
      BY <3>2
  <2> QED
    BY <1>1, <2>1, <2>2
<1> QED
  BY <1>2, <1>3, <1>4

\* A header made from bytes of the stream is accounted for: its serial number is
\* that of no other block.
LEMMA CreateHeaderInv ==
  ASSUME HeadersInv, NEW maker, NEW fields, NEW username, NEW password,
         NEW from \in Seq(1..Len(wire)), Len(from) >= MandatorySize,
         fields.command \in -128..127, fields.flags \in -128..127,
         fields.correlation_id = GetUuidFromWtf([j \in UuidOffsets |-> from[3 + j]]),
         maker = "read_header" => /\ fields.command = Char(wire[from[1]])
                                  /\ fields.flags = Char(wire[from[2]]),
         CreateHeader(maker, fields, username, password, from)
  PROVE  HeadersInv'
<1> DEFINE serial == NextSerial(live)
           new == [serial |-> serial, command |-> fields.command,
                   flags |-> fields.flags, correlation_id |-> fields.correlation_id,
                   username |-> username, password |-> password,
                   maker |-> maker, from |-> from]
<1>1. /\ headers' = headers \cup {new}
      /\ live' = live \cup HeaderBlocks(new)
      /\ UNCHANGED <<vars, destroyed>>
      /\ FreeSerials(live) # {}
  BY DEF CreateHeader
<1>2. serial \in 1..MaxSerial /\ \A b \in live : b[1] # serial
  BY <1>1, NextSerialFree
<1>3. /\ new.serial = serial /\ new.command = fields.command
      /\ new.flags = fields.flags /\ new.from = from /\ new.maker = maker
      /\ new.correlation_id = fields.correlation_id
  OBVIOUS
<1> HIDE DEF serial, new
<1>4. HeaderOfFrame(new)
  BY <1>2, <1>3 DEF HeaderOfFrame
<1>5. (\A h \in headers : HeaderOfFrame(h))'
  BY <1>1, <1>4 DEF HeadersInv, HeaderOfFrame, vars
<1>6. HeaderBlocksAccounted'
  <2>1. /\ live = {<<n, "correlation_id">> : n \in destroyed}
                    \cup UNION {HeaderBlocks(h) : h \in headers}
        /\ \A h, i \in headers : h.serial = i.serial => h = i
        /\ \A h \in headers : h.serial \notin destroyed
        /\ HeaderBlocksAccounted
    BY DEF HeadersInv, HeaderBlocksAccounted
  <2>2. serial \notin destroyed /\ \A h \in headers : h.serial # serial
    BY <1>2, <2>1, SerialsInUse
  <2>3. live' = {<<n, "correlation_id">> : n \in destroyed'}
                  \cup UNION {HeaderBlocks(h) : h \in headers'}
    BY <1>1, <2>1
  <2>4. \A h, i \in headers' : h.serial = i.serial => h = i
    BY <1>1, <1>3, <2>1, <2>2
  <2>5. \A h \in headers' : h.serial \notin destroyed'
    BY <1>1, <1>3, <2>1, <2>2
  <2> QED
    BY <2>3, <2>4, <2>5 DEF HeaderBlocksAccounted
<1>7. IInv' /\ HeldInStream'
  BY <1>1, ParserUnchanged DEF HeadersInv, HeldInStream, vars
<1> QED
  BY <1>1, <1>5, <1>6, <1>7 DEF HeadersInv

\* destroy_header frees the header's blocks but one, which is then accounted for
\* as the correlation id of a header destroyed.
LEMMA DestroyHeaderInv ==
  ASSUME HeadersInv, NEW header \in headers, DestroyHeader(header)
  PROVE  HeadersInv'
<1>1. /\ headers' = headers \ {header}
      /\ live' = live \ (HeaderBlocks(header) \ {<<header.serial, "correlation_id">>})
      /\ destroyed' = destroyed \cup {header.serial}
      /\ UNCHANGED vars
  BY DEF DestroyHeader, FreedByHeader
<1>2. /\ live = {<<n, "correlation_id">> : n \in destroyed}
                  \cup UNION {HeaderBlocks(h) : h \in headers}
      /\ \A h, i \in headers : h.serial = i.serial => h = i
      /\ \A h \in headers : h.serial \notin destroyed
  BY DEF HeadersInv, HeaderBlocksAccounted
<1>3. (\A h \in headers : HeaderOfFrame(h))' /\ destroyed' \subseteq 1..MaxSerial
  BY <1>1 DEF HeadersInv, HeaderOfFrame, vars
<1>4. ASSUME NEW h \in headers'
      PROVE  HeaderBlocks(h) \cap HeaderBlocks(header) = {}
  <2>1. h.serial # header.serial
    BY <1>1, <1>2
  <2>2. /\ \A b \in HeaderBlocks(h) : b[1] = h.serial
        /\ \A b \in HeaderBlocks(header) : b[1] = header.serial
    BY BlocksOfHeader
  <2> QED
    BY <2>1, <2>2
<1>5. \A n \in destroyed : <<n, "correlation_id">> \notin HeaderBlocks(header)
  <2>1. TAKE n \in destroyed
  <2>2. n # header.serial
    BY <1>2
  <2>3. <<n, "correlation_id">>[1] = n
    OBVIOUS
  <2> QED
    BY <2>2, <2>3, BlocksOfHeader
<1>6. live' = {<<n, "correlation_id">> : n \in destroyed'}
                \cup UNION {HeaderBlocks(h) : h \in headers'}
  <2> DEFINE Kept == UNION {HeaderBlocks(h) : h \in headers'}
             Left == {<<n, "correlation_id">> : n \in destroyed}
             block == <<header.serial, "correlation_id">>
             Own == HeaderBlocks(header)
  <2>1. live = Kept \cup Own \cup Left
    <3>1. headers = headers' \cup {header}
      BY <1>1
    <3>2. UNION {HeaderBlocks(h) : h \in headers} = Kept \cup Own
      BY <3>1
    <3> QED
      BY <1>2, <3>2
  <2>2. Kept \cap Own = {} /\ Left \cap Own = {} /\ block \in Own
    <3>1. Kept \cap Own = {}
      BY <1>4
    <3>2. Left \cap Own = {}
      BY <1>5
    <3> QED
      BY <3>1, <3>2, BlocksOfHeader
  <2>3. {<<n, "correlation_id">> : n \in destroyed'} = Left \cup {block}
    BY <1>1
  <2>4. live' = live \ (Own \ {block})
    BY <1>1
  <2> HIDE DEF Kept, Left, block, Own
  <2>5. live' = Kept \cup Left \cup {block}
    BY <2>1, <2>2, <2>4
  <2> QED
    BY <2>3, <2>5 DEF Kept
<1>7. HeaderBlocksAccounted'
  BY <1>1, <1>2, <1>6 DEF HeaderBlocksAccounted
<1>8. IInv' /\ HeldInStream'
  BY <1>1, ParserUnchanged DEF HeadersInv, HeldInStream, vars
<1> QED
  BY <1>3, <1>7, <1>8 DEF HeadersInv

-----------------------------------------------------------------------------
(* Every step preserves the invariant.                                     *)

\* A held frame whose location is still good is read as it was returned.
LEMMA FreshBytes ==
  ASSUME IInv, HeldInStream, NEW frame \in held, frame.fresh
  PROVE  BytesAt(frame) = frame.payload
<1> DEFINE n == frame.length
           payload == frame.payload
           cell(i) == buffer[frame.location + i - 1]
           S == 1..Len(wire)
<1>1. payload \in Seq(S) /\ Len(payload) = n
  BY DEF HeldInStream
<1>2. \A i \in 1..n : cell(i) = payload[i]
  BY DEF IInv, HeldFramesIntact
<1> HIDE DEF S, n, payload, cell
<1>3. [i \in 1..n |-> cell(i)] = payload
  BY <1>1, <1>2
<1> QED
  BY <1>3 DEF BytesAt, n, payload, cell

\* read_header takes from the frame what HeaderOfFrame says.
LEMMA ReadHeaderInv ==
  ASSUME HeadersInv, NEW frame \in held, ReadHeaderFrom(frame)
  PROVE  HeadersInv'
<1> DEFINE from == frame.payload
           fields == ReadHeader(wire, from)
<1>1. BytesAt(frame) = from
  BY FreshBytes DEF HeadersInv, ReadHeaderFrom
<1>2. /\ from \in Seq(1..Len(wire)) /\ Len(from) >= MandatorySize
      /\ CreateHeader("read_header", fields, Null, Null, from)
  BY <1>1 DEF HeadersInv, HeldInStream, ReadHeaderFrom, HasHeader
<1>3. wire[from[1]] \in 0..255 /\ wire[from[2]] \in 0..255
  <2>1. from[1] \in 1..Len(wire) /\ from[2] \in 1..Len(wire)
    BY <1>2 DEF MandatorySize
  <2>2. wire \in Seq(0..255)
    BY DEF HeadersInv, IInv, TypeOK
  <2> QED
    BY <2>1, <2>2, ElementOf
<1>4. /\ fields.command = Char(wire[from[1]])
      /\ fields.flags = Char(wire[from[2]])
      /\ fields.correlation_id = GetUuidFromWtf([j \in UuidOffsets |-> from[3 + j]])
  BY DEF ReadHeader
<1>5. fields.command \in -128..127 /\ fields.flags \in -128..127
  BY <1>3, <1>4 DEF Char
<1> HIDE DEF from, fields
<1> QED
  BY <1>2, <1>4, <1>5, CreateHeaderInv

\* A header made for an answer has the correlation id of the request's frame.
LEMMA AnswerHeaderInv ==
  ASSUME HeadersInv, NEW request \in headers, NEW username, NEW password,
         AnswerHeader(request, username, password)
  PROVE  HeadersInv'
<1> DEFINE fields == [command |-> HeartbeatResponse, flags |-> 0,
                      correlation_id |-> request.correlation_id]
           from == request.from
<1>1. HeaderOfFrame(request) /\ CreateHeader("caller", fields, username, password, from)
  BY DEF HeadersInv, AnswerHeader
<1>2. /\ from \in Seq(1..Len(wire)) /\ Len(from) >= MandatorySize
      /\ fields.correlation_id = GetUuidFromWtf([j \in UuidOffsets |-> from[3 + j]])
  BY <1>1 DEF HeaderOfFrame
<1>3. fields.command \in -128..127 /\ fields.flags \in -128..127
  BY DEF HeartbeatResponse
<1> HIDE DEF from, fields
<1> QED
  BY <1>1, <1>2, <1>3, CreateHeaderInv

LEMMA HeadersNextInv ==
  ASSUME HeadersInv, ShortFrames, UpwardMemcpy, [HeadersNext]_allVars
  PROVE  HeadersInv'
<1>1. CASE ParserStep
  BY <1>1, ParserStepInv DEF ParserStep
<1>2. ASSUME NEW frame \in held, ReadHeaderFrom(frame)
      PROVE  HeadersInv'
  BY <1>2, ReadHeaderInv
<1>3. ASSUME NEW request \in headers, NEW username, NEW password,
             AnswerHeader(request, username, password)
      PROVE  HeadersInv'
  BY <1>3, AnswerHeaderInv
<1>4. ASSUME NEW header \in headers, DestroyHeader(header)
      PROVE  HeadersInv'
  BY <1>4, DestroyHeaderInv
<1>5. CASE UNCHANGED allVars
  BY <1>5, ParserStepInv DEF allVars
<1> QED
  BY <1>1, <1>2, <1>3, <1>4, <1>5 DEF HeadersNext

LEMMA HeadersInitInv ==
  ASSUME HeadersInit
  PROVE  HeadersInv
<1>1. IInv
  BY InitInv DEF HeadersInit
<1> QED
  BY <1>1 DEF HeadersInit, Init, HeadersInv, HeldInStream, HeaderBlocksAccounted

-----------------------------------------------------------------------------
(* The theorems.                                                           *)

\* The inductive invariant holds in every reachable state.
THEOREM HeadersInvariance ==
  ASSUME ShortFrames, UpwardMemcpy
  PROVE  HeadersSpec => []HeadersInv
<1>1. HeadersInit => HeadersInv
  BY HeadersInitInv
<1>2. HeadersInv /\ [HeadersNext]_allVars => HeadersInv'
  BY HeadersNextInv
<1> QED
  BY <1>1, <1>2, PTL DEF HeadersSpec

\* Headers have the types of struct Header, and were made from frames that have
\* one.
THEOREM HeadersTypeCorrect ==
  ASSUME ShortFrames, UpwardMemcpy
  PROVE  HeadersSpec => []HeadersTypeOK
<1>1. HeadersInv => HeadersTypeOK
  <2>1. SUFFICES ASSUME HeadersInv PROVE HeadersTypeOK
    OBVIOUS
  <2>2. ASSUME NEW h \in headers
        PROVE  /\ h.serial \in 1..MaxSerial
               /\ h.command \in -128..127
               /\ h.flags \in -128..127
               /\ DOMAIN h.correlation_id = UuidOffsets
               /\ Len(h.from) >= MandatorySize
    BY <2>1 DEF HeadersInv, HeaderOfFrame, GetUuidFromWtf
  <2>3. \A b \in live : b[1] \in 1..MaxSerial
    BY <2>1, <2>2, SerialsInUse DEF HeadersInv
  <2> QED
    BY <2>1, <2>2, <2>3 DEF HeadersInv, HeadersTypeOK
<1> QED
  BY <1>1, HeadersInvariance, PTL

\* What write_header puts on the wire for a header is what its frame had there,
\* however long ago the frame was read and whatever its cells hold now.
THEOREM HeadersAlwaysOutliveFrames ==
  ASSUME ShortFrames, UpwardMemcpy
  PROVE  HeadersSpec => []HeadersOutliveFrames
<1>1. HeadersInv => HeadersOutliveFrames
  <2>1. SUFFICES ASSUME HeadersInv, NEW h \in headers
                 PROVE  /\ WriteHeader(h).correlation_id =
                             [j \in UuidOffsets |-> h.from[3 + j]]
                        /\ h.maker = "read_header" =>
                             /\ WriteHeader(h).command = wire[h.from[1]]
                             /\ WriteHeader(h).flags = wire[h.from[2]]
    BY DEF HeadersOutliveFrames
  <2> DEFINE from == h.from
             wtf == [j \in UuidOffsets |-> from[3 + j]]
  <2>2. HeaderOfFrame(h)
    BY <2>1 DEF HeadersInv
  <2>3. /\ WriteHeader(h).command = UnsignedChar(h.command)
        /\ WriteHeader(h).flags = UnsignedChar(h.flags)
        /\ WriteHeader(h).correlation_id = WriteUuidToWtf(h.correlation_id)
    BY DEF WriteHeader
  <2>4. WriteUuidToWtf(GetUuidFromWtf(wtf)) = wtf
    <3> DEFINE S == {from[3 + j] : j \in UuidOffsets}
    <3>1. wtf \in [UuidOffsets -> S]
      OBVIOUS
    <3> HIDE DEF wtf, S
    <3> QED
      BY <3>1, WrittenRead
  <2>5. wire[from[1]] \in 0..255 /\ wire[from[2]] \in 0..255
    <3>1. from[1] \in 1..Len(wire) /\ from[2] \in 1..Len(wire)
      BY <2>2 DEF HeaderOfFrame, MandatorySize
    <3>2. wire \in Seq(0..255)
      BY <2>1 DEF HeadersInv, IInv, TypeOK
    <3> QED
      BY <3>1, <3>2, ElementOf
  <2>6. /\ UnsignedChar(Char(wire[from[1]])) = wire[from[1]]
        /\ UnsignedChar(Char(wire[from[2]])) = wire[from[2]]
    BY <2>5, CharConversion
  <2> QED
    BY <2>2, <2>3, <2>4, <2>6 DEF HeaderOfFrame
<1> QED
  BY <1>1, HeadersInvariance, PTL

\* The heap holds the blocks of the caller's headers, and of those destroyed
\* exactly the correlation ids.
THEOREM HeaderBlocksAlwaysAccounted ==
  ASSUME ShortFrames, UpwardMemcpy
  PROVE  HeadersSpec => []HeaderBlocksAccounted
<1>1. HeadersInv => HeaderBlocksAccounted
  BY DEF HeadersInv
<1> QED
  BY <1>1, HeadersInvariance, PTL
=============================================================================
