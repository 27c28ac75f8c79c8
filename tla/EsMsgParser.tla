---------------------------- MODULE EsMsgParser ----------------------------
(***************************************************************************)
(* The incremental frame parser of src/es_msg_parser.c: a linear buffer    *)
(* that add_data fills with whatever the socket returned, read_next cuts   *)
(* into length-prefixed frames without copying them, and compress_space    *)
(* moves back to its start.                                                *)
(*                                                                         *)
(* Pointers are offsets from buffer_start.  A cell of the buffer holds the *)
(* position, in the peer's byte stream, of the byte stored there, so that  *)
(* two equal bytes of the stream are never mistaken for one another; the   *)
(* value of the byte is wire[position].                                    *)
(***************************************************************************)
EXTENDS Integers, Sequences

CONSTANTS
  BufferSize,   \* the argument of create_parser_state
  FrameLengths, \* the frame lengths the peer sends
  PayloadBytes, \* the byte values the peer fills a payload with
  MaxFrames,    \* bound: the frames the peer sends in one behaviour
  ChunkSizes,   \* how many bytes one read of the socket may return
  MemcpyOrders  \* how the C library copies bytes in an overlapping memcpy

MaxInt32 == 2147483647
MinInt32 == -2147483647 - 1

ASSUME BufferSizeAssumption == BufferSize \in Nat
ASSUME FrameLengthsAssumption ==
  \A length \in FrameLengths : length \in Nat /\ length <= MaxInt32
ASSUME PayloadBytesAssumption == PayloadBytes \subseteq 0..255
ASSUME MaxFramesAssumption == MaxFrames \in Nat
ASSUME ChunkSizesAssumption == ChunkSizes \subseteq Nat \ {0}
ASSUME MemcpyOrdersAssumption ==
  /\ MemcpyOrders \subseteq {"ascending", "descending"}
  /\ MemcpyOrders # {}

VARIABLES
  wire,         \* the bytes the peer has sent so far
  sent,         \* the frames it sent: where each starts in wire, its length
  fed,          \* how many bytes of wire add_data has accepted
  buffer,       \* [offset |-> position in wire], 0 for a cell never written
  parser_read,  \* offset of the next byte to parse
  buffer_write, \* offset of the next byte to write
  delivered,    \* the payloads read_next has returned, as it returned them
  held,         \* the struct Buffers the caller has not freed yet
  alive         \* FALSE once destroy_parser_state has run

peerVars == <<wire, sent>>
parserVars == <<fed, buffer, parser_read, buffer_write>>
callerVars == <<delivered, held>>
vars == <<wire, sent, fed, buffer, parser_read, buffer_write,
          delivered, held, alive>>

Offsets == 0..(BufferSize - 1)

-----------------------------------------------------------------------------
(* The length prefix.                                                      *)

\* The peer writes a length as four bytes, least significant first.
LengthPrefix(length) ==
  <<length % 256, (length \div 256) % 256,
    (length \div 65536) % 256, length \div 16777216>>

\* read_next ors four chars, shifted, into an int and swaps the bytes of the
\* result.  A char is signed: the sign bits of a byte of 128 or more also set
\* every bit above it before the swap, which are the bytes of lower
\* significance after it.
DecodedByte(prefix, j) ==
  IF \E i \in (j + 1)..4 : prefix[i] >= 128 THEN 255 ELSE prefix[j]

DecodeLength(prefix) ==
  LET high == DecodedByte(prefix, 4)
  IN DecodedByte(prefix, 1) + 256 * DecodedByte(prefix, 2)
       + 65536 * DecodedByte(prefix, 3)
       + 16777216 * (IF high >= 128 THEN high - 256 ELSE high)

\* length + 4 as read_next's comparison computes it, in a 32-bit int.
FrameSpan(length) ==
  IF length > MaxInt32 - 4 THEN (length - MaxInt32) + 3 + MinInt32 ELSE length + 4

-----------------------------------------------------------------------------
(* The state create_parser_state leaves, before the peer has sent anything. *)

Init ==
  /\ wire = <<>>
  /\ sent = <<>>
  /\ fed = 0
  /\ buffer = [a \in Offsets |-> 0]
  /\ parser_read = 0
  /\ buffer_write = 0
  /\ delivered = <<>>
  /\ held = {}
  /\ alive = TRUE

\* The peer sends a frame: a prefix and a payload of that many bytes.
SendFrame(length, byte) ==
  /\ Len(sent) < MaxFrames
  /\ sent' = Append(sent, [at |-> Len(wire), length |-> length])
  /\ wire' = [p \in 1..(Len(wire) + 4 + length) |->
                IF p <= Len(wire) THEN wire[p]
                ELSE IF p <= Len(wire) + 4 THEN LengthPrefix(length)[p - Len(wire)]
                ELSE byte]
  /\ UNCHANGED <<parserVars, callerVars, alive>>

\* Mutant of Fits: the end of the buffer taken for a byte one may write.
FitsOneTooMany(n) == buffer_write + n <= BufferSize + 1

\* add_data's check that n more bytes end at or before buffer_end.
Fits(n) == buffer_write + n <= BufferSize

\* Mutant of AddData: with nothing left to parse, it starts over at the front.
AddDataRewinding(n) ==
  /\ alive
  /\ fed + n <= Len(wire)
  /\ Fits(n)
  /\ LET start == IF parser_read = buffer_write THEN 0 ELSE buffer_write
     IN /\ buffer' = [a \in Offsets |-> IF a \in start..(start + n - 1)
                                         THEN fed + 1 + (a - start) ELSE buffer[a]]
        /\ buffer_write' = start + n
  /\ parser_read' = IF parser_read = buffer_write THEN 0 ELSE parser_read
  /\ fed' = fed + n
  /\ UNCHANGED <<peerVars, callerVars, alive>>

\* add_data of the next n bytes of the stream.  When they do not fit it returns
\* -1 and changes nothing: the caller still has the chunk and offers it again.
AddData(n) ==
  /\ alive
  /\ fed + n <= Len(wire)
  /\ Fits(n)
  /\ buffer' = [a \in Offsets |->
                  IF a \in buffer_write..(buffer_write + n - 1)
                    THEN fed + 1 + (a - buffer_write) ELSE buffer[a]]
  /\ buffer_write' = buffer_write + n
  /\ fed' = fed + n
  /\ UNCHANGED <<peerVars, parser_read, callerVars, alive>>

\* What read_next sees at parser_read.
NextLength ==
  DecodeLength([j \in 1..4 |-> wire[buffer[parser_read + j - 1]]])

\* Mutants of FrameReady: a frame is held back until a byte of the next one is
\* there, and a frame is returned as soon as its prefix is there.
FrameReadyLate ==
  /\ buffer_write - parser_read >= 4
  /\ buffer_write - parser_read > FrameSpan(NextLength)
FrameReadyEarly == buffer_write - parser_read >= 4

\* The two checks of read_next that return NULL when they fail.
FrameReady ==
  /\ buffer_write - parser_read >= 4
  /\ buffer_write - parser_read >= FrameSpan(NextLength)

\* Mutant of Payload: the location is that of the prefix.
PayloadAtPrefix(length) == [i \in 1..length |-> buffer[parser_read + i - 1]]

\* The bytes the struct Buffer of the next frame points at: it skips the prefix.
Payload(length) == [i \in 1..length |-> buffer[parser_read + 3 + i]]

\* read_next when it returns a frame; when it returns NULL nothing changes.
\* The frame is not copied: its location is inside the parser's buffer.
ReadNext ==
  /\ alive
  /\ FrameReady
  /\ delivered' = Append(delivered, Payload(NextLength))
  /\ held' = held \cup {[location |-> parser_read + 4, length |-> NextLength,
                         payload |-> Payload(NextLength), fresh |-> TRUE]}
  /\ parser_read' = parser_read + NextLength + 4
  /\ UNCHANGED <<peerVars, fed, buffer, buffer_write, alive>>

\* Mutant of Memcpy: the last byte of the region stays behind.
MemcpyOneShort(order, source, n) ==
  [a \in Offsets |-> IF a >= n - 1 THEN buffer[a] ELSE buffer[a + source]]

\* The buffer after memcpy(buffer_start, buffer_start + source, n).  When the
\* regions overlap C leaves the result undefined: a library that copies upwards
\* moves the bytes, one that copies downwards reads cells it has overwritten.
Memcpy(order, source, n) ==
  [a \in Offsets |->
     IF a >= n THEN buffer[a]
     ELSE IF order = "ascending" THEN buffer[a + source]
     ELSE buffer[a + source * ((n - 1 - a) \div source + 1)]]

\* The caller's frames stop pointing at what they were returned for.
AllStale == {[f EXCEPT !.fresh = FALSE] : f \in held}

\* Mutant of SpaceToReclaim: waits until everything buffered has been parsed.
AllParsed == parser_read # 0 /\ parser_read = buffer_write

\* compress_space returns at once when nothing was read since the last one.
SpaceToReclaim == parser_read # 0

\* compress_space moves the unread bytes to the start of the buffer.
CompressSpace ==
  /\ alive
  /\ SpaceToReclaim
  /\ \/ /\ buffer_write > parser_read
        /\ \E order \in MemcpyOrders :
             buffer' = Memcpy(order, parser_read, buffer_write - parser_read)
     \/ /\ buffer_write <= parser_read
        /\ UNCHANGED buffer
  /\ buffer_write' = buffer_write - parser_read
  /\ parser_read' = 0
  /\ held' = AllStale
  /\ UNCHANGED <<peerVars, fed, delivered, alive>>

\* destroy_parser_state frees the buffer every held frame points into.
DestroyParserState ==
  /\ alive
  /\ alive' = FALSE
  /\ held' = AllStale
  /\ UNCHANGED <<peerVars, parserVars, delivered>>

\* The caller frees a struct Buffer it was given.
FreeFrame(frame) ==
  /\ held' = held \ {frame}
  /\ UNCHANGED <<peerVars, parserVars, delivered, alive>>

Next ==
  \/ \E length \in FrameLengths, byte \in PayloadBytes : SendFrame(length, byte)
  \/ \E n \in ChunkSizes : AddData(n)
  \/ ReadNext
  \/ CompressSpace
  \/ DestroyParserState
  \/ \E frame \in held : FreeFrame(frame)

Spec == Init /\ [][Next]_vars

\* A caller that keeps draining the connection: it keeps offering bytes the
\* socket has, keeps asking for frames and keeps making room.
FairSpec ==
  /\ Spec
  /\ WF_vars(\E n \in ChunkSizes : AddData(n))
  /\ WF_vars(ReadNext)
  /\ WF_vars(CompressSpace)
-----------------------------------------------------------------------------
(* Properties.                                                             *)

\* The positions of the payload of a frame the peer sent.
PayloadOf(frame) == [i \in 1..frame.length |-> frame.at + 4 + i]

\* The parser's pointers stay ordered and inside the buffer, and every other
\* variable has its type.
TypeOK ==
  /\ wire \in Seq(0..255)
  /\ sent \in Seq([at : Nat, length : FrameLengths])
  /\ fed \in 0..Len(wire)
  /\ buffer \in [Offsets -> 0..Len(wire)]
  /\ parser_read \in 0..BufferSize
  /\ buffer_write \in parser_read..BufferSize
  /\ delivered \in Seq(Seq(Nat))
  /\ held \subseteq [location : Nat, length : Nat, payload : Seq(Nat),
                     fresh : BOOLEAN]
  /\ alive \in BOOLEAN

\* add_data, read_next and compress_space together lose, repeat and reorder no
\* byte: what lies between parser_read and buffer_write is exactly the part of
\* the accepted stream no frame has taken yet.
UnreadBytesInOrder ==
  \A i \in 1..(buffer_write - parser_read) :
    buffer[parser_read + i - 1] = fed - (buffer_write - parser_read) + i

\* However the stream was cut into chunks, the k-th frame read_next returns has
\* the bytes, all of them and no others, of the k-th frame the peer sent.
DeliveredAsSent ==
  /\ Len(delivered) <= Len(sent)
  /\ \A k \in 1..Len(delivered) : delivered[k] = PayloadOf(sent[k])

\* read_next never holds back a frame whose last byte is in the buffer.
CompleteFrameIsReady ==
  \A k \in 1..Len(sent) :
    (alive /\ k = Len(delivered) + 1 /\ sent[k].at + 4 + sent[k].length <= fed)
      => FrameReady

\* A frame, which aliases the buffer, keeps its bytes through any number of
\* add_data and read_next calls, until compress_space moves the buffer.
HeldFramesIntact ==
  \A f \in held : f.fresh =>
    \A i \in 1..f.length : buffer[f.location + i - 1] = f.payload[i]

Stream == INSTANCE FrameStream WITH
            sent <- [k \in 1..Len(sent) |-> PayloadOf(sent[k])],
            delivered <- delivered,
            open <- alive

\* The parser implements the abstract stream of payloads.
ImplementsStream == Stream!StreamSpec

\* Every frame the peer sends is eventually returned, unless the parser is
\* destroyed first, provided the buffer can hold it.
EveryFrameDelivered ==
  \A k \in 1..MaxFrames :
    (Len(sent) >= k) ~> (Len(delivered) >= k \/ ~alive)
=============================================================================
