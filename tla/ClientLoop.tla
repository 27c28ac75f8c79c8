----------------------------- MODULE ClientLoop -----------------------------
(***************************************************************************)
(* The receive loop of src/foo_main.c, the repository's one program that   *)
(* puts the parser, the header codec and the socket together (the source   *)
(* keeps it inside a comment): poll, read a chunk, add it to the parser,   *)
(* handle every complete frame, compress the buffer, poll again.           *)
(* A heartbeat request is answered with a heartbeat response that carries  *)
(* its correlation id.                                                     *)
(***************************************************************************)
EXTENDS EsMsgParser, EsHeader, FiniteSets

CONSTANTS
  MaxReadErrors, \* bound: how many times read fails after poll reported data
  CutLengths,    \* how many of the bytes sent last a closing peer may cut off
  SendOutcomes   \* what may become of an answer given to send

\* The loop's parser has 4096 bytes; that a length below -4 leads out of it takes
\* no more than this.
ASSUME LoopBufferAssumption == BufferSize < 16777216
ASSUME MaxReadErrorsAssumption == MaxReadErrors \in Nat
ASSUME CutLengthsAssumption == CutLengths \subseteq Nat
ASSUME SendOutcomesAssumption ==
  /\ SendOutcomes \subseteq {"whole", "part", "refused", "sigpipe"}
  /\ "whole" \in SendOutcomes

VARIABLES
  pc,          \* where the loop is: "poll", "drain", "handle", "compress",
               \* "returned", "killed" once a signal has ended the process, or
               \* "astray" once the parser has left its buffer
  replies,     \* the answers given to send: to which frame, what, its outcome
  log,         \* the command of each frame handled, as the loop prints it
  closed,      \* the peer has closed the connection
  cut,         \* how many bytes at the end of wire never arrive
  read_errors  \* how many times read has failed

outputVars == <<replies, log>>
socketVars == <<closed, cut, read_errors>>
loopVars == <<pc, replies, log, closed, cut, read_errors>>
clientVars == <<vars, loopVars>>

ClientInit ==
  /\ Init
  /\ pc = "poll"
  /\ replies = <<>>
  /\ log = <<>>
  /\ closed = FALSE
  /\ cut = 0
  /\ read_errors = 0

\* How many bytes of the peer's arrive, or may still arrive.
Arriving == Len(wire) - cut

-----------------------------------------------------------------------------
(* The peer.                                                               *)

PeerSend ==
  /\ ~closed
  /\ \E length \in FrameLengths, byte \in PayloadBytes : SendFrame(length, byte)
  /\ UNCHANGED loopVars

\* The peer closes the connection, or is cut off in the middle of what it sent:
\* the last n bytes, perhaps a part of a frame, never arrive.
PeerClose(n) ==
  /\ ~closed
  /\ n <= Len(wire) - fed
  /\ closed' = TRUE
  /\ cut' = n
  /\ UNCHANGED <<vars, pc, outputVars, read_errors>>

-----------------------------------------------------------------------------
(* The loop.                                                               *)

\* poll reports data, read returns n bytes of it, add_data takes them.
ReadChunk(n) ==
  /\ pc = "poll"
  /\ fed + n <= Arriving
  /\ AddData(n)
  /\ pc' = "drain"
  /\ UNCHANGED <<outputVars, socketVars>>

\* add_data has no room for them and returns -1, which the loop does not look
\* at: buf goes out of scope and the bytes are lost.
DropChunk(n) ==
  /\ pc = "poll"
  /\ fed + n <= Arriving
  /\ ~Fits(n)
  /\ fed' = fed + n
  /\ pc' = "drain"
  /\ UNCHANGED <<peerVars, buffer, parser_read, buffer_write, callerVars, alive,
                 outputVars, socketVars>>

\* read returns -1, which the loop passes to add_data as a length: add_data
\* copies nothing and moves buffer_write back by one.  From offset 0 that leads
\* in front of the buffer, where C promises nothing about the next chunk's first
\* byte: here it is lost, and the process survives.
ReadError ==
  /\ pc = "poll"
  /\ read_errors < MaxReadErrors
  /\ buffer_write' = buffer_write - 1
  /\ read_errors' = read_errors + 1
  /\ pc' = "drain"
  /\ UNCHANGED <<peerVars, fed, buffer, parser_read, callerVars, alive, outputVars,
                 closed, cut>>

\* Mutant of SocketDropped: the loop goes on.
SocketDroppedGoesOn ==
  /\ pc = "poll"
  /\ closed
  /\ fed = Arriving
  /\ pc' = "drain"
  /\ UNCHANGED <<vars, outputVars, socketVars>>

\* read returns 0: the loop adds nothing, calls read_next and returns without
\* looking at the frame it may have got, nor at the parser again.
SocketDropped ==
  /\ pc = "poll"
  /\ closed
  /\ fed = Arriving
  /\ pc' = "returned"
  /\ UNCHANGED <<vars, outputVars, socketVars>>

\* Where read_next would leave parser_read is in the buffer.  It may not be once
\* bytes have been lost, and four bytes of a payload are taken for a length: one
\* below -4 leads in front of the buffer, one to which 4 cannot be added behind it.
\* A length of -1 is harmless: a frame without bytes, and three bytes skipped.
NextStaysInBuffer == NextLength \in -(parser_read + 4)..(BufferSize - parser_read - 4)

\* read_next returns a frame.
NextMessage ==
  /\ pc = "drain"
  /\ FrameReady
  /\ NextStaysInBuffer
  /\ ReadNext
  /\ pc' = "handle"
  /\ UNCHANGED <<outputVars, socketVars>>

\* read_next computes a pointer out of the buffer.  From there on C promises
\* nothing, and neither does this model.
GoAstray ==
  /\ pc = "drain"
  /\ FrameReady
  /\ ~NextStaysInBuffer
  /\ pc' = "astray"
  /\ UNCHANGED <<vars, outputVars, socketVars>>

\* read_next returns NULL.
NoMessage ==
  /\ pc = "drain"
  /\ ~FrameReady
  /\ pc' = "compress"
  /\ UNCHANGED <<vars, outputVars, socketVars>>

\* The frame in msg: the last one read_next returned.
Message == delivered[Len(delivered)]

\* The cells msg points at now, whatever has happened to the buffer since.
MessageBytes ==
  LET f == CHOOSE g \in held : g.payload = Message
  IN [i \in 1..f.length |-> buffer[f.location + i - 1]]

\* Mutant of Response: the header of the request is sent back.
ResponseWithRequestCode(header) ==
  [prefix |-> LengthPrefix(MandatorySize), header |-> WriteHeader(header)]

\* What the loop sends to answer a request: the length of a header, stored as an
\* int in the client's own byte order, and a header without credentials.
Response(header) ==
  [prefix |-> LengthPrefix(MandatorySize),
   header |-> WriteHeader([command |-> HeartbeatResponse, flags |-> 0,
                           correlation_id |-> header.correlation_id])]

\* The body of the while loop up to send: every frame is printed, one that has no
\* header as "none"; only a heartbeat request is answered.
CommandIn(frame) ==
  IF HasHeader(frame) THEN GetStringForHeader(ReadHeader(wire, frame)) ELSE "none"

AsksForHeartbeat(frame) ==
  HasHeader(frame) /\ ReadHeader(wire, frame).command = HeartbeatRequest

\* Mutant of Reply: the answer that could not be sent ends the loop.
ReplyOrReturn(outcome) ==
  /\ outcome = "sigpipe" => closed
  /\ replies' = Append(replies, [to |-> Len(delivered), outcome |-> outcome,
                                 frame |-> Response(ReadHeader(wire, MessageBytes))])
  /\ pc' = IF outcome = "whole" THEN "drain" ELSE "returned"

\* send on the non-blocking socket: it takes the whole answer, a part of it, or
\* nothing, and the loop goes on without looking at its result; once the peer
\* has gone it may raise SIGPIPE instead, which ends the process.
Reply(outcome) ==
  /\ outcome = "sigpipe" => closed
  /\ replies' = Append(replies, [to |-> Len(delivered), outcome |-> outcome,
                                 frame |-> Response(ReadHeader(wire, MessageBytes))])
  /\ pc' = IF outcome = "sigpipe" THEN "killed" ELSE "drain"

\* Mutant of HandleMessage: the loop handles one frame for each read.
HandleOnlyOne ==
  /\ pc = "handle"
  /\ log' = Append(log, CommandIn(MessageBytes))
  /\ \/ /\ AsksForHeartbeat(MessageBytes)
        /\ replies' = Append(replies, [to |-> Len(delivered), outcome |-> "whole",
                                frame |-> Response(ReadHeader(wire, MessageBytes))])
     \/ ~AsksForHeartbeat(MessageBytes) /\ UNCHANGED replies
  /\ pc' = "compress"
  /\ UNCHANGED <<vars, socketVars>>

\* The body of the while loop, which ends by asking for the next frame.
HandleMessage ==
  /\ pc = "handle"
  /\ log' = Append(log, CommandIn(MessageBytes))
  /\ \/ AsksForHeartbeat(MessageBytes) /\ \E outcome \in SendOutcomes : Reply(outcome)
     \/ ~AsksForHeartbeat(MessageBytes) /\ pc' = "drain" /\ UNCHANGED replies
  /\ UNCHANGED <<vars, socketVars>>

\* The end of the body of while(3).
Compress ==
  /\ pc = "compress"
  /\ \/ CompressSpace
     \/ ~SpaceToReclaim /\ UNCHANGED vars
  /\ pc' = "poll"
  /\ UNCHANGED <<outputVars, socketVars>>

LoopStep ==
  \/ \E n \in ChunkSizes : ReadChunk(n) \/ DropChunk(n)
  \/ SocketDropped
  \/ NextMessage
  \/ GoAstray
  \/ NoMessage
  \/ HandleMessage
  \/ Compress

ClientNext ==
  \/ PeerSend
  \/ \E n \in CutLengths : PeerClose(n)
  \/ LoopStep
  \/ ReadError

ClientSpec == ClientInit /\ [][ClientNext]_clientVars

\* The process keeps running: nothing it calls blocks once poll has returned.
FairClientSpec == ClientSpec /\ WF_clientVars(LoopStep)
-----------------------------------------------------------------------------
(* Properties.                                                             *)

\* The frames the body of the while loop has been through.
HandledCount == IF pc = "handle" THEN Len(delivered) - 1 ELSE Len(delivered)

\* Between any two steps the parser's pointers are in order and in its buffer,
\* which read_next does not leave, and the loop's own variables have their types.
ClientTypeOK ==
  /\ TypeOK
  /\ pc \in {"poll", "drain", "handle", "compress", "returned", "killed"}
  /\ pc = "handle" => Len(delivered) > 0
  /\ \A j \in 1..Len(replies) : /\ replies[j].to \in 1..Len(delivered)
                                /\ replies[j].outcome \in SendOutcomes
  /\ closed \in BOOLEAN
  /\ cut \in 0..(Len(wire) - fed)
  /\ read_errors \in 0..MaxReadErrors

IsRequest(frame) ==
  Len(frame) >= MandatorySize /\ wire[frame[1]] = HeartbeatRequest

\* The frame that answers a request: its correlation id is the request's, byte
\* for byte, on the wire.
AnswerTo(frame) ==
  [prefix |-> <<18, 0, 0, 0>>,
   header |-> [command |-> HeartbeatResponse, flags |-> 0,
               correlation_id |-> [j \in UuidOffsets |-> frame[3 + j]]]]

\* Every heartbeat request read_next returned is answered exactly once, in the
\* order the requests came in, and nothing else is sent, whatever became of
\* earlier answers; the buffer the request lies in has not moved when the answer
\* is built from it.
RequestsAnsweredInOrder ==
  /\ {replies[j].to : j \in 1..Len(replies)}
       = {k \in 1..HandledCount : IsRequest(delivered[k])}
  /\ \A j \in 1..Len(replies) :
       /\ replies[j].frame = AnswerTo(delivered[replies[j].to])
       /\ \A i \in 1..(j - 1) : replies[i].to < replies[j].to

\* The loop takes each command for the one the peer sent, also those whose code
\* of 128 or more struct Header keeps as a negative char.
CommandsNamedAsSent ==
  /\ Len(log) = HandledCount
  /\ \A k \in 1..Len(log) :
       log[k] = IF Len(delivered[k]) < MandatorySize THEN "none"
                ELSE GetStringForTcpMessage(wire[delivered[k][1]])

\* The loop never goes back to waiting for the peer while a frame the peer may
\* be waiting to have answered lies complete in the buffer.
PollsOnlyWhenDrained == pc = "poll" => ~FrameReady

\* However the peer cuts its frames into packets, there is always room for what
\* the next read returns: add_data's result, which the loop ignores, is never
\* -1.  It needs a buffer one chunk larger than an unfinished frame.
RoomAtPoll == pc = "poll" => \A n \in ChunkSizes : Fits(n)

\* The peer has had a part of an answer: it takes the bytes of the next answer
\* for the rest of it.
TornBefore(j) == \E i \in 1..(j - 1) : replies[i].outcome = "part"

\* The frames whose answer the peer has had whole and can tell from others.
Answered ==
  {replies[j].to : j \in {i \in 1..Len(replies) :
                           replies[i].outcome = "whole" /\ ~TornBefore(i)}}

\* The k-th frame arrives to its last byte.
Arrives(k) == sent[k].at + 4 + sent[k].length <= Arriving

\* Every heartbeat request the peer sends has its answer eventually, also one
\* still in the socket when the peer closes the connection, unless it is cut off
\* on its way or a send has failed.
EveryRequestAnswered ==
  \A k \in 1..MaxFrames :
    (k <= Len(sent) /\ IsRequest(PayloadOf(sent[k])))
      ~> \/ k \in Answered
         \/ k <= Len(sent) /\ ~Arrives(k)
         \/ \E j \in 1..Len(replies) : replies[j].outcome # "whole"

\* Once the peer has closed the connection, even in the middle of a frame, the
\* loop ends.
ReturnsAfterClose == closed ~> pc \in {"returned", "killed"}

Service == INSTANCE HeartbeatService WITH
  asks <- [k \in 1..Len(sent) |-> IsRequest(PayloadOf(sent[k]))],
  arriving <- Cardinality({k \in 1..Len(sent) : Arrives(k)}),
  settled <- HandledCount,
  answered <- Answered,
  line <- IF TornBefore(Len(replies) + 1) THEN "torn" ELSE "whole",
  peer <- IF closed THEN "gone" ELSE "connected",
  service <- IF pc = "returned" THEN "stopped"
             ELSE IF pc = "killed" THEN "killed" ELSE "running"

\* The loop is a heartbeat service: whatever the chunks, the buffer, the socket
\* and a peer that is cut off do, it deals with each frame that arrives once and
\* in order, and goes on until it has dealt with all of them.
ImplementsHeartbeatService == Service!ServiceSpec
=============================================================================
