# A TLA+ model of libesclient

libesclient is a C client library for Event Store's TCP protocol. It is young
("Status unstable"): what exists is the receiving half of the transport (a frame
parser and a header codec), helpers that turn the C structs of thirteen-odd
messages into protocol buffers and back, and a receive loop that is still inside
a comment. Nothing in it is concurrent: one thread calls into it. What makes it
hard is elsewhere - a byte stream the network cuts anywhere, frames that alias
the buffer they were read from, arithmetic on signed bytes, partial failures
whose result nobody looks at, and memory that has to be allocated and freed in
step by some forty hand-written functions.

## The system

| component | state | operations | what must be true of it |
|---|---|---|---|
| frame parser, `es_msg_parser.c:5-10,49-66,106-145` | one linear buffer with `parser_read <= buffer_write <= buffer_end` | `create_parser_state`, `add_data`, `read_next`, `compress_space`, `destroy_parser_state` | no byte of the stream is lost, repeated or reordered; the frames returned are the frames sent; a complete frame is returned; a returned frame keeps its bytes until `compress_space` |
| header codec, `es_msg_parser.c:12-47,68-104` | a heap `struct Header` | `create_header`, `destroy_header`, `read_header`, `write_header`, `get_string_for_header` | what is written is what is read; a header outlives its frame; every block is freed, once |
| correlation ids, `wtf_uuid.c` | none | `get_uuid_from_wtf`, `write_uuid_to_wtf` | the two undo each other |
| command codes, `es_tcp_messages.*` | none | a name for each code | a command is recognised although `struct Header` keeps it in a signed char |
| receive loop, `foo_main.c:22-105` | the parser, the socket, `msg` | poll, read, `add_data`, `read_next`, answer heartbeats, `compress_space` | every heartbeat request is answered once, in order, with its own id; no chunk is dropped; the loop does not sleep on a complete frame; a failed send changes none of that; it returns when the peer has gone |
| message helpers, `es_proto_helper.c:159-729` | the heap shared with the caller | `es_pack_X`, `es_unpack_X`, `destroy_X` for 14 messages | a message survives the round trip; unpacking what a peer may send is safe; `destroy_X` frees what `es_unpack_X` allocated, once |
| generated code, `es_proto.*` | tables | for each message a descriptor, and functions that call protobuf-c with it | a message is packed and unpacked by its own descriptor |
| test runner, build files | - | - | - |

The receive loop calls the parser and the header codec; the codec calls the
correlation id functions; the helpers call the generated functions, which call
protobuf-c. The parser and the helpers do not meet yet: no code in the repository
hands the payload of a frame to `es_unpack_X`. The only shared memory is the
parser's buffer, into which the frames of `read_next` point, and the protobuf-c
message, into which `es_unpack_write_events` leaves pointers.

Hard behaviours, each listed with its line under `hazards` in `PROJECT.json`:
chunk boundaries anywhere, also inside a prefix; sign extension in the prefix;
overlapping `memcpy`; frames kept while the buffer changes; a full buffer; the
ignored results of `add_data`, `read` and `send`; other bytes taken for a length
once some are lost; several frames in a chunk; a
connection closed with answers outstanding, or cut in the middle of a frame; an
answer sent in part; absent optional fields; a result that means two things; early
returns that skip a `free`; pointers into freed messages; fields never assigned.

## Modules

| module | models | extends |
|---|---|---|
| `FrameStream` | the promise of the receiving side: payloads come out whole, once, in order | |
| `EsMsgParser` | the frame parser, its caller and the peer | |
| `EsMsgParserProofs` | theorems about `EsMsgParser`, refinement of `FrameStream` included | `EsMsgParser` |
| `WtfUuid` | the byte order of correlation ids | |
| `TcpMessages` | the command codes and their names | |
| `EsHeader` | `read_header`, `write_header`, the command's name in `get_string_for_header` | `WtfUuid`, `TcpMessages` |
| `EsHeaderProofs` | theorems about the header codec and the conversions of correlation ids | `EsHeader` |
| `Headers` | the heap of headers: `create_header`, `read_header`, `destroy_header`, while the parser goes on | `EsMsgParser`, `EsHeader`, `Heap` |
| `HeadersProofs` | theorems about `Headers` | `Headers`, `EsMsgParserProofs`, `EsHeaderProofs`, `HeapProofs` |
| `HeartbeatService` | the promise of the receive loop: frames that arrive are dealt with once and in order, requests answered | |
| `ClientLoop` | the receive loop, its socket and its peer | `EsMsgParser`, `EsHeader` |
| `ClientLoopProofs` | theorems about `ClientLoop` | `ClientLoop`, `EsMsgParserProofs`, `EsHeaderProofs` |
| `ClientServiceProofs` | `ClientLoop` implements the safety half of `HeartbeatService` | `ClientLoopProofs` |
| `Heap` | which blocks are allocated | |
| `HeapProofs` | an allocation gets a serial number no live block has | `Heap` |
| `EsProto` | the labels and types of the messages' fields, and protobuf-c | |
| `EsProtoHelper` | pack, unpack and destroy of the thirteen flat messages | `EsProto`, `Heap` |
| `EsProtoHelperProofs` | theorems about `EsProtoHelper` | `EsProtoHelper`, `HeapProofs` |
| `WriteEvents` | pack, unpack and destroy of the message with repeated events | `Heap` |
| `WriteEventsProofs` | theorems about `WriteEvents` | `WriteEvents`, `HeapProofs` |

An operator whose comment starts with "Mutant of" is a version of the definition
below it with a plausible bug. No specification uses it; putting it in the place
of the original must make a run fail, which shows that the property has teeth.
`PROJECT.json` lists the pairs.

### EsMsgParser

Pointers are offsets from `buffer_start`. A cell of `buffer` holds the *position*
in the peer's stream of the byte stored there; the byte itself is
`wire[position]`. So "the right bytes" is never confused with "bytes of equal
value". `wire` and `sent` are the peer's history, `fed` how much of it `add_data`
accepted, `delivered` what `read_next` returned (as positions), `held` the
`struct Buffer`s the caller still has.

- `AddData(n)` is `add_data` of the next n bytes. When they do not fit it returns
  -1 and changes nothing: the action is not enabled, and the caller still has the
  bytes. (What the receive loop does in that case is `DropChunk` of `ClientLoop`.)
- `ReadNext` is `read_next` when it returns a frame; when it returns NULL nothing
  changes. `FrameReady` is its two checks. `DecodeLength` is the shift-and-or of
  line 112 on *signed* chars followed by `ntohl` on a little-endian machine;
  `FrameSpan` is `length + 4` in 32 bits.
- `CompressSpace` is `compress_space` past its early return. `Memcpy` says what a
  library does with overlapping regions: C leaves it undefined, and
  `MemcpyOrders` chooses between a library that copies upwards and one that
  copies downwards.
- `DestroyParserState` and `FreeFrame` let frames outlive the parser.

### Headers

`Headers` runs the parser (`ParserStep` is any step of `EsMsgParser`) and beside it
makes headers from the frames in its buffer (`ReadHeaderFrom`, through the cells a
frame points at now), for answers (`AnswerHeader`, with the id of another
header, with or without credentials) and destroys them. A header owns two to
four heap blocks (`HeaderBlocks`); `destroy_header` frees all but the correlation
id (`FreedByHeader`). `from` and `maker` are history: the frame a header goes back
to, and who made it. `destroyed` is history too.

### ClientLoop, HeartbeatService

`pc` is where the loop is. The 1024-byte `buf` is the set `ChunkSizes`, the
4096-byte parser is `BufferSize`. `DropChunk` is the ignored -1; `ReadError` is
the -1 of `read` used as a length.
After it `buffer_write` may be in front of the
buffer; C promises nothing about the byte copied there next, and the model loses
that byte and goes on. Once bytes are lost `read_next` takes any four for a length.
A byte of 128 or more among them, sign-extended, makes all in front of it 255, so that
the length is -1, which costs three bytes and gives a frame without any, or below
-16777216. `NextMessage` is a `read_next` that stays in the buffer
(`NextStaysInBuffer`); where it would not, `GoAstray` ends what is modelled: the
loop is `"astray"`, in undefined behaviour. `SocketDropped` is the read that
returns 0: `add_data` of nothing, a `read_next` whose frame nobody looks at, return.
`HandleMessage` reads the frame through the buffer as it
is *now* (`MessageBytes`), not through what it was when `read_next` returned it.
The answer's length prefix is stored as an int in the client's byte order:
little-endian, as the peer expects.

`Reply` is `send` on a non-blocking socket, with its possible outcomes: all of the
answer, a part of it, nothing, or, once the peer has gone, the signal SIGPIPE,
which ends the process (`"killed"`). The code looks at none of them, so the step
is the same except for the last; `replies` remembers the outcome, and `Answered`
says which answers the peer can make out: none after a part of one.
`PeerClose(n)` is a peer that closes, or is cut off, with its last n bytes never
arriving; n = 0 is an orderly close, after which everything sent is still read.

`HeartbeatService` knows frames only as "asks for a heartbeat" or not. A frame that
arrives is settled, in order; a settled request is answered or its answer fails,
never later and never twice; when the peer has gone and all is settled the
service stops, and it does not idle before. `ClientLoop` maps the k-th frame sent
to whether it is a request, the frames the body of the loop has been through to
`settled`, `Answered` to `answered`, and the frames wholly inside what arrives to
`arriving`.

### EsProto, EsProtoHelper

The `...Fields` are translated from the descriptors of `es_proto.c`, the
`...Functions` from its functions, which say which descriptor a message is packed
and unpacked by; `Schema` puts them together. What protobuf-c then does (`Present`,
`PackMessage`, `PackedSize`, `CanUnpack`, `UnpackMessage`) is a library's and
marked external. The trios of
functions differ only in what they do with each field, and the `...Code` tables
say that, field by field: assigned both ways (`Copied`), assigned with its `has_`
flag (`Marked`), duplicated and freed (`Owned`), duplicated and not freed
(`Kept`). `Pack`, `Unpack` and `Destroy` interpret the tables; `Unpack` on an
absent string is `strdup(NULL)`, which ends the process (`status`). A block of
the heap is the serial number of the call that allocated it and the field it
holds, and serial numbers are reused as addresses are. The peer may leave out
fields, required ones included: then `es_unpack_X` returns NULL and `Unpack` is
not enabled. Numbers have two values,
one of them 0, the value of a field nobody set; strings have one value, `""` and
NULL. A pack that does not fit returns 0 and leaves the buffer alone; `told` is
what a caller concludes from the result.

### WriteEvents

Here the events are allocated one by one. `PackWrite` allocates the pointer array
and the copies of the events and frees them (`FreedByPack`, lines 457-460);
`PackTooLarge` is the early return of `es_proto_helper.c:453` in front of that, and
`refused` remembers its calls. `UnpackWrite` allocates the protobuf-c message
(`MessageBlocks`) and the caller's struct and frees the message again;
`IntoMessage` is a pointer into it. An unpacked event's id is anything the block
may have held. The peer may leave out the data of an event, which is required: then
`es_unpack_write_events` returns NULL (line 467) and `UnpackWrite` is not enabled.

## Runs

| run | asks | bounds |
|---|---|---|
| `parser` | every safety property of the parser, that it implements `FrameStream`, and that every frame is delivered | 3 frames of 0, 1 and 7 bytes, all chunk sizes, an 11-byte buffer |
| `parser_long_frame` | is a complete frame returned when it has 32768 bytes | one frame. **No**: `es_msg_parser.c:112` |
| `parser_overlap` | does `compress_space` keep the bytes under any `memcpy` | 3 frames of 0, 1 and 3 bytes. **No**: `:140` |
| `client_loop` | does the loop keep what `HeartbeatService` promises, does it ever drop a chunk, is every request answered, does it return | 2 frames of 17, 18 and 25 bytes, chunks of 1 and 44, a 72-byte buffer, every outcome of `send`, 0 or 5 bytes cut off |
| `client_loop_lossy` | what still holds once chunks are dropped and reads fail, until `read_next` leaves the buffer | 3 frames of 1 and 18 bytes, payload bytes 1, 130 and 255, chunks of 6 and 22, a 30-byte buffer, one read error, every outcome of `send`, 0 or 5 bytes cut off |
| `headers` | do headers outlive frames, buffer and parser, which blocks does `destroy_header` leave | 2 frames of 17 and 18 bytes, a 44-byte buffer, three headers with blocks in the heap |
| `proto_helper` | round trip, heap and results of 13 messages | one struct alive, a leaked text or two, every optional field and two required ones present or not, strings NULL or not |
| `proto_null_message` | is an absent optional text harmless | the three messages that have one. **No**: `es_proto_helper.c:232,367,531` |
| `proto_scavenge_leak` | does `destroy_` free the error text | **No**: `:338` |
| `write_events` | do batches survive the round trip, is each block freed once | 2 events, buffers for 1 and 2, up to two refused packs |
| `write_events_ids` | does an event keep its id | **No**: `:437-447,478` |
| `write_events_data` | can the data be read | **No**: `:482,493` |

Why the bounds are enough. Three frames of three lengths with every chunk size
put chunk boundaries inside prefixes, inside payloads and on frame boundaries,
and let one chunk hold the end of a frame, a whole frame and the beginning of a
third. A frame of 0 bytes is a prefix alone. The buffer of 11 bytes just holds
the longest frame with its prefix, so that `add_data` refuses, `compress_space` moves
overlapping and disjoint regions, and the exact fit happens. In the loop 17 is
one byte short of a header, 18 a header alone, 25 a header with a payload; the
payload byte 1 makes it a heartbeat request, 5 another command, and 130 (0x82) a client
message whose code is negative as a char. Chunks of 44 hold two requests with
their prefixes, so that one drain handles two frames; chunks of 1 cut everywhere.
Five bytes cut off end the last frame inside its payload or, with chunks of 1,
leave any part of it in the buffer. In `client_loop_lossy` the payload bytes 130
and 255 are what a damaged stream may hold where a length is expected: 255 as its
last byte makes it -1, 130 leads out of the buffer. Two events tell one event's
fields from the other's, and different values of the two content types tell
those apart.

`CHECK_DEADLOCK FALSE` everywhere: the peer sends a bounded number of frames, a
destroyed parser and a loop that has returned do nothing more, and the process
that called `strdup(NULL)` is gone.

### Fairness

`parser` assumes a caller that keeps adding the bytes there are, reading
frames and compressing, as the receive loop does (weak fairness of each of the
three: the loop performs each in every round). `client_loop` assumes only
that the process runs: weak fairness of a step of the loop, whichever it is; the
loop is sequential and no call in it blocks once `poll` has returned (the socket
is non-blocking, `foo_main.c:53`). The peer is under no obligation to send or
close, and no send has to succeed. A read error is not part of the fair steps,
and `client_loop` has none: after one the stream is damaged, and nothing is
promised. The fairness of `HeartbeatService`, a service that settles or stops
while it can, is part of what `ImplementsHeartbeatService` checks.

## Proofs

Every safety invariant the runs check is a theorem, for every value of the
constants that satisfies the hypotheses named below. Each component has an
inductive invariant (`IInv`, `LoopInv` and `LosslessInv`, `HeadersInv`,
`ProtoInv`, `WriteInv`), one lemma per action that it is preserved, and a theorem
`...Invariance` that it always holds; the properties follow from it. TLC has been
made to check each of these invariants, and the hypotheses, on the constants of
the runs of its component: they exclude no state the runs reach.

| hypothesis | says | why it is needed |
|---|---|---|
| `ShortFrames` | no frame has 32768 bytes or more | longer lengths are decoded wrongly: `parser_long_frame` |
| `UpwardMemcpy` | memcpy copies upwards where its regions overlap | other orders destroy unread bytes: `parser_overlap` |
| `Lossless` | `ShortFrames`, `read` does not fail, and the buffer holds an unfinished frame and one more chunk | otherwise the loop loses bytes and goes on: `client_loop_lossy` |
| `"ScavengeDatabaseCompleted" \notin Messages` | that message is not used | its `destroy_` forgets a text: `proto_scavenge_leak` |
| `TextsGiven` | neither side leaves an optional text out | `strdup(NULL)`: `proto_null_message` |

### The parser

`EsMsgParserProofs`: `TypeOK`, `UnreadBytesInOrder`, `DeliveredAsSent`,
`HeldFramesIntact`, `CompleteFrameIsReady`, and the refinement of `FrameStream`,
under `ShortFrames` and `UpwardMemcpy`.

The invariants are not inductive alone. `DeliveredAsSent` needs to know that the
next four unread bytes are the prefix of the next frame; that takes three
things: the peer's frames lie end to end in the stream (`WireFramed`),
`parser_read` stands at the start of the first frame not delivered
(`ReadAtFrameStart`), and the unread cells are consecutive positions of the
stream (`UnreadBytesInOrder`). With `LengthPrefixDecoded` the decoded length is
then the length that was sent, and `parser_read` moves to the start of the frame
after. `HeldFramesIntact` needs `FreshFramesParsed`: a fresh frame lies in front of
`parser_read`, where `add_data` never writes. The refinement maps a frame
`sent[k]` to its payload; `SendFrame`, `ReadNext` and `DestroyParserState` become
`Send`, `Deliver` and `Close`, every other action a stutter.

### The header codec

`EsHeaderProofs` proves that both conversions of correlation ids are inverses of
each other, for bytes of any kind, from the fact that the table `net_order` is
its own inverse; that `write_header` puts back the eighteen bytes
`read_header` took, whatever their values; and that the command is named by the
byte in the frame: the way through a signed char loses nothing (`CharConversion`).

`HeadersProofs` puts this on top of the parser, under the parser's hypotheses.
`HeadersInv` adds to `IInv` that a held frame is made of positions of the stream
(`HeldInStream`) and that a header says what its frame said when it was read
(`HeaderOfFrame`). A fresh frame still has its bytes in the buffer
(`HeldFramesIntact`), so a header made now is one of the frame that was sent; and
the stream only grows, so one made earlier remains so. For the heap
`HeaderBlocksAccounted` is inductive by itself once `NextSerialFree` says that
a call gets a serial number no live block has.

### The receive loop

`ClientLoopProofs` has two invariants because the loop is of two minds about lost
bytes: it ignores that they are lost and goes on.

`LoopInv` holds in either case. It does not know frames: the cells not parsed yet
hold positions of the stream in ascending order (`UnreadAscending`), and so do the
frames returned, one after the other (`DeliveredAscending`). That is enough to
know that no two frames share a byte, and hence that the frame the loop finds
again through `msg` is the one it was handed (`MessageFresh`), that each request is
answered once and in order with its own id, that every command is named by its
byte, and that nothing is left to parse at `poll` (`Drained`; the steps of the
peer cannot change that, and `compress_space` moves the bytes but not what they
say). It does not need the lengths `read_next` decodes to be right, only that a
frame ends among the unread bytes. `DecodedLength` says what any four bytes decode
to, and `NextMessageSpan` that a length below -1, or one to which 4 cannot be added,
leads out of a buffer of less than 16 megabytes (`LoopBufferAssumption`; the loop's
has 4096 bytes), which is where the model stops. So `LoopInvariance`, and with it
`RequestsAnsweredInOrder`, `CommandsNamedAsSent` and `PollsOnlyWhenDrained`, are
proved for every byte a peer may send and every loss, with no hypothesis but
`UpwardMemcpy`.

`LosslessInv` adds the parser's `IInv` and that the loop is not astray
(`LosslessNotAstray`: what `read_next` decodes is the length of a frame that was
sent): when nothing is lost every step of the
loop is a step of the parser or leaves it alone (`ClientStepsParser`). At `poll` the
buffer then holds less than one frame, at its front, because a frame that is
complete would have been returned (`CompleteFrame`); so there is room for any chunk
(`AlwaysRoomAtPoll`), and that is why nothing is lost next time either.

`ClientServiceProofs` proves from `LosslessInv` that the loop implements
`ServiceSafety`, the specification of `HeartbeatService` without its fairness. The
mapping is the one of `ImplementsHeartbeatService`. `PeerSend` becomes `Ask`,
`PeerClose` becomes `HangUp`, `HandleMessage` and its outcome of `send` become
`Settle`, the read that finds the end of the stream becomes `Stop`, and all else
stutters. Its own invariant says that the frames that arrive whole are the first
ones (`FramesArrive`), which makes their number the service's `arriving`.

### The message helpers

`EsProtoHelperProofs` proves the five invariants of `proto_helper` with no
hypothesis about values, messages or heap. All it uses of the tables is
`MessageHandled`, established message by message in `EveryMessageHandled`: every
field is packed, the flag of an optional scalar is set, what is duplicated is
freed, except for the error text, and every message but `ScavengeDatabase` has a
field its packed form never lacks. That the heap is in order
then needs two facts together: structs have different serial numbers, and each
has its blocks alive, so that no new struct can get a number in use. Two more
theorems say how far the violations of the runs go: without
`ScavengeDatabaseCompleted` nothing leaks, and with the optional texts given
nothing crashes.

`WriteEventsProofs` does the same for batches of any number of events.
`BlocksAccounted` says that the heap is the blocks of the structs and those of the
calls of `es_pack_write_events` that returned 0; the names of their fields tell
them apart. It also gives the opposite of `DataReadable`: no event ever has data
the caller can read (`DataAlwaysFreed`).

### Only model-checked

- What rests on fairness: `EveryFrameDelivered`, `EveryRequestAnswered`,
  `ReturnsAfterClose`, and the liveness half of `ImplementsHeartbeatService`
  (`WF_serviceVars(Settle \/ Stop)`). Liveness and ENABLED are out of the proof
  system's reach.

In a union of a union, modules write `A \cup UNION S` and not `UNION S \cup A`, which
SANY and tlapm parse differently.

## Assumptions

- The build is that of the makefile: gcc on x86, where `char` is signed, `int` has
  32 bits and integers are little-endian.
- malloc does not fail; asserts are preconditions (events have data, read requests
  name a stream, arguments are not NULL).
- protobuf-c and libuuid do what `es_proto_helper.c` and `wtf_uuid.c` rely on;
  their definitions are marked external.
- The receive loop is modelled as it is written inside its comment; its parser has
  less than 16 megabytes (the code says 4096 bytes).

## Not modelled

- The text of log lines, beyond the name of the command.
- User names and passwords in a frame: `read_header` does not look at them and
  `write_header` does not write them.
- The memory the receive loop never frees (frames, headers, `info`, `r`): it only
  grows.
- What the loop does after `read_next` has left its buffer, which takes a damaged
  stream: the behaviour is undefined.
- A frame handed to `es_unpack_X`: no code in the repository does that.
- Reconnecting: the loop returns when the connection is gone.
- The descriptors and functions in `es_proto.c` of messages no helper uses.
- The tests and the test runner, except as the source of what findings quote.

## Plan

Done: every component of the inventory with logic of its own is modelled and
checked; every safety invariant the runs check is proved, and so are the
refinement of `FrameStream` and the safety half of that of `HeartbeatService`.

Next:
1. `UnreadBytesInOrder` under any `MemcpyOrders`, for buffers whose unread bytes
   `compress_space` never moves onto themselves;
2. theorems about `HeartbeatService` alone, which every implementation of it
   inherits: answers in order, none after a torn one.
