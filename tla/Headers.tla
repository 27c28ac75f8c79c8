------------------------------ MODULE Headers ------------------------------
(***************************************************************************)
(* The struct Headers a user of src/es_msg_parser.c makes and destroys     *)
(* while the parser goes on: read_header takes one from a frame that lies  *)
(* in the parser's buffer, create_header makes one for an answer, and      *)
(* either may outlive the frame, the buffer's contents and the parser.     *)
(***************************************************************************)
EXTENDS EsMsgParser, EsHeader, Heap

CONSTANTS
  Usernames, \* the user names and passwords given to create_header
  Passwords

Null == "null" \* a NULL pointer

ASSUME CredentialsAssumption == Null \notin Usernames \cup Passwords

VARIABLES
  headers,   \* the struct Headers the caller has not destroyed
  destroyed, \* the serial numbers of those it has, while a block of them is left
  live       \* the heap blocks allocated for headers and not freed

headerVars == <<headers, destroyed, live>>
allVars == <<vars, headerVars>>

HeadersInit ==
  /\ Init
  /\ headers = {}
  /\ destroyed = {}
  /\ live = {}

\* What the parser, the peer and the parser's caller do meanwhile.
ParserStep == Next /\ UNCHANGED headerVars

\* The blocks create_header allocates for a header.
HeaderBlocks(header) ==
  {<<header.serial, "struct">>, <<header.serial, "correlation_id">>}
    \cup {<<header.serial, "username">> : u \in {header.username} \ {Null}}
    \cup {<<header.serial, "password">> : p \in {header.password} \ {Null}}

\* create_header: the correlation id is copied, user name and password too if
\* they are given.  maker is the function that calls it, from the frame the id
\* came from.
CreateHeader(maker, fields, username, password, from) ==
  /\ FreeSerials(live) # {}
  /\ LET header == [serial |-> NextSerial(live), command |-> fields.command,
                    flags |-> fields.flags, correlation_id |-> fields.correlation_id,
                    username |-> username, password |-> password,
                    maker |-> maker, from |-> from]
     IN /\ headers' = headers \cup {header}
        /\ live' = live \cup HeaderBlocks(header)
  /\ UNCHANGED <<vars, destroyed>>

\* The bytes a struct Buffer points at now.
BytesAt(frame) == [i \in 1..frame.length |-> buffer[frame.location + i - 1]]

\* Mutant of ReadHeaderFrom: the frame has been kept over compress_space.
ReadHeaderFromMoved(frame) ==
  /\ frame \in held
  /\ HasHeader(BytesAt(frame))
  /\ \A i \in 1..frame.length : BytesAt(frame)[i] # 0
  /\ CreateHeader("read_header", ReadHeader(wire, BytesAt(frame)), Null, Null,
                  frame.payload)

\* read_header of a frame whose location is still good.
ReadHeaderFrom(frame) ==
  /\ frame \in held
  /\ frame.fresh
  /\ HasHeader(BytesAt(frame))
  /\ CreateHeader("read_header", ReadHeader(wire, BytesAt(frame)), Null, Null,
                  frame.payload)

\* create_header for the answer to a request, with or without credentials.
AnswerHeader(request, username, password) ==
  CreateHeader("caller", [command |-> HeartbeatResponse, flags |-> 0,
                          correlation_id |-> request.correlation_id],
               username, password, request.from)

\* Mutant of FreedByHeader: the password is forgotten too.
FreedWithoutPassword(header) ==
  HeaderBlocks(header) \ {<<header.serial, "correlation_id">>,
                          <<header.serial, "password">>}

\* What destroy_header frees: not the correlation id.
FreedByHeader(header) == HeaderBlocks(header) \ {<<header.serial, "correlation_id">>}

\* destroy_header; on a pointer it has set to NULL it does nothing.
DestroyHeader(header) ==
  /\ headers' = headers \ {header}
  /\ live' = live \ FreedByHeader(header)
  /\ destroyed' = destroyed \cup {header.serial}
  /\ UNCHANGED vars

HeadersNext ==
  \/ ParserStep
  \/ \E frame \in held : ReadHeaderFrom(frame)
  \/ \E request \in headers, username \in Usernames \cup {Null},
        password \in Passwords \cup {Null} : AnswerHeader(request, username, password)
  \/ \E header \in headers : DestroyHeader(header)

HeadersSpec == HeadersInit /\ [][HeadersNext]_allVars
-----------------------------------------------------------------------------
(* Properties.                                                             *)

\* Headers and the blocks of the heap have their types.
HeadersTypeOK ==
  /\ \A h \in headers : /\ h.serial \in 1..MaxSerial
                        /\ h.command \in -128..127
                        /\ h.flags \in -128..127
                        /\ DOMAIN h.correlation_id = UuidOffsets
                        /\ Len(h.from) >= MandatorySize
  /\ destroyed \subseteq 1..MaxSerial
  /\ \A b \in live : b[1] \in 1..MaxSerial

\* A header keeps what its frame said, and an answer the id of its request,
\* whatever happens to the frame, the buffer and the parser afterwards:
\* write_header puts the correlation id on the wire byte for byte as the peer
\* sent it, and, for a header that was read, its command and flags.
HeadersOutliveFrames ==
  \A h \in headers :
    LET written == WriteHeader(h)
    IN /\ written.correlation_id = [j \in UuidOffsets |-> h.from[3 + j]]
       /\ h.maker = "read_header" => /\ written.command = wire[h.from[1]]
                                     /\ written.flags = wire[h.from[2]]

\* However headers are made and destroyed, the heap holds the blocks of those
\* the caller has, no block belonging to two of them, and of those it has
\* destroyed exactly the correlation ids, which nothing points at any more.
HeaderBlocksAccounted ==
  /\ live = {<<n, "correlation_id">> : n \in destroyed}
              \cup UNION {HeaderBlocks(h) : h \in headers}
  /\ \A h, i \in headers : h.serial = i.serial => h = i
  /\ \A h \in headers : h.serial \notin destroyed
=============================================================================
