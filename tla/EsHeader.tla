------------------------------ MODULE EsHeader ------------------------------
(***************************************************************************)
(* The header of a frame (src/es_msg_parser.c): read_header, write_header  *)
(* and the name get_string_for_header gives its command.  A byte of the    *)
(* correlation id is identified by where it came from, since the code      *)
(* moves those bytes and never looks at them; the command and the flags    *)
(* are the values of their bytes.                                          *)
(***************************************************************************)
EXTENDS Integers, Sequences, WtfUuid, TcpMessages

\* MANDATORYSIZE: command, flags and correlation id.
MandatorySize == 18

\* Mutant of Char: the char is taken for unsigned.
CharUnsigned(byte) == byte

\* struct Header keeps a byte in a char, which is signed.
Char(byte) == IF byte >= 128 THEN byte - 256 ELSE byte
UnsignedChar(char) == char % 256

\* Mutant of HasHeader: a frame that is a header and nothing else is refused.
HasMoreThanHeader(frame) == Len(frame) > MandatorySize

\* read_header refuses a frame too short to have a header.
HasHeader(frame) == Len(frame) >= MandatorySize

\* read_header: command and flags at offsets 0 and 1, then the correlation id.
\* bytes gives the value of a byte of the frame.  A user name and password in
\* the frame are not looked at.
ReadHeader(bytes, frame) ==
  [command |-> Char(bytes[frame[1]]),
   flags |-> Char(bytes[frame[2]]),
   correlation_id |-> GetUuidFromWtf([j \in UuidOffsets |-> frame[3 + j]])]

\* write_header: the eighteen bytes it stores, of which it returns the number.
WriteHeader(header) ==
  [command |-> UnsignedChar(header.command),
   flags |-> UnsignedChar(header.flags),
   correlation_id |-> WriteUuidToWtf(header.correlation_id)]

\* Mutant of GetStringForHeader: the command is looked up as the char it is.
GetStringForSignedHeader(header) == GetStringForTcpMessage(header.command)

\* get_string_for_header, of which only the name of the command is kept: the
\* command is converted to the uint8_t get_string_for_tcp_message takes.
GetStringForHeader(header) == GetStringForTcpMessage(UnsignedChar(header.command))
=============================================================================
