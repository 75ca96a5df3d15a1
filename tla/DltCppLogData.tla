---------------------------- MODULE DltCppLogData ----------------------------
(***************************************************************************)
(* The message buffer of the native DLT backend: class DltCppLogData.      *)
(*                                                                         *)
(* A log entry owns one DltCppLogData.  init() latches whether the DLT     *)
(* context is enabled; each value streamed into the entry is appended to   *)
(* the fixed array m_content as one typed argument; the destructor appends *)
(* the optional source and thread information and hands the message to     *)
(* DaemonConnection::sendLog, which computes the header.                   *)
(*                                                                         *)
(* Data abstraction: the bytes of m_content are represented by the         *)
(* sequence of the arguments that occupy them (kind, first byte, number of *)
(* bytes).  The sizes are the program's own, in bytes.                     *)
(***************************************************************************)
EXTENDS Integers, Sequences

CONSTANTS
  MaxMessageSize,    \* maxMessageSize, the size of m_content
  ValueSizes,        \* sizeof of the scalar values the application streams
  StringLengths,     \* lengths of the strings the application streams
  FormatResults      \* return values of snprintf in writeFormatted

\* snprintf returns a negative value when the conversion fails.
FormatError == -1

SizeofTypeInfo         == 4      \* DltTypeInfo, uint32_t
SizeofStringLength     == 2      \* DltStringLengthType, uint16_t
MessageTooLargeSize    == SizeofTypeInfo + SizeofStringLength + 12
MaxContentSize         == MaxMessageSize - MessageTooLargeSize
StringOverhead         == SizeofStringLength + SizeofTypeInfo + 1
ArgsCountModulus       == 256    \* m_argsCount is a uint8_t
LengthModulus          == 65536  \* DltStandardHeader::len is a uint16_t
\* DltStandardHeader, DltExtendedHeader and the extra header with ECU id,
\* session id and timestamp.
HeadersSize            == 4 + 10 + 12

ASSUME SizeAssumption ==
  /\ MaxMessageSize \in Nat
  /\ MessageTooLargeSize <= MaxMessageSize
  /\ MaxMessageSize + HeadersSize < LengthModulus

ASSUME InputAssumption ==
  /\ ValueSizes \subseteq Nat
  /\ StringLengths \subseteq Nat
  /\ FormatResults \subseteq Nat \cup {FormatError}

VARIABLES
  entry,        \* life cycle of the log entry: "none", "open" or "sent"
  m_enabled,    \* whether the DLT context accepted the entry in init()
  buf,          \* m_contentSize, m_argsCount, m_isFull and the arguments
  wire,         \* header fields computed by sendLog for the sent message
  metadata      \* the two environment flags of LogContextBase

vars == <<entry, m_enabled, buf, wire, metadata>>

Kinds == {"value", "string", "formatted", "truncated"}

Argument == [kind : Kinds, at : Nat, size : Nat]

\* lost collects the kinds of arguments that were dropped or cut short; the
\* program keeps no such record, it is there to state the properties.
Buffer == [contentSize : Nat, argsCount : 0 .. 255,
           isFull : BOOLEAN, args : Seq(Argument), lost : SUBSET Kinds]

EmptyBuffer == [contentSize |-> 0, argsCount |-> 0, isFull |-> FALSE,
                args |-> << >>, lost |-> {}]

NoMessage == [noar |-> 0, len |-> 0]

Smaller(a, b) == IF a <= b THEN a ELSE b

-----------------------------------------------------------------------------
(***************************************************************************)
(* Operations on the buffer                                                *)
(***************************************************************************)

\* Mutant: the reserve for the marker is forgotten.
GetAvailableSpaceNoReserve(b, infoSize) ==
  IF ~b.isFull /\ MaxMessageSize - b.contentSize >= infoSize
  THEN MaxMessageSize - b.contentSize - infoSize
  ELSE 0

GetAvailableSpace(b, infoSize) ==
  IF ~b.isFull /\ MaxContentSize - b.contentSize >= infoSize
  THEN MaxContentSize - b.contentSize - infoSize
  ELSE 0

\* Mutant: the bytes are copied but m_contentSize advances by the payload only.
AppendArgumentNoOverhead(b, kind, bytes) ==
  [b EXCEPT !.contentSize = @ + bytes - SizeofTypeInfo,
            !.argsCount   = (@ + 1) % ArgsCountModulus,
            !.args        = Append(@, [kind |-> kind, at |-> b.contentSize,
                                       size |-> bytes])]

\* writeType, reserve and writeBuffer: bytes bytes in all, type info included.
AppendArgument(b, kind, bytes) ==
  [b EXCEPT !.contentSize = @ + bytes,
            !.argsCount   = (@ + 1) % ArgsCountModulus,
            !.args        = Append(@, [kind |-> kind, at |-> b.contentSize,
                                       size |-> bytes])]

Lost(b, kind) == [b EXCEPT !.lost = @ \cup {kind}]

\* Mutant: m_isFull is not set.
AddMessageTooLargeIndicationNoFull(b) ==
  IF b.isFull THEN b ELSE AppendArgument(b, "truncated", MessageTooLargeSize)

AddMessageTooLargeIndication(b) ==
  IF b.isFull
  THEN b
  ELSE [AppendArgument(b, "truncated", MessageTooLargeSize)
          EXCEPT !.isFull = TRUE]

CheckOverflow(b, additionalSize) ==
  IF ~b.isFull /\ GetAvailableSpace(b, additionalSize) = 0
  THEN AddMessageTooLargeIndication(b)
  ELSE b

WriteWithTypeInfo(b, valueSize) ==
  LET c == CheckOverflow(b, valueSize + SizeofTypeInfo)
  IN  IF c.isFull
      THEN Lost(c, "value")
      ELSE AppendArgument(c, "value", valueSize + SizeofTypeInfo)

\* Mutant: the marker is only added when nothing at all could be stored.
WriteStringMarksOnlyEmpty(b, length) ==
  LET space  == Smaller(length, GetAvailableSpace(b, StringOverhead))
      stored == IF space > 0
                THEN AppendArgument(b, "string", StringOverhead + space)
                ELSE b
  IN  IF space < length
      THEN IF space = 0 THEN AddMessageTooLargeIndication(Lost(stored, "string"))
                        ELSE Lost(stored, "string")
      ELSE stored

\* An empty string leaves no trace in the message.
WriteString(b, length) ==
  LET space  == Smaller(length, GetAvailableSpace(b, StringOverhead))
      stored == IF space > 0
                THEN AppendArgument(b, "string", StringOverhead + space)
                ELSE b
  IN  IF space < length
      THEN AddMessageTooLargeIndication(Lost(stored, "string"))
      ELSE stored

\* Mutant: m_contentSize advances by what snprintf returned.
WriteFormattedTrustsResult(b, result) ==
  LET space == GetAvailableSpace(b, StringOverhead)
  IN  IF space > 0 THEN AppendArgument(b, "formatted", Smaller(result, space))
                   ELSE AddMessageTooLargeIndication(Lost(b, "formatted"))

\* snprintf is given space bytes for the characters and the terminator, and
\* returns the number of characters without the terminator.
WriteFormatted(b, result) ==
  LET space    == GetAvailableSpace(b, StringOverhead)
      inBuffer == IF result = FormatError THEN 0 ELSE Smaller(result + 1, space)
      stored   == IF space > 0
                  THEN AppendArgument(b, "formatted",
                         SizeofTypeInfo + SizeofStringLength + inBuffer)
                  ELSE b
      cut      == space = 0 \/ inBuffer < result + 1 \/ result = FormatError
      noted    == IF cut THEN Lost(stored, "formatted") ELSE stored
      overflow == space = 0 \/ result = FormatError \/ space < result
  IN  IF overflow THEN AddMessageTooLargeIndication(noted) ELSE noted

\* What the destructor appends before it sends.  A file or function name that
\* is nullptr adds as little as an empty one; a line number of -1 is left out.
AppendSourceInfo(b, file, hasLine, function) ==
  LET named == WriteString(WriteString(b, 54), file)
  IN  WriteString(IF hasLine THEN WriteWithTypeInfo(named, 4) ELSE named,
                  function)

AppendThreadInfo(b, name) ==
  WriteString(WriteWithTypeInfo(WriteString(b, 8), 4), name)

AppendMetadata(b, file, hasLine, function, name) ==
  LET s == IF metadata.sourceInfo
           THEN AppendSourceInfo(b, file, hasLine, function)
           ELSE b
  IN  IF metadata.threadInfo THEN AppendThreadInfo(s, name) ELSE s

-----------------------------------------------------------------------------
(***************************************************************************)
(* The life of a log entry                                                 *)
(***************************************************************************)

Init ==
  /\ entry = "none"
  /\ m_enabled = FALSE
  /\ buf = EmptyBuffer
  /\ wire = NoMessage
  /\ metadata \in [sourceInfo : BOOLEAN, threadInfo : BOOLEAN]

\* LogContextT::createLog constructs an entry and calls DltCppLogData::init.
InitEntry ==
  /\ entry \in {"none", "sent"}
  /\ entry' = "open"
  /\ m_enabled' \in BOOLEAN
  /\ buf' = EmptyBuffer
  /\ wire' = NoMessage
  /\ UNCHANGED metadata

\* LogEntry::write and writeFormatted skip a backend that is not enabled.
Stream(newBuf) ==
  /\ entry = "open"
  /\ m_enabled
  /\ buf' = newBuf
  /\ UNCHANGED <<entry, m_enabled, wire, metadata>>

StreamValue     == \E n \in ValueSizes : Stream(WriteWithTypeInfo(buf, n))
StreamString    == \E n \in StringLengths : Stream(WriteString(buf, n))
StreamFormatted == \E r \in FormatResults : Stream(WriteFormatted(buf, r))

\* Mutant: the length field leaves out the extra header.
SendLogNoExtra(b) ==
  [noar |-> b.argsCount, len |-> (4 + 10 + b.contentSize) % LengthModulus]

SendLog(b) ==
  [noar |-> b.argsCount, len |-> (HeadersSize + b.contentSize) % LengthModulus]

\* ~DltCppLogData of an entry the DLT accepted.
DestroyEnabled ==
  /\ entry = "open"
  /\ m_enabled
  /\ \E file, function, name \in StringLengths, hasLine \in BOOLEAN :
       buf' = AppendMetadata(buf, file, hasLine, function, name)
  /\ wire' = SendLog(buf')
  /\ entry' = "sent"
  /\ UNCHANGED <<m_enabled, metadata>>

\* ~DltCppLogData of an entry created for another backend only.
DestroyDisabled ==
  /\ entry = "open"
  /\ ~m_enabled
  /\ entry' = "none"
  /\ UNCHANGED <<m_enabled, buf, wire, metadata>>

Next ==
  \/ InitEntry
  \/ StreamValue
  \/ StreamString
  \/ StreamFormatted
  \/ DestroyEnabled
  \/ DestroyDisabled

Spec == Init /\ [][Next]_vars

-----------------------------------------------------------------------------
(***************************************************************************)
(* Properties                                                              *)
(***************************************************************************)

\* Types of the fields of a DltCppLogData and of the header fields.
TypeOK ==
  /\ entry \in {"none", "open", "sent"}
  /\ m_enabled \in BOOLEAN
  /\ buf \in Buffer
  /\ wire \in [noar : Nat, len : Nat]
  /\ metadata \in [sourceInfo : BOOLEAN, threadInfo : BOOLEAN]

\* Until the marker is written the reserve for it is intact.
Bounded(b) ==
  /\ b.contentSize <= MaxMessageSize
  /\ ~b.isFull => b.contentSize <= MaxContentSize

ArgumentEnd(a) == a.at + a.size

Contiguous(b) ==
  /\ b.args = << >> => b.contentSize = 0
  /\ b.args # << >> => /\ b.args[1].at = 0
                       /\ ArgumentEnd(b.args[Len(b.args)]) = b.contentSize
  /\ \A i \in 1 .. Len(b.args) - 1 :
       b.args[i + 1].at = ArgumentEnd(b.args[i])

MarkerLast(b) ==
  /\ \A i \in 1 .. Len(b.args) :
       b.args[i].kind = "truncated" => i = Len(b.args) /\ b.isFull
  /\ b.isFull => /\ b.args # << >>
                 /\ b.args[Len(b.args)].kind = "truncated"

LossMarked(b) == b.lost \ {"formatted"} # {} => b.isFull

\* No sequence of write calls makes DltCppLogData copy past the end of
\* m_content, and maxContentSize - m_contentSize in getAvailableSpace, an
\* unsigned subtraction, never wraps.
BufferBounds == Bounded(buf)

\* The arguments in m_content follow each other without gap or overlap from
\* byte 0 up to m_contentSize, so that the receiver can decode them in turn.
LayoutContiguous == Contiguous(buf)

\* The "..truncated" marker of addMessageTooLargeIndication is written at most
\* once and nothing, not even the destructor's metadata, comes after it.
MarkerIsLast == MarkerLast(buf)

\* A value or string that write() dropped or cut short shows in the message:
\* it carries the marker.
WriteLossIsMarked == LossMarked(buf)

\* The same for writeFormatted, whose comment says that the marker is added
\* when there is "No space left for the whole string".
FormattedLossIsMarked == "formatted" \in buf.lost => buf.isFull

\* The 16 bit length in the header of a sent message is exactly the size of
\* the headers plus the bytes its arguments occupy.
WireLengthExact ==
  entry = "sent" =>
    wire.len = HeadersSize
                 + IF buf.args = << >> THEN 0
                   ELSE ArgumentEnd(buf.args[Len(buf.args)])

\* noar in the header of a sent message is the "number of arguments" of it.
NoarIsNumberOfArguments == entry = "sent" => wire.noar = Len(buf.args)
=============================================================================
