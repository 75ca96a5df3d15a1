--------------------------- MODULE IncomingMessages ---------------------------
(***************************************************************************)
(* The reader thread's decoding of what the daemon writes into the         *)
(* application's FIFO: DaemonConnection::handleIncomingMessage and         *)
(* applyLogLevel.                                                          *)
(*                                                                         *)
(* The FIFO is a stream of bytes without message boundaries.  One read()   *)
(* takes up to BufferSize bytes into an array that is not initialized, and *)
(* whatever the loop leaves undecoded is dropped with the array.  The      *)
(* daemon is external: it writes each message whole.                       *)
(***************************************************************************)
EXTENDS Integers, Sequences

CONSTANTS
  BufferSize,      \* size of the array read() fills (1024 in the program)
  ContextCount,    \* number of contexts in m_contexts
  Levels,          \* levels the daemon requests
  Garbage,         \* values an uninitialized byte of the array may have
  MaxPending,      \* bound: bytes the daemon leaves unread in the FIFO
  MaxMessages      \* bound: messages the daemon sends

SizeofUserHeader == 8       \* DltUserHeader: pattern and message type
SizeofLogLevel   == 6       \* DltUserControlMsgLogLevel
SizeofLogState   == 1       \* DltUserControlMsgLogState
LOG_STATE        == 12      \* DLT_USER_MESSAGE_LOG_STATE
LOG_LEVEL        == 6       \* DLT_USER_MESSAGE_LOG_LEVEL
Verbose          == 6       \* initial m_activeLogLevel

Byte == 0 .. 255
Positions == 0 .. ContextCount - 1

ASSUME SizesAssumption ==
  /\ BufferSize \in Nat \ {0} /\ ContextCount \in Nat
  /\ Levels \subseteq Byte /\ Garbage \subseteq Byte
  /\ MaxPending \in Nat /\ MaxMessages \in Nat

VARIABLES
  fifo,            \* bytes in the application's FIFO
  buffer,          \* the byteCount bytes the last read() returned
  offset,          \* pMessage - buffer.data()
  reader,          \* "polling", "parsing" or "crashed"
  m_activeLogLevel,
  sent, applied,   \* level requests made and calls of setActiveLogLevel
  messages         \* messages the daemon has sent

vars == <<fifo, buffer, offset, reader, m_activeLogLevel, sent, applied, messages>>

Init ==
  /\ fifo = << >> /\ buffer = << >> /\ offset = 0 /\ reader = "polling"
  /\ m_activeLogLevel = [p \in Positions |-> Verbose]
  /\ sent = << >> /\ applied = << >> /\ messages = 0

-----------------------------------------------------------------------------
(***************************************************************************)
(* The daemon                                                              *)
(***************************************************************************)

\* A 32 bit integer in the byte order of the machine, least significant first.
Bytes32(n) == <<n % 256, (n \div 256) % 256, (n \div 65536) % 256, n \div 16777216>>

UserHeader(type) == <<68, 85, 72, 1>> \o Bytes32(type)

LevelMessage(pos, level) == UserHeader(LOG_LEVEL) \o <<level, 0>> \o Bytes32(pos)

StateMessage == UserHeader(LOG_STATE) \o <<1>>

Write(message) ==
  /\ messages < MaxMessages /\ Len(fifo) + Len(message) <= MaxPending
  /\ fifo' = fifo \o message
  /\ messages' = messages + 1
  /\ UNCHANGED <<buffer, offset, reader, m_activeLogLevel, applied>>

DaemonSetsLevel ==
  \E p \in Positions, l \in Levels :
    /\ Write(LevelMessage(p, l))
    /\ sent' = Append(sent, [pos |-> p, level |-> l])

DaemonSendsState == Write(StateMessage) /\ UNCHANGED sent

-----------------------------------------------------------------------------
(***************************************************************************)
(* handleIncomingMessage                                                   *)
(***************************************************************************)

Smaller(a, b) == IF a <= b THEN a ELSE b

\* Mutant: one byte of the array is left unused by a read() of BufferSize - 1.
PollAndReadShort ==
  /\ reader = "polling" /\ fifo # << >>
  /\ LET n == Smaller(BufferSize - 1, Len(fifo))
     IN  /\ buffer' = SubSeq(fifo, 1, n)
         /\ fifo' = SubSeq(fifo, n + 1, Len(fifo))
  /\ offset' = 0
  /\ reader' = "parsing"
  /\ UNCHANGED <<m_activeLogLevel, sent, applied, messages>>

PollAndRead ==
  /\ reader = "polling" /\ fifo # << >>
  /\ LET n == Smaller(BufferSize, Len(fifo))
     IN  /\ buffer' = SubSeq(fifo, 1, n)
         /\ fifo' = SubSeq(fifo, n + 1, Len(fifo))
  /\ offset' = 0
  /\ reader' = "parsing"
  /\ UNCHANGED <<m_activeLogLevel, sent, applied, messages>>

\* Mutant: a whole level message is asked for, and a byte more.
HeaderAvailableOffByOne == offset + SizeofUserHeader + SizeofLogLevel < Len(buffer)

\* The loop condition asks for the header only, not for the message.
HeaderAvailable == offset + SizeofUserHeader < Len(buffer)

\* The byte at pMessage + k, given the values of the bytes past byteCount.
ByteAt(k, past) ==
  IF offset + k < Len(buffer) THEN buffer[offset + k + 1] ELSE past[k]

\* userHeader->message; the pattern is not looked at.  The value is only
\* compared with small constants, so bytes above the 24th bit count as 2 ^ 24.
MessageType(past) ==
  ByteAt(4, past) + 256 * ByteAt(5, past) + 65536 * ByteAt(6, past)
    + 16777216 * Smaller(1, ByteAt(7, past))

\* log_level_pos, a signed 32 bit integer: only its sign and whether it is
\* below the number of contexts matter.
LogLevelPos(past) ==
  LET low == ByteAt(10, past) + 256 * ByteAt(11, past) + 65536 * ByteAt(12, past)
  IN  IF ByteAt(13, past) >= 128 THEN -1
      ELSE low + 16777216 * Smaller(1, ByteAt(13, past))

ParseState ==
  /\ reader = "parsing" /\ HeaderAvailable
  /\ MessageType(<< >>) = LOG_STATE
  /\ offset' = offset + SizeofUserHeader + SizeofLogState
  /\ UNCHANGED <<fifo, buffer, reader, m_activeLogLevel, sent, applied, messages>>

\* Mutant: the trace status is not skipped.
ParseLevelShort ==
  /\ reader = "parsing" /\ HeaderAvailable
  /\ MessageType(<< >>) = LOG_LEVEL
  /\ \E past \in [8 .. 13 -> Garbage] :
       LET pos == LogLevelPos(past) level == ByteAt(8, past)
       IN  IF pos \in Positions
           THEN /\ m_activeLogLevel' = [m_activeLogLevel EXCEPT ![pos] = level]
                /\ applied' = Append(applied, [pos |-> pos, level |-> level])
                /\ UNCHANGED reader
           ELSE /\ reader' = IF pos < 0 THEN "crashed" ELSE reader
                /\ UNCHANGED <<m_activeLogLevel, applied>>
  /\ offset' = offset + SizeofUserHeader + SizeofLogLevel - 1
  /\ UNCHANGED <<fifo, buffer, sent, messages>>

\* applyLogLevel: a position that is too large is ignored, a negative one is
\* used as an index.
ParseLevel ==
  /\ reader = "parsing" /\ HeaderAvailable
  /\ MessageType(<< >>) = LOG_LEVEL
  /\ \E past \in [8 .. 13 -> Garbage] :
       LET pos == LogLevelPos(past) level == ByteAt(8, past)
       IN  IF pos \in Positions
           THEN /\ m_activeLogLevel' = [m_activeLogLevel EXCEPT ![pos] = level]
                /\ applied' = Append(applied, [pos |-> pos, level |-> level])
                /\ UNCHANGED reader
           ELSE /\ reader' = IF pos < 0 THEN "crashed" ELSE reader
                /\ UNCHANGED <<m_activeLogLevel, applied>>
  /\ offset' = offset + SizeofUserHeader + SizeofLogLevel
  /\ UNCHANGED <<fifo, buffer, sent, messages>>

\* Another type, or less than a header and a byte left: the rest is dropped.
EndParsing ==
  /\ reader = "parsing"
  /\ HeaderAvailable => MessageType(<< >>) \notin {LOG_STATE, LOG_LEVEL}
  /\ reader' = "polling"
  /\ buffer' = << >> /\ offset' = 0
  /\ UNCHANGED <<fifo, m_activeLogLevel, sent, applied, messages>>

Next ==
  \/ DaemonSetsLevel \/ DaemonSendsState
  \/ PollAndRead \/ ParseState \/ ParseLevel \/ EndParsing

Spec == Init /\ [][Next]_vars

\* The reader thread is scheduled.
FairSpec == Spec /\ WF_vars(PollAndRead \/ ParseState \/ ParseLevel \/ EndParsing)

-----------------------------------------------------------------------------
(***************************************************************************)
(* Properties                                                              *)
(***************************************************************************)

\* The requests whose application is still to come, provided that those that
\* were applied are the first ones made.
Outstanding == SubSeq(sent, Len(applied) + 1, Len(sent))

Channel == INSTANCE LevelChannel
  WITH outstanding <- Outstanding, active <- m_activeLogLevel

\* The decoding of the byte stream implements the abstract channel: every
\* request is applied once, in order, to the context it is for.
ChannelSpec == Channel!Spec

\* The decoding never looks at bytes that read() did not return: the whole
\* message is in the buffer when its header is.
NoReadPastTheEnd ==
  reader = "parsing" /\ HeaderAvailable /\ MessageType(<< >>) = LOG_LEVEL =>
    offset + SizeofUserHeader + SizeofLogLevel <= Len(buffer)

\* A reader that finds nothing to read has applied every request made so far: no
\* message is left behind in the array when handleIncomingMessage returns, the
\* last one of a burst included.
NothingIsForgotten == reader = "polling" /\ fifo = << >> => Outstanding = << >>

\* Every level the daemon requests is eventually applied: "The log level of
\* each context can be adjusted at runtime".
EveryRequestIsApplied == []<>(Outstanding = << >>)
=============================================================================
