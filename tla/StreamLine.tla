----------------------------- MODULE StreamLine -----------------------------
(***************************************************************************)
(* How the stream backends put the text of an entry together: the colours, *)
(* prefix, values and suffix that StreamLogData and ConsoleLogData format  *)
(* into a ByteArray, and the padding that moves the suffix to the right    *)
(* edge of the terminal.                                                   *)
(*                                                                         *)
(* The behaviour of one entry.  Other threads change the level of the      *)
(* backend and the user resizes the terminal at any time: every write asks *)
(* isEnabled again, and the width is read twice.  A text is a sequence of  *)
(* cells that are visible, blank, a newline or part of an escape sequence. *)
(***************************************************************************)
EXTENDS ByteArray, FiniteSets

CONSTANTS
  Kinds,              \* of backend: "console", "file"
  PrefixLength, ValueLengths, SuffixLength, ThreadSuffixLength,
  ColorLength,        \* of the escape sequence for the level's colour
  ResetLength,        \* of the one that ends it
  Widths,             \* columns of the terminal; 0: there is none
  DEFAULT_WIDTH,
  \* Bounds of the state space:
  MaxValues, MaxChanges

Cells == {"visible", "blank", "newline", "escape", Nul, Garbage}

ASSUME LineAssumption ==
  /\ Kinds \subseteq {"console", "file"}
  /\ PrefixLength \in Nat /\ ValueLengths \subseteq Nat
  /\ SuffixLength \in Nat /\ ThreadSuffixLength \in Nat
  /\ ColorLength \in Nat /\ ResetLength \in Nat
  /\ Widths \subseteq Nat /\ DEFAULT_WIDTH \in Nat
  /\ MaxValues \in Nat /\ MaxChanges \in Nat
  /\ {Nul, Garbage} \cap {"visible", "blank", "newline", "escape"} = {}

VARIABLES
  \* fixed for an entry
  kind,
  m_colorSupport,     \* a terminal was there when the context was created
  m_enableThreadInfo,
  \* changed by others
  enabled,            \* what isEnabled answers for the level of the entry
  consoleWidth,       \* what getConsoleWidth answers
  \* the entry
  pc, m_content, m_invisibleCharacterCount,
  suffixArray, padding,
  printed,            \* the C string handed to the stream
  \* history
  written,            \* the text of the writes that found the backend enabled
  failed,             \* snprintf has failed
  changed,            \* enabled or consoleWidth has changed during the entry
  values, changes     \* progress towards the bounds

settings == <<kind, m_colorSupport, m_enableThreadInfo>>
environment == <<enabled, consoleWidth, changed, changes>>
vars == <<settings, environment, pc, m_content, m_invisibleCharacterCount,
          suffixArray, padding, printed, written, failed, values>>

Text(cell, n) == [i \in 1 .. n |-> cell]

NotPrinted == <<Nul>>

Init ==
  /\ kind \in Kinds
  /\ consoleWidth \in Widths
  /\ m_colorSupport \in BOOLEAN /\ (kind = "file" => ~m_colorSupport)
  /\ m_enableThreadInfo \in BOOLEAN
  /\ enabled \in BOOLEAN
  /\ pc = "init"
  /\ m_content = EmptyByteArray /\ suffixArray = EmptyByteArray
  /\ m_invisibleCharacterCount = 0 /\ padding = 0
  /\ printed = NotPrinted /\ written = << >>
  /\ failed = FALSE /\ changed = FALSE
  /\ values = 0 /\ changes = 0

Goto(label) == pc' = label

-----------------------------------------------------------------------------
(***************************************************************************)
(* Formatted output                                                        *)
(***************************************************************************)

\* writeFormatted(ByteArray&, ...) for a format that yields text: snprintf
\* counts the characters, the array grows by one more for the terminator, and
\* gives up the last cell again, which keeps the terminator.
WriteFormatted(b, text) ==
  LET size  == Len(text) + 1
      grown == Resize(b, Size(b) + size)
      ended == StoreAt(grown, Size(b), Append(text, Nul))
  IN  Resize(ended, Size(ended) - 1)

\* The same when snprintf fails and returns -1: nothing is written, but one cell
\* is given up.
WriteFormattedFails(b) == Resize(b, Size(b) - 1)

\* writeFormatted(format, ...), which asks isEnabled first.
Write(text) ==
  /\ m_content' = IF enabled THEN WriteFormatted(m_content, text) ELSE m_content
  /\ written' = IF enabled THEN written \o text ELSE written

Colors == m_colorSupport

\* writeHeaderColor, which counts the sequence also if it was not written.
WriteHeaderColor ==
  IF Colors
  THEN /\ Write(Text("escape", ColorLength))
       /\ m_invisibleCharacterCount' = m_invisibleCharacterCount + ColorLength
  ELSE UNCHANGED <<m_content, written, m_invisibleCharacterCount>>

\* Mutant: the characters that end a colour are not counted as invisible.
ResetColorUncounted ==
  IF Colors
  THEN Write(Text("escape", ResetLength)) /\ UNCHANGED m_invisibleCharacterCount
  ELSE UNCHANGED <<m_content, written, m_invisibleCharacterCount>>

\* resetColor
ResetColor ==
  IF Colors
  THEN /\ Write(Text("escape", ResetLength))
       /\ m_invisibleCharacterCount' = m_invisibleCharacterCount + ResetLength
  ELSE UNCHANGED <<m_content, written, m_invisibleCharacterCount>>

-----------------------------------------------------------------------------
(***************************************************************************)
(* The beginning of an entry and its values                                *)
(***************************************************************************)

\* StreamLogData::init
InitData ==
  /\ pc = "init"
  /\ Goto(IF ~enabled THEN "open" ELSE IF kind = "console" THEN "color" ELSE "prefix")
  /\ UNCHANGED <<settings, environment, m_content, m_invisibleCharacterCount,
                 suffixArray, padding, printed, written, failed, values>>

\* ConsoleLogData::writePrefix: the colour, ...
PrefixColor ==
  /\ pc = "color"
  /\ WriteHeaderColor
  /\ Goto("prefix")
  /\ UNCHANGED <<settings, environment, suffixArray, padding, printed, failed, values>>

\* ... StreamLogData::writePrefix, ...
WritePrefix ==
  /\ pc = "prefix"
  /\ Write(Text("visible", PrefixLength))
  /\ Goto(IF kind = "console" THEN "colorEnd" ELSE "open")
  /\ UNCHANGED <<settings, environment, m_invisibleCharacterCount, suffixArray,
                 padding, printed, failed, values>>

\* ... and its end.
PrefixColorEnd ==
  /\ pc = "colorEnd"
  /\ ResetColor
  /\ Goto("open")
  /\ UNCHANGED <<settings, environment, suffixArray, padding, printed, failed, values>>

\* write of a value, all of which end in writeFormatted.
WriteValue ==
  /\ pc = "open" /\ values < MaxValues
  /\ \E n \in ValueLengths : Write(Text("visible", n))
  /\ values' = values + 1
  /\ UNCHANGED <<settings, environment, pc, m_invisibleCharacterCount, suffixArray,
                 padding, printed, failed>>

\* A value that snprintf cannot convert.  The size of an empty array wraps
\* around, and the vector throws std::length_error.
WriteValueFails ==
  /\ pc = "open" /\ values < MaxValues /\ enabled
  /\ IF Size(m_content) = 0
     THEN Goto("threw") /\ UNCHANGED m_content
     ELSE m_content' = WriteFormattedFails(m_content) /\ UNCHANGED pc
  /\ failed' = TRUE
  /\ values' = values + 1
  /\ UNCHANGED <<settings, environment, m_invisibleCharacterCount, suffixArray,
                 padding, printed, written>>

-----------------------------------------------------------------------------
(***************************************************************************)
(* flushLog                                                                *)
(***************************************************************************)

\* The destructor of the entry.
FlushLog ==
  /\ pc = "open"
  /\ Goto(IF ~enabled THEN "done" ELSE IF kind = "console" THEN "footerColor" ELSE "suffix")
  /\ UNCHANGED <<settings, environment, m_content, m_invisibleCharacterCount,
                 suffixArray, padding, printed, written, failed, values>>

\* writeFooterColor
FooterColor ==
  /\ pc = "footerColor"
  /\ WriteHeaderColor
  /\ Goto("suffix")
  /\ UNCHANGED <<settings, environment, suffixArray, padding, printed, failed, values>>

\* getSuffix; the formatting into an array of its own asks nobody.
Suffix ==
  LET location == WriteFormatted(EmptyByteArray, Text("visible", SuffixLength))
  IN  IF m_enableThreadInfo
      THEN WriteFormatted(location, Text("visible", ThreadSuffixLength))
      ELSE location

\* writeSuffix: the console adds a newline before it measures.
GetSuffix ==
  /\ pc = "suffix"
  /\ suffixArray' = IF kind = "console" THEN WriteFormatted(Suffix, <<"newline">>)
                                        ELSE Suffix
  /\ Goto(IF kind = "console" THEN "measure" ELSE "suffixText")
  /\ UNCHANGED <<settings, environment, m_content, m_invisibleCharacterCount,
                 padding, printed, written, failed, values>>

\* ConsoleLogData::writeSuffix: the columns left of the line.
Measure ==
  LET width == IF consoleWidth = 0 THEN DEFAULT_WIDTH ELSE consoleWidth
      left  == width - (Size(m_content) + Size(suffixArray) - m_invisibleCharacterCount)
  IN  /\ pc = "measure"
      /\ IF left < 0 THEN Goto("lineBreak") /\ UNCHANGED padding
                     ELSE Goto("pad") /\ padding' = left
      /\ UNCHANGED <<settings, environment, m_content, m_invisibleCharacterCount,
                     suffixArray, printed, written, failed, values>>

\* The suffix does not fit.
LineBreak ==
  /\ pc = "lineBreak"
  /\ Write(<<"newline">>)
  /\ Goto("measureAgain")
  /\ UNCHANGED <<settings, environment, m_invisibleCharacterCount, suffixArray,
                 padding, printed, failed, values>>

\* The width is read a second time, and DEFAULT_WIDTH is not used.
MeasureAgain ==
  /\ pc = "measureAgain"
  /\ padding' = Larger(consoleWidth - Size(suffixArray), 0)
  /\ Goto("pad")
  /\ UNCHANGED <<settings, environment, m_content, m_invisibleCharacterCount,
                 suffixArray, printed, written, failed, values>>

\* Mutant: the loop over the columns goes one too far.
PadOneMore ==
  /\ pc = "pad" /\ padding >= 0
  /\ Write(<<"blank">>)
  /\ padding' = padding - 1
  /\ UNCHANGED <<settings, environment, pc, m_invisibleCharacterCount, suffixArray,
                 printed, failed, values>>

Pad ==
  /\ pc = "pad" /\ padding > 0
  /\ Write(<<"blank">>)
  /\ padding' = padding - 1
  /\ UNCHANGED <<settings, environment, pc, m_invisibleCharacterCount, suffixArray,
                 printed, failed, values>>

EndPad ==
  /\ pc = "pad" /\ padding = 0
  /\ Goto("suffixText")
  /\ UNCHANGED <<settings, environment, m_content, m_invisibleCharacterCount,
                 suffixArray, padding, printed, written, failed, values>>

\* The console prints the suffix with "%s"; the file takes it as the format, in
\* which the model has no conversion.
WriteSuffix ==
  /\ pc = "suffixText"
  /\ Write(CString(suffixArray))
  /\ Goto(IF kind = "console" THEN "footerColorEnd" ELSE "terminate")
  /\ UNCHANGED <<settings, environment, m_invisibleCharacterCount, suffixArray,
                 padding, printed, failed, values>>

FooterColorEnd ==
  /\ pc = "footerColorEnd"
  /\ ResetColor
  /\ Goto("terminate")
  /\ UNCHANGED <<settings, environment, suffixArray, padding, printed, failed, values>>

\* Mutant: flushLog relies on the terminator that writeFormatted has left.
TerminateNot ==
  /\ pc = "terminate"
  /\ Goto("print")
  /\ UNCHANGED <<settings, environment, m_content, m_invisibleCharacterCount,
                 suffixArray, padding, printed, written, failed, values>>

\* flushLog adds the terminal null character through operator[].
Terminate ==
  /\ pc = "terminate"
  /\ m_content' = StoreAt(Resize(m_content, Size(m_content) + 1), Size(m_content), <<Nul>>)
  /\ Goto("print")
  /\ UNCHANGED <<settings, environment, m_invisibleCharacterCount, suffixArray,
                 padding, printed, written, failed, values>>

\* StreamLogContextAbstract::write
PrintLine ==
  /\ pc = "print"
  /\ printed' = CString(m_content)
  /\ Goto("done")
  /\ UNCHANGED <<settings, environment, m_content, m_invisibleCharacterCount,
                 suffixArray, padding, written, failed, values>>

-----------------------------------------------------------------------------
(***************************************************************************)
(* The other threads and the terminal                                      *)
(***************************************************************************)

Changing ==
  /\ pc \notin {"done", "threw"} /\ changes < MaxChanges
  /\ changes' = changes + 1
  /\ changed' = TRUE
  /\ UNCHANGED <<settings, pc, m_content, m_invisibleCharacterCount, suffixArray,
                 padding, printed, written, failed, values>>

\* setLogLevel, setGlobalLogLevel
ChangeLevel == Changing /\ enabled' = ~enabled /\ UNCHANGED consoleWidth

\* The answer of TIOCGWINSZ changes.
ResizeTerminal == Changing /\ consoleWidth' \in Widths /\ UNCHANGED enabled

Done == pc \in {"done", "threw"} /\ UNCHANGED vars

Next ==
  \/ InitData \/ PrefixColor \/ WritePrefix \/ PrefixColorEnd
  \/ WriteValue \/ WriteValueFails
  \/ FlushLog \/ FooterColor \/ GetSuffix \/ Measure \/ LineBreak \/ MeasureAgain
  \/ Pad \/ EndPad \/ WriteSuffix \/ FooterColorEnd \/ Terminate \/ PrintLine
  \/ ChangeLevel \/ ResizeTerminal
  \/ Done

Spec == Init /\ [][Next]_vars

-----------------------------------------------------------------------------
(***************************************************************************)
(* Properties                                                              *)
(***************************************************************************)

ByteArrays ==
  [usesStaticBuffer : BOOLEAN, data : Seq(Cells), m_length : Nat \cup {NotRelevant},
   vectorSize : Nat]

\* Types of the parts of an entry; the size of a ByteArray stays within the
\* cells it has, and padding never becomes negative.
TypeOK ==
  /\ kind \in {"console", "file"}
  /\ m_colorSupport \in BOOLEAN /\ m_enableThreadInfo \in BOOLEAN
  /\ enabled \in BOOLEAN /\ consoleWidth \in Nat
  /\ pc \in {"init", "color", "prefix", "colorEnd", "open", "footerColor",
             "suffix", "measure", "lineBreak", "measureAgain", "pad",
             "suffixText", "footerColorEnd", "terminate", "print", "done", "threw"}
  /\ m_content \in ByteArrays /\ Size(m_content) <= Len(getData(m_content))
  /\ suffixArray \in ByteArrays /\ Size(suffixArray) <= Len(getData(suffixArray))
  /\ m_invisibleCharacterCount \in Nat /\ padding \in Nat
  /\ printed \in Seq(Cells) /\ written \in Seq(Cells)
  /\ failed \in BOOLEAN /\ changed \in BOOLEAN
  /\ values \in Nat /\ changes \in Nat

\* The ByteArray is the plain sequence of what was written into it, also after
\* it has moved from the fixed array to the vector, as long as snprintf does
\* not fail ("a vector-like class").
ContentIsWritten ==
  pc \notin {"print", "done"} /\ ~failed => Contents(m_content) = written

\* What is printed is what was written: the C string ends where the text ends,
\* whatever the level did between the writes.
PrintedWhole == printed # NotPrinted /\ ~failed => printed = written

\* The assertion in operator[] holds for the cell of the terminator.
AssertionsHold ==
  pc = "terminate" =>
    IndexAllowed(Resize(m_content, Size(m_content) + 1), Size(m_content))

VisibleCells(s) == Cardinality({i \in 1 .. Len(s) : s[i] \in {"visible", "blank"}})

Newlines(s) == {i \in 1 .. Len(s) : s[i] = "newline"}

Last(S) == IF S = {} THEN 0 ELSE CHOOSE i \in S : \A j \in S : j <= i

\* The line that holds the suffix, without its newline.
SuffixLine(s) ==
  LET end   == Last(Newlines(s))
      begin == Last(Newlines(s) \ {end})
  IN  SubSeq(s, begin + 1, end - 1)

\* If nothing changes during the entry, the suffix of a console line ends at the
\* right edge of the terminal (of DEFAULT_WIDTH columns without a terminal):
\* on the line of the text if both fit, else on one of its own; escape
\* sequences take no columns.
SuffixAligned ==
  kind = "console" /\ printed # NotPrinted /\ ~changed /\ ~failed =>
    LET width  == IF consoleWidth = 0 THEN DEFAULT_WIDTH ELSE consoleWidth
        suffix == SuffixLength + IF m_enableThreadInfo THEN ThreadSuffixLength ELSE 0
        columns == VisibleCells(SuffixLine(printed))
    IN  IF Cardinality(Newlines(printed)) = 1
        THEN columns = width - 1
        ELSE /\ VisibleCells(SubSeq(printed, 1, Last(Newlines(printed) \ {Last(Newlines(printed))})))
                  + suffix + 1 > width
             /\ columns = Larger(consoleWidth - 1, suffix)
=============================================================================
