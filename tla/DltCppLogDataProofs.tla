------------------------- MODULE DltCppLogDataProofs -------------------------
(***************************************************************************)
(* DltCppLogData for every buffer size and every set of inputs: the writes *)
(* stay inside m_content, the message is decodable, the marker is last and *)
(* no loss in write() goes unmarked.                                       *)
(***************************************************************************)
EXTENDS DltCppLogData, TLAPS

\* What every write operation keeps of a buffer.
Shape(b) == Bounded(b) /\ Contiguous(b) /\ MarkerLast(b)

Good(b) == Shape(b) /\ LossMarked(b)

Inv ==
  /\ TypeOK
  /\ Good(buf)
  /\ entry = "sent" => wire.len = HeadersSize + buf.contentSize

USE DEF FormatError, SizeofTypeInfo, SizeofStringLength, MessageTooLargeSize,
        MaxContentSize, StringOverhead, ArgsCountModulus, LengthModulus,
        HeadersSize

-----------------------------------------------------------------------------
(***************************************************************************)
(* The buffer operations                                                   *)
(***************************************************************************)

\* Appending an argument keeps the types and lays it out behind the others.
LEMMA AppendLayout ==
  ASSUME NEW b \in Buffer, Contiguous(b),
         NEW kind \in Kinds, NEW bytes \in Nat
  PROVE  LET c == AppendArgument(b, kind, bytes)
         IN  /\ c \in Buffer
             /\ Contiguous(c)
             /\ c.contentSize = b.contentSize + bytes
             /\ c.isFull = b.isFull
             /\ c.lost = b.lost
             /\ Len(c.args) = Len(b.args) + 1
             /\ \A i \in 1 .. Len(b.args) : c.args[i] = b.args[i]
             /\ c.args[Len(c.args)].kind = kind
  <1> DEFINE a == [kind |-> kind, at |-> b.contentSize, size |-> bytes]
             c == AppendArgument(b, kind, bytes)
  <1>1. a \in Argument
    BY DEF Buffer, Argument
  <1>2. /\ b.args \in Seq(Argument)
        /\ b.contentSize \in Nat
        /\ b.argsCount \in 0 .. 255
        /\ b.isFull \in BOOLEAN
        /\ b.lost \in SUBSET Kinds
    BY DEF Buffer
  <1>3. /\ c.args = Append(b.args, a)
        /\ c.contentSize = b.contentSize + bytes
        /\ c.argsCount = (b.argsCount + 1) % 256
        /\ c.isFull = b.isFull
        /\ c.lost = b.lost
    BY DEF AppendArgument, Buffer
  <1>4. /\ c.args \in Seq(Argument)
        /\ Len(c.args) = Len(b.args) + 1
        /\ \A i \in 1 .. Len(b.args) : c.args[i] = b.args[i]
        /\ c.args[Len(b.args) + 1] = a
    BY <1>1, <1>2, <1>3
  <1>5. (b.argsCount + 1) % 256 \in 0 .. 255
    <2>1. \A n \in 0 .. 255 : (n + 1) % 256 \in 0 .. 255
      OBVIOUS
    <2>2. QED
      BY <2>1, <1>2
  <1>6. c \in Buffer
    <2>1. /\ b.contentSize + bytes \in Nat
          /\ Append(b.args, a) \in Seq(Argument)
      BY <1>1, <1>2
    <2>2. c = [b EXCEPT !.contentSize = b.contentSize + bytes,
                        !.argsCount = (b.argsCount + 1) % 256,
                        !.args = Append(b.args, a)]
      BY DEF AppendArgument
    <2> HIDE DEF a, c
    <2>3. ASSUME NEW n \in Nat, NEW k \in 0 .. 255, NEW s \in Seq(Argument)
          PROVE  [b EXCEPT !.contentSize = n, !.argsCount = k, !.args = s]
                   \in Buffer
      BY DEF Buffer
    <2>4. QED
      BY <2>1, <2>2, <2>3, <1>5
  <1>7. Contiguous(c)
    <2>1. c.args # << >>
      BY <1>2, <1>4
    <2>2. ArgumentEnd(c.args[Len(c.args)]) = c.contentSize
      BY <1>2, <1>3, <1>4 DEF ArgumentEnd
    <2>3. c.args[1].at = 0
      <3>1. CASE b.args = << >>
        BY <3>1, <1>2, <1>4 DEF Contiguous
      <3>2. CASE b.args # << >>
        <4>1. 1 \in 1 .. Len(b.args)
          BY <3>2, <1>2
        <4>2. QED
          BY <4>1, <3>2, <1>4 DEF Contiguous
      <3>3. QED
        BY <3>1, <3>2
    <2>4. ASSUME NEW i \in 1 .. Len(c.args) - 1
          PROVE  c.args[i + 1].at = ArgumentEnd(c.args[i])
      <3>1. CASE i = Len(b.args)
        <4>1. b.args # << >> /\ i \in 1 .. Len(b.args)
          BY <3>1, <1>2
        <4>2. c.args[i] = b.args[Len(b.args)] /\ c.args[i + 1] = a
          BY <3>1, <4>1, <1>4
        <4>3. QED
          BY <4>1, <4>2 DEF Contiguous
      <3>2. CASE i # Len(b.args)
        <4>1. i \in 1 .. Len(b.args) - 1 /\ i + 1 \in 1 .. Len(b.args)
          BY <3>2, <1>2, <1>4
        <4>2. c.args[i] = b.args[i] /\ c.args[i + 1] = b.args[i + 1]
          BY <4>1, <1>2, <1>4
        <4>3. QED
          BY <4>1, <4>2 DEF Contiguous
      <3>3. QED
        BY <3>1, <3>2
    <2>5. QED
      BY <2>1, <2>2, <2>3, <2>4 DEF Contiguous
  <1>8. QED
    BY <1>3, <1>4, <1>6, <1>7

\* An argument that fits keeps the shape of a buffer that is not full.
LEMMA AppendFits ==
  ASSUME NEW b \in Buffer, Shape(b), ~b.isFull,
         NEW kind \in Kinds \ {"truncated"}, NEW bytes \in Nat,
         b.contentSize + bytes <= MaxContentSize
  PROVE  LET c == AppendArgument(b, kind, bytes)
         IN  c \in Buffer /\ Shape(c) /\ ~c.isFull /\ c.lost = b.lost
  <1> DEFINE c == AppendArgument(b, kind, bytes)
  <1>1. /\ c \in Buffer
        /\ Contiguous(c)
        /\ c.contentSize = b.contentSize + bytes
        /\ c.isFull = b.isFull
        /\ c.lost = b.lost
        /\ Len(c.args) = Len(b.args) + 1
        /\ \A i \in 1 .. Len(b.args) : c.args[i] = b.args[i]
        /\ c.args[Len(c.args)].kind = kind
    BY AppendLayout DEF Shape
  <1> HIDE DEF c
  <1>2. Bounded(c)
    BY <1>1, SizeAssumption DEF Bounded, Buffer
  <1>3. MarkerLast(c)
    <2>1. Len(b.args) \in Nat
      BY DEF Buffer
    <2>2. ASSUME NEW i \in 1 .. Len(c.args)
          PROVE  c.args[i].kind # "truncated"
      <3>1. CASE i = Len(c.args)
        BY <3>1, <1>1
      <3>2. CASE i # Len(c.args)
        <4>1. i \in 1 .. Len(b.args) /\ c.args[i] = b.args[i]
          BY <3>2, <1>1, <2>1
        <4>2. QED
          BY <4>1 DEF Shape, MarkerLast
      <3>3. QED
        BY <3>1, <3>2
    <2>3. QED
      BY <2>2, <1>1 DEF MarkerLast
  <1>4. QED
    BY <1>1, <1>2, <1>3 DEF Shape, c

\* The marker always finds its reserve.
LEMMA IndicationFits ==
  ASSUME NEW b \in Buffer, Shape(b)
  PROVE  LET c == AddMessageTooLargeIndication(b)
         IN  c \in Buffer /\ Good(c) /\ c.isFull
  <1> DEFINE c == AddMessageTooLargeIndication(b)
             d == AppendArgument(b, "truncated", MessageTooLargeSize)
  <1>1. CASE b.isFull
    <2>1. c = b
      BY <1>1 DEF AddMessageTooLargeIndication
    <2>2. QED
      BY <1>1, <2>1 DEF Good, LossMarked
  <1>2. CASE ~b.isFull
    <2>1. /\ d \in Buffer
          /\ Contiguous(d)
          /\ d.contentSize = b.contentSize + 18
          /\ Len(d.args) = Len(b.args) + 1
          /\ \A i \in 1 .. Len(b.args) : d.args[i] = b.args[i]
          /\ d.args[Len(d.args)].kind = "truncated"
      BY AppendLayout DEF Shape, Kinds
    <2>2. c = [d EXCEPT !.isFull = TRUE]
      BY <1>2 DEF AddMessageTooLargeIndication
    <2> HIDE DEF d, c
    <2>3. /\ c \in Buffer
          /\ c.isFull = TRUE
          /\ c.contentSize = d.contentSize
          /\ c.args = d.args
          /\ c.lost = d.lost
      BY <2>1, <2>2 DEF Buffer
    <2>4. Contiguous(c)
      BY <2>1, <2>3 DEF Contiguous
    <2>5. Bounded(c)
      BY <2>1, <2>3, <1>2, SizeAssumption DEF Bounded, Buffer, Shape
    <2>6. MarkerLast(c)
      <3>1. Len(b.args) \in Nat /\ d.args \in Seq(Argument)
        BY <2>1 DEF Buffer
      <3>2. ASSUME NEW i \in 1 .. Len(c.args), c.args[i].kind = "truncated"
            PROVE  i = Len(c.args)
        <4>1. SUFFICES ASSUME i # Len(c.args) PROVE FALSE
          OBVIOUS
        <4>2. i \in 1 .. Len(b.args) /\ c.args[i] = b.args[i]
          BY <4>1, <2>1, <2>3, <3>1
        <4>3. QED
          BY <4>2, <3>2, <1>2 DEF Shape, MarkerLast
      <3>3. c.args # << >>
        BY <2>1, <2>3, <3>1
      <3>4. QED
        BY <3>2, <3>3, <2>1, <2>3 DEF MarkerLast
    <2>7. QED
      BY <2>3, <2>4, <2>5, <2>6 DEF Good, Shape, LossMarked, c
  <1>3. QED
    BY <1>1, <1>2 DEF Buffer

\* The space a buffer offers is really there, and a full buffer offers none.
LEMMA SpaceIsThere ==
  ASSUME NEW b \in Buffer, NEW info \in Nat
  PROVE  /\ GetAvailableSpace(b, info) \in Nat
         /\ GetAvailableSpace(b, info) > 0 =>
              /\ ~b.isFull
              /\ b.contentSize + info + GetAvailableSpace(b, info) = MaxContentSize
  BY SizeAssumption DEF GetAvailableSpace, Buffer

\* Noting a loss changes nothing that the program sees.
LEMMA LostKeepsShape ==
  ASSUME NEW b \in Buffer, Shape(b), NEW kind \in Kinds
  PROVE  LET c == Lost(b, kind)
         IN  /\ c \in Buffer /\ Shape(c) /\ c.isFull = b.isFull
             /\ c.lost = b.lost \cup {kind}
  <1> DEFINE c == Lost(b, kind)
  <1>1. /\ c \in Buffer
        /\ c.isFull = b.isFull
        /\ c.contentSize = b.contentSize
        /\ c.args = b.args
        /\ c.lost = b.lost \cup {kind}
    BY DEF Lost, Buffer
  <1> HIDE DEF c
  <1>2. Shape(c)
    BY <1>1 DEF Shape, Bounded, Contiguous, MarkerLast
  <1>3. QED
    BY <1>1, <1>2 DEF c

-----------------------------------------------------------------------------
(***************************************************************************)
(* The write operations                                                    *)
(***************************************************************************)

\* writeWithTypeInfo keeps a good buffer good.
LEMMA ValueKeepsGood ==
  ASSUME NEW b \in Buffer, Good(b), NEW n \in Nat
  PROVE  WriteWithTypeInfo(b, n) \in Buffer /\ Good(WriteWithTypeInfo(b, n))
  <1> DEFINE c == CheckOverflow(b, n + SizeofTypeInfo)
             w == WriteWithTypeInfo(b, n)
  <1>1. Shape(b) /\ LossMarked(b)
    BY DEF Good
  <1>2. CASE b.isFull
    <2>1. c = b
      BY <1>2 DEF CheckOverflow
    <2>2. w = Lost(b, "value")
      BY <2>1, <1>2 DEF WriteWithTypeInfo
    <2>3. QED
      BY <2>2, <1>1, <1>2, LostKeepsShape DEF Good, LossMarked, Kinds
  <1>3. CASE ~b.isFull /\ GetAvailableSpace(b, n + SizeofTypeInfo) = 0
    <2>1. c = AddMessageTooLargeIndication(b)
      BY <1>3 DEF CheckOverflow
    <2>2. c \in Buffer /\ Good(c) /\ c.isFull
      BY <2>1, <1>1, IndicationFits
    <2>3. w = Lost(c, "value")
      BY <2>2 DEF WriteWithTypeInfo
    <2> HIDE DEF c, w
    <2>4. QED
      BY <2>2, <2>3, LostKeepsShape DEF Good, LossMarked, Kinds, w
  <1>4. CASE ~b.isFull /\ GetAvailableSpace(b, n + SizeofTypeInfo) # 0
    <2>1. c = b
      BY <1>4 DEF CheckOverflow
    <2>2. w = AppendArgument(b, "value", n + SizeofTypeInfo)
      BY <2>1, <1>4 DEF WriteWithTypeInfo
    <2>3. b.contentSize + (n + SizeofTypeInfo) <= MaxContentSize
      <3>1. b.contentSize \in Nat
        BY DEF Buffer
      <3>2. /\ GetAvailableSpace(b, n + SizeofTypeInfo) \in Nat
            /\ GetAvailableSpace(b, n + SizeofTypeInfo) > 0 =>
                 b.contentSize + (n + SizeofTypeInfo)
                   + GetAvailableSpace(b, n + SizeofTypeInfo) = MaxContentSize
        BY SpaceIsThere
      <3>3. QED
        BY <3>1, <3>2, <1>4, SizeAssumption
    <2>4. w \in Buffer /\ Shape(w) /\ ~w.isFull /\ w.lost = b.lost
      BY <2>2, <2>3, <1>1, <1>4, AppendFits DEF Kinds
    <2>5. QED
      BY <2>4, <1>1, <1>4 DEF Good, LossMarked
  <1>5. QED
    BY <1>2, <1>3, <1>4

\* write of a string keeps a good buffer good.
LEMMA StringKeepsGood ==
  ASSUME NEW b \in Buffer, Good(b), NEW n \in Nat
  PROVE  WriteString(b, n) \in Buffer /\ Good(WriteString(b, n))
  <1> DEFINE available == GetAvailableSpace(b, StringOverhead)
             space  == Smaller(n, available)
             stored == IF space > 0
                       THEN AppendArgument(b, "string", StringOverhead + space)
                       ELSE b
             w == WriteString(b, n)
  <1>1. Shape(b) /\ LossMarked(b)
    BY DEF Good
  <1>2. /\ available \in Nat
        /\ available > 0 => /\ ~b.isFull
                            /\ b.contentSize + StringOverhead + available
                                 = MaxContentSize
    BY SpaceIsThere
  <1>3. /\ space \in Nat /\ space <= available /\ space <= n
        /\ space = n \/ space = available
    BY <1>2 DEF Smaller
  <1>4. w = IF space < n
            THEN AddMessageTooLargeIndication(Lost(stored, "string"))
            ELSE stored
    BY DEF WriteString
  <1>5. /\ stored \in Buffer /\ Shape(stored)
        /\ b.isFull => stored.isFull
        /\ stored.lost = b.lost
    <2>1. CASE space > 0
      <3> HIDE DEF available, space
      <3>1. /\ ~b.isFull /\ StringOverhead + space \in Nat
            /\ b.contentSize + (StringOverhead + space) <= MaxContentSize
        BY <2>1, <1>2, <1>3, SizeAssumption DEF Buffer
      <3>2. stored = AppendArgument(b, "string", StringOverhead + space)
        BY <2>1
      <3>3. "string" \in Kinds \ {"truncated"}
        BY DEF Kinds
      <3>4. stored \in Buffer /\ Shape(stored) /\ stored.lost = b.lost
        BY <3>1, <3>2, <3>3, <1>1, AppendFits
      <3>5. QED
        BY <3>1, <3>4
    <2>2. CASE ~(space > 0)
      BY <2>2, <1>1
    <2>3. QED
      BY <2>1, <2>2
  <1> HIDE DEF available, space, stored, w
  <1>6. CASE space < n
    <2>1. Lost(stored, "string") \in Buffer /\ Shape(Lost(stored, "string"))
      BY <1>5, LostKeepsShape DEF Kinds
    <2>2. QED
      BY <2>1, <1>4, <1>6, IndicationFits DEF w
  <1>7. CASE ~(space < n)
    BY <1>7, <1>1, <1>4, <1>5 DEF Good, LossMarked, w
  <1>8. QED
    BY <1>6, <1>7

\* writeFormatted keeps a good buffer good.
LEMMA FormattedKeepsGood ==
  ASSUME NEW b \in Buffer, Good(b), NEW r \in Nat \cup {FormatError}
  PROVE  WriteFormatted(b, r) \in Buffer /\ Good(WriteFormatted(b, r))
  <1> DEFINE space    == GetAvailableSpace(b, StringOverhead)
             inBuffer == IF r = FormatError THEN 0 ELSE Smaller(r + 1, space)
             bytes    == SizeofTypeInfo + SizeofStringLength + inBuffer
             stored   == IF space > 0
                         THEN AppendArgument(b, "formatted", bytes)
                         ELSE b
             cut      == space = 0 \/ inBuffer < r + 1 \/ r = FormatError
             noted    == IF cut THEN Lost(stored, "formatted") ELSE stored
             overflow == space = 0 \/ r = FormatError \/ space < r
             w == WriteFormatted(b, r)
  <1>1. Shape(b) /\ LossMarked(b)
    BY DEF Good
  <1>2. /\ space \in Nat
        /\ space > 0 => /\ ~b.isFull
                        /\ b.contentSize + StringOverhead + space = MaxContentSize
    BY SpaceIsThere
  <1>3. inBuffer \in Nat /\ inBuffer <= space
    BY <1>2 DEF Smaller
  <1>4. w = IF overflow THEN AddMessageTooLargeIndication(noted) ELSE noted
    BY DEF WriteFormatted
  <1>5. /\ stored \in Buffer /\ Shape(stored)
        /\ b.isFull => stored.isFull
        /\ stored.lost = b.lost
    <2>1. CASE space > 0
      <3> HIDE DEF space, inBuffer
      <3>1. /\ ~b.isFull /\ bytes \in Nat
            /\ b.contentSize + bytes <= MaxContentSize
        BY <2>1, <1>2, <1>3, SizeAssumption DEF Buffer
      <3>2. stored = AppendArgument(b, "formatted", bytes)
        BY <2>1
      <3>3. "formatted" \in Kinds \ {"truncated"}
        BY DEF Kinds
      <3>4. stored \in Buffer /\ Shape(stored) /\ stored.lost = b.lost
        BY <3>1, <3>2, <3>3, <1>1, AppendFits
      <3>5. QED
        BY <3>1, <3>4
    <2>2. CASE ~(space > 0)
      BY <2>2, <1>1
    <2>3. QED
      BY <2>1, <2>2
  <1> HIDE DEF space, inBuffer, stored
  <1>6. /\ noted \in Buffer /\ Shape(noted)
        /\ b.isFull => noted.isFull
        /\ noted.lost \ {"formatted"} = b.lost \ {"formatted"}
    BY <1>5, LostKeepsShape DEF Kinds
  <1> HIDE DEF noted, overflow, w
  <1>7. CASE overflow
    BY <1>4, <1>6, <1>7, IndicationFits DEF w
  <1>8. CASE ~overflow
    BY <1>8, <1>1, <1>4, <1>6 DEF Good, LossMarked, w
  <1>9. QED
    BY <1>7, <1>8

\* What the destructor appends keeps a good buffer good.
LEMMA MetadataKeepsGood ==
  ASSUME NEW b \in Buffer, Good(b),
         NEW file \in Nat, NEW hasLine \in BOOLEAN,
         NEW function \in Nat, NEW name \in Nat
  PROVE  LET c == AppendMetadata(b, file, hasLine, function, name)
         IN  c \in Buffer /\ Good(c)
  <1> DEFINE s1 == WriteString(b, 54)
             s2 == WriteString(s1, file)
             s3 == IF hasLine THEN WriteWithTypeInfo(s2, 4) ELSE s2
             s4 == WriteString(s3, function)
             s  == IF metadata.sourceInfo THEN s4 ELSE b
             t1 == WriteString(s, 8)
             t2 == WriteWithTypeInfo(t1, 4)
             t3 == WriteString(t2, name)
             t  == IF metadata.threadInfo THEN t3 ELSE s
  <1>1. AppendMetadata(b, file, hasLine, function, name) = t
    BY DEF AppendMetadata, AppendSourceInfo, AppendThreadInfo
  <1>2. s1 \in Buffer /\ Good(s1)
    BY StringKeepsGood
  <1> HIDE DEF s1
  <1>3. s2 \in Buffer /\ Good(s2)
    BY <1>2, StringKeepsGood
  <1> HIDE DEF s2
  <1>4. s3 \in Buffer /\ Good(s3)
    BY <1>3, ValueKeepsGood
  <1> HIDE DEF s3
  <1>5. s4 \in Buffer /\ Good(s4)
    BY <1>4, StringKeepsGood
  <1> HIDE DEF s4
  <1>6. s \in Buffer /\ Good(s)
    BY <1>5
  <1> HIDE DEF s
  <1>7. t1 \in Buffer /\ Good(t1)
    BY <1>6, StringKeepsGood
  <1> HIDE DEF t1
  <1>8. t2 \in Buffer /\ Good(t2)
    BY <1>7, ValueKeepsGood
  <1> HIDE DEF t2
  <1>9. t3 \in Buffer /\ Good(t3)
    BY <1>8, StringKeepsGood
  <1> HIDE DEF t3
  <1>10. t \in Buffer /\ Good(t)
    BY <1>6, <1>9
  <1>11. QED
    BY <1>1, <1>10

-----------------------------------------------------------------------------
(***************************************************************************)
(* The inductive invariant                                                 *)
(***************************************************************************)

\* A DltCppLogData starts with a good buffer.
LEMMA EmptyIsGood == EmptyBuffer \in Buffer /\ Good(EmptyBuffer)
  <1>1. EmptyBuffer \in Buffer
    <2>1. 0 \in Nat /\ 0 \in 0 .. 255 /\ << >> \in Seq(Argument)
      OBVIOUS
    <2>2. QED
      BY <2>1 DEF EmptyBuffer, Buffer
  <1>2. Good(EmptyBuffer)
    BY SizeAssumption DEF EmptyBuffer, Good, Shape, Bounded, Contiguous,
                          MarkerLast, LossMarked
  <1>3. QED
    BY <1>1, <1>2

\* The last argument of a well laid out buffer ends at m_contentSize.
LEMMA ContentEnd ==
  ASSUME NEW b \in Buffer, Contiguous(b)
  PROVE  b.contentSize = IF b.args = << >> THEN 0
                         ELSE ArgumentEnd(b.args[Len(b.args)])
  BY DEF Contiguous

\* The inductive invariant holds before the first entry.
LEMMA InitInv == Init => Inv
  <1> SUFFICES ASSUME Init PROVE Inv
    OBVIOUS
  <1>1. wire \in [noar : Nat, len : Nat]
    BY DEF Init, NoMessage
  <1>2. TypeOK
    BY <1>1, EmptyIsGood, Zenon DEF Init, TypeOK
  <1>3. Good(buf) /\ entry # "sent"
    BY EmptyIsGood DEF Init
  <1>4. QED
    BY <1>2, <1>3 DEF Inv

\* Every step of the life of an entry keeps the inductive invariant.
LEMMA NextInv == Inv /\ [Next]_vars => Inv'
  <1> SUFFICES ASSUME Inv, [Next]_vars PROVE Inv'
    OBVIOUS
  <1> USE DEF Inv, TypeOK
  <1>1. CASE InitEntry
    BY <1>1, EmptyIsGood DEF InitEntry, NoMessage
  <1>2. CASE StreamValue
    <2>1. PICK n \in ValueSizes : Stream(WriteWithTypeInfo(buf, n))
      BY <1>2 DEF StreamValue
    <2>2. n \in Nat
      BY InputAssumption
    <2>3. buf' \in Buffer /\ Good(buf')
      BY <2>1, <2>2, ValueKeepsGood DEF Stream
    <2>4. QED
      BY <2>1, <2>3 DEF Stream
  <1>3. CASE StreamString
    <2>1. PICK n \in StringLengths : Stream(WriteString(buf, n))
      BY <1>3 DEF StreamString
    <2>2. n \in Nat
      BY InputAssumption
    <2>3. buf' \in Buffer /\ Good(buf')
      BY <2>1, <2>2, StringKeepsGood DEF Stream
    <2>4. QED
      BY <2>1, <2>3 DEF Stream
  <1>4. CASE StreamFormatted
    <2>1. PICK r \in FormatResults : Stream(WriteFormatted(buf, r))
      BY <1>4 DEF StreamFormatted
    <2>2. r \in Nat \cup {FormatError}
      BY InputAssumption
    <2>3. buf' \in Buffer /\ Good(buf')
      BY <2>1, <2>2, FormattedKeepsGood DEF Stream
    <2>4. QED
      BY <2>1, <2>3 DEF Stream
  <1>5. CASE DestroyEnabled
    <2>1. PICK file \in StringLengths, function \in StringLengths,
               name \in StringLengths, hasLine \in BOOLEAN :
            buf' = AppendMetadata(buf, file, hasLine, function, name)
      BY <1>5 DEF DestroyEnabled
    <2>2. file \in Nat /\ function \in Nat /\ name \in Nat
      BY InputAssumption
    <2>3. buf' \in Buffer /\ Good(buf')
      BY <2>1, <2>2, MetadataKeepsGood
    <2>4. /\ buf'.contentSize \in Nat
          /\ buf'.argsCount \in Nat
          /\ HeadersSize + buf'.contentSize < LengthModulus
      <3>1. /\ buf'.contentSize \in Nat /\ buf'.argsCount \in 0 .. 255
            /\ buf'.contentSize <= MaxMessageSize
        BY <2>3 DEF Good, Shape, Bounded, Buffer
      <3>2. QED
        BY <3>1, SizeAssumption
    <2>5. wire' = [noar |-> buf'.argsCount, len |-> HeadersSize + buf'.contentSize]
      BY <1>5, <2>4 DEF DestroyEnabled, SendLog
    <2>6. QED
      BY <1>5, <2>3, <2>4, <2>5 DEF DestroyEnabled
  <1>6. CASE DestroyDisabled
    BY <1>6 DEF DestroyDisabled
  <1>7. CASE UNCHANGED vars
    BY <1>7 DEF vars
  <1>8. QED
    BY <1>1, <1>2, <1>3, <1>4, <1>5, <1>6, <1>7 DEF Next

\* The inductive invariant holds in every state of DltCppLogData.
LEMMA Invariant == Spec => []Inv
  BY InitInv, NextInv, PTL DEF Spec

\* The types of the fields of DltCppLogData and of the header it sends.
THEOREM TypesCorrect == Spec => []TypeOK
  <1>1. Inv => TypeOK
    BY DEF Inv
  <1>2. QED
    BY <1>1, Invariant, PTL

\* For every buffer size and all inputs: no write leaves m_content.
THEOREM WritesStayInContent == Spec => []BufferBounds
  <1>1. Inv => BufferBounds
    BY DEF Inv, Good, Shape, BufferBounds
  <1>2. QED
    BY <1>1, Invariant, PTL

\* For every buffer size and all inputs: the message can be decoded argument
\* by argument.
THEOREM MessageIsDecodable == Spec => []LayoutContiguous
  <1>1. Inv => LayoutContiguous
    BY DEF Inv, Good, Shape, LayoutContiguous
  <1>2. QED
    BY <1>1, Invariant, PTL

\* For every buffer size and all inputs: the truncation marker is the last
\* argument of a full message and occurs nowhere else.
THEOREM MarkerComesLast == Spec => []MarkerIsLast
  <1>1. Inv => MarkerIsLast
    BY DEF Inv, Good, Shape, MarkerIsLast
  <1>2. QED
    BY <1>1, Invariant, PTL

\* For every buffer size and all inputs: write() never loses data silently.
THEOREM WritesLoseNothingSilently == Spec => []WriteLossIsMarked
  <1>1. Inv => WriteLossIsMarked
    BY DEF Inv, Good, WriteLossIsMarked
  <1>2. QED
    BY <1>1, Invariant, PTL

\* The header length of a sent message is the size of its headers and its
\* arguments: the sum never wraps at 16 bits.
THEOREM HeaderLengthIsExact == Spec => []WireLengthExact
  <1>1. Inv => WireLengthExact
    <2>1. SUFFICES ASSUME Inv PROVE WireLengthExact
      OBVIOUS
    <2>2. buf.contentSize = IF buf.args = << >> THEN 0
                            ELSE ArgumentEnd(buf.args[Len(buf.args)])
      BY <2>1, ContentEnd DEF Inv, TypeOK, Good, Shape
    <2>3. QED
      BY <2>1, <2>2 DEF Inv, WireLengthExact
  <1>2. QED
    BY <1>1, Invariant, PTL
=============================================================================
