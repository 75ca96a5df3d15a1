------------------------ MODULE IncomingMessagesProofs ------------------------
(***************************************************************************)
(* The decoding of the daemon's messages for every size of the buffer and  *)
(* any number of contexts: if one read() takes all that is in the FIFO, no *)
(* byte is read past the end, no request is forgotten and the byte stream  *)
(* implements LevelChannel.                                                *)
(***************************************************************************)
EXTENDS IncomingMessages, SequenceTheorems, TLAPS

\* What the decoding relies on: the array is as large as what the daemon leaves
\* unread, and there are fewer contexts than the model of LogLevelPos tells apart.
OneReadSuffices == MaxPending <= BufferSize /\ ContextCount <= 16777216

\* The integers whose fourth byte is 0.
Small == {n \in Nat : n < 16777216}

Request == [pos : Positions, level : Levels]

\* The message m is in s behind offset b.
Holds(s, b, m) == b + Len(m) <= Len(s) /\ \A k \in 1 .. Len(m) : s[b + k] = m[k]

StateAt(s, b) == Holds(s, b, StateMessage)
LevelAt(s, b, r) == Holds(s, b, LevelMessage(r.pos, r.level))

\* In the set B of the offsets at which messages begin, the one after b is b + n.
Following(B, b, n) == b + n \in B /\ \A c \in B : c <= b \/ c >= b + n

\* From offset "from" on, s is a sequence of messages that begin at the offsets B
\* and among which those at P[lo + 1], ..., P[hi] make the requests
\* q[lo + 1], ..., q[hi].
Parsed(s, from, q, lo, hi, B, P) ==
  /\ B \subseteq from .. Len(s) /\ from \in B /\ Len(s) \in B
  /\ \A b \in B : \/ b = Len(s)
                  \/ StateAt(s, b) /\ Following(B, b, 9)
                  \/ \E j \in lo + 1 .. hi : P[j] = b
  /\ \A j \in lo + 1 .. hi :
       P[j] \in B /\ LevelAt(s, P[j], q[j]) /\ Following(B, P[j], 14)
  /\ \A i, j \in lo + 1 .. hi : i < j => P[i] < P[j]

Coded(s, from, q, lo, hi) ==
  \E B \in SUBSET Nat, P \in [Nat -> Nat] : Parsed(s, from, q, lo, hi, B, P)

-----------------------------------------------------------------------------
(***************************************************************************)
(* The bytes of a message                                                  *)
(***************************************************************************)

\* A request fits into the three bytes that LogLevelPos tells apart.
LEMMA RequestType ==
  ASSUME NEW r \in Request, OneReadSuffices
  PROVE  r.pos \in Small /\ r.pos \in Positions /\ r.level \in Byte
BY SizesAssumption, SMT DEF Request, Positions, OneReadSuffices, Small

\* The first three bytes of an integer below 2 ^ 24 give it back.
LEMMA BytesGiveBack ==
  ASSUME NEW n \in Small
  PROVE  /\ (n % 256) + 256 * ((n \div 256) % 256) + 65536 * ((n \div 65536) % 256) = n
         /\ n \div 16777216 = 0
         /\ n % 256 \in Byte /\ (n \div 256) % 256 \in Byte /\ (n \div 65536) % 256 \in Byte
<1>1. n \in Nat /\ n < 16777216
  BY SMT DEF Small
<1>2. (n % 256) + 256 * ((n \div 256) % 256) + 65536 * ((n \div 65536) % 256) = n
  BY <1>1, SMT
<1>3. n \div 16777216 = 0
  BY <1>1, SMT
<1>4. n % 256 \in Byte /\ (n \div 256) % 256 \in Byte /\ (n \div 65536) % 256 \in Byte
  BY <1>1, SMT DEF Byte
<1> QED
  BY <1>2, <1>3, <1>4

\* The bytes of a message that is written in two parts.
LEMMA Concatenation ==
  ASSUME NEW s \in Seq(Byte), NEW t \in Seq(Byte)
  PROVE  /\ s \o t \in Seq(Byte) /\ Len(s \o t) = Len(s) + Len(t)
         /\ \A k \in 1 .. Len(s) + Len(t) :
              (s \o t)[k] = IF k <= Len(s) THEN s[k] ELSE t[k - Len(s)]
BY ConcatProperties

\* An integer below 2 ^ 24 in memory, and the header with such a message type.
LEMMA HeaderBytes ==
  ASSUME NEW n \in Small
  PROVE  /\ Bytes32(n) \in Seq(Byte) /\ Len(Bytes32(n)) = 4
         /\ Bytes32(n)[1] = n % 256 /\ Bytes32(n)[2] = (n \div 256) % 256
         /\ Bytes32(n)[3] = (n \div 65536) % 256 /\ Bytes32(n)[4] = 0
         /\ UserHeader(n) \in Seq(Byte) /\ Len(UserHeader(n)) = 8
         /\ UserHeader(n)[5] = n % 256 /\ UserHeader(n)[6] = (n \div 256) % 256
         /\ UserHeader(n)[7] = (n \div 65536) % 256 /\ UserHeader(n)[8] = 0
<1>1. Bytes32(n) = <<n % 256, (n \div 256) % 256, (n \div 65536) % 256, 0>>
  BY BytesGiveBack, SMT DEF Bytes32
<1>2. /\ Bytes32(n) \in Seq(Byte) /\ Len(Bytes32(n)) = 4
      /\ Bytes32(n)[1] = n % 256 /\ Bytes32(n)[2] = (n \div 256) % 256
      /\ Bytes32(n)[3] = (n \div 65536) % 256 /\ Bytes32(n)[4] = 0
  BY <1>1, BytesGiveBack, SMT DEF Byte
<1> DEFINE h == <<68, 85, 72, 1>>
           b == Bytes32(n)
<1>3. h \in Seq(Byte) /\ Len(h) = 4
  BY SMT DEF Byte
<1>4. UserHeader(n) = h \o b
  BY DEF UserHeader
<1>5. b \in Seq(Byte) /\ Len(b) = 4
  BY <1>2
<1> DEFINE u == h \o b
<1> HIDE DEF h, b
<1>6. /\ u \in Seq(Byte) /\ Len(u) = Len(h) + Len(b)
      /\ \A k \in 1 .. Len(h) + Len(b) : u[k] = IF k <= Len(h) THEN h[k] ELSE b[k - Len(h)]
  BY <1>3, <1>5, Concatenation
<1> HIDE DEF u
<1>7. Len(u) = 8 /\ u[5] = b[1] /\ u[6] = b[2] /\ u[7] = b[3] /\ u[8] = b[4]
  BY <1>3, <1>5, <1>6
<1> QED
  BY <1>2, <1>4, <1>6, <1>7 DEF b, u

\* Both message types have one byte that is not 0.
LEMMA SmallTypes ==
  /\ 12 \in Small /\ 12 % 256 = 12 /\ (12 \div 256) % 256 = 0 /\ (12 \div 65536) % 256 = 0
  /\ 6 \in Small /\ 6 % 256 = 6 /\ (6 \div 256) % 256 = 0 /\ (6 \div 65536) % 256 = 0
BY SMT DEF Small

\* The bytes of a state message that the reader looks at.
LEMMA StateBytes ==
  /\ StateMessage \in Seq(Byte) /\ Len(StateMessage) = 9
  /\ StateMessage[5] = 12 /\ StateMessage[6] = 0
  /\ StateMessage[7] = 0 /\ StateMessage[8] = 0
<1> DEFINE h == UserHeader(12)
           b == <<1>>
<1>1. b \in Seq(Byte) /\ Len(b) = 1
  BY SMT DEF Byte
<1>2. StateMessage = h \o b
  BY DEF StateMessage, LOG_STATE
<1>3. h \in Seq(Byte) /\ Len(h) = 8 /\ h[5] = 12 /\ h[6] = 0 /\ h[7] = 0 /\ h[8] = 0
  BY HeaderBytes, SmallTypes
<1> DEFINE u == h \o b
<1> HIDE DEF h, b
<1>4. /\ u \in Seq(Byte) /\ Len(u) = Len(h) + Len(b)
      /\ \A k \in 1 .. Len(h) + Len(b) : u[k] = IF k <= Len(h) THEN h[k] ELSE b[k - Len(h)]
  BY <1>1, <1>3, Concatenation
<1> HIDE DEF u
<1>5. Len(u) = 9 /\ u[5] = 12 /\ u[6] = 0 /\ u[7] = 0 /\ u[8] = 0
  BY <1>1, <1>3, <1>4
<1> QED
  BY <1>2, <1>4, <1>5 DEF u

\* The bytes of a level message that the reader looks at.
LevelLayout(m, p, l) ==
  /\ Len(m) = 14 /\ m[5] = 6 /\ m[6] = 0 /\ m[7] = 0 /\ m[8] = 0 /\ m[9] = l
  /\ m[11] = p % 256 /\ m[12] = (p \div 256) % 256
  /\ m[13] = (p \div 65536) % 256 /\ m[14] = 0

\* A level message is laid out as LevelLayout says.
LEMMA LevelBytes ==
  ASSUME NEW p \in Small, NEW l \in Byte
  PROVE  LevelMessage(p, l) \in Seq(Byte) /\ LevelLayout(LevelMessage(p, l), p, l)
<1> DEFINE h == UserHeader(6)
           b == <<l, 0>>
           c == Bytes32(p)
<1>1. b \in Seq(Byte) /\ Len(b) = 2 /\ b[1] = l
  BY SMT DEF Byte
<1>2. h \in Seq(Byte) /\ Len(h) = 8 /\ h[5] = 6 /\ h[6] = 0 /\ h[7] = 0 /\ h[8] = 0
  BY HeaderBytes, SmallTypes
<1>3. /\ c \in Seq(Byte) /\ Len(c) = 4 /\ c[1] = p % 256 /\ c[2] = (p \div 256) % 256
      /\ c[3] = (p \div 65536) % 256 /\ c[4] = 0
  BY HeaderBytes
<1> DEFINE g == h \o b
<1>4. LevelMessage(p, l) = g \o c
  BY DEF LevelMessage, LOG_LEVEL
<1> HIDE DEF h, b, c
<1>5. /\ g \in Seq(Byte) /\ Len(g) = Len(h) + Len(b)
      /\ \A k \in 1 .. Len(h) + Len(b) : g[k] = IF k <= Len(h) THEN h[k] ELSE b[k - Len(h)]
  BY <1>1, <1>2, Concatenation
<1> HIDE DEF g
<1>6. Len(g) = 10 /\ g[5] = 6 /\ g[6] = 0 /\ g[7] = 0 /\ g[8] = 0 /\ g[9] = l
  BY <1>1, <1>2, <1>5
<1> DEFINE m == g \o c
<1>s. g \in Seq(Byte) /\ c \in Seq(Byte)
  BY <1>3, <1>5
<1>7. /\ m \in Seq(Byte) /\ Len(m) = Len(g) + Len(c)
      /\ \A k \in 1 .. Len(g) + Len(c) : m[k] = IF k <= Len(g) THEN g[k] ELSE c[k - Len(g)]
  BY <1>s, Concatenation
<1> HIDE DEF m
<1>8. /\ Len(m) = 14
      /\ m[5] = 6 /\ m[6] = 0 /\ m[7] = 0 /\ m[8] = 0 /\ m[9] = l
      /\ m[11] = c[1] /\ m[12] = c[2] /\ m[13] = c[3] /\ m[14] = c[4]
  BY <1>3, <1>6, <1>7
<1> QED
  BY <1>3, <1>4, <1>7, <1>8 DEF m, LevelLayout

-----------------------------------------------------------------------------
(***************************************************************************)
(* What the reader sees of a message that is whole                         *)
(***************************************************************************)

\* A state message that is whole is read as one.
LEMMA ReadsState ==
  ASSUME buffer \in Seq(Byte), offset \in Nat, StateAt(buffer, offset)
  PROVE  HeaderAvailable /\ MessageType(<< >>) = LOG_STATE /\ offset + 9 <= Len(buffer)
<1> DEFINE m == StateMessage
<1>1. Len(m) = 9 /\ m[5] = 12 /\ m[6] = 0 /\ m[7] = 0 /\ m[8] = 0
  BY StateBytes
<1>2. Len(buffer) \in Nat
  OBVIOUS
<1>3. offset + Len(m) <= Len(buffer) /\ \A k \in 1 .. Len(m) : buffer[offset + k] = m[k]
  BY DEF StateAt, Holds
<1> HIDE DEF m
<1>4. /\ buffer[offset + 5] = 12 /\ buffer[offset + 6] = 0
      /\ buffer[offset + 7] = 0 /\ buffer[offset + 8] = 0
  BY <1>1, <1>3
<1>5. /\ ByteAt(4, << >>) = 12 /\ ByteAt(5, << >>) = 0
      /\ ByteAt(6, << >>) = 0 /\ ByteAt(7, << >>) = 0
  <2>1. \A k \in {4, 5, 6, 7} : ByteAt(k, << >>) = buffer[offset + k + 1]
    BY <1>1, <1>2, <1>3 DEF ByteAt
  <2> QED
    BY <1>4, <2>1
<1>6. MessageType(<< >>) = 12
  BY <1>5, SMT DEF MessageType, Smaller
<1> QED
  BY <1>1, <1>2, <1>3, <1>6 DEF HeaderAvailable, SizeofUserHeader, LOG_STATE

\* A level message that is whole gives back its request, whatever lies behind it.
LEMMA ReadsLevel ==
  ASSUME buffer \in Seq(Byte), offset \in Nat, OneReadSuffices,
         NEW r \in Request, LevelAt(buffer, offset, r)
  PROVE  /\ HeaderAvailable /\ MessageType(<< >>) = LOG_LEVEL
         /\ offset + 14 <= Len(buffer)
         /\ \A past : LogLevelPos(past) = r.pos /\ ByteAt(8, past) = r.level
<1> DEFINE m == LevelMessage(r.pos, r.level)
<1>1. r.pos \in Small /\ r.level \in Byte
  BY RequestType
<1>2. LevelLayout(m, r.pos, r.level)
  BY <1>1, LevelBytes
<1> USE DEF LevelLayout
<1>3. Len(buffer) \in Nat
  OBVIOUS
<1>4. offset + Len(m) <= Len(buffer) /\ \A k \in 1 .. Len(m) : buffer[offset + k] = m[k]
  BY DEF LevelAt, Holds
<1> HIDE DEF m
<1>5. \A past : \A k \in 0 .. 13 : ByteAt(k, past) = m[k + 1]
  <2> SUFFICES ASSUME NEW past, NEW k \in 0 .. 13
               PROVE  ByteAt(k, past) = m[k + 1]
    OBVIOUS
  <2>1. ByteAt(k, past) = buffer[offset + k + 1]
    BY <1>2, <1>3, <1>4 DEF ByteAt
  <2>2. k + 1 \in 1 .. Len(m) /\ offset + (k + 1) = offset + k + 1
    BY <1>2
  <2> QED
    BY <1>4, <2>1, <2>2
<1>6. \A past :
        /\ ByteAt(4, past) = 6 /\ ByteAt(5, past) = 0 /\ ByteAt(6, past) = 0
        /\ ByteAt(7, past) = 0 /\ ByteAt(8, past) = r.level
        /\ ByteAt(10, past) = r.pos % 256 /\ ByteAt(11, past) = (r.pos \div 256) % 256
        /\ ByteAt(12, past) = (r.pos \div 65536) % 256 /\ ByteAt(13, past) = 0
  BY <1>2, <1>5
<1>7. MessageType(<< >>) = 6
  BY <1>6, SMT DEF MessageType, Smaller
<1>8. \A past : LogLevelPos(past) = r.pos
  <2> DEFINE low == (r.pos % 256) + 256 * ((r.pos \div 256) % 256)
                      + 65536 * ((r.pos \div 65536) % 256)
  <2>1. low = r.pos /\ r.pos \in Nat
    BY <1>1, BytesGiveBack, SMT DEF Small
  <2>2. \A past : LogLevelPos(past) = low + 16777216 * Smaller(1, 0)
    BY <1>6, SMT DEF LogLevelPos
  <2> HIDE DEF low
  <2> QED
    BY <2>1, <2>2, SMT DEF Smaller
<1>9. offset + 14 <= Len(buffer) /\ offset + 8 < Len(buffer)
  BY <1>2, <1>3, <1>4
<1> QED
  BY <1>6, <1>7, <1>8, <1>9 DEF HeaderAvailable, SizeofUserHeader, LOG_LEVEL

-----------------------------------------------------------------------------
(***************************************************************************)
(* Sequences of messages                                                   *)
(***************************************************************************)

\* Without bytes there are no requests.
LEMMA CodedEmpty ==
  ASSUME NEW q, NEW lo \in Nat
  PROVE  Coded(<< >>, 0, q, lo, lo)
<1> DEFINE B == {0}
           P == [n \in Nat |-> 0]
<1>1. Parsed(<< >>, 0, q, lo, lo, B, P)
  BY SMT DEF Parsed
<1>2. B \in SUBSET Nat /\ P \in [Nat -> Nat]
  OBVIOUS
<1> QED
  BY <1>1, <1>2 DEF Coded

\* At the end no request is left.
LEMMA CodedEnd ==
  ASSUME NEW s \in Seq(Byte), NEW q, NEW lo \in Nat, NEW hi \in Nat, lo <= hi,
         Coded(s, Len(s), q, lo, hi)
  PROVE  lo = hi
<1>1. PICK B \in SUBSET Nat, P \in [Nat -> Nat] : Parsed(s, Len(s), q, lo, hi, B, P)
  BY DEF Coded
<1>2. Len(s) \in Nat
  OBVIOUS
<1> SUFFICES ASSUME lo < hi PROVE FALSE
  OBVIOUS
<1>3. lo + 1 \in lo + 1 .. hi
  OBVIOUS
<1>4. P[lo + 1] \in B /\ P[lo + 1] + 14 \in B
  BY <1>1, <1>3 DEF Parsed, Following
<1>5. B \subseteq Len(s) .. Len(s)
  BY <1>1 DEF Parsed
<1> QED
  BY <1>2, <1>4, <1>5

\* Later requests change nothing.
LEMMA CodedGrows ==
  ASSUME NEW s, NEW from, NEW lo \in Nat, NEW hi \in Nat,
         NEW q \in Seq(Request), NEW r \in Request, hi <= Len(q),
         Coded(s, from, q, lo, hi)
  PROVE  Coded(s, from, Append(q, r), lo, hi)
<1>1. PICK B \in SUBSET Nat, P \in [Nat -> Nat] : Parsed(s, from, q, lo, hi, B, P)
  BY DEF Coded
<1>2. \A j \in lo + 1 .. hi : Append(q, r)[j] = q[j]
  <2>1. \A j \in lo + 1 .. hi : j \in 1 .. Len(q)
    OBVIOUS
  <2> QED
    BY <2>1, AppendProperties
<1>3. Parsed(s, from, Append(q, r), lo, hi, B, P)
  BY <1>1, <1>2 DEF Parsed
<1> QED
  BY <1>3 DEF Coded

\* What is written later leaves a message where it is.
LEMMA HoldsKept ==
  ASSUME NEW s \in Seq(Byte), NEW t \in Seq(Byte), NEW b \in Nat, NEW m \in Seq(Byte),
         Holds(s, b, m)
  PROVE  Holds(s \o t, b, m)
<1>1. /\ Len(s \o t) = Len(s) + Len(t)
      /\ \A k \in 1 .. Len(s) + Len(t) :
           (s \o t)[k] = IF k <= Len(s) THEN s[k] ELSE t[k - Len(s)]
  BY Concatenation
<1> DEFINE u == s \o t
<1> HIDE DEF u
<1>2. Len(s) \in Nat /\ Len(t) \in Nat /\ Len(m) \in Nat
  OBVIOUS
<1>3. \A k \in 1 .. Len(m) : b + k \in 1 .. Len(s) + Len(t) /\ b + k <= Len(s)
  BY <1>2 DEF Holds
<1>4. \A k \in 1 .. Len(m) : u[b + k] = s[b + k]
  BY <1>1, <1>3, Zenon DEF u
<1>5. b + Len(m) <= Len(u)
  BY <1>1, <1>2 DEF Holds, u
<1> QED
  BY <1>4, <1>5 DEF Holds, u

\* A message that is written begins where the bytes ended before.
LEMMA HoldsNew ==
  ASSUME NEW s \in Seq(Byte), NEW t \in Seq(Byte)
  PROVE  Holds(s \o t, Len(s), t)
<1> DEFINE u == s \o t
<1>1. /\ Len(u) = Len(s) + Len(t)
      /\ \A k \in 1 .. Len(s) + Len(t) :
           u[k] = IF k <= Len(s) THEN s[k] ELSE t[k - Len(s)]
  BY Concatenation
<1> HIDE DEF u
<1>2. Len(s) \in Nat /\ Len(t) \in Nat
  OBVIOUS
<1>3. \A k \in 1 .. Len(t) : u[Len(s) + k] = t[k]
  BY <1>1, <1>2
<1> QED
  BY <1>1, <1>2, <1>3 DEF Holds, u

\* What is written later leaves the end of a message where it is.
LEMMA FollowingKept ==
  ASSUME NEW B \in SUBSET Nat, NEW b \in Nat, NEW n \in Nat, NEW e \in Nat, NEW f \in Nat,
         e <= f, \A c \in B : c <= e, Following(B, b, n)
  PROVE  Following(B \cup {f}, b, n)
BY DEF Following

\* The daemon writes a state message: the requests stay the same.
LEMMA AppendState ==
  ASSUME NEW s \in Seq(Byte), NEW from \in Nat, NEW q \in Seq(Request), OneReadSuffices,
         NEW lo \in Nat, NEW hi \in Nat, hi <= Len(q), Coded(s, from, q, lo, hi)
  PROVE  Coded(s \o StateMessage, from, q, lo, hi)
<1>1. PICK B \in SUBSET Nat, P \in [Nat -> Nat] : Parsed(s, from, q, lo, hi, B, P)
  BY DEF Coded
<1> DEFINE u == s \o StateMessage
           e == Len(s)
           C == B \cup {e + 9}
<1>2. StateMessage \in Seq(Byte) /\ Len(StateMessage) = 9
  BY StateBytes
<1>3. u \in Seq(Byte) /\ Len(u) = e + 9 /\ e \in Nat /\ e + 9 \in Nat /\ e <= e + 9
  <2>1. u \in Seq(Byte) /\ Len(u) = Len(s) + Len(StateMessage)
    BY <1>2, Concatenation
  <2> HIDE DEF u
  <2>2. e \in Nat
    OBVIOUS
  <2> HIDE DEF e
  <2>3. e + 9 \in Nat /\ e <= e + 9
    BY <2>2
  <2>4. Len(u) = e + 9
    BY <1>2, <2>1 DEF e
  <2> QED
    BY <2>1, <2>2, <2>3, <2>4
<1>4. \A b \in Nat : StateAt(s, b) => StateAt(u, b)
  BY <1>2, HoldsKept DEF StateAt
<1>5. StateAt(u, e)
  BY <1>2, HoldsNew DEF StateAt
<1>6. \A j \in lo + 1 .. hi : q[j] \in Request
  <2>1. \A j \in lo + 1 .. hi : j \in 1 .. Len(q)
    OBVIOUS
  <2> QED
    BY <2>1, ElementOfSeq
<1>7. \A b \in Nat, r \in Request : LevelAt(s, b, r) => LevelAt(u, b, r)
  <2> SUFFICES ASSUME NEW b \in Nat, NEW r \in Request, LevelAt(s, b, r)
               PROVE  LevelAt(u, b, r)
    OBVIOUS
  <2>1. LevelMessage(r.pos, r.level) \in Seq(Byte)
    BY RequestType, LevelBytes
  <2> QED
    BY <1>2, <2>1, HoldsKept DEF LevelAt
<1> HIDE DEF u
<1>8. /\ B \subseteq from .. e /\ from \in B /\ e \in B
      /\ \A c \in B : c \in Nat /\ c <= e
  <2>1. B \subseteq from .. e /\ from \in B /\ e \in B
    BY <1>1 DEF Parsed
  <2>2. e \in Nat
    BY <1>3
  <2> HIDE DEF e
  <2>3. \A c \in from .. e : c \in Nat /\ c <= e
    BY <2>2
  <2> QED
    BY <2>1, <2>3
<1>9. \A b \in B : Following(B, b, 9) => Following(C, b, 9)
  BY <1>1, <1>3, <1>8, FollowingKept
<1>10. \A b \in B : Following(B, b, 14) => Following(C, b, 14)
  BY <1>1, <1>3, <1>8, FollowingKept
<1>11. Following(C, e, 9)
  BY <1>3, <1>8 DEF Following
<1>12. C \subseteq from .. Len(u) /\ from \in C /\ Len(u) \in C
  <2>1. Len(u) = e + 9 /\ e \in Nat /\ from <= e
    BY <1>3, <1>8
  <2>2. B \subseteq from .. e /\ from \in B
    BY <1>8
  <2> HIDE DEF e
  <2>3. from .. e \subseteq from .. e + 9 /\ e + 9 \in from .. e + 9
    BY <2>1
  <2> QED
    BY <2>1, <2>2, <2>3
<1>13. \A b \in C : \/ b = Len(u)
                    \/ StateAt(u, b) /\ Following(C, b, 9)
                    \/ \E j \in lo + 1 .. hi : P[j] = b
  <2> SUFFICES ASSUME NEW b \in C, b # Len(u), b # e
               PROVE  \/ StateAt(u, b) /\ Following(C, b, 9)
                      \/ \E j \in lo + 1 .. hi : P[j] = b
    BY <1>5, <1>11
  <2>1. b \in B /\ b \in Nat
    BY <1>3
  <2> QED
    BY <1>1, <1>4, <1>9, <2>1 DEF Parsed
<1>14. \A j \in lo + 1 .. hi :
         P[j] \in C /\ LevelAt(u, P[j], q[j]) /\ Following(C, P[j], 14)
  <2> SUFFICES ASSUME NEW j \in lo + 1 .. hi
               PROVE  P[j] \in C /\ LevelAt(u, P[j], q[j]) /\ Following(C, P[j], 14)
    OBVIOUS
  <2>1. P[j] \in B /\ LevelAt(s, P[j], q[j]) /\ Following(B, P[j], 14)
    BY <1>1 DEF Parsed
  <2> QED
    BY <1>6, <1>7, <1>10, <2>1
<1>15. C \in SUBSET Nat
  BY <1>1, <1>3
<1>16. Parsed(u, from, q, lo, hi, C, P)
  BY <1>1, <1>12, <1>13, <1>14 DEF Parsed
<1> QED
  BY <1>15, <1>16 DEF Coded, u

\* The daemon writes a level message: there is one request more.
LEMMA AppendLevel ==
  ASSUME NEW s \in Seq(Byte), NEW from \in Nat, NEW q \in Seq(Request), OneReadSuffices,
         NEW lo \in Nat, lo <= Len(q), NEW r \in Request,
         Coded(s, from, q, lo, Len(q))
  PROVE  Coded(s \o LevelMessage(r.pos, r.level), from, Append(q, r), lo, Len(q) + 1)
<1> DEFINE hi == Len(q)
           k == Append(q, r)
<1>0. hi \in Nat
  OBVIOUS
<1>1. PICK B \in SUBSET Nat, P \in [Nat -> Nat] : Parsed(s, from, q, lo, hi, B, P)
  BY DEF Coded
<1> DEFINE m == LevelMessage(r.pos, r.level)
           u == s \o m
           e == Len(s)
           C == B \cup {e + 14}
           Q == [P EXCEPT ![hi + 1] = e]
<1>2. m \in Seq(Byte) /\ Len(m) = 14
  <2>1. m \in Seq(Byte) /\ LevelLayout(m, r.pos, r.level)
    BY RequestType, LevelBytes
  <2> HIDE DEF m
  <2> QED
    BY <2>1 DEF LevelLayout
<1>3. u \in Seq(Byte) /\ Len(u) = e + 14 /\ e \in Nat /\ e + 14 \in Nat /\ e <= e + 14
  <2>1. m \in Seq(Byte)
    BY <1>2
  <2> HIDE DEF m
  <2>2. u \in Seq(Byte) /\ Len(u) = Len(s) + Len(m)
    BY <2>1, Concatenation
  <2> HIDE DEF u
  <2>3. e \in Nat
    OBVIOUS
  <2> HIDE DEF e
  <2>4. e + 14 \in Nat /\ e <= e + 14
    BY <2>3
  <2>5. Len(u) = e + 14
    BY <1>2, <2>2 DEF e
  <2> QED
    BY <2>2, <2>3, <2>4, <2>5
<1>4. \A b \in Nat : StateAt(s, b) => StateAt(u, b)
  BY <1>2, StateBytes, HoldsKept DEF StateAt
<1>5. LevelAt(u, e, r)
  BY <1>2, HoldsNew DEF LevelAt
<1>6. \A j \in lo + 1 .. hi : j \in Nat /\ q[j] \in Request /\ k[j] = q[j] /\ Q[j] = P[j]
  <2> SUFFICES ASSUME NEW j \in lo + 1 .. hi
               PROVE  j \in Nat /\ q[j] \in Request /\ k[j] = q[j] /\ Q[j] = P[j]
    OBVIOUS
  <2>1. j \in 1 .. Len(q) /\ j \in Nat /\ j # hi + 1
    BY <1>0
  <2> QED
    BY <2>1, ElementOfSeq, AppendProperties
<1>7. \A b \in Nat, x \in Request : LevelAt(s, b, x) => LevelAt(u, b, x)
  <2> SUFFICES ASSUME NEW b \in Nat, NEW x \in Request, LevelAt(s, b, x)
               PROVE  LevelAt(u, b, x)
    OBVIOUS
  <2>1. LevelMessage(x.pos, x.level) \in Seq(Byte)
    BY RequestType, LevelBytes
  <2> QED
    BY <1>2, <2>1, HoldsKept DEF LevelAt
<1>8. k[hi + 1] = r /\ Q[hi + 1] = e /\ Q \in [Nat -> Nat]
  <2>1. k[hi + 1] = r
    BY AppendProperties
  <2>2. hi + 1 \in Nat /\ e \in Nat
    BY <1>0, <1>3
  <2> HIDE DEF k, hi, e
  <2> QED
    BY <1>1, <2>1, <2>2
<1> HIDE DEF u, m, k, Q
<1>9. /\ B \subseteq from .. e /\ from \in B /\ e \in B
      /\ \A c \in B : c \in Nat /\ c <= e
  <2>1. B \subseteq from .. e /\ from \in B /\ e \in B
    BY <1>1 DEF Parsed
  <2>2. e \in Nat
    BY <1>3
  <2> HIDE DEF e
  <2>3. \A c \in from .. e : c \in Nat /\ c <= e
    BY <2>2
  <2> QED
    BY <2>1, <2>3
<1>10. \A b \in B : Following(B, b, 9) => Following(C, b, 9)
  BY <1>1, <1>3, <1>9, FollowingKept
<1>11. \A b \in B : Following(B, b, 14) => Following(C, b, 14)
  BY <1>1, <1>3, <1>9, FollowingKept
<1>12. Following(C, e, 14)
  BY <1>3, <1>9 DEF Following
<1>13. C \subseteq from .. Len(u) /\ from \in C /\ Len(u) \in C
  <2>1. Len(u) = e + 14 /\ e \in Nat /\ from <= e
    BY <1>3, <1>9
  <2>2. B \subseteq from .. e /\ from \in B
    BY <1>9
  <2> HIDE DEF e
  <2>3. from .. e \subseteq from .. e + 14 /\ e + 14 \in from .. e + 14
    BY <2>1
  <2> QED
    BY <2>1, <2>2, <2>3
<1>14. /\ hi + 1 \in lo + 1 .. hi + 1
       /\ \A j \in lo + 1 .. hi + 1 : j = hi + 1 \/ j \in lo + 1 .. hi
       /\ \A j \in lo + 1 .. hi : j \in lo + 1 .. hi + 1 /\ j < hi + 1
  <2> HIDE DEF hi
  <2>1. lo <= hi
    BY DEF hi
  <2>2. hi + 1 \in lo + 1 .. hi + 1
    BY <1>0, <2>1
  <2>3. \A j \in lo + 1 .. hi + 1 : j = hi + 1 \/ j \in lo + 1 .. hi
    BY <1>0, <2>1
  <2>4. \A j \in lo + 1 .. hi : j \in lo + 1 .. hi + 1 /\ j < hi + 1
    BY <1>0, <2>1
  <2> QED
    BY <2>2, <2>3, <2>4
<1>15. \A b \in C : \/ b = Len(u)
                    \/ StateAt(u, b) /\ Following(C, b, 9)
                    \/ \E j \in lo + 1 .. hi + 1 : Q[j] = b
  <2> SUFFICES ASSUME NEW b \in C, b # Len(u), b # e
               PROVE  \/ StateAt(u, b) /\ Following(C, b, 9)
                      \/ \E j \in lo + 1 .. hi + 1 : Q[j] = b
    BY <1>8, <1>14
  <2>1. b \in B /\ b \in Nat
    BY <1>3
  <2>2. \/ StateAt(s, b) /\ Following(B, b, 9)
        \/ \E j \in lo + 1 .. hi : P[j] = b
    BY <1>1, <2>1 DEF Parsed
  <2>3. CASE StateAt(s, b) /\ Following(B, b, 9)
    BY <1>4, <1>10, <2>1, <2>3
  <2>4. CASE \E j \in lo + 1 .. hi : P[j] = b
    BY <1>6, <1>14, <2>4
  <2> QED
    BY <2>2, <2>3, <2>4
<1>16. \A j \in lo + 1 .. hi + 1 :
         Q[j] \in C /\ LevelAt(u, Q[j], k[j]) /\ Following(C, Q[j], 14)
  <2> SUFFICES ASSUME NEW j \in lo + 1 .. hi
               PROVE  Q[j] \in C /\ LevelAt(u, Q[j], k[j]) /\ Following(C, Q[j], 14)
    BY <1>5, <1>8, <1>9, <1>12, <1>14
  <2>1. P[j] \in B /\ LevelAt(s, P[j], q[j]) /\ Following(B, P[j], 14)
    BY <1>1 DEF Parsed
  <2> QED
    BY <1>6, <1>7, <1>11, <2>1
<1>17. \A i, j \in lo + 1 .. hi + 1 : i < j => Q[i] < Q[j]
  <2> SUFFICES ASSUME NEW i \in lo + 1 .. hi + 1, NEW j \in lo + 1 .. hi + 1, i < j
               PROVE  Q[i] < Q[j]
    OBVIOUS
  <2>1. i \in lo + 1 .. hi
    BY <1>0
  <2>2. CASE j \in lo + 1 .. hi
    BY <1>1, <1>6, <2>1, <2>2 DEF Parsed
  <2>3. CASE j = hi + 1
    <3>1. P[i] \in B /\ P[i] + 14 \in B
      BY <1>1, <2>1 DEF Parsed, Following
    <3>2. P[i] < e
      <4>1. P[i] \in Nat /\ P[i] + 14 <= e
        BY <1>9, <3>1
      <4>2. e \in Nat
        BY <1>3
      <4> HIDE DEF e
      <4> QED
        BY <4>1, <4>2
    <3> QED
      BY <1>6, <1>8, <2>1, <2>3, <3>2
  <2> QED
    BY <1>14, <2>2, <2>3
<1>18. C \in SUBSET Nat
  BY <1>1, <1>3
<1>19. Parsed(u, from, k, lo, hi + 1, C, Q)
  BY <1>13, <1>15, <1>16, <1>17 DEF Parsed
<1>20. Coded(u, from, k, lo, hi + 1)
  BY <1>8, <1>18, <1>19 DEF Coded
<1> QED
  BY <1>20 DEF u, m, k

\* No offset holds both a state message and a level message.
LEMMA TypesDiffer ==
  ASSUME NEW s, NEW b, NEW r \in Request, OneReadSuffices, StateAt(s, b), LevelAt(s, b, r)
  PROVE  FALSE
<1> DEFINE m == StateMessage
           n == LevelMessage(r.pos, r.level)
<1>1. Len(m) = 9 /\ m[5] = 12
  BY StateBytes
<1>2. LevelLayout(n, r.pos, r.level)
  BY RequestType, LevelBytes
<1>3. Len(n) = 14 /\ n[5] = 6
  BY <1>2 DEF LevelLayout
<1>4. \A k \in 1 .. Len(m) : s[b + k] = m[k]
  BY DEF StateAt, Holds
<1>5. \A k \in 1 .. Len(n) : s[b + k] = n[k]
  BY DEF LevelAt, Holds
<1> HIDE DEF m, n
<1>6. s[b + 5] = m[5] /\ s[b + 5] = n[5]
  BY <1>1, <1>3, <1>4, <1>5
<1> QED
  BY <1>1, <1>3, <1>6

\* The rest of a sequence of messages after a state message.
LEMMA AfterState ==
  ASSUME NEW s \in Seq(Byte), NEW from \in Nat, NEW q \in Seq(Request), OneReadSuffices,
         NEW lo \in Nat, NEW hi \in Nat, hi <= Len(q), from # Len(s),
         Coded(s, from, q, lo, hi), StateAt(s, from)
  PROVE  Coded(s, from + 9, q, lo, hi)
<1>1. PICK B \in SUBSET Nat, P \in [Nat -> Nat] : Parsed(s, from, q, lo, hi, B, P)
  BY DEF Coded
<1> DEFINE C == B \ {from}
<1>2. \A j \in lo + 1 .. hi : q[j] \in Request
  <2>1. \A j \in lo + 1 .. hi : j \in 1 .. Len(q)
    OBVIOUS
  <2> QED
    BY <2>1, ElementOfSeq
<1>3. \A j \in lo + 1 .. hi : P[j] # from
  <2> SUFFICES ASSUME NEW j \in lo + 1 .. hi, P[j] = from PROVE FALSE
    OBVIOUS
  <2>1. LevelAt(s, from, q[j])
    BY <1>1 DEF Parsed
  <2> QED
    BY <1>2, <2>1, TypesDiffer
<1>4. B \subseteq from .. Len(s) /\ from \in B /\ Len(s) \in B
  BY <1>1 DEF Parsed
<1>5. Following(B, from, 9)
  <2>1. ~ \E j \in lo + 1 .. hi : P[j] = from
    BY <1>3
  <2> QED
    BY <1>1, <1>4, <2>1 DEF Parsed
<1>6. C \subseteq from + 9 .. Len(s) /\ from + 9 \in C /\ Len(s) \in C
  BY <1>4, <1>5 DEF Following
<1>7. \A b \in C : b \in Nat /\ b > from /\ b \in B
  BY <1>4
<1>8. \A b \in C : Following(B, b, 9) => Following(C, b, 9)
  BY <1>7 DEF Following
<1>9. \A b \in C : Following(B, b, 14) => Following(C, b, 14)
  BY <1>7 DEF Following
<1>10. \A b \in C : \/ b = Len(s)
                    \/ StateAt(s, b) /\ Following(C, b, 9)
                    \/ \E j \in lo + 1 .. hi : P[j] = b
  BY <1>1, <1>7, <1>8 DEF Parsed
<1>11. \A j \in lo + 1 .. hi :
         P[j] \in C /\ LevelAt(s, P[j], q[j]) /\ Following(C, P[j], 14)
  BY <1>1, <1>3, <1>9 DEF Parsed
<1>12. Parsed(s, from + 9, q, lo, hi, C, P)
  BY <1>1, <1>6, <1>10, <1>11 DEF Parsed
<1> QED
  BY <1>12 DEF Coded

\* A message that is no state message makes the next request; the rest follows it.
LEMMA AfterLevel ==
  ASSUME NEW s \in Seq(Byte), NEW from \in Nat, NEW q \in Seq(Request), OneReadSuffices,
         NEW lo \in Nat, NEW hi \in Nat, hi <= Len(q), from # Len(s),
         Coded(s, from, q, lo, hi), ~StateAt(s, from)
  PROVE  /\ lo + 1 \in 1 .. hi /\ LevelAt(s, from, q[lo + 1])
         /\ Coded(s, from + 14, q, lo + 1, hi)
<1>1. PICK B \in SUBSET Nat, P \in [Nat -> Nat] : Parsed(s, from, q, lo, hi, B, P)
  BY DEF Coded
<1> DEFINE C == B \ {from}
<1>2. B \subseteq from .. Len(s) /\ from \in B /\ Len(s) \in B
  BY <1>1 DEF Parsed
<1>3. PICK i \in lo + 1 .. hi : P[i] = from
  BY <1>1, <1>2 DEF Parsed
<1>4. lo + 1 \in lo + 1 .. hi /\ lo + 1 \in 1 .. hi
  BY <1>3
<1>5. \A j \in lo + 1 .. hi : P[j] \in B /\ j \in Nat /\ P[j] \in Nat /\ P[j] >= from
  <2>1. \A j \in lo + 1 .. hi : P[j] \in B /\ j \in Nat
    BY <1>1 DEF Parsed
  <2>2. \A b \in B : b \in Nat /\ b >= from
    BY <1>2
  <2> QED
    BY <2>1, <2>2
<1>6. \A j, k \in lo + 1 .. hi : j < k => P[j] < P[k]
  BY <1>1 DEF Parsed
<1>7. i = lo + 1
  <2> SUFFICES ASSUME lo + 1 < i PROVE FALSE
    OBVIOUS
  <2>1. P[lo + 1] < P[i]
    BY <1>4, <1>6
  <2>2. P[lo + 1] >= from /\ P[lo + 1] \in Nat
    BY <1>4, <1>5
  <2> QED
    BY <1>3, <2>1, <2>2
<1>8. LevelAt(s, from, q[lo + 1]) /\ Following(B, from, 14)
  BY <1>1, <1>3, <1>7 DEF Parsed
<1>9. \A j \in lo + 2 .. hi : j \in lo + 1 .. hi /\ P[j] # from
  <2>1. \A j \in lo + 2 .. hi : j \in lo + 1 .. hi /\ lo + 1 < j
    OBVIOUS
  <2> QED
    BY <1>3, <1>4, <1>5, <1>6, <1>7, <2>1
<1>10. C \subseteq from + 14 .. Len(s) /\ from + 14 \in C /\ Len(s) \in C
  BY <1>2, <1>8 DEF Following
<1>11. \A b \in C : b \in Nat /\ b > from /\ b \in B
  BY <1>2
<1>12. \A b \in C : Following(B, b, 9) => Following(C, b, 9)
  BY <1>11 DEF Following
<1>13. \A b \in C : Following(B, b, 14) => Following(C, b, 14)
  BY <1>11 DEF Following
<1>14. \A b \in C : \/ b = Len(s)
                    \/ StateAt(s, b) /\ Following(C, b, 9)
                    \/ \E j \in lo + 2 .. hi : P[j] = b
  <2> SUFFICES ASSUME NEW b \in C, b # Len(s)
               PROVE  \/ StateAt(s, b) /\ Following(C, b, 9)
                      \/ \E j \in lo + 2 .. hi : P[j] = b
    OBVIOUS
  <2>1. \/ StateAt(s, b) /\ Following(B, b, 9)
        \/ \E j \in lo + 1 .. hi : P[j] = b
    BY <1>1, <1>11 DEF Parsed
  <2>2. CASE \E j \in lo + 1 .. hi : P[j] = b
    <3>1. PICK j \in lo + 1 .. hi : P[j] = b
      BY <2>2
    <3>2. j # lo + 1
      BY <1>3, <1>7, <3>1
    <3>3. j \in lo + 2 .. hi
      BY <3>2
    <3> QED
      BY <3>1, <3>3
  <2> QED
    BY <1>12, <2>1, <2>2
<1>15. \A j \in lo + 2 .. hi :
         P[j] \in C /\ LevelAt(s, P[j], q[j]) /\ Following(C, P[j], 14)
  BY <1>1, <1>9, <1>13 DEF Parsed
<1>16. \A j, k \in lo + 2 .. hi : j < k => P[j] < P[k]
  BY <1>6, <1>9
<1>17. Parsed(s, from + 14, q, lo + 1, hi, C, P)
  <2>1. lo + 1 + 1 = lo + 2
    OBVIOUS
  <2> QED
    BY <1>10, <1>14, <1>15, <1>16, <2>1 DEF Parsed
<1> QED
  BY <1>4, <1>8, <1>17 DEF Coded

-----------------------------------------------------------------------------
(***************************************************************************)
(* The invariant                                                           *)
(***************************************************************************)

TypeInv ==
  /\ fifo \in Seq(Byte) /\ Len(fifo) <= MaxPending
  /\ buffer \in Seq(Byte) /\ offset \in Nat
  /\ reader \in {"polling", "parsing"}
  /\ m_activeLogLevel \in [Positions -> Nat]
  /\ sent \in Seq(Request) /\ applied \in Seq(Request)

\* Nothing is left of the last read() when the reader polls again.
PollInv == reader = "polling" => buffer = << >> /\ offset = 0

\* What is left of the array and the FIFO make the requests that were not applied.
StreamInv ==
  \E m \in Nat :
    /\ Len(applied) <= m /\ m <= Len(sent)
    /\ Coded(buffer, offset, sent, Len(applied), m)
    /\ Coded(fifo, 0, sent, m, Len(sent))

Inv == TypeInv /\ PollInv /\ StreamInv

LEMMA Lengths ==
  ASSUME Inv
  PROVE  /\ Len(fifo) \in Nat /\ Len(buffer) \in Nat
         /\ Len(sent) \in Nat /\ Len(applied) \in Nat /\ Len(applied) <= Len(sent)
BY DEF Inv, TypeInv, StreamInv

LEMMA InitInv == Init => Inv
<1> SUFFICES ASSUME Init PROVE Inv
  OBVIOUS
<1>1. TypeInv
  <2>1. << >> \in Seq(Byte) /\ << >> \in Seq(Request) /\ Len(<< >>) = 0
    BY EmptySeq
  <2>2. m_activeLogLevel \in [Positions -> Nat]
    BY DEF Init, Verbose
  <2> QED
    BY <2>1, <2>2, SizesAssumption DEF Init, TypeInv
<1>2. PollInv
  BY DEF Init, PollInv
<1>3. StreamInv
  <2>1. Len(sent) = 0 /\ Len(applied) = 0
    BY DEF Init
  <2>2. Coded(<< >>, 0, sent, 0, 0)
    BY CodedEmpty
  <2> QED
    BY <2>1, <2>2 DEF Init, StreamInv
<1> QED
  BY <1>1, <1>2, <1>3 DEF Inv

LEMMA SetsLevelStep ==
  ASSUME Inv, DaemonSetsLevel, OneReadSuffices
  PROVE  Inv' /\ \E r \in Request : sent' = Append(sent, r)
<1>1. PICK p \in Positions, l \in Levels :
        Write(LevelMessage(p, l)) /\ sent' = Append(sent, [pos |-> p, level |-> l])
  BY DEF DaemonSetsLevel
<1> DEFINE r == [pos |-> p, level |-> l]
<1>2. r \in Request /\ r.pos = p /\ r.level = l
  BY DEF Request
<1>3. sent' = Append(sent, r)
  BY <1>1
<1>4. fifo' = fifo \o LevelMessage(r.pos, r.level)
  BY <1>1, <1>2 DEF Write
<1>5. LevelMessage(r.pos, r.level) \in Seq(Byte)
  BY <1>2, RequestType, LevelBytes
<1>6. Len(fifo) + Len(LevelMessage(r.pos, r.level)) <= MaxPending
  BY <1>1, <1>2 DEF Write
<1> HIDE DEF r
<1>7. TypeInv'
  <2>1. fifo' \in Seq(Byte) /\ Len(fifo') = Len(fifo) + Len(LevelMessage(r.pos, r.level))
    BY <1>4, <1>5, Concatenation DEF Inv, TypeInv
  <2>2. sent' \in Seq(Request)
    BY <1>2, <1>3, AppendProperties DEF Inv, TypeInv
  <2> QED
    BY <1>1, <1>6, <2>1, <2>2 DEF Inv, TypeInv, Write
<1>8. PollInv'
  BY <1>1 DEF Inv, PollInv, Write
<1>9. StreamInv'
  <2>1. PICK m \in Nat :
          /\ Len(applied) <= m /\ m <= Len(sent)
          /\ Coded(buffer, offset, sent, Len(applied), m)
          /\ Coded(fifo, 0, sent, m, Len(sent))
    BY DEF Inv, StreamInv
  <2>2. fifo \in Seq(Byte) /\ sent \in Seq(Request)
    BY DEF Inv, TypeInv
  <2>3. Len(sent') = Len(sent) + 1
    BY <1>2, <1>3, <2>2, AppendProperties
  <2>4. Coded(buffer, offset, sent', Len(applied), m)
    BY <1>2, <1>3, <2>1, <2>2, Lengths, CodedGrows
  <2>5. Coded(fifo', 0, sent', m, Len(sent'))
    <3>1. Coded(fifo \o LevelMessage(r.pos, r.level), 0, Append(sent, r), m, Len(sent) + 1)
      BY <1>2, <2>1, <2>2, AppendLevel
    <3> QED
      BY <1>3, <1>4, <2>3, <3>1
  <2>6. UNCHANGED <<buffer, offset, applied>>
    BY <1>1 DEF Write
  <2>7. m <= Len(sent')
    BY <2>1, <2>3, Lengths
  <2> QED
    BY <2>1, <2>4, <2>5, <2>6, <2>7 DEF StreamInv
<1> QED
  BY <1>2, <1>3, <1>7, <1>8, <1>9 DEF Inv

LEMMA SendsStateStep ==
  ASSUME Inv, DaemonSendsState, OneReadSuffices
  PROVE  Inv'
<1>1. Write(StateMessage) /\ sent' = sent
  BY DEF DaemonSendsState
<1>2. StateMessage \in Seq(Byte)
  BY StateBytes
<1>3. fifo' = fifo \o StateMessage /\ Len(fifo) + Len(StateMessage) <= MaxPending
      /\ UNCHANGED <<buffer, offset, reader, m_activeLogLevel, applied>>
  BY <1>1 DEF Write
<1>4. TypeInv'
  <2>1. fifo' \in Seq(Byte) /\ Len(fifo') = Len(fifo) + Len(StateMessage)
    BY <1>2, <1>3, Concatenation DEF Inv, TypeInv
  <2> QED
    BY <1>1, <1>3, <2>1 DEF Inv, TypeInv
<1>5. PollInv'
  BY <1>3 DEF Inv, PollInv
<1>6. StreamInv'
  <2>1. PICK m \in Nat :
          /\ Len(applied) <= m /\ m <= Len(sent)
          /\ Coded(buffer, offset, sent, Len(applied), m)
          /\ Coded(fifo, 0, sent, m, Len(sent))
    BY DEF Inv, StreamInv
  <2>2. fifo \in Seq(Byte) /\ sent \in Seq(Request) /\ Len(sent) \in Nat
    BY Lengths DEF Inv, TypeInv
  <2>3. Coded(fifo \o StateMessage, 0, sent, m, Len(sent))
    BY <2>1, <2>2, AppendState
  <2> QED
    BY <1>1, <1>3, <2>1, <2>3 DEF StreamInv
<1> QED
  BY <1>4, <1>5, <1>6 DEF Inv

\* One read() empties the FIFO.
LEMMA ReadStep ==
  ASSUME Inv, PollAndRead, OneReadSuffices
  PROVE  Inv'
<1>1. Len(fifo) \in Nat /\ Len(fifo) <= BufferSize
  BY SizesAssumption, Lengths DEF Inv, TypeInv, OneReadSuffices
<1>2. Smaller(BufferSize, Len(fifo)) = Len(fifo)
  BY <1>1, SizesAssumption DEF Smaller
<1>3. buffer' = fifo /\ fifo' = << >>
  <2>1. /\ buffer' = SubSeq(fifo, 1, Len(fifo))
        /\ fifo' = SubSeq(fifo, Len(fifo) + 1, Len(fifo))
    BY <1>2, Zenon DEF PollAndRead
  <2>2. Len(fifo) \in Int /\ Len(fifo) + 1 \in Int /\ Len(fifo) < Len(fifo) + 1
    BY <1>1
  <2>3. SubSeq(fifo, Len(fifo) + 1, Len(fifo)) = << >>
    BY <2>2, SubSeqEmpty
  <2>4. SubSeq(fifo, 1, Len(fifo)) = fifo
    BY SubSeqFull DEF Inv, TypeInv
  <2> QED
    BY <2>1, <2>3, <2>4
<1>4. /\ offset' = 0 /\ reader = "polling" /\ reader' = "parsing"
      /\ UNCHANGED <<m_activeLogLevel, sent, applied>>
  BY DEF PollAndRead
<1>5. TypeInv'
  <2>1. << >> \in Seq(Byte) /\ Len(<< >>) = 0
    BY EmptySeq
  <2> QED
    BY <1>3, <1>4, <2>1, SizesAssumption DEF Inv, TypeInv
<1>6. PollInv'
  BY <1>4 DEF PollInv
<1>7. StreamInv'
  <2>1. PICK m \in Nat :
          /\ Len(applied) <= m /\ m <= Len(sent)
          /\ Coded(buffer, offset, sent, Len(applied), m)
          /\ Coded(fifo, 0, sent, m, Len(sent))
    BY DEF Inv, StreamInv
  <2>2. buffer \in Seq(Byte) /\ Len(buffer) = 0 /\ buffer = << >> /\ offset = 0
    BY <1>4 DEF Inv, PollInv, TypeInv
  <2>3. m = Len(applied)
    <3>1. Coded(buffer, Len(buffer), sent, Len(applied), m)
      BY <2>1, <2>2
    <3> QED
      BY <2>1, <2>2, <3>1, Lengths, CodedEnd
  <2>4. Coded(fifo', 0, sent', Len(sent'), Len(sent'))
    BY <1>3, <1>4, Lengths, CodedEmpty
  <2>5. Coded(buffer', offset', sent', Len(applied'), Len(sent'))
    BY <1>3, <1>4, <2>1, <2>3
  <2>6. Len(sent') \in Nat /\ Len(applied') <= Len(sent') /\ Len(sent') <= Len(sent')
    BY <1>4, Lengths
  <2> QED
    BY <2>4, <2>5, <2>6 DEF StreamInv
<1> QED
  BY <1>5, <1>6, <1>7 DEF Inv

\* What the reader finds at its offset: the end, a state message or the oldest
\* request that was not applied.
LEMMA AtOffset ==
  ASSUME Inv, OneReadSuffices, NEW m \in Nat, Len(applied) <= m, m <= Len(sent),
         Coded(buffer, offset, sent, Len(applied), m)
  PROVE  \/ ~HeaderAvailable /\ m = Len(applied)
         \/ /\ HeaderAvailable /\ MessageType(<< >>) = LOG_STATE
            /\ Coded(buffer, offset + 9, sent, Len(applied), m)
         \/ /\ HeaderAvailable /\ MessageType(<< >>) = LOG_LEVEL
            /\ Len(applied) + 1 \in 1 .. m /\ offset + 14 <= Len(buffer)
            /\ LevelAt(buffer, offset, sent[Len(applied) + 1])
            /\ Coded(buffer, offset + 14, sent, Len(applied) + 1, m)
<1>1. buffer \in Seq(Byte) /\ offset \in Nat /\ sent \in Seq(Request) /\ Len(applied) \in Nat
  BY Lengths DEF Inv, TypeInv
<1>2. CASE offset = Len(buffer)
  <2>1. ~HeaderAvailable
    BY <1>1, <1>2 DEF HeaderAvailable, SizeofUserHeader
  <2>2. Coded(buffer, Len(buffer), sent, Len(applied), m)
    BY <1>2
  <2> QED
    BY <1>1, <2>1, <2>2, CodedEnd
<1>3. CASE offset # Len(buffer) /\ StateAt(buffer, offset)
  BY <1>1, <1>3, ReadsState, AfterState
<1>4. CASE offset # Len(buffer) /\ ~StateAt(buffer, offset)
  <2> DEFINE r == sent[Len(applied) + 1]
  <2>1. /\ Len(applied) + 1 \in 1 .. m /\ LevelAt(buffer, offset, r)
        /\ Coded(buffer, offset + 14, sent, Len(applied) + 1, m)
    BY <1>1, <1>4, AfterLevel
  <2>2. r \in Request
    <3>1. Len(applied) + 1 \in 1 .. Len(sent)
      BY <2>1, Lengths
    <3> QED
      BY <1>1, <3>1, ElementOfSeq
  <2> HIDE DEF r
  <2>3. HeaderAvailable /\ MessageType(<< >>) = LOG_LEVEL /\ offset + 14 <= Len(buffer)
    BY <1>1, <2>1, <2>2, ReadsLevel
  <2> QED
    BY <2>1, <2>3 DEF r
<1> QED
  BY <1>2, <1>3, <1>4

LEMMA TypesDistinct == LOG_STATE # LOG_LEVEL
BY DEF LOG_STATE, LOG_LEVEL

LEMMA ParseStateStep ==
  ASSUME Inv, ParseState, OneReadSuffices
  PROVE  Inv'
<1>1. /\ HeaderAvailable /\ MessageType(<< >>) = LOG_STATE /\ offset' = offset + 9
      /\ reader = "parsing"
      /\ UNCHANGED <<fifo, buffer, reader, m_activeLogLevel, sent, applied>>
  <2>1. offset' = offset + 8 + 1
    BY DEF ParseState, SizeofUserHeader, SizeofLogState
  <2> QED
    BY <2>1 DEF ParseState, Inv, TypeInv
<1>2. PICK m \in Nat :
        /\ Len(applied) <= m /\ m <= Len(sent)
        /\ Coded(buffer, offset, sent, Len(applied), m)
        /\ Coded(fifo, 0, sent, m, Len(sent))
  BY DEF Inv, StreamInv
<1>3. Coded(buffer, offset + 9, sent, Len(applied), m)
  BY <1>1, <1>2, AtOffset, TypesDistinct
<1>4. TypeInv' /\ PollInv'
  BY <1>1 DEF Inv, TypeInv, PollInv
<1>5. StreamInv'
  BY <1>1, <1>2, <1>3 DEF StreamInv
<1> QED
  BY <1>4, <1>5 DEF Inv

LEMMA ParseLevelStep ==
  ASSUME Inv, ParseLevel, OneReadSuffices
  PROVE  /\ Inv' /\ sent' = sent
         /\ Len(applied) + 1 \in 1 .. Len(sent)
         /\ LET r == sent[Len(applied) + 1]
            IN  /\ applied' = Append(applied, r)
                /\ m_activeLogLevel' = [m_activeLogLevel EXCEPT ![r.pos] = r.level]
<1> DEFINE r == sent[Len(applied) + 1]
<1>1. PICK m \in Nat :
        /\ Len(applied) <= m /\ m <= Len(sent)
        /\ Coded(buffer, offset, sent, Len(applied), m)
        /\ Coded(fifo, 0, sent, m, Len(sent))
  BY DEF Inv, StreamInv
<1>2. HeaderAvailable /\ MessageType(<< >>) = LOG_LEVEL /\ UNCHANGED <<fifo, buffer, sent>>
  BY DEF ParseLevel
<1>3. /\ Len(applied) + 1 \in 1 .. m /\ LevelAt(buffer, offset, r)
      /\ Coded(buffer, offset + 14, sent, Len(applied) + 1, m)
  BY <1>1, <1>2, AtOffset, TypesDistinct
<1>4. Len(applied) + 1 \in 1 .. Len(sent) /\ Len(applied) \in Nat
  BY <1>1, <1>3, Lengths
<1>5. r \in Request
  BY <1>4, ElementOfSeq DEF Inv, TypeInv
<1> HIDE DEF r
<1>6. r.pos \in Positions /\ r.level \in Byte /\ r = [pos |-> r.pos, level |-> r.level]
  BY <1>5, RequestType DEF Request
<1>7. \A past : LogLevelPos(past) = r.pos /\ ByteAt(8, past) = r.level
  BY <1>3, <1>5, ReadsLevel DEF Inv, TypeInv
<1>8. /\ m_activeLogLevel' = [m_activeLogLevel EXCEPT ![r.pos] = r.level]
      /\ applied' = Append(applied, [pos |-> r.pos, level |-> r.level])
      /\ reader' = reader
  BY <1>6, <1>7, Zenon DEF ParseLevel
<1>9. applied' = Append(applied, r)
  BY <1>6, <1>8
<1>10. offset' = offset + 14 /\ offset' \in Nat
  <2>1. offset' = offset + 8 + 6
    BY DEF ParseLevel, SizeofUserHeader, SizeofLogLevel
  <2> QED
    BY <2>1 DEF Inv, TypeInv
<1>11. applied' \in Seq(Request) /\ Len(applied') = Len(applied) + 1
  BY <1>5, <1>9, AppendProperties DEF Inv, TypeInv
<1>12. m_activeLogLevel' \in [Positions -> Nat]
  <2>1. r.level \in Nat
    BY <1>6 DEF Byte
  <2> QED
    BY <1>6, <1>8, <2>1 DEF Inv, TypeInv
<1>13. TypeInv'
  BY <1>2, <1>8, <1>10, <1>11, <1>12 DEF Inv, TypeInv
<1>14. PollInv'
  <2>1. reader' = "parsing"
    BY <1>8 DEF ParseLevel
  <2> QED
    BY <2>1 DEF PollInv
<1>15. StreamInv'
  <2>1. Coded(buffer', offset', sent', Len(applied'), m)
    BY <1>2, <1>3, <1>10, <1>11
  <2>2. Len(applied') <= m
    BY <1>3, <1>4, <1>11
  <2> QED
    BY <1>1, <1>2, <2>1, <2>2 DEF StreamInv
<1> QED
  BY <1>2, <1>4, <1>8, <1>9, <1>13, <1>14, <1>15 DEF Inv, r

LEMMA EndStep ==
  ASSUME Inv, EndParsing, OneReadSuffices
  PROVE  Inv'
<1>1. PICK m \in Nat :
        /\ Len(applied) <= m /\ m <= Len(sent)
        /\ Coded(buffer, offset, sent, Len(applied), m)
        /\ Coded(fifo, 0, sent, m, Len(sent))
  BY DEF Inv, StreamInv
<1>2. /\ HeaderAvailable => MessageType(<< >>) \notin {LOG_STATE, LOG_LEVEL}
      /\ reader' = "polling" /\ buffer' = << >> /\ offset' = 0
      /\ UNCHANGED <<fifo, m_activeLogLevel, sent, applied>>
  BY DEF EndParsing
<1>3. m = Len(applied)
  BY <1>1, <1>2, AtOffset
<1>4. Coded(<< >>, 0, sent, Len(applied), Len(applied))
  BY Lengths, CodedEmpty
<1>5. TypeInv'
  <2>1. << >> \in Seq(Byte)
    BY EmptySeq
  <2> QED
    BY <1>2, <2>1 DEF Inv, TypeInv
<1>6. PollInv'
  BY <1>2 DEF PollInv
<1>7. StreamInv'
  BY <1>1, <1>2, <1>3, <1>4 DEF StreamInv
<1> QED
  BY <1>5, <1>6, <1>7 DEF Inv

\* Every step of the daemon and of the reader keeps the invariant.
LEMMA NextInv ==
  ASSUME OneReadSuffices, Inv, [Next]_vars
  PROVE  Inv'
<1>1. CASE Next
  BY <1>1, SetsLevelStep, SendsStateStep, ReadStep, ParseStateStep, ParseLevelStep, EndStep
     DEF Next
<1>2. CASE UNCHANGED vars
  <2>1. UNCHANGED <<fifo, buffer, offset, reader, m_activeLogLevel, sent, applied>>
    BY <1>2 DEF vars
  <2> QED
    BY <2>1 DEF Inv, TypeInv, PollInv, StreamInv
<1> QED
  BY <1>1, <1>2

\* Inv is an invariant of the decoding.
LEMMA InvHolds ==
  ASSUME OneReadSuffices
  PROVE  Spec => []Inv
<1>1. Inv /\ [Next]_vars => Inv'
  BY NextInv
<1> QED
  BY <1>1, InitInv, PTL DEF Spec

-----------------------------------------------------------------------------
(***************************************************************************)
(* The theorems                                                            *)
(***************************************************************************)

\* NoReadPastTheEnd: if one read() takes all that is in the FIFO, then with the
\* header of a level message the whole message is in the array, so that
\* handleIncomingMessage never looks at bytes that were not read.
THEOREM MessagesAreReadWhole ==
  ASSUME OneReadSuffices
  PROVE  Spec => []NoReadPastTheEnd
<1>1. Inv => NoReadPastTheEnd
  <2> SUFFICES ASSUME Inv, HeaderAvailable, MessageType(<< >>) = LOG_LEVEL
               PROVE  offset + SizeofUserHeader + SizeofLogLevel <= Len(buffer)
    BY DEF NoReadPastTheEnd
  <2>1. PICK m \in Nat :
          /\ Len(applied) <= m /\ m <= Len(sent)
          /\ Coded(buffer, offset, sent, Len(applied), m)
    BY DEF Inv, StreamInv
  <2>2. offset + 14 <= Len(buffer)
    BY <2>1, AtOffset, TypesDistinct
  <2>3. offset + 8 + 6 = offset + 14
    BY DEF Inv, TypeInv
  <2> QED
    BY <2>2, <2>3 DEF SizeofUserHeader, SizeofLogLevel
<1> QED
  BY <1>1, InvHolds, PTL

\* The requests after the first a ones, one by one.
LEMMA Remaining ==
  ASSUME NEW q \in Seq(Request), NEW a \in Nat, a <= Len(q)
  PROVE  /\ SubSeq(q, a + 1, Len(q)) \in Seq(Request)
         /\ Len(SubSeq(q, a + 1, Len(q))) = Len(q) - a
         /\ \A i \in 1 .. Len(q) - a : SubSeq(q, a + 1, Len(q))[i] = q[a + i]
<1> DEFINE n == Len(q)
           t == SubSeq(q, a + 1, n)
<1>1. n \in Nat /\ a + 1 \in Int /\ n \in Int
  OBVIOUS
<1>2. \A i \in a + 1 .. n : q[i] \in Request
  <2>1. \A i \in a + 1 .. n : i \in 1 .. n
    OBVIOUS
  <2> QED
    BY <2>1, ElementOfSeq
<1>3. /\ t \in Seq(Request)
      /\ Len(t) = IF a + 1 <= n THEN n - (a + 1) + 1 ELSE 0
      /\ \A i \in 1 .. n - (a + 1) + 1 : t[i] = q[a + 1 + i - 1]
  BY <1>1, <1>2, SubSeqProperties
<1> HIDE DEF t
<1>4. n - (a + 1) + 1 = n - a /\ \A i \in 1 .. n - a : a + 1 + i - 1 = a + i
  BY <1>1
<1>5. (IF a + 1 <= n THEN n - (a + 1) + 1 ELSE 0) = n - a
  BY <1>1
<1> QED
  BY <1>3, <1>4, <1>5 DEF t

\* NothingIsForgotten: if one read() takes all that is in the FIFO, a reader that
\* finds it empty has applied every request that was made.
THEOREM IdleReaderIsDone ==
  ASSUME OneReadSuffices
  PROVE  Spec => []NothingIsForgotten
<1>1. Inv => NothingIsForgotten
  <2> SUFFICES ASSUME Inv, reader = "polling", fifo = << >>
               PROVE  Outstanding = << >>
    BY DEF NothingIsForgotten
  <2>1. PICK m \in Nat :
          /\ Len(applied) <= m /\ m <= Len(sent)
          /\ Coded(buffer, offset, sent, Len(applied), m)
          /\ Coded(fifo, 0, sent, m, Len(sent))
    BY DEF Inv, StreamInv
  <2>2. /\ buffer \in Seq(Byte) /\ offset = Len(buffer)
        /\ fifo \in Seq(Byte) /\ Len(fifo) = 0
    BY EmptySeq DEF Inv, TypeInv, PollInv
  <2>3. m = Len(applied)
    <3>1. Coded(buffer, Len(buffer), sent, Len(applied), m)
      BY <2>1, <2>2
    <3> QED
      BY <2>1, <2>2, <3>1, Lengths, CodedEnd
  <2>4. m = Len(sent)
    <3>1. Coded(fifo, Len(fifo), sent, m, Len(sent))
      BY <2>1, <2>2
    <3> QED
      BY <2>1, <2>2, <3>1, Lengths, CodedEnd
  <2>5. Outstanding \in Seq(Request) /\ Len(Outstanding) = 0
    BY <2>3, <2>4, Lengths, Remaining DEF Outstanding, Inv, TypeInv
  <2> QED
    BY <2>5, EmptySeq
<1> QED
  BY <1>1, InvHolds, PTL

\* ChannelSpec: if one read() takes all that is in the FIFO, the decoding of the
\* byte stream applies every request once, in order, to the context it is for.
THEOREM DecodingIsAChannel ==
  ASSUME OneReadSuffices
  PROVE  Spec => ChannelSpec
<1>1. Init => Channel!Init
  <2> SUFFICES ASSUME Init PROVE Channel!Init
    OBVIOUS
  <2>1. Outstanding = << >>
    <3>1. sent = << >> /\ applied = << >> /\ Len(<< >>) = 0
      BY EmptySeq DEF Init
    <3>2. Outstanding = SubSeq(<< >>, 1, 0)
      BY <3>1 DEF Outstanding
    <3> QED
      BY <3>2, SubSeqEmpty
  <2>2. m_activeLogLevel \in [Positions -> Nat]
    BY DEF Init, Verbose
  <2> QED
    BY <2>1, <2>2 DEF Channel!Init
<1>2. Inv /\ Inv' /\ [Next]_vars =>
        [Channel!Request \/ Channel!Apply]_<<Outstanding, m_activeLogLevel>>
  <2> SUFFICES ASSUME Inv, Inv', [Next]_vars
               PROVE  [Channel!Request \/ Channel!Apply]_<<Outstanding, m_activeLogLevel>>
    OBVIOUS
  <2>1. UNCHANGED <<sent, applied, m_activeLogLevel>> =>
          UNCHANGED <<Outstanding, m_activeLogLevel>>
    BY DEF Outstanding
  <2>2. CASE DaemonSetsLevel
    <3>1. PICK p \in Positions, l \in Levels :
            Write(LevelMessage(p, l)) /\ sent' = Append(sent, [pos |-> p, level |-> l])
      BY <2>2 DEF DaemonSetsLevel
    <3> DEFINE r == [pos |-> p, level |-> l]
               n == Len(sent) - Len(applied)
    <3>2. r \in Request
      BY DEF Request
    <3>3. UNCHANGED <<applied, m_activeLogLevel>>
      BY <3>1 DEF Write
    <3> HIDE DEF r
    <3>4. /\ Len(sent') = Len(sent) + 1 /\ sent'[Len(sent) + 1] = r
          /\ \A i \in 1 .. Len(sent) : sent'[i] = sent[i]
      BY <3>1, <3>2, AppendProperties DEF Inv, TypeInv, r
    <3>5. /\ Outstanding \in Seq(Request) /\ Len(Outstanding) = n
          /\ \A i \in 1 .. n : Outstanding[i] = sent[Len(applied) + i]
      BY Lengths, Remaining DEF Outstanding, Inv, TypeInv
    <3>6. /\ Outstanding' \in Seq(Request) /\ Len(Outstanding') = Len(sent') - Len(applied')
          /\ \A i \in 1 .. Len(sent') - Len(applied') :
               Outstanding'[i] = sent'[Len(applied') + i]
      <4>1. sent' \in Seq(Request) /\ Len(applied') \in Nat /\ Len(applied') <= Len(sent')
        BY <3>3, <3>4, Lengths DEF Inv, TypeInv
      <4> QED
        BY <4>1, Remaining DEF Outstanding
    <3>7. n \in Nat /\ Len(sent') - Len(applied') = n + 1
      BY <3>3, <3>4, Lengths
    <3> DEFINE u == Append(Outstanding, r)
    <3>8. /\ u \in Seq(Request) /\ Len(u) = n + 1 /\ u[n + 1] = r
          /\ \A i \in 1 .. n : u[i] = Outstanding[i]
      BY <3>2, <3>5, AppendProperties
    <3> HIDE DEF u
    <3>9. \A i \in 1 .. n + 1 : Outstanding'[i] = u[i]
      <4> SUFFICES ASSUME NEW i \in 1 .. n + 1 PROVE Outstanding'[i] = u[i]
        OBVIOUS
      <4>1. Outstanding'[i] = sent'[Len(applied) + i]
        BY <3>3, <3>6, <3>7
      <4>2. CASE i = n + 1
        <5>1. Len(applied) + i = Len(sent) + 1
          BY <4>2, Lengths
        <5> QED
          BY <3>4, <3>8, <4>1, <4>2, <5>1
      <4>3. CASE i \in 1 .. n
        <5>1. Len(applied) + i \in 1 .. Len(sent)
          BY <4>3, Lengths
        <5> QED
          BY <3>4, <3>5, <3>8, <4>1, <4>3, <5>1
      <4> QED
        BY <3>7, <4>2, <4>3
    <3>10. Outstanding' = u
      BY <3>6, <3>7, <3>8, <3>9, SeqEqual
    <3> QED
      BY <3>3, <3>10 DEF Channel!Request, u, r
  <2>3. CASE ParseLevel
    <3> DEFINE a == Len(applied) + 1
               r == sent[a]
    <3>1. /\ sent' = sent /\ a \in 1 .. Len(sent) /\ applied' = Append(applied, r)
          /\ m_activeLogLevel' = [m_activeLogLevel EXCEPT ![r.pos] = r.level]
      BY <2>3, ParseLevelStep
    <3>2. r \in Request
      BY <3>1, ElementOfSeq DEF Inv, TypeInv
    <3>3. Len(applied') = a
      BY <3>1, <3>2, AppendProperties DEF Inv, TypeInv
    <3> HIDE DEF r
    <3>4. Outstanding = SubSeq(sent, a, Len(sent)) /\ Outstanding' = SubSeq(sent, a + 1, Len(sent))
      BY <3>1, <3>3 DEF Outstanding
    <3>5. Len(Outstanding) = Len(sent) - Len(applied) /\ Len(sent) - Len(applied) > 0
      BY <3>1, Remaining, Lengths DEF Outstanding, Inv, TypeInv
    <3>6. Outstanding # << >>
      BY <3>5, EmptySeq, Lengths
    <3>7. a \in 1 .. Len(sent) /\ Len(sent) \in a .. Len(sent) /\ sent \in Seq(Request)
      BY <3>1, Lengths DEF Inv, TypeInv
    <3> HIDE DEF a
    <3>8. Head(Outstanding) = sent[a] /\ Tail(Outstanding) = Outstanding'
      BY <3>4, <3>7, HeadTailOfSubSeq
    <3> QED
      BY <3>1, <3>6, <3>8 DEF Channel!Apply, r
  <2>4. CASE DaemonSendsState \/ PollAndRead \/ ParseState \/ EndParsing
    BY <2>1, <2>4 DEF DaemonSendsState, Write, PollAndRead, ParseState, EndParsing
  <2>5. CASE UNCHANGED vars
    BY <2>1, <2>5 DEF vars
  <2> QED
    BY <2>2, <2>3, <2>4, <2>5 DEF Next
<1> QED
  BY <1>1, <1>2, InvHolds, PTL DEF Spec, ChannelSpec, Channel!Spec
=============================================================================
