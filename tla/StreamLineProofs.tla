-------------------------- MODULE StreamLineProofs --------------------------
(***************************************************************************)
(* Theorems about StreamLine: for every size of the fixed array, all       *)
(* lengths of texts and all widths, the ByteArray holds what was written,  *)
(* the C string that is printed is the whole of it, and the suffix of a    *)
(* line ends at the edge of the terminal.                                  *)
(***************************************************************************)
EXTENDS StreamLine, FiniteSetTheorems, SequenceTheorems, TLAPS

\* Characters: what a text is made of.
Chars == Cells \ {Nul}

\* A well-formed array has the cells it claims to have.
Good(b) ==
  /\ b \in ByteArrays
  /\ b.usesStaticBuffer => /\ Len(b.data) = StaticSize
                           /\ b.m_length \in Nat /\ b.m_length <= StaticSize
  /\ ~b.usesStaticBuffer => b.vectorSize <= Len(b.data) /\ b.m_length = NotRelevant

\* The terminator lies behind its last cell.
Terminated(b) == Size(b) < Len(getData(b)) /\ getData(b)[Size(b) + 1] = Nul

-----------------------------------------------------------------------------
(***************************************************************************)
(* The operations of ByteArray                                             *)
(***************************************************************************)

\* A function on 1 .. n is a sequence of length n.
LEMMA MadeOf ==
  ASSUME NEW S, NEW n \in Nat, NEW f, f = [i \in 1 .. n |-> f[i]],
         \A i \in 1 .. n : f[i] \in S
  PROVE  f \in Seq(S) /\ Len(f) = n
<1>1. f \in [1 .. n -> S]
  OBVIOUS
<1> QED
  BY <1>1

\* The data of a well-formed array is a sequence of at least its size.
LEMMA DataOf ==
  ASSUME NEW b, Good(b)
  PROVE  /\ getData(b) \in Seq(Cells) /\ Len(getData(b)) \in Nat
         /\ Size(b) \in Nat /\ Size(b) <= Len(getData(b))
         /\ Contents(b) \in Seq(Cells) /\ Len(Contents(b)) = Size(b)
         /\ \A i \in 1 .. Size(b) : Contents(b)[i] = getData(b)[i]
<1>1. /\ getData(b) \in Seq(Cells) /\ Len(getData(b)) \in Nat
      /\ Size(b) \in Nat /\ Size(b) <= Len(getData(b))
  BY DEF Good, ByteArrays, getData, Size
<1> QED
  BY <1>1 DEF Contents

\* The two ways to make a well-formed array.
LEMMA InArrayGood ==
  ASSUME NEW n \in Nat, NEW cells \in Seq(Cells), Len(cells) = StaticSize, n <= StaticSize
  PROVE  /\ Good(InArray(cells, n)) /\ Size(InArray(cells, n)) = n
         /\ getData(InArray(cells, n)) = cells
  BY DEF InArray, Good, ByteArrays, Size, getData

LEMMA InVectorGood ==
  ASSUME NEW n \in Nat, NEW cells \in Seq(Cells), n <= Len(cells)
  PROVE  /\ Good(InVector(cells, n)) /\ Size(InVector(cells, n)) = n
         /\ getData(InVector(cells, n)) = cells
  BY DEF InVector, Good, ByteArrays, Size, getData, NotRelevant

\* An empty array is well-formed.
LEMMA EmptyGood == Good(EmptyByteArray) /\ Size(EmptyByteArray) = 0
<1> DEFINE cells == [i \in 1 .. StaticSize |-> Garbage]
<1>1. StaticSize \in Nat
  BY ByteArrayAssumption
<1>2. cells \in Seq(Cells) /\ Len(cells) = StaticSize
  <2>1. cells = [i \in 1 .. StaticSize |-> cells[i]]
    OBVIOUS
  <2>2. \A i \in 1 .. StaticSize : cells[i] \in Cells
    BY DEF Cells
  <2> HIDE DEF cells
  <2> QED
    BY <1>1, <2>1, <2>2, MadeOf
<1>3. EmptyByteArray = InArray(cells, 0)
  BY DEF EmptyByteArray
<1> HIDE DEF cells
<1> QED
  BY <1>1, <1>2, <1>3, InArrayGood

\* resize keeps the cells that remain, for any size and wherever they are.
LEMMA ResizeKeeps ==
  ASSUME NEW b, Good(b), NEW n \in Nat
  PROVE  /\ Good(Resize(b, n)) /\ Size(Resize(b, n)) = n
         /\ \A i \in 1 .. n : i <= Size(b) => getData(Resize(b, n))[i] = getData(b)[i]
<1>1. CASE ~b.usesStaticBuffer
  <2> DEFINE cells == VectorResize(b.data, b.vectorSize, n)
             m == Larger(n, Len(b.data))
  <2>1. /\ m \in Nat /\ n <= m /\ Len(b.data) <= m
        /\ (m = n \/ m = Len(b.data))
    BY DEF Larger, Good, ByteArrays
  <2>2. cells = [i \in 1 .. m |-> IF i > b.vectorSize /\ i <= n THEN Nul ELSE b.data[i]]
    BY DEF VectorResize
  <2>3. \A i \in 1 .. m : cells[i] \in Cells
    <3> TAKE i \in 1 .. m
    <3>1. CASE i > b.vectorSize /\ i <= n
      BY <2>2, <3>1 DEF Cells
    <3>2. CASE ~(i > b.vectorSize /\ i <= n)
      <4>1. i \in 1 .. Len(b.data) /\ b.data \in Seq(Cells)
        BY <1>1, <2>1, <3>2 DEF Good, ByteArrays
      <4>2. cells[i] = b.data[i]
        BY <2>2, <3>2
      <4> HIDE DEF cells
      <4> QED
        BY <4>1, <4>2
    <3> QED
      BY <3>1, <3>2
  <2> HIDE DEF m
  <2>4. cells \in Seq(Cells) /\ Len(cells) = m
    BY <2>1, <2>2, <2>3, MadeOf
  <2>5. Resize(b, n) = InVector(cells, n)
    BY <1>1 DEF Resize
  <2> HIDE DEF cells
  <2>6. \A i \in 1 .. n : i <= Size(b) => cells[i] = getData(b)[i]
    BY <1>1, <2>1, <2>2 DEF Size, getData, Good, ByteArrays
  <2> QED
    BY <2>1, <2>4, <2>5, <2>6, InVectorGood
<1>2. CASE b.usesStaticBuffer /\ n <= StaticSize
  <2>1. Resize(b, n) = InArray(b.data, n)
    BY <1>2 DEF Resize
  <2>2. b.data \in Seq(Cells) /\ Len(b.data) = StaticSize
    BY <1>2 DEF Good, ByteArrays
  <2>3. getData(InArray(b.data, n)) = getData(b)
    BY DEF InArray, getData
  <2> QED
    BY <1>2, <2>1, <2>2, <2>3, InArrayGood
<1>3. CASE b.usesStaticBuffer /\ ~(n <= StaticSize)
  <2> DEFINE cells == [i \in 1 .. n |-> IF i <= b.m_length THEN b.data[i] ELSE Nul]
  <2>1. /\ b.m_length \in Nat /\ b.m_length <= StaticSize /\ StaticSize \in Nat
        /\ b.data \in Seq(Cells) /\ Len(b.data) = StaticSize
    BY <1>3, ByteArrayAssumption DEF Good, ByteArrays
  <2>2. \A i \in 1 .. n : cells[i] \in Cells
    <3> TAKE i \in 1 .. n
    <3>1. i <= b.m_length => i \in 1 .. Len(b.data)
      BY <2>1
    <3> QED
      BY <2>1, <3>1 DEF Cells
  <2>3. cells \in Seq(Cells) /\ Len(cells) = n
    BY <2>2, MadeOf
  <2>4. \A i \in 1 .. n : i <= b.m_length => cells[i] = b.data[i]
    OBVIOUS
  <2>5. Resize(b, n) = InVector(cells, n)
    BY <1>3 DEF Resize
  <2> HIDE DEF cells
  <2>6. Size(b) = b.m_length /\ getData(b) = b.data
    BY <1>3 DEF Size, getData
  <2> QED
    BY <2>1, <2>3, <2>4, <2>5, <2>6, InVectorGood
<1> QED
  BY <1>1, <1>2, <1>3 DEF Good, ByteArrays

\* Copying bytes into the array changes those cells and nothing else.
LEMMA StoreKeeps ==
  ASSUME NEW b, Good(b), NEW position \in Nat, NEW bytes \in Seq(Cells),
         position + Len(bytes) <= Len(getData(b))
  PROVE  /\ Good(StoreAt(b, position, bytes))
         /\ Size(StoreAt(b, position, bytes)) = Size(b)
         /\ Len(getData(StoreAt(b, position, bytes))) = Len(getData(b))
         /\ \A i \in 1 .. Len(getData(b)) :
              getData(StoreAt(b, position, bytes))[i] =
                IF i > position /\ i <= position + Len(bytes)
                THEN bytes[i - position] ELSE getData(b)[i]
<1> DEFINE s == StoreAt(b, position, bytes)
           cells == Overwritten(b.data, position, bytes)
           m == Len(b.data)
<1>1. b.data \in Seq(Cells) /\ m \in Nat /\ Len(bytes) \in Nat /\ getData(b) = b.data
  BY DataOf DEF getData
<1>2. cells = [i \in 1 .. m |-> IF i > position /\ i <= position + Len(bytes)
                                THEN bytes[i - position] ELSE b.data[i]]
  BY DEF Overwritten
<1>3. \A i \in 1 .. m : cells[i] \in Cells
  <2> TAKE i \in 1 .. m
  <2>1. CASE i > position /\ i <= position + Len(bytes)
    <3>1. i - position \in 1 .. Len(bytes)
      BY <1>1, <2>1
    <3>2. cells[i] = bytes[i - position]
      BY <1>2, <2>1
    <3> HIDE DEF cells
    <3> QED
      BY <3>1, <3>2
  <2>2. CASE ~(i > position /\ i <= position + Len(bytes))
    <3>1. cells[i] = b.data[i]
      BY <1>2, <2>2
    <3> HIDE DEF cells
    <3> QED
      BY <1>1, <3>1
  <2> QED
    BY <2>1, <2>2
<1>4. cells \in Seq(Cells) /\ Len(cells) = m
  <2>1. cells = [i \in 1 .. m |-> cells[i]]
    BY <1>2
  <2> HIDE DEF m, cells
  <2> QED
    BY <1>1, <1>3, <2>1, MadeOf
<1> HIDE DEF cells
<1>5. s = [b EXCEPT !.data = cells]
  BY DEF StoreAt, cells
<1>6. /\ s \in ByteArrays /\ s.data = cells /\ s.usesStaticBuffer = b.usesStaticBuffer
      /\ s.m_length = b.m_length /\ s.vectorSize = b.vectorSize
  <2> HIDE DEF s
  <2> QED
    BY <1>4, <1>5 DEF Good, ByteArrays
<1> HIDE DEF s
<1>7. Good(s) /\ Size(s) = Size(b) /\ getData(s) = cells
  BY <1>4, <1>6 DEF Good, Size, getData
<1> QED
  BY <1>1, <1>2, <1>4, <1>7 DEF s

\* Giving up cells leaves all of them where they are.
LEMMA ShrinkKeeps ==
  ASSUME NEW b, Good(b), NEW n \in Nat, n <= Size(b)
  PROVE  getData(Resize(b, n)) = getData(b)
<1>1. CASE ~b.usesStaticBuffer
  <2> DEFINE cells == VectorResize(b.data, b.vectorSize, n)
  <2>1. /\ n <= b.vectorSize /\ b.vectorSize \in Nat /\ b.vectorSize <= Len(b.data)
        /\ b.data \in Seq(Cells) /\ Len(b.data) \in Nat
    BY <1>1 DEF Good, ByteArrays, Size
  <2>2. Larger(n, Len(b.data)) = Len(b.data)
    BY <2>1 DEF Larger
  <2>3. cells = [i \in 1 .. Len(b.data) |-> b.data[i]]
    BY <2>1, <2>2 DEF VectorResize
  <2>4. cells = b.data
    <3> HIDE DEF cells
    <3> QED
      BY <2>1, <2>3
  <2>5. Resize(b, n) = InVector(cells, n)
    BY <1>1 DEF Resize
  <2> QED
    BY <2>4, <2>5 DEF InVector, getData
<1>2. CASE b.usesStaticBuffer
  <2>1. n <= StaticSize
    BY <1>2, ByteArrayAssumption DEF Good, ByteArrays, Size
  <2> QED
    BY <1>2, <2>1 DEF Resize, InArray, getData
<1> QED
  BY <1>1, <1>2 DEF Good, ByteArrays

\* Two sequences with the same elements are the same.
LEMMA SameSequence ==
  ASSUME NEW S, NEW s \in Seq(S), NEW t \in Seq(S), Len(s) = Len(t),
         \A i \in 1 .. Len(s) : s[i] = t[i]
  PROVE  s = t
  OBVIOUS

\* append adds its bytes at the end of the contents.
THEOREM AppendAppends ==
  ASSUME NEW b, Good(b), NEW bytes \in Seq(Cells)
  PROVE  /\ Good(AppendBytes(b, bytes))
         /\ Contents(AppendBytes(b, bytes)) = Contents(b) \o bytes
<1> DEFINE n == Size(b)
           r == Resize(b, n + Len(bytes))
           a == StoreAt(r, n, bytes)
<1>1. n \in Nat /\ Len(bytes) \in Nat
  BY DataOf
<1>2. Good(r) /\ Size(r) = n + Len(bytes) /\ \A i \in 1 .. n : getData(r)[i] = getData(b)[i]
  <2> DEFINE m == n + Len(bytes)
  <2>1. m \in Nat /\ \A i \in 1 .. n : i \in 1 .. m /\ i <= n
    BY <1>1
  <2> HIDE DEF m
  <2>2. /\ Good(Resize(b, m)) /\ Size(Resize(b, m)) = m
        /\ \A i \in 1 .. m : i <= n => getData(Resize(b, m))[i] = getData(b)[i]
    BY <2>1, ResizeKeeps, Zenon
  <2> QED
    BY <2>1, <2>2, Zenon DEF m
<1> HIDE DEF r, n
<1>3. Len(getData(r)) \in Nat /\ n + Len(bytes) <= Len(getData(r))
  BY <1>2, DataOf
<1>4. /\ Good(a) /\ Size(a) = n + Len(bytes)
      /\ \A i \in 1 .. n : getData(a)[i] = getData(b)[i]
      /\ \A i \in 1 .. Len(bytes) : getData(a)[n + i] = bytes[i]
  <2>1. /\ Good(a) /\ Size(a) = n + Len(bytes)
        /\ \A i \in 1 .. Len(getData(r)) :
             getData(a)[i] = IF i > n /\ i <= n + Len(bytes)
                             THEN bytes[i - n] ELSE getData(r)[i]
    BY <1>1, <1>2, <1>3, StoreKeeps
  <2> HIDE DEF a
  <2>2. \A i \in 1 .. n : getData(a)[i] = getData(b)[i]
    <3> TAKE i \in 1 .. n
    <3>1. i \in 1 .. Len(getData(r)) /\ ~(i > n)
      BY <1>1, <1>3
    <3> QED
      BY <1>2, <2>1, <3>1
  <2>3. \A i \in 1 .. Len(bytes) : getData(a)[n + i] = bytes[i]
    <3> TAKE i \in 1 .. Len(bytes)
    <3>1. /\ n + i \in 1 .. Len(getData(r)) /\ n + i > n /\ n + i <= n + Len(bytes)
          /\ (n + i) - n = i
      BY <1>1, <1>3
    <3> QED
      BY <2>1, <3>1
  <2> QED
    BY <2>1, <2>2, <2>3
<1>5. AppendBytes(b, bytes) = a
  BY DEF AppendBytes, a, r, n
<1> HIDE DEF a
<1>6. Contents(a) = Contents(b) \o bytes
  <2>1. /\ Contents(a) \in Seq(Cells) /\ Len(Contents(a)) = n + Len(bytes)
        /\ \A i \in 1 .. n + Len(bytes) : Contents(a)[i] = getData(a)[i]
    BY <1>4, DataOf
  <2>2. /\ Contents(b) \in Seq(Cells) /\ Len(Contents(b)) = n
        /\ \A i \in 1 .. n : Contents(b)[i] = getData(b)[i]
    BY DataOf DEF n
  <2>3. \A i \in 1 .. n + Len(bytes) : Contents(a)[i] = (Contents(b) \o bytes)[i]
    <3> TAKE i \in 1 .. n + Len(bytes)
    <3>1. CASE i <= n
      BY <1>1, <1>4, <2>1, <2>2, <3>1
    <3>2. CASE i > n
      <4>1. i - n \in 1 .. Len(bytes) /\ i = n + (i - n)
        BY <1>1, <3>2
      <4>2. getData(a)[n + (i - n)] = bytes[i - n]
        BY <1>4, <4>1
      <4>3. (Contents(b) \o bytes)[i] = bytes[i - n]
        BY <1>1, <2>2, <3>2
      <4> QED
        BY <2>1, <4>1, <4>2, <4>3
    <3>3. i <= n \/ i > n
      BY <1>1
    <3> QED
      BY <3>1, <3>2, <3>3
  <2>4. /\ Contents(b) \o bytes \in Seq(Cells)
        /\ Len(Contents(b) \o bytes) = n + Len(bytes)
    BY <1>1, <2>2
  <2> HIDE DEF n
  <2> QED
    BY <2>1, <2>3, <2>4, SameSequence
<1> QED
  BY <1>4, <1>5, <1>6

\* The copy constructor and the assignment make an equal array.
THEOREM CopyIsEqual ==
  ASSUME NEW b, Good(b), NEW right, Good(right)
  PROVE  /\ Contents(Copy(right)) = Contents(right)
         /\ Contents(Assign(b, right)) = Contents(right)
<1>1. Contents(right) \in Seq(Cells) /\ Len(Contents(right)) = Size(right)
  BY DataOf
<1>2. Contents(Copy(right)) = Contents(right)
  <2>1. Contents(Copy(right)) = Contents(EmptyByteArray) \o Contents(right)
    BY <1>1, EmptyGood, AppendAppends DEF Copy
  <2>2. Contents(EmptyByteArray) \in Seq(Cells) /\ Len(Contents(EmptyByteArray)) = 0
    BY EmptyGood, DataOf
  <2> QED
    BY <1>1, <2>1, <2>2
<1>3. Contents(Assign(b, right)) = Contents(right)
  <2> DEFINE r == Resize(b, Size(right))
             a == StoreAt(r, 0, Contents(right))
  <2>1. Size(right) \in Nat
    BY DataOf
  <2>2. Good(r) /\ Size(r) = Size(right)
    BY <2>1, ResizeKeeps
  <2> HIDE DEF r
  <2>3. Len(getData(r)) \in Nat /\ 0 + Len(Contents(right)) <= Len(getData(r))
    BY <1>1, <2>1, <2>2, DataOf
  <2>4. /\ Good(a) /\ Size(a) = Size(right)
        /\ \A i \in 1 .. Size(right) : getData(a)[i] = Contents(right)[i]
    <3> DEFINE d == getData(r)
               c == Contents(right)
    <3>1. /\ Good(a) /\ Size(a) = Size(r)
          /\ \A i \in 1 .. Len(d) :
               getData(a)[i] = IF i > 0 /\ i <= 0 + Len(c) THEN c[i - 0] ELSE d[i]
      BY <1>1, <2>2, <2>3, StoreKeeps, Zenon
    <3> HIDE DEF a, d
    <3>2. 0 + Len(c) = Size(right) /\ 0 + Len(c) <= Len(d)
      BY <1>1, <2>3 DEF d
    <3> HIDE DEF c
    <3>3. \A i \in 1 .. Size(right) :
            i \in 1 .. Len(d) /\ i > 0 /\ i <= 0 + Len(c) /\ i - 0 = i
      BY <2>1, <2>3, <3>2 DEF d
    <3>4. \A i \in 1 .. Size(right) : getData(a)[i] = c[i]
      BY <3>1, <3>3
    <3> QED
      BY <2>2, <3>1, <3>4 DEF c
  <2>5. Assign(b, right) = a
    BY DEF Assign, a, r
  <2> HIDE DEF a
  <2>6. /\ Contents(a) \in Seq(Cells) /\ Len(Contents(a)) = Size(right)
        /\ \A i \in 1 .. Size(right) : Contents(a)[i] = getData(a)[i]
    BY <2>4, DataOf
  <2> QED
    BY <1>1, <2>4, <2>5, <2>6, SameSequence
<1> QED
  BY <1>2, <1>3

-----------------------------------------------------------------------------
(***************************************************************************)
(* Formatted output                                                        *)
(***************************************************************************)

\* writeFormatted adds exactly the text, and leaves its terminator behind it.
LEMMA WriteFormattedAdds ==
  ASSUME NEW b, Good(b), NEW text \in Seq(Cells)
  PROVE  /\ Good(WriteFormatted(b, text)) /\ Terminated(WriteFormatted(b, text))
         /\ Contents(WriteFormatted(b, text)) = Contents(b) \o text
<1> DEFINE bytes == Append(text, Nul)
           ended == AppendBytes(b, bytes)
           n == Size(b) + Len(text)
           w == WriteFormatted(b, text)
<1>1. /\ Size(b) \in Nat /\ Contents(b) \in Seq(Cells) /\ Len(Contents(b)) = Size(b)
      /\ Len(text) \in Nat
  BY DataOf
<1>2. bytes \in Seq(Cells) /\ Len(bytes) = Len(text) + 1 /\ bytes[Len(text) + 1] = Nul
      /\ \A i \in 1 .. Len(text) : bytes[i] = text[i]
  BY DEF Cells
<1> HIDE DEF bytes
<1>3. Good(ended) /\ Contents(ended) = Contents(b) \o bytes
  BY <1>2, AppendAppends
<1>4. ended = StoreAt(Resize(b, Size(b) + (Len(text) + 1)), Size(b), bytes)
  BY <1>2 DEF AppendBytes
<1>5. w = Resize(ended, Size(ended) - 1)
  BY <1>4 DEF WriteFormatted, bytes
<1> HIDE DEF w, ended
<1>6. /\ Size(ended) = n + 1 /\ n \in Nat
      /\ Contents(ended)[n + 1] = Nul
      /\ \A i \in 1 .. n : Contents(ended)[i] = (Contents(b) \o text)[i]
  <2>1. Size(ended) = Len(Contents(ended))
    BY <1>3, DataOf
  <2>2. Size(ended) = n + 1 /\ n \in Nat
    BY <1>1, <1>2, <1>3, <2>1
  <2>3. Contents(ended)[n + 1] = Nul
    BY <1>1, <1>2, <1>3
  <2>4. \A i \in 1 .. n : Contents(ended)[i] = (Contents(b) \o text)[i]
    <3> TAKE i \in 1 .. n
    <3>1. CASE i <= Size(b)
      BY <1>1, <1>2, <1>3, <3>1
    <3>2. CASE i > Size(b)
      <4>1. i - Size(b) \in 1 .. Len(text)
        BY <1>1, <3>2
      <4>2. (Contents(b) \o bytes)[i] = bytes[i - Size(b)]
        BY <1>1, <1>2, <3>2
      <4>3. (Contents(b) \o text)[i] = text[i - Size(b)]
        BY <1>1, <3>2
      <4> QED
        BY <1>2, <1>3, <4>1, <4>2, <4>3
    <3>3. i <= Size(b) \/ i > Size(b)
      BY <1>1
    <3> QED
      BY <3>1, <3>2, <3>3
  <2> QED
    BY <2>2, <2>3, <2>4
<1> HIDE DEF n
<1>7. /\ Size(ended) <= Len(getData(ended)) /\ Len(getData(ended)) \in Nat
      /\ \A i \in 1 .. n + 1 : Contents(ended)[i] = getData(ended)[i]
  BY <1>3, <1>6, DataOf
<1>8. Good(w) /\ Size(w) = n /\ getData(w) = getData(ended)
  <2>1. Size(ended) - 1 = n /\ n <= Size(ended)
    BY <1>6
  <2> QED
    BY <1>3, <1>5, <1>6, <2>1, ResizeKeeps, ShrinkKeeps
<1>9. Terminated(w)
  BY <1>6, <1>7, <1>8 DEF Terminated
<1>10. Contents(w) = Contents(b) \o text
  <2>1. /\ Contents(w) \in Seq(Cells) /\ Len(Contents(w)) = n
        /\ \A i \in 1 .. n : Contents(w)[i] = getData(ended)[i]
    BY <1>8, DataOf
  <2>2. Contents(b) \o text \in Seq(Cells) /\ Len(Contents(b) \o text) = n
    BY <1>1 DEF n
  <2>3. \A i \in 1 .. n : Contents(w)[i] = (Contents(b) \o text)[i]
    <3> TAKE i \in 1 .. n
    <3>1. i \in 1 .. n + 1
      BY <1>6
    <3>2. Contents(w)[i] = getData(ended)[i] /\ Contents(ended)[i] = getData(ended)[i]
      BY <1>7, <2>1, <3>1
    <3>3. Contents(ended)[i] = (Contents(b) \o text)[i]
      BY <1>6
    <3> QED
      BY <3>2, <3>3
  <2> QED
    BY <2>1, <2>2, <2>3, SameSequence
<1> QED
  BY <1>8, <1>9, <1>10 DEF w

\* A C string ends at the first terminator.
LEMMA CStringOf ==
  ASSUME NEW b, Good(b), NEW n \in Nat, n < Len(getData(b)), getData(b)[n + 1] = Nul,
         \A i \in 1 .. n : getData(b)[i] # Nul
  PROVE  CString(b) = SubSeq(getData(b), 1, n)
<1> DEFINE cells == getData(b)
           ends  == {m \in 0 .. Len(cells) - 1 :
                       cells[m + 1] = Nul /\ \A i \in 1 .. m : cells[i] # Nul}
           end   == CHOOSE m \in ends : TRUE
<1>1. Len(cells) \in Nat
  BY DataOf
<1>2. n \in ends
  BY <1>1
<1>3. \A m \in ends : m = n
  <2> TAKE m \in ends
  <2>1. m \in Nat /\ cells[m + 1] = Nul /\ \A i \in 1 .. m : cells[i] # Nul
    BY <1>1
  <2>2. ~(m < n)
    <3>1. m < n => m + 1 \in 1 .. n
      BY <2>1
    <3> QED
      BY <2>1, <3>1
  <2>3. ~(n < m)
    <3>1. n < m => n + 1 \in 1 .. m
      BY <2>1
    <3> QED
      BY <2>1, <3>1
  <2> QED
    BY <2>1, <2>2, <2>3
<1>4. CString(b) = SubSeq(cells, 1, end)
  BY <1>2 DEF CString
<1> HIDE DEF ends
<1>5. end = n
  BY <1>2, <1>3
<1> QED
  BY <1>4, <1>5

\* Whatever is printed is made of cells.
LEMMA CStringType ==
  ASSUME NEW b, Good(b)
  PROVE  CString(b) \in Seq(Cells)
<1> DEFINE cells == getData(b)
           ends  == {m \in 0 .. Len(cells) - 1 :
                       cells[m + 1] = Nul /\ \A i \in 1 .. m : cells[i] # Nul}
           end   == CHOOSE m \in ends : TRUE
<1>1. cells \in Seq(Cells) /\ Len(cells) \in Nat
  BY DataOf
<1>2. CASE ends = {}
  <2>1. CString(b) = Append(cells, Garbage)
    BY <1>2 DEF CString
  <2>2. Garbage \in Cells
    BY DEF Cells
  <2> HIDE DEF cells
  <2> QED
    BY <1>1, <2>1, <2>2
<1>3. CASE ends # {}
  <2>1. end \in ends
    BY <1>3
  <2>2. end \in 0 .. Len(cells)
    BY <1>1, <2>1
  <2>3. CString(b) = SubSeq(cells, 1, end)
    BY <1>3 DEF CString
  <2> HIDE DEF end, cells
  <2> QED
    BY <1>1, <2>2, <2>3
<1> QED
  BY <1>2, <1>3

\* An array of characters with its terminator prints as its contents.
LEMMA TerminatedPrints ==
  ASSUME NEW b, Good(b), Terminated(b), Contents(b) \in Seq(Chars)
  PROVE  CString(b) = Contents(b)
<1>1. /\ Size(b) \in Nat /\ Len(Contents(b)) = Size(b)
      /\ \A i \in 1 .. Size(b) : Contents(b)[i] = getData(b)[i]
  BY DataOf
<1>2. \A i \in 1 .. Size(b) : Contents(b)[i] \in Chars
  BY <1>1
<1>3. \A i \in 1 .. Size(b) : getData(b)[i] # Nul
  BY <1>1, <1>2 DEF Chars
<1> QED
  BY <1>1, <1>3, CStringOf DEF Terminated, Contents

-----------------------------------------------------------------------------
(***************************************************************************)
(* The invariant                                                           *)
(***************************************************************************)

\* Both arrays are well-formed, the text has no terminator of its own.
ArraysGood ==
  Good(m_content) /\ Good(suffixArray) /\ written \in Seq(Chars)

\* The suffix is a C string from the moment it is made.
SuffixReady ==
  pc \in {"measure", "lineBreak", "measureAgain", "pad", "suffixText"} =>
    CString(suffixArray) \in Seq(Chars)

\* With its terminator the text is a C string, and it is printed at the end.
ReadyToPrint ==
  /\ pc = "print" /\ ~failed => CString(m_content) = written
  /\ pc # "done" => printed = NotPrinted

IInv == /\ TypeOK /\ ArraysGood /\ SuffixReady /\ ReadyToPrint
        /\ ContentIsWritten /\ PrintedWhole

\* The texts the backends write.
LEMMA TextType ==
  ASSUME NEW cell \in Chars, NEW n \in Nat
  PROVE  Text(cell, n) \in Seq(Chars)
<1> DEFINE s == Text(cell, n)
<1>1. s = [i \in 1 .. n |-> s[i]] /\ \A i \in 1 .. n : s[i] \in Chars
  BY DEF Text
<1> QED
  BY <1>1, MadeOf

\* Texts are made of characters, and characters are cells.
LEMMA CellTypes ==
  /\ {"visible", "blank", "newline", "escape"} \subseteq Chars /\ Chars \subseteq Cells
  /\ \A s \in Seq(Chars) : s \in Seq(Cells)
  /\ <<"blank">> \in Seq(Chars) /\ <<"newline">> \in Seq(Chars)
<1>1. /\ {"visible", "blank", "newline", "escape"} \subseteq Chars
      /\ Chars \subseteq Cells
  BY LineAssumption DEF Chars, Cells
<1> QED
  BY <1>1

\* A write keeps the invariant, whether the backend is enabled or not.
LEMMA WriteStep ==
  ASSUME TypeOK, ArraysGood, ~failed => Contents(m_content) = written,
         NEW text \in Seq(Chars), Write(text)
  PROVE  /\ Good(m_content') /\ written' \in Seq(Chars)
         /\ m_content' \in ByteArrays /\ Size(m_content') <= Len(getData(m_content'))
         /\ ~failed => Contents(m_content') = written'
<1>1. CASE enabled
  <2>1. m_content' = WriteFormatted(m_content, text) /\ written' = written \o text
    BY <1>1 DEF Write
  <2>2. Good(m_content') /\ Contents(m_content') = Contents(m_content) \o text
    BY <2>1, CellTypes, WriteFormattedAdds DEF ArraysGood
  <2>3. written' \in Seq(Chars)
    BY <2>1 DEF ArraysGood
  <2>4. m_content' \in ByteArrays /\ Size(m_content') <= Len(getData(m_content'))
    BY <2>2, DataOf DEF Good
  <2> QED
    BY <2>1, <2>2, <2>3, <2>4
<1>2. CASE ~enabled
  <2>1. m_content' = m_content /\ written' = written
    BY <1>2 DEF Write
  <2> QED
    BY <2>1, DataOf DEF ArraysGood, Good
<1> QED
  BY <1>1, <1>2

\* The two colour operators write an escape sequence or nothing.
LEMMA ColorStep ==
  ASSUME TypeOK, ArraysGood, ~failed => Contents(m_content) = written,
         WriteHeaderColor \/ ResetColor
  PROVE  /\ Good(m_content') /\ written' \in Seq(Chars)
         /\ m_content' \in ByteArrays /\ Size(m_content') <= Len(getData(m_content'))
         /\ ~failed => Contents(m_content') = written'
         /\ m_invisibleCharacterCount' \in Nat
<1>1. CASE Colors
  <2>1. \/ Write(Text("escape", ColorLength)) \/ Write(Text("escape", ResetLength))
    BY <1>1 DEF WriteHeaderColor, ResetColor
  <2>2. /\ Text("escape", ColorLength) \in Seq(Chars)
        /\ Text("escape", ResetLength) \in Seq(Chars)
    BY LineAssumption, CellTypes, TextType
  <2>3. m_invisibleCharacterCount' \in Nat
    BY <1>1, LineAssumption DEF WriteHeaderColor, ResetColor, TypeOK
  <2> QED
    BY <2>1, <2>2, <2>3, WriteStep
<1>2. CASE ~Colors
  <2>1. UNCHANGED <<m_content, written, m_invisibleCharacterCount>>
    BY <1>2 DEF WriteHeaderColor, ResetColor
  <2> QED
    BY <2>1, DataOf DEF ArraysGood, Good, TypeOK
<1> QED
  BY <1>1, <1>2

\* getSuffix makes a C string of characters.
LEMMA SuffixIsText ==
  ASSUME m_enableThreadInfo \in BOOLEAN
  PROVE  /\ Good(Suffix) /\ CString(Suffix) \in Seq(Chars)
         /\ Good(WriteFormatted(Suffix, <<"newline">>))
         /\ CString(WriteFormatted(Suffix, <<"newline">>)) \in Seq(Chars)
<1> DEFINE location == WriteFormatted(EmptyByteArray, Text("visible", SuffixLength))
           both == WriteFormatted(location, Text("visible", ThreadSuffixLength))
           line == WriteFormatted(Suffix, <<"newline">>)
<1>1. /\ Text("visible", SuffixLength) \in Seq(Chars)
      /\ Text("visible", ThreadSuffixLength) \in Seq(Chars)
  BY LineAssumption, CellTypes, TextType
<1>2. Good(EmptyByteArray) /\ Contents(EmptyByteArray) \in Seq(Chars)
  <2>1. /\ Contents(EmptyByteArray) \in Seq(Cells)
        /\ Len(Contents(EmptyByteArray)) = 0
    BY EmptyGood, DataOf
  <2>2. Contents(EmptyByteArray) = << >>
    BY <2>1
  <2> QED
    BY <2>2, EmptyGood
<1>3. Good(location) /\ Terminated(location) /\ Contents(location) \in Seq(Chars)
  <2>1. /\ Good(location) /\ Terminated(location)
        /\ Contents(location) = Contents(EmptyByteArray) \o Text("visible", SuffixLength)
    BY <1>1, <1>2, CellTypes, WriteFormattedAdds
  <2> HIDE DEF location
  <2> QED
    BY <1>1, <1>2, <2>1
<1> HIDE DEF location
<1>4. Good(both) /\ Terminated(both) /\ Contents(both) \in Seq(Chars)
  <2>1. /\ Good(both) /\ Terminated(both)
        /\ Contents(both) = Contents(location) \o Text("visible", ThreadSuffixLength)
    BY <1>1, <1>3, CellTypes, WriteFormattedAdds
  <2> HIDE DEF both
  <2> QED
    BY <1>1, <1>3, <2>1
<1>5. Suffix = both \/ Suffix = location
  BY DEF Suffix, location
<1> HIDE DEF both
<1>6. Good(Suffix) /\ Terminated(Suffix) /\ Contents(Suffix) \in Seq(Chars)
  BY <1>3, <1>4, <1>5
<1>7. Good(line) /\ Terminated(line) /\ Contents(line) \in Seq(Chars)
  <2>1. /\ Good(line) /\ Terminated(line)
        /\ Contents(line) = Contents(Suffix) \o <<"newline">>
    BY <1>6, CellTypes, WriteFormattedAdds
  <2> HIDE DEF line
  <2> QED
    BY <1>6, <2>1, CellTypes
<1> QED
  BY <1>6, <1>7, TerminatedPrints

-----------------------------------------------------------------------------
(***************************************************************************)
(* Every step keeps the invariant                                          *)
(***************************************************************************)

LEMMA InitInv == Init => IInv
<1> SUFFICES ASSUME Init PROVE IInv
  OBVIOUS
<1>1. /\ Good(EmptyByteArray) /\ EmptyByteArray \in ByteArrays
      /\ Size(EmptyByteArray) <= Len(getData(EmptyByteArray))
      /\ Contents(EmptyByteArray) = << >>
  <2>1. /\ Contents(EmptyByteArray) \in Seq(Cells)
        /\ Len(Contents(EmptyByteArray)) = 0
    BY EmptyGood, DataOf
  <2> QED
    BY <2>1, EmptyGood, DataOf DEF Good
<1>2. NotPrinted \in Seq(Cells) /\ << >> \in Seq(Cells) /\ << >> \in Seq(Chars)
  BY DEF NotPrinted, Cells
<1>3. TypeOK
  BY <1>1, <1>2, LineAssumption DEF Init, TypeOK
<1>4. ArraysGood
  BY <1>1, <1>2 DEF Init, ArraysGood
<1>5. SuffixReady /\ ReadyToPrint /\ PrintedWhole
  BY DEF Init, SuffixReady, ReadyToPrint, PrintedWhole
<1>6. ContentIsWritten
  BY <1>1 DEF Init, ContentIsWritten
<1> QED
  BY <1>3, <1>4, <1>5, <1>6 DEF IInv

\* What an action that writes to m_content, or leaves it, has to keep.
Kept ==
  /\ Good(m_content') /\ written' \in Seq(Chars)
  /\ m_content' \in ByteArrays /\ Size(m_content') <= Len(getData(m_content'))
  /\ ~failed' => Contents(m_content') = written'

\* The actions before the text is terminated, one by one.
LEMMA WritingStep ==
  ASSUME IInv,
         \/ InitData \/ PrefixColor \/ WritePrefix \/ PrefixColorEnd
         \/ WriteValue \/ FlushLog \/ FooterColor \/ Measure \/ LineBreak
         \/ MeasureAgain \/ Pad \/ EndPad \/ WriteSuffix \/ FooterColorEnd
  PROVE  IInv'
<1> USE DEF IInv
<1>1. /\ pc \notin {"print", "done", "terminate", "threw", "suffix"}
      /\ pc' \notin {"print", "threw"}
      /\ UNCHANGED <<settings, environment, suffixArray, printed, failed>>
      /\ pc \in {"measure", "lineBreak", "measureAgain", "pad", "suffixText"}
           \/ pc' \notin {"measure", "lineBreak", "measureAgain", "pad", "suffixText"}
  BY DEF InitData, PrefixColor, WritePrefix, PrefixColorEnd, WriteValue, FlushLog,
         FooterColor, Measure, LineBreak, MeasureAgain, Pad, EndPad, WriteSuffix,
         FooterColorEnd, Goto, TypeOK, settings, environment
<1>2. ~failed => Contents(m_content) = written
  BY <1>1 DEF ContentIsWritten
<1>3. Kept /\ m_invisibleCharacterCount' \in Nat /\ padding' \in Nat
  <2>1. CASE PrefixColor \/ FooterColor \/ PrefixColorEnd \/ FooterColorEnd
    <3>1. (WriteHeaderColor \/ ResetColor) /\ padding' = padding /\ failed' = failed
      BY <2>1 DEF PrefixColor, FooterColor, PrefixColorEnd, FooterColorEnd
    <3> QED
      BY <1>2, <3>1, ColorStep DEF Kept, TypeOK
  <2>2. CASE InitData \/ FlushLog \/ Measure \/ MeasureAgain \/ EndPad
    <3>1. UNCHANGED <<m_content, written, m_invisibleCharacterCount, failed>>
      BY <2>2 DEF InitData, FlushLog, Measure, MeasureAgain, EndPad
    <3>2. padding' \in Nat
      <4>1. CASE Measure
        <5>1. Size(m_content) \in Nat /\ Size(suffixArray) \in Nat
          BY DataOf DEF ArraysGood
        <5> QED
          BY <4>1, <5>1, LineAssumption DEF Measure, TypeOK, Goto
      <4>2. CASE MeasureAgain
        <5>1. Size(suffixArray) \in Nat
          BY DataOf DEF ArraysGood
        <5> QED
          BY <4>2, <5>1 DEF MeasureAgain, Larger, TypeOK
      <4>3. CASE InitData \/ FlushLog \/ EndPad
        BY <4>3 DEF InitData, FlushLog, EndPad, TypeOK
      <4> QED
        BY <2>2, <4>1, <4>2, <4>3
    <3> QED
      BY <1>2, <3>1, <3>2 DEF Kept, TypeOK, ArraysGood
  <2>3. CASE WritePrefix
    <3>1. Text("visible", PrefixLength) \in Seq(Chars)
      BY LineAssumption, CellTypes, TextType
    <3> QED
      BY <1>2, <2>3, <3>1, WriteStep DEF WritePrefix, Kept, TypeOK
  <2>4. CASE WriteValue
    <3>1. PICK n \in ValueLengths : Write(Text("visible", n))
      BY <2>4 DEF WriteValue
    <3>2. Text("visible", n) \in Seq(Chars)
      BY LineAssumption, CellTypes, TextType
    <3> QED
      BY <1>2, <2>4, <3>1, <3>2, WriteStep DEF WriteValue, Kept, TypeOK
  <2>5. CASE LineBreak
    BY <1>2, <2>5, CellTypes, WriteStep DEF LineBreak, Kept, TypeOK
  <2>6. CASE Pad
    <3>1. padding' \in Nat
      BY <2>6 DEF Pad, TypeOK
    <3>2. /\ Write(<<"blank">>)
          /\ UNCHANGED <<m_invisibleCharacterCount, failed>>
      BY <2>6 DEF Pad
    <3> QED
      BY <1>2, <3>1, <3>2, CellTypes, WriteStep DEF Kept, TypeOK
  <2>7. CASE WriteSuffix
    <3>1. CString(suffixArray) \in Seq(Chars)
      BY <2>7 DEF WriteSuffix, SuffixReady
    <3> QED
      BY <1>2, <2>7, <3>1, WriteStep DEF WriteSuffix, Kept, TypeOK
  <2> QED
    BY <2>1, <2>2, <2>3, <2>4, <2>5, <2>6, <2>7
<1>4. written' \in Seq(Cells)
  BY <1>3, CellTypes DEF Kept
<1>5. pc' \in {"color", "prefix", "colorEnd", "open", "footerColor", "suffix", "measure",
              "lineBreak", "measureAgain", "pad", "suffixText", "footerColorEnd",
              "terminate", "done"} /\ values' \in Nat
  BY DEF InitData, PrefixColor, WritePrefix, PrefixColorEnd, WriteValue, FlushLog,
         FooterColor, Measure, LineBreak, MeasureAgain, Pad, EndPad, WriteSuffix,
         FooterColorEnd, Goto, TypeOK
<1>6. TypeOK'
  BY <1>1, <1>3, <1>4, <1>5 DEF TypeOK, Kept, settings, environment
<1>7. ArraysGood'
  BY <1>1, <1>3 DEF ArraysGood, Kept
<1>8. SuffixReady'
  BY <1>1 DEF SuffixReady
<1>9. ReadyToPrint' /\ PrintedWhole'
  BY <1>1 DEF ReadyToPrint, PrintedWhole
<1>10. ContentIsWritten'
  BY <1>3 DEF ContentIsWritten, Kept
<1> QED
  BY <1>6, <1>7, <1>8, <1>9, <1>10

\* A value that cannot be converted takes the last cell away.
LEMMA FailingStep ==
  ASSUME IInv, WriteValueFails
  PROVE  IInv'
<1> USE DEF IInv
<1>1. /\ Good(m_content') /\ m_content' \in ByteArrays
      /\ Size(m_content') <= Len(getData(m_content'))
  <2>1. CASE Size(m_content) = 0
    BY <2>1 DEF WriteValueFails, ArraysGood, TypeOK
  <2>2. CASE Size(m_content) # 0
    <3>1. Size(m_content) - 1 \in Nat
      BY <2>2, DataOf DEF ArraysGood
    <3>2. m_content' = Resize(m_content, Size(m_content) - 1)
      BY <2>2 DEF WriteValueFails, WriteFormattedFails
    <3>3. Good(m_content')
      BY <3>1, <3>2, ResizeKeeps DEF ArraysGood
    <3> QED
      BY <3>3, DataOf DEF Good
  <2> QED
    BY <2>1, <2>2
<1>2. /\ pc = "open" /\ pc' \in {"open", "threw"} /\ failed' = TRUE /\ values' \in Nat
      /\ UNCHANGED <<settings, environment, m_invisibleCharacterCount, suffixArray,
                     padding, printed, written>>
  BY DEF WriteValueFails, Goto, TypeOK
<1>3. TypeOK'
  BY <1>1, <1>2 DEF TypeOK, settings, environment
<1> QED
  BY <1>1, <1>2, <1>3 DEF ArraysGood, SuffixReady, ReadyToPrint, ContentIsWritten, PrintedWhole

\* The suffix is formatted into an array of its own.
LEMMA SuffixStep ==
  ASSUME IInv, GetSuffix
  PROVE  IInv'
<1> USE DEF IInv
<1>1. Good(suffixArray') /\ CString(suffixArray') \in Seq(Chars)
  BY SuffixIsText DEF GetSuffix, TypeOK
<1>2. suffixArray' \in ByteArrays /\ Size(suffixArray') <= Len(getData(suffixArray'))
  BY <1>1, DataOf DEF Good
<1>3. /\ pc = "suffix" /\ pc' \in {"measure", "suffixText"}
      /\ UNCHANGED <<settings, environment, m_content, m_invisibleCharacterCount,
                     padding, printed, written, failed, values>>
  BY DEF GetSuffix, Goto
<1>4. TypeOK'
  BY <1>2, <1>3 DEF TypeOK, settings, environment
<1> QED
  BY <1>1, <1>3, <1>4
     DEF ArraysGood, SuffixReady, ReadyToPrint, ContentIsWritten, PrintedWhole

\* The terminal null character makes the text a C string.
LEMMA TerminateStep ==
  ASSUME IInv, Terminate
  PROVE  IInv'
<1> USE DEF IInv
<1> DEFINE n == Size(m_content)
           grown == Resize(m_content, n + 1)
           ended == StoreAt(grown, n, <<Nul>>)
<1>1. /\ pc = "terminate" /\ pc' = "print" /\ m_content' = ended
      /\ UNCHANGED <<settings, environment, m_invisibleCharacterCount, suffixArray,
                     padding, printed, written, failed, values>>
  BY DEF Terminate, Goto
<1>2. n \in Nat /\ Good(m_content)
  BY DataOf DEF ArraysGood
<1>3. /\ Good(grown) /\ Size(grown) = n + 1
      /\ \A i \in 1 .. n + 1 : i <= n => getData(grown)[i] = getData(m_content)[i]
  BY <1>2, ResizeKeeps
<1>4. n + 1 <= Len(getData(grown)) /\ Len(getData(grown)) \in Nat
  BY <1>3, DataOf
<1> HIDE DEF grown, n
<1>5. <<Nul>> \in Seq(Cells) /\ Len(<<Nul>>) = 1 /\ <<Nul>>[1] = Nul
  BY DEF Cells
<1>6. /\ Good(ended) /\ Len(getData(ended)) = Len(getData(grown))
      /\ \A i \in 1 .. Len(getData(grown)) :
           getData(ended)[i] = IF i > n /\ i <= n + Len(<<Nul>>)
                               THEN <<Nul>>[i - n] ELSE getData(grown)[i]
  BY <1>2, <1>3, <1>4, <1>5, StoreKeeps
<1> HIDE DEF ended
<1>7. /\ getData(ended)[n + 1] = Nul /\ n < Len(getData(ended))
      /\ \A i \in 1 .. n : getData(ended)[i] = getData(m_content)[i]
  BY <1>2, <1>3, <1>4, <1>5, <1>6
<1>8. ~failed => CString(ended) = written
  <2> SUFFICES ASSUME ~failed PROVE CString(ended) = written
    OBVIOUS
  <2>1. Contents(m_content) = written
    BY <1>1 DEF ContentIsWritten
  <2>2. /\ written \in Seq(Chars) /\ Len(written) = n
        /\ \A i \in 1 .. n : written[i] = getData(m_content)[i]
    BY <1>2, <2>1, DataOf DEF ArraysGood, n
  <2>3. \A i \in 1 .. n : getData(ended)[i] = written[i] /\ getData(ended)[i] # Nul
    BY <1>7, <2>2 DEF Chars
  <2>4. CString(ended) = SubSeq(getData(ended), 1, n)
    BY <1>2, <1>6, <1>7, <2>3, CStringOf
  <2>5. getData(ended) \in Seq(Cells) /\ Len(getData(ended)) \in Nat
    BY <1>6, DataOf
  <2>6. /\ SubSeq(getData(ended), 1, n) \in Seq(Cells)
        /\ Len(SubSeq(getData(ended), 1, n)) = n
        /\ \A i \in 1 .. n : SubSeq(getData(ended), 1, n)[i] = getData(ended)[i]
    BY <1>2, <1>7, <2>5
  <2>7. written \in Seq(Cells)
    BY <2>2, CellTypes
  <2> QED
    BY <2>2, <2>3, <2>4, <2>6, <2>7, SameSequence
<1>9. ended \in ByteArrays /\ Size(ended) <= Len(getData(ended))
  BY <1>6, DataOf DEF Good
<1>10. TypeOK'
  BY <1>1, <1>9 DEF TypeOK, settings, environment
<1> QED
  BY <1>1, <1>6, <1>8, <1>10
     DEF ArraysGood, SuffixReady, ReadyToPrint, ContentIsWritten, PrintedWhole

\* What is printed is the C string.
LEMMA PrintStep ==
  ASSUME IInv, PrintLine
  PROVE  IInv'
<1> USE DEF IInv
<1>1. /\ pc = "print" /\ pc' = "done" /\ printed' = CString(m_content)
      /\ UNCHANGED <<settings, environment, m_content, m_invisibleCharacterCount,
                     suffixArray, padding, written, failed, values>>
  BY DEF PrintLine, Goto
<1>2. printed' \in Seq(Cells)
  BY <1>1, CStringType DEF ArraysGood
<1>3. TypeOK'
  BY <1>1, <1>2 DEF TypeOK, settings, environment
<1> QED
  BY <1>1, <1>3
     DEF ArraysGood, SuffixReady, ReadyToPrint, ContentIsWritten, PrintedWhole

\* The other threads and the terminal touch no part of the entry.
LEMMA ChangeStep ==
  ASSUME IInv, ChangeLevel \/ ResizeTerminal
  PROVE  IInv'
<1> USE DEF IInv
<1>1. /\ enabled' \in BOOLEAN /\ consoleWidth' \in Nat /\ changed' \in BOOLEAN
      /\ changes' \in Nat
      /\ UNCHANGED <<settings, pc, m_content, m_invisibleCharacterCount, suffixArray,
                     padding, printed, written, failed, values>>
  <2>1. Changing
    BY DEF ChangeLevel, ResizeTerminal
  <2>2. enabled' \in BOOLEAN
    BY Zenon DEF ChangeLevel, ResizeTerminal, TypeOK
  <2>3. consoleWidth' \in Nat
    BY LineAssumption DEF ChangeLevel, ResizeTerminal, TypeOK
  <2> QED
    BY <2>1, <2>2, <2>3 DEF Changing, TypeOK
<1>2. TypeOK'
  BY <1>1 DEF TypeOK, settings
<1> QED
  BY <1>1, <1>2 DEF ArraysGood, SuffixReady, ReadyToPrint, ContentIsWritten, PrintedWhole

LEMMA NextInv == IInv /\ [Next]_vars => IInv'
<1> SUFFICES ASSUME IInv, [Next]_vars PROVE IInv'
  OBVIOUS
<1>1. CASE UNCHANGED vars
  BY <1>1 DEF IInv, TypeOK, ArraysGood, SuffixReady, ReadyToPrint, ContentIsWritten,
              PrintedWhole, vars, settings, environment
<1>2. CASE Next
  BY <1>1, <1>2, WritingStep, FailingStep, SuffixStep, TerminateStep, PrintStep, ChangeStep
     DEF Next, Done
<1> QED
  BY <1>1, <1>2

-----------------------------------------------------------------------------
(***************************************************************************)
(* The theorems                                                            *)
(***************************************************************************)

THEOREM Invariant == Spec => []IInv
  BY InitInv, NextInv, PTL DEF Spec

\* The parts of an entry keep their types for every size of the fixed array.
THEOREM TypesCorrect == Spec => []TypeOK
<1>1. IInv => TypeOK
  BY DEF IInv
<1> QED
  BY <1>1, Invariant, PTL

\* A ByteArray holds what writeFormatted was given, in the fixed array, in the
\* vector and across the move from one to the other.
THEOREM ContentHoldsWhatIsWritten == Spec => []ContentIsWritten
<1>1. IInv => ContentIsWritten
  BY DEF IInv
<1> QED
  BY <1>1, Invariant, PTL

\* The line that is printed is all of the text and nothing else, whatever the
\* level and the terminal do meanwhile.
THEOREM LinesArePrintedWhole == Spec => []PrintedWhole
<1>1. IInv => PrintedWhole
  BY DEF IInv
<1> QED
  BY <1>1, Invariant, PTL

\* flushLog never runs into the assertion of operator[].
THEOREM NoAssertionFails == Spec => []AssertionsHold
<1>1. IInv => AssertionsHold
  <2> SUFFICES ASSUME IInv PROVE AssertionsHold
    OBVIOUS
  <2> DEFINE n == Size(m_content)
             grown == Resize(m_content, n + 1)
  <2>1. n \in Nat
    BY DataOf DEF IInv, ArraysGood
  <2>2. Good(grown) /\ Size(grown) = n + 1
    BY <2>1, ResizeKeeps DEF IInv, ArraysGood
  <2>3. IndexAllowed(grown, n)
    <3> HIDE DEF grown, n
    <3> QED
      BY <2>1, <2>2 DEF Good, ByteArrays, Size, IndexAllowed
  <2> QED
    BY <2>3 DEF AssertionsHold
<1> QED
  BY <1>1, Invariant, PTL

-----------------------------------------------------------------------------
(***************************************************************************)
(* Columns and line ends of a text                                         *)
(***************************************************************************)

\* Where the cells of a concatenation come from.
LEMMA CellsOfConcat ==
  ASSUME NEW s \in Seq(Cells), NEW t \in Seq(Cells)
  PROVE  /\ s \o t \in Seq(Cells) /\ Len(s) \in Nat /\ Len(t) \in Nat
         /\ Len(s \o t) = Len(s) + Len(t)
         /\ \A i \in 1 .. Len(s) : (s \o t)[i] = s[i]
         /\ \A i \in 1 .. Len(t) : (s \o t)[Len(s) + i] = t[i]
<1> DEFINE u == s \o t
<1>1. /\ u \in Seq(Cells) /\ Len(u) = Len(s) + Len(t)
      /\ \A i \in 1 .. Len(s) + Len(t) : u[i] = IF i <= Len(s) THEN s[i] ELSE t[i - Len(s)]
  BY ConcatProperties, Zenon
<1>2. Len(s) \in Nat /\ Len(t) \in Nat
  BY LenProperties
<1> HIDE DEF u
<1>3. \A i \in 1 .. Len(s) : u[i] = s[i]
  BY <1>1, <1>2
<1>4. \A i \in 1 .. Len(t) : u[Len(s) + i] = t[i]
  <2> TAKE i \in 1 .. Len(t)
  <2>1. /\ Len(s) + i \in 1 .. Len(s) + Len(t) /\ ~(Len(s) + i <= Len(s))
        /\ (Len(s) + i) - Len(s) = i
    BY <1>2
  <2> QED
    BY <1>1, <2>1
<1> QED
  BY <1>1, <1>2, <1>3, <1>4 DEF u

\* The positions of a text with some kinds of cells are finitely many.
LEMMA SomeCells ==
  ASSUME NEW s, NEW kinds, Len(s) \in Nat
  PROVE  IsFiniteSet({i \in 1 .. Len(s) : s[i] \in kinds})
<1> DEFINE S == {i \in 1 .. Len(s) : s[i] \in kinds}
<1>1. IsFiniteSet(1 .. Len(s))
  BY FS_Interval
<1>2. S \in SUBSET (1 .. Len(s))
  OBVIOUS
<1> HIDE DEF S
<1>3. IsFiniteSet(S)
  BY <1>1, <1>2, FS_Subset
<1> QED
  BY <1>3 DEF S

\* The visible cells of a concatenation are those of both parts.
LEMMA VisibleAdds ==
  ASSUME NEW s \in Seq(Cells), NEW t \in Seq(Cells)
  PROVE  VisibleCells(s \o t) = VisibleCells(s) + VisibleCells(t)
<1> DEFINE u == s \o t
           Seen == {"visible", "blank"}
           A == {i \in 1 .. Len(s) : s[i] \in Seen}
           B == {i \in 1 .. Len(t) : t[i] \in Seen}
           C == {j \in Len(s) + 1 .. Len(s) + Len(t) : t[j - Len(s)] \in Seen}
           D == {i \in 1 .. Len(u) : u[i] \in Seen}
           f == [i \in B |-> Len(s) + i]
<1>1. /\ Len(s) \in Nat /\ Len(t) \in Nat /\ Len(u) = Len(s) + Len(t)
      /\ \A i \in 1 .. Len(s) : u[i] = s[i]
      /\ \A i \in 1 .. Len(t) : u[Len(s) + i] = t[i]
  BY CellsOfConcat
<1> HIDE DEF u
<1>2. IsFiniteSet(A) /\ IsFiniteSet(B)
  BY <1>1, SomeCells
<1>3. f \in Bijection(B, C)
  <2>1. f \in [B -> C]
    BY <1>1
  <2>2. \A a, b \in B : f[a] = f[b] => a = b
    BY <1>1
  <2>3. \A c \in C : \E b \in B : f[b] = c
    <3> TAKE c \in C
    <3>1. c - Len(s) \in B /\ f[c - Len(s)] = c
      BY <1>1
    <3> QED
      BY <3>1
  <2> QED
    BY <2>1, <2>2, <2>3 DEF Bijection, Injection, Surjection, IsInjective
<1>4. IsFiniteSet(C) /\ Cardinality(C) = Cardinality(B)
  <2>1. ExistsBijection(B, C)
    BY <1>3 DEF ExistsBijection
  <2> HIDE DEF B, C
  <2> QED
    BY <1>2, <2>1, FS_Bijection
<1>5. A \cap C = {}
  BY <1>1
<1>6. D = A \cup C
  <2>1. \A i \in 1 .. Len(s) : i \in D <=> i \in A
    BY <1>1
  <2>2. \A i \in Len(s) + 1 .. Len(s) + Len(t) : i \in D <=> i \in C
    <3> TAKE i \in Len(s) + 1 .. Len(s) + Len(t)
    <3>1. i - Len(s) \in 1 .. Len(t) /\ i = Len(s) + (i - Len(s)) /\ i \in 1 .. Len(u)
      BY <1>1
    <3>2. u[i] = t[i - Len(s)]
      BY <1>1, <3>1
    <3> QED
      BY <3>1, <3>2
  <2>3. \A i \in 1 .. Len(u) : i \in 1 .. Len(s) \/ i \in Len(s) + 1 .. Len(s) + Len(t)
    BY <1>1
  <2>4. D \subseteq 1 .. Len(u) /\ A \subseteq 1 .. Len(u) /\ C \subseteq 1 .. Len(u)
    BY <1>1
  <2>5. \A i \in 1 .. Len(s) : i \notin C
    BY <1>1
  <2>6. \A i \in Len(s) + 1 .. Len(s) + Len(t) : i \notin A
    BY <1>1
  <2> HIDE DEF A, C, D
  <2> QED
    BY <2>1, <2>2, <2>3, <2>4, <2>5, <2>6
<1> HIDE DEF A, B, C, D
<1>7. Cardinality(D) = Cardinality(A) + Cardinality(C) - Cardinality({})
  BY <1>2, <1>4, <1>5, <1>6, FS_Union
<1>8. Cardinality(A) \in Nat /\ Cardinality(B) \in Nat
  BY <1>2, FS_CardinalityType
<1>9. Cardinality(D) = Cardinality(A) + Cardinality(B)
  BY <1>4, <1>7, <1>8, FS_EmptySet
<1> QED
  BY <1>9 DEF VisibleCells, A, B, D, u

\* The number of visible cells is a number.
LEMMA VisibleType ==
  ASSUME NEW s \in Seq(Cells)
  PROVE  VisibleCells(s) \in Nat
<1>1. IsFiniteSet({i \in 1 .. Len(s) : s[i] \in {"visible", "blank"}})
  BY SomeCells, LenProperties
<1> QED
  BY <1>1, FS_CardinalityType DEF VisibleCells

\* The visible cells of the texts that the backends write.
LEMMA VisibleTexts ==
  ASSUME NEW n \in Nat
  PROVE  /\ VisibleCells(Text("visible", n)) = n
         /\ VisibleCells(Text("escape", n)) = 0
         /\ VisibleCells(<<"blank">>) = 1 /\ VisibleCells(<<"newline">>) = 0
         /\ VisibleCells(<< >>) = 0
<1>1. VisibleCells(Text("visible", n)) = n
  <2>1. {i \in 1 .. Len(Text("visible", n)) :
           Text("visible", n)[i] \in {"visible", "blank"}} = 1 .. n
    BY DEF Text
  <2>2. Cardinality(1 .. n) = IF 1 > n THEN 0 ELSE n - 1 + 1
    BY FS_Interval
  <2>3. Cardinality(1 .. n) = n
    BY <2>2
  <2> QED
    BY <2>1, <2>3 DEF VisibleCells
<1>2. VisibleCells(Text("escape", n)) = 0
  <2>1. {i \in 1 .. Len(Text("escape", n)) :
           Text("escape", n)[i] \in {"visible", "blank"}} = {}
    BY DEF Text
  <2> QED
    BY <2>1, FS_EmptySet DEF VisibleCells
<1>3. VisibleCells(<<"blank">>) = 1
  <2>1. {i \in 1 .. Len(<<"blank">>) : <<"blank">>[i] \in {"visible", "blank"}} = {1}
    OBVIOUS
  <2> QED
    BY <2>1, FS_Singleton DEF VisibleCells
<1>4. VisibleCells(<<"newline">>) = 0
  <2>1. {i \in 1 .. Len(<<"newline">>) : <<"newline">>[i] \in {"visible", "blank"}} = {}
    OBVIOUS
  <2> QED
    BY <2>1, FS_EmptySet DEF VisibleCells
<1>5. VisibleCells(<< >>) = 0
  <2>1. {i \in 1 .. Len(<< >>) : << >>[i] \in {"visible", "blank"}} = {}
    OBVIOUS
  <2> QED
    BY <2>1, FS_EmptySet DEF VisibleCells
<1> QED
  BY <1>1, <1>2, <1>3, <1>4, <1>5

\* A part of a text.
LEMMA PartOf ==
  ASSUME NEW s \in Seq(Cells), NEW a \in Nat \ {0}, NEW b \in Int, b <= Len(s)
  PROVE  /\ SubSeq(s, a, b) \in Seq(Cells)
         /\ Len(SubSeq(s, a, b)) = IF a <= b THEN b - a + 1 ELSE 0
         /\ \A i \in 1 .. b - a + 1 : SubSeq(s, a, b)[i] = s[a + i - 1]
<1>1. Len(s) \in Nat
  BY LenProperties
<1>2. \A i \in a .. b : i \in 1 .. Len(s)
  BY <1>1
<1>3. \A i \in a .. b : s[i] \in Cells
  BY <1>2, ElementOfSeq
<1>4. a \in Int
  OBVIOUS
<1> DEFINE x == SubSeq(s, a, b)
<1>5. /\ x \in Seq(Cells) /\ Len(x) = IF a <= b THEN b - a + 1 ELSE 0
      /\ \A i \in 1 .. b - a + 1 : x[i] = s[a + i - 1]
  BY <1>3, <1>4, SubSeqProperties
<1> QED
  BY <1>5

\* A part that ends before the second text is a part of the first.
LEMMA PartBefore ==
  ASSUME NEW s \in Seq(Cells), NEW t \in Seq(Cells),
         NEW a \in Nat \ {0}, NEW b \in Int, b <= Len(s)
  PROVE  SubSeq(s \o t, a, b) = SubSeq(s, a, b)
<1> DEFINE u == s \o t
           x == SubSeq(u, a, b)
           y == SubSeq(s, a, b)
<1>1. /\ u \in Seq(Cells) /\ Len(s) \in Nat /\ Len(t) \in Nat /\ Len(u) = Len(s) + Len(t)
      /\ \A i \in 1 .. Len(s) : u[i] = s[i]
  BY CellsOfConcat
<1> HIDE DEF u
<1>2. b <= Len(u)
  BY <1>1
<1>3. /\ x \in Seq(Cells) /\ Len(x) = IF a <= b THEN b - a + 1 ELSE 0
      /\ \A i \in 1 .. b - a + 1 : x[i] = u[a + i - 1]
  BY <1>1, <1>2, PartOf
<1>4. /\ y \in Seq(Cells) /\ Len(y) = IF a <= b THEN b - a + 1 ELSE 0
      /\ \A i \in 1 .. b - a + 1 : y[i] = s[a + i - 1]
  BY PartOf
<1> HIDE DEF x, y
<1>5. \A i \in 1 .. Len(x) : x[i] = y[i]
  <2> TAKE i \in 1 .. Len(x)
  <2>1. i \in 1 .. b - a + 1 /\ a + i - 1 \in 1 .. Len(s)
    BY <1>1, <1>3
  <2> QED
    BY <1>1, <1>3, <1>4, <2>1
<1> QED
  BY <1>3, <1>4, <1>5, SameSequence DEF x, y, u

\* The rest of a concatenation is the rest of the first text and the second.
LEMMA RestOfConcat ==
  ASSUME NEW s \in Seq(Cells), NEW t \in Seq(Cells), NEW k \in 0 .. Len(s)
  PROVE  SubSeq(s \o t, k + 1, Len(s \o t)) = SubSeq(s, k + 1, Len(s)) \o t
<1> DEFINE u == s \o t
           r == SubSeq(s, k + 1, Len(s))
           x == SubSeq(u, k + 1, Len(u))
           y == r \o t
<1>1. /\ u \in Seq(Cells) /\ Len(s) \in Nat /\ Len(t) \in Nat /\ Len(u) = Len(s) + Len(t)
      /\ \A i \in 1 .. Len(s) : u[i] = s[i]
      /\ \A i \in 1 .. Len(t) : u[Len(s) + i] = t[i]
  BY CellsOfConcat
<1> HIDE DEF u
<1>2. k \in Nat /\ k <= Len(s) /\ k + 1 \in Nat \ {0} /\ k <= Len(u)
  BY <1>1
<1>3. /\ r \in Seq(Cells) /\ Len(r) = Len(s) - k
      /\ \A i \in 1 .. Len(s) - k : r[i] = s[k + i]
  <2>1. /\ r \in Seq(Cells) /\ Len(r) = IF k + 1 <= Len(s) THEN Len(s) - (k + 1) + 1 ELSE 0
        /\ \A i \in 1 .. Len(s) - (k + 1) + 1 : r[i] = s[(k + 1) + i - 1]
    BY <1>1, <1>2, PartOf
  <2> HIDE DEF r
  <2>2. Len(r) = Len(s) - k
    BY <1>1, <1>2, <2>1
  <2>3. \A i \in 1 .. Len(s) - k : (k + 1) + i - 1 = k + i
    BY <1>1, <1>2
  <2>4. Len(s) - (k + 1) + 1 = Len(s) - k
    BY <1>1, <1>2
  <2> QED
    BY <2>1, <2>2, <2>3, <2>4
<1>4. /\ x \in Seq(Cells) /\ Len(x) = Len(u) - k
      /\ \A i \in 1 .. Len(u) - k : x[i] = u[k + i]
  <2>1. /\ x \in Seq(Cells) /\ Len(x) = IF k + 1 <= Len(u) THEN Len(u) - (k + 1) + 1 ELSE 0
        /\ \A i \in 1 .. Len(u) - (k + 1) + 1 : x[i] = u[(k + 1) + i - 1]
    BY <1>1, <1>2, PartOf
  <2> HIDE DEF x
  <2>2. Len(x) = Len(u) - k
    BY <1>1, <1>2, <2>1
  <2>3. \A i \in 1 .. Len(u) - k : (k + 1) + i - 1 = k + i
    BY <1>1, <1>2
  <2>4. Len(u) - (k + 1) + 1 = Len(u) - k
    BY <1>1, <1>2
  <2> QED
    BY <2>1, <2>2, <2>3, <2>4
<1> HIDE DEF r, x
<1>5. /\ y \in Seq(Cells) /\ Len(y) = Len(r) + Len(t)
      /\ \A i \in 1 .. Len(r) : y[i] = r[i]
      /\ \A i \in 1 .. Len(t) : y[Len(r) + i] = t[i]
  BY <1>3, CellsOfConcat
<1> HIDE DEF y
<1>6. Len(x) = Len(y) /\ Len(x) \in Nat
  BY <1>1, <1>2, <1>3, <1>4, <1>5
<1>7. \A i \in 1 .. Len(x) : x[i] = y[i]
  <2> TAKE i \in 1 .. Len(x)
  <2>1. x[i] = u[k + i]
    BY <1>4
  <2>2. CASE i <= Len(r)
    <3>1. k + i \in 1 .. Len(s) /\ i \in 1 .. Len(s) - k
      BY <1>1, <1>2, <1>3, <2>2
    <3> QED
      BY <1>1, <1>3, <1>5, <2>1, <3>1
  <2>3. CASE i > Len(r)
    <3> DEFINE j == i - Len(r)
    <3>1. j \in 1 .. Len(t) /\ k + i = Len(s) + j /\ i = Len(r) + j
      BY <1>1, <1>2, <1>3, <1>4, <2>3
    <3> HIDE DEF j
    <3> QED
      BY <1>1, <1>5, <2>1, <3>1
  <2> QED
    BY <1>1, <1>3, <2>2, <2>3
<1> QED
  BY <1>4, <1>5, <1>6, <1>7, SameSequence DEF x, y, r, u

\* All of a text.
LEMMA WholeText ==
  ASSUME NEW s \in Seq(Cells)
  PROVE  SubSeq(s, 1, Len(s)) = s /\ SubSeq(s, Len(s) + 1, Len(s)) = << >>
<1>1. Len(s) \in Nat
  BY LenProperties
<1>2. SubSeq(s, Len(s) + 1, Len(s)) = << >>
  BY <1>1, SubSeqEmpty
<1>3. SubSeq(s, 1, Len(s)) = s
  <2>1. /\ SubSeq(s, 1, Len(s)) \in Seq(Cells) /\ Len(SubSeq(s, 1, Len(s))) = Len(s)
        /\ \A i \in 1 .. Len(s) : SubSeq(s, 1, Len(s))[i] = s[i]
    BY <1>1, PartOf
  <2> QED
    BY <2>1, SameSequence
<1> QED
  BY <1>2, <1>3

\* Text without a newline moves none.
LEMMA NewlinesStay ==
  ASSUME NEW s \in Seq(Cells), NEW t \in Seq(Cells), Newlines(t) = {}
  PROVE  Newlines(s \o t) = Newlines(s)
<1> DEFINE u == s \o t
<1>1. /\ Len(s) \in Nat /\ Len(t) \in Nat /\ Len(u) = Len(s) + Len(t)
      /\ \A i \in 1 .. Len(s) : u[i] = s[i]
      /\ \A i \in 1 .. Len(t) : u[Len(s) + i] = t[i]
  BY CellsOfConcat
<1> HIDE DEF u
<1>2. \A i \in 1 .. Len(t) : t[i] # "newline"
  BY DEF Newlines
<1>3. ASSUME NEW i \in 1 .. Len(u), u[i] = "newline" PROVE i \in 1 .. Len(s)
  <2>1. CASE i > Len(s)
    <3>1. i - Len(s) \in 1 .. Len(t) /\ i = Len(s) + (i - Len(s))
      BY <1>1, <2>1
    <3>2. u[i] = t[i - Len(s)]
      BY <1>1, <3>1
    <3> QED
      BY <1>2, <1>3, <3>1, <3>2
  <2>2. CASE i <= Len(s)
    BY <1>1, <2>2
  <2> QED
    BY <1>1, <2>1, <2>2
<1>4. \A i \in 1 .. Len(s) : i \in 1 .. Len(u)
  BY <1>1
<1>5. Newlines(u) = Newlines(s)
  BY <1>1, <1>3, <1>4 DEF Newlines
<1> QED
  BY <1>5 DEF u

\* A newline at the end adds one.
LEMMA NewlineAdds ==
  ASSUME NEW s \in Seq(Cells)
  PROVE  Newlines(s \o <<"newline">>) = Newlines(s) \cup {Len(s) + 1}
<1> DEFINE v == <<"newline">>
           u == s \o v
<1>1. /\ Len(s) \in Nat /\ Len(u) = Len(s) + 1
      /\ \A i \in 1 .. Len(s) : u[i] = s[i]
      /\ u[Len(s) + 1] = "newline"
  <2>1. v \in Seq(Cells) /\ Len(v) = 1 /\ v[1] = "newline"
    BY DEF Cells
  <2>2. /\ Len(s) \in Nat /\ Len(u) = Len(s) + Len(v)
        /\ \A i \in 1 .. Len(s) : u[i] = s[i]
        /\ \A i \in 1 .. Len(v) : u[Len(s) + i] = v[i]
    BY <2>1, CellsOfConcat
  <2> HIDE DEF u
  <2> QED
    BY <2>1, <2>2
<1> HIDE DEF u, v
<1>2. \A i : i \in 1 .. Len(u) <=> i \in 1 .. Len(s) \/ i = Len(s) + 1
  BY <1>1
<1>3. Newlines(u) = Newlines(s) \cup {Len(s) + 1}
  BY <1>1, <1>2 DEF Newlines
<1> QED
  BY <1>3 DEF u, v

\* The line breaks before position k: none, or one at k.
BreakAt(k) == IF k = 0 THEN {} ELSE {k}

\* A text whose last line begins behind k and has n columns; there was a break
\* only because the first line has more than room columns.
LineAt(s, k, n, room) ==
  /\ k \in 0 .. Len(s) /\ Newlines(s) = BreakAt(k)
  /\ VisibleCells(SubSeq(s, k + 1, Len(s))) = n
  /\ k > 0 => VisibleCells(SubSeq(s, 1, k)) > room

\* The same when the line has been ended by a newline at e.
LineEnds(s, k, e, n, room) ==
  /\ k \in Nat /\ e \in k + 1 .. Len(s) /\ Newlines(s) = BreakAt(k) \cup {e}
  /\ VisibleCells(SubSeq(s, k + 1, e - 1)) = n
  /\ k > 0 => VisibleCells(SubSeq(s, 1, k)) > room

\* Text without a newline makes the line longer.
LEMMA LineGrows ==
  ASSUME NEW s \in Seq(Cells), NEW t \in Seq(Cells), NEW k, NEW n, NEW room,
         LineAt(s, k, n, room), Newlines(t) = {}
  PROVE  LineAt(s \o t, k, n + VisibleCells(t), room)
<1>1. /\ k \in 0 .. Len(s) /\ k \in Nat /\ k <= Len(s)
      /\ Len(s) \in Nat /\ Len(t) \in Nat /\ Len(s \o t) = Len(s) + Len(t)
  BY CellsOfConcat DEF LineAt
<1>2. k \in 0 .. Len(s \o t)
  BY <1>1
<1>3. Newlines(s \o t) = BreakAt(k)
  BY NewlinesStay DEF LineAt
<1>4. VisibleCells(SubSeq(s \o t, k + 1, Len(s \o t))) = n + VisibleCells(t)
  <2>1. SubSeq(s \o t, k + 1, Len(s \o t)) = SubSeq(s, k + 1, Len(s)) \o t
    BY <1>1, RestOfConcat
  <2>2. SubSeq(s, k + 1, Len(s)) \in Seq(Cells)
    BY <1>1, PartOf
  <2> QED
    BY <2>1, <2>2, VisibleAdds DEF LineAt
<1>5. k > 0 => SubSeq(s \o t, 1, k) = SubSeq(s, 1, k)
  BY <1>1, PartBefore
<1> QED
  BY <1>2, <1>3, <1>4, <1>5 DEF LineAt

\* The first line.
LEMMA FirstLine ==
  ASSUME NEW s \in Seq(Cells), NEW room, Newlines(s) = {}
  PROVE  LineAt(s, 0, VisibleCells(s), room)
<1>1. SubSeq(s, 1, Len(s)) = s /\ Len(s) \in Nat
  BY WholeText, LenProperties
<1>2. 0 \in 0 .. Len(s) /\ Newlines(s) = BreakAt(0)
  BY <1>1 DEF BreakAt
<1>3. VisibleCells(SubSeq(s, 0 + 1, Len(s))) = VisibleCells(s)
  <2>1. 0 + 1 = 1
    OBVIOUS
  <2> QED
    BY <1>1, <2>1
<1> QED
  BY <1>2, <1>3 DEF LineAt

\* A break of the line that has no room for the suffix.
LEMMA SecondLine ==
  ASSUME NEW s \in Seq(Cells), NEW room \in Int, Newlines(s) = {}, VisibleCells(s) > room
  PROVE  LineAt(s \o <<"newline">>, Len(s) + 1, 0, room)
<1> DEFINE v == <<"newline">>
           u == s \o v
<1>1. v \in Seq(Cells) /\ Len(v) = 1
  BY DEF Cells
<1>2. u \in Seq(Cells) /\ Len(s) \in Nat /\ Len(u) = Len(s) + 1
  BY <1>1, CellsOfConcat
<1>3. Newlines(u) = {Len(u)}
  BY <1>2, NewlineAdds
<1>4. VisibleCells(u) = VisibleCells(s)
  <2>1. VisibleCells(u) = VisibleCells(s) + VisibleCells(v)
    BY <1>1, VisibleAdds
  <2>2. VisibleCells(v) = 0
    BY VisibleTexts
  <2> HIDE DEF u, v
  <2> QED
    BY <2>1, <2>2, VisibleType
<1> HIDE DEF u
<1>5. SubSeq(u, 1, Len(u)) = u /\ SubSeq(u, Len(u) + 1, Len(u)) = << >>
  BY <1>2, WholeText
<1>6. VisibleCells(<< >>) = 0
  BY VisibleTexts
<1>7. Len(u) \in 0 .. Len(u) /\ Newlines(u) = BreakAt(Len(u))
  BY <1>2, <1>3 DEF BreakAt
<1>8. LineAt(u, Len(u), 0, room)
  BY <1>4, <1>5, <1>6, <1>7 DEF LineAt
<1> QED
  BY <1>2, <1>8 DEF u

\* The suffix and its newline end the line.
LEMMA SuffixEndsLine ==
  ASSUME NEW s \in Seq(Cells), NEW t \in Seq(Cells), NEW k, NEW n, NEW room,
         LineAt(s, k, n, room), Newlines(t) = {}
  PROVE  LineEnds(s \o (t \o <<"newline">>), k, Len(s) + Len(t) + 1,
                  n + VisibleCells(t), room)
<1> DEFINE v == s \o t
           u == v \o <<"newline">>
           e == Len(s) + Len(t) + 1
<1>1. LineAt(v, k, n + VisibleCells(t), room)
  BY LineGrows
<1>2. /\ v \in Seq(Cells) /\ Len(s) \in Nat /\ Len(t) \in Nat /\ Len(v) = Len(s) + Len(t)
      /\ k \in Nat /\ k <= Len(s)
  BY CellsOfConcat DEF LineAt
<1>3. s \o (t \o <<"newline">>) = u
  BY DEF Cells
<1>4. <<"newline">> \in Seq(Cells) /\ Len(<<"newline">>) = 1
  BY DEF Cells
<1> HIDE DEF v
<1>5. u \in Seq(Cells) /\ Len(u) = Len(v) + 1
  BY <1>2, <1>4, CellsOfConcat
<1>6. Newlines(u) = BreakAt(k) \cup {e}
  BY <1>1, <1>2, NewlineAdds DEF LineAt
<1>7. SubSeq(u, k + 1, e - 1) = SubSeq(v, k + 1, Len(v))
  BY <1>2, <1>4, PartBefore
<1>8. k > 0 => SubSeq(u, 1, k) = SubSeq(v, 1, k)
  BY <1>2, <1>4, PartBefore
<1>9. k \in Nat /\ e \in k + 1 .. Len(u)
  BY <1>2, <1>5
<1> HIDE DEF u, e
<1>10. LineEnds(u, k, e, n + VisibleCells(t), room)
  BY <1>1, <1>6, <1>7, <1>8, <1>9 DEF LineEnds, LineAt
<1> QED
  BY <1>3, <1>10 DEF e

\* What follows the newline does not matter.
LEMMA LineStays ==
  ASSUME NEW s \in Seq(Cells), NEW t \in Seq(Cells), NEW k, NEW e, NEW n, NEW room,
         LineEnds(s, k, e, n, room), Newlines(t) = {}
  PROVE  LineEnds(s \o t, k, e, n, room)
<1>1. /\ k \in Nat /\ e \in k + 1 .. Len(s) /\ Len(s) \in Nat /\ Len(t) \in Nat
      /\ Len(s \o t) = Len(s) + Len(t)
  BY CellsOfConcat DEF LineEnds
<1>2. e \in Nat /\ e <= Len(s) /\ k < e /\ e \in k + 1 .. Len(s \o t)
  BY <1>1
<1>3. Newlines(s \o t) = BreakAt(k) \cup {e}
  BY NewlinesStay DEF LineEnds
<1>4. SubSeq(s \o t, k + 1, e - 1) = SubSeq(s, k + 1, e - 1)
  BY <1>1, <1>2, PartBefore
<1>5. k > 0 => SubSeq(s \o t, 1, k) = SubSeq(s, 1, k)
  BY <1>1, <1>2, PartBefore
<1> QED
  BY <1>1, <1>2, <1>3, <1>4, <1>5 DEF LineEnds

\* The line that holds the suffix, in terms of the positions of the newlines.
LEMMA SuffixLineOf ==
  ASSUME NEW s, NEW k, NEW e, NEW n, NEW room, Len(s) \in Nat, LineEnds(s, k, e, n, room)
  PROVE  /\ SuffixLine(s) = SubSeq(s, k + 1, e - 1)
         /\ Last(Newlines(s) \ {Last(Newlines(s))}) = k
         /\ Cardinality(Newlines(s)) = IF k = 0 THEN 1 ELSE 2
<1>1. k \in Nat /\ e \in Nat /\ k < e /\ Newlines(s) = BreakAt(k) \cup {e}
  BY DEF LineEnds
<1>2. Last(Newlines(s)) = e
  <2>1. \A i \in Newlines(s) : i = e \/ i = k
    BY <1>1, Zenon DEF BreakAt
  <2>2. e \in Newlines(s)
    BY <1>1, Zenon
  <2>3. k \in Nat /\ e \in Nat /\ k < e
    BY <1>1
  <2>4. \A i \in Newlines(s) : (\A j \in Newlines(s) : j <= i) <=> i = e
    BY <2>1, <2>2, <2>3
  <2> QED
    BY <2>2, <2>4 DEF Last
<1>3. Newlines(s) \ {e} = BreakAt(k)
  BY <1>1 DEF BreakAt
<1>4. Last(BreakAt(k)) = k
  BY <1>1 DEF Last, BreakAt
<1>5. Cardinality(Newlines(s)) = IF k = 0 THEN 1 ELSE 2
  <2>1. CASE k = 0
    BY <1>1, <2>1, FS_Singleton DEF BreakAt
  <2>2. CASE k # 0
    <3>1. Newlines(s) = {k} \cup {e} /\ e \notin {k}
      BY <1>1, <2>2 DEF BreakAt
    <3>2. IsFiniteSet({k}) /\ Cardinality({k}) = 1
      BY FS_Singleton
    <3>3. Cardinality({k} \cup {e}) = Cardinality({k}) + 1
      BY <3>1, <3>2, FS_AddElement
    <3>4. Cardinality({k} \cup {e}) = 2
      <4> DEFINE c == Cardinality({k} \cup {e})
                 d == Cardinality({k})
      <4>1. c = d + 1 /\ d = 1
        BY <3>2, <3>3
      <4> HIDE DEF c, d
      <4>2. c = 2
        BY <4>1
      <4> QED
        BY <4>2 DEF c
    <3>5. Cardinality(Newlines(s)) = 2
      BY <3>1, <3>4, Zenon
    <3> QED
      BY <2>2, <3>5, Zenon
  <2> QED
    BY <2>1, <2>2
<1> QED
  BY <1>2, <1>3, <1>4, <1>5 DEF SuffixLine

-----------------------------------------------------------------------------
(***************************************************************************)
(* Where the suffix ends                                                   *)
(***************************************************************************)

SuffixColumns == SuffixLength + IF m_enableThreadInfo THEN ThreadSuffixLength ELSE 0

\* The text of the suffix.
SuffixText == Text("visible", SuffixColumns)

Width == IF consoleWidth = 0 THEN DEFAULT_WIDTH ELSE consoleWidth

\* The columns that the text may take on the line of the suffix.
Room == Width - SuffixColumns - 1

\* The column in which the suffix ends: on the first line, and on one of its own.
FirstEdge == Width - 1
SecondEdge == Larger(consoleWidth - 1, SuffixColumns)

\* A console line during which nothing changes or fails.
Steady == kind = "console" /\ ~changed /\ ~failed

\* Once it has found the backend enabled, a steady entry writes everything.
StaysEnabled ==
  pc \in {"color", "prefix", "colorEnd", "footerColor", "suffix", "measure", "lineBreak",
          "measureAgain", "pad", "suffixText", "footerColorEnd"} => enabled

\* m_invisibleCharacterCount counts what takes no columns.
Counted ==
  pc \in {"init", "color", "prefix", "colorEnd", "open", "footerColor", "suffix",
          "measure", "lineBreak"} =>
    /\ Newlines(written) = {}
    /\ Len(written) = VisibleCells(written) + m_invisibleCharacterCount

SuffixFormatted ==
  pc \in {"measure", "lineBreak", "measureAgain", "pad", "suffixText"} =>
    /\ Size(suffixArray) = SuffixColumns + 1
    /\ CString(suffixArray) = SuffixText \o <<"newline">>

BreakNeeded == pc = "lineBreak" => VisibleCells(written) > Room

BrokenOnce ==
  pc = "measureAgain" => Len(written) > 0 /\ LineAt(written, Len(written), 0, Room)

\* Columns, padding and suffix add up to the edge.
LeadsToEdge ==
  pc \in {"pad", "suffixText"} =>
    \E k, n \in Nat :
      /\ LineAt(written, k, n, Room)
      /\ n + (IF pc = "pad" THEN padding ELSE 0) + SuffixColumns =
           IF k = 0 THEN FirstEdge ELSE SecondEdge

EndsAtEdge ==
  \E k, e \in Nat : LineEnds(written, k, e, IF k = 0 THEN FirstEdge ELSE SecondEdge, Room)

LineEnded ==
  pc \in {"footerColorEnd", "terminate", "print"} \/ (pc = "done" /\ printed # NotPrinted) =>
    EndsAtEdge

AlignInv ==
  Steady => /\ StaysEnabled /\ Counted /\ SuffixFormatted /\ BreakNeeded
            /\ BrokenOnce /\ LeadsToEdge /\ LineEnded

\* Widths are integers.
LEMMA ColumnTypes ==
  ASSUME TypeOK
  PROVE  SuffixColumns \in Nat /\ Width \in Nat /\ Room \in Int
  BY LineAssumption DEF TypeOK, SuffixColumns, Width, Room

\* The texts that the backends write have no newline.
LEMMA NoNewlines ==
  /\ \A n \in Nat : Newlines(Text("visible", n)) = {} /\ Newlines(Text("escape", n)) = {}
  /\ Newlines(<<"blank">>) = {} /\ Newlines(<< >>) = {}
<1>1. ASSUME NEW n \in Nat
      PROVE  Newlines(Text("visible", n)) = {} /\ Newlines(Text("escape", n)) = {}
  BY DEF Newlines, Text
<1>2. Newlines(<<"blank">>) = {} /\ Newlines(<< >>) = {}
  BY DEF Newlines
<1> QED
  BY <1>1, <1>2

\* Two visible texts make one.
LEMMA TextsJoin ==
  ASSUME NEW m \in Nat, NEW n \in Nat
  PROVE  /\ << >> \o Text("visible", m) = Text("visible", m)
         /\ Text("visible", m) \o Text("visible", n) = Text("visible", m + n)
<1> DEFINE s == Text("visible", m)
           t == Text("visible", n)
           w == Text("visible", m + n)
<1>1. s \in Seq(Cells) /\ t \in Seq(Cells) /\ w \in Seq(Cells)
  <2>1. "visible" \in Chars /\ m + n \in Nat
    BY CellTypes
  <2>2. s \in Seq(Chars) /\ t \in Seq(Chars) /\ w \in Seq(Chars)
    BY <2>1, TextType
  <2> HIDE DEF s, t, w
  <2> QED
    BY <2>2, CellTypes
<1>2. /\ Len(s) = m /\ Len(t) = n /\ Len(w) = m + n
      /\ \A i \in 1 .. m : s[i] = "visible"
      /\ \A i \in 1 .. n : t[i] = "visible"
      /\ \A i \in 1 .. m + n : w[i] = "visible"
  BY DEF Text
<1> HIDE DEF s, t, w
<1>3. << >> \o s = s
  BY <1>1
<1>4. s \o t = w
  <2> DEFINE u == s \o t
  <2>1. /\ u \in Seq(Cells) /\ Len(u) = m + n
        /\ \A i \in 1 .. m : u[i] = s[i]
        /\ \A i \in 1 .. n : u[m + i] = t[i]
    BY <1>1, <1>2, CellsOfConcat
  <2> HIDE DEF u
  <2>2. \A i \in 1 .. m + n : u[i] = w[i]
    <3> TAKE i \in 1 .. m + n
    <3>1. CASE i <= m
      BY <1>2, <2>1, <3>1
    <3>2. CASE i > m
      <4>1. i - m \in 1 .. n /\ i = m + (i - m)
        BY <3>2
      <4> QED
        BY <1>2, <2>1, <4>1
    <3> QED
      BY <3>1, <3>2
  <2>3. u = w
    BY <1>1, <1>2, <2>1, <2>2, SameSequence
  <2> QED
    BY <2>3 DEF u
<1> QED
  BY <1>3, <1>4 DEF s, t, w

\* What getSuffix makes, and the newline behind it.
LEMMA SuffixPrints ==
  ASSUME TypeOK
  PROVE  /\ Size(WriteFormatted(Suffix, <<"newline">>)) = SuffixColumns + 1
         /\ CString(WriteFormatted(Suffix, <<"newline">>)) = SuffixText \o <<"newline">>
<1> DEFINE location == WriteFormatted(EmptyByteArray, Text("visible", SuffixLength))
           both == WriteFormatted(location, Text("visible", ThreadSuffixLength))
           line == WriteFormatted(Suffix, <<"newline">>)
<1>1. /\ Text("visible", SuffixLength) \in Seq(Cells)
      /\ Text("visible", ThreadSuffixLength) \in Seq(Cells)
      /\ SuffixLength \in Nat /\ ThreadSuffixLength \in Nat
      /\ SuffixText \in Seq(Chars) /\ SuffixText \in Seq(Cells) /\ Len(SuffixText) = SuffixColumns
  <2>1. SuffixColumns \in Nat
    BY ColumnTypes
  <2>2. SuffixText \in Seq(Chars)
    BY <2>1, CellTypes, TextType DEF SuffixText
  <2>3. Len(SuffixText) = SuffixColumns
    BY <2>1 DEF SuffixText, Text
  <2> QED
    BY <2>2, <2>3, LineAssumption, CellTypes, TextType
<1>2. Good(EmptyByteArray) /\ Contents(EmptyByteArray) = << >>
  <2>1. /\ Contents(EmptyByteArray) \in Seq(Cells)
        /\ Len(Contents(EmptyByteArray)) = 0
    BY EmptyGood, DataOf
  <2> QED
    BY <2>1, EmptyGood
<1>3. Good(location) /\ Contents(location) = Text("visible", SuffixLength)
  <2>1. /\ Good(location)
        /\ Contents(location) = << >> \o Text("visible", SuffixLength)
    BY <1>1, <1>2, WriteFormattedAdds
  <2> HIDE DEF location
  <2> QED
    BY <1>1, <2>1, TextsJoin
<1> HIDE DEF location
<1>4. /\ Good(both)
      /\ Contents(both) = Text("visible", SuffixLength + ThreadSuffixLength)
  <2>1. /\ Good(both)
        /\ Contents(both) = Text("visible", SuffixLength) \o Text("visible", ThreadSuffixLength)
    BY <1>1, <1>3, WriteFormattedAdds
  <2> HIDE DEF both
  <2> QED
    BY <1>1, <2>1, TextsJoin
<1> HIDE DEF both
<1>5. Good(Suffix) /\ Contents(Suffix) = SuffixText
  <2>1. CASE m_enableThreadInfo
    <3>1. Suffix = both
      BY <2>1 DEF Suffix, both, location
    <3> QED
      BY <1>4, <2>1, <3>1 DEF SuffixText, SuffixColumns
  <2>2. CASE ~m_enableThreadInfo
    <3>1. Suffix = location
      BY <2>2 DEF Suffix, location
    <3>2. SuffixLength + 0 = SuffixLength
      BY <1>1
    <3> QED
      BY <1>3, <2>2, <3>1, <3>2 DEF SuffixText, SuffixColumns
  <2> QED
    BY <2>1, <2>2
<1>6. /\ Good(line) /\ Terminated(line)
      /\ Contents(line) = SuffixText \o <<"newline">>
  BY <1>5, CellTypes, WriteFormattedAdds
<1> HIDE DEF line
<1>7. /\ SuffixText \o <<"newline">> \in Seq(Chars)
      /\ Len(SuffixText \o <<"newline">>) = SuffixColumns + 1
  <2>1. <<"newline">> \in Seq(Chars) /\ Len(<<"newline">>) = 1
    BY CellTypes
  <2> HIDE DEF SuffixText
  <2> QED
    BY <1>1, <2>1, ConcatProperties
<1>8. CString(line) = Contents(line)
  BY <1>6, <1>7, TerminatedPrints
<1>9. Size(line) = Len(Contents(line))
  BY <1>6, DataOf
<1> QED
  BY <1>6, <1>7, <1>8, <1>9 DEF line

\* Every step of a steady entry keeps the invariant.  First what no step changes.
LEMMA SteadyStep ==
  ASSUME IInv, AlignInv, Next, Steady'
  PROVE  /\ Steady /\ UNCHANGED <<settings, environment, failed>>
         /\ SuffixColumns' = SuffixColumns /\ Room' = Room
         /\ FirstEdge' = FirstEdge /\ SecondEdge' = SecondEdge
         /\ SuffixText' = SuffixText
         /\ StaysEnabled /\ Counted /\ SuffixFormatted /\ BreakNeeded
         /\ BrokenOnce /\ LeadsToEdge /\ LineEnded
         /\ ~WriteValueFails /\ ~ChangeLevel /\ ~ResizeTerminal
<1>1. ~WriteValueFails /\ ~ChangeLevel /\ ~ResizeTerminal
  BY DEF Steady, WriteValueFails, ChangeLevel, ResizeTerminal, Changing
<1>2. UNCHANGED <<settings, environment, failed>>
  BY <1>1 DEF Next, InitData, PrefixColor, WritePrefix, PrefixColorEnd, WriteValue, FlushLog,
         FooterColor, GetSuffix, Measure, LineBreak, MeasureAgain, Pad, EndPad, WriteSuffix,
         FooterColorEnd, Terminate, PrintLine, Done, vars
<1>3. Steady
  BY <1>2 DEF Steady, settings, environment
<1>4. SuffixColumns' = SuffixColumns /\ Width' = Width
  BY <1>2 DEF SuffixColumns, Width, settings, environment
<1>5. Room' = Room /\ FirstEdge' = FirstEdge /\ SecondEdge' = SecondEdge
      /\ SuffixText' = SuffixText
  BY <1>2, <1>4 DEF Room, FirstEdge, SecondEdge, SuffixText, environment
<1> QED
  BY <1>1, <1>2, <1>3, <1>4, <1>5 DEF AlignInv

\* A write of a steady entry, which finds the backend enabled.
LEMMA SteadyWrite ==
  ASSUME enabled, NEW text, Write(text)
  PROVE  written' = written \o text
  BY DEF Write

\* The content has as many cells as were written.
LEMMA SizeOfContent ==
  ASSUME IInv, ~failed, pc \notin {"print", "done"}
  PROVE  Size(m_content) = Len(written)
<1>1. Contents(m_content) = written /\ Good(m_content)
  BY DEF IInv, ContentIsWritten, ArraysGood
<1> QED
  BY <1>1, DataOf

\* Steps before the suffix is measured.
LEMMA CountedStep ==
  ASSUME IInv, Counted, NEW text \in Seq(Cells), Newlines(text) = {},
         pc \in {"color", "prefix", "colorEnd", "open", "footerColor"},
         written' = written \o text,
         m_invisibleCharacterCount' =
           m_invisibleCharacterCount + (Len(text) - VisibleCells(text))
  PROVE  Counted'
<1>1. written \in Seq(Cells) /\ m_invisibleCharacterCount \in Nat
  BY DEF IInv, TypeOK
<1>2. Newlines(written) = {}
      /\ Len(written) = VisibleCells(written) + m_invisibleCharacterCount
  BY DEF Counted
<1>3. Newlines(written') = {}
  BY <1>1, <1>2, NewlinesStay
<1>4. Len(written') = Len(written) + Len(text) /\ Len(text) \in Nat /\ Len(written) \in Nat
  BY <1>1, CellsOfConcat
<1>5. VisibleCells(written') = VisibleCells(written) + VisibleCells(text)
  BY <1>1, VisibleAdds
<1>6. VisibleCells(written) \in Nat /\ VisibleCells(text) \in Nat
  BY <1>1, VisibleType
<1>7. Len(written') = VisibleCells(written') + m_invisibleCharacterCount'
  BY <1>1, <1>2, <1>4, <1>5, <1>6
<1> QED
  BY <1>3, <1>7 DEF Counted

\* A colour is an escape sequence or nothing, and is counted.
LEMMA ColorCounted ==
  ASSUME IInv, Counted, enabled, WriteHeaderColor \/ ResetColor,
         pc \in {"color", "prefix", "colorEnd", "open", "footerColor"}
  PROVE  Counted'
<1>1. CASE ~Colors
  BY <1>1 DEF WriteHeaderColor, ResetColor, Counted
<1>2. ASSUME NEW n \in Nat, Write(Text("escape", n)),
             m_invisibleCharacterCount' = m_invisibleCharacterCount + n
      PROVE  Counted'
  <2> DEFINE text == Text("escape", n)
  <2>1. text \in Seq(Cells) /\ Newlines(text) = {}
    BY CellTypes, TextType, NoNewlines
  <2>2. Len(text) = n
    BY DEF Text
  <2>3. VisibleCells(text) = 0
    BY VisibleTexts
  <2>4. written' = written \o text
    BY <1>2, SteadyWrite
  <2> HIDE DEF text
  <2>5. Len(text) - VisibleCells(text) = n
    BY <2>2, <2>3
  <2> QED
    BY <1>2, <2>1, <2>4, <2>5, CountedStep
<1>3. CASE Colors
  <2>1. ColorLength \in Nat /\ ResetLength \in Nat
    BY LineAssumption
  <2>2. \/ /\ Write(Text("escape", ColorLength))
           /\ m_invisibleCharacterCount' = m_invisibleCharacterCount + ColorLength
        \/ /\ Write(Text("escape", ResetLength))
           /\ m_invisibleCharacterCount' = m_invisibleCharacterCount + ResetLength
    BY <1>3 DEF WriteHeaderColor, ResetColor
  <2> QED
    BY <1>2, <2>1, <2>2
<1> QED
  BY <1>1, <1>3

\* A visible text has as many columns as cells.
LEMMA VisibleCounted ==
  ASSUME IInv, Counted, enabled, NEW n \in Nat, Write(Text("visible", n)),
         UNCHANGED m_invisibleCharacterCount,
         pc \in {"color", "prefix", "colorEnd", "open", "footerColor"}
  PROVE  Counted'
<1> DEFINE text == Text("visible", n)
<1>1. text \in Seq(Cells) /\ Newlines(text) = {}
  BY CellTypes, TextType, NoNewlines
<1>2. Len(text) = n
  BY DEF Text
<1>3. VisibleCells(text) = n
  BY VisibleTexts
<1>4. written' = written \o text
  BY SteadyWrite
<1> HIDE DEF text
<1>5. /\ Len(text) - VisibleCells(text) = 0
      /\ m_invisibleCharacterCount' = m_invisibleCharacterCount + 0
  BY <1>2, <1>3 DEF IInv, TypeOK
<1> QED
  BY <1>1, <1>4, <1>5, CountedStep

\* The beginning of an entry, its values, and the footer's colour.
LEMMA TextStep ==
  ASSUME IInv, AlignInv, Next, Steady',
         \/ InitData \/ PrefixColor \/ WritePrefix \/ PrefixColorEnd
         \/ WriteValue \/ FlushLog \/ FooterColor
  PROVE  AlignInv'
<1>1. /\ Steady /\ StaysEnabled /\ Counted /\ UNCHANGED <<settings, environment, failed>>
      /\ kind = "console"
  BY SteadyStep DEF Steady
<1>2. /\ pc \in {"init", "color", "prefix", "colorEnd", "open", "footerColor"}
      /\ pc' \in {"color", "prefix", "colorEnd", "open", "footerColor", "suffix", "done"}
      /\ pc' \notin {"open", "done"} => enabled
      /\ UNCHANGED printed
  BY <1>1 DEF InitData, PrefixColor, WritePrefix, PrefixColorEnd, WriteValue, FlushLog,
              FooterColor, Goto, StaysEnabled
<1>3. StaysEnabled'
  BY <1>1, <1>2 DEF StaysEnabled, environment
<1>4. Counted'
  <2>1. CASE PrefixColor \/ PrefixColorEnd \/ FooterColor
    <3>1. /\ WriteHeaderColor \/ ResetColor
          /\ enabled /\ pc \in {"color", "colorEnd", "footerColor"}
      BY <1>1, <2>1 DEF PrefixColor, PrefixColorEnd, FooterColor, StaysEnabled
    <3> QED
      BY <1>1, <3>1, ColorCounted
  <2>2. CASE WritePrefix
    <3>1. /\ Write(Text("visible", PrefixLength)) /\ enabled /\ pc = "prefix"
          /\ UNCHANGED m_invisibleCharacterCount
      BY <1>1, <2>2 DEF WritePrefix, StaysEnabled
    <3>2. PrefixLength \in Nat
      BY LineAssumption
    <3> QED
      BY <1>1, <3>1, <3>2, VisibleCounted
  <2>3. CASE WriteValue
    <3>1. PICK n \in ValueLengths : Write(Text("visible", n))
      BY <2>3 DEF WriteValue
    <3>2. n \in Nat /\ pc = "open" /\ UNCHANGED m_invisibleCharacterCount
      BY <2>3, <3>1, LineAssumption DEF WriteValue
    <3>3. CASE enabled
      BY <1>1, <3>1, <3>2, <3>3, VisibleCounted
    <3>4. CASE ~enabled
      BY <1>1, <3>1, <3>2, <3>4 DEF Write, Counted
    <3> QED
      BY <3>3, <3>4 DEF IInv, TypeOK
  <2>4. CASE InitData \/ FlushLog
    <3>1. UNCHANGED <<written, m_invisibleCharacterCount>>
      BY <2>4 DEF InitData, FlushLog
    <3> QED
      BY <1>1, <1>2, <3>1 DEF Counted
  <2> QED
    BY <2>1, <2>2, <2>3, <2>4
<1>5. printed' = NotPrinted
  BY <1>2 DEF IInv, ReadyToPrint
<1>6. SuffixFormatted' /\ BreakNeeded' /\ BrokenOnce' /\ LeadsToEdge' /\ LineEnded'
  BY <1>2, <1>5 DEF SuffixFormatted, BreakNeeded, BrokenOnce, LeadsToEdge, LineEnded, NotPrinted
<1> QED
  BY <1>3, <1>4, <1>6 DEF AlignInv

\* The suffix.
LEMMA FormatStep ==
  ASSUME IInv, AlignInv, Next, Steady', GetSuffix
  PROVE  AlignInv'
<1>1. /\ Steady /\ StaysEnabled /\ Counted /\ UNCHANGED <<settings, environment, failed>>
      /\ kind = "console" /\ SuffixColumns' = SuffixColumns /\ SuffixText' = SuffixText
  BY SteadyStep DEF Steady
<1>2. /\ pc = "suffix" /\ pc' = "measure"
      /\ suffixArray' = WriteFormatted(Suffix, <<"newline">>)
      /\ UNCHANGED <<m_invisibleCharacterCount, written>>
  BY <1>1 DEF GetSuffix, Goto
<1>3. StaysEnabled' /\ Counted'
  BY <1>1, <1>2 DEF StaysEnabled, Counted, environment
<1>4. SuffixFormatted'
  <2>1. TypeOK
    BY DEF IInv
  <2> QED
    BY <1>1, <1>2, <2>1, SuffixPrints DEF SuffixFormatted
<1>5. BreakNeeded' /\ BrokenOnce' /\ LeadsToEdge' /\ LineEnded'
  BY <1>2 DEF BreakNeeded, BrokenOnce, LeadsToEdge, LineEnded
<1> QED
  BY <1>3, <1>4, <1>5 DEF AlignInv

\* The first measurement.
LEMMA MeasureStep ==
  ASSUME IInv, AlignInv, Next, Steady', Measure
  PROVE  AlignInv'
<1>1. /\ Steady /\ StaysEnabled /\ Counted /\ SuffixFormatted
      /\ UNCHANGED <<settings, environment, failed>>
      /\ kind = "console" /\ ~failed
      /\ SuffixColumns' = SuffixColumns /\ SuffixText' = SuffixText /\ Room' = Room
      /\ FirstEdge' = FirstEdge /\ SecondEdge' = SecondEdge
  BY SteadyStep DEF Steady
<1> DEFINE left == Width - (Size(m_content) + Size(suffixArray) - m_invisibleCharacterCount)
           visible == VisibleCells(written)
<1>2. /\ pc = "measure"
      /\ \/ left < 0 /\ pc' = "lineBreak"
         \/ left >= 0 /\ pc' = "pad" /\ padding' = left
      /\ UNCHANGED <<m_invisibleCharacterCount, written, suffixArray>>
  <2>1. left \in Int
    <3>1. Size(m_content) \in Nat /\ Size(suffixArray) \in Nat
      BY DataOf DEF IInv, ArraysGood
    <3>2. Width \in Nat /\ m_invisibleCharacterCount \in Nat
      BY ColumnTypes DEF IInv, TypeOK
    <3> QED
      BY <3>1, <3>2
  <2> QED
    BY <2>1 DEF Measure, Goto, Width
<1>3. StaysEnabled' /\ Counted' /\ SuffixFormatted'
  BY <1>1, <1>2 DEF StaysEnabled, Counted, SuffixFormatted, environment
<1>4. left = Room - visible /\ visible \in Nat /\ Room \in Int /\ SuffixColumns \in Nat
      /\ FirstEdge = Room + SuffixColumns
  <2>1. Size(m_content) = Len(written)
    BY <1>1, <1>2, SizeOfContent
  <2>2. /\ Len(written) = visible + m_invisibleCharacterCount
        /\ Size(suffixArray) = SuffixColumns + 1
    BY <1>1, <1>2 DEF Counted, SuffixFormatted
  <2>3. /\ SuffixColumns \in Nat /\ Width \in Nat /\ Room \in Int
        /\ m_invisibleCharacterCount \in Nat /\ written \in Seq(Cells)
    BY ColumnTypes DEF IInv, TypeOK
  <2>4. visible \in Nat
    BY <2>3, VisibleType
  <2> HIDE DEF visible
  <2>5. left = Width - (visible + SuffixColumns + 1)
    BY <2>1, <2>2, <2>3, <2>4
  <2> HIDE DEF left
  <2> QED
    BY <2>3, <2>4, <2>5 DEF Room, FirstEdge
<1> HIDE DEF left, visible
<1>5. BreakNeeded'
  BY <1>1, <1>2, <1>4 DEF BreakNeeded, visible
<1>6. LeadsToEdge'
  <2> SUFFICES ASSUME pc' = "pad" PROVE LeadsToEdge'
    BY <1>2 DEF LeadsToEdge
  <2>1. padding' = left
    BY <1>2
  <2>2. LineAt(written, 0, visible, Room)
    BY <1>1, <1>2, FirstLine DEF Counted, visible, IInv, TypeOK
  <2>3. visible + padding' + SuffixColumns = FirstEdge
    BY <1>4, <2>1
  <2>4. LineAt(written', 0, visible, Room')
    BY <1>1, <1>2, <2>2
  <2>5. visible + (IF pc' = "pad" THEN padding' ELSE 0) + SuffixColumns' =
          IF 0 = 0 THEN FirstEdge' ELSE SecondEdge'
    BY <1>1, <2>3
  <2> QED
    BY <1>4, <2>4, <2>5 DEF LeadsToEdge
<1>7. BrokenOnce' /\ LineEnded'
  BY <1>2 DEF BrokenOnce, LineEnded
<1> QED
  BY <1>3, <1>5, <1>6, <1>7 DEF AlignInv

\* The break of a line that is too long, and the second measurement.
LEMMA BreakStep ==
  ASSUME IInv, AlignInv, Next, Steady', LineBreak \/ MeasureAgain
  PROVE  AlignInv'
<1>1. /\ Steady /\ StaysEnabled /\ Counted /\ SuffixFormatted /\ BreakNeeded /\ BrokenOnce
      /\ UNCHANGED <<settings, environment, failed>>
      /\ SuffixColumns' = SuffixColumns /\ SuffixText' = SuffixText /\ Room' = Room
      /\ FirstEdge' = FirstEdge /\ SecondEdge' = SecondEdge
  BY SteadyStep
<1>2. /\ SuffixColumns \in Nat /\ Room \in Int /\ consoleWidth \in Nat
      /\ written \in Seq(Cells) /\ Len(written) \in Nat
  BY ColumnTypes, LenProperties DEF IInv, TypeOK
<1>3. CASE LineBreak
  <2>1. /\ pc = "lineBreak" /\ pc' = "measureAgain" /\ Write(<<"newline">>)
        /\ UNCHANGED suffixArray
    BY <1>3 DEF LineBreak, Goto
  <2>2. enabled /\ Newlines(written) = {} /\ VisibleCells(written) > Room
    BY <1>1, <2>1 DEF StaysEnabled, Counted, BreakNeeded
  <2>3. written' = written \o <<"newline">>
    BY <2>1, <2>2, SteadyWrite
  <2>4. LineAt(written', Len(written) + 1, 0, Room)
    BY <1>2, <2>2, <2>3, SecondLine
  <2>5. Len(written') = Len(written) + 1
    <3>1. <<"newline">> \in Seq(Cells) /\ Len(<<"newline">>) = 1
      BY CellTypes
    <3> QED
      BY <1>2, <2>3, <3>1, CellsOfConcat
  <2>6. BrokenOnce'
    BY <1>1, <1>2, <2>4, <2>5 DEF BrokenOnce
  <2>7. StaysEnabled' /\ Counted' /\ SuffixFormatted'
    BY <1>1, <2>1, <2>2 DEF StaysEnabled, Counted, SuffixFormatted, environment
  <2>8. BreakNeeded' /\ LeadsToEdge' /\ LineEnded'
    BY <2>1 DEF BreakNeeded, LeadsToEdge, LineEnded
  <2> QED
    BY <2>6, <2>7, <2>8 DEF AlignInv
<1>4. CASE MeasureAgain
  <2>1. /\ pc = "measureAgain" /\ pc' = "pad"
        /\ padding' = Larger(consoleWidth - Size(suffixArray), 0)
        /\ UNCHANGED <<suffixArray, written>>
    BY <1>4 DEF MeasureAgain, Goto
  <2>2. Size(suffixArray) = SuffixColumns + 1
    BY <1>1, <2>1 DEF SuffixFormatted
  <2>3. 0 + padding' + SuffixColumns = SecondEdge
    BY <1>2, <2>1, <2>2 DEF Larger, SecondEdge
  <2>4. Len(written) > 0 /\ LineAt(written', Len(written), 0, Room')
    BY <1>1, <2>1 DEF BrokenOnce
  <2>5. 0 + (IF pc' = "pad" THEN padding' ELSE 0) + SuffixColumns' =
          IF Len(written) = 0 THEN FirstEdge' ELSE SecondEdge'
    BY <1>1, <1>2, <2>1, <2>3, <2>4
  <2>6. LeadsToEdge'
    BY <1>2, <2>4, <2>5 DEF LeadsToEdge
  <2>7. StaysEnabled' /\ Counted' /\ SuffixFormatted'
    BY <1>1, <2>1 DEF StaysEnabled, Counted, SuffixFormatted, environment
  <2>8. BreakNeeded' /\ BrokenOnce' /\ LineEnded'
    BY <2>1 DEF BreakNeeded, BrokenOnce, LineEnded
  <2> QED
    BY <2>6, <2>7, <2>8 DEF AlignInv
<1> QED
  BY <1>3, <1>4

\* The padding.
LEMMA PadStep ==
  ASSUME IInv, AlignInv, Next, Steady', Pad \/ EndPad
  PROVE  AlignInv'
<1>1. /\ Steady /\ StaysEnabled /\ SuffixFormatted /\ LeadsToEdge
      /\ UNCHANGED <<settings, environment, failed>>
      /\ SuffixColumns' = SuffixColumns /\ SuffixText' = SuffixText /\ Room' = Room
      /\ FirstEdge' = FirstEdge /\ SecondEdge' = SecondEdge
  BY SteadyStep
<1>2. /\ pc = "pad" /\ pc' \in {"pad", "suffixText"} /\ UNCHANGED suffixArray
  BY DEF Pad, EndPad, Goto
<1>3. PICK k, n \in Nat :
        /\ LineAt(written, k, n, Room)
        /\ n + padding + SuffixColumns = IF k = 0 THEN FirstEdge ELSE SecondEdge
  BY <1>1, <1>2 DEF LeadsToEdge
<1>4. /\ padding \in Nat /\ written \in Seq(Cells) /\ SuffixColumns \in Nat
  BY ColumnTypes DEF IInv, TypeOK
<1>5. LeadsToEdge'
  <2>1. CASE Pad
    <3>1. /\ pc' = "pad" /\ padding' = padding - 1 /\ Write(<<"blank">>) /\ enabled
      BY <1>1, <2>1 DEF Pad, StaysEnabled
    <3>2. written' = written \o <<"blank">>
      BY <3>1, SteadyWrite
    <3>3. /\ <<"blank">> \in Seq(Cells) /\ VisibleCells(<<"blank">>) = 1
          /\ Newlines(<<"blank">>) = {}
      BY CellTypes, VisibleTexts, NoNewlines
    <3>4. LineAt(written', k, n + 1, Room')
      BY <1>1, <1>3, <1>4, <3>2, <3>3, LineGrows
    <3>5. (n + 1) + (IF pc' = "pad" THEN padding' ELSE 0) + SuffixColumns' =
            IF k = 0 THEN FirstEdge' ELSE SecondEdge'
      BY <1>1, <1>3, <1>4, <3>1
    <3>6. n + 1 \in Nat
      OBVIOUS
    <3> QED
      BY <1>3, <3>4, <3>5, <3>6 DEF LeadsToEdge
  <2>2. CASE EndPad
    <3>1. pc' = "suffixText" /\ padding = 0 /\ written' = written
      BY <2>2 DEF EndPad, Goto
    <3>2. LineAt(written', k, n, Room')
      BY <1>1, <1>3, <3>1
    <3>3. n + (IF pc' = "pad" THEN padding' ELSE 0) + SuffixColumns' =
            IF k = 0 THEN FirstEdge' ELSE SecondEdge'
      BY <1>1, <1>3, <3>1
    <3> QED
      BY <1>3, <3>2, <3>3 DEF LeadsToEdge
  <2> QED
    BY <2>1, <2>2
<1>6. StaysEnabled' /\ SuffixFormatted'
  BY <1>1, <1>2 DEF StaysEnabled, SuffixFormatted, environment
<1>7. Counted' /\ BreakNeeded' /\ BrokenOnce' /\ LineEnded'
  BY <1>2 DEF Counted, BreakNeeded, BrokenOnce, LineEnded
<1> QED
  BY <1>5, <1>6, <1>7 DEF AlignInv

\* The suffix and what follows it.
LEMMA EndStep ==
  ASSUME IInv, AlignInv, Next, Steady',
         WriteSuffix \/ FooterColorEnd \/ Terminate \/ PrintLine
  PROVE  AlignInv'
<1>1. /\ Steady /\ StaysEnabled /\ SuffixFormatted /\ LeadsToEdge /\ LineEnded
      /\ UNCHANGED <<settings, environment, failed>> /\ kind = "console"
      /\ Room' = Room /\ FirstEdge' = FirstEdge /\ SecondEdge' = SecondEdge
  BY SteadyStep DEF Steady
<1>2. /\ pc \in {"suffixText", "footerColorEnd", "terminate", "print"}
      /\ pc' \in {"footerColorEnd", "terminate", "print", "done"}
      /\ pc' = "footerColorEnd" => pc = "suffixText"
  BY <1>1 DEF WriteSuffix, FooterColorEnd, Terminate, PrintLine, Goto
<1>3. written \in Seq(Cells) /\ SuffixColumns \in Nat
  BY ColumnTypes DEF IInv, TypeOK
<1>4. EndsAtEdge'
  <2>1. CASE WriteSuffix
    <3>1. pc = "suffixText" /\ Write(CString(suffixArray)) /\ enabled
      BY <1>1, <2>1 DEF WriteSuffix, StaysEnabled
    <3>2. written' = written \o (SuffixText \o <<"newline">>)
      BY <1>1, <3>1, SteadyWrite DEF SuffixFormatted
    <3>3. /\ SuffixText \in Seq(Cells) /\ Newlines(SuffixText) = {}
          /\ VisibleCells(SuffixText) = SuffixColumns
      <4>1. "visible" \in Chars
        BY CellTypes
      <4>2. SuffixText \in Seq(Chars)
        BY <1>3, <4>1, TextType DEF SuffixText
      <4> QED
        BY <1>3, <4>2, CellTypes, VisibleTexts, NoNewlines DEF SuffixText
    <3>4. PICK k, n \in Nat :
            /\ LineAt(written, k, n, Room)
            /\ n + 0 + SuffixColumns = IF k = 0 THEN FirstEdge ELSE SecondEdge
      BY <1>1, <3>1 DEF LeadsToEdge
    <3> DEFINE e == Len(written) + Len(SuffixText) + 1
    <3>5. LineEnds(written', k, e, n + SuffixColumns, Room)
      BY <1>3, <3>2, <3>3, <3>4, SuffixEndsLine
    <3>6. e \in Nat
      BY <1>3, <3>3, LenProperties
    <3> HIDE DEF e
    <3>7. n + SuffixColumns = IF k = 0 THEN FirstEdge ELSE SecondEdge
      BY <1>3, <3>4
    <3>8. LineEnds(written', k, e, IF k = 0 THEN FirstEdge' ELSE SecondEdge', Room')
      BY <1>1, <3>5, <3>7
    <3> QED
      BY <3>4, <3>6, <3>8 DEF EndsAtEdge
  <2>2. CASE FooterColorEnd
    <3>1. pc = "footerColorEnd" /\ ResetColor /\ enabled
      BY <1>1, <2>2 DEF FooterColorEnd, StaysEnabled
    <3>2. PICK k, e \in Nat :
            LineEnds(written, k, e, IF k = 0 THEN FirstEdge ELSE SecondEdge, Room)
      BY <1>1, <3>1 DEF LineEnded, EndsAtEdge
    <3>3. LineEnds(written', k, e, IF k = 0 THEN FirstEdge ELSE SecondEdge, Room)
      <4>1. CASE Colors
        <5> DEFINE text == Text("escape", ResetLength)
        <5>1. text \in Seq(Cells) /\ Newlines(text) = {}
          <6>1. "escape" \in Chars /\ ResetLength \in Nat
            BY CellTypes, LineAssumption
          <6>2. text \in Seq(Chars)
            BY <6>1, TextType
          <6> QED
            BY <6>1, <6>2, CellTypes, NoNewlines
        <5>2. written' = written \o text
          BY <3>1, <4>1, SteadyWrite DEF ResetColor
        <5> HIDE DEF text
        <5> QED
          BY <1>3, <3>2, <5>1, <5>2, LineStays
      <4>2. CASE ~Colors
        BY <3>1, <3>2, <4>2 DEF ResetColor
      <4> QED
        BY <4>1, <4>2
    <3>4. LineEnds(written', k, e, IF k = 0 THEN FirstEdge' ELSE SecondEdge', Room')
      BY <1>1, <3>3
    <3> QED
      BY <3>2, <3>4 DEF EndsAtEdge
  <2>3. CASE Terminate \/ PrintLine
    <3>1. pc \in {"terminate", "print"} /\ written' = written
      BY <2>3 DEF Terminate, PrintLine
    <3> QED
      BY <1>1, <3>1 DEF LineEnded, EndsAtEdge
  <2> QED
    BY <2>1, <2>2, <2>3
<1>5. StaysEnabled'
  BY <1>1, <1>2 DEF StaysEnabled, environment
<1>6. Counted' /\ SuffixFormatted' /\ BreakNeeded' /\ BrokenOnce' /\ LeadsToEdge'
  BY <1>2 DEF Counted, SuffixFormatted, BreakNeeded, BrokenOnce, LeadsToEdge
<1> QED
  BY <1>4, <1>5, <1>6 DEF LineEnded, AlignInv

LEMMA AlignInit == Init => AlignInv
<1> SUFFICES ASSUME Init PROVE AlignInv
  OBVIOUS
<1>1. Newlines(<< >>) = {} /\ VisibleCells(<< >>) = 0 /\ Len(<< >>) = 0
  BY NoNewlines, VisibleTexts
<1>2. Counted
  BY <1>1 DEF Init, Counted
<1>3. StaysEnabled /\ SuffixFormatted /\ BreakNeeded /\ BrokenOnce /\ LeadsToEdge /\ LineEnded
  BY DEF Init, StaysEnabled, SuffixFormatted, BreakNeeded, BrokenOnce, LeadsToEdge, LineEnded
<1> QED
  BY <1>2, <1>3 DEF AlignInv

LEMMA AlignNext == IInv /\ AlignInv /\ [Next]_vars => AlignInv'
<1> SUFFICES ASSUME IInv, AlignInv, [Next]_vars, Steady' PROVE AlignInv'
  BY DEF AlignInv
<1>1. CASE UNCHANGED vars
  BY <1>1 DEF AlignInv, Steady, StaysEnabled, Counted, SuffixFormatted, BreakNeeded,
              BrokenOnce, LeadsToEdge, LineEnded, EndsAtEdge, SuffixColumns, SuffixText,
              Width, Room, FirstEdge, SecondEdge, vars, settings, environment
<1>2. CASE Next
  <2>1. CASE Done
    BY <1>1, <2>1 DEF Done
  <2> QED
    BY <1>2, <2>1, SteadyStep, TextStep, FormatStep, MeasureStep, BreakStep, PadStep, EndStep
       DEF Next
<1> QED
  BY <1>1, <1>2

\* If nothing changes during an entry, its suffix ends at the right edge of the
\* terminal, for all widths, lengths of texts and escape sequences and sizes of
\* the fixed array.
THEOREM SuffixEndsAtTheEdge == Spec => []SuffixAligned
<1>1. IInv /\ AlignInv => SuffixAligned
  <2> SUFFICES ASSUME IInv, AlignInv, kind = "console", printed # NotPrinted, ~changed, ~failed
               PROVE  /\ Cardinality(Newlines(printed)) = 1 =>
                           VisibleCells(SuffixLine(printed)) = Width - 1
                      /\ Cardinality(Newlines(printed)) # 1 =>
                           /\ VisibleCells(SubSeq(printed, 1,
                                Last(Newlines(printed) \ {Last(Newlines(printed))})))
                                + SuffixColumns + 1 > Width
                           /\ VisibleCells(SuffixLine(printed)) =
                                Larger(consoleWidth - 1, SuffixColumns)
    BY DEF SuffixAligned, Width, SuffixColumns
  <2>1. printed = written /\ pc = "done" /\ written \in Seq(Cells) /\ Len(written) \in Nat
    BY LenProperties DEF IInv, PrintedWhole, ReadyToPrint, TypeOK
  <2>2. PICK k, e \in Nat :
          LineEnds(written, k, e, IF k = 0 THEN FirstEdge ELSE SecondEdge, Room)
    BY <2>1 DEF AlignInv, Steady, LineEnded, EndsAtEdge
  <2>3. /\ SuffixLine(written) = SubSeq(written, k + 1, e - 1)
        /\ Last(Newlines(written) \ {Last(Newlines(written))}) = k
        /\ Cardinality(Newlines(written)) = IF k = 0 THEN 1 ELSE 2
    BY <2>1, <2>2, SuffixLineOf
  <2>4. VisibleCells(SuffixLine(written)) = IF k = 0 THEN FirstEdge ELSE SecondEdge
    BY <2>2, <2>3 DEF LineEnds
  <2>5. CASE k = 0
    BY <2>1, <2>3, <2>4, <2>5 DEF FirstEdge
  <2>6. CASE k # 0
    <3>1. VisibleCells(SubSeq(written, 1, k)) > Room
      BY <2>2, <2>6 DEF LineEnds
    <3>2. VisibleCells(SubSeq(written, 1, k)) \in Nat
      <4>1. k <= Len(written) /\ k \in Int
        BY <2>1, <2>2 DEF LineEnds
      <4>2. SubSeq(written, 1, k) \in Seq(Cells)
        BY <2>1, <4>1, PartOf
      <4> QED
        BY <4>2, VisibleType
    <3>3. VisibleCells(SubSeq(written, 1, k)) + SuffixColumns + 1 > Width
      BY <3>1, <3>2, ColumnTypes DEF Room, IInv
    <3> QED
      BY <2>1, <2>3, <2>4, <2>6, <3>3 DEF SecondEdge
  <2> QED
    BY <2>5, <2>6
<1> QED
  BY <1>1, Invariant, AlignInit, AlignNext, PTL DEF Spec
=============================================================================
