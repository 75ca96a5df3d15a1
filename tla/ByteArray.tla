----------------------------- MODULE ByteArray -----------------------------
(***************************************************************************)
(* ByteArray, the buffer in which the stream backends collect the text of  *)
(* an entry: a fixed array that is part of the object for short texts, a   *)
(* vector on the heap for longer ones.                                     *)
(*                                                                         *)
(* The cells that getData() reaches are kept, not only the first size() of *)
(* them: callers read the terminator that lies behind the last character.  *)
(***************************************************************************)
EXTENDS Integers, Sequences

CONSTANTS
  StaticSize,   \* sizeof(m_staticData)
  Nul,          \* the character 0
  Garbage       \* what an uninitialized cell holds

ASSUME ByteArrayAssumption == StaticSize \in Nat /\ Nul # Garbage

\* m_length once the vector is in use: -1, which converts to the largest size_t.
NotRelevant == -1

\* The two states of a ByteArray: n bytes in the fixed array, or in the vector.
InArray(cells, n) ==
  [usesStaticBuffer |-> TRUE, data |-> cells, m_length |-> n, vectorSize |-> 0]

InVector(cells, n) ==
  [usesStaticBuffer |-> FALSE, data |-> cells, m_length |-> NotRelevant, vectorSize |-> n]

EmptyByteArray == InArray([i \in 1 .. StaticSize |-> Garbage], 0)

Size(b) == IF b.usesStaticBuffer THEN b.m_length ELSE b.vectorSize

\* The cell at index i - 1 is getData(b)[i].
getData(b) == b.data

Contents(b) == SubSeq(getData(b), 1, Size(b))

Larger(m, n) == IF m > n THEN m ELSE n

\* std::vector::resize from size to n elements: new elements are 0, the cells
\* of removed ones keep their content.
VectorResize(cells, size, n) ==
  [i \in 1 .. Larger(n, Len(cells)) |->
     IF i > size /\ i <= n THEN Nul ELSE cells[i]]

\* Mutant: the vector does not take over what the fixed array holds.
ResizeDropsArray(b, n) ==
  IF ~b.usesStaticBuffer THEN InVector(VectorResize(b.data, b.vectorSize, n), n)
  ELSE IF n <= StaticSize THEN InArray(b.data, n)
  ELSE InVector([i \in 1 .. n |-> Nul], n)

\* Mutant: m_length is reset to 0 when the vector takes over.
ResizeResetsLength(b, n) ==
  IF ~b.usesStaticBuffer
  THEN [InVector(VectorResize(b.data, b.vectorSize, n), n) EXCEPT !.m_length = b.m_length]
  ELSE IF n <= StaticSize THEN InArray(b.data, n)
  ELSE [InVector([i \in 1 .. n |-> IF i <= b.m_length THEN b.data[i] ELSE Nul], n)
          EXCEPT !.m_length = 0]

\* resize
Resize(b, n) ==
  IF ~b.usesStaticBuffer THEN InVector(VectorResize(b.data, b.vectorSize, n), n)
  ELSE IF n <= StaticSize THEN InArray(b.data, n)
  ELSE InVector([i \in 1 .. n |-> IF i <= b.m_length THEN b.data[i] ELSE Nul], n)

\* The assertion of operator[]: index < m_length, where -1 is beyond every index.
IndexAllowed(b, index) == b.m_length = NotRelevant \/ index < b.m_length

\* The cells with bytes copied over those from index position on.
Overwritten(cells, position, bytes) ==
  [i \in 1 .. Len(cells) |->
     IF i > position /\ i <= position + Len(bytes)
     THEN bytes[i - position] ELSE cells[i]]

\* copy_n of bytes to getData() + position.
StoreAt(b, position, bytes) == [b EXCEPT !.data = Overwritten(b.data, position, bytes)]

\* append
AppendBytes(b, bytes) == StoreAt(Resize(b, Size(b) + Len(bytes)), Size(b), bytes)

\* The copy constructor.
Copy(b) == AppendBytes(EmptyByteArray, Contents(b))

\* operator=
Assign(b, right) == StoreAt(Resize(b, Size(right)), 0, Contents(right))

\* What "%s" prints of getData(): the cells before the first terminator.  Without
\* one the reader leaves the array.
CString(b) ==
  LET cells == getData(b)
      ends  == {n \in 0 .. Len(cells) - 1 :
                  cells[n + 1] = Nul /\ \A i \in 1 .. n : cells[i] # Nul}
  IN  IF ends = {} THEN Append(cells, Garbage)
      ELSE SubSeq(cells, 1, CHOOSE n \in ends : TRUE)
=============================================================================
