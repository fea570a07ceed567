------------------------------- MODULE Buffer -------------------------------
(***************************************************************************)
(* Buffer (net/core/Buffer.h, Buffer.cpp): a vector with a reader and a    *)
(* writer index.  Room is made by growing the vector or by moving the      *)
(* readable bytes to the front; readFd fills what is writable and spills   *)
(* into a second array on the stack.                                       *)
(*                                                                         *)
(* A buffer is a record, and an operation an operator from buffers to      *)
(* buffers, so that other modules can use them.                            *)
(***************************************************************************)
EXTENDS Sequences, Integers

CONSTANTS
  Bytes,           \* the values of a byte
  Zero,            \* that of the cells resize() adds
  kCheapPrepend,   \* Buffer::kCheapPrepend
  kInitialSize,    \* Buffer::kInitialSize
  ExtraSize,       \* the size of readFd's extraBuf
  Inputs,          \* the data appended and received
  MaxReadable      \* bound: the readable bytes

ASSUME ZeroAssumption == Zero \in Bytes
ASSUME SizeAssumption ==
  /\ kCheapPrepend \in Nat
  /\ kInitialSize \in Nat
  /\ ExtraSize \in Nat
ASSUME InputsAssumption == Inputs \subseteq Seq(Bytes)
ASSUME MaxReadableAssumption == MaxReadable \in Nat

VARIABLE buf       \* [cells |-> buffer_, reader |-> readerIndex_, writer |-> writeIndex_]

readableBytes(b) == b.writer - b.reader
writableBytes(b) == Len(b.cells) - b.writer
prependableBytes(b) == b.reader

Content(b) == SubSeq(b.cells, b.reader + 1, b.writer)

\* buffer_.resize(n), which never shrinks here.
Resize(cells, n) ==
  [i \in 1 .. n |-> IF i <= Len(cells) THEN cells[i] ELSE Zero]

\* std::copy of data to the cells behind index `to`.
CopyTo(cells, to, data) ==
  [i \in 1 .. Len(cells) |->
     IF to < i /\ i <= to + Len(data) THEN data[i - to] ELSE cells[i]]

\* Is there no room even if the readable bytes were at the front?
MustGrow(b, len) ==
  writableBytes(b) + prependableBytes(b) - kCheapPrepend < len

Grown(b, len) == [b EXCEPT !.cells = Resize(b.cells, b.writer + len)]

\* Mutant of MovedToFront: the indices move and the bytes do not.
MovesIndicesOnly(b) ==
  [cells  |-> b.cells,
   reader |-> kCheapPrepend,
   writer |-> kCheapPrepend + readableBytes(b)]

MovedToFront(b) ==
  [cells  |-> CopyTo(b.cells, kCheapPrepend, Content(b)),
   reader |-> kCheapPrepend,
   writer |-> kCheapPrepend + readableBytes(b)]

makeSpace(b, len) == IF MustGrow(b, len) THEN Grown(b, len) ELSE MovedToFront(b)

ensureWritableBytes(b, len) ==
  IF writableBytes(b) < len THEN makeSpace(b, len) ELSE b

\* data copied behind the readable bytes, where there is room for it.
Written(b, data) == [cells  |-> CopyTo(b.cells, b.writer, data),
                     reader |-> b.reader,
                     writer |-> b.writer + Len(data)]

append(b, data) == Written(ensureWritableBytes(b, Len(data)), data)

retrieveAll(b) == [b EXCEPT !.reader = kCheapPrepend, !.writer = kCheapPrepend]

\* Mutant of retrieve: it trusts the caller not to ask for too much.
RetrievesAnyLength(b, len) == [b EXCEPT !.reader = b.reader + len]

retrieve(b, len) ==
  IF len < readableBytes(b) THEN [b EXCEPT !.reader = b.reader + len]
                            ELSE retrieveAll(b)

\* How much one readv may deliver.
ReadLimit(b) == IF writableBytes(b) < ExtraSize
                  THEN writableBytes(b) + ExtraSize
                  ELSE writableBytes(b)

\* readFd when readv delivered data: first into the writable cells, the rest
\* into extraBuf, from where it is appended.
FitsWritable(b, data) == Len(data) <= writableBytes(b)

readFd(b, data) ==
  IF FitsWritable(b, data)
    THEN Written(b, data)
    ELSE LET w == writableBytes(b) IN
           append(Written(b, SubSeq(data, 1, w)), SubSeq(data, w + 1, Len(data)))

-----------------------------------------------------------------------------

Init ==
  buf = [cells  |-> [i \in 1 .. kCheapPrepend + kInitialSize |-> Zero],
         reader |-> kCheapPrepend,
         writer |-> kCheapPrepend]

Append_(data) ==
  /\ readableBytes(buf) + Len(data) <= MaxReadable
  /\ buf' = append(buf, data)

ReadFd(data) ==
  /\ readableBytes(buf) + Len(data) <= MaxReadable
  /\ Len(data) <= ReadLimit(buf)
  /\ buf' = readFd(buf, data)

\* A caller may ask for more than there is.
Retrieve(len) == buf' = retrieve(buf, len)

Next ==
  \/ \E data \in Inputs : Append_(data) \/ ReadFd(data)
  \/ \E len \in 0 .. MaxReadable + 1 : Retrieve(len)

Spec == Init /\ [][Next]_buf

-----------------------------------------------------------------------------
(* Properties.                                                             *)

\* A buffer keeps kCheapPrepend cells in front of the reader, the reader not
\* behind the writer, and the writer inside the vector: no index expression
\* of Buffer.h, all of them of unsigned type, wraps around.
IndexesOK(b) ==
  /\ b \in [cells : Seq(Bytes), reader : Nat, writer : Nat]
  /\ kCheapPrepend <= b.reader
  /\ b.reader <= b.writer
  /\ b.writer <= Len(b.cells)

\* The type of the buffer, and the order of its indices.
TypeOK == IndexesOK(buf)

BQ == INSTANCE ByteQueue WITH content <- Content(buf)

\* The buffer is a queue of bytes, whatever is moved or grown and wherever
\* readv puts what it delivers (append, makeSpace, readFd, retrieve).
ImplementsByteQueue == BQ!Spec
=============================================================================
