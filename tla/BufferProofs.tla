---------------------------- MODULE BufferProofs ----------------------------
(***************************************************************************)
(* Theorems about Buffer, for every size, prepend and input: its indices   *)
(* stay in order and it implements ByteQueue.  Each operation has a lemma  *)
(* that says what it does to the readable bytes.                           *)
(***************************************************************************)
EXTENDS Buffer, SequenceTheorems, TLAPS

\* The readable bytes, one by one.
LEMMA ContentByByte ==
  ASSUME NEW b, IndexesOK(b)
  PROVE  /\ Content(b) \in Seq(Bytes)
         /\ Len(Content(b)) = readableBytes(b)
         /\ readableBytes(b) \in Nat
         /\ writableBytes(b) \in Nat
         /\ \A i \in 1 .. readableBytes(b) : Content(b)[i] = b.cells[b.reader + i]
BY DEF IndexesOK, Content, readableBytes, writableBytes

\* Two buffers with the same bytes between their indices have equal content.
LEMMA ContentEqual ==
  ASSUME NEW b, IndexesOK(b), NEW s \in Seq(Bytes), Len(s) = readableBytes(b),
         \A i \in 1 .. readableBytes(b) : b.cells[b.reader + i] = s[i]
  PROVE  Content(b) = s
<1>1. /\ Content(b) \in Seq(Bytes)
      /\ Len(Content(b)) = Len(s)
      /\ \A i \in 1 .. Len(s) : Content(b)[i] = s[i]
  BY ContentByByte
<1> QED
  BY <1>1, SeqEqual

\* CopyTo changes the cells it is told to and no others.
LEMMA CopyToByCell ==
  ASSUME NEW cells \in Seq(Bytes), NEW to \in Nat, NEW data \in Seq(Bytes)
  PROVE  /\ CopyTo(cells, to, data) \in Seq(Bytes)
         /\ Len(CopyTo(cells, to, data)) = Len(cells)
         /\ \A i \in 1 .. Len(cells) :
              CopyTo(cells, to, data)[i] =
                IF to < i /\ i <= to + Len(data) THEN data[i - to] ELSE cells[i]
<1>1. \A i \in 1 .. Len(cells) : to < i /\ i <= to + Len(data) => i - to \in 1 .. Len(data)
  OBVIOUS
<1>2. \A i \in 1 .. Len(cells) :
        (IF to < i /\ i <= to + Len(data) THEN data[i - to] ELSE cells[i]) \in Bytes
  BY <1>1
<1>3. CopyTo(cells, to, data) \in [1 .. Len(cells) -> Bytes]
  BY <1>2 DEF CopyTo
<1>4. CopyTo(cells, to, data) \in Seq(Bytes) /\ Len(CopyTo(cells, to, data)) = Len(cells)
  BY <1>3
<1> QED
  BY <1>4 DEF CopyTo

\* Growing the vector leaves what is there in place.
LEMMA ResizeByCell ==
  ASSUME NEW cells \in Seq(Bytes), NEW n \in Nat
  PROVE  /\ Resize(cells, n) \in Seq(Bytes)
         /\ Len(Resize(cells, n)) = n
         /\ \A i \in 1 .. n : i <= Len(cells) => Resize(cells, n)[i] = cells[i]
<1>1. Resize(cells, n) \in [1 .. n -> Bytes]
  BY ZeroAssumption DEF Resize
<1>2. Resize(cells, n) \in Seq(Bytes) /\ Len(Resize(cells, n)) = n
  BY <1>1
<1> QED
  BY <1>2 DEF Resize

-----------------------------------------------------------------------------

\* ensureWritableBytes makes the room it is asked for and keeps the content,
\* whether it grows the vector or moves the bytes.
LEMMA EnsureKeepsContent ==
  ASSUME NEW b, IndexesOK(b), NEW len \in Nat
  PROVE  LET e == ensureWritableBytes(b, len) IN
           /\ IndexesOK(e)
           /\ Content(e) = Content(b)
           /\ len <= writableBytes(e)
<1> DEFINE e == ensureWritableBytes(b, len)
<1> SUFFICES /\ IndexesOK(e)
             /\ Content(e) = Content(b)
             /\ len <= writableBytes(e)
  OBVIOUS
<1> USE SizeAssumption
<1>0. /\ b.cells \in Seq(Bytes)
      /\ b.reader \in Nat
      /\ b.writer \in Nat
      /\ b.writer <= Len(b.cells)
  BY DEF IndexesOK
<1>1. CASE ~(writableBytes(b) < len)
  <2>1. e = b
    BY <1>1 DEF ensureWritableBytes
  <2> QED
    BY <1>1, <2>1, ContentByByte
<1>2. CASE writableBytes(b) < len /\ MustGrow(b, len)
  <2>1. e = Grown(b, len)
    BY <1>2 DEF ensureWritableBytes, makeSpace
  <2> HIDE DEF e
  <2>2. /\ e.cells = Resize(b.cells, b.writer + len)
        /\ e.reader = b.reader
        /\ e.writer = b.writer
        /\ e = [cells |-> e.cells, reader |-> e.reader, writer |-> e.writer]
    <3>1. Grown(b, len) = [cells  |-> Resize(b.cells, b.writer + len),
                           reader |-> b.reader, writer |-> b.writer]
      BY DEF Grown, IndexesOK
    <3> QED
      BY <2>1, <3>1
  <2>3. /\ e.cells \in Seq(Bytes)
        /\ Len(e.cells) = b.writer + len
        /\ \A i \in 1 .. b.writer + len : i <= Len(b.cells) => e.cells[i] = b.cells[i]
    <3>1. b.writer + len \in Nat
      BY <1>0
    <3> DEFINE r == Resize(b.cells, b.writer + len)
    <3>2. /\ r \in Seq(Bytes)
          /\ Len(r) = b.writer + len
          /\ \A i \in 1 .. b.writer + len : i <= Len(b.cells) => r[i] = b.cells[i]
      BY <1>0, <3>1, ResizeByCell
    <3>3. e.cells = r
      BY <2>2
    <3> QED
      <4> HIDE DEF r
      <4> QED BY <3>2, <3>3
  <2>4. IndexesOK(e)
    BY <2>2, <2>3 DEF IndexesOK
  <2>5. len <= writableBytes(e)
    BY <2>2, <2>3 DEF IndexesOK, writableBytes
  <2>6. \A i \in 1 .. readableBytes(e) : e.cells[e.reader + i] = Content(b)[i]
    <3> SUFFICES ASSUME NEW i \in 1 .. readableBytes(e)
                 PROVE  e.cells[e.reader + i] = Content(b)[i]
      OBVIOUS
    <3>1. readableBytes(e) = readableBytes(b)
      BY <2>2 DEF readableBytes
    <3>2. b.reader + i \in 1 .. b.writer /\ b.writer <= Len(b.cells)
      BY <3>1 DEF IndexesOK, readableBytes
    <3>3. e.cells[b.reader + i] = b.cells[b.reader + i]
      BY <2>3, <3>2 DEF IndexesOK
    <3> QED
      <4>1. Content(b)[i] = b.cells[b.reader + i]
        BY <3>1, ContentByByte
      <4> QED
        BY <2>2, <3>3, <4>1
  <2>7. Len(Content(b)) = readableBytes(e) /\ Content(b) \in Seq(Bytes)
    BY <2>2, ContentByByte DEF readableBytes
  <2>8. Content(e) = Content(b)
    BY <2>4, <2>6, <2>7, ContentEqual
  <2> QED
    BY <2>4, <2>5, <2>8
<1>3. CASE writableBytes(b) < len /\ ~MustGrow(b, len)
  <2>1. e = MovedToFront(b)
    BY <1>3 DEF ensureWritableBytes, makeSpace
  <2> HIDE DEF e
  <2>2. /\ e.cells = CopyTo(b.cells, kCheapPrepend, Content(b))
        /\ e.reader = kCheapPrepend
        /\ e.writer = kCheapPrepend + readableBytes(b)
        /\ e = [cells |-> e.cells, reader |-> e.reader, writer |-> e.writer]
    BY <2>1 DEF MovedToFront
  <2>3. /\ e.cells \in Seq(Bytes)
        /\ Len(e.cells) = Len(b.cells)
        /\ \A i \in 1 .. Len(b.cells) :
             e.cells[i] = IF kCheapPrepend < i /\ i <= kCheapPrepend + Len(Content(b))
                            THEN Content(b)[i - kCheapPrepend] ELSE b.cells[i]
    <3>1. Content(b) \in Seq(Bytes)
      BY ContentByByte
    <3> DEFINE c == CopyTo(b.cells, kCheapPrepend, Content(b))
    <3>2. /\ c \in Seq(Bytes)
          /\ Len(c) = Len(b.cells)
          /\ \A i \in 1 .. Len(b.cells) :
               c[i] = IF kCheapPrepend < i /\ i <= kCheapPrepend + Len(Content(b))
                        THEN Content(b)[i - kCheapPrepend] ELSE b.cells[i]
      BY <1>0, <3>1, CopyToByCell
    <3>3. e.cells = c
      BY <2>2
    <3> QED
      <4> HIDE DEF c
      <4> QED BY <3>2, <3>3
  <2>4. IndexesOK(e)
    BY <2>2, <2>3, ContentByByte DEF IndexesOK, readableBytes
  <2>5. len <= writableBytes(e)
    BY <1>3, <2>2, <2>3, ContentByByte
    DEF IndexesOK, MustGrow, writableBytes, readableBytes, prependableBytes
  <2>6. readableBytes(e) = readableBytes(b)
    BY <2>2, ContentByByte DEF readableBytes
  <2>7. \A i \in 1 .. readableBytes(e) : e.cells[e.reader + i] = Content(b)[i]
    <3> SUFFICES ASSUME NEW i \in 1 .. readableBytes(b)
                 PROVE  e.cells[kCheapPrepend + i] = Content(b)[i]
      BY <2>2, <2>6
    <3>1. kCheapPrepend + i \in 1 .. Len(b.cells)
      BY ContentByByte DEF IndexesOK, readableBytes
    <3>2. kCheapPrepend < kCheapPrepend + i
          /\ kCheapPrepend + i <= kCheapPrepend + Len(Content(b))
          /\ (kCheapPrepend + i) - kCheapPrepend = i
      BY ContentByByte
    <3> QED
      BY <2>3, <3>1, <3>2
  <2>8. Content(e) = Content(b)
    BY <2>4, <2>6, <2>7, ContentByByte, ContentEqual
  <2> QED
    BY <2>4, <2>5, <2>8
<1> QED
  BY <1>1, <1>2, <1>3

\* Data written where there is room for it ends up behind the content.
LEMMA WriteAppends ==
  ASSUME NEW b, IndexesOK(b), NEW data \in Seq(Bytes), Len(data) <= writableBytes(b)
  PROVE  /\ IndexesOK(Written(b, data))
         /\ Content(Written(b, data)) = Content(b) \o data
<1> DEFINE e == Written(b, data)
<1> USE SizeAssumption
<1>0. /\ b.cells \in Seq(Bytes)
      /\ b.reader \in Nat
      /\ b.writer \in Nat
      /\ kCheapPrepend <= b.reader
      /\ b.reader <= b.writer
      /\ b.writer + Len(data) <= Len(b.cells)
      /\ Len(data) \in Nat
  BY DEF IndexesOK, writableBytes
<1>1. /\ e.cells = CopyTo(b.cells, b.writer, data)
      /\ e.reader = b.reader
      /\ e.writer = b.writer + Len(data)
      /\ e = [cells |-> e.cells, reader |-> e.reader, writer |-> e.writer]
  BY DEF Written
<1> HIDE DEF e
<1>2. /\ e.cells \in Seq(Bytes)
      /\ Len(e.cells) = Len(b.cells)
      /\ \A i \in 1 .. Len(b.cells) :
           e.cells[i] = IF b.writer < i /\ i <= b.writer + Len(data)
                          THEN data[i - b.writer] ELSE b.cells[i]
  <2> DEFINE c == CopyTo(b.cells, b.writer, data)
  <2>1. /\ c \in Seq(Bytes)
        /\ Len(c) = Len(b.cells)
        /\ \A i \in 1 .. Len(b.cells) :
             c[i] = IF b.writer < i /\ i <= b.writer + Len(data)
                      THEN data[i - b.writer] ELSE b.cells[i]
    BY <1>0, CopyToByCell
  <2>2. e.cells = c
    BY <1>1
  <2> HIDE DEF c
  <2> QED
    BY <2>1, <2>2
<1>3. IndexesOK(e)
  BY <1>0, <1>1, <1>2 DEF IndexesOK
<1>4. readableBytes(e) = readableBytes(b) + Len(data)
  BY <1>0, <1>1 DEF readableBytes
<1> DEFINE s == Content(b) \o data
<1>5. s \in Seq(Bytes) /\ Len(s) = readableBytes(e)
  BY <1>4, ContentByByte
<1>6. \A i \in 1 .. readableBytes(e) : e.cells[e.reader + i] = s[i]
  <2> SUFFICES ASSUME NEW i \in 1 .. readableBytes(b) + Len(data)
               PROVE  e.cells[b.reader + i] = s[i]
    BY <1>1, <1>4
  <2>a. /\ readableBytes(b) \in Nat
        /\ Len(Content(b)) = readableBytes(b)
        /\ Content(b) \in Seq(Bytes)
    BY ContentByByte
  <2>b. b.writer = b.reader + readableBytes(b)
    BY <1>0 DEF readableBytes
  <2>c. i \in Nat /\ 1 <= i /\ i <= readableBytes(b) + Len(data)
    BY <1>0, <2>a
  <2>0. b.reader + i \in 1 .. Len(b.cells)
    <3>1. Len(b.cells) \in Nat
      BY <1>0
    <3> QED
      BY <1>0, <2>a, <2>b, <2>c, <3>1
  <2>1. CASE i <= readableBytes(b)
    <3>0. b.reader + i <= b.writer
      BY <1>0, <2>a, <2>b, <2>c, <2>1
    <3>1. e.cells[b.reader + i] = b.cells[b.reader + i]
      <4>1. b.writer \in Nat /\ b.reader + i \in Nat
        BY <1>0, <2>c
      <4>2. ~(b.writer < b.reader + i)
        BY <3>0, <4>1
      <4> QED
        BY <1>2, <2>0, <4>2
    <3>2. s[i] = Content(b)[i]
      BY <2>a, <2>c, <2>1
    <3> QED
      BY <2>c, <2>1, <3>1, <3>2, ContentByByte
  <2>2. CASE ~(i <= readableBytes(b))
    <3>1. /\ b.writer < b.reader + i
          /\ b.reader + i <= b.writer + Len(data)
          /\ (b.reader + i) - b.writer = i - readableBytes(b)
      BY <1>0, <2>a, <2>b, <2>c, <2>2
    <3>2. e.cells[b.reader + i] = data[i - readableBytes(b)]
      BY <1>2, <2>0, <3>1
    <3>3. s[i] = data[i - readableBytes(b)]
      BY <2>a, <2>c, <2>2
    <3> QED
      BY <3>2, <3>3
  <2> QED
    BY <2>1, <2>2
<1>7. Content(e) = s
  <2> HIDE DEF s
  <2> QED
    BY <1>3, <1>5, <1>6, ContentEqual
<1> QED
  BY <1>3, <1>7 DEF e

\* append puts the data behind the content.
LEMMA AppendAppends ==
  ASSUME NEW b, IndexesOK(b), NEW data \in Seq(Bytes)
  PROVE  /\ IndexesOK(append(b, data))
         /\ Content(append(b, data)) = Content(b) \o data
<1>1. Len(data) \in Nat
  OBVIOUS
<1> DEFINE room == ensureWritableBytes(b, Len(data))
<1>2. /\ IndexesOK(room)
      /\ Content(room) = Content(b)
      /\ Len(data) <= writableBytes(room)
  BY <1>1, EnsureKeepsContent
<1>3. append(b, data) = Written(room, data)
  BY DEF append
<1> HIDE DEF room
<1>4. /\ IndexesOK(Written(room, data))
      /\ Content(Written(room, data)) = Content(room) \o data
  BY <1>2, WriteAppends
<1> QED
  BY <1>2, <1>3, <1>4

\* A sequence is what is left of a cut and what is right of it.
LEMMA CutAndJoin ==
  ASSUME NEW data \in Seq(Bytes), NEW c \in Seq(Bytes), NEW w \in Nat, w <= Len(data)
  PROVE  /\ SubSeq(data, 1, w) \in Seq(Bytes)
         /\ Len(SubSeq(data, 1, w)) = w
         /\ SubSeq(data, w + 1, Len(data)) \in Seq(Bytes)
         /\ (c \o SubSeq(data, 1, w)) \o SubSeq(data, w + 1, Len(data)) = c \o data
<1> DEFINE l == SubSeq(data, 1, w)
           r == SubSeq(data, w + 1, Len(data))
<1>0. Len(data) \in Nat
  OBVIOUS
<1>1. /\ l \in Seq(Bytes)
      /\ Len(l) = w
      /\ \A i \in 1 .. w : l[i] = data[i]
  OBVIOUS
<1>2. /\ r \in Seq(Bytes)
      /\ Len(r) = Len(data) - w
      /\ \A i \in 1 .. Len(data) - w : r[i] = data[w + i]
  <2>1. \A i \in w + 1 .. Len(data) : data[i] \in Bytes
    OBVIOUS
  <2>2. /\ r \in Seq(Bytes)
        /\ Len(r) = IF w + 1 <= Len(data) THEN Len(data) - (w + 1) + 1 ELSE 0
        /\ \A i \in 1 .. Len(data) - (w + 1) + 1 : r[i] = data[(w + 1) + i - 1]
    BY <1>0, <2>1, SubSeqProperties
  <2>3. Len(data) - (w + 1) + 1 = Len(data) - w
    BY <1>0
  <2>4. \A i \in 1 .. Len(data) - w : (w + 1) + i - 1 = w + i
    BY <1>0
  <2> HIDE DEF r
  <2>5. Len(r) = Len(data) - w
    BY <1>0, <2>2
  <2> QED
    BY <2>2, <2>3, <2>4, <2>5
<1> HIDE DEF l, r
<1>3. l \o r \in Seq(Bytes) /\ Len(l \o r) = Len(data)
  <2>1. l \in Seq(Bytes) /\ r \in Seq(Bytes)
    BY <1>1, <1>2
  <2>2. l \o r \in Seq(Bytes) /\ Len(l \o r) = Len(l) + Len(r)
    BY <2>1, ConcatProperties
  <2>3. w + (Len(data) - w) = Len(data)
    BY <1>0
  <2> QED
    BY <1>1, <1>2, <2>2, <2>3
<1>4. \A i \in 1 .. Len(data) : (l \o r)[i] = data[i]
  <2> SUFFICES ASSUME NEW i \in 1 .. Len(data)
               PROVE  (l \o r)[i] = data[i]
    OBVIOUS
  <2>1. CASE i <= w
    BY <1>0, <1>1, <1>2, <2>1
  <2>2. CASE ~(i <= w)
    <3>1. i - w \in 1 .. Len(data) - w /\ w + (i - w) = i
      BY <1>0, <2>2
    <3>2. (l \o r)[i] = r[i - w]
      BY <1>0, <1>1, <1>2, <2>2, <3>1
    <3> QED
      BY <1>2, <3>1, <3>2
  <2> QED
    BY <2>1, <2>2
<1>5. l \o r = data
  BY <1>3, <1>4, SeqEqual
<1>6. (c \o l) \o r = c \o (l \o r)
  <2>1. l \in Seq(Bytes) /\ r \in Seq(Bytes)
    BY <1>1, <1>2
  <2> QED
    BY <2>1, ConcatAssociative
<1> QED
  BY <1>1, <1>2, <1>5, <1>6 DEF l, r

\* readFd puts what readv delivered behind the content, wherever it lay.
LEMMA ReadAppends ==
  ASSUME NEW b, IndexesOK(b), NEW data \in Seq(Bytes)
  PROVE  /\ IndexesOK(readFd(b, data))
         /\ Content(readFd(b, data)) = Content(b) \o data
<1>1. CASE FitsWritable(b, data)
  <2>1. readFd(b, data) = Written(b, data)
    BY <1>1 DEF readFd
  <2>2. Len(data) <= writableBytes(b)
    BY <1>1 DEF FitsWritable
  <2> QED
    BY <2>1, <2>2, WriteAppends
<1>2. CASE ~FitsWritable(b, data)
  <2> DEFINE w == writableBytes(b)
             l == SubSeq(data, 1, w)
             r == SubSeq(data, w + 1, Len(data))
  <2>1. readFd(b, data) = append(Written(b, l), r)
    BY <1>2 DEF readFd
  <2>2. w \in Nat /\ Len(data) \in Nat /\ Content(b) \in Seq(Bytes)
    BY ContentByByte
  <2>3. w <= Len(data)
    BY <1>2, <2>2 DEF FitsWritable
  <2>4. /\ l \in Seq(Bytes)
        /\ Len(l) = w
        /\ r \in Seq(Bytes)
        /\ (Content(b) \o l) \o r = Content(b) \o data
    <3> HIDE DEF w
    <3> QED
      BY <2>2, <2>3, CutAndJoin
  <2> HIDE DEF l, r
  <2>5. IndexesOK(Written(b, l)) /\ Content(Written(b, l)) = Content(b) \o l
    BY <2>2, <2>4, WriteAppends
  <2>6. /\ IndexesOK(append(Written(b, l), r))
        /\ Content(append(Written(b, l), r)) = Content(Written(b, l)) \o r
    BY <2>4, <2>5, AppendAppends
  <2> QED
    BY <2>1, <2>4, <2>5, <2>6
<1> QED
  BY <1>1, <1>2

\* retrieve takes bytes from the front of the content, at most what there is.
LEMMA RetrieveTakes ==
  ASSUME NEW b, IndexesOK(b), NEW len \in Nat
  PROVE  /\ IndexesOK(retrieve(b, len))
         /\ \E n \in 0 .. Len(Content(b)) :
              Content(retrieve(b, len)) = SubSeq(Content(b), n + 1, Len(Content(b)))
<1> USE SizeAssumption
<1>0. /\ b.cells \in Seq(Bytes)
      /\ b.reader \in Nat
      /\ b.writer \in Nat
      /\ kCheapPrepend <= b.reader
      /\ b.reader <= b.writer
      /\ b.writer <= Len(b.cells)
      /\ b = [cells |-> b.cells, reader |-> b.reader, writer |-> b.writer]
  BY DEF IndexesOK
<1>1. /\ Len(Content(b)) = readableBytes(b)
      /\ readableBytes(b) \in Nat
      /\ Content(b) \in Seq(Bytes)
  BY ContentByByte
<1> DEFINE e == retrieve(b, len)
<1>2. CASE len < readableBytes(b)
  <2>1. e = [cells |-> b.cells, reader |-> b.reader + len, writer |-> b.writer]
    <3>1. e = [b EXCEPT !.reader = b.reader + len]
      BY <1>2 DEF retrieve
    <3> QED
      BY <1>0, <3>1
  <2> HIDE DEF e
  <2>2. b.writer = b.reader + readableBytes(b)
    BY <1>0 DEF readableBytes
  <2>3. IndexesOK(e)
    BY <1>0, <1>1, <1>2, <2>1, <2>2 DEF IndexesOK
  <2> DEFINE s == SubSeq(Content(b), len + 1, Len(Content(b)))
  <2>4. /\ s \in Seq(Bytes)
        /\ Len(s) = readableBytes(b) - len
        /\ \A i \in 1 .. readableBytes(b) - len : s[i] = Content(b)[len + i]
    BY <1>1, <1>2
  <2>5. readableBytes(e) = readableBytes(b) - len
    BY <1>0, <1>1, <2>1, <2>2 DEF readableBytes
  <2>6. \A i \in 1 .. readableBytes(e) : e.cells[e.reader + i] = s[i]
    <3> SUFFICES ASSUME NEW i \in 1 .. readableBytes(b) - len
                 PROVE  e.cells[e.reader + i] = s[i]
      BY <2>5
    <3>1. /\ e.cells = b.cells
          /\ e.reader + i = b.reader + (len + i)
          /\ len + i \in 1 .. readableBytes(b)
      BY <1>0, <1>1, <1>2, <2>1
    <3>2. Content(b)[len + i] = b.cells[b.reader + (len + i)]
      BY <3>1, ContentByByte
    <3> QED
      BY <2>4, <3>1, <3>2
  <2>7. Content(e) = s
    <3> HIDE DEF s
    <3> QED
      BY <2>3, <2>4, <2>5, <2>6, ContentEqual
  <2>8. len \in 0 .. Len(Content(b))
    BY <1>1, <1>2
  <2>9. \E n \in 0 .. Len(Content(b)) : Content(e) = SubSeq(Content(b), n + 1, Len(Content(b)))
    BY <2>7, <2>8
  <2> QED
    BY <2>3, <2>9 DEF e
<1>3. CASE ~(len < readableBytes(b))
  <2>1. e = [cells |-> b.cells, reader |-> kCheapPrepend, writer |-> kCheapPrepend]
    <3>1. e = [b EXCEPT !.reader = kCheapPrepend, !.writer = kCheapPrepend]
      BY <1>3 DEF retrieve, retrieveAll
    <3> QED
      BY <1>0, <3>1
  <2> HIDE DEF e
  <2>2. IndexesOK(e)
    BY <1>0, <2>1 DEF IndexesOK
  <2>3. Content(e) = <<>>
    <3>1. Len(Content(e)) = 0 /\ Content(e) \in Seq(Bytes)
      BY <2>1, <2>2, ContentByByte DEF readableBytes
    <3> QED
      BY <3>1
  <2> DEFINE m == Len(Content(b))
  <2>4. m \in 0 .. Len(Content(b)) /\ SubSeq(Content(b), m + 1, Len(Content(b))) = <<>>
    <3>1. m \in Nat
      BY <1>1
    <3>2. SubSeq(Content(b), m + 1, m) = <<>>
      BY <1>1, <3>1
    <3> QED
      BY <3>1, <3>2
  <2>5. \E n \in 0 .. Len(Content(b)) : Content(e) = SubSeq(Content(b), n + 1, Len(Content(b)))
    <3> HIDE DEF m
    <3> QED
      BY <2>3, <2>4
  <2> QED
    BY <2>2, <2>5 DEF e
<1> QED
  BY <1>2, <1>3

-----------------------------------------------------------------------------

\* A new buffer is empty and its indices are in order.
LEMMA InitIsEmpty ==
  Init => TypeOK /\ Content(buf) = <<>>
<1> SUFFICES ASSUME Init
             PROVE  TypeOK /\ Content(buf) = <<>>
  OBVIOUS
<1> USE SizeAssumption, ZeroAssumption
<1>1. /\ buf.reader = kCheapPrepend
      /\ buf.writer = kCheapPrepend
      /\ buf = [cells |-> buf.cells, reader |-> buf.reader, writer |-> buf.writer]
  BY DEF Init
<1>2. buf.cells \in Seq(Bytes) /\ Len(buf.cells) = kCheapPrepend + kInitialSize
  <2>1. kCheapPrepend + kInitialSize \in Nat
    OBVIOUS
  <2>2. buf.cells \in [1 .. kCheapPrepend + kInitialSize -> Bytes]
    BY DEF Init
  <2> QED
    BY <2>1, <2>2
<1>3. IndexesOK(buf)
  BY <1>1, <1>2 DEF IndexesOK
<1>4. Len(Content(buf)) = 0 /\ Content(buf) \in Seq(Bytes)
  BY <1>1, <1>3, ContentByByte DEF readableBytes
<1> QED
  BY <1>3, <1>4 DEF TypeOK

\* Every operation keeps the indices in order and is one of the queue's.
LEMMA StepIsAbstractStep ==
  TypeOK /\ [Next]_buf => TypeOK' /\ [BQ!Next]_(Content(buf))
<1> SUFFICES ASSUME TypeOK, [Next]_buf
             PROVE  TypeOK' /\ [BQ!Next]_(Content(buf))
  OBVIOUS
<1>0. IndexesOK(buf)
  BY DEF TypeOK
<1>1. ASSUME NEW data \in Inputs, Append_(data) \/ ReadFd(data)
      PROVE  TypeOK' /\ [BQ!Next]_(Content(buf))
  <2>1. data \in Seq(Bytes)
    BY InputsAssumption
  <2>2. IndexesOK(buf') /\ Content(buf') = Content(buf) \o data
    <3>1. CASE Append_(data)
      BY <1>0, <2>1, <3>1, AppendAppends DEF Append_
    <3>2. CASE ReadFd(data)
      BY <1>0, <2>1, <3>2, ReadAppends DEF ReadFd
    <3> QED
      BY <1>1, <3>1, <3>2
  <2>3. BQ!Put(data)
    BY <2>2 DEF BQ!Put, Content
  <2> QED
    BY <2>2, <2>3 DEF TypeOK, BQ!Next
<1>2. ASSUME NEW len \in 0 .. MaxReadable + 1, Retrieve(len)
      PROVE  TypeOK' /\ [BQ!Next]_(Content(buf))
  <2>1. len \in Nat
    BY MaxReadableAssumption
  <2>2. /\ IndexesOK(buf')
        /\ \E n \in 0 .. Len(Content(buf)) :
             Content(buf') = SubSeq(Content(buf), n + 1, Len(Content(buf)))
    BY <1>0, <1>2, <2>1, RetrieveTakes DEF Retrieve
  <2>3. PICK n \in 0 .. Len(Content(buf)) :
             Content(buf') = SubSeq(Content(buf), n + 1, Len(Content(buf)))
    BY <2>2
  <2>4. BQ!Take(n)
    BY <2>3 DEF BQ!Take, Content
  <2> QED
    BY <2>2, <2>4 DEF TypeOK, BQ!Next
<1>3. CASE UNCHANGED buf
  BY <1>3 DEF TypeOK, IndexesOK, Content
<1> QED
  BY <1>1, <1>2, <1>3 DEF Next

\* The indices of a buffer are always in order, for every size of the vector,
\* of the prepend and of extraBuf (Buffer.h:126-136, Buffer.cpp:28-36).
THEOREM TypeCorrect == Spec => []TypeOK
<1>1. Init => TypeOK
  BY InitIsEmpty
<1>2. TypeOK /\ [Next]_buf => TypeOK'
  BY StepIsAbstractStep
<1> QED
  BY <1>1, <1>2, PTL DEF Spec

\* A buffer is a queue of bytes: append and readFd put at its end, retrieve
\* takes from its front, and moving or growing the vector is invisible.
THEOREM BufferIsAByteQueue == Spec => ImplementsByteQueue
<1>1. Init => BQ!Init
  BY InitIsEmpty DEF BQ!Init
<1>2. TypeOK /\ [Next]_buf => [BQ!Next]_(Content(buf))
  BY StepIsAbstractStep
<1> QED
  BY <1>1, <1>2, TypeCorrect, PTL DEF Spec, BQ!Spec, ImplementsByteQueue
=============================================================================
