--------------------------- MODULE MsgBufferProofs ---------------------------
(***************************************************************************)
(* Theorems about MsgBuffer, for any lengths of the buffer, of its front,   *)
(* of extrabuf and of the calls, and about TestContext on top of it, for    *)
(* any messages of any peer.                                                *)
(***************************************************************************)
EXTENDS TestContext, SequenceTheorems, WellFoundedInduction, TLAPS

\* TypeOK of a buffer that holds bytes up to s, with what keeps it: there is room
\* for the front, where retrieveAll puts the indexes.
IsBuffer(b, s) ==
    /\ b \in [size : Nat, reader : Nat, writer : Nat, bytes : {b.bytes}]
    /\ b.reader <= b.writer /\ b.writer <= b.size
    /\ kCheapPrepend <= b.size
    /\ b.bytes \in [0 .. b.size - 1 -> 0 .. s]

\* The readable bytes of b.
Content(b) == [i \in 1 .. ReadableBytes(b) |-> b.bytes[b.reader + i - 1]]

\* The bytes that come in after the first s.
Incoming(s, len) == [i \in 1 .. len |-> s + i]

USE BufferAssumption DEF BufferAssumption

-----------------------------------------------------------------------------
(* The operations of a buffer.                                              *)

\* The readable bytes are a sequence, as long as ReadableBytes says.
LEMMA ContentIsSeq ==
  ASSUME NEW s \in Nat, NEW b, IsBuffer(b, s)
  PROVE  /\ ReadableBytes(b) \in Nat
         /\ Content(b) \in Seq(Nat)
         /\ Len(Content(b)) = ReadableBytes(b)
         /\ \A i \in 1 .. ReadableBytes(b) : Content(b)[i] = b.bytes[b.reader + i - 1]
<1>1. ReadableBytes(b) \in Nat
  BY DEF IsBuffer, ReadableBytes
<1>2. \A i \in 1 .. ReadableBytes(b) : b.bytes[b.reader + i - 1] \in Nat
  BY SMTT(30) DEF IsBuffer, ReadableBytes
<1> QED
  BY <1>1, <1>2 DEF Content

\* The bytes that come in are a sequence.
LEMMA IncomingIsSeq ==
  ASSUME NEW s \in Nat, NEW len \in Nat
  PROVE  Incoming(s, len) \in Seq(Nat) /\ Len(Incoming(s, len)) = len
  BY DEF Incoming

\* Resize keeps what is readable.
LEMMA ResizeKeeps ==
  ASSUME NEW s \in Nat, NEW b, IsBuffer(b, s), NEW size \in Nat,
         b.writer <= size, kCheapPrepend <= size
  PROVE  /\ IsBuffer(Resize(b, size), s)
         /\ Resize(b, size).size = size
         /\ Resize(b, size).writer = b.writer
         /\ Content(Resize(b, size)) = Content(b)
<1> DEFINE r == Resize(b, size)
<1>1. /\ r \in [size : Nat, reader : Nat, writer : Nat, bytes : {r.bytes}]
      /\ r.size = size /\ r.reader = b.reader /\ r.writer = b.writer
      /\ r.bytes = [i \in 0 .. size - 1 |-> IF i < b.size THEN b.bytes[i] ELSE 0]
  BY DEF IsBuffer, Resize
<1> HIDE DEF r
<1>2. IsBuffer(r, s)
  BY <1>1 DEF IsBuffer
<1>3. ReadableBytes(r) = ReadableBytes(b)
  BY <1>1 DEF ReadableBytes
<1>4. \A i \in 1 .. ReadableBytes(b) : r.bytes[r.reader + i - 1] = b.bytes[b.reader + i - 1]
  BY <1>1, SMTT(30) DEF IsBuffer, ReadableBytes
<1> QED
  BY <1>1, <1>2, <1>3, <1>4 DEF Content, r

\* MoveToFront keeps what is readable, if it fits behind the front.
LEMMA MoveKeeps ==
  ASSUME NEW s \in Nat, NEW b, IsBuffer(b, s), kCheapPrepend + ReadableBytes(b) <= b.size
  PROVE  /\ IsBuffer(MoveToFront(b), s)
         /\ MoveToFront(b).size = b.size
         /\ MoveToFront(b).writer = kCheapPrepend + ReadableBytes(b)
         /\ Content(MoveToFront(b)) = Content(b)
<1> DEFINE r == MoveToFront(b)
<1>1. ReadableBytes(b) \in Nat
  BY ContentIsSeq
<1> DEFINE w == kCheapPrepend + ReadableBytes(b)
           f == [i \in 0 .. b.size - 1 |->
                   IF i \in kCheapPrepend .. kCheapPrepend + ReadableBytes(b) - 1
                     THEN b.bytes[b.reader + i - kCheapPrepend] ELSE b.bytes[i]]
<1>2. /\ r \in [size : Nat, reader : Nat, writer : Nat, bytes : {r.bytes}]
      /\ r.size = b.size /\ r.reader = kCheapPrepend /\ r.writer = w /\ r.bytes = f
  <2>1. r = [b EXCEPT !.reader = kCheapPrepend, !.writer = w, !.bytes = f]
    BY DEF MoveToFront
  <2>2. w \in Nat
    BY <1>1
  <2> HIDE DEF w, f, r
  <2> QED
    BY <2>1, <2>2 DEF IsBuffer
<1> HIDE DEF r
<1>3. IsBuffer(r, s)
  <2>1. ASSUME NEW i \in 0 .. b.size - 1 PROVE r.bytes[i] \in 0 .. s
    <3>1. CASE i \in kCheapPrepend .. kCheapPrepend + ReadableBytes(b) - 1
      <4>1. b.reader + i - kCheapPrepend \in 0 .. b.size - 1
        BY <3>1, SMTT(30) DEF IsBuffer, ReadableBytes
      <4>2. r.bytes[i] = b.bytes[b.reader + i - kCheapPrepend]
        BY <1>2, <3>1
      <4> QED
        BY <4>1, <4>2 DEF IsBuffer
    <3>2. CASE i \notin kCheapPrepend .. kCheapPrepend + ReadableBytes(b) - 1
      <4>1. r.bytes[i] = b.bytes[i]
        BY <1>2, <3>2
      <4> QED
        BY <4>1 DEF IsBuffer
    <3> QED
      BY <3>1, <3>2
  <2> QED
    BY <1>1, <1>2, <2>1 DEF IsBuffer
<1>4. ReadableBytes(r) = ReadableBytes(b)
  BY <1>1, <1>2 DEF ReadableBytes
<1>5. ASSUME NEW i \in 1 .. ReadableBytes(b)
      PROVE  r.bytes[r.reader + i - 1] = b.bytes[b.reader + i - 1]
  <2> DEFINE k == kCheapPrepend + i - 1
  <2>1. b.size \in Nat /\ b.reader \in Nat
    BY DEF IsBuffer
  <2>2. /\ k \in 0 .. b.size - 1
        /\ k \in kCheapPrepend .. kCheapPrepend + ReadableBytes(b) - 1
        /\ b.reader + k - kCheapPrepend = b.reader + i - 1
    BY <1>1, <2>1
  <2>3. r.bytes[k] = b.bytes[b.reader + k - kCheapPrepend]
    <3> HIDE DEF k
    <3> QED
      BY <1>2, <2>2
  <2> QED
    BY <1>2, <2>2, <2>3
<1> QED
  BY <1>2, <1>3, <1>4, <1>5 DEF Content, r

\* EnsureWritableBytes makes room, keeps what is readable, and lets the vector
\* grow only if len bytes more do not fit.
LEMMA EnsureKeeps ==
  ASSUME NEW s \in Nat, NEW b, IsBuffer(b, s), NEW len \in Nat
  PROVE  /\ IsBuffer(EnsureWritableBytes(b, len), s)
         /\ len <= WritableBytes(EnsureWritableBytes(b, len))
         /\ Content(EnsureWritableBytes(b, len)) = Content(b)
         /\ EnsureWritableBytes(b, len).size # b.size =>
              ReadableBytes(b) + len + kCheapPrepend > b.size
<1>1. ReadableBytes(b) \in Nat /\ WritableBytes(b) \in Nat
  BY DEF IsBuffer, ReadableBytes, WritableBytes
<1>2. CASE len <= WritableBytes(b)
  BY <1>1, <1>2 DEF EnsureWritableBytes
<1>3. CASE WritableBytes(b) < len /\ NeedsResize(b, len)
  <2>1. EnsureWritableBytes(b, len) = Resize(b, b.writer + len)
    BY <1>3 DEF EnsureWritableBytes, MakeSpace
  <2>2. ReadableBytes(b) + len + kCheapPrepend > b.size
    BY <1>3 DEF NeedsResize, IsBuffer, ReadableBytes, WritableBytes, PrependableBytes
  <2>3. /\ b.writer + len \in Nat /\ b.writer <= b.writer + len /\ b.writer \in Nat
        /\ kCheapPrepend <= b.writer + len
    BY <1>3 DEF IsBuffer, WritableBytes
  <2> QED
    BY <2>1, <2>2, <2>3, ResizeKeeps DEF WritableBytes
<1>4. CASE WritableBytes(b) < len /\ ~NeedsResize(b, len)
  <2>1. EnsureWritableBytes(b, len) = MoveToFront(b)
    BY <1>4 DEF EnsureWritableBytes, MakeSpace
  <2>2. kCheapPrepend + ReadableBytes(b) + len <= b.size
    BY <1>4 DEF NeedsResize, IsBuffer, ReadableBytes, WritableBytes, PrependableBytes
  <2>3. b.size \in Nat
    BY DEF IsBuffer
  <2> QED
    BY <1>1, <2>1, <2>2, <2>3, MoveKeeps DEF WritableBytes
<1> QED
  BY <1>1, <1>2, <1>3, <1>4

\* Copy puts the next len bytes at index at, if they fit there.
LEMMA CopyPuts ==
  ASSUME NEW s \in Nat, NEW b, IsBuffer(b, s), NEW len \in Nat, NEW at \in Nat,
         at + len <= b.size
  PROVE  /\ IsBuffer(Copy(b, at, len, s), s + len)
         /\ Copy(b, at, len, s).size = b.size
         /\ Copy(b, at, len, s).reader = b.reader
         /\ Copy(b, at, len, s).writer = b.writer
         /\ \A i \in 0 .. b.size - 1 : Copy(b, at, len, s).bytes[i] =
              IF i \in at .. at + len - 1 THEN s + 1 + (i - at) ELSE b.bytes[i]
<1> DEFINE r == Copy(b, at, len, s)
           f == [i \in 0 .. b.size - 1 |->
                   IF i \in at .. at + len - 1 THEN s + 1 + (i - at) ELSE b.bytes[i]]
<1>1. /\ r \in [size : Nat, reader : Nat, writer : Nat, bytes : {r.bytes}]
      /\ r.size = b.size /\ r.reader = b.reader /\ r.writer = b.writer /\ r.bytes = f
  <2>1. r = [b EXCEPT !.bytes = f]
    BY DEF Copy
  <2> HIDE DEF f, r
  <2> QED
    BY <2>1 DEF IsBuffer
<1>2. f \in [0 .. b.size - 1 -> 0 .. s + len]
  <2>1. ASSUME NEW i \in 0 .. b.size - 1 PROVE f[i] \in 0 .. s + len
    <3>1. CASE i \in at .. at + len - 1
      BY <3>1
    <3>2. CASE i \notin at .. at + len - 1
      <4>1. f[i] = b.bytes[i] /\ b.bytes[i] \in 0 .. s
        BY <3>2 DEF IsBuffer
      <4> QED
        BY <4>1
    <3> QED
      BY <3>1, <3>2
  <2> QED
    BY <2>1
<1> HIDE DEF f
<1>3. IsBuffer(r, s + len)
  <2> HIDE DEF r
  <2> QED
    BY <1>1, <1>2 DEF IsBuffer
<1> QED
  BY <1>1, <1>3 DEF f

\* Bytes written behind the readable ones follow them.
LEMMA WritePuts ==
  ASSUME NEW s \in Nat, NEW b, IsBuffer(b, s), NEW len \in Nat,
         len <= WritableBytes(b)
  PROVE  /\ IsBuffer(HasWritten(Copy(b, b.writer, len, s), len), s + len)
         /\ HasWritten(Copy(b, b.writer, len, s), len).size = b.size
         /\ Content(HasWritten(Copy(b, b.writer, len, s), len)) =
              Content(b) \o Incoming(s, len)
<1> DEFINE c == Copy(b, b.writer, len, s)
           r == HasWritten(c, len)
<1>1. b.writer \in Nat /\ b.reader \in Nat /\ b.size \in Nat /\ b.writer + len <= b.size
  BY DEF IsBuffer, WritableBytes
<1>2. /\ IsBuffer(c, s + len)
      /\ c.size = b.size /\ c.reader = b.reader /\ c.writer = b.writer
      /\ \A i \in 0 .. b.size - 1 : c.bytes[i] =
           IF i \in b.writer .. b.writer + len - 1 THEN s + 1 + (i - b.writer) ELSE b.bytes[i]
  <2> DEFINE w == b.writer
  <2>1. w \in Nat /\ w + len <= b.size
    BY <1>1
  <2> HIDE DEF w
  <2>2. LET d == Copy(b, w, len, s) IN
          /\ IsBuffer(d, s + len)
          /\ d.size = b.size /\ d.reader = b.reader /\ d.writer = b.writer
          /\ \A i \in 0 .. b.size - 1 : d.bytes[i] =
               IF i \in w .. w + len - 1 THEN s + 1 + (i - w) ELSE b.bytes[i]
    BY <2>1, CopyPuts
  <2> QED
    BY <2>2 DEF w
<1>2b. \A i \in 0 .. b.size - 1 : c.bytes[i] =
         IF i \in b.writer .. b.writer + len - 1 THEN s + 1 + (i - b.writer) ELSE b.bytes[i]
  BY <1>2
<1> HIDE DEF c
<1>3. /\ r \in [size : Nat, reader : Nat, writer : Nat, bytes : {r.bytes}]
      /\ r.size = b.size /\ r.reader = b.reader /\ r.writer = b.writer + len
      /\ r.bytes = c.bytes
  <2>1. r = [c EXCEPT !.writer = c.writer + len]
    BY DEF HasWritten
  <2>2. c.writer + len \in Nat
    BY <1>1, <1>2
  <2> HIDE DEF r
  <2>3. /\ r \in [size : Nat, reader : Nat, writer : Nat, bytes : {r.bytes}]
        /\ r.size = c.size /\ r.reader = c.reader /\ r.writer = c.writer + len
        /\ r.bytes = c.bytes
    BY <1>2, <2>1, <2>2 DEF IsBuffer
  <2> QED
    BY <1>2, <2>3
<1> HIDE DEF r
<1>4. IsBuffer(r, s + len)
  BY <1>1, <1>2, <1>3 DEF IsBuffer
<1>5. ReadableBytes(b) \in Nat /\ ReadableBytes(r) = ReadableBytes(b) + len
  BY <1>1, <1>3, ContentIsSeq DEF ReadableBytes
<1>6. s + len \in Nat
  OBVIOUS
<1>7. /\ Content(r) \in Seq(Nat) /\ Len(Content(r)) = ReadableBytes(r)
      /\ \A i \in 1 .. ReadableBytes(r) : Content(r)[i] = r.bytes[r.reader + i - 1]
  BY <1>4, <1>6, ContentIsSeq
<1>8. /\ Content(b) \in Seq(Nat) /\ Len(Content(b)) = ReadableBytes(b)
      /\ \A i \in 1 .. ReadableBytes(b) : Content(b)[i] = b.bytes[b.reader + i - 1]
  BY ContentIsSeq
<1>9. Incoming(s, len) \in Seq(Nat) /\ Len(Incoming(s, len)) = len
  BY IncomingIsSeq
<1> DEFINE all == Content(b) \o Incoming(s, len)
<1>10. /\ all \in Seq(Nat) /\ Len(all) = ReadableBytes(b) + len
       /\ \A i \in 1 .. ReadableBytes(b) + len : all[i] =
            IF i <= ReadableBytes(b) THEN Content(b)[i]
                                     ELSE Incoming(s, len)[i - ReadableBytes(b)]
  <2>1. \A x \in Seq(Nat), y \in Seq(Nat) :
          /\ x \o y \in Seq(Nat) /\ Len(x \o y) = Len(x) + Len(y)
          /\ \A i \in 1 .. Len(x) + Len(y) :
               (x \o y)[i] = IF i <= Len(x) THEN x[i] ELSE y[i - Len(x)]
    BY ConcatProperties
  <2>2. /\ all \in Seq(Nat) /\ Len(all) = Len(Content(b)) + Len(Incoming(s, len))
        /\ \A i \in 1 .. Len(Content(b)) + Len(Incoming(s, len)) : all[i] =
             IF i <= Len(Content(b)) THEN Content(b)[i]
                                     ELSE Incoming(s, len)[i - Len(Content(b))]
    BY <1>8, <1>9, <2>1, Zenon
  <2> HIDE DEF all
  <2> QED
    BY <1>8, <1>9, <2>2
<1>11. ASSUME NEW i \in 1 .. ReadableBytes(b) + len PROVE Content(r)[i] = all[i]
  <2> HIDE DEF all
  <2> DEFINE j == b.reader + i - 1
  <2>1. Content(r)[i] = c.bytes[j]
    BY <1>3, <1>5, <1>7
  <2>2. j \in 0 .. b.size - 1
    BY <1>1, <1>5 DEF ReadableBytes
  <2>3. CASE i <= ReadableBytes(b)
    <3>1. j \notin b.writer .. b.writer + len - 1
      BY <1>1, <2>3 DEF ReadableBytes
    <3>2. c.bytes[j] = b.bytes[j]
      <4> HIDE DEF j
      <4> QED
        BY <1>2b, <2>2, <3>1
    <3> QED
      BY <1>8, <1>10, <2>1, <2>3, <3>2
  <2>4. CASE i > ReadableBytes(b)
    <3> DEFINE k == i - ReadableBytes(b)
    <3>1. j \in b.writer .. b.writer + len - 1
      BY <1>1, <1>5, <2>4 DEF ReadableBytes
    <3>2. c.bytes[j] = s + 1 + (j - b.writer)
      <4> HIDE DEF j
      <4> QED
        BY <1>2b, <2>2, <3>1
    <3>3. k \in 1 .. len
      BY <1>5, <2>4
    <3>4. all[i] = s + k
      <4>1. all[i] = Incoming(s, len)[k]
        BY <1>5, <1>10, <2>4
      <4> HIDE DEF k
      <4> QED
        BY <3>3, <4>1 DEF Incoming
    <3> QED
      BY <1>1, <2>1, <3>2, <3>4 DEF ReadableBytes
  <2> QED
    BY <1>5, <2>3, <2>4
<1>12. Content(r) = all
  <2> HIDE DEF all
  <2> QED
    BY <1>5, <1>7, <1>10, <1>11, SeqEqual
<1> QED
  BY <1>3, <1>4, <1>12 DEF r, c

\* append puts its bytes behind the readable ones, growing the vector only if
\* they do not fit.
LEMMA AppendPuts ==
  ASSUME NEW s \in Nat, NEW b, IsBuffer(b, s), NEW len \in Nat
  PROVE  /\ IsBuffer(Appended(b, len, s), s + len)
         /\ Content(Appended(b, len, s)) = Content(b) \o Incoming(s, len)
         /\ Appended(b, len, s).size # b.size =>
              ReadableBytes(Appended(b, len, s)) + kCheapPrepend > b.size
<1> DEFINE e == EnsureWritableBytes(b, len)
           r == HasWritten(Copy(e, e.writer, len, s), len)
<1>1. Appended(b, len, s) = r
  BY DEF Appended
<1>2. IsBuffer(e, s) /\ len <= WritableBytes(e) /\ Content(e) = Content(b)
  BY EnsureKeeps
<1>2b. e.size # b.size => ReadableBytes(b) + len + kCheapPrepend > b.size
  BY EnsureKeeps
<1> HIDE DEF e
<1>3. IsBuffer(r, s + len) /\ r.size = e.size /\ Content(r) = Content(b) \o Incoming(s, len)
  <2>1. \A x : IsBuffer(x, s) /\ len <= WritableBytes(x) =>
          LET y == HasWritten(Copy(x, x.writer, len, s), len) IN
            /\ IsBuffer(y, s + len) /\ y.size = x.size
            /\ Content(y) = Content(x) \o Incoming(s, len)
    BY WritePuts
  <2>2. IsBuffer(r, s + len) /\ r.size = e.size /\ Content(r) = Content(e) \o Incoming(s, len)
    BY <1>2, <2>1
  <2> HIDE DEF r
  <2> QED
    BY <1>2, <2>2
<1> HIDE DEF r
<1>4. ReadableBytes(r) = ReadableBytes(b) + len
  <2>1. s + len \in Nat
    OBVIOUS
  <2>2. Len(Content(r)) = ReadableBytes(r) /\ Len(Content(b)) = ReadableBytes(b)
    BY <1>3, <2>1, ContentIsSeq
  <2>3. Content(b) \in Seq(Nat) /\ Incoming(s, len) \in Seq(Nat) /\ Len(Incoming(s, len)) = len
    BY ContentIsSeq, IncomingIsSeq
  <2>4. Len(Content(b) \o Incoming(s, len)) = Len(Content(b)) + len
    BY <2>3, ConcatProperties
  <2> QED
    BY <1>3, <2>2, <2>4
<1> QED
  BY <1>1, <1>3, <1>4, <1>2b

\* Bytes that come in one after the other come in at once.
LEMMA IncomingInTwo ==
  ASSUME NEW s \in Nat, NEW m \in Nat, NEW n \in Nat
  PROVE  Incoming(s, m) \o Incoming(s + m, n) = Incoming(s, m + n)
<1> DEFINE x == Incoming(s, m)
           y == Incoming(s + m, n)
           z == Incoming(s, m + n)
<1>1. s + m \in Nat /\ m + n \in Nat
  OBVIOUS
<1>2. /\ x \in Seq(Nat) /\ Len(x) = m
      /\ y \in Seq(Nat) /\ Len(y) = n
      /\ z \in Seq(Nat) /\ Len(z) = m + n
  BY <1>1, IncomingIsSeq
<1>3. /\ \A i \in 1 .. m : x[i] = s + i
      /\ \A i \in 1 .. n : y[i] = s + m + i
      /\ \A i \in 1 .. m + n : z[i] = s + i
  BY DEF Incoming
<1> HIDE DEF x, y, z
<1>4. /\ x \o y \in Seq(Nat) /\ Len(x \o y) = m + n
      /\ \A i \in 1 .. m + n : (x \o y)[i] = IF i <= m THEN x[i] ELSE y[i - m]
  <2>1. /\ x \o y \in Seq(Nat) /\ Len(x \o y) = Len(x) + Len(y)
        /\ \A i \in 1 .. Len(x) + Len(y) :
             (x \o y)[i] = IF i <= Len(x) THEN x[i] ELSE y[i - Len(x)]
    BY <1>2, ConcatProperties, Zenon
  <2> QED
    BY <1>2, <2>1
<1>5. ASSUME NEW i \in 1 .. m + n PROVE (x \o y)[i] = z[i]
  <2>1. CASE i <= m
    BY <1>3, <1>4, <2>1
  <2>2. CASE ~(i <= m)
    <3> DEFINE k == i - m
    <3>1. k \in 1 .. n
      BY <2>2
    <3>2. (x \o y)[i] = y[k]
      BY <1>4, <2>2
    <3>3. y[k] = s + m + k
      <4> HIDE DEF k
      <4> QED
        BY <1>3, <3>1
    <3> QED
      BY <1>3, <3>2, <3>3
  <2> QED
    BY <2>1, <2>2
<1>6. x \o y = z
  BY <1>2, <1>4, <1>5, SeqEqual
<1> QED
  BY <1>6 DEF x, y, z

-----------------------------------------------------------------------------
(* The steps, for a buffer of the type.                                     *)

Typed == stamp \in Nat /\ IsBuffer(buffer, stamp)

\* The type holds in such a state.
LEMMA TypedGivesTypeOK == Typed => TypeOK
  BY DEF Typed, TypeOK, IsBuffer

\* What a step comes to: the type, a step of the queue, and no needless growth.
StepOK ==
    /\ Typed'
    /\ Queue!Next \/ (Content(buffer) = Content(buffer)' /\ stamp' = stamp)
    /\ buffer'.size # buffer.size =>
         ReadableBytes(buffer') + kCheapPrepend > buffer.size

\* Put of the abstract queue in terms of Content and Incoming.
LEMMA PutSuffices ==
  ASSUME NEW len \in Lens, stamp' = stamp + len,
         Content(buffer') = Content(buffer) \o Incoming(stamp, len)
  PROVE  Queue!Next
<1>1. Readable = Content(buffer) /\ Readable' = Content(buffer')
  BY DEF Readable, Content, ReadableBytes
<1>2. Queue!Put(len)
  BY <1>1 DEF Queue!Put, Queue!Fresh, Incoming
<1> QED
  BY <1>2 DEF Queue!Next

\* append is a step.
LEMMA AppendStep ==
  ASSUME Typed, NEW len \in Lens, AppendBytes(len)
  PROVE  StepOK
<1>1. len \in Nat /\ stamp \in Nat /\ IsBuffer(buffer, stamp)
  BY DEF Typed
<1>2. buffer' = Appended(buffer, len, stamp) /\ stamp' = stamp + len
  BY DEF AppendBytes, MayCome
<1>3. /\ IsBuffer(buffer', stamp + len)
      /\ Content(buffer') = Content(buffer) \o Incoming(stamp, len)
      /\ buffer'.size # buffer.size =>
           ReadableBytes(buffer') + kCheapPrepend > buffer.size
  BY <1>1, <1>2, AppendPuts
<1>4. Typed'
  BY <1>1, <1>2, <1>3 DEF Typed
<1>5. Queue!Next
  BY <1>2, <1>3, PutSuffices
<1> QED
  BY <1>3, <1>4, <1>5 DEF StepOK

\* readFd puts what it reads behind the readable bytes: what went through extrabuf
\* follows what was read in place.
LEMMA ReadFdPuts ==
  ASSUME Typed, NEW len \in Lens, ReadFd(len)
  PROVE  /\ stamp' = stamp + len
         /\ IsBuffer(buffer', stamp + len)
         /\ Content(buffer') = Content(buffer) \o Incoming(stamp, len)
         /\ buffer'.size # buffer.size =>
              ReadableBytes(buffer') + kCheapPrepend > buffer.size
<1> DEFINE w == WritableBytes(buffer)
           c == HasWritten(Copy(buffer, buffer.writer, w, stamp), w)
<1>1. len \in Nat /\ stamp \in Nat /\ IsBuffer(buffer, stamp)
  BY DEF Typed
<1>2. stamp' = stamp + len
  BY DEF ReadFd, MayCome
<1>3. w \in Nat
  BY <1>1 DEF IsBuffer, WritableBytes
<1>4. /\ IsBuffer(buffer', stamp + len)
      /\ Content(buffer') = Content(buffer) \o Incoming(stamp, len)
      /\ buffer'.size # buffer.size =>
           ReadableBytes(buffer') + kCheapPrepend > buffer.size
  <2>1. CASE len <= w
    <3>1. buffer' = HasWritten(Copy(buffer, buffer.writer, len, stamp), len)
      BY <2>1 DEF ReadFd
    <3> QED
      BY <1>1, <2>1, <3>1, WritePuts
  <2>2. CASE ~(len <= w)
    <3> DEFINE n == len - w
    <3>1. buffer' = Appended(c, n, stamp + w)
      BY <2>2 DEF ReadFd
    <3>2. n \in Nat /\ stamp + w \in Nat /\ w + n = len /\ stamp + w + n = stamp + len
      BY <1>1, <1>3, <2>2
    <3>3. /\ IsBuffer(c, stamp + w) /\ c.size = buffer.size
          /\ Content(c) = Content(buffer) \o Incoming(stamp, w)
      <4>1. w <= WritableBytes(buffer)
        BY <1>3
      <4> HIDE DEF w
      <4>2. \A x : IsBuffer(x, stamp) /\ w <= WritableBytes(x) =>
              LET y == HasWritten(Copy(x, x.writer, w, stamp), w) IN
                /\ IsBuffer(y, stamp + w) /\ y.size = x.size
                /\ Content(y) = Content(x) \o Incoming(stamp, w)
        BY <1>1, <1>3, WritePuts
      <4> QED
        BY <1>1, <4>1, <4>2
    <3> HIDE DEF w, c, n
    <3>4. /\ IsBuffer(buffer', stamp + w + n)
          /\ Content(buffer') = Content(c) \o Incoming(stamp + w, n)
          /\ buffer'.size # c.size =>
               ReadableBytes(buffer') + kCheapPrepend > c.size
      BY <3>1, <3>2, <3>3, AppendPuts
    <3>5. Content(buffer') = Content(buffer) \o Incoming(stamp, len)
      <4>1. /\ Content(buffer) \in Seq(Nat) /\ Incoming(stamp, w) \in Seq(Nat)
            /\ Incoming(stamp + w, n) \in Seq(Nat)
        BY <1>1, <1>3, <3>2, ContentIsSeq, IncomingIsSeq
      <4>2. Content(buffer') =
              Content(buffer) \o (Incoming(stamp, w) \o Incoming(stamp + w, n))
        <5>1. \A x, y, z \in Seq(Nat) : (x \o y) \o z = x \o (y \o z)
          BY ConcatAssociative, SMTT(30)
        <5>2. (Content(buffer) \o Incoming(stamp, w)) \o Incoming(stamp + w, n) =
                Content(buffer) \o (Incoming(stamp, w) \o Incoming(stamp + w, n))
          BY <4>1, <5>1, Zenon
        <5>3. /\ Content(c) = Content(buffer) \o Incoming(stamp, w)
              /\ Content(buffer') = Content(c) \o Incoming(stamp + w, n)
          BY <3>3, <3>4
        <5> QED
          BY <5>2, <5>3, Zenon
      <4>3. Incoming(stamp, w) \o Incoming(stamp + w, n) = Incoming(stamp, w + n)
        <5>1. \A s, k, m \in Nat : Incoming(s, k) \o Incoming(s + k, m) = Incoming(s, k + m)
          BY IncomingInTwo
        <5>2. stamp \in Nat /\ w \in Nat /\ n \in Nat
          BY <1>1, <1>3, <3>2
        <5> QED
          BY <5>1, <5>2, Zenon
      <4> QED
        BY <3>2, <4>2, <4>3
    <3> QED
      BY <3>2, <3>3, <3>4, <3>5
  <2> QED
    BY <2>1, <2>2
<1> QED
  BY <1>2, <1>4

\* readFd is a step.
LEMMA ReadFdStep ==
  ASSUME Typed, NEW len \in Lens, ReadFd(len)
  PROVE  StepOK
<1>1. len \in Nat /\ stamp \in Nat
  BY DEF Typed
<1>2. Typed'
  BY <1>1, ReadFdPuts DEF Typed
<1>3. Queue!Next
  BY ReadFdPuts, PutSuffices
<1> QED
  BY <1>2, <1>3, ReadFdPuts DEF StepOK

\* prepend is a step.
LEMMA PrependStep ==
  ASSUME Typed, NEW len \in Lens, PrependBytes(len)
  PROVE  StepOK
<1> DEFINE b == buffer
           a == b.reader - len
           c == Copy(b, a, len, stamp)
           x == Incoming(stamp, len)
           y == Content(b)
           z == Content(buffer')
<1>1. len \in Nat /\ stamp \in Nat /\ stamp + len \in Nat /\ IsBuffer(b, stamp)
  BY DEF Typed
<1>2. /\ b.reader \in Nat /\ b.writer \in Nat /\ b.size \in Nat
      /\ b.reader <= b.writer /\ b.writer <= b.size
  BY <1>1 DEF IsBuffer
<1>3. a \in Nat /\ a + len = b.reader
  BY <1>1, <1>2 DEF PrependBytes, PrependableBytes
<1>4. stamp' = stamp + len /\ buffer' = [c EXCEPT !.reader = a]
  BY DEF PrependBytes, MayCome
<1>5. /\ IsBuffer(c, stamp + len)
      /\ c.size = b.size /\ c.writer = b.writer
      /\ \A i \in 0 .. b.size - 1 : c.bytes[i] =
           IF i \in a .. a + len - 1 THEN stamp + 1 + (i - a) ELSE b.bytes[i]
  <2>1. \A k \in Nat : k + len <= b.size =>
          LET d == Copy(b, k, len, stamp) IN
            /\ IsBuffer(d, stamp + len)
            /\ d.size = b.size /\ d.reader = b.reader /\ d.writer = b.writer
            /\ \A i \in 0 .. b.size - 1 : d.bytes[i] =
                 IF i \in k .. k + len - 1 THEN stamp + 1 + (i - k) ELSE b.bytes[i]
    BY <1>1, CopyPuts
  <2>2. a + len <= b.size
    BY <1>2, <1>3
  <2> HIDE DEF a, b
  <2> QED
    BY <1>3, <2>1, <2>2
<1> HIDE DEF c, a
<1>6. /\ IsBuffer(buffer', stamp + len)
      /\ buffer'.size = b.size /\ buffer'.writer = b.writer /\ buffer'.reader = a
      /\ buffer'.bytes = c.bytes
  <2>1. IsBuffer(c, stamp + len) /\ c.writer = b.writer
    BY <1>5
  <2>2. /\ buffer' \in [size : Nat, reader : Nat, writer : Nat, bytes : {buffer'.bytes}]
        /\ buffer'.size = c.size /\ buffer'.writer = c.writer /\ buffer'.reader = a
        /\ buffer'.bytes = c.bytes
    BY <1>3, <1>4, <2>1 DEF IsBuffer
  <2>3. a <= b.writer
    BY <1>1, <1>2, <1>3
  <2> QED
    BY <1>5, <2>1, <2>2, <2>3 DEF IsBuffer
<1>7. ReadableBytes(b) \in Nat /\ ReadableBytes(buffer') = len + ReadableBytes(b)
  BY <1>1, <1>2, <1>3, <1>6 DEF ReadableBytes
<1>8. /\ x \in Seq(Nat) /\ Len(x) = len
      /\ y \in Seq(Nat) /\ Len(y) = ReadableBytes(b)
      /\ z \in Seq(Nat) /\ Len(z) = len + ReadableBytes(b)
  BY <1>1, <1>6, <1>7, ContentIsSeq, IncomingIsSeq
<1>9. /\ \A i \in 1 .. len : x[i] = stamp + i
      /\ \A i \in 1 .. ReadableBytes(b) : y[i] = b.bytes[b.reader + i - 1]
      /\ \A i \in 1 .. len + ReadableBytes(b) : z[i] = c.bytes[a + i - 1]
  BY <1>6, <1>7 DEF Incoming, Content
<1> HIDE DEF x, y, z
<1>10. /\ x \o y \in Seq(Nat) /\ Len(x \o y) = len + ReadableBytes(b)
       /\ \A i \in 1 .. len + ReadableBytes(b) :
            (x \o y)[i] = IF i <= len THEN x[i] ELSE y[i - len]
  <2>1. /\ x \o y \in Seq(Nat) /\ Len(x \o y) = Len(x) + Len(y)
        /\ \A i \in 1 .. Len(x) + Len(y) :
             (x \o y)[i] = IF i <= Len(x) THEN x[i] ELSE y[i - Len(x)]
    BY <1>8, ConcatProperties, Zenon
  <2> QED
    BY <1>8, <2>1
<1>11. ASSUME NEW i \in 1 .. len + ReadableBytes(b) PROVE z[i] = (x \o y)[i]
  <2> DEFINE j == a + i - 1
  <2>1. j \in 0 .. b.size - 1
    BY <1>1, <1>2, <1>3, <1>7 DEF ReadableBytes
  <2>2. z[i] = c.bytes[j]
    BY <1>9
  <2>3. CASE i <= len
    <3>1. j \in a .. a + len - 1 /\ i \in 1 .. len
      BY <1>1, <1>3, <2>3
    <3>2. c.bytes[j] = stamp + 1 + (j - a)
      <4> HIDE DEF j
      <4> QED
        BY <1>5, <2>1, <3>1
    <3>3. x[i] = stamp + i /\ (x \o y)[i] = x[i]
      BY <1>9, <1>10, <2>3, <3>1
    <3> QED
      BY <1>1, <1>3, <2>2, <3>2, <3>3
  <2>4. CASE ~(i <= len)
    <3> DEFINE k == i - len
    <3>1. j \notin a .. a + len - 1 /\ k \in 1 .. ReadableBytes(b) /\ j = b.reader + k - 1
      BY <1>1, <1>3, <1>7, <2>4
    <3>2. c.bytes[j] = b.bytes[j]
      <4> HIDE DEF j
      <4> QED
        BY <1>5, <2>1, <3>1
    <3>3. (x \o y)[i] = y[k]
      BY <1>10, <2>4
    <3>4. y[k] = b.bytes[b.reader + k - 1]
      <4> HIDE DEF k
      <4> QED
        BY <1>9, <3>1
    <3> QED
      BY <2>2, <3>1, <3>2, <3>3, <3>4
  <2> QED
    BY <2>3, <2>4
<1>12. z = x \o y
  BY <1>8, <1>10, <1>11, SeqEqual
<1>13. Typed'
  BY <1>1, <1>4, <1>6 DEF Typed
<1>14. Queue!Next
  <2>1. Readable = y /\ Readable' = z
    BY DEF Readable, Content, ReadableBytes, y, z, b
  <2>2. Queue!PutFirst(len)
    BY <1>4, <1>12, <2>1 DEF Queue!PutFirst, Queue!Fresh, Incoming, x
  <2> QED
    BY <2>2 DEF Queue!Next
<1> QED
  BY <1>6, <1>13, <1>14 DEF StepOK

\* Taking bytes off either end leaves the others.
LEMMA ShorterContent ==
  ASSUME NEW s \in Nat, NEW b, IsBuffer(b, s), NEW r, IsBuffer(r, s),
         NEW m \in Nat, NEW n \in Nat, m + n <= ReadableBytes(b),
         r.reader = b.reader + m, r.writer = b.writer - n, r.bytes = b.bytes
  PROVE  Content(r) = SubSeq(Content(b), m + 1, ReadableBytes(b) - n)
<1> DEFINE x == Content(b)
           k == ReadableBytes(b)
           y == SubSeq(x, m + 1, k - n)
           z == Content(r)
<1>1. /\ b.reader \in Nat /\ b.writer \in Nat /\ k \in Nat
      /\ ReadableBytes(r) = k - n - m /\ k - n - m \in Nat
  <2>1. b.reader \in Nat /\ b.writer \in Nat /\ b.reader <= b.writer
    BY DEF IsBuffer
  <2> QED
    BY <2>1 DEF ReadableBytes
<1>2. /\ x \in Seq(Nat) /\ Len(x) = k
      /\ \A i \in 1 .. k : x[i] = b.bytes[b.reader + i - 1]
  BY ContentIsSeq
<1>3. /\ z \in Seq(Nat) /\ Len(z) = k - n - m
      /\ \A i \in 1 .. k - n - m : z[i] = b.bytes[b.reader + m + i - 1]
  <2>1. /\ z \in Seq(Nat) /\ Len(z) = ReadableBytes(r)
        /\ \A i \in 1 .. ReadableBytes(r) : z[i] = r.bytes[r.reader + i - 1]
    BY ContentIsSeq
  <2> HIDE DEF z, k
  <2> QED
    BY <1>1, <2>1
<1> HIDE DEF x, z, k
<1>4. /\ y \in Seq(Nat) /\ Len(y) = k - n - m
      /\ \A i \in 1 .. k - n - m : y[i] = x[m + i]
  <2>1. m + 1 \in Int /\ k - n \in Int /\ \A i \in m + 1 .. k - n : x[i] \in Nat
    <3>1. \A i \in 1 .. Len(x) : x[i] \in Nat
      BY <1>2, ElementOfSeq
    <3>2. \A i \in m + 1 .. k - n : i \in 1 .. Len(x)
      BY <1>1, <1>2
    <3> QED
      BY <1>1, <3>1, <3>2
  <2>2. /\ y \in Seq(Nat)
        /\ Len(y) = IF m + 1 <= k - n THEN k - n - (m + 1) + 1 ELSE 0
        /\ \A i \in 1 .. k - n - (m + 1) + 1 : y[i] = x[m + 1 + i - 1]
    BY <2>1, SubSeqProperties
  <2> QED
    BY <1>1, <2>2
<1> HIDE DEF y
<1>5. ASSUME NEW i \in 1 .. k - n - m PROVE z[i] = y[i]
  <2> DEFINE j == m + i
  <2>1. j \in 1 .. k /\ b.reader + j - 1 = b.reader + m + i - 1
    BY <1>1
  <2>2. x[j] = b.bytes[b.reader + j - 1]
    <3> HIDE DEF j
    <3> QED
      BY <1>2, <2>1
  <2> QED
    BY <1>3, <1>4, <2>1, <2>2
<1>6. z = y
  BY <1>3, <1>4, <1>5, SeqEqual
<1> QED
  BY <1>6 DEF x, y, z, k

\* retrieve takes bytes off the front; what empties the buffer also takes the
\* indexes back.
LEMMA RetrieveTakes ==
  ASSUME Typed, NEW len \in Lens, Retrieve(len)
  PROVE  /\ stamp' = stamp /\ len <= ReadableBytes(buffer)
         /\ IsBuffer(buffer', stamp) /\ buffer'.size = buffer.size
         /\ Content(buffer') = SubSeq(Content(buffer), len + 1, ReadableBytes(buffer))
<1> DEFINE b == buffer
<1>1. len \in Nat /\ stamp \in Nat /\ IsBuffer(b, stamp) /\ stamp' = stamp
  BY DEF Typed, Retrieve
<1>2. ReadableBytes(b) \in Nat /\ len <= ReadableBytes(b)
  BY <1>1, ContentIsSeq DEF Retrieve
<1>3. /\ b.reader \in Nat /\ b.writer \in Nat /\ b.size \in Nat
      /\ b.reader <= b.writer /\ b.writer <= b.size
  BY <1>1 DEF IsBuffer
<1>4. /\ IsBuffer(buffer', stamp) /\ buffer'.size = b.size
      /\ Content(buffer') = SubSeq(Content(b), len + 1, ReadableBytes(b))
  <2>1. CASE len < ReadableBytes(b)
    <3>1. buffer' = [b EXCEPT !.reader = b.reader + len]
      BY <2>1 DEF Retrieve
    <3>2. b.reader + len \in Nat /\ b.reader + len <= b.writer
      BY <1>1, <1>3, <2>1 DEF ReadableBytes
    <3>3. /\ IsBuffer(buffer', stamp) /\ buffer'.size = b.size
          /\ buffer'.reader = b.reader + len /\ buffer'.writer = b.writer
          /\ buffer'.bytes = b.bytes
      BY <1>1, <3>1, <3>2 DEF IsBuffer
    <3>4. Content(buffer') = SubSeq(Content(b), len + 1, ReadableBytes(b) - 0)
      <4>1. buffer'.writer = b.writer - 0 /\ len + 0 <= ReadableBytes(b) /\ 0 \in Nat
        BY <1>1, <1>2, <1>3, <3>3
      <4> QED
        BY <1>1, <3>3, <4>1, ShorterContent
    <3>5. ReadableBytes(b) - 0 = ReadableBytes(b)
      BY <1>2
    <3> HIDE DEF b
    <3> QED
      BY <3>3, <3>4, <3>5
  <2>2. CASE len = ReadableBytes(b)
    <3>1. buffer' = [b EXCEPT !.reader = kCheapPrepend, !.writer = kCheapPrepend]
      BY <1>2, <2>2 DEF Retrieve, RetrieveAll
    <3>2. kCheapPrepend <= b.size
      BY <1>1 DEF IsBuffer
    <3>3. /\ IsBuffer(buffer', stamp) /\ buffer'.size = b.size
          /\ ReadableBytes(buffer') = 0
      <4>1. /\ buffer' \in [size : Nat, reader : Nat, writer : Nat, bytes : {buffer'.bytes}]
            /\ buffer'.size = b.size /\ buffer'.bytes = b.bytes
            /\ buffer'.reader = kCheapPrepend /\ buffer'.writer = kCheapPrepend
        BY <1>1, <3>1 DEF IsBuffer
      <4> QED
        BY <1>1, <3>2, <4>1 DEF IsBuffer, ReadableBytes
    <3>4. Content(buffer') = <<>>
      BY <3>3 DEF Content
    <3>5. SubSeq(Content(b), len + 1, ReadableBytes(b)) = <<>>
      BY <1>1, <2>2, SubSeqEmpty
    <3> QED
      BY <3>3, <3>4, <3>5
  <2> QED
    BY <1>1, <1>2, <2>1, <2>2
<1> QED
  BY <1>1, <1>2, <1>4

\* retrieve is a step.
LEMMA RetrieveStep ==
  ASSUME Typed, NEW len \in Lens, Retrieve(len)
  PROVE  StepOK
<1> DEFINE b == buffer
<1>1. len \in Nat /\ stamp \in Nat /\ IsBuffer(b, stamp) /\ stamp' = stamp
  BY DEF Typed, Retrieve
<1>2. ReadableBytes(b) \in Nat /\ len <= ReadableBytes(b)
  BY <1>1, ContentIsSeq DEF Retrieve
<1>4. /\ IsBuffer(buffer', stamp) /\ buffer'.size = b.size
      /\ Content(buffer') = SubSeq(Content(b), len + 1, ReadableBytes(b))
  BY RetrieveTakes
<1>5. Typed'
  BY <1>1, <1>4 DEF Typed
<1>6. Queue!Next
  <2>1. Readable = Content(b) /\ Readable' = Content(buffer')
    BY DEF Readable, Content, ReadableBytes
  <2>2. Content(b) \in Seq(Nat) /\ Len(Content(b)) = ReadableBytes(b)
    BY <1>1, ContentIsSeq
  <2>3. Queue!Get(len)
    BY <1>1, <1>2, <1>4, <2>1, <2>2 DEF Queue!Get
  <2> QED
    BY <2>3 DEF Queue!Next
<1> QED
  BY <1>4, <1>5, <1>6 DEF StepOK

\* unwrite is a step.
LEMMA UnwriteStep ==
  ASSUME Typed, NEW len \in Lens, Unwrite(len)
  PROVE  StepOK
<1> DEFINE b == buffer
<1>1. len \in Nat /\ stamp \in Nat /\ IsBuffer(b, stamp) /\ stamp' = stamp
  BY DEF Typed, Unwrite
<1>2. ReadableBytes(b) \in Nat /\ len <= ReadableBytes(b)
  BY <1>1, ContentIsSeq DEF Unwrite
<1>3. /\ b.reader \in Nat /\ b.writer \in Nat /\ b.size \in Nat
      /\ b.reader <= b.writer /\ b.writer <= b.size
  BY <1>1 DEF IsBuffer
<1>4. /\ IsBuffer(buffer', stamp) /\ buffer'.size = b.size
      /\ Content(buffer') = SubSeq(Content(b), 1, ReadableBytes(b) - len)
  <2>1. buffer' = [b EXCEPT !.writer = b.writer - len]
    BY DEF Unwrite
  <2>2. b.writer - len \in Nat /\ b.reader <= b.writer - len /\ b.writer - len <= b.size
    BY <1>1, <1>2, <1>3 DEF ReadableBytes
  <2>3. /\ IsBuffer(buffer', stamp) /\ buffer'.size = b.size
        /\ buffer'.reader = b.reader /\ buffer'.writer = b.writer - len
        /\ buffer'.bytes = b.bytes
    BY <1>1, <2>1, <2>2 DEF IsBuffer
  <2>4. Content(buffer') = SubSeq(Content(b), 0 + 1, ReadableBytes(b) - len)
    <3>1. buffer'.reader = b.reader + 0 /\ 0 + len <= ReadableBytes(b) /\ 0 \in Nat
      BY <1>1, <1>2, <1>3, <2>3
    <3> QED
      BY <1>1, <2>3, <3>1, ShorterContent
  <2> QED
    BY <2>3, <2>4
<1>5. Typed'
  BY <1>1, <1>4 DEF Typed
<1>6. Queue!Next
  <2>1. Readable = Content(b) /\ Readable' = Content(buffer')
    BY DEF Readable, Content, ReadableBytes
  <2>2. Content(b) \in Seq(Nat) /\ Len(Content(b)) = ReadableBytes(b)
    BY <1>1, ContentIsSeq
  <2>3. Queue!TakeBack(len)
    BY <1>1, <1>2, <1>4, <2>1, <2>2 DEF Queue!TakeBack
  <2> QED
    BY <2>3 DEF Queue!Next
<1> QED
  BY <1>4, <1>5, <1>6 DEF StepOK

-----------------------------------------------------------------------------
(* The theorems.                                                            *)

\* A new buffer has its type and nothing to read.
LEMMA InitTyped == Init => Typed /\ Queue!Init
<1> SUFFICES ASSUME Init PROVE Typed /\ Queue!Init
  OBVIOUS
<1>1. Typed
  BY DEF Init, Typed, IsBuffer
<1>2. ReadableBytes(buffer) = 0
  BY DEF Init, ReadableBytes
<1>3. Readable = <<>> /\ stamp = 0
  BY <1>2 DEF Init, Readable
<1> QED
  BY <1>1, <1>3 DEF Queue!Init

\* Every step of MsgBuffer is what StepOK says, or changes nothing.
LEMMA Step == Typed /\ [Next]_vars => StepOK \/ UNCHANGED vars
  BY AppendStep, ReadFdStep, PrependStep, RetrieveStep, UnwriteStep DEF Next

\* The type is kept by every step.
LEMMA Invariance == Spec => []Typed
<1>1. Typed /\ [Next]_vars => Typed'
  <2>1. Typed /\ UNCHANGED vars => Typed'
    BY DEF Typed, vars, IsBuffer
  <2> QED
    BY <2>1, Step DEF StepOK
<1> QED
  BY <1>1, InitTyped, PTL DEF Spec

\* The indexes of a MsgBuffer stay in order and inside the vector, whatever the
\* lengths of the calls: the asserts of the code on its own state never fail.
THEOREM TypeCorrect == Spec => []TypeOK
  BY Invariance, TypedGivesTypeOK, PTL

\* MsgBuffer implements ByteQueue: no bytes are lost, repeated or reordered by
\* growing, moving to the front or reading through extrabuf.
THEOREM MsgBufferImplementsQueue == Spec => ImplementsQueue
<1>1. Typed /\ [Next]_vars => [Queue!Next]_<<Readable, stamp>>
  <2>1. StepOK => [Queue!Next]_<<Readable, stamp>>
    BY DEF StepOK, Readable, Content, ReadableBytes
  <2>2. UNCHANGED vars => UNCHANGED <<Readable, stamp>>
    BY DEF vars, Readable, ReadableBytes
  <2> QED
    BY <2>1, <2>2, Step
<1> QED
  BY <1>1, InitTyped, Invariance, PTL DEF Spec, ImplementsQueue, Queue!Spec

-----------------------------------------------------------------------------
(* Induction, and functions defined by recursion.                           *)

\* A set of numbers with 0 and, for each of them, the next, has them all.
LEMMA Upward ==
  ASSUME NEW T \in SUBSET Nat, 0 \in T, \A n \in T : n + 1 \in T
  PROVE  T = Nat
<1> SUFFICES ASSUME Nat \ T # {} PROVE FALSE
  OBVIOUS
<1>1. PICK x \in Nat \ T : \A y \in Nat \ T : ~(<<y, x>> \in OpToRel(<, Nat))
  BY NatLessThanWellFounded, WFMin
<1>2. \A y \in Nat \ T : ~(y < x)
  BY <1>1 DEF OpToRel
<1>3. x \in Nat /\ x \notin T
  BY <1>1, Zenon
<1>4a. x - 1 \in T
  BY <1>2, <1>3
<1>4. x - 1 + 1 \in T
  BY <1>4a
<1> QED
  BY <1>3, <1>4

\* f starts with v, and each value is a step from the one before.
Iterates(f, v, step, n) == f[0] = v /\ \A j \in 1 .. n : f[j] = step[j][f[j - 1]]

\* Each step function taken in turn gives a function.
LEMMA Recursion ==
  ASSUME NEW V, NEW v0 \in V, NEW n \in Nat, NEW step \in [1 .. n -> [V -> V]]
  PROVE  \E f \in [0 .. n -> V] : Iterates(f, v0, step, n)
<1> DEFINE Good(f, m) == /\ f \in [0 .. m -> V]
                         /\ f[0] = v0 /\ \A j \in 1 .. m : f[j] = step[j][f[j - 1]]
           T == {m \in Nat : m <= n => \E f : Good(f, m)}
<1>1. 0 \in T
  <2>1. Good([j \in 0 .. 0 |-> v0], 0)
    OBVIOUS
  <2> QED
    BY <2>1
<1>2. ASSUME NEW m \in T, m + 1 <= n PROVE \E f : Good(f, m + 1)
  <2>1. m \in Nat /\ m <= n
    BY <1>2
  <2>2. PICK g : Good(g, m)
    BY <1>2, <2>1
  <2> DEFINE f == [j \in 0 .. m + 1 |-> IF j <= m THEN g[j] ELSE step[j][g[m]]]
  <2>3. g[m] \in V /\ step[m + 1] \in [V -> V]
    BY <1>2, <2>1, <2>2
  <2>4. f \in [0 .. m + 1 -> V]
    BY <2>1, <2>2, <2>3
  <2>5. f[0] = v0
    BY <2>1, <2>2
  <2>6. ASSUME NEW j \in 1 .. m + 1 PROVE f[j] = step[j][f[j - 1]]
    <3>1. CASE j <= m
      BY <2>1, <2>2, <3>1
    <3>2. CASE j = m + 1
      <4>1. f[j] = step[j][g[m]] /\ f[m] = g[m] /\ j - 1 = m
        BY <2>1, <3>2
      <4> HIDE DEF f
      <4> QED
        BY <4>1
    <3> QED
      BY <2>1, <3>1, <3>2
  <2> HIDE DEF f
  <2> QED
    BY <2>4, <2>5, <2>6
<1>3. T = Nat
  <2>1. \A m \in T : m + 1 \in T
    <3> HIDE DEF Good
    <3> QED
      BY <1>2
  <2> HIDE DEF T
  <2>2. T \in SUBSET Nat
    BY DEF T
  <2> QED
    BY <1>1, <2>1, <2>2, Upward
<1>4. \E f : Good(f, n)
  <2>1. n \in T
    BY <1>3
  <2> QED
    BY <2>1
<1> QED
  BY <1>4 DEF Iterates


\* What is in V at 0, and at each number if at the one before, is in V.
LEMMA StaysIn ==
  ASSUME NEW V, NEW n \in Nat, NEW f, f[0] \in V,
         \A k \in 1 .. n : f[k - 1] \in V => f[k] \in V
  PROVE  \A k \in 0 .. n : f[k] \in V
<1> DEFINE T == {k \in Nat : k <= n => f[k] \in V}
<1>1. 0 \in T
  OBVIOUS
<1>2. \A k \in T : k + 1 \in T
  <2> SUFFICES ASSUME NEW k \in T, k + 1 <= n PROVE f[k + 1] \in V
    OBVIOUS
  <2>1. k \in Nat /\ f[k] \in V /\ k + 1 \in 1 .. n /\ k + 1 - 1 = k
    OBVIOUS
  <2> QED
    BY <2>1
<1>3. T \in SUBSET Nat
  OBVIOUS
<1>4. T = Nat
  <2> HIDE DEF T
  <2> QED
    BY <1>1, <1>2, <1>3, Upward
<1> QED
  BY <1>4

-----------------------------------------------------------------------------
(* What the peer sends.                                                     *)

\* End is the sum that its recursion says.
LEMMA EndUnfolds ==
  ASSUME NEW lens \in Seq(Int), IntBytes \in Nat
  PROVE  /\ End(lens, 0) = 0
         /\ \A k \in 0 .. Len(lens) : End(lens, k) \in Nat
         /\ \A k \in 1 .. Len(lens) :
               End(lens, k) = End(lens, k - 1) + IntBytes + BodyLen(lens, k)
<1> DEFINE n == Len(lens)
           step == [j \in 1 .. n |-> [v \in Nat |-> v + IntBytes + BodyLen(lens, j)]]
           Eq(f) == f = [j \in 0 .. Len(lens) |->
                           IF j = 0 THEN 0 ELSE f[j - 1] + IntBytes + BodyLen(lens, j)]
           end == CHOOSE f : Eq(f)
<1>1. \A k \in 1 .. n : BodyLen(lens, k) \in Nat
  BY DEF BodyLen
<1>2. \A k \in 0 .. n : End(lens, k) = end[k]
  BY DEF End
<1>3. PICK f \in [0 .. n -> Nat] : Iterates(f, 0, step, n)
  <2>1. step \in [1 .. n -> [Nat -> Nat]] /\ n \in Nat /\ 0 \in Nat
    BY <1>1
  <2> HIDE DEF step, n
  <2> QED
    BY <2>1, Recursion
<1>4. ASSUME NEW j \in 1 .. n
      PROVE  f[j - 1] \in Nat /\ f[j] = f[j - 1] + IntBytes + BodyLen(lens, j)
  <2>1. j - 1 \in 0 .. n
    OBVIOUS
  <2>2. f[j - 1] \in Nat
    BY <2>1
  <2>3. step[j][f[j - 1]] = f[j - 1] + IntBytes + BodyLen(lens, j)
    BY <2>2
  <2> QED
    BY <1>3, <2>2, <2>3, Zenon DEF Iterates
<1>5. Eq(f)
  <2> HIDE DEF step
  <2> QED
    BY <1>3, <1>4 DEF Iterates
<1>6. Eq(end)
  BY <1>5, Zenon
<1>7. /\ end[0] = 0
      /\ \A j \in 1 .. n : end[j] = end[j - 1] + IntBytes + BodyLen(lens, j)
  <2>1. 0 \in 0 .. Len(lens) /\ \A j \in 1 .. n : j \in 0 .. Len(lens) /\ j # 0
    OBVIOUS
  <2> HIDE DEF end, n
  <2>2. \A j \in 0 .. Len(lens) :
          end[j] = IF j = 0 THEN 0 ELSE end[j - 1] + IntBytes + BodyLen(lens, j)
    BY <1>6, Zenon
  <2> QED
    BY <2>1, <2>2
<1> HIDE DEF end
<1>8. \A k \in 0 .. n : end[k] \in Nat
  <2>1. \A k \in 1 .. n : end[k - 1] \in Nat => end[k] \in Nat
    BY <1>1, <1>7
  <2>2. n \in Nat /\ end[0] \in Nat
    BY <1>7
  <2> HIDE DEF n
  <2> QED
    BY <2>1, <2>2, StaysIn
<1>9. 0 \in 0 .. n /\ \A k \in 1 .. n : k - 1 \in 0 .. n /\ k \in 0 .. n
  OBVIOUS
<1> QED
  BY <1>2, <1>7, <1>8, <1>9

\* The messages lie behind one another.
LEMMA EndGrows ==
  ASSUME NEW lens \in Seq(Int), IntBytes \in Nat,
         NEW j \in 0 .. Len(lens), NEW k \in j .. Len(lens)
  PROVE  End(lens, j) <= End(lens, k)
<1> DEFINE n == Len(lens) - j
           f == [d \in 0 .. n |-> End(lens, j + d) - End(lens, j)]
<1>1. \A d \in 1 .. n : f[d - 1] \in Nat => f[d] \in Nat
  <2> SUFFICES ASSUME NEW d \in 1 .. n, f[d - 1] \in Nat PROVE f[d] \in Nat
    OBVIOUS
  <2>1. /\ j + d \in 1 .. Len(lens) /\ j + d - 1 = j + (d - 1) /\ d - 1 \in 0 .. n
        /\ j + d - 1 \in 0 .. Len(lens)
    OBVIOUS
  <2>2. End(lens, j + d) = End(lens, j + d - 1) + IntBytes + BodyLen(lens, j + d)
    BY <2>1, EndUnfolds
  <2>3. BodyLen(lens, j + d) \in Nat
    BY <2>1 DEF BodyLen
  <2>4. /\ f[d - 1] = End(lens, j + d - 1) - End(lens, j)
        /\ f[d] = End(lens, j + d) - End(lens, j)
    BY <2>1
  <2>5. End(lens, j + d - 1) \in Nat /\ End(lens, j) \in Nat
    BY <2>1, EndUnfolds
  <2> HIDE DEF f
  <2> QED
    BY <2>2, <2>3, <2>4, <2>5, SMTT(30)
<1>2. f[0] \in Nat /\ n \in Nat
  BY EndUnfolds
<1>3. \A d \in 0 .. n : f[d] \in Nat
  <2> HIDE DEF f, n
  <2> QED
    BY <1>1, <1>2, StaysIn
<1>4. k - j \in 0 .. n
  OBVIOUS
<1>5. f[k - j] = End(lens, k) - End(lens, j)
  BY <1>4
<1>6. f[k - j] \in Nat
  <2> HIDE DEF f, n
  <2> QED
    BY <1>3, <1>4
<1>7. End(lens, k) \in Nat /\ End(lens, j) \in Nat
  BY EndUnfolds
<1> HIDE DEF f
<1> QED
  BY <1>5, <1>6, <1>7

\* What \div and % give.
LEMMA DivMod ==
  ASSUME NEW x \in Int, NEW b \in Nat, b > 0
  PROVE  x \div b \in Int /\ x % b \in 0 .. b - 1 /\ x = b * (x \div b) + (x % b)
  OBVIOUS

\* What is left of an int without its bytes but the last is told by that byte's
\* first bit.
LEMMA SignIs ==
  ASSUME NEW r \in Int, NEW b \in Nat, b > 1, 2 * r \in -b .. b - 1
  PROVE  r \div b = IF 2 * (r % b) < b THEN 0 ELSE -1
<1>1. CASE r >= 0
  <2>1. r \in 0 .. b - 1
    BY <1>1
  <2>2. r \div b = 0 /\ r % b = r
    BY <2>1
  <2> QED
    BY <2>2
<1>2. CASE r < 0
  <2>1. r + b \in 0 .. b - 1
    BY <1>2
  <2>2. r \div b = -1 /\ r % b = r + b
    BY <2>1, DivMod
  <2> QED
    BY <2>2
<1> QED
 BY <1>1, <1>2

-----------------------------------------------------------------------------
(* Integers in the buffer.                                                  *)

\* Rest is the repeated division that its recursion says.
LEMMA RestUnfolds ==
  ASSUME NEW x \in Int, IntBytes \in Nat, Base \in Nat, Base > 1
  PROVE  /\ Rest(x)[0] = x
         /\ \A k \in 0 .. IntBytes : Rest(x)[k] \in Int
         /\ \A k \in 1 .. IntBytes : Rest(x)[k] = Rest(x)[k - 1] \div Base
<1> DEFINE step == [j \in 1 .. IntBytes |-> [v \in Int |-> v \div Base]]
           Eq(f) == f = [k \in 0 .. IntBytes |-> IF k = 0 THEN x ELSE f[k - 1] \div Base]
           rest == CHOOSE f : Eq(f)
<1>1. \A v \in Int : v \div Base \in Int
  BY DivMod
<1>2. Rest(x) = rest
  BY DEF Rest
<1>3. PICK f \in [0 .. IntBytes -> Int] : Iterates(f, x, step, IntBytes)
  <2>1. step \in [1 .. IntBytes -> [Int -> Int]]
    BY <1>1
  <2> HIDE DEF step
  <2> QED
    BY <2>1, Recursion
<1>4. ASSUME NEW j \in 1 .. IntBytes
      PROVE  f[j - 1] \in Int /\ f[j] = f[j - 1] \div Base
  <2>1. j - 1 \in 0 .. IntBytes
    OBVIOUS
  <2>2. f[j - 1] \in Int
    BY <2>1
  <2>3. step[j][f[j - 1]] = f[j - 1] \div Base
    BY <2>2, Zenon
  <2> QED
    BY <1>3, <2>2, <2>3, Zenon DEF Iterates
<1>5. Eq(f)
  <2> HIDE DEF step
  <2> QED
    BY <1>3, <1>4 DEF Iterates
<1>6. Eq(rest)
  BY <1>5, Zenon
<1>7. /\ rest[0] = x
      /\ \A j \in 1 .. IntBytes : rest[j] = rest[j - 1] \div Base
  <2>1. 0 \in 0 .. IntBytes /\ \A j \in 1 .. IntBytes : j \in 0 .. IntBytes /\ j # 0
    OBVIOUS
  <2> HIDE DEF rest
  <2>2. \A j \in 0 .. IntBytes : rest[j] = IF j = 0 THEN x ELSE rest[j - 1] \div Base
    BY <1>6, Zenon
  <2> QED
    BY <2>1, <2>2
<1> HIDE DEF rest
<1>8. \A k \in 0 .. IntBytes : rest[k] \in Int
  BY <1>1, <1>7, StaysIn
<1> QED
  BY <1>2, <1>7, <1>8

\* IntOf adds the bytes up, the most significant first.
LEMMA IntUnfolds ==
  ASSUME IntBytes \in Nat, Base \in Nat, NEW bytes \in [1 .. IntBytes -> Int]
  PROVE  \E int \in [0 .. IntBytes -> Int] :
            /\ int[0] = IF 2 * bytes[IntBytes] < Base THEN 0 ELSE -1
            /\ \A k \in 1 .. IntBytes : int[k] = Base * int[k - 1] + bytes[IntBytes + 1 - k]
            /\ IntOf(bytes) = int[IntBytes]
<1> DEFINE sign == IF 2 * bytes[IntBytes] < Base THEN 0 ELSE -1
           step == [j \in 1 .. IntBytes |-> [v \in Int |-> Base * v + bytes[IntBytes + 1 - j]]]
           Eq(f) == f = [k \in 0 .. IntBytes |->
                           IF k = 0 THEN IF 2 * bytes[IntBytes] < Base THEN 0 ELSE -1
                                    ELSE Base * f[k - 1] + bytes[IntBytes + 1 - k]]
           int == CHOOSE f : Eq(f)
<1>1. ASSUME NEW j \in 1 .. IntBytes, NEW v \in Int
      PROVE  Base * v + bytes[IntBytes + 1 - j] \in Int
  <2>1. IntBytes + 1 - j \in 1 .. IntBytes
    OBVIOUS
  <2>2. bytes[IntBytes + 1 - j] \in Int /\ Base * v \in Int
    BY <2>1
  <2> QED
    BY <2>2
<1>2. IntOf(bytes) = int[IntBytes]
  BY DEF IntOf
<1>3. PICK f \in [0 .. IntBytes -> Int] : Iterates(f, sign, step, IntBytes)
  <2>1. step \in [1 .. IntBytes -> [Int -> Int]] /\ sign \in Int
    BY <1>1
  <2> HIDE DEF step, sign
  <2> QED
    BY <2>1, Recursion
<1>4. ASSUME NEW j \in 1 .. IntBytes
      PROVE  f[j - 1] \in Int /\ f[j] = Base * f[j - 1] + bytes[IntBytes + 1 - j]
  <2>1. j - 1 \in 0 .. IntBytes
    OBVIOUS
  <2>2. f[j - 1] \in Int
    BY <2>1
  <2>3. step[j][f[j - 1]] = Base * f[j - 1] + bytes[IntBytes + 1 - j]
    BY <2>2, Zenon
  <2> QED
    BY <1>3, <2>2, <2>3, Zenon DEF Iterates
<1>5. Eq(f)
  <2> HIDE DEF step
  <2> QED
    BY <1>3, <1>4 DEF Iterates
<1>6. Eq(int)
  BY <1>5, Zenon
<1>7. /\ int[0] = sign
      /\ \A k \in 1 .. IntBytes : int[k] = Base * int[k - 1] + bytes[IntBytes + 1 - k]
  <2>1. 0 \in 0 .. IntBytes /\ \A j \in 1 .. IntBytes : j \in 0 .. IntBytes /\ j # 0
    OBVIOUS
  <2> HIDE DEF int
  <2>2. \A k \in 0 .. IntBytes :
          int[k] = IF k = 0 THEN sign ELSE Base * int[k - 1] + bytes[IntBytes + 1 - k]
    BY <1>6, Zenon
  <2> QED
    BY <2>1, <2>2
<1>8. int \in [0 .. IntBytes -> Int]
  <2>1. \A k \in 0 .. IntBytes : int[k] \in Int
    <3> HIDE DEF int
    <3>1. int[0] \in Int
      BY <1>7
    <3>2. \A k \in 1 .. IntBytes : int[k - 1] \in Int => int[k] \in Int
      BY <1>1, <1>7
    <3> QED
      BY <3>1, <3>2, StaysIn
  <2>2. int = [k \in 0 .. IntBytes |-> int[k]]
    <3> HIDE DEF int
    <3> QED
      BY <1>6
  <2> HIDE DEF int
  <2> QED
    BY <2>1, <2>2
<1> HIDE DEF int
<1> QED
  BY <1>2, <1>7, <1>8

\* An int that fits is got back from its bytes.
LEMMA IntIsBack ==
  ASSUME NEW x \in Int, IsInt(x), IntBytes \in Nat \ {0}, Base \in Nat, Base > 1
  PROVE  IntOf(BytesOf(x)) = x
<1> DEFINE n == IntBytes
           bytes == BytesOf(x)
           rest == Rest(x)
<1>1. /\ rest[0] = x /\ \A k \in 0 .. n : rest[k] \in Int
      /\ \A k \in 1 .. n : rest[k] = rest[k - 1] \div Base
  BY RestUnfolds
<1>2. \A k \in 1 .. n : bytes[k] = rest[k - 1] % Base
  BY DEF BytesOf
<1>3. bytes \in [1 .. n -> Int]
  <2>1. \A k \in 1 .. n : rest[k - 1] \in Int
    BY <1>1
  <2>2. \A k \in 1 .. n : rest[k - 1] % Base \in Int
    BY <2>1, DivMod
  <2> QED
    BY <2>2 DEF BytesOf
<1> HIDE DEF bytes, rest
<1>4. PICK int \in [0 .. n -> Int] :
        /\ int[0] = IF 2 * bytes[n] < Base THEN 0 ELSE -1
        /\ \A k \in 1 .. n : int[k] = Base * int[k - 1] + bytes[n + 1 - k]
        /\ IntOf(bytes) = int[n]
  BY <1>3, IntUnfolds
<1> DEFINE T == {0}
           f == [k \in 0 .. n |-> int[k] - rest[n - k]]
<1>5. f[0] \in T
  <2>1. n \in 1 .. n /\ n - 1 \in 0 .. n
    OBVIOUS
  <2>2. bytes[n] = rest[n - 1] % Base /\ rest[n] = rest[n - 1] \div Base
    BY <1>1, <1>2, <2>1
  <2>3. rest[n - 1] \in Int /\ 2 * rest[n - 1] \in -Base .. Base - 1
    BY <1>1, <2>1 DEF IsInt, rest
  <2>4. int[0] = rest[n]
    BY <1>4, <2>2, <2>3, SignIs
  <2>5. f[0] = int[0] - rest[n] /\ rest[n] \in Int
    BY <1>1
  <2> QED
    BY <2>4, <2>5
<1>6. ASSUME NEW k \in 1 .. n, f[k - 1] \in T PROVE f[k] \in T
  <2>1. /\ k - 1 \in 0 .. n /\ k \in 0 .. n /\ n + 1 - k \in 1 .. n /\ n - k \in 0 .. n
        /\ n + 1 - k - 1 = n - k /\ n - (k - 1) = n + 1 - k
    OBVIOUS
  <2>2. int[k - 1] = rest[n - (k - 1)]
    <3>1. int[k - 1] - rest[n - (k - 1)] = 0
      BY <1>6, <2>1
    <3>2. int[k - 1] \in Int /\ rest[n - (k - 1)] \in Int
      BY <1>1, <2>1
    <3> QED
      BY <3>1, <3>2
  <2>3. /\ rest[n + 1 - k] = rest[n - k] \div Base
        /\ bytes[n + 1 - k] = rest[n - k] % Base
        /\ rest[n - k] \in Int
    BY <1>1, <1>2, <2>1
  <2>4. int[k] = Base * (rest[n - k] \div Base) + (rest[n - k] % Base)
    BY <1>4, <2>1, <2>2, <2>3, Zenon
  <2>5. rest[n - k] = Base * (rest[n - k] \div Base) + (rest[n - k] % Base)
    <3>1. Base \in Nat /\ Base > 0
      OBVIOUS
    <3>2. rest[n - k] \in Int
      BY <2>3
    <3> HIDE DEF n
    <3> QED
      BY <3>1, <3>2, DivMod, Zenon
  <2>6. int[k] = rest[n - k]
    BY <2>4, <2>5, Zenon
  <2>7. f[k] = int[k] - rest[n - k]
    BY <2>1
  <2> QED
    BY <2>3, <2>6, <2>7
<1>7. f[n] \in T
  <2>1. \A k \in 0 .. n : f[k] \in T
    <3> HIDE DEF f, T
    <3> QED
      BY <1>5, <1>6, StaysIn
  <2>2. n \in 0 .. n
    OBVIOUS
  <2> HIDE DEF f, T
  <2> QED
    BY <2>1, <2>2
<1>8. int[n] = rest[0]
  <2>1. n \in 0 .. n /\ n - n = 0 /\ int[n] \in Int /\ rest[0] \in Int
    BY <1>1
  <2>2. int[n] - rest[n - n] = 0
    BY <1>7, <2>1
  <2> QED
    BY <2>1, <2>2
<1> QED
  BY <1>1, <1>4, <1>8 DEF bytes

\* An int that fits comes out of the buffer as the peer put it on the wire: the swap
\* of readInt32 undoes that of its sender, sign and all (MsgBuffer.h:14-42, 266-303).
THEOREM NetworkIsBack ==
  ASSUME NEW x \in Int, IsInt(x), IntBytes \in Nat \ {0}, Base \in Nat, Base > 1
  PROVE  /\ NetworkToHost(HostToNetwork(x)) = x
         /\ HostToNetwork(x) = [k \in 1 .. IntBytes |-> HostToNetwork(x)[k]]
<1> DEFINE bytes == BytesOf(x)
<1>1. bytes = [k \in 1 .. IntBytes |-> bytes[k]] /\ bytes \in Seq(Int) /\ Len(bytes) = IntBytes
  <2>1. \A k \in 1 .. IntBytes : Rest(x)[k - 1] \in Int
    BY RestUnfolds
  <2>2. \A k \in 1 .. IntBytes : Rest(x)[k - 1] % Base \in Int
    BY <2>1, DivMod
  <2> QED
    BY <2>2 DEF BytesOf
<1> HIDE DEF bytes
<1> DEFINE net == Reverse(bytes)
<1>2. net = [k \in 1 .. IntBytes |-> bytes[IntBytes - k + 1]]
  BY <1>1 DEF Reverse
<1>3. Len(net) = IntBytes
  BY <1>2
<1>4. Reverse(net) = [k \in 1 .. IntBytes |-> net[IntBytes - k + 1]]
  <2> HIDE DEF net
  <2> QED
    BY <1>3 DEF Reverse
<1>5. \A k \in 1 .. IntBytes : net[IntBytes - k + 1] = bytes[k]
  <2> SUFFICES ASSUME NEW k \in 1 .. IntBytes PROVE net[IntBytes - k + 1] = bytes[k]
    OBVIOUS
  <2>1. IntBytes - k + 1 \in 1 .. IntBytes /\ IntBytes - (IntBytes - k + 1) + 1 = k
    OBVIOUS
  <2>2. net[IntBytes - k + 1] = bytes[IntBytes - (IntBytes - k + 1) + 1]
    BY <1>2, <2>1, Zenon
  <2> QED
    BY <2>1, <2>2
<1>6. Reverse(net) = bytes
  <2> HIDE DEF net
  <2> QED
    BY <1>1, <1>4, <1>5
<1> QED
  BY <1>2, <1>6, IntIsBack DEF NetworkToHost, HostToNetwork, bytes


\* Pile puts the bodies behind one another.
LEMMA PileUnfolds ==
  ASSUME NEW lens \in Seq(Int), IntBytes \in Nat
  PROVE  /\ Pile(lens, 0) = <<>>
         /\ \A k \in 0 .. Len(lens) : Pile(lens, k) \in Seq(Int)
         /\ \A k \in 1 .. Len(lens) : Body(lens, k) \in Seq(Int)
         /\ \A k \in 1 .. Len(lens) : Pile(lens, k) = Pile(lens, k - 1) \o Body(lens, k)
<1> DEFINE n == Len(lens)
           step == [j \in 1 .. n |-> [v \in Seq(Int) |-> v \o Body(lens, j)]]
           Eq(f) == f = [k \in 0 .. Len(lens) |->
                           IF k = 0 THEN <<>> ELSE f[k - 1] \o Body(lens, k)]
           pile == CHOOSE f : Eq(f)
<1>1. ASSUME NEW k \in 1 .. n PROVE Body(lens, k) \in Seq(Int)
  <2>1. End(lens, k) \in Int /\ lens[k] \in Int
    BY EndUnfolds
  <2> DEFINE e == End(lens, k)
             l == lens[k]
  <2> HIDE DEF e, l
  <2>2. CASE l >= 0
    <3>1. [i \in 1 .. l |-> e - l + i] \in Seq(Int)
      BY <2>1, <2>2 DEF e, l
    <3> QED
      BY <3>1 DEF Body, e, l
  <2>3. CASE ~(l >= 0)
    <3>1. 1 .. l = {}
      BY <2>1, <2>3 DEF l
    <3>2. [i \in 1 .. l |-> e - l + i] = <<>>
      BY <3>1
    <3>3. Body(lens, k) = <<>>
      BY <3>2 DEF Body, e, l
    <3> QED
      BY <3>3
  <2> QED
    BY <2>2, <2>3
<1>2. ASSUME NEW j \in 1 .. n, NEW v \in Seq(Int) PROVE v \o Body(lens, j) \in Seq(Int)
  BY <1>1
<1>3. \A k \in 0 .. n : Pile(lens, k) = pile[k]
  BY DEF Pile
<1>4. PICK f \in [0 .. n -> Seq(Int)] : Iterates(f, <<>>, step, n)
  <2>1. step \in [1 .. n -> [Seq(Int) -> Seq(Int)]] /\ n \in Nat /\ <<>> \in Seq(Int)
    BY <1>2
  <2> HIDE DEF step, n
  <2> QED
    BY <2>1, Recursion
<1>5. ASSUME NEW j \in 1 .. n
      PROVE  f[j - 1] \in Seq(Int) /\ f[j] = f[j - 1] \o Body(lens, j)
  <2>1. j - 1 \in 0 .. n
    OBVIOUS
  <2>2. f[j - 1] \in Seq(Int)
    BY <2>1
  <2>3. step[j][f[j - 1]] = f[j - 1] \o Body(lens, j)
    BY <2>2, Zenon
  <2> QED
    BY <1>4, <2>2, <2>3, Zenon DEF Iterates
<1>6. Eq(f)
  <2> HIDE DEF step
  <2> QED
    BY <1>4, <1>5 DEF Iterates
<1>7. Eq(pile)
  BY <1>6, Zenon
<1>8. /\ pile[0] = <<>>
      /\ \A j \in 1 .. n : pile[j] = pile[j - 1] \o Body(lens, j)
  <2>1. 0 \in 0 .. Len(lens) /\ \A j \in 1 .. n : j \in 0 .. Len(lens) /\ j # 0
    OBVIOUS
  <2> HIDE DEF pile, n
  <2>2. \A k \in 0 .. Len(lens) :
          pile[k] = IF k = 0 THEN <<>> ELSE pile[k - 1] \o Body(lens, k)
    BY <1>7, Zenon
  <2> QED
    BY <2>1, <2>2
<1> HIDE DEF pile
<1>9. \A k \in 0 .. n : pile[k] \in Seq(Int)
  <2>1. \A k \in 1 .. n : pile[k - 1] \in Seq(Int) => pile[k] \in Seq(Int)
    BY <1>2, <1>8
  <2>2. n \in Nat /\ pile[0] \in Seq(Int)
    BY <1>8
  <2> HIDE DEF n
  <2> QED
    BY <2>1, <2>2, StaysIn
<1>10. 0 \in 0 .. n /\ \A k \in 1 .. n : k - 1 \in 0 .. n /\ k \in 0 .. n
  OBVIOUS
<1> QED
  BY <1>1, <1>3, <1>8, <1>9, <1>10

\* The first bytes of a message are its length in network order.
LEMMA WireIs ==
  ASSUME peer \in Seq(Int), IntBytes \in Nat,
         NEW k \in 1 .. Len(peer), NEW at \in 1 .. IntBytes
  PROVE  Wire(End(peer, k - 1) + at) = HostToNetwork(peer[k])[at]
<1> DEFINE i == End(peer, k - 1) + at
           In(j) == i <= End(peer, j) /\ i > End(peer, j - 1)
<1>1. \A j \in 0 .. Len(peer) : End(peer, j) \in Nat
  BY EndUnfolds
<1>2. k - 1 \in 0 .. Len(peer) /\ k \in 0 .. Len(peer)
  OBVIOUS
<1>3. In(k)
  <2>1. End(peer, k) = End(peer, k - 1) + IntBytes + BodyLen(peer, k)
    BY EndUnfolds
  <2>2. BodyLen(peer, k) \in Nat
    BY DEF BodyLen
  <2> QED
    BY <1>1, <1>2, <2>1, <2>2
<1>4. ASSUME NEW j \in DOMAIN peer, In(j) PROVE j = k
  <2>1. j \in 1 .. Len(peer) /\ j - 1 \in 0 .. Len(peer) /\ j \in 0 .. Len(peer)
    OBVIOUS
  <2>2. CASE j < k
    <3>1. End(peer, j) <= End(peer, k - 1)
      BY <1>2, <2>1, <2>2, EndGrows
    <3> QED
      BY <1>1, <1>2, <1>4, <2>1, <3>1, SMTT(30)
  <2>3. CASE k < j
    <3>1. End(peer, k) <= End(peer, j - 1)
      BY <1>2, <2>1, <2>3, EndGrows
    <3> QED
      BY <1>1, <1>2, <1>3, <1>4, <2>1, <3>1, SMTT(30)
  <2> QED
    BY <2>1, <2>2, <2>3
<1> DEFINE m == CHOOSE j \in DOMAIN peer : In(j)
<1>5. m = k
  <2>1. k \in DOMAIN peer
    OBVIOUS
  <2> HIDE DEF In
  <2> QED
    BY <1>3, <1>4, <2>1
<1>6. Wire(i) = LET w == i - End(peer, m - 1)
                IN  IF w <= IntBytes THEN HostToNetwork(peer[m])[w] ELSE 0
  BY DEF Wire
<1>7. i - End(peer, k - 1) = at /\ at <= IntBytes
  BY <1>1, <1>2
<1> HIDE DEF m, i
<1> QED
  BY <1>5, <1>6, <1>7 DEF i

-----------------------------------------------------------------------------
(* TestContext.                                                             *)

\* The bytes that the owner took out of the buffer, when it only reads.
Taken == stamp - ReadableBytes(buffer)

\* The readable bytes are the last ones that came.
Numbered == \A i \in 1 .. ReadableBytes(buffer) : Content(buffer)[i] = Taken + i

\* The first n messages are taken, and the header of the next one when a body is to
\* come.
ParserAt(n) ==
    /\ \A k \in 1 .. n : peer[k] >= 0
    /\ IF has_cb THEN got = Bodies(peer, n) /\ message_body_ = <<>>
                 ELSE message_body_ = Pile(peer, n)
    /\ \/ state_ = "header" /\ message_length_ = 0 /\ Taken = End(peer, n)
       \/ /\ state_ = "body" /\ n < Len(peer) /\ message_length_ = peer[n + 1]
          /\ Taken = End(peer, n) + IntBytes

\* The invariant: a caller without a TestContext takes no message.
FrameInv ==
    \/ owner = "caller" /\ ~parsing /\ ~has_cb /\ peer = <<>> /\ message_body_ = <<>>
    \/ /\ owner = "context" /\ peer \in Messages
       /\ has_cb \in BOOLEAN
       /\ stamp <= End(peer, Len(peer))
       /\ Numbered
       /\ \E n \in 0 .. Len(peer) : ParserAt(n)

ContextInv == Typed /\ FrameInv

\* The invariant gives the property.
LEMMA FrameInvGivesFrames == FrameInv => FramesInOrder
<1> SUFFICES ASSUME FrameInv PROVE FramesInOrder
  OBVIOUS
<1>1. CASE owner = "caller" /\ ~has_cb /\ peer = <<>> /\ message_body_ = <<>>
  <2>1. Pile(peer, 0) = <<>>
    <3>1. \A lens \in Seq(Int) : Pile(lens, 0) = <<>>
      BY PileUnfolds, ContextAssumption DEF ContextAssumption
    <3>2. peer \in Seq(Int)
      BY <1>1
    <3> QED
      BY <3>1, <3>2
  <2>2. Len(peer) = 0
    BY <1>1
  <2> QED
    BY <1>1, <2>1, <2>2 DEF FramesInOrder
<1>2. CASE \E n \in 0 .. Len(peer) : ParserAt(n)
  BY <1>2 DEF FramesInOrder, ParserAt
<1> QED
  BY <1>1, <1>2 DEF FrameInv

\* readFd puts the next bytes behind the readable ones.
LEMMA PutKeepsNumbers ==
  ASSUME Typed, Numbered, NEW len \in Lens, ReadFd(len)
  PROVE  Numbered' /\ Taken' = Taken /\ stamp' = stamp + len
<1> DEFINE b == buffer
           x == Content(b)
           y == Incoming(stamp, len)
           z == Content(buffer')
<1>1. /\ stamp \in Nat /\ len \in Nat /\ stamp' = stamp + len /\ stamp' \in Nat
      /\ IsBuffer(b, stamp) /\ IsBuffer(buffer', stamp') /\ z = x \o y
  BY ReadFdPuts DEF Typed
<1>2. /\ ReadableBytes(b) \in Nat /\ ReadableBytes(buffer') \in Nat
      /\ x \in Seq(Nat) /\ Len(x) = ReadableBytes(b)
      /\ z \in Seq(Nat) /\ Len(z) = ReadableBytes(buffer')
      /\ y \in Seq(Nat) /\ Len(y) = len
  BY <1>1, ContentIsSeq, IncomingIsSeq
<1>3. \A i \in 1 .. len : y[i] = stamp + i
  BY DEF Incoming
<1>4. \A i \in 1 .. ReadableBytes(b) : x[i] = stamp - ReadableBytes(b) + i
  BY DEF Numbered, Taken
<1> HIDE DEF x, y, z, b
<1>5. /\ Len(z) = ReadableBytes(b) + len
      /\ \A i \in 1 .. ReadableBytes(b) + len :
            z[i] = IF i <= ReadableBytes(b) THEN x[i] ELSE y[i - ReadableBytes(b)]
  BY <1>1, <1>2, ConcatProperties
<1>6. ReadableBytes(buffer') = ReadableBytes(b) + len
  BY <1>2, <1>5
<1>7. ASSUME NEW i \in 1 .. ReadableBytes(buffer')
      PROVE  z[i] = stamp' - ReadableBytes(buffer') + i
  <2>1. CASE i <= ReadableBytes(b)
    <3>1. z[i] = x[i] /\ i \in 1 .. ReadableBytes(b)
      BY <1>2, <1>5, <1>6, <2>1
    <3> QED
      BY <1>1, <1>2, <1>4, <1>6, <3>1
  <2>2. CASE ~(i <= ReadableBytes(b))
    <3>1. /\ z[i] = y[i - ReadableBytes(b)] /\ i - ReadableBytes(b) \in 1 .. len
      BY <1>1, <1>2, <1>5, <1>6, <2>2
    <3> QED
      BY <1>1, <1>2, <1>3, <1>6, <3>1
  <2> QED
    BY <2>1, <2>2
<1> QED
  BY <1>1, <1>2, <1>6, <1>7 DEF Numbered, Taken, z, b

\* retrieve takes the next bytes.
LEMMA TakeKeepsNumbers ==
  ASSUME Typed, Numbered, NEW len \in Lens, Retrieve(len)
  PROVE  /\ Numbered' /\ Taken' = Taken + len /\ stamp' = stamp
         /\ len <= ReadableBytes(buffer)
<1> DEFINE b == buffer
           x == Content(b)
           z == Content(buffer')
           k == ReadableBytes(b)
<1>1. /\ stamp \in Nat /\ len \in Nat /\ stamp' = stamp
      /\ IsBuffer(b, stamp) /\ IsBuffer(buffer', stamp)
      /\ z = SubSeq(x, len + 1, k) /\ len <= k
  BY RetrieveTakes DEF Typed
<1>2. /\ k \in Nat /\ ReadableBytes(buffer') \in Nat
      /\ x \in Seq(Nat) /\ Len(x) = k
      /\ z \in Seq(Nat) /\ Len(z) = ReadableBytes(buffer')
  BY <1>1, ContentIsSeq
<1>3. \A i \in 1 .. k : x[i] = stamp - k + i
  BY DEF Numbered, Taken
<1> HIDE DEF x, z, b, k
<1>4. Len(z) = k - len /\ \A i \in 1 .. k - len : z[i] = x[len + i]
  <2>1. len + 1 \in Int /\ k \in Int /\ \A i \in len + 1 .. k : x[i] \in Nat
    <3>1. \A i \in 1 .. Len(x) : x[i] \in Nat
      BY <1>2, ElementOfSeq
    <3>2. \A i \in len + 1 .. k : i \in 1 .. Len(x)
      BY <1>1, <1>2
    <3> QED
      BY <1>1, <1>2, <3>1, <3>2
  <2>2. /\ Len(z) = IF len + 1 <= k THEN k - (len + 1) + 1 ELSE 0
        /\ \A i \in 1 .. k - (len + 1) + 1 : z[i] = x[len + 1 + i - 1]
    BY <1>1, <2>1, SubSeqProperties
  <2> QED
    BY <1>1, <1>2, <2>2, SMTT(30)
<1>5. ReadableBytes(buffer') = k - len
  BY <1>2, <1>4
<1>6. ASSUME NEW i \in 1 .. ReadableBytes(buffer')
      PROVE  z[i] = stamp' - ReadableBytes(buffer') + i
  <2>1. z[i] = x[len + i] /\ len + i \in 1 .. k
    BY <1>1, <1>2, <1>4, <1>5
  <2> QED
    BY <1>1, <1>2, <1>3, <1>5, <2>1
<1> QED
  BY <1>1, <1>2, <1>5, <1>6, SMTT(30) DEF Numbered, Taken, z, b, k

\* What the invariant and the assumptions say of a TestContext and its peer.
LEMMA PeerIs ==
  ASSUME FrameInv, owner = "context"
  PROVE  /\ peer \in Messages /\ peer \in Seq(Int) /\ has_cb \in BOOLEAN
         /\ IntBytes \in Nat \ {0} /\ IntBytes \in Lens /\ Base \in Nat /\ Base > 1
         /\ \A k \in 1 .. Len(peer) : /\ IsInt(peer[k]) /\ peer[k] \in Int
                                      /\ peer[k] \in Lens \/ peer[k] < 0
         /\ stamp <= End(peer, Len(peer)) /\ Numbered
         /\ \E n \in 0 .. Len(peer) : ParserAt(n)
<1>1. /\ peer \in Messages /\ has_cb \in BOOLEAN
      /\ stamp <= End(peer, Len(peer)) /\ Numbered
      /\ \E n \in 0 .. Len(peer) : ParserAt(n)
  BY DEF FrameInv
<1>2. peer \in Seq(Int)
  BY <1>1, ContextAssumption DEF ContextAssumption
<1>3. \A k \in 1 .. Len(peer) : k \in DOMAIN peer /\ peer[k] \in Int
  BY <1>2
<1> QED
  BY <1>1, <1>2, <1>3, ContextAssumption DEF ContextAssumption

\* readInt32 gives the length that the peer sent.
LEMMA PeekIntIs ==
  ASSUME Typed, Numbered, peer \in Seq(Int), IntBytes \in Nat \ {0}, Base \in Nat, Base > 1,
         NEW k \in 1 .. Len(peer), IsInt(peer[k]),
         Taken = End(peer, k - 1), IntBytes <= ReadableBytes(buffer)
  PROVE  PeekInt(buffer) = peer[k]
<1>1. ReadableBytes(buffer) \in Nat
  BY ContentIsSeq DEF Typed
<1>2. ASSUME NEW i \in 1 .. IntBytes
      PROVE  Wire(buffer.bytes[buffer.reader + i - 1]) = HostToNetwork(peer[k])[i]
  <2>1. i \in 1 .. ReadableBytes(buffer)
    BY <1>1
  <2>2. Content(buffer)[i] = Taken + i
    BY <2>1 DEF Numbered
  <2>3. Content(buffer)[i] = buffer.bytes[buffer.reader + i - 1]
    BY <2>1 DEF Content
  <2> QED
    BY <2>2, <2>3, WireIs
<1>3. PeekInt(buffer) = NetworkToHost([i \in 1 .. IntBytes |-> HostToNetwork(peer[k])[i]])
  <2>1. [i \in 1 .. IntBytes |-> Wire(buffer.bytes[buffer.reader + i - 1])] =
          [i \in 1 .. IntBytes |-> HostToNetwork(peer[k])[i]]
    BY <1>2, Zenon
  <2> QED
    BY <2>1, Zenon DEF PeekInt
<1>4. peer[k] \in Int
  OBVIOUS
<1> QED
  BY <1>3, <1>4, NetworkIsBack

\* A header is taken: the bytes of one that has come whole.
LEMMA HeaderStep ==
  ASSUME ContextInv, ParseHeader, owner = "context"
  PROVE  ContextInv' /\ Next
<1>1. /\ peer \in Messages /\ peer \in Seq(Int) /\ has_cb \in BOOLEAN
      /\ IntBytes \in Nat \ {0} /\ IntBytes \in Lens /\ Base \in Nat /\ Base > 1
      /\ \A k \in 1 .. Len(peer) : IsInt(peer[k]) /\ peer[k] \in Int
      /\ stamp <= End(peer, Len(peer)) /\ Numbered /\ Typed
  BY PeerIs DEF ContextInv
<1>2. PICK n \in 0 .. Len(peer) : ParserAt(n)
  BY PeerIs DEF ContextInv
<1>3. /\ Retrieve(IntBytes) /\ message_length_' = PeekInt(buffer) /\ state_' = "body"
      /\ peer' = peer /\ owner' = owner /\ has_cb' = has_cb
      /\ message_body_' = message_body_ /\ got' = got
      /\ state_ = "header" /\ IntBytes <= ReadableBytes(buffer)
  <2>1. ReadableBytes(buffer) \in Nat
    BY <1>1, ContentIsSeq DEF Typed
  <2> QED
    BY <1>1, <2>1 DEF ParseHeader, ReadInt, context
<1>4. /\ Numbered' /\ Taken' = Taken + IntBytes /\ stamp' = stamp
  BY <1>1, <1>3, TakeKeepsNumbers
<1>5. Next
  BY <1>1, <1>3 DEF Next
<1>6. Typed'
  BY <1>1, <1>5, Step DEF StepOK, Typed, vars, IsBuffer
<1>7. Taken = End(peer, n)
  BY <1>2, <1>3 DEF ParserAt
<1>8. n < Len(peer)
  <2>1. ReadableBytes(buffer) \in Nat /\ stamp \in Nat
    BY <1>1, ContentIsSeq DEF Typed
  <2>2. End(peer, n) + IntBytes <= End(peer, Len(peer))
    <3>1. stamp = End(peer, n) + ReadableBytes(buffer) /\ End(peer, n) \in Nat
      BY <1>1, <1>2, <1>7, <2>1, EndUnfolds DEF Taken
    <3>2. End(peer, Len(peer)) \in Nat
      BY <1>1, EndUnfolds
    <3> QED
      BY <1>1, <1>3, <2>1, <3>1, <3>2
  <2>3. n # Len(peer)
    <3>1. End(peer, Len(peer)) \in Nat
      BY <1>1, EndUnfolds
    <3> QED
      BY <1>1, <2>2, <3>1
  <2> QED
    BY <1>2, <2>3
<1>9. n + 1 \in 1 .. Len(peer) /\ n + 1 - 1 = n
  BY <1>2, <1>8
<1>10. PeekInt(buffer) = peer[n + 1]
  BY <1>1, <1>3, <1>7, <1>9, PeekIntIs
<1>11. ParserAt(n)'
  BY <1>2, <1>3, <1>4, <1>7, <1>8, <1>10 DEF ParserAt
<1>12. FrameInv'
  BY <1>1, <1>2, <1>3, <1>4, <1>11 DEF FrameInv
<1> QED
  BY <1>5, <1>6, <1>12 DEF ContextInv

\* A body is taken, which has come whole.
LEMMA BodyStep ==
  ASSUME ContextInv, ParseBody, owner = "context"
  PROVE  ContextInv' /\ Next
<1>1. /\ peer \in Messages /\ peer \in Seq(Int) /\ has_cb \in BOOLEAN
      /\ IntBytes \in Nat \ {0} /\ IntBytes \in Lens
      /\ \A k \in 1 .. Len(peer) : peer[k] \in Lens \/ peer[k] < 0
      /\ stamp <= End(peer, Len(peer)) /\ Numbered /\ Typed
  BY PeerIs DEF ContextInv
<1>2. PICK n \in 0 .. Len(peer) : ParserAt(n)
  BY PeerIs DEF ContextInv
<1> DEFINE len == message_length_
           new == [i \in 1 .. len |-> Readable[i]]
<1>3. /\ Retrieve(len) /\ message_length_' = 0 /\ state_' = "header"
      /\ peer' = peer /\ owner' = owner /\ has_cb' = has_cb
      /\ message_body_' = IF has_cb THEN <<>> ELSE message_body_ \o new
      /\ got' = IF has_cb THEN Append(got, message_body_ \o new) ELSE got
      /\ state_ = "body" /\ len >= 0 /\ len <= ReadableBytes(buffer)
  BY DEF ParseBody
<1>4. /\ n < Len(peer) /\ len = peer[n + 1] /\ Taken = End(peer, n) + IntBytes
      /\ n + 1 \in 1 .. Len(peer) /\ n + 1 - 1 = n /\ n + 1 \in 0 .. Len(peer) /\ n \in Nat
  BY <1>2, <1>3 DEF ParserAt
<1>5. len \in Lens /\ len \in Nat
  BY <1>1, <1>3, <1>4
<1>6. /\ Numbered' /\ Taken' = Taken + len /\ stamp' = stamp
  BY <1>1, <1>3, <1>5, TakeKeepsNumbers
<1>7. Next
  BY <1>3, <1>5 DEF Next
<1>8. Typed'
  BY <1>1, <1>7, Step DEF StepOK, Typed, vars, IsBuffer
<1>9. /\ End(peer, n + 1) = End(peer, n) + IntBytes + len
      /\ End(peer, n) \in Nat
  <2>1. BodyLen(peer, n + 1) = len
    BY <1>3, <1>4, <1>5 DEF BodyLen
  <2>2. /\ \A k \in 1 .. Len(peer) :
               End(peer, k) = End(peer, k - 1) + IntBytes + BodyLen(peer, k)
        /\ \A k \in 0 .. Len(peer) : End(peer, k) \in Nat
    BY <1>1, EndUnfolds
  <2> HIDE DEF len
  <2> QED
    BY <1>2, <1>4, <2>1, <2>2
<1>10. new = Body(peer, n + 1)
  <2>1. ReadableBytes(buffer) \in Nat
    BY <1>1, ContentIsSeq DEF Typed
  <2>2. ASSUME NEW i \in 1 .. len PROVE Readable[i] = End(peer, n + 1) - len + i
    <3>1. i \in 1 .. ReadableBytes(buffer)
      BY <1>3, <1>5, <2>1
    <3>2. Readable[i] = Taken + i
      <4>1. Content(buffer)[i] = Taken + i
        BY <1>1, <3>1 DEF Numbered
      <4> QED
        BY <4>1, Zenon DEF Readable, Content
    <3> HIDE DEF len
    <3> QED
      BY <1>1, <1>4, <1>5, <1>9, <3>2
  <2>3. new = [i \in 1 .. len |-> End(peer, n + 1) - len + i]
    BY <2>2, Zenon
  <2> HIDE DEF new, len
  <2> QED
    BY <1>4, <2>3, Zenon DEF Body
<1> HIDE DEF new, len
<1>11. ParserAt(n + 1)'
  <2>1. \A k \in 1 .. n + 1 : peer[k] >= 0
    BY <1>2, <1>3, <1>4 DEF ParserAt
  <2>2. CASE has_cb
    <3>1. got' = Append(Bodies(peer, n), Body(peer, n + 1))
      <4>1. got = Bodies(peer, n) /\ message_body_ = <<>>
        BY <1>2, <2>2 DEF ParserAt
      <4>2. <<>> \o Body(peer, n + 1) = Body(peer, n + 1)
        BY <1>1, <1>4, PileUnfolds
      <4> QED
        BY <1>3, <1>10, <2>2, <4>1, <4>2
    <3>2. Append(Bodies(peer, n), Body(peer, n + 1)) = Bodies(peer, n + 1)
      <4> DEFINE B(k) == Body(peer, k)
      <4> HIDE DEF B
      <4>1. Append([k \in 1 .. n |-> B(k)], B(n + 1)) = [k \in 1 .. n + 1 |-> B(k)]
        BY <1>4
      <4> QED
        BY <4>1 DEF Bodies, B
    <3>3. message_body_' = <<>>
      BY <1>3, <2>2
    <3> QED
      BY <1>3, <1>4, <1>6, <1>9, <2>1, <2>2, <3>1, <3>2, <3>3 DEF ParserAt
  <2>3. CASE ~has_cb
    <3>1. message_body_' = Pile(peer, n) \o Body(peer, n + 1)
      BY <1>2, <1>3, <1>10, <2>3 DEF ParserAt
    <3>2. Pile(peer, n + 1) = Pile(peer, n) \o Body(peer, n + 1)
      BY <1>1, <1>4, PileUnfolds
    <3> QED
      BY <1>3, <1>4, <1>6, <1>9, <2>1, <2>3, <3>1, <3>2 DEF ParserAt
  <2> QED
    BY <2>2, <2>3
<1>12. FrameInv'
  BY <1>1, <1>3, <1>4, <1>6, <1>11 DEF FrameInv
<1> QED
  BY <1>7, <1>8, <1>12 DEF ContextInv

\* Bytes come in.
LEMMA ReadStep ==
  ASSUME ContextInv, NEW l \in Lens, OnRead(l)
  PROVE  ContextInv' /\ Next
<1>1. /\ peer \in Messages /\ has_cb \in BOOLEAN
      /\ Numbered /\ Typed
  BY PeerIs DEF ContextInv, OnRead
<1>2. PICK n \in 0 .. Len(peer) : ParserAt(n)
  BY PeerIs DEF ContextInv, OnRead
<1>3. /\ ReadFd(l) /\ stamp + l <= End(peer, Len(peer))
      /\ peer' = peer /\ owner' = owner /\ has_cb' = has_cb /\ owner = "context"
      /\ state_' = state_ /\ message_length_' = message_length_
      /\ message_body_' = message_body_ /\ got' = got
  BY DEF OnRead, context
<1>4. Numbered' /\ Taken' = Taken /\ stamp' = stamp + l
  BY <1>1, <1>3, PutKeepsNumbers
<1>5. Next
  BY <1>3 DEF Next
<1>6. Typed'
  BY <1>1, <1>5, Step DEF StepOK, Typed, vars, IsBuffer
<1>7. ParserAt(n)'
  BY <1>2, <1>3, <1>4 DEF ParserAt
<1>8. FrameInv'
  BY <1>1, <1>2, <1>3, <1>4, <1>7 DEF FrameInv
<1> QED
  BY <1>5, <1>6, <1>8 DEF ContextInv

\* Nothing but parsing changes.
LEMMA IdleStep ==
  ASSUME ContextInv, UNCHANGED <<vars, owner, peer, has_cb, context>>, parsing' => parsing
  PROVE  ContextInv'
  BY DEF ContextInv, Typed, IsBuffer, FrameInv, ParserAt, Numbered, Taken, Content,
         ReadableBytes, vars, context

\* Every step keeps the invariant, and uses the buffer in a way it offers.
LEMMA ContextStep == ContextInv /\ [ContextNext]_allVars => ContextInv' /\ [Next]_vars
<1> SUFFICES ASSUME ContextInv, [ContextNext]_allVars PROVE ContextInv' /\ [Next]_vars
  OBVIOUS
<1>1. CASE CallerActs
  <2>1. /\ Next /\ owner = "caller" /\ ~parsing /\ ~has_cb
        /\ peer = <<>> /\ message_body_ = <<>>
        /\ UNCHANGED <<owner, peer, parsing, has_cb, message_body_>>
    BY <1>1 DEF CallerActs, ContextInv, FrameInv, context
  <2>2. FrameInv'
    BY <2>1 DEF FrameInv
  <2>3. Typed'
    BY <2>1, Step DEF ContextInv, StepOK, Typed, vars, IsBuffer
  <2> QED
    BY <2>1, <2>2, <2>3 DEF ContextInv
<1>2. CASE \E len \in Lens : OnRead(len)
  BY <1>2, ReadStep
<1>3. CASE ParseMessage
  <2>1. owner = "context"
    BY <1>3 DEF ParseMessage, ParseHeader, ParseBody, ParseReturn, ContextInv, FrameInv
  <2>2. CASE ParseHeader
    BY <2>1, <2>2, HeaderStep
  <2>3. CASE ParseBody
    BY <2>1, <2>3, BodyStep
  <2>4. CASE ParseReturn
    BY <2>4, IdleStep DEF ParseReturn
  <2> QED
    BY <1>3, <2>2, <2>3, <2>4 DEF ParseMessage
<1>4. CASE UNCHANGED allVars
  <2>1. UNCHANGED <<vars, owner, peer, has_cb, context>> /\ (parsing' => parsing)
    BY <1>4 DEF allVars
  <2>2. UNCHANGED vars
    BY <1>4 DEF allVars
  <2> QED
    BY <2>1, <2>2, IdleStep
<1> QED
  BY <1>1, <1>2, <1>3, <1>4 DEF ContextNext

\* Nothing is taken at first.
LEMMA ContextStart == ContextInit => ContextInv /\ Init
<1> SUFFICES ASSUME ContextInit PROVE ContextInv
  BY DEF ContextInit
<1>1. /\ stamp = 0 /\ ReadableBytes(buffer) = 0 /\ Typed
      /\ parsing = FALSE /\ state_ = "header" /\ message_length_ = 0
      /\ message_body_ = <<>> /\ got = <<>>
  BY InitTyped DEF ContextInit, Init, ReadableBytes
<1>2. CASE owner = "caller"
  BY <1>1, <1>2 DEF ContextInit, ContextInv, FrameInv
<1>3. CASE owner = "context"
  <2>1. peer \in Messages /\ has_cb \in BOOLEAN
    BY <1>3 DEF ContextInit
  <2>2. peer \in Seq(Int) /\ IntBytes \in Nat
    BY <2>1, ContextAssumption DEF ContextAssumption
  <2>3. End(peer, 0) = 0 /\ End(peer, Len(peer)) \in Nat /\ Pile(peer, 0) = <<>>
        /\ 0 \in 0 .. Len(peer)
    <3>1. Len(peer) \in 0 .. Len(peer) /\ 0 \in 0 .. Len(peer)
      BY <2>2
    <3> QED
      BY <2>2, <3>1, EndUnfolds, PileUnfolds
  <2>4. Numbered
    BY <1>1 DEF Numbered
  <2>5. Bodies(peer, 0) = <<>>
    BY DEF Bodies
  <2>6. ParserAt(0)
    BY <1>1, <2>1, <2>3, <2>5 DEF ParserAt, Taken
  <2> QED
    BY <1>1, <1>3, <2>1, <2>3, <2>4, <2>6 DEF ContextInv, FrameInv
<1> QED
  BY <1>2, <1>3 DEF ContextInit

\* The messages that come out of a TestContext are those that the peer sent, byte for
\* byte and in order, whatever they are, in whatever pieces their bytes come, and
\* whatever the lengths of the buffer.
THEOREM FramesStayInOrder == ContextSpec => []FramesInOrder
<1>1. ContextInv => FramesInOrder
  BY FrameInvGivesFrames DEF ContextInv
<1> QED
  BY <1>1, ContextStart, ContextStep, PTL DEF ContextSpec

\* A TestContext, or any other owner, uses its buffer as a MsgBuffer.
THEOREM OwnersKeepTheQueue == ContextSpec => Spec /\ ImplementsQueue
<1>1. ContextSpec => Spec
  BY ContextStart, ContextStep, PTL DEF ContextSpec, Spec
<1> QED
  BY <1>1, MsgBufferImplementsQueue, PTL
=============================================================================
