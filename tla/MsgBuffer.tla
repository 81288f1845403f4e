----------------------------- MODULE MsgBuffer -----------------------------
(***************************************************************************)
(* tmms::network::MsgBuffer: a vector of bytes with a reader and a writer   *)
(* index, filled by readFd and append, emptied by retrieve, with some bytes *)
(* in front for prepend.  The asserts of the code on the length of a call   *)
(* are what its callers guarantee, so they are guards here; the asserts on  *)
(* the buffer's own state are properties.                                   *)
(*                                                                         *)
(* Lengths are far below 2^64: no sum of indexes overflows.                 *)
(***************************************************************************)
EXTENDS Naturals, Sequences

CONSTANTS kCheapPrepend, kInitialSize,  \* bytes, as in the class
          ExtraBuf,                     \* size of extrabuf in readFd
          Lens,                         \* lengths of the calls
          MaxStamp                      \* bound: bytes that come in

ASSUME BufferAssumption ==
    /\ kCheapPrepend \in Nat /\ kInitialSize \in Nat /\ ExtraBuf \in Nat
    /\ Lens \subseteq Nat
    /\ MaxStamp \in Nat

VARIABLES buffer,  \* [size |-> buffer_.size(), reader, writer, bytes]
          stamp    \* bytes that came in so far, numbered from 1

vars == <<buffer, stamp>>

ReadableBytes(b) == b.writer - b.reader
WritableBytes(b) == b.size - b.writer
PrependableBytes(b) == b.reader

\* Where the indexes are, and what is in memory: every assert of the code on its
\* own state follows from it (MsgBuffer.h:55-57, 200, 368-377).
TypeOK ==
    /\ stamp \in Nat
    /\ buffer \in [size : Nat, reader : Nat, writer : Nat, bytes : {buffer.bytes}]
    /\ buffer.reader <= buffer.writer /\ buffer.writer <= buffer.size
    /\ buffer.bytes \in [0 .. buffer.size - 1 -> 0 .. stamp]

Init ==
    /\ buffer = [size |-> kCheapPrepend + kInitialSize, reader |-> kCheapPrepend,
                 writer |-> kCheapPrepend,
                 bytes |-> [i \in 0 .. kCheapPrepend + kInitialSize - 1 |-> 0]]
    /\ stamp = 0

-----------------------------------------------------------------------------
(* The private operations.                                                  *)

NeedsResize(b, len) == WritableBytes(b) + PrependableBytes(b) < len + kCheapPrepend

Resize(b, size) ==
    [b EXCEPT !.size = size,
              !.bytes = [i \in 0 .. size - 1 |-> IF i < b.size THEN b.bytes[i] ELSE 0]]

\* Mutant: the indexes are moved without the bytes.
MoveToFrontNoCopy(b) ==
    [b EXCEPT !.reader = kCheapPrepend, !.writer = kCheapPrepend + ReadableBytes(b)]

MoveToFront(b) ==
    [b EXCEPT !.reader = kCheapPrepend,
              !.writer = kCheapPrepend + ReadableBytes(b),
              !.bytes = [i \in 0 .. b.size - 1 |->
                           IF i \in kCheapPrepend .. kCheapPrepend + ReadableBytes(b) - 1
                             THEN b.bytes[b.reader + i - kCheapPrepend] ELSE b.bytes[i]]]

MakeSpace(b, len) ==
    IF NeedsResize(b, len) THEN Resize(b, b.writer + len) ELSE MoveToFront(b)

EnsureWritableBytes(b, len) ==
    IF WritableBytes(b) < len THEN MakeSpace(b, len) ELSE b

\* Bytes from + 1, from + 2, ... are copied to index at.
Copy(b, at, len, from) ==
    [b EXCEPT !.bytes = [i \in 0 .. b.size - 1 |->
                           IF i \in at .. at + len - 1 THEN from + 1 + (i - at) ELSE b.bytes[i]]]

HasWritten(b, len) == [b EXCEPT !.writer = @ + len]

Appended(b, len, from) ==
    LET s == EnsureWritableBytes(b, len) IN HasWritten(Copy(s, s.writer, len, from), len)

-----------------------------------------------------------------------------
(* The public operations.                                                   *)

MayCome(len) == stamp + len <= MaxStamp /\ stamp' = stamp + len

AppendBytes(len) ==
    /\ MayCome(len)
    /\ buffer' = Appended(buffer, len, stamp)

\* readFd, when readv returns len > 0: what does not fit goes through extrabuf,
\* which is offered only when less than its size is writable.
ReadFd(len) ==
    LET writable == WritableBytes(buffer) IN
    /\ len > 0
    /\ len <= writable + IF writable < ExtraBuf THEN ExtraBuf ELSE 0
    /\ MayCome(len)
    /\ buffer' = IF len <= writable
                   THEN HasWritten(Copy(buffer, buffer.writer, len, stamp), len)
                   ELSE Appended(HasWritten(Copy(buffer, buffer.writer, writable, stamp), writable),
                                 len - writable, stamp + writable)

PrependBytes(len) ==
    /\ len <= PrependableBytes(buffer)
    /\ MayCome(len)
    /\ LET at == buffer.reader - len IN
         buffer' = [Copy(buffer, at, len, stamp) EXCEPT !.reader = at]

RetrieveAll == [buffer EXCEPT !.reader = kCheapPrepend, !.writer = kCheapPrepend]

Retrieve(len) ==
    /\ len <= ReadableBytes(buffer)
    /\ buffer' = IF len < ReadableBytes(buffer) THEN [buffer EXCEPT !.reader = @ + len]
                                                 ELSE RetrieveAll
    /\ UNCHANGED stamp

Unwrite(len) ==
    /\ len <= ReadableBytes(buffer)
    /\ buffer' = [buffer EXCEPT !.writer = @ - len]
    /\ UNCHANGED stamp

Next == \E len \in Lens : \/ AppendBytes(len) \/ ReadFd(len) \/ PrependBytes(len)
                          \/ Retrieve(len) \/ Unwrite(len)

Spec == Init /\ [][Next]_vars

-----------------------------------------------------------------------------
(* Properties.                                                              *)

\* The readable bytes are those of a queue: growing the vector, moving the bytes
\* to its front and reading through extrabuf lose, repeat or reorder nothing
\* (MsgBuffer.h:182-201, 361-378; MsgBuffer.cpp:23-50).
Readable == [i \in 1 .. ReadableBytes(buffer) |-> buffer.bytes[buffer.reader + i - 1]]
Queue == INSTANCE ByteQueue WITH content <- Readable
ImplementsQueue == Queue!Spec
=============================================================================
