------------------------------ MODULE TcpSend ------------------------------
(***************************************************************************)
(* The sending half of a TcpConnection: SendInLoop and OnWrite, the queue   *)
(* io_vec_li_ between them, and the edge-triggered EPOLLOUT that drives it. *)
(* TcpClient puts the steps together, for a connection that was accepted    *)
(* and for one that has to be made first.                                   *)
(*                                                                         *)
(* A byte is <<s, i>>, the i-th byte of the s-th buffer handed to Send;     *)
(* i = 0 is the byte in memory before that buffer.                          *)
(*                                                                         *)
(* Kernel behaviour (external): a write takes as many bytes as there is     *)
(* room; with no room it fails with EAGAIN and the socket reports its next  *)
(* room as an edge; epoll_ctl MOD and every arrival of data make an edge;   *)
(* an edge is reported once, with everything that is ready at that time.    *)
(***************************************************************************)
EXTENDS Integers, Sequences

CONSTANTS Room,      \* capacity of the socket's send buffer in bytes
          Sizes,     \* sizes of the buffers handed to Send
          MaxSends,  \* bound: buffers handed to Send
          SizeT,     \* values of a size_t (2^64 in the code)
          Inbound    \* the peer sends data too

ASSUME SendAssumption ==
    /\ Room \in Nat \ {0} /\ MaxSends \in Nat /\ Inbound \in BOOLEAN
    /\ SizeT \in Nat
    /\ Sizes \subseteq 0 .. SizeT - 2

VARIABLES io_vec_li,  \* io_vec_li_: what is queued, oldest first
          writing,    \* event_ & kEventWrite
          closed,     \* closed_
          room,       \* free bytes of the socket's send buffer
          input,      \* the socket has data to read
          edge,       \* epoll has an unreported edge of the socket
          noSpace,    \* the socket will report its next room
          reported,   \* what the batch being dispatched says: "none", "in", "out";
                      \* or OnWrite is in its loop: "writing", or "spin" for ever
          skipped,    \* an EPOLLOUT was reported along with EPOLLIN (history)
          handed,     \* sizes of the buffers handed to Send, in order (history)
          sends,      \* buffers handed to Send
          wire,       \* bytes the socket took, in order (history)
          completes   \* calls of write_complete_cb_ (history)

sendVars == <<io_vec_li, writing, closed, room, input, edge, noSpace, reported,
              skipped, handed, sends, wire, completes>>

Bytes(v) == [i \in 1 .. v.len |-> <<v.send, v.from + i - 1>>]

SendTypeOK ==
    /\ \A i \in DOMAIN io_vec_li :
         io_vec_li[i] \in [send : 1 .. sends, from : Nat, len : 0 .. SizeT - 1]
    /\ {writing, closed, input, edge, noSpace, skipped} \subseteq BOOLEAN
    /\ room \in 0 .. Room
    /\ reported \in {"none", "in", "out", "writing", "spin"}
    /\ sends \in 0 .. MaxSends
    /\ completes \in Nat

Init ==
    /\ io_vec_li = <<>>
    /\ writing = FALSE
    /\ closed = FALSE
    /\ room \in {0, Room}  \* 0 until the connection is there
    /\ input = FALSE
    /\ edge = FALSE
    /\ noSpace = FALSE
    /\ reported = "none"
    /\ skipped = FALSE
    /\ handed = <<>>
    /\ sends = 0
    /\ wire = <<>>
    /\ completes = 0

-----------------------------------------------------------------------------
(* Pieces of the handlers.                                                  *)

Least(a, b) == IF a < b THEN a ELSE b

\* EnableWriting(enable): epoll_ctl MOD looks at the socket at once.  Clearing
\* kEventWrite clears EPOLLET with it, so without EPOLLOUT the socket reports
\* input as long as there is some; OnRead leaves none, so an edge is as good.
EnableWriting(enable, free) ==
    /\ writing' = enable
    /\ edge' = (edge \/ input \/ (enable /\ free > 0))
    /\ noSpace' = (noSpace \/ free = 0)

\* Mutant: the base of the node stays.
AdvanceKeepBase(v, n) == [v EXCEPT !.len = @ - n]

\* A node of which n bytes are written.
Advance(v, n) == [v EXCEPT !.from = @ + n, !.len = @ - n]

Hand(size) ==
    /\ sends < MaxSends
    /\ sends' = sends + 1
    /\ handed' = Append(handed, size)

\* The thread of the loop is free to run a function.
Runs == ~closed /\ reported \notin {"writing", "spin"}

-----------------------------------------------------------------------------
(* SendInLoop.                                                              *)

\* SendInLoop(buf, size) of an open connection.  send_len is a size_t: the -1
\* of a failed write is not < 0, and is taken from size and added to buf.
SendInLoopBuf(size) ==
    /\ Runs
    /\ Hand(size)
    /\ LET direct == io_vec_li = <<>>
           failed == direct /\ size > 0 /\ room = 0
           n == IF direct THEN Least(size, room) ELSE 0
           send_len == IF failed THEN SizeT - 1 ELSE n
           rest == (size - send_len + SizeT) % SizeT
       IN /\ wire' = wire \o Bytes([send |-> sends + 1, from |-> 1, len |-> n])
          /\ room' = room - n
          /\ IF rest = 0
               THEN /\ completes' = completes + 1
                    /\ UNCHANGED <<io_vec_li, writing, edge, noSpace, skipped>>
               ELSE /\ io_vec_li' = Append(io_vec_li,
                         [send |-> sends + 1, from |-> (1 + send_len) % SizeT, len |-> rest])
                    /\ EnableWriting(TRUE, room')
                    /\ skipped' = (skipped /\ ~edge')
                    /\ UNCHANGED completes
    /\ UNCHANGED <<closed, input, reported>>

\* SendInLoop(list) of an open connection, with a list of one buffer.
SendInLoopList(size) ==
    /\ Runs
    /\ Hand(size)
    /\ io_vec_li' = Append(io_vec_li, [send |-> sends + 1, from |-> 1, len |-> size])
    /\ EnableWriting(TRUE, room)
    /\ skipped' = (skipped /\ ~edge')
    /\ UNCHANGED <<closed, room, input, reported, wire, completes>>

-----------------------------------------------------------------------------
(* The loop.                                                                *)

\* epoll_wait reports the edge, if anything is ready by now.  Loop() looks at
\* EPOLLOUT only if the event has no EPOLLIN.
EpollWait ==
    /\ ~closed
    /\ edge
    /\ reported = "none"
    /\ edge' = FALSE
    /\ noSpace' = (noSpace \/ room = 0)
    /\ LET out == writing /\ room > 0 IN
         /\ reported' = IF input THEN "in" ELSE IF out THEN "out" ELSE "none"
         /\ skipped' = (skipped \/ (input /\ out))
    /\ UNCHANGED <<io_vec_li, writing, closed, room, input, handed, sends, wire,
                   completes>>

\* Mutant: one read for an edge, whatever is left.
OnReadOnce ==
    /\ ~closed
    /\ reported = "in"
    /\ reported' = "none"
    /\ input' \in BOOLEAN
    /\ UNCHANGED <<io_vec_li, writing, closed, room, edge, noSpace, skipped, handed,
                   sends, wire, completes>>

\* OnRead reads everything; what message_cb_ sends is a step of its own.
OnRead ==
    /\ ~closed
    /\ reported = "in"
    /\ reported' = "none"
    /\ input' = FALSE
    /\ UNCHANGED <<io_vec_li, writing, closed, room, edge, noSpace, skipped, handed,
                   sends, wire, completes>>

\* OnWrite: writev until the queue is empty or the socket is full.  The kernel
\* takes the nodes one after the other, while the peer may read: a step for each.
Pending == \E i \in DOMAIN io_vec_li : io_vec_li[i].len > 0

\* Mutants: the callback follows every node; OnWrite returns after one.
WriteHeadTells ==
    /\ Pending /\ room > 0
    /\ LET v == Head(io_vec_li)
           n == Least(v.len, room)
       IN /\ wire' = wire \o Bytes([v EXCEPT !.len = n])
          /\ io_vec_li' = IF n < v.len THEN <<Advance(v, n)>> \o Tail(io_vec_li)
                          ELSE Tail(io_vec_li)
          /\ room' = room - n
    /\ reported' = "writing"
    /\ completes' = completes + 1
    /\ UNCHANGED <<writing, edge, noSpace>>

WriteHeadOnly ==
    /\ Pending /\ room > 0
    /\ LET v == Head(io_vec_li)
           n == Least(v.len, room)
       IN /\ wire' = wire \o Bytes([v EXCEPT !.len = n])
          /\ io_vec_li' = IF n < v.len THEN <<Advance(v, n)>> \o Tail(io_vec_li)
                          ELSE Tail(io_vec_li)
          /\ room' = room - n
    /\ reported' = "none"
    /\ UNCHANGED <<writing, edge, noSpace, completes>>

\* The first node is written: one not written to its end is advanced, another is
\* erased, an empty one too if writev goes on to a node that is not.
WriteHead ==
    /\ Pending /\ room > 0
    /\ LET v == Head(io_vec_li)
           n == Least(v.len, room)
       IN /\ wire' = wire \o Bytes([v EXCEPT !.len = n])
          /\ io_vec_li' = IF n < v.len THEN <<Advance(v, n)>> \o Tail(io_vec_li)
                          ELSE Tail(io_vec_li)
          /\ room' = room - n
    /\ reported' = "writing"
    /\ UNCHANGED <<writing, edge, noSpace, completes>>

\* Mutant: EPOLLOUT is given up on a full socket.
WriteFullDisables ==
    /\ Pending /\ room = 0
    /\ reported' = "none"
    /\ EnableWriting(FALSE, room)
    /\ UNCHANGED <<io_vec_li, room, wire, completes>>

\* writev fails with EAGAIN.
WriteFull ==
    /\ Pending /\ room = 0
    /\ reported' = "none"
    /\ noSpace' = TRUE
    /\ UNCHANGED <<io_vec_li, writing, room, edge, wire, completes>>

\* A writev of empty nodes alone returns 0, and erases none, again and again.
WriteNothing ==
    /\ io_vec_li # <<>> /\ ~Pending
    /\ reported' = "spin"
    /\ UNCHANGED <<io_vec_li, writing, room, edge, noSpace, wire, completes>>

WriteDone ==
    /\ io_vec_li = <<>>
    /\ reported' = "none"
    /\ EnableWriting(FALSE, room)
    /\ completes' = completes + 1
    /\ UNCHANGED <<io_vec_li, room, wire>>

OnWrite ==
    /\ ~closed
    /\ reported \in {"out", "writing"}
    /\ WriteHead \/ WriteFull \/ WriteNothing \/ WriteDone
    /\ UNCHANGED <<closed, input, skipped, handed, sends>>

\* OnClose, for whatever reason, a writev that fails included: the queue is never
\* written.
OnClose ==
    /\ ~closed
    /\ closed' = TRUE
    /\ UNCHANGED <<io_vec_li, writing, room, input, edge, noSpace, reported, skipped,
                   handed, sends, wire, completes>>

-----------------------------------------------------------------------------
(* The peer and the network.                                                *)

PeerReads ==
    /\ ~closed
    /\ room < Room
    /\ room' = Room
    /\ edge' = (edge \/ (noSpace /\ writing))
    /\ noSpace' = FALSE
    /\ UNCHANGED <<io_vec_li, writing, closed, input, reported, skipped, handed,
                   sends, wire, completes>>

PeerSends ==
    /\ Inbound
    /\ ~closed
    /\ input' = TRUE
    /\ edge' = TRUE
    /\ UNCHANGED <<io_vec_li, writing, closed, room, noSpace, reported, skipped,
                   handed, sends, wire, completes>>

-----------------------------------------------------------------------------
(* Properties.                                                              *)

IsStray(b) == b[2] = 0

\* The order of the stream.
Before(a, b) == a[1] < b[1] \/ (a[1] = b[1] /\ a[2] < b[2])

HandedBytes == UNION {{s} \X (1 .. handed[s]) : s \in 1 .. sends}
WireBytes == {wire[i] : i \in DOMAIN wire}
NodeBytes(v) == {v.send} \X (v.from .. v.from + v.len - 1)
QueuedBytes == UNION {NodeBytes(io_vec_li[i]) : i \in DOMAIN io_vec_li}

\* The peer gets the bytes of the buffers in order, none lost and none twice,
\* although some are written at once and some from the queue in pieces: what is
\* queued follows what is written, and the two are what was handed to Send; apart
\* from the byte before a buffer whose first write failed (TcpConnection.cc:
\* 104-121, 196-227).
StreamInOrder ==
    /\ \A i, j \in DOMAIN wire : i < j => Before(wire[i], wire[j])
    /\ \A i, j \in DOMAIN io_vec_li : i < j => io_vec_li[i].send < io_vec_li[j].send
    /\ \A b \in WireBytes, c \in QueuedBytes : Before(b, c)
    /\ {b \in WireBytes \cup QueuedBytes : ~IsStray(b)} = HandedBytes

\* The peer gets nothing that was not handed to Send.  The branch of
\* TcpConnection.cc:202-211 means to log "写出错" and, on EAGAIN, to go on with
\* send_len = 0.
NothingStray == \A i \in DOMAIN wire : ~IsStray(wire[i])

\* Send(list) queues empty buffers too.
EmptyQueued == \E i \in DOMAIN io_vec_li : io_vec_li[i].len = 0

\* As long as something is queued, something is going to write it: an edge to
\* report, a reported EPOLLOUT, OnWrite in its loop, or a full socket that reports
\* its next room; unless an EPOLLOUT came along with an EPOLLIN and was skipped, or
\* an empty buffer is queued (EventLoop.cc:63-70, TcpConnection.cc:101-119, 185, 226).
QueueIsDriven ==
    (io_vec_li # <<>> /\ ~closed /\ ~EmptyQueued) =>
        writing /\ (edge \/ reported \in {"out", "writing"} \/ noSpace \/ skipped)

\* write_complete_cb_ is called when nothing is left to write, but for the Send of an
\* empty buffer, which calls it at once: on it the server of TcpServerTest.cc:35-38
\* closes the connection (TcpConnection.cc:120-127, 212-219).
CompleteMeansFlushed ==
    [][completes' # completes =>
         io_vec_li' = <<>> \/ (sends' # sends /\ handed'[sends'] = 0)]_sendVars

\* What is queued is written in the end, if the connection stays open, no EPOLLOUT
\* is skipped for good, and no empty buffer is queued, which makes OnWrite spin.
QueueDrains ==
    (io_vec_li # <<>>) ~> (io_vec_li = <<>> \/ closed \/ skipped \/ EmptyQueued)
=============================================================================
