----------------------------- MODULE UdpSocket -----------------------------
(***************************************************************************)
(* A UdpSocket as UdpServer opens it or UdpClient connects it: the queue    *)
(* buffer_list_ of datagrams, SendInLoop and OnWrite, and an OnClose that    *)
(* closes nothing, for closed_ is tested the wrong way round and stays      *)
(* FALSE: a stopped server or a closed client only leaves the loop.         *)
(*                                                                         *)
(* A datagram is [id, big]; big ones are longer than UDP can carry.  Empty  *)
(* datagrams are left out.  The user does not start a socket that is in     *)
(* the loop, and may start it again when it has left.                       *)
(*                                                                         *)
(* Kernel behaviour (external): sendto takes a datagram if there is room;   *)
(* every datagram that leaves makes an edge of EPOLLOUT; an ICMP error is   *)
(* kept for the next call on a connected socket and makes an edge.          *)
(***************************************************************************)
EXTENDS Integers, Sequences, SequencesExt

CONSTANTS Room,      \* datagrams that fit in the socket's send buffer
          MaxSends,  \* bound: datagrams handed to Send
          MaxOpens   \* bound: sockets made for this object

ASSUME UdpAssumption ==
    Room \in Nat \ {0} /\ MaxSends \in Nat /\ MaxOpens \in Nat

VARIABLES kind,          \* "server" or "client"
          opens,         \* sockets made; the last one is fd_, none is closed
          registered,    \* fd_ is in events_; connected_ of a client
          writing,       \* event_ & kEventWrite
          buffer_list_,  \* datagrams queued, oldest first
          room,          \* free places of the socket's send buffer
          input,         \* the socket has data to read
          pending,       \* the socket has an error to tell
          edge,          \* epoll has an unreported edge of the socket
          reported,      \* the event being dispatched: "none", "err", "in", "out"
          skipped,       \* an EPOLLOUT was reported along with EPOLLIN (history)
          sends,         \* datagrams handed to Send
          wire           \* datagrams the sockets took, in order (history)

vars == <<kind, opens, registered, writing, buffer_list_, room, input, pending,
          edge, reported, skipped, sends, wire>>

TypeOK ==
    /\ kind \in {"server", "client"}
    /\ opens \in 0 .. MaxOpens
    /\ {registered, writing, input, pending, edge, skipped} \subseteq BOOLEAN
    /\ {buffer_list_, wire} \subseteq Seq([id : 1 .. sends, big : BOOLEAN])
    /\ room \in 0 .. Room
    /\ reported \in {"none", "err", "in", "out"}
    /\ sends \in 0 .. MaxSends
    /\ registered => opens > 0
    /\ pending => kind = "client"

Init ==
    /\ kind \in {"server", "client"}
    /\ opens = 0
    /\ registered = FALSE
    /\ writing = FALSE
    /\ buffer_list_ = <<>>
    /\ room = 0
    /\ input = FALSE
    /\ pending = FALSE
    /\ edge = FALSE
    /\ reported = "none"
    /\ skipped = FALSE
    /\ sends = 0
    /\ wire = <<>>

-----------------------------------------------------------------------------
(* Starting and closing.                                                    *)

\* A new socket comes into the loop.  If none can be made, OnClose does nothing.
NewSocket ==
    /\ ~registered
    /\ reported = "none"
    /\ opens < MaxOpens
    /\ opens' = opens + 1
    /\ registered' = TRUE
    /\ room' = Room
    /\ input' = FALSE
    /\ pending' = FALSE
    /\ edge' = writing'
    /\ skipped' = FALSE
    /\ UNCHANGED <<kind, buffer_list_, reported, sends, wire>>

\* UdpServer::Open.
Open ==
    /\ kind = "server"
    /\ UNCHANGED writing
    /\ NewSocket

\* UdpClient::ConnectInLoop asks for EPOLLOUT at once; what connected_cb_ sends is
\* a step of its own.
ConnectInLoop ==
    /\ kind = "client"
    /\ writing' = TRUE
    /\ NewSocket

\* What OnClose comes to.  UdpClient's leaves the loop; UdpSocket's, which a server
\* inherits, does nothing.
ClientOnClose == registered' = FALSE
OnClose == IF kind = "client" THEN ClientOnClose ELSE UNCHANGED registered

\* UdpServer::Stop, or ForceClose.
Leave ==
    /\ registered
    /\ registered' = FALSE
    /\ UNCHANGED <<kind, opens, writing, buffer_list_, room, input, pending, edge,
                   reported, skipped, sends, wire>>

-----------------------------------------------------------------------------
(* Sending.                                                                 *)

\* sendto of a datagram with free places in the socket's buffer: the errors in
\* the order in which the kernel looks for them.
SendTo(d, free) ==
    IF opens = 0 THEN "bad fd"
    ELSE IF d.big THEN "too big"
    ELSE IF pending THEN "refused"
    ELSE IF free = 0 THEN "again"
    ELSE "sent"

\* EnableWriting(true): nothing but a log line if the socket is not in the loop.
EnableWriting ==
    IF registered
      THEN /\ writing' = TRUE
           /\ edge' = (edge \/ input \/ pending' \/ room > 0)
      ELSE UNCHANGED <<writing, edge>>

\* Mutant: the socket is tried first, whatever is queued.
SendInLoopBufDirect(d) ==
    /\ sends < MaxSends
    /\ d = [id |-> sends + 1, big |-> d.big]
    /\ sends' = d.id
    /\ LET res == SendTo(d, room) IN
         IF res = "sent"
           THEN /\ wire' = Append(wire, d)
                /\ room' = room - 1
                /\ UNCHANGED <<writing, buffer_list_, pending, edge, skipped>>
           ELSE /\ buffer_list_' = Append(buffer_list_, d)
                /\ pending' = (pending /\ res # "refused")
                /\ EnableWriting
                /\ skipped' = (skipped /\ ~edge')
                /\ UNCHANGED <<room, wire>>
    /\ UNCHANGED <<kind, opens, registered, input, reported>>

\* SendInLoop(buf): what cannot be sent at once is queued, for whatever reason.
SendInLoopBuf(d) ==
    /\ sends < MaxSends
    /\ d = [id |-> sends + 1, big |-> d.big]
    /\ sends' = d.id
    /\ LET res == IF buffer_list_ = <<>> THEN SendTo(d, room) ELSE "queued" IN
         IF res = "sent"
           THEN /\ wire' = Append(wire, d)
                /\ room' = room - 1
                /\ UNCHANGED <<writing, buffer_list_, pending, edge, skipped>>
           ELSE /\ buffer_list_' = Append(buffer_list_, d)
                /\ pending' = (pending /\ res # "refused")
                /\ EnableWriting
                /\ skipped' = (skipped /\ ~edge')
                /\ UNCHANGED <<room, wire>>
    /\ UNCHANGED <<kind, opens, registered, input, reported>>

\* Mutant: the list is only queued.
SendInLoopListQuiet(d) ==
    /\ sends < MaxSends
    /\ d = [id |-> sends + 1, big |-> d.big]
    /\ sends' = d.id
    /\ buffer_list_' = Append(buffer_list_, d)
    /\ UNCHANGED <<kind, opens, registered, writing, room, input, pending, edge,
                   reported, skipped, wire>>

\* SendInLoop(list), with a list of one datagram.
SendInLoopList(d) ==
    /\ sends < MaxSends
    /\ d = [id |-> sends + 1, big |-> d.big]
    /\ sends' = d.id
    /\ buffer_list_' = Append(buffer_list_, d)
    /\ UNCHANGED pending
    /\ EnableWriting
    /\ skipped' = (skipped /\ ~edge')
    /\ UNCHANGED <<kind, opens, registered, room, input, reported, wire>>

-----------------------------------------------------------------------------
(* The loop.                                                                *)

\* epoll_wait, and Loop()'s choice among the bits: an error, then input, then
\* room.
EpollWait ==
    /\ registered
    /\ edge
    /\ reported = "none"
    /\ edge' = FALSE
    /\ LET out == writing /\ room > 0 IN
         /\ reported' = CASE pending -> "err"
                          [] ~pending /\ input -> "in"
                          [] ~pending /\ ~input /\ out -> "out"
                          [] OTHER -> "none"
         /\ skipped' = (skipped \/ (out /\ reported' # "out"))
    /\ UNCHANGED <<kind, opens, registered, writing, buffer_list_, room, input,
                   pending, sends, wire>>

\* An event of a socket that left the loop since epoll_wait finds no one.
DispatchNothing ==
    /\ ~registered
    /\ reported # "none"
    /\ reported' = "none"
    /\ UNCHANGED <<kind, opens, registered, writing, buffer_list_, room, input,
                   pending, edge, skipped, sends, wire>>

\* OnError, after Loop() has fetched the error.
OnError ==
    /\ registered
    /\ reported = "err"
    /\ reported' = "none"
    /\ pending' = FALSE
    /\ OnClose
    /\ UNCHANGED <<kind, opens, writing, buffer_list_, room, input, edge, skipped,
                   sends, wire>>

\* OnRead reads everything, unless an error came meanwhile; what message_cb_ sends
\* is a step of its own.
OnRead ==
    /\ registered
    /\ reported = "in"
    /\ reported' = "none"
    /\ IF pending THEN OnClose /\ UNCHANGED input
                  ELSE input' = FALSE /\ UNCHANGED registered
    /\ pending' = FALSE
    /\ UNCHANGED <<kind, opens, writing, buffer_list_, room, edge, skipped, sends,
                   wire>>

\* sendto takes n datagrams of q and not one more: up to the first too big one,
\* while there is room, none if an error is pending.
SentFirst(q, n) ==
    /\ \A i \in 1 .. n : ~q[i].big
    /\ n <= room
    /\ pending => n = 0
    /\ n < Len(q) => pending \/ n = room \/ q[n + 1].big

\* OnWrite: sendto until the queue is empty, the socket full or a datagram fails;
\* that one stays at the head.  When the queue is empty write_complete_cb_ is called.
OnWrite ==
    /\ registered
    /\ reported = "out"
    /\ reported' = "none"
    /\ \E n \in 0 .. Len(buffer_list_) :
         /\ SentFirst(buffer_list_, n)
         /\ wire' = wire \o SubSeq(buffer_list_, 1, n)
         /\ buffer_list_' = SubSeq(buffer_list_, n + 1, Len(buffer_list_))
         /\ room' = room - n
    /\ IF buffer_list_' = <<>>
         THEN UNCHANGED <<registered, pending>>
         ELSE LET res == SendTo(Head(buffer_list_'), room') IN
              /\ pending' = (pending /\ res # "refused")
              /\ IF res = "again" THEN UNCHANGED registered ELSE OnClose
    /\ UNCHANGED <<kind, opens, writing, input, edge, skipped, sends>>

-----------------------------------------------------------------------------
(* The network.                                                             *)

\* A datagram leaves the socket's buffer.
NicSends ==
    /\ opens > 0
    /\ room < Room
    /\ room' = room + 1
    /\ edge' = (edge \/ (registered /\ writing))
    /\ skipped' = (skipped /\ ~edge')
    /\ UNCHANGED <<kind, opens, registered, writing, buffer_list_, input, pending,
                   reported, sends, wire>>

\* A datagram arrives.  The first socket of a server keeps its port for ever: the
\* bind of a later one fails unnoticed, and nothing arrives there.
NetDelivers ==
    /\ opens = 1 \/ (kind = "client" /\ opens > 0)
    /\ input' = TRUE
    /\ edge' = registered
    /\ skipped' = (skipped /\ ~edge')
    /\ UNCHANGED <<kind, opens, registered, writing, buffer_list_, room, pending,
                   reported, sends, wire>>

\* The peer of a client refuses a datagram.
NetRefuses ==
    /\ kind = "client"
    /\ registered
    /\ wire # <<>>
    /\ pending' = TRUE
    /\ edge' = TRUE
    /\ skipped' = FALSE
    /\ UNCHANGED <<kind, opens, registered, writing, buffer_list_, room, input,
                   reported, sends, wire>>

-----------------------------------------------------------------------------
Send == \E d \in [id : {sends + 1}, big : BOOLEAN] :
            SendInLoopBuf(d) \/ SendInLoopList(d)

Next ==
    \/ Open \/ ConnectInLoop \/ Leave \/ Send
    \/ EpollWait \/ DispatchNothing \/ OnError \/ OnRead \/ OnWrite
    \/ NicSends \/ NetDelivers \/ NetRefuses

Spec == Init /\ [][Next]_vars

\* The loop keeps turning, and the network takes what is in the socket.
FairSpec ==
    /\ Spec
    /\ WF_vars(EpollWait) /\ WF_vars(DispatchNothing)
    /\ WF_vars(OnError) /\ WF_vars(OnRead) /\ WF_vars(OnWrite) /\ WF_vars(NicSends)

-----------------------------------------------------------------------------
(* Properties.                                                              *)

\* Datagrams are sent in the order of the calls of Send and none twice, although
\* some are sent at once and some from the queue, on one socket or the next
\* (UdpSocket.cc:93-122, 202-227).
DatagramsInOrder ==
    LET all == wire \o buffer_list_ IN
        /\ Len(all) = sends
        /\ \A i \in DOMAIN all : all[i].id = i

Blocked == \E d \in ToSet(SubSeq(buffer_list_, 1, 1)) : d.big

\* As long as something is queued on a socket in the loop, something is going to
\* send it: an edge to report, a reported EPOLLOUT, or a full socket, which makes an
\* edge when a datagram leaves; with the exceptions of DatagramsDrain
\* (UdpSocket.cc:93-122, 202-242; EventLoop.cc:63-70).
DatagramsAreDriven ==
    (buffer_list_ # <<>> /\ registered /\ writing /\ ~skipped /\ ~Blocked) =>
        edge \/ reported = "out" \/ room = 0

\* What is queued is sent in the end, unless the socket leaves the loop, an
\* EPOLLOUT is skipped, a datagram that is too big is in front for ever
\* (UdpSocket.cc:105-110), or all that is queued was sent before the first Start,
\* when EnableWriting has no effect (UdpSocket.cc:216-226, EventLoop.cc:126-131).
DatagramsDrain ==
    (buffer_list_ # <<>>) ~>
        (buffer_list_ = <<>> \/ ~registered \/ ~writing \/ skipped \/ Blocked)
=============================================================================
