----------------------------- MODULE TcpClient -----------------------------
(***************************************************************************)
(* A TcpConnection from its first step to its last: one that was accepted   *)
(* (status "none"), or a TcpClient with the status machine it puts in front *)
(* of OnRead, OnWrite, OnClose and Send.                                    *)
(*                                                                         *)
(* status_ is not initialised; nothing reads it before ConnectInLoop if the *)
(* user connects first, as the tests do.  A connection closed once stays    *)
(* closed, since closed_ is never reset: the model ends there.              *)
(***************************************************************************)
EXTENDS TcpSend

VARIABLES status,  \* status_, "none" for an accepted connection
          up,      \* the socket is connected
          early    \* input came with the edge that told of the connection,
                   \* and no edge has come since (history)

vars == <<sendVars, status, up, early>>

TypeOK ==
    /\ SendTypeOK
    /\ status \in {"none", "init", "connecting", "connected", "disconnected"}
    /\ {up, early} \subseteq BOOLEAN
    /\ status \in {"none", "connected"} => up
    /\ ~up => room = 0 /\ io_vec_li = <<>>

ClientInit ==
    /\ Init
    /\ status \in {"none", "init"}
    /\ up = (status = "none")
    /\ up <=> room = Room
    /\ early = FALSE

-----------------------------------------------------------------------------
(* Connecting.                                                              *)

\* UpdateConnectionStatus; what connect_cb_ sends is a step of its own.
UpdateConnectionStatus == status' = "connected"

\* OnClose leaves epoll, sets the status and closes the connection.
ClientOnClose ==
    /\ OnClose
    /\ status' = IF status = "none" THEN "none" ELSE "disconnected"
    /\ UNCHANGED <<up, early>>

\* Mutant: only input is registered.
ConnectReadOnly ==
    /\ status = "init"
    /\ ~closed
    /\ edge' = TRUE
    /\ writing' = FALSE
    /\ \/ /\ UpdateConnectionStatus
          /\ up' = TRUE
          /\ room' = Room
       \/ /\ status' = "connecting"
          /\ UNCHANGED <<up, room>>
    /\ UNCHANGED <<io_vec_li, closed, input, noSpace, reported, skipped, handed, sends,
                   wire, completes, early>>

\* ConnectInLoop: AddEvent and EnableWriting look at the socket at once, then
\* connect either is done or will be.  If the socket cannot be made, or connect
\* fails in another way, it is ClientOnClose.
Connect ==
    /\ status = "init"
    /\ ~closed
    /\ edge' = TRUE
    /\ writing' = TRUE
    /\ \/ /\ UpdateConnectionStatus
          /\ up' = TRUE
          /\ room' = Room
       \/ /\ status' = "connecting"
          /\ UNCHANGED <<up, room>>
    /\ UNCHANGED <<io_vec_li, closed, input, noSpace, reported, skipped, handed, sends,
                   wire, completes, early>>

\* The handshake ends.  If it fails, epoll says EPOLLERR and OnError closes.
Establish ==
    /\ status = "connecting"
    /\ ~up
    /\ ~closed
    /\ up' = TRUE
    /\ room' = Room
    /\ edge' = (edge \/ writing)
    /\ UNCHANGED <<io_vec_li, writing, closed, input, noSpace, reported, skipped,
                   handed, sends, wire, completes, status, early>>

-----------------------------------------------------------------------------
(* The handlers of a connection that is being made: CheckError returns      *)
(* false whatever the socket says (it reads SO_ERROR into errno), so the    *)
(* first event makes it connected, and is not acted on otherwise.           *)

OnReadConnecting ==
    /\ ~closed
    /\ status = "connecting"
    /\ reported = "in"
    /\ reported' = "none"
    /\ UpdateConnectionStatus
    /\ early' = ~edge
    /\ UNCHANGED <<io_vec_li, writing, closed, room, input, edge, noSpace, skipped,
                   handed, sends, wire, completes, up>>

OnWriteConnecting ==
    /\ ~closed
    /\ status = "connecting"
    /\ reported = "out"
    /\ reported' = "none"
    /\ UpdateConnectionStatus
    /\ UNCHANGED <<io_vec_li, writing, closed, room, input, edge, noSpace, skipped,
                   handed, sends, wire, completes, up, early>>

\* The handlers of TcpConnection, and what happens around them.
Ready == status \in {"none", "connected"}

Established(A) ==
    /\ A
    /\ early' = (early /\ ~edge')
    /\ UNCHANGED <<status, up>>

Wait == Established(EpollWait)
Read == Ready /\ Established(OnRead)
Write == Ready /\ Established(OnWrite)
Sent == \E size \in Sizes :
            Ready /\ Established(SendInLoopBuf(size) \/ SendInLoopList(size))
Peer == up /\ Established(PeerReads \/ PeerSends)

Next ==
    \/ Connect \/ Establish \/ OnReadConnecting \/ OnWriteConnecting \/ ClientOnClose
    \/ Wait \/ Read \/ Write \/ Sent \/ Peer

Spec == ClientInit /\ [][Next]_vars

\* The loop keeps turning, and the peer keeps reading.
FairSpec ==
    /\ Spec
    /\ WF_vars(Wait) /\ WF_vars(Read) /\ WF_vars(Write)
    /\ WF_vars(OnReadConnecting) /\ WF_vars(OnWriteConnecting)
    /\ WF_vars(up /\ Established(PeerReads))

-----------------------------------------------------------------------------
(* Properties.                                                              *)

\* A socket that is connected makes the client connected: the event of it is
\* not lost between the registration and the connect (TcpClient.cc:27-45, 89-101).
ConnectCompletes == (up /\ ~closed) ~> (Ready \/ closed)

\* Input that has come has an edge to tell of it, or OnRead is about to read it, unless
\* its edge was spent as the news of the connection (TcpClient.cc:72-82,
\* TcpConnection.cc:56-82, EventLoop.cc:63-70).
InputIsHeard == (input /\ ~closed) => edge \/ reported = "in" \/ early

\* What the peer sends is read from its edge, whatever else the loop does, unless
\* it came along with the news of the connection, whose edge OnRead spends without
\* reading, and unless an empty buffer is queued (TcpClient.cc:72-82,
\* TcpConnection.cc:56-82, 101-119).
InputIsRead == input ~> (~input \/ closed \/ early \/ EmptyQueued)
=============================================================================
