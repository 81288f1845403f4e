------------------------------ MODULE Acceptor ------------------------------
(***************************************************************************)
(* The Acceptor of a TcpServer on the same loop: Open, the accept loop, the  *)
(* error that makes it stop and open anew, Start and Stop of the server; and *)
(* with the connections of TcpServer the steps of the whole loop.           *)
(*                                                                         *)
(* Kernel behaviour (external): accept needs a free descriptor before it     *)
(* looks at the backlog, and fails with EMFILE otherwise; it hands on the    *)
(* error of a pending connection; on a non-blocking socket it never fails    *)
(* with EINTR.  Closing a listening socket refuses all of its backlog and    *)
(* takes it out of epoll.                                                  *)
(***************************************************************************)
EXTENDS TcpServer

CONSTANT MaxStarts  \* bound: calls of Start

ASSUME AcceptorAssumption == MaxStarts \in Nat \ {0}

VARIABLES service,    \* what was asked for: "new", "started" or "stopped"
          starts,     \* calls of Start
          restarted,  \* Start found the acceptor in events_ (history)
          bound,      \* bind succeeds; if not, listen takes a port of its own
          polled,     \* the listening socket is in epoll
          edge,       \* a connection has come since epoll_wait reported the socket
          accepting   \* Acceptor::OnRead is in its loop

acceptorVars == <<service, starts, restarted, bound, polled, edge, accepting>>
vars == <<serverVars, acceptorVars>>

\* BindAddress and Listen: clients of addr_ come to the socket if bind succeeded.
Reachable == listener # 0 /\ bound

Pending == {c \in Conns : phase[c] = "pending"}

TypeOK ==
    /\ ServerTypeOK
    /\ service \in {"new", "started", "stopped"}
    /\ starts \in 0 .. MaxStarts
    /\ {restarted, bound, polled, edge, accepting} \subseteq BOOLEAN

Init ==
    /\ ServerInit
    /\ service = "new"
    /\ starts = 0
    /\ bound \in BOOLEAN
    /\ restarted = FALSE
    /\ polled = FALSE
    /\ edge = FALSE
    /\ accepting = FALSE

-----------------------------------------------------------------------------
\* A client connects to the listening socket, polled or not.
Arrive(c) ==
    /\ fault = "none"
    /\ phase[c] = "new"
    /\ Reachable
    /\ phase' = [phase EXCEPT ![c] = "pending"]
    /\ edge' = polled
    /\ UNCHANGED <<userKind, fdOf, connections, events, user, sock, batch, queue, timer,
                   destroyed, misfired, listener, fault, service, starts, restarted, bound,
                   polled, accepting>>

\* Open, when events_ is evs: the old socket is closed, the new one has descriptor f
\* and is registered, unless AddEvent finds the key there.
OpenListener(f, evs) ==
    /\ listener' = f
    /\ events' = IF evs[f] = None THEN [evs EXCEPT ![f] = Listener] ELSE evs
    /\ polled' = (evs[f] = None)
    /\ edge' = FALSE
    /\ phase' = [c \in Conns |-> IF c \in Pending THEN "refused" ELSE phase[c]]
    /\ Silence(Pending)

\* The descriptors that are free when the listening socket is closed.
FreeOnOpen == FreeFds \cup ({listener} \cap Fds)
CreateNonblockingTcpSocket == Min(FreeOnOpen)

\* EventLoop::DelEvent of the acceptor.
WithoutListener == [f \in Fds |-> IF f = listener THEN None ELSE events[f]]

\* Mutant: OnClose only opens.
OnCloseKeepsEvent == OpenListener(CreateNonblockingTcpSocket, events)

\* Acceptor::OnClose: Stop and Open.
AcceptorOnClose == OpenListener(CreateNonblockingTcpSocket, WithoutListener)

\* TcpServer::Start, as RunFunctions runs it.  The first time, lower descriptors may
\* be in use that are closed later.
Start ==
    /\ fault = "none"
    /\ batch = {} /\ ~accepting
    /\ starts < IF userKind = "operator" THEN MaxStarts ELSE 1
    /\ starts' = starts + 1
    /\ service' = "started"
    /\ restarted' = (restarted \/ \E f \in Fds : events[f] = Listener)
    /\ \E f \in IF listener = 0 THEN FreeFds ELSE {CreateNonblockingTcpSocket} : OpenListener(f, events)
    /\ UNCHANGED <<userKind, fdOf, connections, user, batch, queue, timer, destroyed,
                   misfired, fault, bound, accepting>>

\* TcpServer::Stop: DelEvent, from any thread.  The socket goes on listening; an
\* accept loop that is running goes on too, and opens anew when accept fails.
Stop ==
    /\ fault = "none"
    /\ userKind = "operator"
    /\ service = "started"
    /\ service' = "stopped"
    /\ events' = WithoutListener
    /\ polled' = FALSE
    /\ edge' = FALSE
    /\ UNCHANGED <<userKind, phase, fdOf, connections, user, sock, batch, queue, timer,
                   destroyed, misfired, listener, fault, starts, restarted, bound, accepting>>

-----------------------------------------------------------------------------
(* Acceptor::OnRead, one turn of its loop in a step.                        *)

DispatchListener(ev) ==
    /\ Take(ev)
    /\ events[ev.fd] = Listener
    /\ IF ev.kind = "in" THEN accepting' = TRUE /\ UNCHANGED <<phase, events, sock, listener, polled, edge>>
                         ELSE accepting' = FALSE /\ AcceptorOnClose
    /\ UNCHANGED <<userKind, fdOf, connections, user, queue, timer, destroyed, misfired, fault,
                   service, starts, restarted, bound>>

\* Mutant: one connection is accepted for one event.
AcceptOnce(c) ==
    /\ accepting
    /\ OnAccept(c)
    /\ accepting' = FALSE
    /\ UNCHANGED <<service, starts, restarted, bound, polled, edge>>

Accept(c) == accepting /\ OnAccept(c) /\ UNCHANGED acceptorVars

\* EAGAIN.
AcceptEnds ==
    /\ fault = "none"
    /\ accepting
    /\ Pending = {} /\ FreeFds # {}
    /\ accepting' = FALSE
    /\ edge' = FALSE
    /\ UNCHANGED <<serverVars, service, starts, restarted, bound, polled>>

\* EMFILE, or the error of a pending connection.
AcceptFails ==
    /\ fault = "none"
    /\ accepting
    /\ Pending # {} \/ FreeFds = {}
    /\ AcceptorOnClose
    /\ accepting' = FALSE
    /\ UNCHANGED <<userKind, fdOf, connections, user, batch, queue, timer, destroyed, misfired,
                   fault, service, starts, restarted, bound>>

-----------------------------------------------------------------------------
(* The loop.                                                                *)

EpollWait ==
    /\ fault = "none"
    /\ batch = {} /\ ~accepting
    /\ batch' = {[fd |-> fdOf[c], kind |-> IF sock[c] = "err" THEN "err" ELSE "in", of |-> c] :
                    c \in Ready}
                \cup (IF edge THEN {[fd |-> listener, kind |-> "in", of |-> Listener]} ELSE {})
    /\ batch' # {}
    /\ edge' = FALSE
    /\ UNCHANGED <<userKind, phase, fdOf, connections, events, user, sock, queue, timer,
                   destroyed, misfired, listener, fault, service, starts, restarted, bound,
                   polled, accepting>>

Accepting == (\E c \in Conns : Accept(c)) \/ AcceptEnds \/ AcceptFails

DispatchNext ==
    \/ \E ev \in batch : ~accepting /\ DispatchListener(ev)
    \/ ~accepting /\ Dispatch /\ UNCHANGED acceptorVars
    \/ Accepting

RunFunctions == ~accepting /\ RunQueued /\ UNCHANGED acceptorVars

Next ==
    \/ \E c \in Conns : Arrive(c)
    \/ Start \/ Stop
    \/ \E c \in Conns : DropRef(c) /\ UNCHANGED acceptorVars
    \/ \E c \in Conns, what \in {"data", "data+eof", "eof", "err"} :
           PeerActs(c, what) /\ UNCHANGED acceptorVars
    \/ EpollWait
    \/ DispatchNext
    \/ \E c \in Conns, op \in {"close", "send"} : QueueCall(c, op) /\ UNCHANGED acceptorVars
    \/ RunFunctions
    \/ ~accepting /\ Tick /\ UNCHANGED acceptorVars

Spec == Init /\ [][Next]_vars

\* The loop keeps turning: it waits, dispatches its batch and runs its queue.
\* No fairness of Tick: the wheel may stand still for ever (LoopTimers).
FairSpec == Spec /\ WF_vars(EpollWait) /\ WF_vars(DispatchNext) /\ WF_vars(RunFunctions)

-----------------------------------------------------------------------------
(* Properties.                                                              *)

Stable == fault = "none" /\ ~restarted

\* An open connection, and no other, is in connections_, and it and the acceptor are
\* in events_ under their own descriptors, although descriptors are reused, unless
\* the server was started again with the acceptor still there (TcpServer.cc:44-45, 57-58;
\* TcpConnection.cc:19-22; Acceptor.cc:25-66; EventLoop.cc:95-123).
OpenIsRegistered ==
    Stable =>
      /\ connections = {c \in Conns : Open(c)}
      /\ \A c \in Conns : Open(c) => events[fdOf[c]] = c
      /\ \A f \in Fds : events[f] \in Conns => Open(events[f]) /\ fdOf[events[f]] = f
      /\ \A f \in Fds : events[f] = Listener => f = listener
      /\ service = "started" => events[listener] = Listener

\* A client in the backlog of a started server has its edge, an event or the accept
\* loop on the way to it, also after an accept that failed and opened a new socket
\* (Acceptor.cc:25-99).
ListenerHears ==
    Stable /\ service = "started" =>
      /\ polled
      /\ Pending # {} => edge \/ accepting \/ \E ev \in batch : ev.of = Listener

\* A client that connects is accepted or refused while the server is started: it is
\* not left waiting, however the limit of descriptors is reached (Acceptor.cc:67-99).
PendingIsAccepted ==
    \A c \in Conns :
        phase[c] = "pending" ~> phase[c] # "pending" \/ service = "stopped" \/ ~Stable

\* A connection the peer has closed is closed here too, whatever else the loop,
\* the callbacks and the other threads do meanwhile: epoll reports an edge once,
\* so OnRead has to read on to the end of file (TcpConnection.cc:56-82).
PeerCloseEnds ==
    \A c \in Conns :
        (Open(c) /\ sock[c] \in {"eof", "data+eof"}) ~> (~Open(c) \/ ~Stable)
=============================================================================
