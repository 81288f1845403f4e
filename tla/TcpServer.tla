----------------------------- MODULE TcpServer -----------------------------
(***************************************************************************)
(* tmms::network::TcpServer and the life of its TcpConnections on one       *)
(* EventLoop: registration in events_, reads, closing from the peer, from a *)
(* timeout, from a user callback or from another thread, and the reference  *)
(* counts that decide when a connection is destroyed.  How connections come *)
(* in, and the loop's steps put together, are in Acceptor.                  *)
(*                                                                         *)
(* Every handler runs on the loop's thread to its end, so it is one step.   *)
(* References to a connection are: connections_, events_, the user's own    *)
(* (a list, a context) and, inside a handler, a temporary shared_ptr.       *)
(* ~TcpConnection calls OnClose, which throws bad_weak_ptr in a destructor  *)
(* (std::terminate) if the connection is not marked closed yet; a function  *)
(* queued with a raw this is a use after free if the connection is gone.    *)
(* Both are recorded in fault, and nothing is modelled after them.          *)
(*                                                                         *)
(* Kernel behaviour (external): a new descriptor is the lowest free one;     *)
(* epoll_wait reports what each registered descriptor has ready.            *)
(***************************************************************************)
EXTENDS Naturals, FiniteSets, Sequences, FiniteSetsExt

CONSTANTS Conns,       \* connections, each accepted at most once
          Fds,         \* descriptors, none of which is 0
          None,        \* no event
          Listener,    \* the acceptor as an event
          Users,       \* kinds of users: "careful", "careless", "operator", see below
          MaxIdle,     \* the 30 of EnableCheckIdleTimeout, in ticks
          MaxQueue     \* bound: functions queued by other threads

ASSUME ServerAssumption ==
    /\ Fds \subseteq Nat \ {0} /\ None \notin Conns \cup {Listener} /\ Listener \notin Conns
    /\ Users \subseteq {"careful", "careless", "operator"}
    /\ MaxIdle \in Nat \ {0} /\ MaxQueue \in Nat

\* A careful user holds every connection until it is closed and no call on it is
\* queued, and closes none from the message callback of another.  Nothing in the
\* code asks for that; a careless user does as he likes.  An operator is careful and
\* calls nothing on connections, but stops and starts the server.
VARIABLES userKind,    \* the kind of the user, chosen at the start
          phase,       \* phase[c]: "new", "pending" in the backlog, "refused",
                       \* "open" or "closed" (closed_)
          fdOf,        \* fdOf[c]: fd_ while open
          connections, \* connections_
          events,      \* events[f]: events_ of the loop
          user,        \* connections the user holds a reference to
          sock,        \* sock[c]: what c's socket has to report
          batch,       \* events returned by epoll_wait and not dispatched yet
          queue,       \* functions queued by other threads
          timer,       \* timer[c]: ticks until c's TimeoutEntry is destroyed
          destroyed,   \* destroyed[c]: runs of destory_connection_cb
          misfired,    \* connections closed by an event of another one (history)
          listener,    \* fd_ of the acceptor, 0 for -1
          fault        \* "none", "terminate" or "use after free"

serverVars == <<userKind, phase, fdOf, connections, events, user, sock, batch, queue, timer,
                destroyed, misfired, listener, fault>>

Open(c) == phase[c] = "open"
Alive(c) == c \in connections \/ c \in user \/ \E f \in Fds : events[f] = c
Usable(f) == f # listener /\ \A c \in Conns : Open(c) => fdOf[c] # f
FreeFds == {f \in Fds : Usable(f)}

Careful == userKind # "careless"

ServerTypeOK ==
    /\ userKind \in Users
    /\ phase \in [Conns -> {"new", "pending", "refused", "open", "closed"}]
    /\ fdOf \in [Conns -> Fds \cup {0}]
    /\ connections \subseteq Conns
    /\ events \in [Fds -> Conns \cup {Listener, None}]
    /\ user \subseteq Conns
    /\ sock \in [Conns -> {"quiet", "data", "data+eof", "eof", "err"}]
    /\ batch \subseteq [fd : Fds, kind : {"in", "err"}, of : Conns \cup {Listener}]
    /\ queue \in Seq([op : {"close", "send"}, conn : Conns])
    /\ timer \in [Conns -> 0 .. MaxIdle]
    /\ destroyed \in [Conns -> Nat]
    /\ misfired \subseteq Conns
    /\ listener \in Fds \cup {0}
    /\ fault \in {"none", "terminate", "use after free"}

ServerInit ==
    /\ userKind \in Users
    /\ phase = [c \in Conns |-> "new"]
    /\ fdOf = [c \in Conns |-> 0]
    /\ connections = {}
    /\ events = [f \in Fds |-> None]
    /\ user = {}
    /\ sock = [c \in Conns |-> "quiet"]
    /\ batch = {}
    /\ queue = <<>>
    /\ timer = [c \in Conns |-> 0]
    /\ destroyed = [c \in Conns |-> 0]
    /\ misfired = {}
    /\ listener = 0
    /\ fault = "none"

-----------------------------------------------------------------------------
(* Accepting, and closing.                                                  *)

\* EventLoop::AddEvent: a key that is there already makes it do nothing.
AddEvent(c, f) ==
    events' = IF events[f] = None THEN [events EXCEPT ![f] = c] ELSE events

\* TcpServer::OnAccept of a connection from the backlog; new_connection_cb_ may
\* keep it.
OnAccept(c) ==
    /\ fault = "none"
    /\ phase[c] = "pending"
    /\ FreeFds # {}
    /\ LET f == Min(FreeFds) IN
         /\ fdOf' = [fdOf EXCEPT ![c] = f]
         /\ AddEvent(c, f)
    /\ phase' = [phase EXCEPT ![c] = "open"]
    /\ connections' = connections \cup {c}
    /\ timer' = [timer EXCEPT ![c] = MaxIdle]
    /\ user' \in IF Careful THEN {user \cup {c}} ELSE {user, user \cup {c}}
    /\ UNCHANGED <<userKind, listener, sock, batch, queue, destroyed, misfired, fault>>

\* EventLoop::DelEvent of the connections cs.
DelEvent(cs) ==
    events' = [f \in Fds |-> IF \E c \in cs : fdOf[c] = f THEN None ELSE events[f]]

\* Mutant: without DelEvent.
OnConnectionCloseKeepEvent(cs) ==
    /\ connections' = connections \ cs
    /\ destroyed' = [c \in Conns |-> IF c \in cs THEN destroyed[c] + 1 ELSE destroyed[c]]
    /\ UNCHANGED events

\* TcpServer::OnConnectionClose, which is their close_cb_.
OnConnectionClose(cs) ==
    /\ connections' = connections \ cs
    /\ DelEvent(cs)
    /\ destroyed' = [c \in Conns |-> IF c \in cs THEN destroyed[c] + 1 ELSE destroyed[c]]

\* TcpConnection::OnClose of the open connections cs, one after the other:
\* close_cb_, then closed_ is set and the descriptor closed.
OnClose(cs) ==
    /\ OnConnectionClose(cs)
    /\ phase' = [c \in Conns |-> IF c \in cs THEN "closed" ELSE phase[c]]
    /\ fdOf' = [c \in Conns |-> IF c \in cs THEN 0 ELSE fdOf[c]]

\* The sockets of cs have been read to the end, or closed.
Silence(cs) == sock' = [c \in Conns |-> IF c \in cs THEN "quiet" ELSE sock[c]]

\* Without another reference the temporary handed to close_cb_ is the last
\* one: c is destroyed inside its own OnClose, before closed_ is set.
FaultOfClose(c) == IF c \in user THEN "none" ELSE "terminate"

NothingClosed == UNCHANGED <<phase, fdOf, connections, events, destroyed, sock>>

-----------------------------------------------------------------------------
(* The network.                                                             *)

\* The peer sends data, closes, or the socket fails.
PeerActs(c, what) ==
    /\ fault = "none"
    /\ Open(c) \/ phase[c] = "pending"
    /\ sock[c] = "quiet" \/ (sock[c] = "data" /\ what = "data+eof")
    /\ sock' = [sock EXCEPT ![c] = what]
    /\ UNCHANGED <<userKind, listener, phase, fdOf, connections, events, user, batch, queue, timer,
                   destroyed, misfired, fault>>

Ready == {c \in Conns : Open(c) /\ events[fdOf[c]] = c /\ sock[c] # "quiet"}

-----------------------------------------------------------------------------
(* Dispatching one event of the batch: the connection is looked up by its   *)
(* descriptor, now.                                                         *)

Take(ev) == ev \in batch /\ batch' = batch \ {ev} /\ fault = "none"
Misfire(ev, c) == misfired' = IF ev.of = c THEN misfired ELSE misfired \cup {c}

\* The descriptor is no longer in events_.
DispatchNothing(ev) ==
    /\ Take(ev)
    /\ events[ev.fd] = None
    /\ UNCHANGED <<userKind, listener, phase, fdOf, connections, events, user, sock, queue, timer,
                   destroyed, misfired, fault>>

\* EPOLLERR or EPOLLHUP without EPOLLIN: OnError and OnClose close at once.
DispatchError(ev, c) ==
    /\ Take(ev)
    /\ ev.kind = "err"
    /\ events[ev.fd] = c /\ Open(c)
    /\ OnClose({c})
    /\ Silence({c})
    /\ fault' = FaultOfClose(c)
    /\ Misfire(ev, c)
    /\ UNCHANGED <<userKind, listener, user, queue, timer>>

\* Mutant: OnRead reads once instead of on to the end of file; the edge is gone.
DispatchReadOnce(ev, c) ==
    /\ Take(ev)
    /\ ev.kind = "in"
    /\ events[ev.fd] = c /\ Open(c)
    /\ IF sock[c] \in {"eof", "err"}
         THEN /\ OnClose({c})
              /\ Silence({c})
              /\ fault' = FaultOfClose(c)
              /\ Misfire(ev, c)
         ELSE /\ Silence({c})
              /\ UNCHANGED <<phase, fdOf, connections, events, destroyed, fault,
                             misfired>>
    /\ UNCHANGED <<userKind, listener, user, queue, timer>>

\* TcpConnection::OnRead: data goes to message_cb_, which leaves everything as
\* it is; at end of file OnClose.
DispatchRead(ev, c) ==
    /\ Take(ev)
    /\ ev.kind = "in"
    /\ events[ev.fd] = c /\ Open(c)
    /\ IF sock[c] \in {"eof", "data+eof", "err"}
         THEN /\ OnClose({c})
              /\ Silence({c})
              /\ fault' = FaultOfClose(c)
              /\ Misfire(ev, c)
         ELSE /\ Silence({c})
              /\ UNCHANGED <<phase, fdOf, connections, events, destroyed, fault,
                             misfired>>
    /\ UNCHANGED <<userKind, listener, user, queue, timer>>

\* message_cb_ closes its own connection (ForceClose on the loop's thread runs
\* OnClose at once).  The temporary of the call keeps it alive until then; if
\* it was the last reference, OnRead goes on reading in a destroyed object.
DispatchReadClosing(ev, c) ==
    /\ Take(ev)
    /\ ev.kind = "in"
    /\ events[ev.fd] = c /\ Open(c)
    /\ sock[c] \in {"data", "data+eof"}
    /\ OnClose({c})
    /\ Silence({c})
    /\ fault' = IF c \in user THEN "none" ELSE "use after free"
    /\ UNCHANGED <<userKind, listener, user, queue, timer,
                   misfired>>

\* message_cb_ closes another connection d, which the user must hold, and OnRead
\* of c goes on.
DispatchReadClosingOther(ev, c, d) ==
    /\ ~Careful
    /\ Take(ev)
    /\ ev.kind = "in"
    /\ events[ev.fd] = c /\ Open(c)
    /\ sock[c] = "data"
    /\ d # c /\ d \in user /\ Open(d)
    /\ OnClose({d})
    /\ Silence({c, d})
    /\ UNCHANGED <<userKind, listener, user, queue, timer, misfired, fault>>

-----------------------------------------------------------------------------
(* Calls from other threads, and the user's references.                     *)

\* ForceClose or Send from another thread that holds the connection: a function
\* with a raw this is queued.
QueueCall(c, op) ==
    /\ fault = "none"
    /\ userKind # "operator"
    /\ c \in user
    /\ Len(queue) < MaxQueue
    /\ queue' = Append(queue, [op |-> op, conn |-> c])
    /\ UNCHANGED <<userKind, listener, phase, fdOf, connections, events, user, sock, batch, timer,
                   destroyed, misfired, fault>>

\* Mutant: the functions of other threads run in the middle of a batch.
DequeueInBatch ==
    /\ fault = "none"
    /\ queue # <<>>
    /\ queue' = Tail(queue)
    /\ UNCHANGED <<userKind, listener, user, batch, timer,
                   misfired>>

\* RunFunctions, after the batch.  A ForceClose, and a Send whose write fails,
\* are OnClose without a temporary; a Send may also end in a write-complete
\* callback that closes, under a temporary; otherwise nothing closes.
Dequeue ==
    /\ fault = "none"
    /\ batch = {}
    /\ queue # <<>>
    /\ queue' = Tail(queue)
    /\ UNCHANGED <<userKind, listener, user, batch, timer,
                   misfired>>

RunOnDead ==
    /\ Dequeue
    /\ ~Alive(Head(queue).conn)
    /\ fault' = "use after free"
    /\ NothingClosed

RunWithoutEffect ==
    /\ Dequeue
    /\ LET h == Head(queue) IN
         /\ Alive(h.conn)
         /\ h.op = "send" \/ ~Open(h.conn)
    /\ UNCHANGED fault
    /\ NothingClosed

\* Mutant: OnClose does not look at closed_.
RunClosingAgain ==
    /\ Dequeue
    /\ LET h == Head(queue) IN
         /\ Alive(h.conn)
         /\ OnClose({h.conn})
         /\ Silence({h.conn})
         /\ fault' = FaultOfClose(h.conn)

RunClosing ==
    /\ Dequeue
    /\ LET h == Head(queue) IN
         /\ Open(h.conn)
         /\ OnClose({h.conn})
         /\ Silence({h.conn})
         /\ \/ fault' = FaultOfClose(h.conn)
            \/ h.op = "send" /\ UNCHANGED fault

\* The user lets go of a connection.
DropRef(c) ==
    /\ fault = "none"
    /\ c \in user
    /\ Careful => /\ phase[c] = "closed"
                      /\ \A i \in DOMAIN queue : queue[i].conn # c
    /\ user' = user \ {c}
    /\ UNCHANGED <<userKind, listener, phase, fdOf, connections, events, sock, batch, queue, timer,
                   destroyed, misfired, fault>>

-----------------------------------------------------------------------------
(* The idle timeout.                                                        *)

Expired == {c \in Conns : Open(c) /\ timer[c] = 1}

\* Mutant: the TimeoutEntry holds a raw pointer instead of a weak_ptr.
TickRawPointer ==
    /\ fault = "none"
    /\ batch = {}
    /\ \E c \in Conns : timer[c] > 0
    /\ OnClose(Expired)
    /\ Silence(Expired)
    /\ timer' = [c \in Conns |-> IF timer[c] > 0 THEN timer[c] - 1 ELSE 0]
    /\ fault' = IF \E c \in Conns : timer[c] = 1 /\ ~Alive(c) THEN "use after free"
                                                            ELSE fault
    /\ UNCHANGED <<userKind, listener, user, batch, queue, misfired>>

\* Mutant: OnTimeout only writes a log line, as the one of UdpSocket does.
TickLogsOnly ==
    /\ fault = "none"
    /\ batch = {}
    /\ \E c \in Conns : Open(c)
    /\ timer' = [c \in Conns |-> IF timer[c] > 0 THEN timer[c] - 1 ELSE 0]
    /\ NothingClosed
    /\ UNCHANGED <<userKind, listener, user, batch, queue, misfired, fault>>

\* A tick of the loop's wheel, after the batch.  The destructor of an expired
\* TimeoutEntry locks its connection, and OnTimeout closes it under that
\* reference.
Tick ==
    /\ fault = "none"
    /\ batch = {}
    /\ \E c \in Conns : Open(c)
    /\ OnClose(Expired)
    /\ Silence(Expired)
    /\ timer' = [c \in Conns |-> IF timer[c] > 0 THEN timer[c] - 1 ELSE 0]
    /\ UNCHANGED <<userKind, listener, user, batch, queue, misfired, fault>>

-----------------------------------------------------------------------------
Dispatch ==
    \E ev \in batch :
      \/ DispatchNothing(ev)
      \/ \E c \in Conns : \/ DispatchError(ev, c)
                          \/ DispatchRead(ev, c)
                          \/ DispatchReadClosing(ev, c)
                          \/ \E d \in Conns : DispatchReadClosingOther(ev, c, d)

RunQueued == RunOnDead \/ RunWithoutEffect \/ RunClosing

-----------------------------------------------------------------------------
(* Properties.                                                              *)

\* A user who is careful never makes the process die, whatever peers, timeouts
\* and other threads do (TcpConnection.cc:9-24, 27-28, 62-69).
CarefulNeverFaults == Careful => fault = "none"

\* The process outlives the end of a connection, whoever holds it: the server is
\* left to run for ever in TcpServerTest.cc:40-43, with a user that holds none.
NeverTerminates == fault # "terminate"

\* The destory callback runs once for every connection that was closed, however
\* many of timeout, peer and ForceClose want to close it (TcpConnection.cc:15-22).
DestroyedOnce ==
    fault = "none" =>
      \A c \in Conns : destroyed[c] = IF phase[c] = "closed" THEN 1 ELSE 0

\* An event closes the connection it was reported for, not a later one that got
\* the same descriptor within the batch, if the user is careful (EventLoop.cc:39-62).
ClosesItsOwn == Careful => misfired = {}

\* The idle timeout of an open connection is armed: none is left open with its
\* TimeoutEntry gone, to be kept for ever (TcpServer.cc:46; TcpConnection.h:75-88).
ArmedWhileOpen ==
    fault = "none" => \A c \in Conns : Open(c) => timer[c] > 0
=============================================================================
