-------------------------- MODULE TcpServerProofs --------------------------
(***************************************************************************)
(* Theorems about TcpServer with its Acceptor, for any connections and       *)
(* descriptors, any idle time, and any number of queued calls and starts.    *)
(*                                                                         *)
(* The invariant is built in layers, each inductive relative to those above  *)
(* it: types, the life of a connection, the registration of descriptors, the *)
(* events of the batch, and the edge of the listening socket.  Of the many   *)
(* actions, the first lemmas say what the few ways of changing the           *)
(* registration do.                                                        *)
(***************************************************************************)
EXTENDS Acceptor, SequenceTheorems, WellFoundedInduction, TLAPS

Calls == [op : {"close", "send"}, conn : Conns]

\* What is open has a descriptor.  Whatever depends on the listening socket comes after
\* the first Start, and only an operator starts again.
UpInv ==
    /\ \A c \in Conns : Open(c) => fdOf[c] \in Fds
    /\ edge \/ accepting \/ service # "new" => listener # 0
    /\ listener # 0 => starts # 0
    /\ \A f \in Fds : events[f] = Listener => listener # 0
    /\ restarted => userKind = "operator"

TypeInv == TypeOK /\ UpInv

\* The life of a connection: the callback once, the timeout armed, and for a careful
\* user a reference as long as it is open or queued.
OnceInv == \A c \in Conns : destroyed[c] = IF phase[c] = "closed" THEN 1 ELSE 0
ArmedInv == \A c \in Conns : Open(c) => timer[c] > 0
HeldInv ==
    Careful => /\ fault = "none"
               /\ \A c \in Conns : Open(c) => c \in user
               /\ \A i \in DOMAIN queue : queue[i].conn \in user

LifeInv == OnceInv /\ ArmedInv /\ HeldInv

\* Descriptors: one for each open connection, and none of them the acceptor's; events_
\* leads to nothing that is closed.
FdInv ==
    /\ connections = {c \in Conns : Open(c)}
    /\ \A c \in Conns : Open(c) => fdOf[c] # listener
    /\ \A c, d \in Conns : Open(c) /\ Open(d) /\ fdOf[c] = fdOf[d] => c = d
    /\ \A f \in Fds : events[f] \in Conns => Open(events[f]) /\ fdOf[events[f]] = f

\* Without a second Start everything is found under its own descriptor.
RegInv ==
    ~restarted => /\ \A c \in Conns : Open(c) => events[fdOf[c]] = c
                  /\ \A f \in Fds : events[f] = Listener => f = listener
                  /\ service = "started" => events[listener] = Listener /\ polled

\* An event of the batch still belongs to whom it was reported for, and no other has
\* its descriptor.
BatchInv ==
    /\ \A e1, e2 \in batch : e1.fd = e2.fd => e1 = e2
    /\ \A e \in batch : e.of = Listener => e.fd = listener /\ e.kind = "in" /\ ~accepting
    /\ Careful => \A e \in batch : e.of \in Conns => /\ Open(e.of) /\ fdOf[e.of] = e.fd
                                                    /\ events[e.fd] = e.of
    /\ ClosesItsOwn

\* The edge of the listening socket is not lost.
HearInv ==
    ~restarted /\ service = "started" /\ Pending # {} =>
        edge \/ accepting \/ \E e \in batch : e.of = Listener

IInv == TypeInv /\ LifeInv /\ FdInv /\ RegInv /\ BatchInv /\ HearInv

-----------------------------------------------------------------------------
(* The choice of descriptors.                                               *)

\* The least of some natural numbers is one of them.
LEMMA MinIsMember ==
  ASSUME NEW S \in SUBSET Nat, S # {}
  PROVE  Min(S) \in S
<1>1. PICK x \in S : \A y \in S : ~(<<y, x>> \in OpToRel(<, Nat))
  BY NatLessThanWellFounded, WFMin
<1>2. \A y \in S : x =< y
  <2>1. \A y \in S : ~(y < x)
    BY <1>1 DEF OpToRel
  <2> QED
    BY <2>1
<1> QED
  BY <1>2 DEF Min

\* A new descriptor is one of Fds that no open connection has.
LEMMA FreeFd ==
  ASSUME TypeInv, FreeFds # {}
  PROVE  /\ Min(FreeFds) \in Fds
         /\ Min(FreeFds) # listener
         /\ \A c \in Conns : Open(c) => fdOf[c] # Min(FreeFds)
<1>1. FreeFds \in SUBSET Nat
  BY ServerAssumption DEF FreeFds
<1>2. Min(FreeFds) \in FreeFds
  BY <1>1, MinIsMember
<1> QED
  BY <1>2 DEF FreeFds, Usable

\* The socket made after a close has the number just closed or a free one.
LEMMA FreeFdOnOpen ==
  ASSUME TypeInv, listener # 0
  PROVE  /\ CreateNonblockingTcpSocket \in Fds
         /\ \/ CreateNonblockingTcpSocket = listener
            \/ CreateNonblockingTcpSocket \in FreeFds
<1>1. listener \in Fds
  BY DEF TypeInv, TypeOK, ServerTypeOK
<1>2. FreeOnOpen \in SUBSET Nat /\ FreeOnOpen # {}
  BY <1>1, ServerAssumption DEF FreeOnOpen, FreeFds
<1>3. CreateNonblockingTcpSocket \in FreeOnOpen
  BY <1>2, MinIsMember DEF CreateNonblockingTcpSocket
<1> QED
  BY <1>1, <1>3 DEF FreeOnOpen, FreeFds

-----------------------------------------------------------------------------
(* Types.                                                                   *)

\* Types hold at the start.
LEMMA InitTypes == Init => TypeInv
<1> SUFFICES ASSUME Init PROVE TypeInv
  OBVIOUS
<1>1. ServerTypeOK
  BY ServerAssumption DEF Init, ServerInit, ServerTypeOK
<1>2. TypeOK
  <2>1. service \in {"new", "started", "stopped"} /\ starts \in 0 .. MaxStarts
    BY AcceptorAssumption DEF Init
  <2>2. {restarted, bound, polled, edge, accepting} \subseteq BOOLEAN
    BY Zenon DEF Init
  <2> QED
    BY <1>1, <2>1, <2>2 DEF TypeOK
<1>3. UpInv
  BY ServerAssumption DEF Init, ServerInit, UpInv, Open
<1> QED
  BY <1>2, <1>3 DEF TypeInv

\* Closing connections keeps their types, and closes these and no others.
LEMMA CloseTypes ==
  ASSUME TypeInv, NEW cs \in SUBSET Conns, OnClose(cs)
  PROVE  /\ phase' \in [Conns -> {"new", "pending", "refused", "open", "closed"}]
         /\ fdOf' \in [Conns -> Fds \cup {0}]
         /\ connections' \subseteq Conns
         /\ events' \in [Fds -> Conns \cup {Listener, None}]
         /\ destroyed' \in [Conns -> Nat]
         /\ \A f \in Fds : events'[f] = Listener => events[f] = Listener
         /\ \A c \in Conns : Open(c)' <=> Open(c) /\ c \notin cs
         /\ \A c \in Conns : c \notin cs => fdOf'[c] = fdOf[c]
<1> USE DEF TypeInv, TypeOK, ServerTypeOK
<1>1. phase' \in [Conns -> {"new", "pending", "refused", "open", "closed"}]
  BY DEF OnClose
<1>2. fdOf' \in [Conns -> Fds \cup {0}]
  BY DEF OnClose
<1>3. connections' \subseteq Conns
  BY DEF OnClose, OnConnectionClose
<1>4. /\ events' \in [Fds -> Conns \cup {Listener, None}]
      /\ \A f \in Fds : events'[f] = Listener => events[f] = Listener
  <2>1. events' = [f \in Fds |-> IF \E c \in cs : fdOf[c] = f THEN None ELSE events[f]]
    BY DEF OnClose, OnConnectionClose, DelEvent
  <2> QED
    BY <2>1, ServerAssumption
<1>5. destroyed' \in [Conns -> Nat]
  <2>1. destroyed \in [Conns -> Nat]
    OBVIOUS
  <2> HIDE DEF TypeInv, TypeOK, ServerTypeOK
  <2>2. \A c \in Conns : destroyed[c] \in Nat /\ destroyed[c] + 1 \in Nat
    BY <2>1
  <2> QED
    BY <2>1, <2>2 DEF OnClose, OnConnectionClose
<1>6. \A c \in Conns : /\ Open(c)' <=> Open(c) /\ c \notin cs
                       /\ c \notin cs => fdOf'[c] = fdOf[c]
  BY DEF OnClose, Open
<1> QED
  BY <1>1, <1>2, <1>3, <1>4, <1>5, <1>6

\* A socket that says no more keeps its type.
LEMMA SilenceTypes ==
  ASSUME TypeInv, NEW cs, Silence(cs)
  PROVE  sock' \in [Conns -> {"quiet", "data", "data+eof", "eof", "err"}]
BY DEF TypeInv, TypeOK, ServerTypeOK, Silence

\* Opening a listening socket touches no connection that is open.
LEMMA OpenTypes ==
  ASSUME TypeInv, NEW f \in Fds, NEW evs \in [Fds -> Conns \cup {Listener, None}],
         OpenListener(f, evs)
  PROVE  /\ phase' \in [Conns -> {"new", "pending", "refused", "open", "closed"}]
         /\ events' \in [Fds -> Conns \cup {Listener, None}]
         /\ sock' \in [Conns -> {"quiet", "data", "data+eof", "eof", "err"}]
         /\ listener' \in Fds /\ listener' # 0
         /\ polled' \in BOOLEAN /\ edge' \in BOOLEAN
         /\ \A c \in Conns : Open(c)' <=> Open(c)
<1> USE DEF OpenListener
<1>1. phase' \in [Conns -> {"new", "pending", "refused", "open", "closed"}]
  BY DEF TypeInv, TypeOK, ServerTypeOK
<1>2. events' \in [Fds -> Conns \cup {Listener, None}]
  OBVIOUS
<1>3. sock' \in [Conns -> {"quiet", "data", "data+eof", "eof", "err"}]
  BY SilenceTypes
<1>4. listener' \in Fds /\ listener' # 0 /\ polled' \in BOOLEAN /\ edge' \in BOOLEAN
  BY ServerAssumption
<1>5. \A c \in Conns : Open(c)' <=> Open(c)
  BY DEF TypeInv, TypeOK, ServerTypeOK, Open, Pending
<1> QED
  BY <1>1, <1>2, <1>3, <1>4, <1>5

\* events_ without the acceptor has the type of events_.
LEMMA WithoutListenerTypes ==
  ASSUME TypeInv
  PROVE  WithoutListener \in [Fds -> Conns \cup {Listener, None}]
BY DEF TypeInv, TypeOK, ServerTypeOK, WithoutListener

\* The functions queued by other threads are about connections.
LEMMA HeadOfQueue ==
  ASSUME TypeInv, queue # <<>>
  PROVE  /\ Head(queue) \in Calls /\ Head(queue).conn \in Conns
         /\ Tail(queue) \in Seq(Calls)
         /\ DOMAIN Tail(queue) = 1 .. Len(queue) - 1
         /\ \A i \in DOMAIN Tail(queue) : i + 1 \in DOMAIN queue /\ Tail(queue)[i] = queue[i + 1]
         /\ 1 \in DOMAIN queue /\ Head(queue) = queue[1]
<1>1. queue \in Seq(Calls)
  BY DEF TypeInv, TypeOK, ServerTypeOK, Calls
<1>2. /\ Head(queue) \in Calls /\ Tail(queue) \in Seq(Calls)
      /\ Len(queue) \in Nat /\ Len(queue) > 0 /\ Len(Tail(queue)) = Len(queue) - 1
      /\ \A i \in 1 .. Len(Tail(queue)) : Tail(queue)[i] = queue[i + 1]
      /\ Head(queue) = queue[1]
  BY <1>1, HeadTailProperties, EmptySeq, LenProperties
<1> QED
  BY <1>1, <1>2, LenProperties DEF Calls

\* What every action that takes an event, or runs after the batch, may do.
LEMMA ClosingTypes ==
  ASSUME TypeInv, NEW cs \in SUBSET Conns, OnClose(cs),
         \E ss : Silence(ss),
         batch' \subseteq batch,
         queue' \in Seq(Calls),
         timer' \in [Conns -> 0 .. MaxIdle],
         misfired' \subseteq Conns,
         fault' \in {"none", "terminate", "use after free"},
         UNCHANGED <<userKind, listener, user, acceptorVars>>
  PROVE  TypeInv'
<1>1. ServerTypeOK'
  <2>1. batch' \subseteq [fd : Fds, kind : {"in", "err"}, of : Conns \cup {Listener}]
    BY DEF TypeInv, TypeOK, ServerTypeOK
  <2>2. sock' \in [Conns -> {"quiet", "data", "data+eof", "eof", "err"}]
    BY SilenceTypes
  <2>3. userKind' \in Users /\ listener' \in Fds \cup {0} /\ user' \subseteq Conns
    BY DEF TypeInv, TypeOK, ServerTypeOK
  <2> QED
    BY <2>1, <2>2, <2>3, CloseTypes DEF ServerTypeOK, Calls
<1>2. TypeOK'
  BY <1>1 DEF TypeInv, TypeOK, acceptorVars
<1>3. UpInv'
  BY CloseTypes DEF TypeInv, UpInv, acceptorVars
<1> QED
  BY <1>2, <1>3 DEF TypeInv

\* Each way of opening the listening socket keeps the types.
LEMMA OpeningTypes ==
  ASSUME TypeInv, NEW f \in Fds, NEW evs \in [Fds -> Conns \cup {Listener, None}],
         OpenListener(f, evs),
         batch' \subseteq batch,
         service' \in {"new", "started", "stopped"},
         starts' \in 0 .. MaxStarts, starts' # 0,
         restarted' \in BOOLEAN, restarted' => userKind = "operator",
         accepting' \in BOOLEAN,
         UNCHANGED <<userKind, fdOf, connections, user, queue, timer, destroyed, misfired,
                     fault, bound>>
  PROVE  TypeInv'
<1>1. ServerTypeOK'
  <2>1. batch' \subseteq [fd : Fds, kind : {"in", "err"}, of : Conns \cup {Listener}]
    BY DEF TypeInv, TypeOK, ServerTypeOK
  <2>2. listener' \in Fds \cup {0}
    BY OpenTypes
  <2> QED
    BY <2>1, <2>2, OpenTypes DEF ServerTypeOK, TypeInv, TypeOK
<1>2. TypeOK'
  BY <1>1, OpenTypes DEF TypeInv, TypeOK
<1>3. UpInv'
  BY OpenTypes DEF TypeInv, UpInv
<1> QED
  BY <1>2, <1>3 DEF TypeInv

\* A client that connects keeps the types.
LEMMA ArriveTypes ==
  ASSUME TypeInv, NEW c \in Conns, Arrive(c)
  PROVE  TypeInv'
<1>1. ServerTypeOK'
  BY SMTT(30) DEF TypeInv, TypeOK, ServerTypeOK, Calls, Arrive, acceptorVars
<1>2. TypeOK'
  BY <1>1 DEF TypeInv, TypeOK, Arrive, acceptorVars
<1>3. UpInv'
  BY DEF TypeInv, TypeOK, ServerTypeOK, UpInv, Open, Arrive, Reachable, acceptorVars
<1> QED
  BY <1>2, <1>3 DEF TypeInv

\* Stop keeps the types.
LEMMA StopTypes ==
  ASSUME TypeInv, Stop
  PROVE  TypeInv'
<1>1. ServerTypeOK'
  BY SMTT(30) DEF TypeInv, TypeOK, ServerTypeOK, Calls, Stop, WithoutListener, acceptorVars
<1>2. TypeOK'
  BY <1>1 DEF TypeInv, TypeOK, Stop, WithoutListener, acceptorVars
<1>3. UpInv'
  BY ServerAssumption DEF TypeInv, UpInv, Open, Stop, WithoutListener, acceptorVars
<1> QED
  BY <1>2, <1>3 DEF TypeInv

\* A reference that is dropped keeps the types.
LEMMA DropRefTypes ==
  ASSUME TypeInv, NEW c \in Conns, DropRef(c) /\ UNCHANGED acceptorVars
  PROVE  TypeInv'
<1>1. ServerTypeOK'
  BY SMTT(30) DEF TypeInv, TypeOK, ServerTypeOK, Calls, DropRef, acceptorVars
<1>2. TypeOK'
  BY <1>1 DEF TypeInv, TypeOK, DropRef, acceptorVars
<1>3. UpInv'
  BY ServerAssumption DEF TypeInv, UpInv, Open, DropRef, acceptorVars
<1> QED
  BY <1>2, <1>3 DEF TypeInv

\* What a peer does keeps the types.
LEMMA PeerActsTypes ==
  ASSUME TypeInv, NEW c \in Conns, NEW what \in {"data", "data+eof", "eof", "err"},
         PeerActs(c, what) /\ UNCHANGED acceptorVars
  PROVE  TypeInv'
<1>1. ServerTypeOK'
  BY SMTT(30) DEF TypeInv, TypeOK, ServerTypeOK, Calls, PeerActs, acceptorVars
<1>2. TypeOK'
  BY <1>1 DEF TypeInv, TypeOK, PeerActs, acceptorVars
<1>3. UpInv'
  BY ServerAssumption DEF TypeInv, UpInv, Open, PeerActs, acceptorVars
<1> QED
  BY <1>2, <1>3 DEF TypeInv

\* A call from another thread keeps the types.
LEMMA QueueCallTypes ==
  ASSUME TypeInv, NEW c \in Conns, NEW op \in {"close", "send"},
         QueueCall(c, op) /\ UNCHANGED acceptorVars
  PROVE  TypeInv'
<1>1. ServerTypeOK'
  BY SMTT(30) DEF TypeInv, TypeOK, ServerTypeOK, Calls, QueueCall, acceptorVars
<1>2. TypeOK'
  BY <1>1 DEF TypeInv, TypeOK, QueueCall, acceptorVars
<1>3. UpInv'
  BY ServerAssumption DEF TypeInv, UpInv, Open, QueueCall, acceptorVars
<1> QED
  BY <1>2, <1>3 DEF TypeInv

\* An event nobody is registered for keeps the types.
LEMMA DispatchNothingTypes ==
  ASSUME TypeInv, NEW ev \in batch, DispatchNothing(ev) /\ UNCHANGED acceptorVars
  PROVE  TypeInv'
<1>1. ServerTypeOK'
  BY SMTT(30) DEF TypeInv, TypeOK, ServerTypeOK, Calls, DispatchNothing, Take, acceptorVars
<1>2. TypeOK'
  BY <1>1 DEF TypeInv, TypeOK, DispatchNothing, Take, acceptorVars
<1>3. UpInv'
  BY ServerAssumption DEF TypeInv, UpInv, Open, DispatchNothing, Take, acceptorVars
<1> QED
  BY <1>2, <1>3 DEF TypeInv

\* The end of the accept loop keeps the types.
LEMMA AcceptEndsTypes ==
  ASSUME TypeInv, AcceptEnds
  PROVE  TypeInv'
<1>1. ServerTypeOK'
  BY SMTT(30) DEF TypeInv, TypeOK, ServerTypeOK, Calls, AcceptEnds, serverVars, acceptorVars
<1>2. TypeOK'
  BY <1>1 DEF TypeInv, TypeOK, AcceptEnds, serverVars, acceptorVars
<1>3. UpInv'
  BY ServerAssumption DEF TypeInv, UpInv, Open, AcceptEnds, serverVars, acceptorVars
<1> QED
  BY <1>2, <1>3 DEF TypeInv

\* A queued call on a dead connection keeps the types.
LEMMA RunOnDeadTypes ==
  ASSUME TypeInv, RunOnDead /\ UNCHANGED acceptorVars
  PROVE  TypeInv'
<1>1. ServerTypeOK'
  <2>1. ServerTypeOK /\ queue' \in Seq(Calls)
    BY HeadOfQueue DEF TypeInv, TypeOK, RunOnDead, Dequeue
  <2> QED
    BY <2>1 DEF ServerTypeOK, Calls, RunOnDead, Dequeue, NothingClosed
<1>2. TypeOK'
  BY <1>1 DEF TypeInv, TypeOK, RunOnDead, Dequeue, NothingClosed, acceptorVars
<1>3. UpInv'
  BY ServerAssumption DEF TypeInv, UpInv, Open, RunOnDead, Dequeue, NothingClosed, acceptorVars
<1> QED
  BY <1>2, <1>3 DEF TypeInv

\* A queued call without effect keeps the types.
LEMMA RunWithoutEffectTypes ==
  ASSUME TypeInv, RunWithoutEffect /\ UNCHANGED acceptorVars
  PROVE  TypeInv'
<1>1. ServerTypeOK'
  BY HeadOfQueue, SMTT(30) DEF TypeInv, TypeOK, ServerTypeOK, Calls, RunWithoutEffect, Dequeue, NothingClosed, acceptorVars
<1>2. TypeOK'
  BY <1>1 DEF TypeInv, TypeOK, RunWithoutEffect, Dequeue, NothingClosed, acceptorVars
<1>3. UpInv'
  BY ServerAssumption DEF TypeInv, UpInv, Open, RunWithoutEffect, Dequeue, NothingClosed, acceptorVars
<1> QED
  BY <1>2, <1>3 DEF TypeInv

\* The start of the accept loop keeps the types.
LEMMA DispatchInTypes ==
  ASSUME TypeInv, NEW ev \in batch, DispatchListener(ev), ev.kind = "in"
  PROVE  TypeInv'
<1>1. ServerTypeOK'
  BY SMTT(30) DEF TypeInv, TypeOK, ServerTypeOK, Calls, DispatchListener, Take, acceptorVars
<1>2. TypeOK'
  BY <1>1 DEF TypeInv, TypeOK, DispatchListener, Take, acceptorVars
<1>3. UpInv'
  <2>1. ev.fd \in Fds
    BY DEF TypeInv, TypeOK, ServerTypeOK
  <2>2. events[ev.fd] = Listener
    BY DEF DispatchListener
  <2> QED
    BY <2>1, <2>2 DEF TypeInv, UpInv, Open, DispatchListener
<1> QED
  BY <1>2, <1>3 DEF TypeInv

\* An accepted connection keeps the types.
LEMMA AcceptTypes ==
  ASSUME TypeInv, NEW c \in Conns, Accept(c)
  PROVE  TypeInv'
<1>1. ServerTypeOK'
  <2> DEFINE f == Min(FreeFds)
  <2>1. ServerTypeOK /\ f \in Fds /\ MaxIdle \in 0 .. MaxIdle
    BY FreeFd, ServerAssumption DEF TypeInv, TypeOK, Accept, OnAccept
  <2>2. /\ fdOf' = [fdOf EXCEPT ![c] = f]
        /\ events' = IF events[f] = None THEN [events EXCEPT ![f] = c] ELSE events
        /\ user' \subseteq Conns
    BY <2>1 DEF Accept, OnAccept, AddEvent, ServerTypeOK
  <2> HIDE DEF f
  <2>3. fdOf' \in [Conns -> Fds \cup {0}] /\ events' \in [Fds -> Conns \cup {Listener, None}]
    BY <2>1, <2>2 DEF ServerTypeOK
  <2> QED
    BY <2>1, <2>2, <2>3 DEF ServerTypeOK, Accept, OnAccept
<1>2. TypeOK'
  BY <1>1 DEF TypeInv, TypeOK, Accept, OnAccept, AddEvent, acceptorVars
<1>3. UpInv'
  <2> DEFINE f == Min(FreeFds)
  <2>1. ServerTypeOK /\ UpInv /\ f \in Fds
    BY FreeFd DEF TypeInv, TypeOK, Accept, OnAccept
  <2> HIDE DEF f
  <2>2. /\ fdOf' = [fdOf EXCEPT ![c] = f]
        /\ events' = IF events[f] = None THEN [events EXCEPT ![f] = c] ELSE events
        /\ phase' = [phase EXCEPT ![c] = "open"]
        /\ UNCHANGED <<edge, accepting, service, listener, starts, restarted, userKind>>
    BY DEF f, Accept, OnAccept, AddEvent, acceptorVars
  <2>3. \A d \in Conns : Open(d)' => fdOf'[d] \in Fds
    BY <2>1, <2>2 DEF ServerTypeOK, UpInv, Open
  <2>4. \A g \in Fds : events'[g] = Listener => events[g] = Listener
    BY <2>1, <2>2, ServerAssumption DEF ServerTypeOK
  <2> QED
    BY <2>1, <2>2, <2>3, <2>4 DEF UpInv
<1> QED
  BY <1>2, <1>3 DEF TypeInv

\* A batch of events keeps the types.
LEMMA EpollWaitTypes ==
  ASSUME TypeInv, EpollWait
  PROVE  TypeInv'
<1>1. ServerTypeOK'
  <2>1. ServerTypeOK
    BY DEF TypeInv, TypeOK
  <2>2. edge => listener \in Fds
    BY <2>1 DEF TypeInv, UpInv, ServerTypeOK
  <2>3. \A c \in Ready : c \in Conns /\ fdOf[c] \in Fds
    BY <2>1 DEF TypeInv, UpInv, Ready
  <2>4. batch' \subseteq [fd : Fds, kind : {"in", "err"}, of : Conns \cup {Listener}]
    BY <2>2, <2>3 DEF EpollWait
  <2> QED
    BY <2>1, <2>4 DEF ServerTypeOK, EpollWait
<1>2. TypeOK'
  BY <1>1 DEF TypeInv, TypeOK, EpollWait, Ready, acceptorVars
<1>3. UpInv'
  BY ServerAssumption DEF TypeInv, UpInv, Open, EpollWait, Ready, acceptorVars
<1> QED
  BY <1>2, <1>3 DEF TypeInv

\* So does a step that changes nothing.
LEMMA StutterTypes ==
  ASSUME TypeInv, UNCHANGED vars
  PROVE  TypeInv'
<1>1. ServerTypeOK'
  <2>1. ServerTypeOK /\ UNCHANGED serverVars
    BY DEF TypeInv, TypeOK, vars
  <2> QED
    BY <2>1 DEF ServerTypeOK, serverVars, Calls
<1>2. TypeOK'
  BY <1>1 DEF TypeInv, TypeOK, vars, serverVars, acceptorVars
<1>3. UpInv'
  BY ServerAssumption DEF TypeInv, UpInv, Open, vars, serverVars, acceptorVars
<1> QED
  BY <1>2, <1>3 DEF TypeInv

-----------------------------------------------------------------------------
(* The kinds of steps.                                                      *)

Registers == <<userKind, phase, fdOf, connections, events, timer, destroyed, misfired,
               listener, service, starts, restarted, bound, polled>>

\* Nothing is opened or closed.
Quiet ==
    /\ UNCHANGED Registers
    /\ \/ EpollWait \/ AcceptEnds
       \/ \E ev \in batch : DispatchListener(ev) /\ ev.kind = "in"
       \/ \E ev \in batch : /\ batch' = batch \ {ev} /\ events[ev.fd] # Listener
                            /\ UNCHANGED <<user, queue, fault, edge, accepting>>
       \/ /\ \/ \E c \in Conns : DropRef(c)
             \/ \E c \in Conns, op \in {"close", "send"} : QueueCall(c, op)
             \/ RunOnDead \/ RunWithoutEffect
          /\ UNCHANGED acceptorVars
       \/ UNCHANGED <<user, batch, queue, fault, edge, accepting>>

\* The connections cs are closed.
Closes(cs) ==
    /\ fault = "none" /\ \A c \in cs : Open(c)
    /\ OnClose(cs) /\ (\E ss : Silence(ss))
    /\ \/ timer' = timer
       \/ /\ cs = Expired
          /\ timer' = [c \in Conns |-> IF timer[c] > 0 THEN timer[c] - 1 ELSE 0]
    /\ queue' = queue \/ (queue # <<>> /\ queue' = Tail(queue))
    /\ fault' \in {"none", "terminate", "use after free"}
    /\ Careful /\ cs \subseteq user => fault' = "none"
    /\ \/ batch = {} /\ UNCHANGED <<batch, misfired>>
       \/ \E ev \in batch : \E c \in Conns :
            /\ batch' = batch \ {ev} /\ events[ev.fd] = c
            /\ misfired' \in {misfired, misfired \cup {c}}
            /\ ev.of = c => misfired' = misfired
            /\ Careful => cs = {c}
    /\ UNCHANGED <<userKind, user, listener, acceptorVars>>

\* A listening socket with descriptor f is opened.
Opens(f) ==
    /\ fault = "none" /\ f \in Fds
    /\ f = listener \/ f \in FreeFds
    /\ UNCHANGED <<userKind, fdOf, connections, user, queue, timer, destroyed, misfired, fault,
                   bound>>
    /\ accepting' \in {FALSE, accepting}
    /\ \/ /\ OpenListener(f, events)
          /\ batch = {} /\ batch' = batch /\ ~accepting
          /\ starts' \in 1 .. MaxStarts /\ service' = "started"
          /\ userKind # "operator" => starts = 0
          /\ restarted' = (restarted \/ \E g \in Fds : events[g] = Listener)
       \/ /\ OpenListener(f, WithoutListener)
          /\ listener # 0 /\ ~accepting'
          /\ \/ accepting /\ batch' = batch
             \/ \E ev \in batch : events[ev.fd] = Listener /\ batch' = batch \ {ev}
          /\ UNCHANGED <<service, starts, restarted>>

\* The steps that open and close nothing keep the types.
LEMMA QuietSteps ==
  ASSUME TypeInv,
         \/ \E c \in Conns : DropRef(c) /\ UNCHANGED acceptorVars
         \/ \E c \in Conns, what \in {"data", "data+eof", "eof", "err"} :
                PeerActs(c, what) /\ UNCHANGED acceptorVars
         \/ \E c \in Conns, op \in {"close", "send"} : QueueCall(c, op) /\ UNCHANGED acceptorVars
         \/ \E ev \in batch : DispatchNothing(ev) /\ UNCHANGED acceptorVars
         \/ \E ev \in batch : DispatchListener(ev) /\ ev.kind = "in"
         \/ EpollWait \/ AcceptEnds
         \/ RunOnDead /\ UNCHANGED acceptorVars
         \/ RunWithoutEffect /\ UNCHANGED acceptorVars
         \/ UNCHANGED vars
  PROVE  Quiet /\ TypeInv'
<1> USE DEF Registers, acceptorVars
<1>1. CASE \E c \in Conns : DropRef(c) /\ UNCHANGED acceptorVars
  BY <1>1, DropRefTypes DEF Quiet, DropRef
<1>2. CASE \E c \in Conns, what \in {"data", "data+eof", "eof", "err"} :
               PeerActs(c, what) /\ UNCHANGED acceptorVars
  BY <1>2, PeerActsTypes DEF Quiet, PeerActs
<1>3. CASE \E c \in Conns, op \in {"close", "send"} : QueueCall(c, op) /\ UNCHANGED acceptorVars
  BY <1>3, QueueCallTypes DEF Quiet, QueueCall
<1>4. CASE \E ev \in batch : DispatchNothing(ev) /\ UNCHANGED acceptorVars
  BY <1>4, ServerAssumption, DispatchNothingTypes DEF Quiet, DispatchNothing, Take
<1>5. CASE \E ev \in batch : DispatchListener(ev) /\ ev.kind = "in"
  BY <1>5, DispatchInTypes DEF Quiet, DispatchListener
<1>6. CASE EpollWait
  BY <1>6, EpollWaitTypes DEF Quiet, EpollWait
<1>7. CASE AcceptEnds
  BY <1>7, AcceptEndsTypes DEF Quiet, AcceptEnds, serverVars
<1>8. CASE RunOnDead /\ UNCHANGED acceptorVars
  BY <1>8, RunOnDeadTypes DEF Quiet, RunOnDead, Dequeue, NothingClosed
<1>9. CASE RunWithoutEffect /\ UNCHANGED acceptorVars
  BY <1>9, RunWithoutEffectTypes DEF Quiet, RunWithoutEffect, Dequeue, NothingClosed
<1>10. CASE UNCHANGED vars
  BY <1>10, StutterTypes DEF Quiet, vars, serverVars
<1> QED
  BY <1>1, <1>2, <1>3, <1>4, <1>5, <1>6, <1>7, <1>8, <1>9, <1>10

\* An event on a connection closes it, or nothing.
LEMMA DispatchSteps ==
  ASSUME TypeInv, NEW ev \in batch, NEW c \in Conns, UNCHANGED acceptorVars,
         DispatchError(ev, c) \/ DispatchRead(ev, c) \/ DispatchReadClosing(ev, c)
  PROVE  (Quiet /\ TypeInv') \/ Closes({c})
<1>1. FaultOfClose(c) \in {"none", "terminate", "use after free"}
  BY DEF FaultOfClose
<1>2. CASE DispatchError(ev, c)
  BY <1>1, <1>2 DEF Closes, DispatchError, Take, Misfire, FaultOfClose, acceptorVars
<1>3. CASE DispatchRead(ev, c) /\ sock[c] \in {"eof", "data+eof", "err"}
  BY <1>1, <1>3 DEF Closes, DispatchRead, Take, Misfire, FaultOfClose, acceptorVars
<1>4. CASE DispatchRead(ev, c) /\ sock[c] \notin {"eof", "data+eof", "err"}
  <2>1. Quiet
    BY <1>4, ServerAssumption DEF Quiet, Registers, DispatchRead, Take, acceptorVars
  <2>2. ServerTypeOK'
    BY <1>4, SilenceTypes, SMTT(30) DEF TypeInv, TypeOK, ServerTypeOK, DispatchRead, Take
  <2>3. TypeOK' /\ UpInv'
    BY <1>4, <2>2 DEF TypeInv, TypeOK, UpInv, Open, DispatchRead, acceptorVars
  <2> QED
    BY <2>1, <2>3 DEF TypeInv
<1>5. CASE DispatchReadClosing(ev, c)
  BY <1>5 DEF Closes, DispatchReadClosing, Take, acceptorVars
<1> QED
  BY <1>2, <1>3, <1>4, <1>5

\* A message callback that closes another connection closes that one.
LEMMA DispatchOtherSteps ==
  ASSUME TypeInv, NEW ev \in batch, NEW c \in Conns, NEW d \in Conns, UNCHANGED acceptorVars,
         DispatchReadClosingOther(ev, c, d)
  PROVE  Closes({d})
BY DEF Closes, DispatchReadClosingOther, Take, acceptorVars

\* A queued call that closes closes one connection.
LEMMA RunClosingSteps ==
  ASSUME TypeInv, RunClosing, UNCHANGED acceptorVars
  PROVE  \E c \in Conns : Closes({c})
<1> DEFINE c == Head(queue).conn
<1>1. c \in Conns /\ queue # <<>>
  BY HeadOfQueue DEF RunClosing, Dequeue
<1>2. FaultOfClose(c) \in {"none", "terminate", "use after free"}
  BY DEF FaultOfClose
<1>3. Closes({c})
  BY <1>1, <1>2 DEF Closes, RunClosing, Dequeue, FaultOfClose
<1> QED
  BY <1>1, <1>3

\* A tick closes the connections whose idle time is over.
LEMMA TickSteps ==
  ASSUME TypeInv, Tick, UNCHANGED acceptorVars
  PROVE  \E cs \in SUBSET Conns : Closes(cs)
<1>1. Expired \in SUBSET Conns
  BY DEF Expired
<1>2. Closes(Expired)
  BY DEF Closes, Tick, Expired
<1> QED
  BY <1>1, <1>2

\* Start and an accept error open the listening socket.
LEMMA OpenSteps ==
  ASSUME TypeInv,
         \/ Start \/ AcceptFails
         \/ \E ev \in batch : ~accepting /\ DispatchListener(ev) /\ ev.kind # "in"
  PROVE  \E f \in Fds : Opens(f)
<1>1. CASE Start
  <2>1. PICK f \in (IF listener = 0 THEN FreeFds ELSE {CreateNonblockingTcpSocket}) :
             OpenListener(f, events)
    BY <1>1 DEF Start
  <2>2. f \in Fds /\ (f = listener \/ f \in FreeFds)
    BY <2>1, FreeFdOnOpen DEF FreeFds
  <2>3. starts \in 0 .. MaxStarts /\ starts' = starts + 1
    BY <1>1 DEF Start, TypeInv, TypeOK
  <2>4. starts' \in 1 .. MaxStarts /\ (userKind # "operator" => starts = 0)
    BY <1>1, <2>3, AcceptorAssumption DEF Start
  <2>5. Opens(f)
    BY <1>1, <2>1, <2>2, <2>4 DEF Opens, Start
  <2> QED
    BY <2>2, <2>5
<1> DEFINE f == CreateNonblockingTcpSocket
<1>2. CASE AcceptFails
  <2>1. listener # 0
    BY <1>2 DEF AcceptFails, TypeInv, UpInv
  <2>2. f \in Fds /\ (f = listener \/ f \in FreeFds)
    BY <2>1, FreeFdOnOpen
  <2>3. Opens(f)
    BY <1>2, <2>1, <2>2 DEF Opens, AcceptFails, AcceptorOnClose
  <2> QED
    BY <2>2, <2>3
<1>3. CASE \E ev \in batch : ~accepting /\ DispatchListener(ev) /\ ev.kind # "in"
  <2>1. PICK ev \in batch : ~accepting /\ DispatchListener(ev) /\ ev.kind # "in"
    BY <1>3
  <2>2. listener # 0
    BY <2>1 DEF DispatchListener, TypeInv, TypeOK, ServerTypeOK, UpInv
  <2>3. f \in Fds /\ (f = listener \/ f \in FreeFds)
    BY <2>2, FreeFdOnOpen
  <2>4. Opens(f)
    BY <2>1, <2>2, <2>3 DEF Opens, DispatchListener, Take, AcceptorOnClose
  <2> QED
    BY <2>3, <2>4
<1> QED
  BY <1>1, <1>2, <1>3

\* Every step is of one of six kinds.
LEMMA StepKinds ==
  ASSUME TypeInv, [Next]_vars
  PROVE  \/ Quiet /\ TypeInv'
         \/ \E cs \in SUBSET Conns : Closes(cs)
         \/ \E f \in Fds : Opens(f)
         \/ \E c \in Conns : Accept(c)
         \/ \E c \in Conns : Arrive(c)
         \/ Stop
<1>1. CASE \/ \E c \in Conns : DropRef(c) /\ UNCHANGED acceptorVars
           \/ \E c \in Conns, what \in {"data", "data+eof", "eof", "err"} :
                  PeerActs(c, what) /\ UNCHANGED acceptorVars
           \/ \E c \in Conns, op \in {"close", "send"} : QueueCall(c, op) /\ UNCHANGED acceptorVars
           \/ EpollWait
           \/ UNCHANGED vars
  BY <1>1, QuietSteps
<1>2. CASE \E ev \in batch : ~accepting /\ DispatchListener(ev)
  BY <1>2, QuietSteps, OpenSteps
<1>3. CASE ~accepting /\ Dispatch /\ UNCHANGED acceptorVars
  <2>1. PICK ev \in batch :
          \/ DispatchNothing(ev)
          \/ \E c \in Conns : \/ DispatchError(ev, c) \/ DispatchRead(ev, c)
                              \/ DispatchReadClosing(ev, c)
                              \/ \E d \in Conns : DispatchReadClosingOther(ev, c, d)
    BY <1>3 DEF Dispatch
  <2>2. CASE DispatchNothing(ev)
    BY <1>3, <2>2, QuietSteps
  <2>3. CASE \E c \in Conns : DispatchError(ev, c) \/ DispatchRead(ev, c) \/ DispatchReadClosing(ev, c)
    <3>1. PICK c \in Conns : DispatchError(ev, c) \/ DispatchRead(ev, c) \/ DispatchReadClosing(ev, c)
      BY <2>3
    <3>2. (Quiet /\ TypeInv') \/ Closes({c})
      BY <1>3, <3>1, DispatchSteps
    <3> QED
      BY <3>2
  <2>4. CASE \E c, d \in Conns : DispatchReadClosingOther(ev, c, d)
    <3>1. PICK d \in Conns : Closes({d})
      BY <1>3, <2>4, DispatchOtherSteps
    <3> QED
      BY <3>1
  <2> QED
    BY <2>1, <2>2, <2>3, <2>4
<1>4. CASE (\E c \in Conns : Accept(c)) \/ AcceptEnds \/ AcceptFails
  BY <1>4, QuietSteps, OpenSteps
<1>5. CASE RunFunctions
  <2>1. CASE RunClosing /\ UNCHANGED acceptorVars
    <3>1. PICK c \in Conns : Closes({c})
      BY <2>1, RunClosingSteps
    <3> QED
      BY <3>1
  <2>2. CASE (RunOnDead \/ RunWithoutEffect) /\ UNCHANGED acceptorVars
    BY <2>2, QuietSteps
  <2> QED
    BY <1>5, <2>1, <2>2 DEF RunFunctions, RunQueued
<1>6. CASE ~accepting /\ Tick /\ UNCHANGED acceptorVars
  BY <1>6, TickSteps
<1>7. CASE Start
  BY <1>7, OpenSteps
<1> QED
  BY <1>1, <1>2, <1>3, <1>4, <1>5, <1>6, <1>7 DEF Next, DispatchNext, Accepting

\* Every step keeps the types.
LEMMA TypeStep ==
  ASSUME TypeInv, [Next]_vars
  PROVE  TypeInv'
<1>1. CASE \E cs \in SUBSET Conns : Closes(cs)
  <2>1. PICK cs \in SUBSET Conns : Closes(cs)
    BY <1>1
  <2>2. queue' \in Seq(Calls)
    BY <2>1, HeadOfQueue DEF Closes, TypeInv, TypeOK, ServerTypeOK, Calls
  <2>3. timer' \in [Conns -> 0 .. MaxIdle]
    <3>1. timer \in [Conns -> 0 .. MaxIdle] /\ MaxIdle \in Nat
      BY ServerAssumption DEF TypeInv, TypeOK, ServerTypeOK
    <3>2. \A c \in Conns : (IF timer[c] > 0 THEN timer[c] - 1 ELSE 0) \in 0 .. MaxIdle
      BY <3>1
    <3>3. \/ timer' = timer
          \/ timer' = [c \in Conns |-> IF timer[c] > 0 THEN timer[c] - 1 ELSE 0]
      BY <2>1 DEF Closes
    <3> QED
      BY <3>1, <3>2, <3>3
  <2>4. batch' \subseteq batch /\ misfired' \subseteq Conns
    BY <2>1 DEF Closes, TypeInv, TypeOK, ServerTypeOK
  <2> QED
    BY <2>1, <2>2, <2>3, <2>4, ClosingTypes DEF Closes
<1>2. CASE \E f \in Fds : Opens(f)
  <2>1. PICK f \in Fds : Opens(f)
    BY <1>2
  <2>2. /\ events \in [Fds -> Conns \cup {Listener, None}]
        /\ starts \in 0 .. MaxStarts /\ service \in {"new", "started", "stopped"}
        /\ restarted \in BOOLEAN /\ accepting \in BOOLEAN
    BY Zenon DEF TypeInv, TypeOK, ServerTypeOK
  <2>3. /\ OpenListener(f, events) \/ OpenListener(f, WithoutListener)
        /\ batch' \subseteq batch /\ service' \in {"new", "started", "stopped"}
        /\ accepting' \in BOOLEAN
    BY <2>1, <2>2 DEF Opens
  <2>4. starts' \in 0 .. MaxStarts /\ starts' # 0
    BY <2>1, <2>2 DEF Opens, TypeInv, UpInv
  <2>5. restarted' \in BOOLEAN /\ (restarted' => userKind = "operator")
    <3>1. (\E g \in Fds : events[g] = Listener) => starts # 0
      BY DEF TypeInv, UpInv
    <3>2. restarted => userKind = "operator"
      BY DEF TypeInv, UpInv
    <3>3. \/ restarted' = restarted
          \/ /\ restarted' = (restarted \/ \E g \in Fds : events[g] = Listener)
             /\ userKind # "operator" => starts = 0
      BY <2>1 DEF Opens
    <3>4. restarted' \in BOOLEAN
      BY <2>2, <3>3, Zenon
    <3>5. restarted' => userKind = "operator"
      BY <3>1, <3>2, <3>3, Zenon
    <3> QED
      BY <3>4, <3>5
  <2> QED
    BY <2>1, <2>2, <2>3, <2>4, <2>5, WithoutListenerTypes, OpeningTypes DEF Opens
<1> QED
  BY <1>1, <1>2, StepKinds, AcceptTypes, ArriveTypes, StopTypes

\* The variables keep their types; a connection that is open has a descriptor.
THEOREM TypeCorrect == Spec => []TypeInv
<1>1. TypeInv /\ [Next]_vars => TypeInv'
  BY TypeStep
<1> QED
  BY InitTypes, <1>1, PTL DEF Spec

-----------------------------------------------------------------------------
(* The life of a connection.                                                *)

\* What closing cs makes of the connections and of events_.
LEMMA CloseFacts ==
  ASSUME TypeInv, NEW cs \in SUBSET Conns, Closes(cs)
  PROVE  /\ \A c \in cs : Open(c) /\ phase'[c] = "closed" /\ destroyed'[c] = destroyed[c] + 1
         /\ \A c \in Conns \ cs : /\ phase'[c] = phase[c] /\ destroyed'[c] = destroyed[c]
                                  /\ fdOf'[c] = fdOf[c]
         /\ \A c \in Conns : Open(c)' <=> Open(c) /\ c \notin cs
         /\ \A f \in Fds : events'[f] = IF \E c \in cs : fdOf[c] = f THEN None ELSE events[f]
         /\ connections' = connections \ cs
         /\ UNCHANGED <<userKind, user, listener, service, restarted, polled, edge, accepting>>
BY DEF Closes, OnClose, OnConnectionClose, DelEvent, Open, acceptorVars

\* What opening a socket makes of them.
LEMMA OpenFacts ==
  ASSUME TypeInv, NEW f \in Fds, Opens(f)
  PROVE  /\ \A c \in Conns : phase'[c] = IF phase[c] = "pending" THEN "refused" ELSE phase[c]
         /\ \A c \in Conns : Open(c)' <=> Open(c)
         /\ Pending' = {}
         /\ listener' = f
         /\ UNCHANGED <<userKind, fdOf, connections, user, queue, timer, destroyed, misfired,
                        fault>>
<1>1. /\ \A c \in Conns : phase'[c] = IF phase[c] = "pending" THEN "refused" ELSE phase[c]
      /\ listener' = f
  BY DEF Opens, OpenListener, Pending
<1>2. Pending' = {}
  BY <1>1 DEF Pending
<1> QED
  BY <1>1, <1>2 DEF Opens, Open

\* What accepting c makes of them.
LEMMA AcceptFacts ==
  ASSUME TypeInv, NEW c \in Conns, Accept(c)
  PROVE  LET f == Min(FreeFds) IN
         /\ f \in Fds /\ f # listener /\ \A d \in Conns : Open(d) => fdOf[d] # f
         /\ ~Open(c) /\ phase[c] # "closed" /\ phase'[c] = "open" /\ fdOf'[c] = f
         /\ timer'[c] = MaxIdle
         /\ \A d \in Conns \ {c} : /\ phase'[d] = phase[d] /\ fdOf'[d] = fdOf[d]
                                   /\ timer'[d] = timer[d]
         /\ \A d \in Conns : Open(d)' <=> Open(d) \/ d = c
         /\ events' = IF events[f] = None THEN [events EXCEPT ![f] = c] ELSE events
         /\ connections' = connections \cup {c}
         /\ accepting
         /\ UNCHANGED <<userKind, queue, batch, destroyed, misfired, listener, fault, service,
                        restarted, polled, edge, accepting>>
<1> DEFINE f == Min(FreeFds)
<1>1. f \in Fds /\ f # listener /\ \A d \in Conns : Open(d) => fdOf[d] # f
  BY FreeFd DEF Accept, OnAccept
<1>2. /\ phase \in [Conns -> {"new", "pending", "refused", "open", "closed"}]
      /\ DOMAIN fdOf = Conns /\ DOMAIN timer = Conns
  BY DEF TypeInv, TypeOK, ServerTypeOK
<1>3. /\ phase[c] = "pending" /\ phase' = [phase EXCEPT ![c] = "open"]
      /\ fdOf' = [fdOf EXCEPT ![c] = f]
      /\ timer' = [timer EXCEPT ![c] = MaxIdle]
      /\ events' = IF events[f] = None THEN [events EXCEPT ![f] = c] ELSE events
  BY DEF Accept, OnAccept, AddEvent
<1> HIDE DEF f
<1>4. /\ phase'[c] = "open" /\ fdOf'[c] = f /\ timer'[c] = MaxIdle
      /\ \A d \in Conns \ {c} : /\ phase'[d] = phase[d] /\ fdOf'[d] = fdOf[d]
                                /\ timer'[d] = timer[d]
  BY <1>2, <1>3
<1>5. ~Open(c) /\ \A d \in Conns : Open(d)' <=> Open(d) \/ d = c
  BY <1>3, <1>4 DEF Open
<1>6. /\ connections' = connections \cup {c} /\ accepting
      /\ UNCHANGED <<userKind, queue, batch, destroyed, misfired, listener, fault, service,
                     restarted, polled, edge, accepting>>
  BY DEF Accept, OnAccept, acceptorVars
<1> QED
  BY <1>1, <1>3, <1>4, <1>5, <1>6 DEF f

\* What a client that connects changes.
LEMMA ArriveFacts ==
  ASSUME TypeInv, NEW c \in Conns, Arrive(c)
  PROVE  /\ phase[c] = "new" /\ phase'[c] = "pending"
         /\ \A d \in Conns \ {c} : phase'[d] = phase[d]
         /\ \A d \in Conns : Open(d)' <=> Open(d)
         /\ UNCHANGED <<userKind, fdOf, connections, events, user, batch, queue, timer, destroyed,
                        misfired, listener, fault, service, restarted, polled, accepting>>
         /\ edge' = polled
BY DEF Arrive, TypeInv, TypeOK, ServerTypeOK, Open

\* Every step keeps the count of destructions.
LEMMA OnceStep ==
  ASSUME TypeInv, OnceInv, [Next]_vars
  PROVE  OnceInv'
<1>1. CASE Quiet
  BY <1>1 DEF Quiet, Registers, OnceInv
<1>2. ASSUME NEW cs \in SUBSET Conns, Closes(cs) PROVE OnceInv'
  BY <1>2, CloseFacts DEF OnceInv, Open
<1>3. ASSUME NEW f \in Fds, Opens(f) PROVE OnceInv'
  BY <1>3, OpenFacts DEF OnceInv
<1>4. ASSUME NEW c \in Conns, Accept(c) PROVE OnceInv'
  BY <1>4, AcceptFacts DEF OnceInv
<1>5. ASSUME NEW c \in Conns, Arrive(c) PROVE OnceInv'
  BY <1>5, ArriveFacts DEF OnceInv
<1>6. CASE Stop
  BY <1>6 DEF Stop, OnceInv
<1> QED
  BY <1>1, <1>2, <1>3, <1>4, <1>5, <1>6, StepKinds

\* Every step keeps the timeouts armed.
LEMMA ArmedStep ==
  ASSUME TypeInv, ArmedInv, [Next]_vars
  PROVE  ArmedInv'
<1>1. CASE Quiet
  BY <1>1 DEF Quiet, Registers, ArmedInv, Open
<1>2. ASSUME NEW cs \in SUBSET Conns, Closes(cs) PROVE ArmedInv'
  <2>1. \A c \in Conns : Open(c)' => Open(c) /\ c \notin cs /\ timer[c] > 0 /\ timer[c] \in Nat
    <3>1. timer \in [Conns -> 0 .. MaxIdle] /\ MaxIdle \in Nat
      BY ServerAssumption DEF TypeInv, TypeOK, ServerTypeOK
    <3>2. \A c \in Conns : timer[c] \in Nat
      BY <3>1
    <3> QED
      BY <1>2, <3>2, CloseFacts DEF ArmedInv
  <2>2. CASE timer' = timer
    BY <2>1, <2>2 DEF ArmedInv
  <2>3. CASE /\ cs = Expired
             /\ timer' = [c \in Conns |-> IF timer[c] > 0 THEN timer[c] - 1 ELSE 0]
    BY <2>1, <2>3 DEF ArmedInv, Expired
  <2> QED
    BY <1>2, <2>2, <2>3 DEF Closes
<1>3. ASSUME NEW f \in Fds, Opens(f) PROVE ArmedInv'
  BY <1>3, OpenFacts DEF ArmedInv
<1>4. ASSUME NEW c \in Conns, Accept(c) PROVE ArmedInv'
  BY <1>4, AcceptFacts, ServerAssumption DEF ArmedInv
<1>5. ASSUME NEW c \in Conns, Arrive(c) PROVE ArmedInv'
  BY <1>5, ArriveFacts DEF ArmedInv
<1>6. CASE Stop
  BY <1>6 DEF Stop, ArmedInv, Open
<1> QED
  BY <1>1, <1>2, <1>3, <1>4, <1>5, <1>6, StepKinds

\* A careful user holds what is open or queued, so that nothing is destroyed too early.
LEMMA HeldStep ==
  ASSUME TypeInv, HeldInv, [Next]_vars
  PROVE  HeldInv'
<1>0. Careful' <=> Careful
  <2>1. userKind' = userKind
    BY StepKinds DEF Quiet, Registers, Closes, Opens, Accept, OnAccept, Arrive, Stop
  <2> QED
    BY <2>1 DEF Careful
<1> SUFFICES ASSUME Careful
             PROVE  /\ fault' = "none" /\ \A c \in Conns : Open(c)' => c \in user'
                    /\ \A i \in DOMAIN queue' : queue'[i].conn \in user'
  BY <1>0 DEF HeldInv
<1>h. /\ fault = "none" /\ \A c \in Conns : Open(c) => c \in user
      /\ \A i \in DOMAIN queue : queue[i].conn \in user
  BY DEF HeldInv
<1>1. CASE Quiet
  <2>1. \A c \in Conns : Open(c)' <=> Open(c)
    BY <1>1 DEF Quiet, Registers, Open
  <2>2. ASSUME NEW c \in Conns, DropRef(c) PROVE HeldInv'
    BY <1>h, <2>1, <2>2 DEF DropRef, HeldInv, Open
  <2>3. ASSUME NEW c \in Conns, NEW op \in {"close", "send"}, QueueCall(c, op) PROVE HeldInv'
    <3>1. queue \in Seq(Calls) /\ [op |-> op, conn |-> c] \in Calls
      BY DEF TypeInv, TypeOK, ServerTypeOK, Calls
    <3>2. \A i \in DOMAIN queue' : queue'[i].conn \in user
      BY <1>h, <2>3, <3>1 DEF QueueCall
    <3> QED
      BY <1>h, <2>1, <2>3, <3>2 DEF QueueCall, HeldInv
  <2>4. CASE RunOnDead
    BY <1>h, <2>4, HeadOfQueue DEF RunOnDead, Dequeue, Alive
  <2>5. CASE RunWithoutEffect
    <3>1. \A i \in DOMAIN queue' : queue'[i].conn \in user
      BY <1>h, <2>5, HeadOfQueue DEF RunWithoutEffect, Dequeue
    <3> QED
      BY <1>h, <2>1, <2>5, <3>1 DEF RunWithoutEffect, Dequeue, HeldInv
  <2>6. CASE UNCHANGED <<user, queue, fault>>
    BY <1>h, <2>1, <2>6 DEF HeldInv
  <2> QED
    BY <1>0, <1>1, <2>2, <2>3, <2>4, <2>5, <2>6
       DEF Quiet, HeldInv, EpollWait, AcceptEnds, serverVars, DispatchListener
<1>2. ASSUME NEW cs \in SUBSET Conns, Closes(cs) PROVE HeldInv'
  <2>1. cs \subseteq user /\ user' = user
    BY <1>h, <1>2, CloseFacts
  <2>2. \A i \in DOMAIN queue' : queue'[i].conn \in user
    BY <1>h, <1>2, HeadOfQueue DEF Closes
  <2> QED
    BY <1>h, <1>2, <2>1, <2>2, CloseFacts DEF HeldInv, Closes
<1>3. ASSUME NEW f \in Fds, Opens(f) PROVE HeldInv'
  BY <1>h, <1>3, OpenFacts DEF HeldInv
<1>4. ASSUME NEW c \in Conns, Accept(c) PROVE HeldInv'
  <2>1. user' = user \cup {c}
    BY <1>4 DEF Accept, OnAccept
  <2> QED
    BY <1>h, <1>4, <2>1, AcceptFacts DEF HeldInv
<1>5. ASSUME NEW c \in Conns, Arrive(c) PROVE HeldInv'
  BY <1>h, <1>5, ArriveFacts DEF HeldInv
<1>6. CASE Stop
  BY <1>h, <1>6 DEF Stop, HeldInv, Open
<1> QED
  BY <1>0, <1>1, <1>2, <1>3, <1>4, <1>5, <1>6, StepKinds DEF HeldInv

-----------------------------------------------------------------------------
(* Descriptors and events_.                                                 *)

\* Every step keeps the descriptors apart.
LEMMA FdStep ==
  ASSUME TypeInv, FdInv, [Next]_vars
  PROVE  FdInv'
<1>0. \A c \in Conns : Open(c) => fdOf[c] \in Fds
  BY DEF TypeInv, UpInv
<1>e. events \in [Fds -> Conns \cup {Listener, None}]
  BY DEF TypeInv, TypeOK, ServerTypeOK
<1>1. CASE Quiet
  BY <1>1 DEF Quiet, Registers, FdInv, Open
<1>2. ASSUME NEW cs \in SUBSET Conns, Closes(cs) PROVE FdInv'
  <2>1. connections' = {c \in Conns : Open(c)'}
    BY <1>2, CloseFacts DEF FdInv
  <2>2. \A c \in Conns : Open(c)' => fdOf'[c] # listener'
    BY <1>2, CloseFacts DEF FdInv
  <2>3. \A c, d \in Conns : Open(c)' /\ Open(d)' /\ fdOf'[c] = fdOf'[d] => c = d
    BY <1>2, CloseFacts DEF FdInv
  <2>4. ASSUME NEW f \in Fds, events'[f] \in Conns PROVE Open(events[f])' /\ fdOf'[events'[f]] = f
    <3>1. events'[f] = events[f] /\ ~(\E c \in cs : fdOf[c] = f)
      BY <1>2, <2>4, CloseFacts, ServerAssumption
    <3>2. Open(events[f]) /\ fdOf[events[f]] = f /\ events[f] \notin cs
      BY <2>4, <3>1 DEF FdInv
    <3> QED
      BY <1>2, <2>4, <3>1, <3>2, CloseFacts DEF Open
  <2> QED
    BY <1>2, <2>1, <2>2, <2>3, <2>4, CloseFacts DEF FdInv, Open
<1>3. ASSUME NEW f \in Fds, Opens(f) PROVE FdInv'
  <2>1. connections' = {c \in Conns : Open(c)'}
    BY <1>3, OpenFacts DEF FdInv
  <2>2. \A c \in Conns : Open(c)' => fdOf'[c] # listener'
    BY <1>3, OpenFacts DEF FdInv, Opens, FreeFds, Usable
  <2>3. \A c, d \in Conns : Open(c)' /\ Open(d)' /\ fdOf'[c] = fdOf'[d] => c = d
    BY <1>3, OpenFacts DEF FdInv
  <2>4. \A g \in Fds : events'[g] \in Conns => events'[g] = events[g]
    BY <1>3, <1>e, ServerAssumption DEF Opens, OpenListener, WithoutListener
  <2> QED
    BY <1>3, <2>1, <2>2, <2>3, <2>4, OpenFacts DEF FdInv, Open
<1>4. ASSUME NEW c \in Conns, Accept(c) PROVE FdInv'
  <2> DEFINE f == Min(FreeFds)
  <2>1. /\ f \in Fds /\ f # listener /\ \A d \in Conns : Open(d) => fdOf[d] # f
        /\ ~Open(c) /\ phase'[c] = "open" /\ fdOf'[c] = f
        /\ \A d \in Conns \ {c} : phase'[d] = phase[d] /\ fdOf'[d] = fdOf[d]
        /\ \A d \in Conns : Open(d)' <=> Open(d) \/ d = c
        /\ events' = IF events[f] = None THEN [events EXCEPT ![f] = c] ELSE events
        /\ connections' = connections \cup {c}
        /\ listener' = listener
    BY <1>4, AcceptFacts
  <2> HIDE DEF f
  <2>2. connections' = {d \in Conns : Open(d)'}
    BY <2>1 DEF FdInv
  <2>3. \A d \in Conns : Open(d)' => fdOf'[d] # listener'
    BY <2>1 DEF FdInv
  <2>4. \A d, e \in Conns : Open(d)' /\ Open(e)' /\ fdOf'[d] = fdOf'[e] => d = e
    BY <2>1 DEF FdInv
  <2>5. ASSUME NEW g \in Fds, events'[g] \in Conns PROVE Open(events[g])' /\ fdOf'[events'[g]] = g
    <3>1. events'[g] = events[g] \/ (g = f /\ events'[g] = c)
      BY <1>e, <2>1
    <3>2. CASE events'[g] = events[g]
      BY <2>1, <2>5, <3>2 DEF FdInv, Open
    <3>3. CASE g = f /\ events'[g] = c
      BY <2>1, <3>3 DEF Open
    <3> QED
      BY <3>1, <3>2, <3>3
  <2> QED
    BY <2>2, <2>3, <2>4, <2>5 DEF FdInv, Open
<1>5. ASSUME NEW c \in Conns, Arrive(c) PROVE FdInv'
  BY <1>5, ArriveFacts DEF FdInv, Open
<1>6. CASE Stop
  BY <1>6, <1>e, ServerAssumption DEF Stop, WithoutListener, FdInv, Open
<1> QED
  BY <1>1, <1>2, <1>3, <1>4, <1>5, <1>6, StepKinds

\* A descriptor that is free leads to nothing in events_.
LEMMA FreeLeadsNowhere ==
  ASSUME TypeInv, FdInv, RegInv, ~restarted, NEW f \in Fds, f # listener,
         \A c \in Conns : Open(c) => fdOf[c] # f
  PROVE  events[f] = None
<1>1. events[f] \in Conns \cup {Listener, None}
  BY DEF TypeInv, TypeOK, ServerTypeOK
<1>2. events[f] # Listener
  BY DEF RegInv
<1>3. events[f] \notin Conns
  BY DEF FdInv
<1> QED
  BY <1>1, <1>2, <1>3

\* Every step keeps the registrations.
LEMMA RegStep ==
  ASSUME TypeInv, FdInv, RegInv, [Next]_vars
  PROVE  RegInv'
<1>0. \A c \in Conns : Open(c) => fdOf[c] \in Fds /\ fdOf[c] # listener
  BY DEF TypeInv, UpInv, FdInv
<1>e. /\ events \in [Fds -> Conns \cup {Listener, None}]
      /\ listener \in Fds \cup {0} /\ 0 \notin Fds
  BY ServerAssumption DEF TypeInv, TypeOK, ServerTypeOK
<1>u. (\A f \in Fds : events[f] = Listener => listener # 0) /\ (service # "new" => listener # 0)
  BY DEF TypeInv, UpInv
<1>1. CASE Quiet
  BY <1>1 DEF Quiet, Registers, RegInv, Open
<1>2. ASSUME NEW cs \in SUBSET Conns, Closes(cs), ~restarted' PROVE RegInv'
  <2>1. ~restarted /\ service' = service /\ listener' = listener /\ polled' = polled
    BY <1>2, CloseFacts
  <2>e. \A f \in Fds : ~(\E d \in cs : fdOf[d] = f) => events'[f] = events[f]
    BY <1>2, CloseFacts
  <2>2. ASSUME NEW c \in Conns, Open(c)' PROVE events'[fdOf'[c]] = c
    <3>1. Open(c) /\ c \notin cs /\ fdOf'[c] = fdOf[c] /\ fdOf[c] \in Fds /\ events[fdOf[c]] = c
      BY <1>0, <1>2, <2>1, <2>2, CloseFacts DEF RegInv
    <3>2. ~(\E d \in cs : fdOf[d] = fdOf[c])
      BY <1>2, <3>1, CloseFacts DEF FdInv
    <3> QED
      BY <2>e, <3>1, <3>2
  <2>3. \A f \in Fds : events'[f] = Listener => f = listener'
    BY <1>2, <2>1, CloseFacts, ServerAssumption DEF RegInv
  <2>4. service' = "started" => events'[listener'] = Listener /\ polled'
    <3> SUFFICES ASSUME service = "started" PROVE events'[listener] = Listener /\ polled
      BY <2>1
    <3>1. listener \in Fds /\ events[listener] = Listener /\ polled
      BY <1>e, <1>u, <2>1 DEF RegInv
    <3>2. ~(\E d \in cs : fdOf[d] = listener)
      BY <1>0, <1>2, CloseFacts
    <3> QED
      BY <2>e, <3>1, <3>2
  <2> QED
    BY <2>2, <2>3, <2>4 DEF RegInv, Open
<1>3. ASSUME NEW f \in Fds, Opens(f), ~restarted' PROVE RegInv'
  <2>1. PICK evs \in {events, WithoutListener} :
          /\ OpenListener(f, evs) /\ evs \in [Fds -> Conns \cup {Listener, None}]
          /\ \A g \in Fds : evs[g] # Listener
          /\ \A g \in Fds : evs[g] # events[g] => g = listener /\ evs[g] = None
          /\ ~restarted
    <3>1. CASE OpenListener(f, events) /\ restarted' = (restarted \/ \E g \in Fds : events[g] = Listener)
      BY <1>3, <1>e, <3>1
    <3>2. CASE OpenListener(f, WithoutListener) /\ restarted' = restarted
      BY <1>3, <1>e, <3>2, WithoutListenerTypes, ServerAssumption DEF WithoutListener, RegInv
    <3> QED
      BY <1>3, <3>1, <3>2 DEF Opens
  <2>2. evs[f] = None
    <3>1. CASE f = listener
      <4>1. events[f] \notin Conns
        BY <1>0, <3>1 DEF FdInv
      <4> QED
        BY <2>1, <3>1, <4>1
    <3>2. CASE f # listener
      <4>1. events[f] = None
        BY <1>3, <2>1, <3>2, FreeLeadsNowhere DEF Opens, FreeFds, Usable
      <4> QED
        BY <2>1, <3>2, <4>1
    <3> QED
      BY <3>1, <3>2
  <2>3. listener' = f /\ events' = [evs EXCEPT ![f] = Listener] /\ polled'
    BY <2>1, <2>2 DEF OpenListener
  <2>4. ASSUME NEW c \in Conns, Open(c)' PROVE events'[fdOf'[c]] = c
    <3>1. Open(c) /\ fdOf'[c] = fdOf[c] /\ fdOf[c] \in Fds /\ fdOf[c] # f /\ fdOf[c] # listener
      BY <1>0, <1>3, <2>4, OpenFacts DEF Opens, FreeFds, Usable
    <3>2. events[fdOf[c]] = c
      BY <2>1, <3>1 DEF RegInv
    <3> QED
      BY <2>1, <2>3, <3>1, <3>2
  <2>5. \A g \in Fds : events'[g] = Listener => g = listener'
    BY <2>1, <2>3
  <2>6. events'[listener'] = Listener
    BY <2>1, <2>3
  <2> QED
    BY <2>3, <2>4, <2>5, <2>6 DEF RegInv, Open
<1>4. ASSUME NEW c \in Conns, Accept(c), ~restarted' PROVE RegInv'
  <2> DEFINE f == Min(FreeFds)
  <2>1. /\ f \in Fds /\ f # listener /\ \A d \in Conns : Open(d) => fdOf[d] # f
        /\ fdOf'[c] = f
        /\ \A d \in Conns \ {c} : fdOf'[d] = fdOf[d]
        /\ \A d \in Conns : Open(d)' <=> Open(d) \/ d = c
        /\ events' = IF events[f] = None THEN [events EXCEPT ![f] = c] ELSE events
        /\ UNCHANGED <<listener, service, restarted, polled>>
    BY <1>4, AcceptFacts
  <2> HIDE DEF f
  <2>2. events[f] = None
    BY <1>4, <2>1, FreeLeadsNowhere
  <2>3. events' = [events EXCEPT ![f] = c] /\ ~restarted
    BY <1>4, <2>1, <2>2
  <2>4. \A d \in Conns : Open(d)' => events'[fdOf'[d]] = d
    BY <1>0, <1>e, <2>1, <2>3 DEF RegInv
  <2>5. \A g \in Fds : events'[g] = Listener => g = listener'
    BY <1>e, <2>1, <2>3, ServerAssumption DEF RegInv
  <2>6. service' = "started" => events'[listener'] = Listener /\ polled'
    BY <1>e, <1>u, <2>1, <2>3 DEF RegInv
  <2> QED
    BY <2>4, <2>5, <2>6 DEF RegInv, Open
<1>5. ASSUME NEW c \in Conns, Arrive(c) PROVE RegInv'
  BY <1>5, ArriveFacts DEF RegInv, Open
<1>6. CASE Stop
  BY <1>0, <1>e, <1>6, ServerAssumption DEF Stop, WithoutListener, RegInv, Open
<1> QED
  BY <1>1, <1>2, <1>3, <1>4, <1>5, <1>6, StepKinds DEF RegInv

-----------------------------------------------------------------------------
(* The batch, and the edge of the listening socket.                         *)

\* The parts of an event.
LEMMA EventTypes ==
  ASSUME TypeInv, NEW e \in batch
  PROVE  e.fd \in Fds /\ (e.of \in Conns \/ e.of = Listener) /\ Listener \notin Conns
BY ServerAssumption DEF TypeInv, TypeOK, ServerTypeOK

\* When the listening socket gets an event there is no other event for it.
LEMMA OneForListener ==
  ASSUME TypeInv, RegInv, BatchInv, NEW ev \in batch, events[ev.fd] = Listener
  PROVE  \A e \in batch \ {ev} : e.of # Listener
<1>1. CASE restarted
  <2>1. Careful
    BY <1>1 DEF TypeInv, UpInv, Careful
  <2>2. ev.of = Listener
    BY <2>1, EventTypes DEF BatchInv
  <2> QED
    BY <2>2 DEF BatchInv
<1>2. CASE ~restarted
  <2>1. ev.fd = listener
    BY <1>2, EventTypes DEF RegInv
  <2> QED
    BY <2>1 DEF BatchInv
<1> QED
  BY <1>1, <1>2

\* The events that epoll_wait reports belong to whom they are reported for.
LEMMA EpollWaitBatch ==
  ASSUME TypeInv, FdInv, EpollWait
  PROVE  /\ \A e1, e2 \in batch' : e1.fd = e2.fd => e1 = e2
         /\ \A e \in batch' : e.of = Listener => e.fd = listener /\ e.kind = "in"
         /\ \A e \in batch' : e.of \in Conns => /\ Open(e.of) /\ fdOf[e.of] = e.fd
                                                /\ events[e.fd] = e.of
         /\ edge => \E e \in batch' : e.of = Listener
<1> DEFINE ofConn(c) == [fd |-> fdOf[c], kind |-> IF sock[c] = "err" THEN "err" ELSE "in", of |-> c]
           ofListener == [fd |-> listener, kind |-> "in", of |-> Listener]
<1>1. batch' = {ofConn(c) : c \in Ready} \cup (IF edge THEN {ofListener} ELSE {})
  BY DEF EpollWait
<1>2. \A c \in Ready : c \in Conns /\ Open(c) /\ events[fdOf[c]] = c /\ fdOf[c] # listener
  BY DEF Ready, FdInv
<1>3. \A c, d \in Ready : fdOf[c] = fdOf[d] => c = d
  BY <1>2 DEF FdInv
<1>4. \A c \in Ready : ofConn(c).fd = fdOf[c] /\ ofConn(c).of = c
  OBVIOUS
<1>5. ofListener.fd = listener /\ ofListener.of = Listener /\ ofListener.kind = "in"
  OBVIOUS
<1>6. \A e \in batch' : (\E c \in Ready : e = ofConn(c)) \/ (edge /\ e = ofListener)
  BY <1>1
<1>7. edge => ofListener \in batch'
  BY <1>1
<1> HIDE DEF ofConn, ofListener
<1>8. \A e1, e2 \in batch' : e1.fd = e2.fd => e1 = e2
  BY <1>2, <1>3, <1>4, <1>5, <1>6
<1> QED
  BY <1>2, <1>4, <1>5, <1>6, <1>7, <1>8, ServerAssumption

\* Every step keeps the events of the batch with their owners.
LEMMA BatchStep ==
  ASSUME TypeInv, FdInv, RegInv, BatchInv, [Next]_vars
  PROVE  BatchInv'
<1>0. \A c \in Conns : Open(c) => fdOf[c] \in Fds /\ fdOf[c] # listener
  BY DEF TypeInv, UpInv, FdInv
<1>c. Careful' <=> Careful
  <2>1. userKind' = userKind
    BY StepKinds DEF Quiet, Registers, Closes, Opens, Accept, OnAccept, Arrive, Stop
  <2> QED
    BY <2>1 DEF Careful
<1>1. CASE Quiet
  <2>1. /\ UNCHANGED <<events, fdOf, listener, misfired>>
        /\ \A c \in Conns : Open(c)' <=> Open(c)
    BY <1>1 DEF Quiet, Registers, Open
  <2>2. CASE EpollWait
    <3>1. ~accepting /\ accepting' = accepting
      BY <2>2 DEF EpollWait
    <3> QED
      BY <1>c, <2>1, <2>2, <3>1, EpollWaitBatch DEF BatchInv, ClosesItsOwn, Open
  <2>3. ASSUME NEW ev \in batch, DispatchListener(ev) PROVE BatchInv'
    <3>1. batch' = batch \ {ev} /\ \A e \in batch' : e.of # Listener
      BY <2>3, OneForListener DEF DispatchListener, Take
    <3> QED
      BY <1>c, <2>1, <3>1 DEF BatchInv, ClosesItsOwn, Open
  <2>4. CASE batch' \subseteq batch /\ (accepting' => accepting)
    BY <1>c, <2>1, <2>4 DEF BatchInv, ClosesItsOwn, Open
  <2>5. \/ EpollWait
        \/ \E ev \in batch : DispatchListener(ev)
        \/ batch' \subseteq batch /\ (accepting' => accepting)
    BY <1>1 DEF Quiet, AcceptEnds, serverVars, acceptorVars, DropRef, QueueCall, RunOnDead,
                RunWithoutEffect, Dequeue
  <2> QED
    BY <2>2, <2>3, <2>4, <2>5
<1>2. ASSUME NEW cs \in SUBSET Conns, Closes(cs) PROVE BatchInv'
  <2>1. accepting' = accepting /\ listener' = listener
    BY <1>2, CloseFacts
  <2>2. CASE batch = {} /\ UNCHANGED <<batch, misfired>>
    BY <1>c, <2>1, <2>2 DEF BatchInv, ClosesItsOwn
  <2>3. ASSUME NEW ev \in batch, NEW c \in Conns,
               batch' = batch \ {ev}, events[ev.fd] = c,
               misfired' \in {misfired, misfired \cup {c}},
               ev.of = c => misfired' = misfired,
               Careful => cs = {c}
        PROVE  BatchInv'
    <3>1. Open(c) /\ fdOf[c] = ev.fd /\ ev.fd # listener
      BY <1>0, <2>3, EventTypes DEF FdInv
    <3>2. Careful => ev.of = c
      <4>1. ev.of # Listener
        BY <3>1 DEF BatchInv
      <4> QED
        BY <2>3, <4>1, EventTypes DEF BatchInv
    <3>3. ASSUME Careful, NEW e \in batch', e.of \in Conns
          PROVE  Open(e.of)' /\ fdOf'[e.of] = e.fd /\ events'[e.fd] = e.of
      <4>1. Open(e.of) /\ fdOf[e.of] = e.fd /\ events[e.fd] = e.of /\ e.fd # ev.fd
        BY <2>3, <3>3 DEF BatchInv
      <4>2. e.of \notin cs /\ ~(\E d \in cs : fdOf[d] = e.fd)
        BY <2>3, <3>1, <3>3, <4>1
      <4> QED
        BY <1>2, <2>3, <3>3, <4>1, <4>2, CloseFacts, EventTypes
    <3> QED
      BY <1>c, <2>1, <2>3, <3>2, <3>3 DEF BatchInv, ClosesItsOwn, Open
  <2> QED
    BY <1>2, <2>2, <2>3 DEF Closes
<1>3. ASSUME NEW f \in Fds, Opens(f) PROVE BatchInv'
  <2>1. batch' \subseteq batch /\ \A e \in batch' : e.of # Listener
    <3>1. CASE batch = {} /\ batch' = batch
      BY <3>1
    <3>2. CASE accepting /\ batch' = batch
      BY <3>2 DEF BatchInv
    <3>3. CASE \E ev \in batch : events[ev.fd] = Listener /\ batch' = batch \ {ev}
      BY <3>3, OneForListener
    <3> QED
      BY <1>3, <3>1, <3>2, <3>3 DEF Opens
  <2>2. misfired' = misfired
    BY <1>3, OpenFacts
  <2>3. ASSUME Careful, NEW e \in batch', e.of \in Conns
        PROVE  Open(e.of)' /\ fdOf'[e.of] = e.fd /\ events'[e.fd] = e.of
    <3>1. Open(e.of) /\ fdOf[e.of] = e.fd /\ events[e.fd] = e.of /\ e.fd \in Fds
      BY <2>1, <2>3, EventTypes DEF BatchInv
    <3>2. e.fd # f /\ e.fd # listener
      BY <1>0, <1>3, <2>3, <3>1 DEF Opens, FreeFds, Usable
    <3>3. events'[e.fd] = events[e.fd]
      <4>1. events \in [Fds -> Conns \cup {Listener, None}]
        BY DEF TypeInv, TypeOK, ServerTypeOK
      <4>2. WithoutListener[e.fd] = events[e.fd]
        BY <3>1, <3>2 DEF WithoutListener
      <4>3. PICK evs \in [Fds -> Conns \cup {Listener, None}] :
                 OpenListener(f, evs) /\ evs[e.fd] = events[e.fd]
        BY <1>3, <4>1, <4>2, WithoutListenerTypes DEF Opens
      <4> QED
        BY <3>1, <3>2, <4>3 DEF OpenListener
    <3> QED
      BY <1>3, <2>3, <3>1, <3>3, OpenFacts
  <2> QED
    BY <1>c, <2>1, <2>2, <2>3 DEF BatchInv, ClosesItsOwn, Open
<1>4. ASSUME NEW c \in Conns, Accept(c) PROVE BatchInv'
  <2> DEFINE f == Min(FreeFds)
  <2>1. /\ f \in Fds /\ \A d \in Conns : Open(d) => fdOf[d] # f
        /\ ~Open(c)
        /\ \A d \in Conns \ {c} : fdOf'[d] = fdOf[d]
        /\ \A d \in Conns : Open(d)' <=> Open(d) \/ d = c
        /\ events' = IF events[f] = None THEN [events EXCEPT ![f] = c] ELSE events
        /\ UNCHANGED <<listener, batch, misfired, accepting>>
    BY <1>4, AcceptFacts
  <2> HIDE DEF f
  <2>2. ASSUME Careful, NEW e \in batch, e.of \in Conns
        PROVE  Open(e.of)' /\ fdOf'[e.of] = e.fd /\ events'[e.fd] = e.of
    <3>1. Open(e.of) /\ fdOf[e.of] = e.fd /\ events[e.fd] = e.of /\ e.fd \in Fds
      BY <2>2, EventTypes DEF BatchInv
    <3> QED
      BY <2>1, <2>2, <3>1 DEF TypeInv, TypeOK, ServerTypeOK
  <2> QED
    BY <1>c, <2>1, <2>2 DEF BatchInv, ClosesItsOwn, Open
<1>5. ASSUME NEW c \in Conns, Arrive(c) PROVE BatchInv'
  BY <1>c, <1>5, ArriveFacts DEF BatchInv, ClosesItsOwn, Open
<1>6. CASE Stop
  <2>1. ASSUME Careful, NEW e \in batch, e.of \in Conns
        PROVE  Open(e.of)' /\ fdOf'[e.of] = e.fd /\ events'[e.fd] = e.of
    <3>1. Open(e.of) /\ fdOf[e.of] = e.fd /\ events[e.fd] = e.of /\ e.fd \in Fds
      BY <2>1, EventTypes DEF BatchInv
    <3> QED
      BY <1>0, <1>6, <2>1, <3>1 DEF Stop, WithoutListener, Open
  <2> QED
    BY <1>c, <1>6, <2>1 DEF Stop, BatchInv, ClosesItsOwn, Open
<1> QED
  BY <1>1, <1>2, <1>3, <1>4, <1>5, <1>6, StepKinds

\* Every step keeps the edge of the listening socket.
LEMMA HearStep ==
  ASSUME TypeInv, FdInv, RegInv, BatchInv, HearInv, [Next]_vars
  PROVE  HearInv'
<1> DEFINE Heard == edge \/ accepting \/ \E e \in batch : e.of = Listener
<1>1. CASE Quiet
  <2> SUFFICES ASSUME ~restarted', service' = "started", Pending' # {}
               PROVE  Heard'
    BY DEF HearInv
  <2>1. ~restarted /\ service = "started" /\ Pending # {} /\ Heard
    BY <1>1 DEF Quiet, Registers, Pending, HearInv
  <2>2. CASE EpollWait
    BY <2>1, <2>2, EpollWaitBatch DEF EpollWait
  <2>3. CASE AcceptEnds
    BY <2>1, <2>3 DEF AcceptEnds
  <2>4. CASE \E ev \in batch : DispatchListener(ev) /\ ev.kind = "in"
    BY <2>4 DEF DispatchListener
  <2>5. ASSUME NEW ev \in batch, batch' = batch \ {ev}, events[ev.fd] # Listener,
               UNCHANGED <<edge, accepting>>
        PROVE  Heard'
    <3>1. ev.of # Listener
      BY <2>1, <2>5 DEF BatchInv, RegInv
    <3> QED
      BY <2>1, <2>5, <3>1
  <2>6. CASE UNCHANGED <<batch, edge, accepting>>
    BY <2>1, <2>6
  <2>7. \/ EpollWait \/ AcceptEnds
        \/ \E ev \in batch : DispatchListener(ev) /\ ev.kind = "in"
        \/ \E ev \in batch : /\ batch' = batch \ {ev} /\ events[ev.fd] # Listener
                             /\ UNCHANGED <<edge, accepting>>
        \/ UNCHANGED <<batch, edge, accepting>>
    BY <1>1 DEF Quiet, acceptorVars, DropRef, QueueCall, RunOnDead, RunWithoutEffect, Dequeue
  <2> QED
    BY <2>2, <2>3, <2>4, <2>5, <2>6, <2>7
<1>2. ASSUME NEW cs \in SUBSET Conns, Closes(cs) PROVE HearInv'
  <2> SUFFICES ASSUME ~restarted', service' = "started", Pending' # {}
               PROVE  Heard'
    BY DEF HearInv
  <2>1. Pending' = Pending
    BY <1>2, CloseFacts DEF Pending, Open
  <2>2. ~restarted /\ service = "started" /\ Heard /\ UNCHANGED <<edge, accepting>>
    BY <1>2, <2>1, CloseFacts DEF HearInv
  <2>3. ASSUME NEW ev \in batch, batch' = batch \ {ev}, events[ev.fd] \in Conns
        PROVE  Heard'
    <3>1. ev.of # Listener
      BY <2>2, <2>3, ServerAssumption DEF BatchInv, RegInv
    <3> QED
      BY <2>2, <2>3, <3>1
  <2> QED
    BY <1>2, <2>2, <2>3 DEF Closes
<1>3. ASSUME NEW f \in Fds, Opens(f) PROVE HearInv'
  BY <1>3, OpenFacts DEF HearInv
<1>4. ASSUME NEW c \in Conns, Accept(c) PROVE HearInv'
  BY <1>4, AcceptFacts DEF HearInv
<1>5. ASSUME NEW c \in Conns, Arrive(c) PROVE HearInv'
  BY <1>5, ArriveFacts DEF HearInv, RegInv
<1>6. CASE Stop
  BY <1>6 DEF Stop, HearInv
<1> QED
  BY <1>1, <1>2, <1>3, <1>4, <1>5, <1>6, StepKinds

-----------------------------------------------------------------------------
(* The theorems.                                                            *)

\* The layers together are an invariant.
THEOREM Invariance == Spec => []IInv
<1>1. Init => IInv
  <2> SUFFICES ASSUME Init PROVE IInv
    OBVIOUS
  <2>1. TypeInv
    BY InitTypes
  <2>2. LifeInv
    BY DEF Init, ServerInit, LifeInv, OnceInv, ArmedInv, HeldInv, Open
  <2>3. FdInv /\ RegInv
    BY ServerAssumption DEF Init, ServerInit, FdInv, RegInv, Open
  <2>4. BatchInv /\ HearInv
    BY DEF Init, ServerInit, BatchInv, HearInv, ClosesItsOwn
  <2> QED
    BY <2>1, <2>2, <2>3, <2>4 DEF IInv
<1>2. IInv /\ [Next]_vars => IInv'
  BY TypeStep, OnceStep, ArmedStep, HeldStep, FdStep, RegStep, BatchStep, HearStep
     DEF IInv, LifeInv
<1> QED
  BY <1>1, <1>2, PTL DEF Spec

\* A careful user never makes the process die.
THEOREM CarefulIsSafe == Spec => []CarefulNeverFaults
<1>1. IInv => CarefulNeverFaults
  BY DEF IInv, LifeInv, HeldInv, CarefulNeverFaults
<1> QED
  BY <1>1, Invariance, PTL

\* The destory callback runs once for each connection that is closed.
THEOREM DestroyIsOnce == Spec => []DestroyedOnce
<1>1. IInv => DestroyedOnce
  BY DEF IInv, LifeInv, OnceInv, DestroyedOnce
<1> QED
  BY <1>1, Invariance, PTL

\* The idle timeout of an open connection is armed.
THEOREM OpenIsArmed == Spec => []ArmedWhileOpen
<1>1. IInv => ArmedWhileOpen
  BY DEF IInv, LifeInv, ArmedInv, ArmedWhileOpen
<1> QED
  BY <1>1, Invariance, PTL

\* Open connections and the acceptor are in events_ under their own descriptors, and
\* nothing else is.
THEOREM EventsAreExact == Spec => []OpenIsRegistered
<1>1. IInv => OpenIsRegistered
  BY DEF IInv, FdInv, RegInv, OpenIsRegistered, Stable
<1> QED
  BY <1>1, Invariance, PTL

\* An event closes the connection it was reported for.
THEOREM EventsAreOwn == Spec => []ClosesItsOwn
<1>1. IInv => ClosesItsOwn
  BY DEF IInv, BatchInv
<1> QED
  BY <1>1, Invariance, PTL

\* Whoever waits in the backlog of a started server is heard of.
THEOREM BacklogIsHeard == Spec => []ListenerHears
<1>1. IInv => ListenerHears
  BY DEF IInv, RegInv, HearInv, ListenerHears, Stable
<1> QED
  BY <1>1, Invariance, PTL
=============================================================================
