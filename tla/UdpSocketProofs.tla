--------------------------- MODULE UdpSocketProofs ---------------------------
(***************************************************************************)
(* Theorems about UdpSocket, for any room in the socket and any number of   *)
(* calls of Send and of sockets opened.                                     *)
(***************************************************************************)
EXTENDS UdpSocket, SequenceTheorems, TLAPS

Datagrams == [id : Nat, big : BOOLEAN]

\* Every datagram handed to Send is on the wire or queued, in order.
OrderInv ==
    /\ wire \in Seq(Datagrams) /\ buffer_list_ \in Seq(Datagrams)
    /\ sends \in Nat
    /\ DatagramsInOrder

\* What has been handed to Send, as the socket and the queue hold it.
All == wire \o buffer_list_

Ordered(q, n) == Len(q) = n /\ \A i \in DOMAIN q : q[i].id = i

-----------------------------------------------------------------------------
\* A datagram behind the others, with the next number, keeps the order.
LEMMA AppendKeepsOrder ==
  ASSUME NEW q \in Seq(Datagrams), NEW n \in Nat, Ordered(q, n),
         NEW d \in Datagrams, d.id = n + 1
  PROVE  Append(q, d) \in Seq(Datagrams) /\ Ordered(Append(q, d), n + 1)
<1>1. /\ Append(q, d) \in Seq(Datagrams) /\ Len(Append(q, d)) = n + 1
      /\ \A i \in 1 .. n + 1 : Append(q, d)[i] = IF i <= n THEN q[i] ELSE d
  BY DEF Ordered
<1>2. ASSUME NEW i \in 1 .. n + 1 PROVE Append(q, d)[i].id = i
  <2>1. CASE i <= n
    BY <1>1, <2>1 DEF Ordered
  <2>2. CASE ~(i <= n)
    <3>1. Append(q, d)[i] = d /\ i = n + 1
      BY <1>1, <2>2
    <3> QED
      BY <3>1
  <2> QED
    BY <2>1, <2>2
<1> QED
  BY <1>1, <1>2 DEF Ordered

\* Behind the queue, or behind the wire when nothing is queued, is behind all.
LEMMA AppendToEither ==
  ASSUME NEW x \in Seq(Datagrams), NEW y \in Seq(Datagrams), NEW d \in Datagrams
  PROVE  /\ x \o Append(y, d) = Append(x \o y, d)
         /\ y = <<>> => Append(x, d) \o y = Append(x \o y, d)
<1>1. \A u, v, w \in Seq(Datagrams) : (u \o v) \o w = u \o (v \o w)
  BY ConcatAssociative, SMTT(30)
<1>2. \A u \in Seq(Datagrams) : Append(u, d) = u \o <<d>> /\ u \o <<>> = u
  BY AppendIsConcat, ConcatEmptySeq
<1>3. <<d>> \in Seq(Datagrams) /\ Append(x, d) \in Seq(Datagrams) /\ x \o y \in Seq(Datagrams)
  OBVIOUS
<1>4. x \o Append(y, d) = Append(x \o y, d)
  <2>1. x \o (y \o <<d>>) = (x \o y) \o <<d>>
    BY <1>1, <1>3
  <2> QED
    BY <1>2, <1>3, <2>1
<1>5. y = <<>> => Append(x, d) \o y = Append(x \o y, d)
  BY <1>2, <1>3
<1> QED
  BY <1>4, <1>5

\* Taking the first n of the queue to the wire leaves all as they are.
LEMMA MoveKeepsAll ==
  ASSUME NEW x \in Seq(Datagrams), NEW y \in Seq(Datagrams), NEW n \in 0 .. Len(y)
  PROVE  /\ x \o SubSeq(y, 1, n) \in Seq(Datagrams)
         /\ SubSeq(y, n + 1, Len(y)) \in Seq(Datagrams)
         /\ (x \o SubSeq(y, 1, n)) \o SubSeq(y, n + 1, Len(y)) = x \o y
<1> DEFINE u == SubSeq(y, 1, n)
           v == SubSeq(y, n + 1, Len(y))
<1>1. Len(y) \in Nat /\ \A i \in 1 .. Len(y) : y[i] \in Datagrams
  BY LenProperties, ElementOfSeq
<1>2. u \in Seq(Datagrams)
  <2>1. \A i \in 1 .. n : y[i] \in Datagrams
    BY <1>1
  <2> QED
    BY <1>1, <2>1, SubSeqProperties
<1>3. v \in Seq(Datagrams)
  <2>1. \A i \in n + 1 .. Len(y) : y[i] \in Datagrams
    BY <1>1
  <2>2. n + 1 \in Int /\ Len(y) \in Int
    BY <1>1
  <2> QED
    BY <2>1, <2>2, SubSeqProperties
<1>4. u \o v = y
  <2>1. /\ 1 \in 1 .. Len(y) + 1 /\ n \in 1 - 1 .. Len(y) /\ Len(y) \in n .. Len(y)
    BY <1>1
  <2>2. u \o v = SubSeq(y, 1, Len(y))
    BY <2>1, ConcatAdjacentSubSeq
  <2>3. SubSeq(y, 1, Len(y)) = y
    BY SubSeqFull
  <2> QED
    BY <2>2, <2>3
<1> HIDE DEF u, v
<1>5. (x \o u) \o v = x \o (u \o v) /\ x \o u \in Seq(Datagrams)
  BY <1>2, <1>3, ConcatAssociative, ConcatProperties, SMTT(30)
<1> QED
  BY <1>2, <1>3, <1>4, <1>5 DEF u, v

-----------------------------------------------------------------------------
\* Both forms of SendInLoop put the datagram behind all others.
LEMMA SendStep ==
  ASSUME OrderInv, NEW d \in [id : {sends + 1}, big : BOOLEAN],
         SendInLoopBuf(d) \/ SendInLoopList(d)
  PROVE  OrderInv'
<1>1. /\ wire \in Seq(Datagrams) /\ buffer_list_ \in Seq(Datagrams) /\ All \in Seq(Datagrams)
      /\ sends \in Nat /\ Ordered(All, sends)
  BY ConcatProperties DEF OrderInv, DatagramsInOrder, All, Ordered
<1>2. d \in Datagrams /\ d.id = sends + 1 /\ sends' = sends + 1
  BY <1>1 DEF Datagrams, SendInLoopBuf, SendInLoopList
<1>3. \/ wire' = wire /\ buffer_list_' = Append(buffer_list_, d)
      \/ wire' = Append(wire, d) /\ buffer_list_' = buffer_list_ /\ buffer_list_ = <<>>
  BY DEF SendInLoopBuf, SendInLoopList
<1>4. All' = Append(All, d)
  <2>1. /\ wire \o Append(buffer_list_, d) = Append(All, d)
        /\ buffer_list_ = <<>> => Append(wire, d) \o buffer_list_ = Append(All, d)
    BY <1>1, <1>2, AppendToEither DEF All
  <2>2. All' = wire' \o buffer_list_'
    BY DEF All
  <2> QED
    BY <1>3, <2>1, <2>2
<1>5. Ordered(All', sends')
  <2>1. Ordered(Append(All, d), sends + 1)
    BY <1>1, <1>2, AppendKeepsOrder
  <2> QED
    BY <1>2, <1>4, <2>1
<1>6. wire' \in Seq(Datagrams) /\ buffer_list_' \in Seq(Datagrams) /\ sends' \in Nat
  <2>1. Append(wire, d) \in Seq(Datagrams) /\ Append(buffer_list_, d) \in Seq(Datagrams)
    BY <1>1, <1>2
  <2>2. sends + 1 \in Nat
    BY <1>1
  <2> QED
    BY <1>1, <1>2, <1>3, <2>1, <2>2, Zenon
<1> QED
  BY <1>5, <1>6 DEF OrderInv, DatagramsInOrder, All, Ordered

\* OnWrite takes datagrams from the queue's front to the wire's end.
LEMMA OnWriteStep ==
  ASSUME OrderInv, OnWrite
  PROVE  OrderInv'
<1>1. PICK n \in 0 .. Len(buffer_list_) :
        /\ wire' = wire \o SubSeq(buffer_list_, 1, n)
        /\ buffer_list_' = SubSeq(buffer_list_, n + 1, Len(buffer_list_))
  BY DEF OnWrite
<1>2. /\ wire' \in Seq(Datagrams) /\ buffer_list_' \in Seq(Datagrams)
      /\ wire' \o buffer_list_' = wire \o buffer_list_
  BY <1>1, MoveKeepsAll DEF OrderInv
<1>3. sends' = sends
  BY DEF OnWrite
<1> QED
  BY <1>2, <1>3 DEF OrderInv, DatagramsInOrder

\* No other step touches the wire, the queue or the count.
LEMMA OrderStep == OrderInv /\ [Next]_vars => OrderInv'
<1> SUFFICES ASSUME OrderInv, [Next]_vars PROVE OrderInv'
  OBVIOUS
<1>1. ASSUME UNCHANGED <<wire, buffer_list_, sends>> PROVE OrderInv'
  BY <1>1 DEF OrderInv, DatagramsInOrder
<1>2. CASE Open \/ ConnectInLoop \/ Leave
  BY <1>1, <1>2 DEF Open, ConnectInLoop, NewSocket, Leave
<1>3. CASE Send
  BY <1>3, SendStep DEF Send
<1>4. CASE EpollWait \/ DispatchNothing \/ OnError \/ OnRead
  BY <1>1, <1>4 DEF EpollWait, DispatchNothing, OnError, OnRead
<1>5. CASE OnWrite
  BY <1>5, OnWriteStep
<1>6. CASE NicSends \/ NetDelivers \/ NetRefuses
  BY <1>1, <1>6 DEF NicSends, NetDelivers, NetRefuses
<1>7. CASE UNCHANGED vars
  BY <1>1, <1>7 DEF vars
<1> QED
  BY <1>2, <1>3, <1>4, <1>5, <1>6, <1>7 DEF Next

\* Nothing has been sent at first.
LEMMA InitOrder == Init => OrderInv
<1> SUFFICES ASSUME Init PROVE OrderInv
  OBVIOUS
<1>1. wire = <<>> /\ buffer_list_ = <<>> /\ sends = 0 /\ wire \o buffer_list_ = <<>>
  BY DEF Init
<1>2. <<>> \in Seq(Datagrams) /\ Len(<<>>) = 0 /\ DOMAIN <<>> = {}
  OBVIOUS
<1> QED
  BY <1>1, <1>2 DEF OrderInv, DatagramsInOrder

\* Whatever fails, and on whichever socket, datagrams go out in the order of the
\* calls of Send, none lost from the queue and none twice.
THEOREM SendsInOrder == Spec => []DatagramsInOrder
<1>1. OrderInv => DatagramsInOrder
  BY DEF OrderInv
<1> QED
  BY <1>1, InitOrder, OrderStep, PTL DEF Spec

-----------------------------------------------------------------------------
(* Types.                                                                   *)

\* Numbers handed out only grow, so what was a datagram remains one.
LEMMA OlderIsTyped ==
  ASSUME NEW m \in Nat, NEW n \in Nat, m <= n
  PROVE  Seq([id : 1 .. m, big : BOOLEAN]) \subseteq Seq([id : 1 .. n, big : BOOLEAN])
<1>1. [id : 1 .. m, big : BOOLEAN] \subseteq [id : 1 .. n, big : BOOLEAN]
  OBVIOUS
<1> QED
  BY <1>1, SeqMonotonic

\* Types of the wire and the queue, and those of the rest.
SeqTypes == {buffer_list_, wire} \subseteq Seq([id : 1 .. sends, big : BOOLEAN])
Flags ==
    /\ registered \in BOOLEAN /\ writing \in BOOLEAN /\ input \in BOOLEAN
    /\ pending \in BOOLEAN /\ edge \in BOOLEAN /\ skipped \in BOOLEAN
Numbers == opens \in 0 .. MaxOpens /\ room \in 0 .. Room /\ sends \in 0 .. MaxSends
Names == kind \in {"server", "client"} /\ reported \in {"none", "err", "in", "out"}
Links == (registered => opens > 0) /\ (pending => kind = "client")
Parts == SeqTypes /\ Flags /\ Numbers /\ Names /\ Links

\* TypeOK in parts.
LEMMA TypeParts == Parts <=> TypeOK
  BY DEF TypeOK, Parts, SeqTypes, Flags, Numbers, Names, Links

\* The wire and the queue keep their types.
LEMMA SeqStep == Parts /\ [Next]_vars => SeqTypes'
<1> SUFFICES ASSUME TypeOK, [Next]_vars PROVE SeqTypes'
  BY TypeParts
<1>1. CASE UNCHANGED <<buffer_list_, wire, sends>>
  BY <1>1 DEF SeqTypes, TypeOK
<1>2. CASE Send
  <2>1. PICK d \in [id : {sends + 1}, big : BOOLEAN] : SendInLoopBuf(d) \/ SendInLoopList(d)
    BY <1>2 DEF Send
  <2> DEFINE D == [id : 1 .. sends + 1, big : BOOLEAN]
  <2>2. sends \in Nat /\ sends' = sends + 1
    BY <2>1 DEF SendInLoopBuf, SendInLoopList, TypeOK
  <2>3. buffer_list_ \in Seq(D) /\ wire \in Seq(D)
    <3>1. sends + 1 \in Nat /\ sends <= sends + 1
      BY <2>2
    <3> QED
      BY <2>2, <3>1, OlderIsTyped DEF TypeOK
  <2>4. d \in D
    BY <2>2
  <2>5. /\ buffer_list_' = buffer_list_ \/ buffer_list_' = Append(buffer_list_, d)
        /\ wire' = wire \/ wire' = Append(wire, d)
    BY <2>1 DEF SendInLoopBuf, SendInLoopList
  <2>6. buffer_list_' \in Seq(D) /\ wire' \in Seq(D)
    <3> HIDE DEF D
    <3>1. Append(buffer_list_, d) \in Seq(D) /\ Append(wire, d) \in Seq(D)
      BY <2>3, <2>4
    <3> QED
      BY <2>3, <2>5, <3>1
  <2> QED
    BY <2>2, <2>6 DEF SeqTypes
<1>3. CASE OnWrite
  <2> DEFINE D == [id : 1 .. sends, big : BOOLEAN]
  <2>1. PICK n \in 0 .. Len(buffer_list_) :
          /\ wire' = wire \o SubSeq(buffer_list_, 1, n)
          /\ buffer_list_' = SubSeq(buffer_list_, n + 1, Len(buffer_list_))
    BY <1>3 DEF OnWrite
  <2>2. buffer_list_' \in Seq(D) /\ wire' \in Seq(D)
    <3>1. buffer_list_ \in Seq(D) /\ wire \in Seq(D)
      BY DEF TypeOK
    <3> HIDE DEF D
    <3> QED
      BY <2>1, <3>1
  <2>3. sends' = sends
    BY <1>3 DEF OnWrite
  <2> QED
    BY <2>2, <2>3 DEF SeqTypes
<1> QED
  BY <1>1, <1>2, <1>3 DEF Next, Open, ConnectInLoop, NewSocket, Leave, EpollWait,
     DispatchNothing, OnError, OnRead, NicSends, NetDelivers, NetRefuses, vars

\* No more is taken than there is room for.
LEMMA NumbersStep == Parts /\ [Next]_vars => Numbers'
<1> SUFFICES ASSUME Numbers, [Next]_vars PROVE Numbers'
  BY DEF Parts
<1> USE UdpAssumption DEF UdpAssumption, Numbers
<1>1. CASE Open \/ ConnectInLoop
  BY <1>1 DEF Open, ConnectInLoop, NewSocket
<1>2. CASE Send
  BY <1>2 DEF Send, SendInLoopBuf, SendInLoopList, SendTo
<1>3. CASE OnWrite
  BY <1>3 DEF OnWrite, SentFirst
<1>4. CASE NicSends
  BY <1>4 DEF NicSends
<1> QED
  BY <1>1, <1>2, <1>3, <1>4 DEF Next, Leave, EpollWait, DispatchNothing, OnError, OnRead,
     NetDelivers, NetRefuses, vars

\* The flags are Booleans.
LEMMA FlagsStep == Parts /\ [Next]_vars => Flags'
<1> SUFFICES ASSUME Flags, [Next]_vars PROVE Flags'
  BY DEF Parts
<1> USE DEF Flags
<1>1. CASE Open \/ ConnectInLoop
  BY <1>1 DEF Open, ConnectInLoop, NewSocket
<1>2. CASE Leave
  BY <1>2 DEF Leave
<1>3. CASE Send
  BY <1>3 DEF Send, SendInLoopBuf, SendInLoopList, EnableWriting
<1>4. CASE EpollWait
  BY <1>4 DEF EpollWait
<1>5. CASE DispatchNothing \/ OnError \/ OnRead
  BY <1>5 DEF DispatchNothing, OnError, OnRead, OnClose, ClientOnClose
<1>6. CASE OnWrite
  BY <1>6 DEF OnWrite, OnClose, ClientOnClose
<1>7. CASE NicSends \/ NetDelivers \/ NetRefuses
  BY <1>7 DEF NicSends, NetDelivers, NetRefuses
<1>8. CASE UNCHANGED vars
  BY <1>8 DEF vars
<1> QED
  BY <1>1, <1>2, <1>3, <1>4, <1>5, <1>6, <1>7, <1>8 DEF Next

\* Only a socket that was opened is in the loop, and only a client is refused.
LEMMA LinksStep == Parts /\ [Next]_vars => Names' /\ Links'
<1> SUFFICES ASSUME Parts, Numbers, Names, Links, [Next]_vars PROVE Names' /\ Links'
  BY DEF Parts
<1> USE DEF Names, Links, Numbers
<1>0. Numbers'
  BY NumbersStep
<1>1. CASE Open \/ ConnectInLoop
  BY <1>1 DEF Open, ConnectInLoop, NewSocket
<1>2. CASE Leave
  BY <1>2 DEF Leave
<1>3. CASE Send
  <2>1. PICK d \in [id : {sends + 1}, big : BOOLEAN] : SendInLoopBuf(d) \/ SendInLoopList(d)
    BY <1>3 DEF Send
  <2>2. CASE SendInLoopBuf(d)
    <3>1. UNCHANGED <<kind, opens, registered, reported>>
      BY <2>2 DEF SendInLoopBuf
    <3>2. pending' => pending
      BY <2>2, Zenon DEF SendInLoopBuf
    <3> QED
      BY <3>1, <3>2, <1>0
  <2>3. CASE SendInLoopList(d)
    BY <2>3, <1>0 DEF SendInLoopList
  <2> QED
    BY <2>1, <2>2, <2>3
<1>4. CASE EpollWait
  BY <1>4 DEF EpollWait
<1>5. CASE DispatchNothing \/ OnError \/ OnRead
  BY <1>5 DEF DispatchNothing, OnError, OnRead, OnClose, ClientOnClose
<1>6. CASE OnWrite
  BY <1>6 DEF OnWrite, OnClose, ClientOnClose
<1>7. CASE NicSends \/ NetDelivers \/ NetRefuses
  BY <1>7 DEF NicSends, NetDelivers, NetRefuses
<1>8. CASE UNCHANGED vars
  BY <1>8 DEF vars
<1> QED
  BY <1>1, <1>2, <1>3, <1>4, <1>5, <1>6, <1>7, <1>8 DEF Next

\* The variables keep their types: no more is taken than there is room for, and
\* only a client ever has an error to tell.
THEOREM TypeCorrect == Spec => []TypeOK
<1>1. Init => Parts
  <2> SUFFICES ASSUME Init PROVE Parts
    OBVIOUS
  <2>1. SeqTypes
    BY DEF Init, SeqTypes
  <2>2. Flags /\ Names /\ Links
    BY DEF Init, Flags, Names, Links
  <2>3. Numbers
    BY UdpAssumption DEF Init, Numbers, UdpAssumption
  <2> QED
    BY <2>1, <2>2, <2>3 DEF Parts
<1>2. Parts /\ [Next]_vars => Parts'
  BY SeqStep, NumbersStep, FlagsStep, LinksStep DEF Parts
<1> QED
  BY <1>1, <1>2, TypeParts, PTL DEF Spec

-----------------------------------------------------------------------------
(* The queue.                                                               *)

\* SendInLoop asks for EPOLLOUT whenever it queues something.
LEMMA SendIsDriven ==
  ASSUME Parts, DatagramsAreDriven, Send
  PROVE  DatagramsAreDriven'
<1>1. PICK d \in [id : {sends + 1}, big : BOOLEAN] : SendInLoopBuf(d) \/ SendInLoopList(d)
  BY DEF Send
<1>2. CASE UNCHANGED buffer_list_ /\ buffer_list_ = <<>>
  BY <1>2 DEF DatagramsAreDriven
<1>3. CASE EnableWriting /\ UNCHANGED <<registered, room, reported>>
  <2>1. room \in Nat
    BY DEF Parts, Numbers
  <2>2. registered => edge' \/ ~(room > 0)
    BY <1>3, Zenon DEF EnableWriting
  <2>3. registered => edge' \/ room' = 0
    BY <1>3, <2>1, <2>2
  <2> QED
    BY <1>3, <2>3 DEF DatagramsAreDriven
<1> QED
  BY <1>1, <1>2, <1>3 DEF SendInLoopBuf, SendInLoopList, SendTo

\* OnWrite leaves a full socket, a datagram that is too big in front, or nothing; or
\* the client leaves the loop.
LEMMA WriteIsDriven ==
  ASSUME Parts, OnWrite
  PROVE  DatagramsAreDriven'
<1>1. PICK n \in 0 .. Len(buffer_list_) :
         /\ SentFirst(buffer_list_, n)
         /\ buffer_list_' = SubSeq(buffer_list_, n + 1, Len(buffer_list_))
         /\ room' = room - n
  BY DEF OnWrite
<1>2. SUFFICES ASSUME buffer_list_' # <<>>, registered', room' # 0, ~Blocked' PROVE FALSE
  BY DEF DatagramsAreDriven
<1>3. /\ buffer_list_ \in Seq([id : 1 .. sends, big : BOOLEAN]) /\ room \in Nat
      /\ Len(buffer_list_) \in Nat /\ opens > 0 /\ opens' = opens
  <2>1. registered
    BY DEF OnWrite
  <2> QED
    BY <2>1 DEF Parts, SeqTypes, Numbers, Links, OnWrite
<1>4. n < Len(buffer_list_)
  BY <1>1, <1>2, <1>3
<1>5. Head(buffer_list_') = buffer_list_[n + 1]
      /\ buffer_list_[n + 1] \in ToSet(SubSeq(buffer_list_', 1, 1))
  <2> DEFINE D == [id : 1 .. sends, big : BOOLEAN]
             q == buffer_list_
  <2>1. /\ \A k \in 1 .. Len(q) : q[k] \in D
        /\ n + 1 \in Int /\ Len(q) \in Int /\ n + 1 <= Len(q)
    <3>1. n \in Nat
      BY <1>1
    <3>2. n + 1 \in Int /\ Len(q) \in Int /\ n + 1 <= Len(q)
      BY <1>3, <1>4, <3>1
    <3>3. \A k \in 1 .. Len(q) : q[k] \in D
      <4>1. q \in Seq(D)
        BY <1>3
      <4> HIDE DEF D, q
      <4> QED
        BY <4>1
    <3> QED
      BY <3>2, <3>3
  <2>2. \A k \in n + 1 .. Len(q) : q[k] \in D
    BY <1>3, <2>1
  <2> HIDE DEF D, q
  <2>3. /\ SubSeq(q, n + 1, Len(q)) \in Seq(D)
        /\ Len(SubSeq(q, n + 1, Len(q))) = Len(q) - (n + 1) + 1
        /\ \A i \in 1 .. Len(q) - (n + 1) + 1 : SubSeq(q, n + 1, Len(q))[i] = q[n + 1 + i - 1]
    BY <2>1, <2>2, SubSeqProperties
  <2> DEFINE r == SubSeq(q, n + 1, Len(q))
  <2>4. r \in Seq(D) /\ Len(r) \in Nat /\ Len(r) >= 1 /\ r[1] = q[n + 1]
    <3>1. 1 \in 1 .. Len(q) - (n + 1) + 1 /\ n + 1 + 1 - 1 = n + 1 /\ Len(q) - (n + 1) + 1 \in Nat
      BY <2>1
    <3> QED
      BY <2>3, <3>1
  <2> HIDE DEF r
  <2>5. Head(r) = r[1]
    BY <2>4
  <2>6. r[1] \in ToSet(SubSeq(r, 1, 1))
    <3>1. 1 \in Int /\ \A k \in 1 .. 1 : r[k] \in D
      BY <2>4
    <3>2. /\ SubSeq(r, 1, 1) \in Seq(D) /\ Len(SubSeq(r, 1, 1)) = IF 1 <= 1 THEN 1 - 1 + 1 ELSE 0
          /\ \A i \in 1 .. 1 - 1 + 1 : SubSeq(r, 1, 1)[i] = r[1 + i - 1]
      BY <3>1, SubSeqProperties
    <3>3. 1 \in DOMAIN SubSeq(r, 1, 1) /\ SubSeq(r, 1, 1)[1] = r[1]
      BY <3>2
    <3> QED
      BY <3>3, Zenon DEF ToSet
  <2> QED
    BY <1>1, <2>4, <2>5, <2>6 DEF q, r
<1>6. ~buffer_list_[n + 1].big
  <2>1. ~ \E d \in ToSet(SubSeq(buffer_list_', 1, 1)) : d.big
    BY <1>2 DEF Blocked
  <2> QED
    BY <1>5, <2>1, Zenon
<1>7. pending
  BY <1>1, <1>2, <1>3, <1>4, <1>6 DEF SentFirst
<1>8. kind = "client"
  BY <1>7 DEF Parts, Links
<1>9. SendTo(Head(buffer_list_'), room') = "refused"
  BY <1>3, <1>5, <1>6, <1>7 DEF SendTo
<1>10. registered' = FALSE
  BY <1>2, <1>8, <1>9 DEF OnWrite, OnClose, ClientOnClose
<1> QED
  BY <1>2, <1>10

\* epoll_wait reports the room, or finds none, or an EPOLLOUT is skipped.
LEMMA WaitIsDriven ==
  ASSUME Parts, EpollWait
  PROVE  DatagramsAreDriven'
<1>1. room \in Nat /\ UNCHANGED <<buffer_list_, writing, room>>
  BY DEF Parts, Numbers, EpollWait
<1>2. CASE writing /\ room > 0
  <2>1. skipped' \/ reported' = "out"
    BY <1>2, Zenon DEF EpollWait
  <2> QED
    BY <1>1, <2>1 DEF DatagramsAreDriven
<1>3. CASE ~(writing /\ room > 0)
  BY <1>1, <1>3 DEF DatagramsAreDriven
<1> QED
  BY <1>2, <1>3

\* What is queued on a socket in the loop is going to be sent: no edge of EPOLLOUT is
\* lost but one that was skipped, whatever fails and on whichever socket. This is why
\* DatagramsDrain holds (UdpSocket.cc:93-122, 202-242).
THEOREM DatagramsStayDriven == Spec => []DatagramsAreDriven
<1>1. Init => DatagramsAreDriven
  BY DEF Init, DatagramsAreDriven
<1>2. Parts /\ DatagramsAreDriven /\ [Next]_vars => DatagramsAreDriven'
  <2> SUFFICES ASSUME Parts, DatagramsAreDriven, [Next]_vars PROVE DatagramsAreDriven'
    OBVIOUS
  <2>1. CASE Open \/ ConnectInLoop
    <3>1. edge' = writing'
      BY <2>1 DEF Open, ConnectInLoop, NewSocket
    <3> QED
      BY <3>1 DEF DatagramsAreDriven
  <2>2. CASE Leave
    BY <2>2 DEF Leave, DatagramsAreDriven
  <2>3. CASE Send
    BY <2>3, SendIsDriven
  <2>4. CASE EpollWait
    BY <2>4, WaitIsDriven
  <2>5. CASE DispatchNothing
    BY <2>5 DEF DispatchNothing, DatagramsAreDriven
  <2>6. CASE OnError \/ OnRead
    <3>1. /\ UNCHANGED <<buffer_list_, writing, room, edge, skipped>>
          /\ registered' => registered
          /\ reported # "out" /\ registered
      BY <2>6 DEF OnError, OnRead, OnClose, ClientOnClose
    <3> QED
      BY <3>1 DEF DatagramsAreDriven, Blocked
  <2>7. CASE OnWrite
    BY <2>7, WriteIsDriven
  <2>8. CASE NicSends
    <3>1. registered /\ writing => edge'
      BY <2>8, Zenon DEF NicSends
    <3> QED
      BY <2>8, <3>1 DEF NicSends, DatagramsAreDriven
  <2>9. CASE NetDelivers \/ NetRefuses
    <3>1. edge' = registered /\ registered' = registered
      BY <2>9 DEF NetDelivers, NetRefuses
    <3> QED
      BY <3>1 DEF DatagramsAreDriven
  <2>10. CASE UNCHANGED vars
    BY <2>10 DEF vars, DatagramsAreDriven, Blocked
  <2> QED
    BY <2>1, <2>2, <2>3, <2>4, <2>5, <2>6, <2>7, <2>8, <2>9, <2>10 DEF Next
<1>3. TypeOK => Parts
  BY TypeParts
<1> QED
  BY <1>1, <1>2, <1>3, TypeCorrect, PTL DEF Spec
=============================================================================
