---------------------------- MODULE TcpSendProofs ----------------------------
(***************************************************************************)
(* Theorems about the sending half of a TcpConnection, accepted or of a      *)
(* TcpClient, for every room of its socket, all sizes of the buffers, every  *)
(* width of size_t, and a peer that sends or does not.                       *)
(***************************************************************************)
EXTENDS TcpClient, SequenceTheorems, TLAPS

Statuses == {"none", "init", "connecting", "connected", "disconnected"}

Nodes == [send : Nat, from : Nat, len : Nat]

\* What the arguments below need of the types.
TypeInv ==
    /\ status \in Statuses
    /\ {writing, closed, input, edge, noSpace, skipped, up} \subseteq BOOLEAN
    /\ room \in Nat
    /\ reported \in {"none", "in", "out", "writing", "spin"}
    /\ sends \in Nat

\* What was handed to Send, and where it is now.
StreamTypes ==
    /\ io_vec_li \in Seq(Nodes)
    /\ wire \in Seq(Nat \X Nat)
    /\ handed \in Seq(Nat)
    /\ Len(handed) = sends

\* Nothing is queued before there is a connection; EPOLLOUT is reported only to who
\* asked for it; what is queued has something that is going to write it; and OnWrite
\* does not stop on a queue without an empty buffer.
DriveInv ==
    /\ status \in {"init", "connecting"} => io_vec_li = <<>>
    /\ reported \in {"out", "writing"} => writing
    /\ io_vec_li # <<>> /\ ~closed =>
          writing /\ (edge \/ reported \in {"out", "writing", "spin"} \/ noSpace \/ skipped)
    /\ reported = "spin" => EmptyQueued

\* A node ends where its buffer ends, and the nodes are those of later and later
\* buffers.
QueueInv ==
    /\ \A i \in DOMAIN io_vec_li :
          /\ io_vec_li[i].send \in 1 .. sends
          /\ io_vec_li[i].from + io_vec_li[i].len = handed[io_vec_li[i].send] + 1
    /\ \A i, j \in DOMAIN io_vec_li : i < j => io_vec_li[i].send < io_vec_li[j].send

\* The wire has bytes of the buffers, in order, and those of the queue come after them.
WireInv ==
    /\ \A i \in DOMAIN wire :
          wire[i][1] \in 1 .. sends /\ wire[i][2] \in 0 .. handed[wire[i][1]]
    /\ \A i, j \in DOMAIN wire : i < j => Before(wire[i], wire[j])
    /\ \A i \in DOMAIN wire, j \in DOMAIN io_vec_li :
          Before(wire[i], <<io_vec_li[j].send, io_vec_li[j].from>>)

\* A byte handed to Send is written, or a node reaches from it or before it.
NoneLost ==
    \A s \in 1 .. sends : \A k \in 1 .. handed[s] :
        \/ \E i \in DOMAIN wire : wire[i] = <<s, k>>
        \/ \E j \in DOMAIN io_vec_li : io_vec_li[j].send = s /\ io_vec_li[j].from <= k

StreamInv == StreamTypes /\ QueueInv /\ WireInv /\ NoneLost

IInv == TypeInv /\ StreamInv /\ DriveInv

-----------------------------------------------------------------------------
(* Sending.                                                                 *)

\* The sequence x goes on after w with the bytes f, f + 1, ... f + n - 1 of buffer s.
Extends(x, w, s, f, n) ==
    /\ x \in Seq(Nat \X Nat)
    /\ DOMAIN x = 1 .. Len(w) + n
    /\ \A i \in DOMAIN w : i \in DOMAIN x /\ x[i] = w[i]
    /\ \A i \in DOMAIN x :
          \/ i \in DOMAIN w /\ x[i] = w[i]
          \/ i - Len(w) \in 1 .. n /\ x[i] = <<s, f + (i - Len(w)) - 1>>

\* What a write adds to the wire: the bytes of one buffer, one after the other.
LEMMA WireGrows ==
  ASSUME NEW w \in Seq(Nat \X Nat), NEW v \in Nodes, NEW x, x = w \o Bytes(v)
  PROVE  Extends(x, w, v.send, v.from, v.len)
<1>a. PICK s \in Nat, f \in Nat, n \in Nat : v.send = s /\ v.from = f /\ v.len = n
  BY DEF Nodes
<1> DEFINE b == Bytes(v)
<1>1. b = [i \in 1 .. n |-> <<s, f + i - 1>>]
  BY <1>a DEF Bytes
<1>2. b \in [1 .. n -> Nat \X Nat]
  BY <1>a, <1>1
<1>3. b \in Seq(Nat \X Nat) /\ Len(b) = n
  BY <1>a, <1>2, IsASeq, LenProperties
<1>4. \A i \in 1 .. n : b[i] = <<s, f + i - 1>>
  BY <1>1
<1> HIDE DEF b
<1>0. x = w \o b
  BY DEF b
<1>5. /\ x \in Seq(Nat \X Nat) /\ Len(x) = Len(w) + Len(b)
      /\ \A i \in 1 .. Len(w) + Len(b) :
            x[i] = IF i <= Len(w) THEN w[i] ELSE b[i - Len(w)]
  BY <1>0, <1>3, ConcatProperties
<1>6. DOMAIN w = 1 .. Len(w) /\ Len(w) \in Nat
  BY LenProperties
<1>7. DOMAIN x = 1 .. Len(w) + n
  BY <1>3, <1>5, LenProperties
<1>8. ASSUME NEW i \in DOMAIN w
      PROVE  i \in DOMAIN x /\ x[i] = w[i]
  BY <1>a, <1>3, <1>5, <1>6, <1>7
<1>9. ASSUME NEW i \in DOMAIN x, i \notin DOMAIN w
      PROVE  i - Len(w) \in 1 .. n /\ x[i] = <<s, f + (i - Len(w)) - 1>>
  <2>1. i \in 1 .. Len(w) + n /\ ~(i <= Len(w)) /\ i - Len(w) \in 1 .. n
    BY <1>a, <1>6, <1>7, <1>9
  <2>2. x[i] = b[i - Len(w)]
    BY <1>3, <1>5, <2>1
  <2> QED
    BY <1>4, <2>1, <2>2
<1> QED
  BY <1>a, <1>5, <1>7, <1>8, <1>9 DEF Extends

\* A new buffer of which n bytes are written at once: the node of its rest, which starts
\* a byte early if the write failed.
RestNode(v, size, n) ==
    /\ v.send = sends + 1
    /\ v.from + v.len = size + 1
    /\ v.from = n + 1 \/ (v.from = 0 /\ n = 0)

\* Nothing is written before what is queued, and what is not written is queued at the end.
LEMMA StreamGrows ==
  ASSUME StreamInv, sends \in Nat, NEW size \in Nat, NEW n \in 0 .. size,
         n = 0 \/ DOMAIN io_vec_li = {},
         sends' = sends + 1,
         handed' \in Seq(Nat), Len(handed') = sends', handed'[sends + 1] = size,
         \A s \in 1 .. sends : handed'[s] = handed[s],
         wire' \in Seq(Nat \X Nat), DOMAIN wire' = 1 .. Len(wire) + n,
         \A i \in DOMAIN wire : i \in DOMAIN wire' /\ wire'[i] = wire[i],
         \A i \in DOMAIN wire' :
            \/ i \in DOMAIN wire /\ wire'[i] = wire[i]
            \/ i - Len(wire) \in 1 .. n /\ wire'[i] = <<sends + 1, i - Len(wire)>>,
         io_vec_li' \in Seq(Nodes),
         \A j \in DOMAIN io_vec_li : j \in DOMAIN io_vec_li' /\ io_vec_li'[j] = io_vec_li[j],
         \A j \in DOMAIN io_vec_li' :
            \/ j \in DOMAIN io_vec_li /\ io_vec_li'[j] = io_vec_li[j]
            \/ j = Len(io_vec_li) + 1 /\ RestNode(io_vec_li'[j], size, n),
         n = size \/ \E j \in DOMAIN io_vec_li' : RestNode(io_vec_li'[j], size, n)
  PROVE  StreamInv'
<1>1. /\ DOMAIN wire = 1 .. Len(wire) /\ Len(wire) \in Nat
      /\ DOMAIN io_vec_li = 1 .. Len(io_vec_li) /\ Len(io_vec_li) \in Nat
  BY LenProperties DEF StreamInv, StreamTypes
<1>2. /\ \A j \in DOMAIN io_vec_li : io_vec_li[j] \in Nodes
      /\ \A j \in DOMAIN io_vec_li' : io_vec_li'[j] \in Nodes
  <2>1. DOMAIN io_vec_li' = 1 .. Len(io_vec_li')
    BY LenProperties
  <2> QED
    BY <1>1, <2>1, ElementOfSeq DEF StreamInv, StreamTypes
<1>3. n \in Nat
  OBVIOUS
<1>8. \A s \in 1 .. sends : s \in 1 .. sends' /\ s < sends + 1 /\ handed'[s] = handed[s]
  OBVIOUS
<1>4. StreamTypes'
  BY DEF StreamTypes
<1>5. QueueInv'
  <2>1. ASSUME NEW j \in DOMAIN io_vec_li'
        PROVE  /\ io_vec_li'[j].send \in 1 .. sends'
               /\ io_vec_li'[j].from + io_vec_li'[j].len = handed'[io_vec_li'[j].send] + 1
    <3>1. CASE j \in DOMAIN io_vec_li /\ io_vec_li'[j] = io_vec_li[j]
      BY <3>1, SMTT(30) DEF StreamInv, QueueInv
    <3>2. CASE RestNode(io_vec_li'[j], size, n)
      BY <3>2 DEF RestNode
    <3> QED
      BY <2>1, <3>1, <3>2
  <2>2. ASSUME NEW i \in DOMAIN io_vec_li', NEW j \in DOMAIN io_vec_li', i < j
        PROVE  io_vec_li'[i].send < io_vec_li'[j].send
    <3>1. i \in DOMAIN io_vec_li /\ io_vec_li'[i] = io_vec_li[i]
      <4>1. i # Len(io_vec_li) + 1 \/ ~(j \in DOMAIN io_vec_li)
        BY <1>1, <2>2
      <4>2. ASSUME i = Len(io_vec_li) + 1
            PROVE  FALSE
        BY <1>1, <2>2, <4>1, <4>2
      <4> QED
        BY <2>2, <4>2
    <3>2. CASE j \in DOMAIN io_vec_li /\ io_vec_li'[j] = io_vec_li[j]
      BY <2>2, <3>1, <3>2 DEF StreamInv, QueueInv
    <3>3. CASE RestNode(io_vec_li'[j], size, n)
      BY <3>1, <3>3 DEF StreamInv, QueueInv, RestNode
    <3> QED
      BY <2>2, <3>2, <3>3
  <2> QED
    BY <2>1, <2>2 DEF QueueInv
<1>6. WireInv'
  <2>1. ASSUME NEW i \in DOMAIN wire'
        PROVE  wire'[i][1] \in 1 .. sends' /\ wire'[i][2] \in 0 .. handed'[wire'[i][1]]
    <3>1. CASE i \in DOMAIN wire /\ wire'[i] = wire[i]
      <4>1. wire[i][1] \in 1 .. sends /\ wire[i][2] \in 0 .. handed[wire[i][1]]
        BY <3>1 DEF StreamInv, WireInv
      <4>2. wire[i][1] \in 1 .. sends' /\ handed'[wire[i][1]] = handed[wire[i][1]]
        BY <1>8, <4>1, Zenon
      <4> QED
        BY <3>1, <4>1, <4>2
    <3>2. CASE i - Len(wire) \in 1 .. n /\ wire'[i] = <<sends + 1, i - Len(wire)>>
      <4>1. wire'[i][1] = sends + 1 /\ wire'[i][2] = i - Len(wire)
        BY <3>2
      <4>2. i - Len(wire) \in 0 .. size /\ sends + 1 \in 1 .. sends'
        BY <1>3, <3>2
      <4> QED
        BY <4>1, <4>2
    <3> QED
      BY <2>1, <3>1, <3>2
  <2>2. ASSUME NEW i \in DOMAIN wire', NEW j \in DOMAIN wire', i < j
        PROVE  Before(wire'[i], wire'[j])
    <3>1. CASE i \in DOMAIN wire /\ wire'[i] = wire[i] /\ j \in DOMAIN wire /\ wire'[j] = wire[j]
      BY <2>2, <3>1 DEF StreamInv, WireInv
    <3>2. CASE /\ i \in DOMAIN wire /\ wire'[i] = wire[i]
               /\ j - Len(wire) \in 1 .. n /\ wire'[j] = <<sends + 1, j - Len(wire)>>
      <4>1. wire[i][1] \in 1 .. sends
        BY <3>2 DEF StreamInv, WireInv
      <4>2. wire'[i][1] < sends + 1
        BY <1>8, <3>2, <4>1, Zenon
      <4>3. wire'[j][1] = sends + 1
        BY <3>2
      <4> QED
        BY <4>2, <4>3 DEF Before
    <3>3. CASE i - Len(wire) \in 1 .. n /\ wire'[i] = <<sends + 1, i - Len(wire)>>
      <4>1. ~(j \in DOMAIN wire)
        BY <1>1, <2>2, <3>3
      <4>2. j - Len(wire) \in 1 .. n /\ wire'[j] = <<sends + 1, j - Len(wire)>>
        BY <2>2, <4>1
      <4>3. i - Len(wire) < j - Len(wire)
        BY <1>1, <2>2
      <4> QED
        BY <3>3, <4>2, <4>3 DEF Before
    <3> QED
      BY <2>2, <3>1, <3>2, <3>3
  <2>3. ASSUME NEW i \in DOMAIN wire', NEW j \in DOMAIN io_vec_li'
        PROVE  Before(wire'[i], <<io_vec_li'[j].send, io_vec_li'[j].from>>)
    <3>1. CASE j \in DOMAIN io_vec_li /\ io_vec_li'[j] = io_vec_li[j]
      <4>1. i \in DOMAIN wire /\ wire'[i] = wire[i]
        BY <2>3, <3>1, SMTT(30)
      <4> QED
        BY <3>1, <4>1 DEF StreamInv, WireInv
    <3>2. CASE RestNode(io_vec_li'[j], size, n)
      <4>1. CASE i \in DOMAIN wire /\ wire'[i] = wire[i]
        <5>1. wire'[i][1] < sends + 1
          BY <4>1, SMTT(30) DEF StreamInv, WireInv
        <5> QED
          BY <3>2, <5>1 DEF RestNode, Before
      <4>2. CASE i - Len(wire) \in 1 .. n /\ wire'[i] = <<sends + 1, i - Len(wire)>>
        BY <3>2, <4>2, SMTT(30) DEF RestNode, Before
      <4> QED
        BY <2>3, <4>1, <4>2
    <3> QED
      BY <2>3, <3>1, <3>2
  <2> QED
    BY <2>1, <2>2, <2>3 DEF WireInv
<1>7. NoneLost'
  <2> SUFFICES ASSUME NEW s \in 1 .. sends', NEW k \in 1 .. handed'[s]
               PROVE  \/ \E i \in DOMAIN wire' : wire'[i] = <<s, k>>
                      \/ \E j \in DOMAIN io_vec_li' :
                            io_vec_li'[j].send = s /\ io_vec_li'[j].from <= k
    BY DEF NoneLost
  <2>1. CASE s \in 1 .. sends
    <3>1. k \in 1 .. handed[s]
      BY <2>1
    <3>2. \/ \E i \in DOMAIN wire : wire[i] = <<s, k>>
          \/ \E j \in DOMAIN io_vec_li : io_vec_li[j].send = s /\ io_vec_li[j].from <= k
      BY <2>1, <3>1 DEF StreamInv, NoneLost
    <3> QED
      BY <3>2
  <2>0. k \in Int /\ 1 <= k /\ (s \in 1 .. sends \/ s = sends + 1)
    BY <1>3
  <2>2. CASE s = sends + 1 /\ k <= n
    <3>1. PICK x \in Int : x = Len(wire) + k
      BY <1>1, <2>0
    <3>2. x \in 1 .. Len(wire) + n /\ x - Len(wire) = k /\ ~(x \in 1 .. Len(wire))
      BY <1>1, <1>3, <2>0, <2>2, <3>1, SMTT(30)
    <3>3. wire'[x] = <<s, k>>
      BY <1>1, <2>2, <3>2
    <3> QED
      BY <3>2, <3>3
  <2>3. CASE s = sends + 1 /\ n < k
    <3>1. n # size
      BY <1>3, <2>3
    <3>2. PICK j \in DOMAIN io_vec_li' : RestNode(io_vec_li'[j], size, n)
      BY <3>1
    <3>3. io_vec_li'[j].send = s /\ io_vec_li'[j].from <= k
      BY <1>3, <2>3, <3>2 DEF RestNode
    <3> QED
      BY <3>3
  <2> QED
    BY <1>3, <2>0, <2>1, <2>2, <2>3, SMTT(30)
<1> QED
  BY <1>4, <1>5, <1>6, <1>7 DEF StreamInv

\* A new buffer is written up to its n-th byte, and the rest is queued.
LEMMA HandStream ==
  ASSUME StreamInv, sends \in Nat, NEW size \in Nat, NEW n \in 0 .. size,
         NEW f \in Nat, NEW m \in Nat, NEW v \in Nodes,
         v = [send |-> sends + 1, from |-> f, len |-> m],
         n = 0 \/ io_vec_li = <<>>,
         sends' = sends + 1, handed' = Append(handed, size),
         Extends(wire', wire, sends + 1, 1, n),
         \/ io_vec_li' = io_vec_li /\ n = size
         \/ /\ io_vec_li' = Append(io_vec_li, v)
            /\ f + m = size + 1
            /\ f = n + 1 \/ (f = 0 /\ n = 0)
  PROVE  StreamInv'
<1>1. /\ io_vec_li \in Seq(Nodes) /\ wire \in Seq(Nat \X Nat) /\ handed \in Seq(Nat)
      /\ Len(handed) = sends
      /\ DOMAIN io_vec_li = 1 .. Len(io_vec_li) /\ Len(io_vec_li) \in Nat
      /\ Len(wire) \in Nat
  BY LenProperties DEF StreamInv, StreamTypes
<1>2. /\ handed' \in Seq(Nat) /\ Len(handed') = sends' /\ handed'[sends + 1] = size
      /\ \A s \in 1 .. sends : handed'[s] = handed[s]
  BY <1>1, AppendProperties
<1>3. /\ wire' \in Seq(Nat \X Nat) /\ DOMAIN wire' = 1 .. Len(wire) + n
      /\ \A i \in DOMAIN wire : i \in DOMAIN wire' /\ wire'[i] = wire[i]
      /\ \A i \in DOMAIN wire' :
            \/ i \in DOMAIN wire /\ wire'[i] = wire[i]
            \/ i - Len(wire) \in 1 .. n /\ wire'[i] = <<sends + 1, i - Len(wire)>>
  <2>1. \A i \in Int : 1 + (i - Len(wire)) - 1 = i - Len(wire)
    BY <1>1
  <2>2. DOMAIN wire' \subseteq Int
    BY <1>1 DEF Extends
  <2> QED
    BY <2>1, <2>2 DEF Extends
<1>4. n = 0 \/ DOMAIN io_vec_li = {}
  OBVIOUS
<1>5. CASE io_vec_li' = io_vec_li /\ n = size
  BY <1>1, <1>2, <1>3, <1>4, <1>5, StreamGrows
<1>6. CASE /\ io_vec_li' = Append(io_vec_li, v)
           /\ f + m = size + 1
           /\ f = n + 1 \/ (f = 0 /\ n = 0)
  <2>1. RestNode(v, size, n)
    BY <1>6 DEF RestNode
  <2>0. /\ Append(io_vec_li, v) \in Seq(Nodes)
        /\ Len(Append(io_vec_li, v)) = Len(io_vec_li) + 1
        /\ \A i \in 1 .. Len(io_vec_li) : Append(io_vec_li, v)[i] = io_vec_li[i]
        /\ Append(io_vec_li, v)[Len(io_vec_li) + 1] = v
    BY <1>1, AppendProperties
  <2>2. /\ io_vec_li' \in Seq(Nodes) /\ Len(io_vec_li') = Len(io_vec_li) + 1
        /\ \A i \in 1 .. Len(io_vec_li) : io_vec_li'[i] = io_vec_li[i]
        /\ io_vec_li'[Len(io_vec_li) + 1] = v
    BY <1>6, <2>0, Zenon
  <2>3. DOMAIN io_vec_li' = 1 .. Len(io_vec_li) + 1
    BY <2>2, LenProperties
  <2>4. /\ \A j \in DOMAIN io_vec_li : j \in DOMAIN io_vec_li' /\ io_vec_li'[j] = io_vec_li[j]
        /\ \A j \in DOMAIN io_vec_li' :
              \/ j \in DOMAIN io_vec_li /\ io_vec_li'[j] = io_vec_li[j]
              \/ j = Len(io_vec_li) + 1 /\ io_vec_li'[j] = v
        /\ Len(io_vec_li) + 1 \in DOMAIN io_vec_li'
    BY <1>1, <2>2, <2>3
  <2>5. RestNode(io_vec_li'[Len(io_vec_li) + 1], size, n)
    BY <2>1, <2>2, Zenon
  <2>6. \A j \in DOMAIN io_vec_li' :
           \/ j \in DOMAIN io_vec_li /\ io_vec_li'[j] = io_vec_li[j]
           \/ j = Len(io_vec_li) + 1 /\ RestNode(io_vec_li'[j], size, n)
    BY <2>1, <2>4, Zenon
  <2>7. \E j \in DOMAIN io_vec_li' : RestNode(io_vec_li'[j], size, n)
    BY <2>4, <2>5, Zenon
  <2> QED
    BY <1>1, <1>2, <1>3, <1>4, <2>2, <2>4, <2>6, <2>7, StreamGrows, Zenon
<1> QED
  BY <1>5, <1>6

-----------------------------------------------------------------------------
(* Writing what is queued.                                                  *)

\* n bytes are taken from the first node: it is gone (d = 1), or it is advanced.
HeadTaken(n, d) ==
    /\ io_vec_li' \in Seq(Nodes)
    /\ Len(io_vec_li') = Len(io_vec_li) - d
    /\ \A j \in 1 .. Len(io_vec_li') : j > 1 \/ d = 1 => io_vec_li'[j] = io_vec_li[j + d]
    /\ d = 1 => n = io_vec_li[1].len
    /\ d = 0 => /\ io_vec_li'[1].send = io_vec_li[1].send
               /\ io_vec_li'[1].from = io_vec_li[1].from + n
               /\ io_vec_li'[1].len = io_vec_li[1].len - n

\* The bytes of the first node follow what is on the wire, and go before the others.
LEMMA HeadStream ==
  ASSUME StreamInv, io_vec_li # <<>>, UNCHANGED <<sends, handed>>,
         NEW n \in Nat, n <= io_vec_li[1].len, NEW d \in {0, 1}, HeadTaken(n, d),
         Extends(wire', wire, io_vec_li[1].send, io_vec_li[1].from, n)
  PROVE  StreamInv'
<1> DEFINE v == io_vec_li[1]
<1>1. /\ io_vec_li \in Seq(Nodes) /\ wire \in Seq(Nat \X Nat) /\ handed \in Seq(Nat)
      /\ Len(handed) = sends
      /\ DOMAIN io_vec_li = 1 .. Len(io_vec_li) /\ Len(io_vec_li) \in Nat \ {0}
      /\ DOMAIN wire = 1 .. Len(wire) /\ Len(wire) \in Nat /\ sends \in Nat
  BY LenProperties, EmptySeq DEF StreamInv, StreamTypes
<1>2. DOMAIN io_vec_li' = 1 .. Len(io_vec_li) - d /\ Len(io_vec_li') = Len(io_vec_li) - d
  BY LenProperties DEF HeadTaken
<1>3. /\ \A j \in DOMAIN io_vec_li : io_vec_li[j] \in Nodes
      /\ \A j \in DOMAIN io_vec_li' : io_vec_li'[j] \in Nodes
  <2>1. DOMAIN io_vec_li' = 1 .. Len(io_vec_li')
    BY <1>2
  <2> QED
    BY <1>1, <2>1, ElementOfSeq DEF HeadTaken
<1>4. 1 \in DOMAIN io_vec_li /\ v \in Nodes
  BY <1>1, <1>3
<1>5. /\ v.send \in 1 .. sends /\ v.from \in Nat /\ v.len \in Nat
      /\ v.from + v.len = handed[v.send] + 1
  BY <1>4 DEF StreamInv, QueueInv, Nodes
<1>6. \A j \in DOMAIN io_vec_li : j # 1 => v.send < io_vec_li[j].send
  <2> TAKE j \in DOMAIN io_vec_li
  <2>1. j # 1 => 1 < j
    BY <1>1
  <2> QED
    BY <1>4, <2>1 DEF StreamInv, QueueInv
<1>7. \A j \in DOMAIN io_vec_li' :
         \/ /\ j + d \in DOMAIN io_vec_li /\ j + d # 1
            /\ io_vec_li'[j] = io_vec_li[j + d]
         \/ /\ d = 0 /\ j = 1
            /\ io_vec_li'[j].send = v.send
            /\ io_vec_li'[j].from = v.from + n /\ io_vec_li'[j].len = v.len - n
  <2> TAKE j \in DOMAIN io_vec_li'
  <2>1. CASE d = 0 /\ j = 1
    BY <2>1 DEF HeadTaken
  <2>2. CASE d = 1 \/ j # 1
    <3>1. j \in Int /\ 1 <= j /\ j <= Len(io_vec_li) - d /\ d \in Int
      BY <1>1, <1>2
    <3>2. j + d \in DOMAIN io_vec_li /\ j + d # 1 /\ (j > 1 \/ d = 1)
      BY <1>1, <2>2, <3>1
    <3> QED
      BY <1>2, <3>2 DEF HeadTaken
  <2> QED
    BY <2>1, <2>2
<1>8. /\ wire' \in Seq(Nat \X Nat)
      /\ \A i \in DOMAIN wire : i \in DOMAIN wire' /\ wire'[i] = wire[i]
      /\ \A i \in DOMAIN wire' :
            \/ i \in DOMAIN wire /\ wire'[i] = wire[i]
            \/ /\ i - Len(wire) \in 1 .. n
               /\ wire'[i] = <<v.send, v.from + (i - Len(wire)) - 1>>
      /\ DOMAIN wire' = 1 .. Len(wire) + n
  BY DEF Extends
<1>14. DOMAIN wire' = 1 .. Len(wire) + n /\ \A i \in DOMAIN wire' : i \in Int
  BY <1>1, <1>8
<1> HIDE DEF v
<1>9. StreamTypes'
  BY <1>1, <1>8 DEF StreamTypes, HeadTaken
<1>10. QueueInv'
  <2>1. ASSUME NEW j \in DOMAIN io_vec_li'
        PROVE  /\ io_vec_li'[j].send \in 1 .. sends
               /\ io_vec_li'[j].from + io_vec_li'[j].len = handed[io_vec_li'[j].send] + 1
    <3>1. CASE j + d \in DOMAIN io_vec_li /\ io_vec_li'[j] = io_vec_li[j + d]
      BY <3>1 DEF StreamInv, QueueInv
    <3>2. CASE /\ io_vec_li'[j].send = v.send
               /\ io_vec_li'[j].from = v.from + n /\ io_vec_li'[j].len = v.len - n
      BY <1>5, <3>2
    <3> QED
      BY <1>7, <2>1, <3>1, <3>2
  <2>2. ASSUME NEW i \in DOMAIN io_vec_li', NEW j \in DOMAIN io_vec_li', i < j
        PROVE  io_vec_li'[i].send < io_vec_li'[j].send
    <3>1. i \in Int /\ j \in Int /\ 1 <= i /\ d \in Int
      BY <1>2
    <3>2. j + d \in DOMAIN io_vec_li /\ j + d # 1 /\ io_vec_li'[j] = io_vec_li[j + d]
      BY <1>7, <2>2, <3>1
    <3>3. CASE i + d \in DOMAIN io_vec_li /\ io_vec_li'[i] = io_vec_li[i + d]
      <4>1. i + d < j + d
        BY <2>2, <3>1
      <4> QED
        BY <3>2, <3>3, <4>1 DEF StreamInv, QueueInv
    <3>4. CASE io_vec_li'[i].send = v.send
      BY <1>6, <3>2, <3>4
    <3> QED
      BY <1>7, <2>2, <3>3, <3>4
  <2> QED
    BY <2>1, <2>2 DEF QueueInv
<1>11. \A i \in DOMAIN wire : /\ Before(wire[i], <<v.send, v.from>>)
                             /\ wire[i][1] \in Nat /\ wire[i][2] \in Nat
  <2>1. \A i \in DOMAIN wire : wire[i] \in Nat \X Nat
    BY <1>1, ElementOfSeq
  <2> QED
    BY <1>4, <2>1 DEF StreamInv, WireInv, v
<1>12. WireInv'
  <2>1. ASSUME NEW i \in DOMAIN wire'
        PROVE  wire'[i][1] \in 1 .. sends /\ wire'[i][2] \in 0 .. handed[wire'[i][1]]
    <3>1. CASE i \in DOMAIN wire /\ wire'[i] = wire[i]
      BY <3>1 DEF StreamInv, WireInv
    <3>2. CASE i - Len(wire) \in 1 .. n /\ wire'[i] = <<v.send, v.from + (i - Len(wire)) - 1>>
      <4>1. wire'[i][1] = v.send /\ wire'[i][2] = v.from + (i - Len(wire)) - 1
        BY <3>2
      <4>2. v.from + (i - Len(wire)) - 1 \in 0 .. v.from + v.len - 1
        BY <1>5, <3>2 DEF v
      <4>3. v.from + v.len - 1 = handed[v.send]
        <5>1. handed[v.send] \in Nat
          BY <1>1, <1>5, ElementOfSeq
        <5> QED
          BY <1>5, <5>1
      <4> QED
        BY <1>5, <4>1, <4>2, <4>3
    <3> QED
      BY <1>8, <2>1, <3>1, <3>2
  <2>2. ASSUME NEW i \in DOMAIN wire', NEW j \in DOMAIN wire', i < j
        PROVE  Before(wire'[i], wire'[j])
    <3>1. CASE i \in DOMAIN wire /\ wire'[i] = wire[i] /\ j \in DOMAIN wire /\ wire'[j] = wire[j]
      BY <2>2, <3>1 DEF StreamInv, WireInv
    <3>2. CASE /\ i \in DOMAIN wire /\ wire'[i] = wire[i]
               /\ j - Len(wire) \in 1 .. n
               /\ wire'[j] = <<v.send, v.from + (j - Len(wire)) - 1>>
      <4>1. v.from <= v.from + (j - Len(wire)) - 1
        BY <1>5, <3>2
      <4> QED
        BY <1>5, <1>11, <3>2, <4>1 DEF Before
    <3>3. CASE i - Len(wire) \in 1 .. n /\ wire'[i] = <<v.send, v.from + (i - Len(wire)) - 1>>
      <4>1. ~(j \in DOMAIN wire)
        BY <1>1, <1>14, <2>2, <3>3
      <4>2. j - Len(wire) \in 1 .. n /\ wire'[j] = <<v.send, v.from + (j - Len(wire)) - 1>>
        BY <1>8, <2>2, <4>1
      <4>3. v.from + (i - Len(wire)) - 1 < v.from + (j - Len(wire)) - 1
        BY <1>1, <1>5, <1>14, <2>2, SMTT(30)
      <4> QED
        BY <3>3, <4>2, <4>3 DEF Before
    <3> QED
      BY <1>8, <2>2, <3>1, <3>2, <3>3
  <2>3. ASSUME NEW i \in DOMAIN wire', NEW j \in DOMAIN io_vec_li'
        PROVE  Before(wire'[i], <<io_vec_li'[j].send, io_vec_li'[j].from>>)
    <3>1. CASE i \in DOMAIN wire /\ wire'[i] = wire[i]
      <4>1. CASE j + d \in DOMAIN io_vec_li /\ io_vec_li'[j] = io_vec_li[j + d]
        BY <3>1, <4>1 DEF StreamInv, WireInv
      <4>2. CASE io_vec_li'[j].send = v.send /\ io_vec_li'[j].from = v.from + n
        <5>1. v.from <= v.from + n
          BY <1>5
        <5> QED
          BY <1>5, <1>11, <3>1, <4>2, <5>1 DEF Before
      <4> QED
        BY <1>7, <2>3, <4>1, <4>2
    <3>2. CASE i - Len(wire) \in 1 .. n /\ wire'[i] = <<v.send, v.from + (i - Len(wire)) - 1>>
      <4>1. CASE j + d \in DOMAIN io_vec_li /\ j + d # 1 /\ io_vec_li'[j] = io_vec_li[j + d]
        BY <1>6, <3>2, <4>1 DEF Before
      <4>2. CASE io_vec_li'[j].send = v.send /\ io_vec_li'[j].from = v.from + n
        <5>1. v.from + (i - Len(wire)) - 1 < v.from + n
          BY <1>5, <3>2
        <5> QED
          BY <3>2, <4>2, <5>1 DEF Before
      <4> QED
        BY <1>7, <2>3, <4>1, <4>2
    <3> QED
      BY <1>8, <2>3, <3>1, <3>2
  <2> QED
    BY <2>1, <2>2, <2>3 DEF WireInv
<1>13. NoneLost'
  <2> SUFFICES ASSUME NEW s \in 1 .. sends, NEW k \in 1 .. handed[s]
               PROVE  \/ \E i \in DOMAIN wire' : wire'[i] = <<s, k>>
                      \/ \E j \in DOMAIN io_vec_li' :
                            io_vec_li'[j].send = s /\ io_vec_li'[j].from <= k
    BY DEF NoneLost
  <2>1. \/ \E i \in DOMAIN wire : wire[i] = <<s, k>>
        \/ \E j \in DOMAIN io_vec_li : io_vec_li[j].send = s /\ io_vec_li[j].from <= k
    BY DEF StreamInv, NoneLost
  <2>2. CASE \E i \in DOMAIN wire : wire[i] = <<s, k>>
    BY <1>8, <2>2
  <2>3. ASSUME NEW j \in DOMAIN io_vec_li, io_vec_li[j].send = s, io_vec_li[j].from <= k, j # 1
        PROVE  \E x \in DOMAIN io_vec_li' : io_vec_li'[x].send = s /\ io_vec_li'[x].from <= k
    <3>1. j - d \in DOMAIN io_vec_li' /\ (j - d > 1 \/ d = 1) /\ (j - d) + d = j
      BY <1>1, <1>2, <2>3
    <3>2. io_vec_li'[j - d] = io_vec_li[j]
      BY <1>2, <3>1 DEF HeadTaken
    <3> QED
      BY <2>3, <3>1, <3>2
  <2>4. CASE v.send = s /\ v.from <= k
    <3>0. k \in Int /\ k <= v.from + v.len - 1
      <4>1. handed[v.send] \in Nat
        BY <1>1, <1>5, ElementOfSeq
      <4> QED
        BY <1>5, <2>4, <4>1
    <3>1. CASE k < v.from + n
      <4>1. PICK x \in Int : x = Len(wire) + (k - v.from + 1)
        BY <1>1, <1>5, <3>0, SMTT(30)
      <4>2. x - Len(wire) \in 1 .. n /\ x \in 1 .. Len(wire) + n /\ ~(x \in 1 .. Len(wire))
            /\ v.from + (x - Len(wire)) - 1 = k
        <5>1. x - Len(wire) = k - v.from + 1
          BY <1>1, <1>5, <3>0, <4>1, SMTT(30)
        <5>2. k - v.from + 1 \in 1 .. n
          BY <1>5, <2>4, <3>0, <3>1
        <5> QED
          <6>1. ASSUME NEW l \in Nat, x - l \in 1 .. n
                PROVE  x \in 1 .. l + n /\ ~(x \in 1 .. l)
            BY <6>1
          <6>2. v.from + (x - Len(wire)) - 1 = k
            BY <1>5, <3>0, <5>1
          <6> QED
            BY <1>1, <5>1, <5>2, <6>1, <6>2
      <4>3. wire'[x] = <<s, k>>
        BY <1>1, <1>8, <2>4, <4>2
      <4> QED
        BY <1>8, <4>2, <4>3
    <3>2. CASE v.from + n <= k
      <4>1. d = 0
        BY <1>5, <3>0, <3>2 DEF HeadTaken, v
      <4>2. 1 \in DOMAIN io_vec_li' /\ io_vec_li'[1].send = s /\ io_vec_li'[1].from <= k
        BY <1>1, <1>2, <2>4, <3>2, <4>1 DEF HeadTaken, v
      <4> QED
        BY <4>2
    <3> QED
      BY <1>5, <3>0, <3>1, <3>2
  <2> QED
    BY <2>1, <2>2, <2>3, <2>4 DEF v
<1> QED
  BY <1>9, <1>10, <1>12, <1>13 DEF StreamInv

-----------------------------------------------------------------------------
\* What a step that writes, queues and takes nothing leaves as it is.
LEMMA StreamStays ==
  ASSUME StreamInv, UNCHANGED <<io_vec_li, wire, handed, sends>>
  PROVE  StreamInv'
BY DEF StreamInv, StreamTypes, QueueInv, WireInv, NoneLost

-----------------------------------------------------------------------------
\* Nothing is in the queue at the start.
LEMMA InitInv == ClientInit => IInv
<1> SUFFICES ASSUME ClientInit
             PROVE  IInv
  OBVIOUS
<1>1. Init /\ room \in Nat
  BY SendAssumption DEF ClientInit, Init
<1>2. status \in Statuses /\ up \in BOOLEAN
  BY DEF ClientInit, Statuses
<1>3. /\ io_vec_li = <<>> /\ handed = <<>> /\ wire = <<>> /\ sends = 0
      /\ reported = "none"
  BY <1>1 DEF Init
<1>4. TypeInv
  <2>1. {writing, closed, input, edge, noSpace, skipped} \subseteq BOOLEAN
    BY <1>1, Zenon DEF Init
  <2> QED
    BY <1>1, <1>2, <1>3, <2>1 DEF TypeInv
<1>5. StreamInv
  <2>1. StreamTypes
    BY <1>3, EmptySeq DEF StreamTypes
  <2>2. QueueInv /\ WireInv /\ NoneLost
    BY <1>3 DEF QueueInv, WireInv, NoneLost
  <2> QED
    BY <2>1, <2>2 DEF StreamInv
<1>6. DriveInv
  BY <1>3 DEF DriveInv
<1> QED
  BY <1>4, <1>5, <1>6 DEF IInv

\* The size_t of a number that fits.
LEMMA SizeOf ==
  ASSUME NEW m \in Nat, NEW x \in 0 .. m - 1
  PROVE  (x + m) % m = x /\ x % m = x /\ m % m = 0
OBVIOUS

\* A first write in part is followed by a node of the rest; a failed one leaves a node
\* that is one byte longer than the buffer and starts before it.
LEMMA SendBufStream ==
  ASSUME NEW size \in Sizes, IInv, SendInLoopBuf(size)
  PROVE  StreamInv' /\ sends' \in Nat
<1> DEFINE direct == io_vec_li = <<>>
           failed == direct /\ size > 0 /\ room = 0
           n == IF direct THEN Least(size, room) ELSE 0
           send_len == IF failed THEN SizeT - 1 ELSE n
           rest == (size - send_len + SizeT) % SizeT
           f == (1 + send_len) % SizeT
           v == [send |-> sends + 1, from |-> f, len |-> rest]
           b == [send |-> sends + 1, from |-> 1, len |-> n]
<1>1. size \in 0 .. SizeT - 2 /\ SizeT \in Nat /\ room \in Nat /\ sends \in Nat
  BY SendAssumption DEF IInv, TypeInv
<1>2. n \in 0 .. size /\ size \in Nat
  BY <1>1 DEF Least
<1>3. /\ wire' = wire \o Bytes(b)
      /\ sends' = sends + 1 /\ handed' = Append(handed, size)
      /\ \/ rest = 0 /\ io_vec_li' = io_vec_li
         \/ rest # 0 /\ io_vec_li' = Append(io_vec_li, v)
  BY DEF SendInLoopBuf, Hand
<1>4. \/ /\ failed /\ n = 0 /\ rest = size + 1 /\ f = 0
      \/ /\ rest = size - n /\ f = n + 1
  <2>1. CASE failed
    <3>1. n = 0
      BY <1>1, <2>1 DEF Least
    <3>2. size - send_len + SizeT = (size + 1) /\ 1 + send_len = SizeT
      BY <1>1, <2>1
    <3>3. size + 1 \in 0 .. SizeT - 1
      BY <1>1
    <3> HIDE DEF n, send_len
    <3> QED
      BY <1>1, <2>1, <3>1, <3>2, <3>3, SizeOf
  <2>2. CASE ~failed
    <3>1. send_len = n
      BY <2>2
    <3> HIDE DEF n, send_len
    <3>2. size - n \in 0 .. SizeT - 1 /\ 1 + n \in 0 .. SizeT - 1
      BY <1>1, <1>2
    <3>3. rest = (size - n + SizeT) % SizeT /\ f = (1 + n) % SizeT
      BY <3>1
    <3>4. rest = size - n /\ f = 1 + n
      BY <1>1, <3>2, <3>3, SizeOf
    <3> QED
      BY <1>2, <3>4
  <2> QED
    BY <2>1, <2>2
<1>5. n = 0 \/ io_vec_li = <<>>
  OBVIOUS
<1> HIDE DEF direct, failed, n, rest, f
<1>6. rest \in Nat /\ f \in Nat /\ n \in Nat
  BY <1>1, <1>2, <1>4
<1>7. v \in Nodes /\ b \in Nodes /\ b.send = sends + 1 /\ b.from = 1 /\ b.len = n
  BY <1>1, <1>6 DEF Nodes
<1>8. Extends(wire', wire, sends + 1, 1, n)
  <2>1. wire \in Seq(Nat \X Nat)
    BY DEF IInv, StreamInv, StreamTypes
  <2> HIDE DEF b
  <2>2. Extends(wire', wire, b.send, b.from, b.len)
    BY <1>3, <1>7, <2>1, WireGrows
  <2> QED
    BY <1>7, <2>2, Zenon
<1>9. \/ io_vec_li' = io_vec_li /\ n = size
      \/ /\ io_vec_li' = Append(io_vec_li, v)
         /\ f + rest = size + 1
         /\ f = n + 1 \/ (f = 0 /\ n = 0)
  <2>1. CASE rest = 0 /\ io_vec_li' = io_vec_li
    BY <1>1, <1>2, <1>4, <2>1
  <2>2. CASE io_vec_li' = Append(io_vec_li, v)
    <3>1. f + rest = size + 1 /\ (f = n + 1 \/ (f = 0 /\ n = 0))
      BY <1>1, <1>2, <1>4
    <3> QED
      BY <2>2, <3>1
  <2> QED
    BY <1>3, <2>1, <2>2
<1> QED
  BY <1>1, <1>2, <1>3, <1>5, <1>6, <1>7, <1>8, <1>9, HandStream DEF IInv

\* A first write in part, or a failed one, leaves a socket that asks for EPOLLOUT and
\* tells of its room, at once or later.
LEMMA SendBufKeeps ==
  ASSUME NEW size \in Sizes, IInv, Ready, SendInLoopBuf(size), UNCHANGED <<status, up>>
  PROVE  IInv'
<1> DEFINE direct == io_vec_li = <<>>
           n == IF direct THEN Least(size, room) ELSE 0
<1>1. size \in Nat /\ room \in Nat
  BY SendAssumption DEF IInv, TypeInv
<1>2. room' = room - n /\ n \in 0 .. room
  BY <1>1 DEF SendInLoopBuf, Least
<1>3. room' \in Nat
  BY <1>1, <1>2
<1>4. /\ UNCHANGED <<closed, input, reported>>
      /\ reported # "spin" /\ reported # "writing" /\ ~closed
  BY DEF SendInLoopBuf, Runs
<1>5. StreamInv' /\ sends' \in Nat
  BY SendBufStream
<1>6. \/ UNCHANGED <<io_vec_li, writing, edge, noSpace, skipped>>
      \/ EnableWriting(TRUE, room') /\ skipped' = (skipped /\ ~edge')
  BY DEF SendInLoopBuf
<1>7. CASE UNCHANGED <<io_vec_li, writing, edge, noSpace, skipped>>
  BY <1>3, <1>4, <1>5, <1>7 DEF IInv, TypeInv, DriveInv
<1>8. CASE EnableWriting(TRUE, room') /\ skipped' = (skipped /\ ~edge')
  <2>3. room' > 0 \/ room' = 0
    BY <1>3
  <2>1. writing' = TRUE /\ (edge' \/ noSpace')
    BY <2>3, <1>8, Zenon DEF EnableWriting
  <2>2. {edge', noSpace', skipped'} \subseteq BOOLEAN
    BY <1>8 DEF EnableWriting, IInv, TypeInv
  <2>4. TypeInv'
    BY <1>3, <1>4, <1>5, <2>1, <2>2 DEF IInv, TypeInv
  <2>5. DriveInv'
    BY <1>4, <2>1 DEF DriveInv, Ready
  <2> QED
    BY <1>5, <2>4, <2>5 DEF IInv
<1> QED
  BY <1>6, <1>7, <1>8

\* The same for a buffer that is queued whatever the socket says.
LEMMA SendListKeeps ==
  ASSUME NEW size \in Sizes, IInv, Ready, SendInLoopList(size), UNCHANGED <<status, up>>
  PROVE  IInv'
<1> DEFINE v == [send |-> sends + 1, from |-> 1, len |-> size]
<1>1. /\ UNCHANGED <<closed, room, input, reported>>
      /\ reported # "spin" /\ reported # "writing" /\ ~closed
  BY DEF SendInLoopList, Runs
<1>2. /\ sends' = sends + 1 /\ handed' = Append(handed, size) /\ wire' = wire
      /\ io_vec_li' = Append(io_vec_li, v)
  BY DEF SendInLoopList, Hand
<1>3. size \in Nat /\ sends \in Nat /\ v \in Nodes
  BY SendAssumption DEF IInv, TypeInv, Nodes
<1>4. Extends(wire', wire, sends + 1, 1, 0)
  <2>1. wire \in Seq(Nat \X Nat) /\ DOMAIN wire = 1 .. Len(wire) /\ Len(wire) \in Nat
    BY LenProperties DEF IInv, StreamInv, StreamTypes
  <2>2. Len(wire) + 0 = Len(wire)
    BY <2>1
  <2> QED
    BY <1>2, <2>1, <2>2 DEF Extends
<1>5. StreamInv' /\ sends' \in Nat
  <2>1. 1 + size = size + 1 /\ 1 = 0 + 1 /\ 0 \in 0 .. size /\ 1 \in Nat
    BY <1>3
  <2> HIDE DEF v
  <2>2. StreamInv'
    <3>1. ASSUME NEW w \in Nodes, w = [send |-> sends + 1, from |-> 1, len |-> size],
                 io_vec_li' = Append(io_vec_li, w)
          PROVE  StreamInv'
      BY <1>2, <1>3, <1>4, <2>1, <3>1, HandStream DEF IInv
    <3> QED
      BY <1>2, <1>3, <3>1 DEF v
  <2> QED
    BY <1>2, <1>3, <2>2
<1>6. room > 0 \/ room = 0
  BY DEF IInv, TypeInv
<1>7. writing' = TRUE /\ (edge' \/ noSpace')
  BY <1>6, Zenon DEF SendInLoopList, EnableWriting
<1>8. {edge', noSpace', skipped'} \subseteq BOOLEAN
  BY DEF SendInLoopList, EnableWriting, IInv, TypeInv
<1>9. TypeInv'
  BY <1>1, <1>5, <1>7, <1>8 DEF IInv, TypeInv
<1>10. DriveInv'
  BY <1>1, <1>7 DEF DriveInv, Ready
<1> QED
  BY <1>5, <1>9, <1>10 DEF IInv

\* The first node is written to its end, or to the end of the room.
LEMMA WriteHeadStream ==
  ASSUME IInv, WriteHead, UNCHANGED <<handed, sends>>
  PROVE  StreamInv' /\ room' \in Nat
<1> DEFINE v == Head(io_vec_li)
           n == Least(v.len, room)
           b == [v EXCEPT !.len = n]
           w == Advance(v, n)
<1>1. /\ wire' = wire \o Bytes(b)
      /\ io_vec_li' = IF n < v.len THEN <<w>> \o Tail(io_vec_li) ELSE Tail(io_vec_li)
      /\ room' = room - n
  BY DEF WriteHead
<1>2. io_vec_li # <<>> /\ io_vec_li \in Seq(Nodes) /\ wire \in Seq(Nat \X Nat) /\ room \in Nat
  BY DEF WriteHead, Pending, IInv, TypeInv, StreamInv, StreamTypes
<1>3. /\ v \in Nodes /\ v = io_vec_li[1] /\ Tail(io_vec_li) \in Seq(Nodes)
      /\ Len(Tail(io_vec_li)) = Len(io_vec_li) - 1 /\ Len(io_vec_li) \in Nat \ {0}
      /\ \A i \in 1 .. Len(Tail(io_vec_li)) : Tail(io_vec_li)[i] = io_vec_li[i + 1]
  BY <1>2, HeadTailProperties, EmptySeq
<1> HIDE DEF v
<1>4. v.len \in Nat /\ v.from \in Nat /\ v.send \in Nat
  BY <1>3 DEF Nodes
<1>5. n \in Nat /\ n <= v.len /\ n <= room
  BY <1>2, <1>4 DEF Least
<1> HIDE DEF n
<1>6. b \in Nodes /\ b.send = v.send /\ b.from = v.from /\ b.len = n
  BY <1>3, <1>4, <1>5 DEF Nodes
<1>7. Extends(wire', wire, v.send, v.from, n)
  <2> HIDE DEF b
  <2>1. Extends(wire', wire, b.send, b.from, b.len)
    BY <1>1, <1>2, <1>6, WireGrows
  <2> QED
    BY <1>6, <2>1, Zenon
<1>8. CASE n < v.len
  <2>1. w \in Nodes /\ w.send = v.send /\ w.from = v.from + n /\ w.len = v.len - n
    <3>1. v.from + n \in Nat /\ v.len - n \in Nat
      BY <1>4, <1>5
    <3>2. w = [v EXCEPT !.from = v.from + n, !.len = v.len - n]
      BY DEF Advance
    <3> HIDE DEF w
    <3>3. v \in [send : Nat, from : Nat, len : Nat]
      BY <1>3 DEF Nodes
    <3>4. w \in [send : Nat, from : Nat, len : Nat]
      BY <3>1, <3>2, <3>3
    <3> QED
      BY <3>2, <3>3, <3>4 DEF Nodes
  <2> HIDE DEF w
  <2>2. <<w>> \in Seq(Nodes) /\ Len(<<w>>) = 1 /\ <<w>>[1] = w
    BY <2>1
  <2>3. /\ io_vec_li' \in Seq(Nodes) /\ Len(io_vec_li') = 1 + Len(Tail(io_vec_li))
        /\ \A i \in 1 .. 1 + Len(Tail(io_vec_li)) :
              io_vec_li'[i] = IF i <= 1 THEN <<w>>[i] ELSE Tail(io_vec_li)[i - 1]
    BY <1>1, <1>3, <1>8, <2>2, ConcatProperties
  <2>4. Len(io_vec_li') = Len(io_vec_li) - 0
    BY <1>3, <2>3
  <2>5. io_vec_li'[1] = w
    BY <1>3, <2>2, <2>3
  <2>6. \A j \in 1 .. Len(io_vec_li') : j > 1 => io_vec_li'[j] = io_vec_li[j + 0]
    <3> TAKE j \in 1 .. Len(io_vec_li')
    <3> HAVE j > 1
    <3>1. j - 1 \in 1 .. Len(Tail(io_vec_li)) /\ (j - 1) + 1 = j /\ j + 0 = j /\ ~(j <= 1)
          /\ j \in 1 .. 1 + Len(Tail(io_vec_li))
      BY <1>3, <2>3
    <3> QED
      BY <1>3, <2>3, <3>1
  <2>7. HeadTaken(n, 0)
    BY <1>3, <2>1, <2>3, <2>4, <2>5, <2>6 DEF HeadTaken
  <2>8. StreamInv'
    BY <1>2, <1>3, <1>5, <1>7, <2>7, HeadStream DEF IInv
  <2> QED
    BY <1>1, <1>2, <1>5, <2>8
<1>9. CASE ~(n < v.len)
  <2>1. n = v.len
    BY <1>4, <1>5, <1>9
  <2>2. io_vec_li' = Tail(io_vec_li)
    BY <1>1, <1>9
  <2>3. HeadTaken(n, 1)
    BY <1>3, <2>1, <2>2 DEF HeadTaken
  <2>4. StreamInv'
    BY <1>2, <1>3, <1>5, <1>7, <2>3, HeadStream DEF IInv
  <2> QED
    BY <1>1, <1>2, <1>5, <2>4
<1> QED
  BY <1>8, <1>9

\* OnWrite goes on, or has taken everything, or leaves the queue to a full socket, which
\* tells of its next room: the handler was called, so EPOLLOUT was and stays asked for;
\* or it finds empty buffers alone.
LEMMA WriteKeeps ==
  ASSUME IInv, Write
  PROVE  IInv'
<1>1. /\ ~closed /\ reported \in {"out", "writing"} /\ writing /\ Ready
      /\ UNCHANGED <<closed, input, skipped, handed, sends, status, up>>
      /\ WriteHead \/ WriteFull \/ WriteNothing \/ WriteDone
  BY DEF Write, Established, OnWrite, IInv, DriveInv
<1>2. CASE WriteHead
  <2>1. StreamInv' /\ room' \in Nat
    BY <1>1, <1>2, WriteHeadStream
  <2>2. reported' = "writing" /\ UNCHANGED <<writing, edge, noSpace>>
    BY <1>2 DEF WriteHead
  <2> QED
    BY <1>1, <2>1, <2>2 DEF IInv, TypeInv, DriveInv, Ready
<1>3. CASE WriteFull
  <2>1. /\ reported' = "none" /\ noSpace' = TRUE
        /\ UNCHANGED <<io_vec_li, writing, room, edge, wire>>
    BY <1>3 DEF WriteFull
  <2>2. StreamInv'
    BY <1>1, <2>1, StreamStays DEF IInv
  <2> QED
    BY <1>1, <2>1, <2>2 DEF IInv, TypeInv, DriveInv, Ready
<1>4. CASE WriteNothing
  <2>1. /\ reported' = "spin" /\ io_vec_li # <<>> /\ ~Pending
        /\ UNCHANGED <<io_vec_li, writing, room, edge, noSpace, wire>>
    BY <1>4 DEF WriteNothing
  <2>2. StreamInv'
    BY <1>1, <2>1, StreamStays DEF IInv
  <2>3. EmptyQueued
    <3>1. io_vec_li \in Seq(Nodes)
      BY DEF IInv, StreamInv, StreamTypes
    <3>2. 1 \in DOMAIN io_vec_li /\ io_vec_li[1] \in Nodes
      <4>1. Len(io_vec_li) \in Nat \ {0} /\ DOMAIN io_vec_li = 1 .. Len(io_vec_li)
        BY <2>1, <3>1, EmptySeq, LenProperties
      <4>2. 1 \in 1 .. Len(io_vec_li)
        BY <4>1
      <4> QED
        BY <3>1, <4>1, <4>2, ElementOfSeq
    <3>3. io_vec_li[1].len \in Nat /\ ~(io_vec_li[1].len > 0)
      BY <2>1, <3>2 DEF Pending, Nodes
    <3> QED
      BY <3>2, <3>3 DEF EmptyQueued
  <2>4. EmptyQueued'
    BY <2>1, <2>3 DEF EmptyQueued
  <2>5. TypeInv'
    BY <1>1, <2>1 DEF IInv, TypeInv
  <2>6. DriveInv'
    BY <1>1, <2>1, <2>4 DEF DriveInv, Ready
  <2> QED
    BY <2>2, <2>5, <2>6 DEF IInv
<1>5. CASE WriteDone
  <2>1. /\ io_vec_li' = <<>> /\ reported' = "none" /\ EnableWriting(FALSE, room)
        /\ UNCHANGED <<io_vec_li, room, wire>>
    BY <1>5 DEF WriteDone
  <2>2. StreamInv'
    BY <1>1, <2>1, StreamStays DEF IInv
  <2>3. {writing', edge', noSpace'} \subseteq BOOLEAN
    BY <2>1 DEF EnableWriting, IInv, TypeInv
  <2> QED
    BY <1>1, <2>1, <2>2, <2>3 DEF IInv, TypeInv, DriveInv
<1> QED
  BY <1>1, <1>2, <1>3, <1>4, <1>5

\* epoll_wait turns the edge into a report, or into the socket's promise to tell.
LEMMA WaitKeeps ==
  ASSUME IInv, Wait
  PROVE  IInv'
<1>1. room > 0 \/ room = 0
  BY DEF IInv, TypeInv
<1>2. /\ ~closed /\ edge /\ reported = "none" /\ edge' = FALSE
      /\ noSpace' = (noSpace \/ room = 0)
      /\ UNCHANGED <<io_vec_li, writing, closed, room, input, handed, sends, status, up>>
      /\ skipped' = (skipped \/ (input /\ writing /\ room > 0))
      /\ reported' = IF input THEN "in" ELSE IF writing /\ room > 0 THEN "out" ELSE "none"
  BY Zenon DEF Wait, Established, EpollWait
<1>3. TypeInv'
  BY <1>2 DEF IInv, TypeInv
<1>5. reported' # "spin" /\ reported' # "writing"
  BY <1>2
<1>4. DriveInv'
  BY <1>1, <1>2, <1>5, Zenon DEF IInv, TypeInv, DriveInv
<1>6. StreamInv'
  <2>1. UNCHANGED <<io_vec_li, wire, handed, sends>>
    BY Zenon DEF Wait, Established, EpollWait
  <2> QED
    BY <2>1, StreamStays DEF IInv
<1> QED
  BY <1>3, <1>4, <1>6 DEF IInv

\* The steps of the peer, and OnRead: an arriving edge is one more.
LEMMA PeerKeeps ==
  ASSUME IInv, Peer \/ Read
  PROVE  IInv'
<1>0. UNCHANGED <<io_vec_li, wire, handed, sends>>
  BY DEF Peer, Read, Established, PeerReads, PeerSends, OnRead
<1>s. StreamInv' /\ (EmptyQueued => EmptyQueued')
  BY <1>0, StreamStays DEF IInv, EmptyQueued
<1>1. CASE Established(PeerReads)
  BY <1>s, <1>1, SendAssumption DEF Established, PeerReads, IInv, TypeInv, DriveInv
<1>2. CASE Established(PeerSends)
  BY <1>s, <1>2 DEF Established, PeerSends, IInv, TypeInv, DriveInv
<1>3. CASE Read
  BY <1>s, <1>3 DEF Read, Established, OnRead, IInv, TypeInv, DriveInv
<1> QED
  BY <1>1, <1>2, <1>3 DEF Peer, Established

\* The steps of a client that is not connected yet, when nothing is queued, and the close.
LEMMA ConnectKeeps ==
  ASSUME IInv, Connect \/ Establish \/ OnReadConnecting \/ OnWriteConnecting \/ ClientOnClose
  PROVE  IInv'
<1>0. UNCHANGED <<io_vec_li, wire, handed, sends>>
  BY DEF Connect, Establish, OnReadConnecting, OnWriteConnecting, ClientOnClose, OnClose
<1>s. StreamInv' /\ (EmptyQueued => EmptyQueued')
  BY <1>0, StreamStays DEF IInv, EmptyQueued
<1> USE DEF IInv, TypeInv, DriveInv, Statuses, UpdateConnectionStatus
<1>1. CASE Connect
  BY <1>s, <1>1, SendAssumption DEF Connect
<1>2. CASE Establish
  BY <1>s, <1>2, SendAssumption DEF Establish
<1>3. CASE OnReadConnecting
  BY <1>s, <1>3 DEF OnReadConnecting
<1>4. CASE OnWriteConnecting
  BY <1>s, <1>4 DEF OnWriteConnecting
<1>5. CASE ClientOnClose
  BY <1>s, <1>5 DEF ClientOnClose, OnClose
<1> QED
  BY <1>1, <1>2, <1>3, <1>4, <1>5

\* Every step keeps the invariant.
LEMMA NextKeeps == IInv /\ [Next]_vars => IInv'
<1> SUFFICES ASSUME IInv, [Next]_vars
             PROVE  IInv'
  OBVIOUS
<1>1. CASE Sent
  <2>1. PICK size \in Sizes :
           Ready /\ Established(SendInLoopBuf(size) \/ SendInLoopList(size))
    BY <1>1 DEF Sent
  <2> QED
    BY <2>1, SendBufKeeps, SendListKeeps DEF Established
<1>2. CASE UNCHANGED vars
  <2>1. StreamInv' /\ (EmptyQueued => EmptyQueued')
    BY <1>2, StreamStays DEF vars, sendVars, IInv, EmptyQueued
  <2> QED
    BY <1>2, <2>1 DEF vars, sendVars, IInv, TypeInv, DriveInv
<1> QED
  BY <1>1, <1>2, WriteKeeps, WaitKeeps, PeerKeeps, ConnectKeeps DEF Next

\* The types, and that what is queued is driven, hold in every state.
LEMMA Invariance == Spec => []IInv
<1> QED
  BY InitInv, NextKeeps, PTL DEF Spec

-----------------------------------------------------------------------------
\* What is queued always has an edge, a report or a full socket's promise to write it,
\* unless an EPOLLOUT was skipped (EventLoop.cc:63-70, TcpConnection.cc:101-119, 185, 226).
THEOREM QueueStaysDriven == Spec => []QueueIsDriven
<1>1. IInv => QueueIsDriven
  BY DEF IInv, DriveInv, QueueIsDriven
<1> QED
  BY <1>1, Invariance, PTL

\* The invariant says where every byte is.
LEMMA StreamFollows == StreamInv => StreamInOrder
<1> SUFFICES ASSUME StreamInv
             PROVE  StreamInOrder
  OBVIOUS
<1>1. /\ \A i \in DOMAIN io_vec_li : io_vec_li[i] \in Nodes
      /\ \A i \in DOMAIN wire : wire[i] \in Nat \X Nat
      /\ \A s \in 1 .. sends : handed[s] \in Nat
  BY ElementOfSeq, LenProperties DEF StreamInv, StreamTypes
<1>2. ASSUME NEW i \in DOMAIN io_vec_li
      PROVE  /\ io_vec_li[i].send \in 1 .. sends /\ io_vec_li[i].from \in Nat
             /\ io_vec_li[i].from .. io_vec_li[i].from + io_vec_li[i].len - 1
                  = io_vec_li[i].from .. handed[io_vec_li[i].send]
  <2>1. /\ io_vec_li[i].send \in 1 .. sends
        /\ io_vec_li[i].from + io_vec_li[i].len = handed[io_vec_li[i].send] + 1
    BY DEF StreamInv, QueueInv
  <2>2. handed[io_vec_li[i].send] \in Nat /\ io_vec_li[i].from \in Nat /\ io_vec_li[i].len \in Nat
    BY <1>1, <2>1 DEF Nodes
  <2>3. io_vec_li[i].from + io_vec_li[i].len - 1 = handed[io_vec_li[i].send]
    BY <2>1, <2>2
  <2> QED
    BY <2>1, <2>2, <2>3
<1>8. ASSUME NEW j \in DOMAIN io_vec_li, NEW c \in NodeBytes(io_vec_li[j])
      PROVE  \E x \in io_vec_li[j].from .. handed[io_vec_li[j].send] :
                c = <<io_vec_li[j].send, x>>
  <2>1. c \in {io_vec_li[j].send} \X (io_vec_li[j].from .. handed[io_vec_li[j].send])
    BY <1>2, <1>8, Zenon DEF NodeBytes
  <2> QED
    BY <2>1
<1>3. \A b \in WireBytes, c \in QueuedBytes : Before(b, c)
  <2> SUFFICES ASSUME NEW i \in DOMAIN wire, NEW j \in DOMAIN io_vec_li,
                      NEW c \in NodeBytes(io_vec_li[j])
               PROVE  Before(wire[i], c)
    BY DEF WireBytes, QueuedBytes
  <2>1. PICK x \in io_vec_li[j].from .. handed[io_vec_li[j].send] : c = <<io_vec_li[j].send, x>>
    BY <1>8
  <2>2. Before(wire[i], <<io_vec_li[j].send, io_vec_li[j].from>>)
    BY DEF StreamInv, WireInv
  <2>3. /\ io_vec_li[j].send \in Int /\ io_vec_li[j].from \in Int /\ io_vec_li[j].from <= x
        /\ x \in Int /\ wire[i][1] \in Int /\ wire[i][2] \in Int
    BY <1>1, <1>2, <2>1
  <2> QED
    BY <2>1, <2>2, <2>3 DEF Before
<1>4. ASSUME NEW b \in WireBytes, ~IsStray(b)
      PROVE  b \in HandedBytes
  <2>1. PICK i \in DOMAIN wire : b = wire[i]
    BY DEF WireBytes
  <2>2. b[1] \in 1 .. sends /\ b[2] \in 0 .. handed[b[1]] /\ b = <<b[1], b[2]>>
    BY <1>1, <2>1 DEF StreamInv, WireInv
  <2>3. b[2] \in 1 .. handed[b[1]]
    BY <1>1, <1>4, <2>2 DEF IsStray
  <2> QED
    BY <2>2, <2>3 DEF HandedBytes
<1>5. ASSUME NEW b \in QueuedBytes, ~IsStray(b)
      PROVE  b \in HandedBytes
  <2>1. PICK j \in DOMAIN io_vec_li : b \in NodeBytes(io_vec_li[j])
    BY DEF QueuedBytes
  <2>2. PICK x \in io_vec_li[j].from .. handed[io_vec_li[j].send] : b = <<io_vec_li[j].send, x>>
    BY <1>8, <2>1
  <2>3. x # 0
    BY <1>5, <2>2 DEF IsStray
  <2>4. x \in 1 .. handed[io_vec_li[j].send]
    BY <1>1, <1>2, <2>2, <2>3
  <2> QED
    BY <1>2, <2>2, <2>4 DEF HandedBytes
<1>6. ASSUME NEW b \in HandedBytes
      PROVE  b \in WireBytes \cup QueuedBytes /\ ~IsStray(b)
  <2>1. PICK s \in 1 .. sends : b \in {s} \X (1 .. handed[s])
    BY DEF HandedBytes
  <2>2. PICK k \in 1 .. handed[s] : b = <<s, k>>
    BY <2>1
  <2>3. k \in Int /\ k # 0 /\ b[2] = k
    BY <1>1, <2>2
  <2>4. CASE \E i \in DOMAIN wire : wire[i] = <<s, k>>
    BY <2>2, <2>3, <2>4 DEF WireBytes, IsStray
  <2>5. CASE \E j \in DOMAIN io_vec_li : io_vec_li[j].send = s /\ io_vec_li[j].from <= k
    <3>1. PICK j \in DOMAIN io_vec_li : io_vec_li[j].send = s /\ io_vec_li[j].from <= k
      BY <2>5
    <3>2. k \in io_vec_li[j].from .. handed[s]
      BY <1>1, <1>2, <2>3, <3>1
    <3>3. b \in NodeBytes(io_vec_li[j])
      BY <1>2, <2>2, <3>1, <3>2 DEF NodeBytes
    <3> QED
      BY <2>3, <3>3 DEF QueuedBytes, IsStray
  <2> QED
    BY <2>4, <2>5 DEF StreamInv, NoneLost
<1>7. {b \in WireBytes \cup QueuedBytes : ~IsStray(b)} = HandedBytes
  BY <1>4, <1>5, <1>6
<1> QED
  BY <1>3, <1>7 DEF StreamInOrder, StreamInv, QueueInv, WireInv

\* What is on the wire and what is queued is what was handed to Send, in its order, each
\* byte once, but for the byte before a buffer whose first write failed (TcpConnection.cc:
\* 104-121, 196-227).
THEOREM StreamStaysInOrder == Spec => []StreamInOrder
<1>1. IInv => StreamInOrder
  BY StreamFollows DEF IInv
<1> QED
  BY <1>1, Invariance, PTL

\* A step that calls the callback leaves the queue empty, or is the Send of an empty
\* buffer: the size_t arithmetic of SendInLoop gives rest = 0 in no other case.
LEMMA CompletionStep ==
  ASSUME IInv, [Next]_vars, completes' # completes
  PROVE  io_vec_li' = <<>> \/ (sends' # sends /\ handed'[sends'] = 0)
<1>1. CASE Write
  BY <1>1 DEF Write, Established, OnWrite, WriteHead, WriteFull, WriteNothing, WriteDone
<1>2. ASSUME NEW size \in Sizes, SendInLoopBuf(size), io_vec_li' # <<>>
      PROVE  sends' # sends /\ handed'[sends'] = 0
  <2>1. size \in 0 .. SizeT - 2 /\ SizeT \in Nat
    BY SendAssumption
  <2>2. (size - 0 + SizeT) % SizeT = 0 /\ io_vec_li' = io_vec_li
    BY <1>2 DEF SendInLoopBuf
  <2>3. size = 0
    BY <2>1, <2>2
  <2>4. sends' = sends + 1 /\ handed' = Append(handed, size)
    BY <1>2 DEF SendInLoopBuf, Hand
  <2>5. handed \in Seq(Nat) /\ Len(handed) = sends /\ sends \in Nat /\ size \in Nat
    BY <2>3 DEF IInv, TypeInv, StreamInv, StreamTypes
  <2>6. Append(handed, size)[Len(handed) + 1] = size
    BY <2>5, AppendProperties
  <2> QED
    BY <2>3, <2>4, <2>5, <2>6
<1>3. CASE Sent
  <2>1. PICK size \in Sizes : SendInLoopBuf(size) \/ SendInLoopList(size)
    BY <1>3 DEF Sent, Established
  <2>2. SendInLoopBuf(size)
    BY <2>1 DEF SendInLoopList
  <2> QED
    BY <1>2, <2>2
<1>4. ASSUME ~Write, ~Sent
      PROVE  completes' = completes
  BY <1>4 DEF Next, vars, sendVars, Connect, Establish, OnReadConnecting, OnWriteConnecting,
       ClientOnClose, OnClose, Wait, Read, Peer, Established, EpollWait, OnRead, PeerReads, PeerSends
<1> QED
  BY <1>1, <1>3, <1>4

\* write_complete_cb_ is never called while something is left to write, but for the Send
\* of an empty buffer (TcpConnection.cc:120-127, 212-219).
THEOREM CompletionIsTrue == Spec => CompleteMeansFlushed
<1>1. IInv /\ [Next]_vars =>
        [completes' # completes =>
            io_vec_li' = <<>> \/ (sends' # sends /\ handed'[sends'] = 0)]_sendVars
  BY CompletionStep
<1> QED
  BY <1>1, Invariance, PTL DEF Spec, CompleteMeansFlushed

-----------------------------------------------------------------------------
(* Reading.                                                                 *)

\* Sending, writing and waiting leave an edge where it is, or report the input with it.
LEMMA HearLoop ==
  ASSUME IInv, InputIsHeard, Sent \/ Write \/ Wait
  PROVE  InputIsHeard'
<1>1. CASE Sent
  <2>1. PICK size \in Sizes : Established(SendInLoopBuf(size) \/ SendInLoopList(size))
    BY <1>1 DEF Sent
  <2>2. UNCHANGED <<closed, input, reported>> /\ early' = (early /\ ~edge')
    BY <2>1 DEF Established, SendInLoopBuf, SendInLoopList
  <2>3. edge => edge'
    BY <2>1, Zenon DEF Established, SendInLoopBuf, SendInLoopList, EnableWriting
  <2> QED
    BY <2>2, <2>3 DEF InputIsHeard
<1>2. CASE Write
  <2>1. /\ UNCHANGED <<closed, input>> /\ reported # "in" /\ early' = (early /\ ~edge')
        /\ WriteHead \/ WriteFull \/ WriteNothing \/ WriteDone
    BY <1>2 DEF Write, Established, OnWrite
  <2>2. edge => edge'
    BY <2>1 DEF WriteHead, WriteFull, WriteNothing, WriteDone, EnableWriting
  <2> QED
    BY <2>1, <2>2 DEF InputIsHeard
<1>3. CASE Wait
  BY <1>3 DEF Wait, Established, EpollWait, InputIsHeard
<1> QED
  BY <1>1, <1>2, <1>3

\* The peer makes edges only; OnRead leaves no input; and what connects the client takes
\* the edge of some input at most once, which is early then.
LEMMA HearOthers ==
  ASSUME IInv, InputIsHeard,
         \/ Read \/ Peer \/ Connect \/ Establish \/ OnReadConnecting
         \/ OnWriteConnecting \/ ClientOnClose \/ UNCHANGED vars
  PROVE  InputIsHeard'
<1> USE DEF InputIsHeard
<1>1. CASE Read
  BY <1>1 DEF Read, Established, OnRead
<1>2. CASE Established(PeerReads)
  BY <1>2 DEF Established, PeerReads
<1>3. CASE Established(PeerSends)
  BY <1>3 DEF Established, PeerSends
<1>4. CASE Connect
  BY <1>4 DEF Connect
<1>5. CASE Establish
  BY <1>5 DEF Establish
<1>6. CASE OnReadConnecting
  BY <1>6 DEF OnReadConnecting
<1>7. CASE OnWriteConnecting
  BY <1>7 DEF OnWriteConnecting
<1>8. CASE ClientOnClose
  BY <1>8 DEF ClientOnClose, OnClose
<1>9. CASE UNCHANGED vars
  BY <1>9 DEF vars, sendVars
<1> QED
  BY <1>1, <1>2, <1>3, <1>4, <1>5, <1>6, <1>7, <1>8, <1>9 DEF Peer, Established

\* Input that has come is told of by an edge, or about to be read, unless its edge was
\* spent as the news of the connection (TcpClient.cc:72-82, TcpConnection.cc:56-82).
THEOREM InputStaysHeard == Spec => []InputIsHeard
<1>1. ClientInit => InputIsHeard
  BY DEF ClientInit, Init, InputIsHeard
<1>2. IInv /\ InputIsHeard /\ [Next]_vars => InputIsHeard'
  BY HearLoop, HearOthers DEF Next
<1> QED
  BY <1>1, <1>2, Invariance, PTL DEF Spec
=============================================================================
