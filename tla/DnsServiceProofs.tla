-------------------------- MODULE DnsServiceProofs --------------------------
(***************************************************************************)
(* Theorems about DnsService and the classes of its addresses, for any        *)
(* hosts, any answers of the resolver and any number of tries.              *)
(***************************************************************************)
EXTENDS DnsService, SequenceTheorems, TLAPS

\* What the worker carries from the lookup to the update: a host that is in the table
\* and, when it comes to write, at least one address.
WorkInv ==
    /\ cur \subseteq DOMAIN hosts_info_
    /\ todo \subseteq DOMAIN hosts_info_
    /\ worker = "update" => list # <<>>

-----------------------------------------------------------------------------
\* The invariant holds at the start.
LEMMA InitWork == Init => WorkInv
BY DEF Init, WorkInv

\* A step keeps every host, and a host with addresses keeps some: it is written only
\* with a list that is not empty.
LEMMA WorkStep ==
  ASSUME WorkInv, [Next]_vars
  PROVE  /\ WorkInv'
         /\ \A h \in DOMAIN hosts_info_ :
                /\ h \in DOMAIN hosts_info_'
                /\ hosts_info_[h] # <<>> => hosts_info_'[h] # <<>>
<1> DEFINE Stays == \A h \in DOMAIN hosts_info_ :
                        /\ h \in DOMAIN hosts_info_'
                        /\ hosts_info_[h] # <<>> => hosts_info_'[h] # <<>>
<1> SUFFICES WorkInv' /\ Stays
  OBVIOUS
<1> USE DEF WorkInv
<1>1. CASE UNCHANGED vars
  BY <1>1 DEF vars, work
<1>2. ASSUME NEW h \in Hosts, AddHost(h) PROVE WorkInv' /\ Stays
  <2>1. DOMAIN hosts_info_' = DOMAIN hosts_info_ \cup {h}
    BY <1>2 DEF AddHost
  <2>2. \A g \in DOMAIN hosts_info_ : hosts_info_'[g] = hosts_info_[g]
    BY <1>2 DEF AddHost
  <2> QED
    BY <1>2, <2>1, <2>2 DEF AddHost, work
<1>3. ASSUME NEW h \in Hosts,
             GetHostAddresses(h) \/ \E index \in Indexes : GetHostAddress(h, index)
      PROVE  WorkInv' /\ Stays
  BY <1>3 DEF GetHostAddresses, GetHostAddress, Take, work
<1>4. CASE Start
  BY <1>4 DEF Start
<1>5. CASE Stop
  BY <1>5 DEF Stop, work
<1>6. CASE Joined
  BY <1>6 DEF Joined
<1>7. CASE CopyHosts
  BY <1>7 DEF CopyHosts
<1>8. CASE NextHost
  BY <1>8 DEF NextHost
<1>9. ASSUME NEW h \in Hosts, Lookup(h) PROVE WorkInv' /\ Stays
  BY <1>9 DEF Lookup, Found
<1>10. ASSUME NEW h \in Hosts, LookupFails(h) PROVE WorkInv' /\ Stays
  BY <1>10 DEF LookupFails, Found
<1>11. CASE UpdateHost
  <2>1. PICK h \in cur : /\ hosts_info_' = [hosts_info_ EXCEPT ![h] = list]
    BY <1>11 DEF UpdateHost
  <2>2. list # <<>> /\ cur' = {} /\ todo' = todo /\ worker' = "next"
    BY <1>11 DEF UpdateHost
  <2>3. DOMAIN hosts_info_' = DOMAIN hosts_info_
    BY <2>1
  <2>4. \A g \in DOMAIN hosts_info_ :
            hosts_info_'[g] = IF g = h THEN list ELSE hosts_info_[g]
    BY <2>1
  <2> QED
    BY <2>2, <2>3, <2>4
<1>12. CASE WaitEnds
  BY <1>12 DEF WaitEnds
<1>13. CASE SleepEnds
  BY <1>13 DEF SleepEnds
<1> QED
  BY <1>1, <1>2, <1>3, <1>4, <1>5, <1>6, <1>7, <1>8, <1>9, <1>10, <1>11, <1>12, <1>13
     DEF Next, OnWork

\* A host is never forgotten, and one that has addresses keeps having some.
THEOREM AnswersAreKept == Spec => AnswersStay
<1>1. Init => WorkInv
  BY InitWork
<1>2. WorkInv /\ [Next]_vars => WorkInv'
  BY WorkStep
<1>3. WorkInv /\ [Next]_vars =>
        [\A h \in DOMAIN hosts_info_ :
             h \in DOMAIN hosts_info_' /\ (hosts_info_[h] # <<>> => hosts_info_'[h] # <<>>)]_vars
  BY WorkStep
<1> QED
  BY <1>1, <1>2, <1>3, PTL DEF Spec, AnswersStay

-----------------------------------------------------------------------------
(* Whose addresses the entries and the callers hold.                        *)

\* The addresses that the resolver gives for h.
Own(h) == {AddressOf(text) : text \in UNION {ToSet(texts) : texts \in Answers[h]}}

\* The entry of a host holds addresses of that host, unless it was written with a list
\* read through an unset res; the list is empty before each lookup, and what is to be
\* written are answers of the one host being resolved.
OwnInv ==
    /\ WorkInv
    /\ DOMAIN hosts_info_ \subseteq Hosts
    /\ \A h \in DOMAIN hosts_info_ : h \notin mixed => hosts_info_[h] \in Seq(Own(h))
    /\ \A u \in used : ~u.mixed => u.host \in Hosts /\ u.address \in Own(u.host)
    /\ worker \in {"try", "wait"} => list = <<>>
    /\ worker \in {"try", "update", "wait"} => \E h \in Hosts : cur = {h}
    /\ worker = "update" /\ ~unset => \A h \in cur : list \in Seq(Own(h))

\* The invariant holds at the start.
LEMMA InitOwn == Init => OwnInv
BY InitWork DEF Init, OwnInv

\* The index that a caller gives, negative or not, ends up inside the list.
LEMMA IndexOfInRange ==
  ASSUME NEW index \in Int, NEW n \in Nat, n > 0
  PROVE  IndexOf(index, n) \in 0 .. n - 1
<1> DEFINE two16 == 65536 % n
           two32 == (two16 * two16) % n
<1>1. two32 \in Int
  <2>1. two16 \in Int
    OBVIOUS
  <2>2. two16 * two16 \in Int
    BY <2>1
  <2> QED
    BY <2>2
<1>2. two32 * two32 + index \in Int
  BY <1>1
<1>3. \A x \in Int : x % n \in 0 .. n - 1
  OBVIOUS
<1> HIDE DEF two32
<1>4. IndexOf(index, n) = IF index >= 0 THEN index % n ELSE (two32 * two32 + index) % n
  BY DEF IndexOf, two32
<1> QED
  BY <1>2, <1>3, <1>4

\* What a lookup appends to the empty list is the host's own.
LEMMA FoundIsOwn ==
  ASSUME NEW h \in Hosts, NEW texts \in Answers[h]
  PROVE  <<>> \o AddressesOf(texts) \in Seq(Own(h))
<1>1. texts \in Seq(Texts)
  BY DnsAssumption DEF Texts
<1>2. \A k \in 1 .. Len(texts) : AddressOf(texts[k]) \in Own(h)
  <2>1. \A k \in 1 .. Len(texts) : texts[k] \in ToSet(texts)
    BY <1>1 DEF ToSet
  <2> QED
    BY <2>1 DEF Own
<1>3. AddressesOf(texts) \in Seq(Own(h))
  <2>1. AddressesOf(texts) \in [1 .. Len(texts) -> Own(h)]
    BY <1>1, <1>2 DEF AddressesOf
  <2> QED
    BY <1>1, <2>1, LenProperties, IsASeq
<1> QED
  BY <1>3, ConcatEmptySeq

\* A caller is given an address out of the host's entry.
LEMMA TakeIsOwn ==
  ASSUME OwnInv, NEW h \in DOMAIN hosts_info_, NEW k,
         h \notin mixed => k \in 1 .. Len(hosts_info_[h]),
         Take(h, hosts_info_[h][k])
  PROVE  OwnInv'
<1>1. UNCHANGED <<hosts_info_, worker, todo, cur, list, unset, mixed>>
  BY DEF Take, work
<1>2. \A u \in used' : ~u.mixed => u.host \in Hosts /\ u.address \in Own(u.host)
  <2>1. PICK r : r = [host |-> h, address |-> hosts_info_[h][k], mixed |-> h \in mixed]
    OBVIOUS
  <2>2. r.host = h /\ r.address = hosts_info_[h][k] /\ (r.mixed <=> h \in mixed)
    BY <2>1
  <2>3. used' = {r}
    BY <2>1 DEF Take
  <2>4. h \notin mixed => hosts_info_[h][k] \in Own(h)
    BY ElementOfSeq DEF OwnInv
  <2> QED
    BY <2>2, <2>3, <2>4 DEF OwnInv
<1> QED
  BY <1>1, <1>2 DEF OwnInv, WorkInv

\* Every step keeps it.
LEMMA OwnStep ==
  ASSUME OwnInv, [Next]_vars
  PROVE  OwnInv'
<1>0. WorkInv'
  BY WorkStep DEF OwnInv
<1>1. CASE UNCHANGED vars
  BY <1>0, <1>1 DEF vars, work, OwnInv
<1>2. ASSUME NEW h \in Hosts, AddHost(h) PROVE OwnInv'
  <2>1. DOMAIN hosts_info_' = DOMAIN hosts_info_ \cup {h}
    BY <1>2 DEF AddHost
  <2>2. \A g \in DOMAIN hosts_info_ : hosts_info_'[g] = hosts_info_[g]
    BY <1>2 DEF AddHost
  <2>3. hosts_info_'[h] = <<>> /\ <<>> \in Seq(Own(h))
    BY <1>2, EmptySeq DEF AddHost
  <2>4. UNCHANGED <<worker, todo, cur, list, unset, used, mixed>>
    BY <1>2 DEF AddHost, work
  <2> QED
    BY <1>0, <2>1, <2>2, <2>3, <2>4 DEF OwnInv
<1>3. ASSUME NEW h \in Hosts, GetHostAddresses(h) PROVE OwnInv'
  <2>1. PICK k \in DOMAIN hosts_info_[h] : Take(h, hosts_info_[h][k])
    BY <1>3 DEF GetHostAddresses
  <2>2. h \in DOMAIN hosts_info_
    BY <1>3 DEF GetHostAddresses
  <2>3. h \notin mixed => k \in 1 .. Len(hosts_info_[h])
    BY <2>1, <2>2, LenProperties DEF OwnInv
  <2> QED
    BY <2>1, <2>2, <2>3, TakeIsOwn
<1>4. ASSUME NEW h \in Hosts, NEW index \in Indexes, GetHostAddress(h, index) PROVE OwnInv'
  <2>1. h \in DOMAIN hosts_info_ /\ hosts_info_[h] # <<>>
    BY <1>4 DEF GetHostAddress, Resolved
  <2> DEFINE k == 1 + IndexOf(index, Len(hosts_info_[h]))
  <2>2. Take(h, hosts_info_[h][k])
    BY <1>4 DEF GetHostAddress
  <2>3. ASSUME h \notin mixed PROVE k \in 1 .. Len(hosts_info_[h])
    <3>1. hosts_info_[h] \in Seq(Own(h))
      BY <2>1, <2>3 DEF OwnInv
    <3>2. Len(hosts_info_[h]) \in Nat /\ Len(hosts_info_[h]) > 0
      BY <2>1, <3>1, EmptySeq, LenProperties
    <3>3. IndexOf(index, Len(hosts_info_[h])) \in 0 .. Len(hosts_info_[h]) - 1
      BY <3>2, IndexOfInRange, DnsAssumption
    <3> QED
      BY <3>2, <3>3
  <2> HIDE DEF k
  <2> QED
    BY <2>1, <2>2, <2>3, TakeIsOwn
<1>5. CASE Start
  BY <1>0, <1>5 DEF Start, OwnInv
<1>6. CASE Stop
  BY <1>0, <1>6 DEF Stop, OwnInv, work
<1>7. CASE Joined
  BY <1>0, <1>7 DEF Joined, OwnInv
<1>8. CASE CopyHosts
  BY <1>0, <1>8 DEF CopyHosts, OwnInv
<1>9. CASE NextHost
  <2>1. UNCHANGED <<hosts_info_, unset, used, mixed>> /\ list' = <<>>
    BY <1>9 DEF NextHost
  <2>2. worker' = "try" => \E h \in Hosts : cur' = {h}
    BY <1>9 DEF NextHost, OwnInv, WorkInv
  <2>3. worker' \in {"sleep", "next", "try"}
    BY <1>9 DEF NextHost
  <2> QED
    BY <1>0, <2>1, <2>2, <2>3 DEF OwnInv
<1>10. ASSUME NEW h \in Hosts, Lookup(h) PROVE OwnInv'
  <2>1. UNCHANGED <<hosts_info_, used, mixed, cur>> /\ cur = {h}
    BY <1>10 DEF Lookup
  <2>2. PICK texts \in Answers[h] : Found(texts)
    BY <1>10 DEF Lookup
  <2>3. list' \in Seq(Own(h))
    BY <1>10, <2>2, FoundIsOwn DEF Lookup, Found, OwnInv
  <2>4. worker' = IF list' = <<>> THEN "wait" ELSE "update"
    BY <2>2 DEF Found
  <2> QED
    BY <1>0, <2>1, <2>3, <2>4 DEF OwnInv
<1>11. ASSUME NEW h \in Hosts, LookupFails(h) PROVE OwnInv'
  <2>1. UNCHANGED <<hosts_info_, used, mixed, cur>> /\ cur = {h} /\ unset' = TRUE
    BY <1>11 DEF LookupFails
  <2>2. \/ worker' = (IF list' = <<>> THEN "wait" ELSE "update")
        \/ UNCHANGED <<list, worker>>
    BY <1>11 DEF LookupFails, Found
  <2> QED
    BY <1>0, <1>11, <2>1, <2>2 DEF OwnInv, LookupFails
<1>12. CASE UpdateHost
  <2>1. PICK h \in cur : hosts_info_' = [hosts_info_ EXCEPT ![h] = list]
    BY <1>12 DEF UpdateHost
  <2>2. DOMAIN hosts_info_' = DOMAIN hosts_info_
    BY <2>1
  <2>3. \A g \in DOMAIN hosts_info_ :
            hosts_info_'[g] = IF g = h THEN list ELSE hosts_info_[g]
    BY <2>1
  <2>4. /\ cur = {h}
        /\ mixed' = IF unset THEN mixed \cup {h} ELSE mixed \ {h}
        /\ worker' = "next" /\ used' = used
    BY <1>12 DEF UpdateHost, OwnInv
  <2>5. ~unset => list \in Seq(Own(h))
    BY <1>12, <2>4 DEF UpdateHost, OwnInv
  <2> QED
    BY <1>0, <2>2, <2>3, <2>4, <2>5 DEF OwnInv
<1>13. CASE WaitEnds
  BY <1>0, <1>13 DEF WaitEnds, OwnInv
<1>14. CASE SleepEnds
  BY <1>0, <1>14 DEF SleepEnds, OwnInv
<1> QED
  BY <1>1, <1>2, <1>3, <1>4, <1>5, <1>6, <1>7, <1>8, <1>9, <1>10, <1>11, <1>12, <1>13, <1>14
     DEF Next, OnWork

-----------------------------------------------------------------------------
(* Addresses, their texts and the socket addresses made of them.            *)

\* A text of Quad or of V6Texts is that of one family only.
LEMMA TextsOfFamilies ==
  /\ DOMAIN Quad \cap V6Texts = {}
  /\ <<>> \notin V6Texts
  /\ \A text \in DOMAIN Quad : Ntop([family |-> "inet", v4 |-> Quad[text], v6 |-> <<>>, port |-> 0]) = text
<1>1. DOMAIN Quad \cap V6Texts = {}
  BY AddressAssumption
<1>2. <<>> \notin V6Texts
  BY AddressAssumption DEF ToSet
<1>3. ASSUME NEW text \in DOMAIN Quad
      PROVE  (CHOOSE t \in DOMAIN Quad : Quad[t] = Quad[text]) = text
  BY <1>3, AddressAssumption
<1> QED
  BY <1>1, <1>2, <1>3 DEF Ntop

\* Setting is_ipv6_ leaves the text and the port.
LEMMA SetFamily ==
  ASSUME NEW A, NEW P, NEW r \in [addr_ : A, port_ : P, is_ipv6_ : BOOLEAN], NEW b \in BOOLEAN
  PROVE  [r EXCEPT !.is_ipv6_ = b] = [addr_ |-> r.addr_, port_ |-> r.port_, is_ipv6_ |-> b]
OBVIOUS

\* A text without a ":" comes back from SetHost with the port that ToIpPort appended.
LEMMA HostOfIpPort ==
  ASSUME NEW T, ":" \in T, NEW z \in T, NEW text \in Seq(T), ":" \notin ToSet(text)
  PROVE  SetHost(NoAddress, ToIpPort([addr_ |-> text, port_ |-> <<z>>, is_ipv6_ |-> FALSE]))
             = [addr_ |-> text, port_ |-> <<z>>, is_ipv6_ |-> FALSE]
<1> DEFINE host == text \o <<":">> \o <<z>>
           n == Len(text)
           colons == {i \in 1 .. Len(host) : host[i] = ":"}
<1>1. /\ host \in Seq(T) /\ n \in Nat /\ Len(host) = n + 2
      /\ \A i \in 1 .. n : host[i] = text[i]
      /\ host[n + 1] = ":" /\ host[n + 2] = z
  <2> DEFINE front == text \o <<":">>
  <2>1. /\ front \in Seq(T) /\ n \in Nat /\ Len(front) = n + 1
        /\ \A i \in 1 .. n : front[i] = text[i]
        /\ front[n + 1] = ":"
    <3>1. <<":">> \in Seq(T) /\ Len(<<":">>) = 1 /\ <<":">>[1] = ":"
      OBVIOUS
    <3> QED
      BY <3>1, ConcatProperties, LenProperties
  <2>2. <<z>> \in Seq(T) /\ Len(<<z>>) = 1 /\ <<z>>[1] = z
    OBVIOUS
  <2> HIDE DEF front
  <2>3. /\ front \o <<z>> \in Seq(T) /\ Len(front \o <<z>>) = n + 2
        /\ \A i \in 1 .. n + 1 : (front \o <<z>>)[i] = front[i]
        /\ (front \o <<z>>)[n + 2] = z
    BY <2>1, <2>2, ConcatProperties
  <2>4. host = front \o <<z>>
    BY DEF front
  <2> QED
    BY <2>1, <2>3, <2>4
<1>2. \A i \in 1 .. n : host[i] # ":"
  BY <1>1 DEF ToSet
<1> HIDE DEF host, n
<1>3. n + 1 \in colons /\ \A i \in colons : n + 1 <= i
  BY <1>1, <1>2
<1>4. Min(colons) = n + 1
  <2>1. colons \subseteq Int
    OBVIOUS
  <2> HIDE DEF colons
  <2>2. PICK m : m = Min(colons) /\ m \in colons /\ \A y \in colons : m <= y
    BY <1>3 DEF Min
  <2>3. m \in Int /\ n + 1 \in Int /\ m <= n + 1 /\ n + 1 <= m
    BY <1>1, <1>3, <2>1, <2>2
  <2> QED
    BY <2>2, <2>3
<1>5. PICK pos : pos = SelectInSeq(host, LAMBDA c : c = ":")
  OBVIOUS
<1>6. pos = n + 1 /\ pos # 0
  <2>1. pos = n + 1
    BY <1>3, <1>4, <1>5 DEF SelectInSeq
  <2> QED
    BY <1>1, <2>1
<1>7. SubSeq(host, 1, pos - 1) = text /\ SubSeq(host, pos + 1, Len(host)) = <<z>>
  <2> DEFINE rest == SubSeq(host, n + 2, n + 2)
  <2>1. rest \in Seq(T) /\ Len(rest) = 1 /\ rest[1] = z
    <3>1. n + 2 \in 1 .. Len(host) + 1 /\ n + 2 \in n + 2 - 1 .. Len(host)
      BY <1>1
    <3> QED
      BY <1>1, <3>1, SubSeqProperties
  <2>2. pos - 1 = n /\ pos + 1 = n + 2 /\ Len(host) = n + 2
    BY <1>1, <1>6
  <2>3. SubSeq(host, 1, n) = text
    BY <1>1 DEF n
  <2> HIDE DEF rest
  <2>4. rest = <<z>>
    BY <2>1
  <2> QED
    BY <2>2, <2>3, <2>4, Zenon DEF rest
<1>8. ToIpPort([addr_ |-> text, port_ |-> <<z>>, is_ipv6_ |-> FALSE]) = host
  BY DEF ToIpPort, host
<1>9. SetHost(NoAddress, host) = [NoAddress EXCEPT !.addr_ = text, !.port_ = <<z>>]
  <2>1. SetHost(NoAddress, host) = [NoAddress EXCEPT !.addr_ = SubSeq(host, 1, pos - 1),
                                                     !.port_ = SubSeq(host, pos + 1, Len(host))]
    BY <1>5, <1>6 DEF SetHost
  <2> QED
    BY <1>7, <2>1, Zenon
<1> QED
  BY <1>8, <1>9 DEF NoAddress

\* What AnswersAreOwn says of an address and the text it was made of.
Right(a, text) ==
    /\ a.addr_ = text
    /\ LET sock == GetSockAddr(a)
           again == GetSockAddr(SetHost(NoAddress, ToIpPort(a)))
           sock6 == GetSockAddr([a EXCEPT !.is_ipv6_ = TRUE])
       IN /\ sock.v4 = Pton(text) /\ sock.port = 0
          /\ text \in DOMAIN Quad => sock = again /\ GEtpeerAddr(sock) = a
          /\ \A s \in {sock, sock6} : GetSockAddr(GEtpeerAddr(s)) = s
                                   /\ GetSockAddr(GEtLocalAddr(s)) = s

\* Every address made of an answer is right.
LEMMA AddressIsRight ==
  ASSUME NEW text \in Texts
  PROVE  Right(AddressOf(text), text)
<1> DEFINE z == CHOOSE t \in DOMAIN Number : Number[t] = 0
           Made(addr, v6) == [addr_ |-> addr, port_ |-> <<z>>, is_ipv6_ |-> v6]
           Sock4(v4) == [family |-> "inet", v4 |-> v4, v6 |-> <<>>, port |-> 0]
           Sock6(v6) == [family |-> "inet6", v4 |-> <<>>, v6 |-> v6, port |-> 0]
           a == AddressOf(text)
           v == Pton(text)
           w == Pton6(text)
<1>1. z \in DOMAIN Number /\ Number[z] = 0 /\ z \in STRING /\ z # ":"
  BY DnsAssumption, AddressAssumption
<1>2. \A addr : SetPort(SetAddr(NoAddress, addr), 0) = Made(addr, FALSE)
  <2>1. \A b : SetPort(b, 0) = [b EXCEPT !.port_ = <<z>>]
    BY Zenon DEF SetPort
  <2> HIDE DEF z
  <2> QED
    BY <2>1, ZenonT(30) DEF SetAddr, NoAddress
<1>3. a = Made(text, FALSE)
  BY <1>2 DEF AddressOf
<1>4. ASSUME NEW addr, NEW v6 \in BOOLEAN
      PROVE  GetSockAddr(Made(addr, v6)) = IF v6 THEN Sock6(Pton6(addr)) ELSE Sock4(Pton(addr))
  <2>1. Port(Made(addr, v6)) = 0
    BY <1>1 DEF Port
  <2> QED
    BY <2>1 DEF GetSockAddr
<1>5. ASSUME NEW addr, NEW b \in BOOLEAN
      PROVE  [Made(addr, FALSE) EXCEPT !.is_ipv6_ = b] = Made(addr, b)
  <2>1. PICK r : r = Made(addr, FALSE)
    OBVIOUS
  <2>2. r \in [addr_ : {addr}, port_ : {<<z>>}, is_ipv6_ : BOOLEAN]
        /\ r.addr_ = addr /\ r.port_ = <<z>>
    BY <2>1
  <2>3. [r EXCEPT !.is_ipv6_ = b] = [addr_ |-> r.addr_, port_ |-> r.port_, is_ipv6_ |-> b]
    BY <2>2, SetFamily
  <2> QED
    BY <2>1, <2>2, <2>3, Zenon
<1>6. ASSUME NEW sock, sock.port = 0
      PROVE  OfSockAddr(sock) = Made(Ntop(sock), sock.family = "inet6")
  <2>1. SetPort(SetAddr(NoAddress, Ntop(sock)), sock.port) = Made(Ntop(sock), FALSE)
    BY <1>2, <1>6
  <2> QED
    BY <1>5, <2>1, Zenon DEF OfSockAddr
<1>7. \E t \in DOMAIN Quad : Quad[t] = v /\ (text \in DOMAIN Quad => t = text)
  BY AddressAssumption DEF Pton
<1>8. PICK t \in DOMAIN Quad : /\ t = (CHOOSE x \in DOMAIN Quad : Quad[x] = v)
                              /\ Quad[t] = v /\ (text \in DOMAIN Quad => t = text)
  BY <1>7, AddressAssumption
<1>9. Pton(t) = v /\ Pton6(w) = w
  BY <1>8, TextsOfFamilies DEF Pton, Pton6
<1>10. ASSUME text \in DOMAIN Quad
       PROVE  SetHost(NoAddress, ToIpPort(a)) = a
  <2> DEFINE T == STRING \cup {":"}
  <2>1. text \in Seq(STRING) /\ ":" \notin ToSet(text)
    BY <1>10, AddressAssumption
  <2>2. text \in Seq(T) /\ ":" \in T /\ z \in T
    BY <1>1, <2>1, SeqMonotonic
  <2> HIDE DEF T
  <2> QED
    BY <1>3, <2>1, <2>2, HostOfIpPort
<1>11. GetSockAddr(a) = Sock4(v) /\ GetSockAddr([a EXCEPT !.is_ipv6_ = TRUE]) = Sock6(w)
  <2>1. [a EXCEPT !.is_ipv6_ = TRUE] = Made(text, TRUE)
    BY <1>3, <1>5, Zenon
  <2> QED
    BY <1>3, <1>4, <2>1
<1>12. OfSockAddr(Sock4(v)) = Made(t, FALSE) /\ OfSockAddr(Sock6(w)) = Made(w, TRUE)
  <2>0. /\ Sock4(v).port = 0 /\ (Sock4(v).family = "inet6") = FALSE
        /\ Sock6(w).port = 0 /\ (Sock6(w).family = "inet6") = TRUE
    OBVIOUS
  <2>1. OfSockAddr(Sock4(v)) = Made(Ntop(Sock4(v)), FALSE)
    BY <1>6, <2>0, ZenonT(30)
  <2>2. OfSockAddr(Sock6(w)) = Made(Ntop(Sock6(w)), TRUE)
    BY <1>6, <2>0, ZenonT(30)
  <2>3. Ntop(Sock4(v)) = t /\ Ntop(Sock6(w)) = w
    BY <1>8 DEF Ntop
  <2> QED
    BY <2>1, <2>2, <2>3
<1>13. GetSockAddr(Made(t, FALSE)) = Sock4(v) /\ GetSockAddr(Made(w, TRUE)) = Sock6(w)
  BY <1>4, <1>9
<1>14. a.addr_ = text
  BY <1>3
<1>15. text \in DOMAIN Quad => Made(t, FALSE) = a
  BY <1>3, <1>8
<1>16. Sock4(v).v4 = v /\ Sock4(v).port = 0
  OBVIOUS
<1> HIDE DEF z, Made, Sock4, Sock6, a, v, w
<1>17. \A s \in {Sock4(v), Sock6(w)} : GetSockAddr(OfSockAddr(s)) = s
  BY <1>12, <1>13
<1> QED
  BY <1>10, <1>11, <1>12, <1>14, <1>15, <1>16, <1>17 DEF Right, GEtpeerAddr, GEtLocalAddr, a, v

\* The invariant gives the property.
LEMMA OwnIsRight ==
  ASSUME OwnInv
  PROVE  AnswersAreOwn
<1> SUFFICES ASSUME NEW u \in used, ~u.mixed
             PROVE  \E texts \in Answers[u.host] : \E text \in ToSet(texts) :
                        Right(u.address, text)
  BY Zenon DEF AnswersAreOwn, Right
<1>1. u.host \in Hosts /\ u.address \in Own(u.host)
  BY DEF OwnInv
<1>2. PICK texts \in Answers[u.host] : \E text \in ToSet(texts) : u.address = AddressOf(text)
  BY <1>1 DEF Own
<1>3. PICK text \in ToSet(texts) : u.address = AddressOf(text)
  BY <1>2
<1>4. text \in Texts
  BY <1>1, DnsAssumption DEF Texts, ToSet
<1> QED
  BY <1>3, <1>4, AddressIsRight

\* The answer that a caller holds is one of the host it asked for.
THEOREM AnswersOfHost == Spec => []AnswersAreOwn
<1>1. OwnInv => AnswersAreOwn
  BY OwnIsRight
<1> QED
  BY <1>1, InitOwn, OwnStep, PTL DEF Spec

-----------------------------------------------------------------------------
(* The classes of addresses.                                                *)

Bytes == [1 .. 4 -> 0 .. 255]

\* inet_pton gives four bytes.
LEMMA PtonIsBytes ==
  ASSUME NEW text
  PROVE  Pton(text) \in Bytes
<1>1. <<0, 0, 0, 0>> \in Bytes
  BY DEF Bytes
<1> QED
  BY <1>1, AddressAssumption DEF Pton, Bytes

\* The order of addresses is that of their bytes, from the first on.
LEMMA LeqByBytes ==
  ASSUME NEW p \in Bytes, NEW q \in Bytes
  PROVE  Leq(p, q) <=> \/ p[1] < q[1]
                       \/ p[1] = q[1] /\ p[2] < q[2]
                       \/ p[1] = q[1] /\ p[2] = q[2] /\ p[3] < q[3]
                       \/ p[1] = q[1] /\ p[2] = q[2] /\ p[3] = q[3] /\ p[4] <= q[4]
<1>1. p = q <=> \A k \in 1 .. 4 : p[k] = q[k]
  BY DEF Bytes
<1>2. \A k \in 1 .. 4 : p[k] \in Int /\ q[k] \in Int
  BY DEF Bytes
<1>3. (\A j \in 1 .. 1 - 1 : p[j] = q[j]) /\ (\A k \in 1 .. 4 : k = 1 \/ k = 2 \/ k = 3 \/ k = 4)
  OBVIOUS
<1>4. /\ (\A j \in 1 .. 2 - 1 : p[j] = q[j]) <=> p[1] = q[1]
      /\ (\A j \in 1 .. 3 - 1 : p[j] = q[j]) <=> p[1] = q[1] /\ p[2] = q[2]
      /\ (\A j \in 1 .. 4 - 1 : p[j] = q[j]) <=> p[1] = q[1] /\ p[2] = q[2] /\ p[3] = q[3]
  OBVIOUS
<1>5. (\A k \in 1 .. 4 : p[k] = q[k]) <=>
          p[1] = q[1] /\ p[2] = q[2] /\ p[3] = q[3] /\ p[4] = q[4]
  OBVIOUS
<1>6. (\E k \in 1 .. 4 : p[k] < q[k] /\ \A j \in 1 .. k - 1 : p[j] = q[j]) <=>
          \/ p[1] < q[1]
          \/ p[1] = q[1] /\ p[2] < q[2]
          \/ p[1] = q[1] /\ p[2] = q[2] /\ p[3] < q[3]
          \/ p[1] = q[1] /\ p[2] = q[2] /\ p[3] = q[3] /\ p[4] < q[4]
  BY <1>3, <1>4
<1>7. p[4] <= q[4] <=> p[4] < q[4] \/ p[4] = q[4]
  BY <1>2
<1> QED
  BY <1>1, <1>5, <1>6, <1>7 DEF Leq

\* A range whose ends differ only in the bytes that are free in it.
LEMMA ClassRange ==
  ASSUME NEW q \in Bytes, NEW lo \in Bytes, NEW hi \in Bytes,
         lo[1] = hi[1], lo[2] <= hi[2], lo[3] = 0, lo[4] = 0, hi[3] = 255, hi[4] = 255
  PROVE  Within(q, lo, hi) <=> q[1] = lo[1] /\ lo[2] <= q[2] /\ q[2] <= hi[2]
<1>1. /\ q[1] \in Int /\ q[2] \in Int /\ q[3] \in 0 .. 255 /\ q[4] \in 0 .. 255
      /\ lo[1] \in Int /\ lo[2] \in Int /\ hi[1] \in Int /\ hi[2] \in Int
  BY DEF Bytes
<1>2. Leq(lo, q) <=> lo[1] < q[1] \/ (lo[1] = q[1] /\ lo[2] <= q[2])
  <2>1. Leq(lo, q) <=> \/ lo[1] < q[1]
                       \/ lo[1] = q[1] /\ lo[2] < q[2]
                       \/ lo[1] = q[1] /\ lo[2] = q[2] /\ lo[3] < q[3]
                       \/ lo[1] = q[1] /\ lo[2] = q[2] /\ lo[3] = q[3] /\ lo[4] <= q[4]
    BY LeqByBytes
  <2> QED
    BY <1>1, <2>1
<1>3. Leq(q, hi) <=> q[1] < hi[1] \/ (q[1] = hi[1] /\ q[2] <= hi[2])
  <2>1. Leq(q, hi) <=> \/ q[1] < hi[1]
                       \/ q[1] = hi[1] /\ q[2] < hi[2]
                       \/ q[1] = hi[1] /\ q[2] = hi[2] /\ q[3] < hi[3]
                       \/ q[1] = hi[1] /\ q[2] = hi[2] /\ q[3] = hi[3] /\ q[4] <= hi[4]
    BY LeqByBytes
  <2> QED
    BY <1>1, <2>1
<1> QED
  BY <1>1, <1>2, <1>3 DEF Within

\* What the comparisons of IsLanIp and IsWanIp amount to, byte by byte.
LEMMA ClassesOf ==
  ASSUME NEW a
  PROVE  LET q == Pton(a.addr_)
         IN /\ IsLanIp(a) <=> \/ q[1] = 10
                              \/ q[1] = 17 /\ q[2] \in 16 .. 31
                              \/ q[1] = 192 /\ q[2] = 168
            /\ IsWanIp(a) <=> ~IsLanIp(a) /\ ~IsLoopbackIp(a)
<1> DEFINE q == Pton(a.addr_)
<1>1. q \in Bytes
  BY PtonIsBytes
<1>2. q[2] \in Int
  BY <1>1 DEF Bytes
<1> HIDE DEF q
<1>3. /\ Within(q, <<10, 0, 0, 0>>, <<10, 255, 255, 255>>) <=> q[1] = 10
      /\ Within(q, <<17, 16, 0, 0>>, <<17, 31, 255, 255>>) <=> q[1] = 17 /\ q[2] \in 16 .. 31
      /\ Within(q, <<192, 168, 0, 0>>, <<192, 168, 255, 255>>) <=> q[1] = 192 /\ q[2] = 168
  <2>1. q[2] \in 0 .. 255
    BY <1>1 DEF Bytes
  <2>2. /\ <<10, 0, 0, 0>> \in Bytes /\ <<10, 255, 255, 255>> \in Bytes
        /\ <<17, 16, 0, 0>> \in Bytes /\ <<17, 31, 255, 255>> \in Bytes
        /\ <<192, 168, 0, 0>> \in Bytes /\ <<192, 168, 255, 255>> \in Bytes
    BY DEF Bytes
  <2>3. Within(q, <<10, 0, 0, 0>>, <<10, 255, 255, 255>>) <=> q[1] = 10
    BY <1>1, <2>1, <2>2, ClassRange
  <2>4. Within(q, <<17, 16, 0, 0>>, <<17, 31, 255, 255>>) <=> q[1] = 17 /\ q[2] \in 16 .. 31
    BY <1>1, <2>1, <2>2, ClassRange
  <2>5. Within(q, <<192, 168, 0, 0>>, <<192, 168, 255, 255>>) <=> q[1] = 192 /\ q[2] = 168
    BY <1>1, <2>1, <2>2, ClassRange
  <2> QED
    BY <2>3, <2>4, <2>5
<1>4. IsLanIp(a) <=> \/ q[1] = 10
                     \/ q[1] = 17 /\ q[2] \in 16 .. 31
                     \/ q[1] = 192 /\ q[2] = 168
  <2>1. IsLanIp(a) <=> \/ Within(q, <<10, 0, 0, 0>>, <<10, 255, 255, 255>>)
                       \/ Within(q, <<17, 16, 0, 0>>, <<17, 31, 255, 255>>)
                       \/ Within(q, <<192, 168, 0, 0>>, <<192, 168, 255, 255>>)
    BY DEF IsLanIp, q
  <2> QED
    BY <1>3, <2>1, Zenon
<1>5. q = <<127, 0, 0, 1>> <=> IsLoopbackIp(a)
  <2>1. /\ \A t, u \in DOMAIN Quad : Quad[t] = Quad[u] => t = u
        /\ <<"127.0.0.1">> \in DOMAIN Quad /\ Quad[<<"127.0.0.1">>] = <<127, 0, 0, 1>>
    BY AddressAssumption
  <2> QED
    BY <2>1 DEF q, Pton, IsLoopbackIp
<1>6. IsWanIp(a) <=> ~IsLanIp(a) /\ ~IsLoopbackIp(a)
  BY <1>5 DEF IsWanIp, q
<1> QED
  BY <1>4, <1>6, Zenon DEF q

\* An address is of the LAN exactly if it is in one of the three ranges of IsLanIp.
THEOREM LanIsExact == Spec => []LanIsPrivate
<1>1. LanIsPrivate
  BY ClassesOf DEF LanIsPrivate
<1> QED
  BY <1>1, PTL
=============================================================================
