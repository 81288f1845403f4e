---------------------------- MODULE InetAddress ----------------------------
(***************************************************************************)
(* InetAddress.  A text is a sequence of tokens: the ":" and what is between *)
(* two of them.  inet_pton and atoi are the functions Quad and Number, which *)
(* leave zero for any other text.                                          *)
(***************************************************************************)
EXTENDS Integers, SequencesExt

CONSTANTS Quad,     \* Quad[text]: the four bytes of a dotted text
          V6Texts,  \* the texts of IPv6 addresses
          Number    \* Number[token]: the value of a token of digits

ASSUME AddressAssumption ==
    /\ \A text \in DOMAIN Quad : ":" \notin ToSet(text) /\ Quad[text] \in [1 .. 4 -> 0 .. 255]
    /\ \A t, u \in DOMAIN Quad : Quad[t] = Quad[u] => t = u
    /\ <<"127.0.0.1">> \in DOMAIN Quad /\ Quad[<<"127.0.0.1">>] = <<127, 0, 0, 1>>
    /\ <<"0.0.0.0">> \in DOMAIN Quad /\ Quad[<<"0.0.0.0">>] = <<0, 0, 0, 0>>
    /\ \A text \in V6Texts : ":" \in ToSet(text)
    /\ \A text \in DOMAIN Quad \cup V6Texts : text \in Seq(STRING)
    /\ DOMAIN Number \subseteq STRING \ {":"}

\* InetAddress().
NoAddress == [addr_ |-> <<>>, port_ |-> <<>>, is_ipv6_ |-> FALSE]

SetAddr(a, addr) == [a EXCEPT !.addr_ = addr]
SetPort(a, port) == [a EXCEPT !.port_ = <<CHOOSE t \in DOMAIN Number : Number[t] = port>>]

\* InetAddress(host), SetHost: the text is split at the first ":".
SetHost(a, host) ==
    LET pos == SelectInSeq(host, LAMBDA c : c = ":")
    IN IF pos # 0 THEN [a EXCEPT !.addr_ = SubSeq(host, 1, pos - 1),
                                 !.port_ = SubSeq(host, pos + 1, Len(host))]
                  ELSE SetAddr(a, host)

ToIpPort(a) == a.addr_ \o <<":">> \o a.port_

Port(a) == IF a.port_ # <<>> /\ Head(a.port_) \in DOMAIN Number THEN Number[Head(a.port_)] ELSE 0

\* inet_pton of a text of another form leaves the zeros, and its result 0 is not < 0.
Pton(text) == IF text \in DOMAIN Quad THEN Quad[text] ELSE <<0, 0, 0, 0>>
Pton6(text) == IF text \in V6Texts THEN text ELSE <<>>

GetSockAddr(a) ==
    IF a.is_ipv6_ THEN [family |-> "inet6", v4 |-> <<>>, v6 |-> Pton6(a.addr_), port |-> Port(a)]
                  ELSE [family |-> "inet", v4 |-> Pton(a.addr_), v6 |-> <<>>, port |-> Port(a)]

Ntop(sock) ==
    IF sock.family = "inet" THEN CHOOSE t \in DOMAIN Quad : Quad[t] = sock.v4 ELSE sock.v6

\* The InetAddress that SocketOpt::Accept makes of the peer's socket address.
OfSockAddr(sock) ==
    [SetPort(SetAddr(NoAddress, Ntop(sock)), sock.port)
        EXCEPT !.is_ipv6_ = (sock.family = "inet6")]

\* What SocketOpt says of a socket bound, or connected, to sock.
GEtLocalAddr(sock) == OfSockAddr(sock)
GEtpeerAddr(sock) == OfSockAddr(sock)

-----------------------------------------------------------------------------
\* The order of the uint32_t that IPv4 returns.
Leq(p, q) ==
    p = q \/ \E k \in 1 .. 4 : p[k] < q[k] /\ \A j \in 1 .. k - 1 : p[j] = q[j]

Within(q, first, last) == Leq(first, q) /\ Leq(q, last)

\* Mutant: the ends of the ranges are left out.
IsLanIpOpen(a) ==
    LET q == Pton(a.addr_)
        inside(first, last) == Within(q, first, last) /\ q \notin {first, last}
    IN \/ inside(<<10, 0, 0, 0>>, <<10, 255, 255, 255>>)
       \/ inside(<<17, 16, 0, 0>>, <<17, 31, 255, 255>>)
       \/ inside(<<192, 168, 0, 0>>, <<192, 168, 255, 255>>)

\* The second range is written 17.16 to 17.31.
IsLanIp(a) ==
    LET q == Pton(a.addr_)
    IN \/ Within(q, <<10, 0, 0, 0>>, <<10, 255, 255, 255>>)
       \/ Within(q, <<17, 16, 0, 0>>, <<17, 31, 255, 255>>)
       \/ Within(q, <<192, 168, 0, 0>>, <<192, 168, 255, 255>>)

IsWanIp(a) == ~IsLanIp(a) /\ Pton(a.addr_) # <<127, 0, 0, 1>>

IsLoopbackIp(a) == a.addr_ = <<"127.0.0.1">>
=============================================================================
