----------------------------- MODULE DnsService -----------------------------
(***************************************************************************)
(* DnsService: a table of hosts under lock_ and a thread that copies it,     *)
(* resolves one host after the other without the lock and writes each answer *)
(* back.  Other threads add hosts and take addresses all the while, and one  *)
(* of them starts and stops the thread.                                    *)
(*                                                                         *)
(* getaddrinfo does not set res when it fails, and GetHostInfo tests for a    *)
(* return value it never has: what the function then reads is what the stack *)
(* holds, a null, the answer of an earlier call (which is never freed) or    *)
(* anything else.                                                          *)
(***************************************************************************)
EXTENDS InetAddress

CONSTANTS Hosts,
          Answers,  \* Answers[h]: the answers getaddrinfo may give for h, lists of texts
          Retries,  \* values of retry_
          Indexes   \* the indexes GetHostAddress is called with

ASSUME DnsAssumption ==
    /\ \A h \in Hosts : Answers[h] \subseteq Seq(DOMAIN Quad \cup V6Texts) \ {<<>>}
    /\ Retries \subseteq Nat
    /\ Indexes \subseteq Int
    /\ \E t \in DOMAIN Number : Number[t] = 0

VARIABLES hosts_info_,  \* hosts_info_
          running_,     \* running_
          retry_,       \* retry_
          worker,       \* where the thread is: "none", "top", "next", "try", "update",
                        \* "wait" (sleep_), "sleep" (interval_), "ended"
          todo,         \* hosts of the copied table still to resolve
          cur,          \* the host being resolved, in a set
          tries,        \* i of OnWork
          list,         \* list of OnWork
          unset,        \* list was read through a res that getaddrinfo did not set (history)
          res,          \* what res points to: the answer of the last good call, or <<>>
          caller,       \* the thread that starts and stops: "idle", "join"
          status,       \* "up", or "crashed" after a wild pointer or std::terminate
          used,         \* the last address a caller was given, as a set of records
          mixed         \* hosts whose entry was read through an unset res (history)

work == <<worker, todo, cur, tries, list, unset, res>>
vars == <<hosts_info_, running_, retry_, work, caller, status, used, mixed>>

\* The address made of one answer: is_ipv6_ is never set.
AddressOf(text) == SetPort(SetAddr(NoAddress, text), 0)
AddressesOf(texts) == [k \in DOMAIN texts |-> AddressOf(texts[k])]

Texts == DOMAIN Quad \cup V6Texts

TypeOK ==
    /\ DOMAIN hosts_info_ \subseteq Hosts
    /\ \A h \in DOMAIN hosts_info_ : hosts_info_[h] \in Seq({AddressOf(t) : t \in Texts})
    /\ running_ \in BOOLEAN
    /\ retry_ \in Retries
    /\ worker \in {"none", "top", "next", "try", "update", "wait", "sleep", "ended"}
    /\ todo \subseteq DOMAIN hosts_info_
    /\ cur \subseteq DOMAIN hosts_info_
    /\ (\E h \in cur : cur = {h}) <=> worker \in {"try", "update", "wait"}
    /\ tries \in 0 .. retry_
    /\ list \in Seq({AddressOf(t) : t \in Texts})
    /\ res \in {<<>>} \cup UNION {Answers[h] : h \in Hosts}
    /\ unset \in BOOLEAN
    /\ caller \in {"idle", "join"}
    /\ status \in {"up", "crashed"}
    /\ mixed \subseteq Hosts

Init ==
    /\ hosts_info_ = [h \in {} |-> <<>>]
    /\ running_ = FALSE
    /\ retry_ \in Retries
    /\ worker = "none"
    /\ todo = {}
    /\ cur = {}
    /\ tries = 0
    /\ list = <<>>
    /\ res = <<>>
    /\ unset = FALSE
    /\ caller = "idle"
    /\ status = "up"
    /\ used = {}
    /\ mixed = {}

-----------------------------------------------------------------------------
\* Mutant: AddHost does not look whether the host is there.
AddHostAgain(h) ==
    /\ hosts_info_' = [k \in DOMAIN hosts_info_ \cup {h} |->
                          IF k = h THEN <<>> ELSE hosts_info_[k]]
    /\ UNCHANGED <<running_, retry_, work, caller, status, used, mixed>>

AddHost(h) ==
    /\ h \notin DOMAIN hosts_info_
    /\ hosts_info_' = [k \in DOMAIN hosts_info_ \cup {h} |->
                          IF k = h THEN <<>> ELSE hosts_info_[k]]
    /\ UNCHANGED <<running_, retry_, work, caller, status, used, mixed>>

\* index % list.size(): the int becomes a size_t of 64 bits.
IndexOf(index, n) ==
    LET two16 == 65536 % n
        two32 == (two16 * two16) % n
    IN IF index >= 0 THEN index % n ELSE (two32 * two32 + index) % n

Take(h, address) ==
    /\ used' = {[host |-> h, address |-> address, mixed |-> h \in mixed]}
    /\ UNCHANGED <<hosts_info_, running_, retry_, work, caller, status, mixed>>

Resolved(h) == h \in DOMAIN hosts_info_ /\ hosts_info_[h] # <<>>

\* GetHostAddress(host, index), by any thread.
GetHostAddress(h, index) ==
    /\ Resolved(h)
    /\ Take(h, hosts_info_[h][1 + IndexOf(index, Len(hosts_info_[h]))])

\* GetHostAddress(host) returns the list, and the caller takes any of it.
GetHostAddresses(h) ==
    /\ h \in DOMAIN hosts_info_
    /\ \E k \in DOMAIN hosts_info_[h] : Take(h, hosts_info_[h][k])

-----------------------------------------------------------------------------
\* The assignment to thread_ terminates the process if a thread is there.
Start ==
    /\ caller = "idle"
    /\ running_' = TRUE
    /\ IF worker = "none" THEN worker' = "top" /\ status' = status
                          ELSE status' = "crashed" /\ worker' = worker
    /\ UNCHANGED <<hosts_info_, retry_, todo, cur, tries, list, res, unset, caller, used, mixed>>

Stop ==
    /\ caller = "idle"
    /\ running_' = FALSE
    /\ caller' = IF worker = "none" THEN "idle" ELSE "join"
    /\ UNCHANGED <<hosts_info_, retry_, work, status, used, mixed>>

Joined ==
    /\ caller = "join"
    /\ worker = "ended"
    /\ worker' = "none"
    /\ caller' = "idle"
    /\ UNCHANGED <<hosts_info_, running_, retry_, todo, cur, tries, list, res, unset, status, used, mixed>>

-----------------------------------------------------------------------------
\* Mutant: the test of running_ is lost.
CopyHostsAlways ==
    /\ worker = "top"
    /\ worker' = "next"
    /\ todo' = DOMAIN hosts_info_
    /\ UNCHANGED <<hosts_info_, running_, retry_, cur, tries, list, res, unset, caller, status, used, mixed>>

\* Mutant: the table is copied only until a first host is resolved.
CopyHostsAtFirst ==
    /\ worker = "top"
    /\ IF running_ THEN /\ worker' = "next"
                       /\ todo' = IF res = <<>> THEN DOMAIN hosts_info_ ELSE {}
                   ELSE worker' = "ended" /\ todo' = todo
    /\ UNCHANGED <<hosts_info_, running_, retry_, cur, tries, list, res, unset, caller, status, used, mixed>>

\* while (running_), and GetHosts.
CopyHosts ==
    /\ worker = "top"
    /\ IF running_ THEN worker' = "next" /\ todo' = DOMAIN hosts_info_
                   ELSE worker' = "ended" /\ todo' = todo
    /\ UNCHANGED <<hosts_info_, running_, retry_, cur, tries, list, res, unset, caller, status, used, mixed>>

\* Mutant: one list for all hosts.
NextHostOneList ==
    /\ worker = "next"
    /\ tries' = 0
    /\ IF todo = {}
         THEN worker' = "sleep" /\ UNCHANGED <<todo, cur>>
         ELSE \E h \in todo :
                /\ todo' = todo \ {h}
                /\ IF retry_ = 0 THEN UNCHANGED <<worker, cur>> ELSE worker' = "try" /\ cur' = {h}
    /\ UNCHANGED <<hosts_info_, running_, retry_, list, res, unset, caller, status, used, mixed>>

\* The next host, in any order, with a new list, or the sleep of interval_.
NextHost ==
    /\ worker = "next"
    /\ tries' = 0
    /\ list' = <<>>
    /\ IF todo = {}
         THEN worker' = "sleep" /\ UNCHANGED <<todo, cur>>
         ELSE \E h \in todo :
                /\ todo' = todo \ {h}
                /\ IF retry_ = 0 THEN UNCHANGED <<worker, cur>> ELSE worker' = "try" /\ cur' = {h}
    /\ UNCHANGED <<hosts_info_, running_, retry_, res, unset, caller, status, used, mixed>>

\* GetHostInfo appends what getaddrinfo gave.
Found(texts) ==
    /\ list' = list \o AddressesOf(texts)
    /\ worker' = IF list' = <<>> THEN "wait" ELSE "update"

Lookup(h) ==
    /\ worker = "try"
    /\ cur = {h}
    /\ \E texts \in Answers[h] : res' = texts /\ Found(texts)
    /\ unset' = FALSE
    /\ UNCHANGED <<hosts_info_, running_, retry_, todo, cur, tries, caller, status, used, mixed>>

\* getaddrinfo fails: res is null, an old answer, or wild.
LookupFails(h) ==
    /\ worker = "try"
    /\ cur = {h}
    /\ \/ Found(<<>>) /\ UNCHANGED status
       \/ Found(res) /\ UNCHANGED status
       \/ status' = "crashed" /\ UNCHANGED <<list, worker>>
    /\ unset' = TRUE
    /\ UNCHANGED <<hosts_info_, running_, retry_, todo, cur, tries, res, caller, used, mixed>>

\* UpdateHost swaps the lists; the break.
UpdateHost ==
    /\ worker = "update"
    /\ \E h \in cur :
         /\ hosts_info_' = [hosts_info_ EXCEPT ![h] = list]
         /\ list' = hosts_info_[h]
    /\ mixed' = IF unset THEN mixed \cup cur ELSE mixed \ cur
    /\ worker' = "next"
    /\ cur' = {}
    /\ UNCHANGED <<running_, retry_, todo, tries, res, unset, caller, status, used>>

\* The sleep of sleep_ ends: the next try, if there is one.
WaitEnds ==
    /\ worker = "wait"
    /\ tries' = tries + 1
    /\ IF tries + 1 < retry_ THEN worker' = "try" /\ cur' = cur ELSE worker' = "next" /\ cur' = {}
    /\ UNCHANGED <<hosts_info_, running_, retry_, todo, list, res, unset, caller, status, used, mixed>>

SleepEnds ==
    /\ worker = "sleep"
    /\ worker' = "top"
    /\ UNCHANGED <<hosts_info_, running_, retry_, todo, cur, tries, list, res, unset, caller,
                   status, used, mixed>>

OnWork ==
    \/ CopyHosts \/ NextHost \/ UpdateHost \/ WaitEnds \/ SleepEnds
    \/ \E h \in Hosts : Lookup(h) \/ LookupFails(h)

Next ==
    /\ status = "up"
    /\ \/ OnWork
       \/ Start \/ Stop \/ Joined
       \/ \E h \in Hosts : \/ AddHost(h) \/ GetHostAddresses(h)
                           \/ \E index \in Indexes : GetHostAddress(h, index)

Spec == Init /\ [][Next]_vars

\* The thread runs, and no host's lookups fail for ever.
FairSpec ==
    /\ Spec
    /\ WF_vars(status = "up" /\ OnWork)
    /\ WF_vars(status = "up" /\ Joined)
    /\ \A h \in Hosts : SF_vars(status = "up" /\ Lookup(h))

-----------------------------------------------------------------------------
\* The socket address a caller makes of what it was given is one that the resolver
\* gave for that host, and the same when it goes through the text of ToIpPort; but that
\* of an IPv6 answer is 0.0.0.0, and its text is split at the first ":", so that the
\* second group becomes the port.  An answer read through the unset res may be that of
\* any host.  A socket connected to it has it as its peer, and the peer's address made
\* there, of either family, is the same socket address again (DnsService.cc:90-151,
\* InetAddress.cc:37-68, SocketOpt.cc:82-144).
AnswersAreOwn ==
    \A u \in used : ~u.mixed =>
        \E texts \in Answers[u.host] : \E text \in ToSet(texts) :
            /\ u.address.addr_ = text
            /\ LET sock == GetSockAddr(u.address)
                   again == GetSockAddr(SetHost(NoAddress, ToIpPort(u.address)))
                   sock6 == GetSockAddr([u.address EXCEPT !.is_ipv6_ = TRUE])
               IN /\ sock.v4 = Pton(text) /\ sock.port = 0
                  /\ text \in DOMAIN Quad => sock = again /\ GEtpeerAddr(sock) = u.address
                  /\ \A s \in {sock, sock6} : GetSockAddr(GEtpeerAddr(s)) = s
                                           /\ GetSockAddr(GEtLocalAddr(s)) = s

\* A host is never forgotten, and one that has addresses keeps having some, whatever
\* lookups fail and whoever adds it again meanwhile (DnsService.cc:18-27, 90-111).
AnswersStay ==
    [][\A h \in DOMAIN hosts_info_ :
           h \in DOMAIN hosts_info_' /\ (hosts_info_[h] # <<>> => hosts_info_'[h] # <<>>)]_vars

\* An address is of the LAN if it is private (RFC 1918) but for the second range,
\* 172.16 to 172.31, in place of which IsLanIp takes 17.16 to 17.31; one that is not
\* is of the WAN unless it is 127.0.0.1 (InetAddress.cc:74-103).
LanIsPrivate ==
    \A u \in used :
        LET q == Pton(u.address.addr_)
            second(first) == q[1] = first /\ q[2] \in 16 .. 31
        IN /\ IsLanIp(u.address) <=> \/ q[1] = 10 \/ second(17)
                                     \/ q[1] = 192 /\ q[2] = 168
           /\ IsWanIp(u.address) <=> ~IsLanIp(u.address) /\ ~IsLoopbackIp(u.address)

\* A host that was added is resolved while the thread runs, whenever it was added and
\* however often lookups fail, if there is a try at all (DnsService.cc:90-111).
HostIsResolved ==
    \A h \in Hosts :
        h \in DOMAIN hosts_info_ /\ retry_ > 0 /\ running_
            ~> Resolved(h) \/ ~running_ \/ status = "crashed"

\* Stop returns: the thread sees running_ and ends (DnsService.cc:81-92).
StopReturns == caller = "join" ~> caller = "idle" \/ status = "crashed"
=============================================================================
