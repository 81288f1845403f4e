---------------------------- MODULE TestContext ----------------------------
(***************************************************************************)
(* A MsgBuffer and its owner: any caller, or a TestContext, whose           *)
(* ParseMessage takes messages out of it, each behind a header with its      *)
(* length, as the bytes come in from a connection in pieces of any length.   *)
(*                                                                         *)
(* A body that is not complete when ParseMessage meets it makes its while    *)
(* go round for ever: no step of the parser is enabled then, and none of     *)
(* the thread that would read the rest.                                     *)
(***************************************************************************)
EXTENDS MsgBuffer, Integers, SequencesExt

CONSTANTS IntBytes,  \* sizeof(int32_t)
          Base,      \* values of a byte
          Messages   \* what the peer may send: sequences of lengths, of which only
                     \* the last one may be negative, with a byte behind it

VARIABLES owner,            \* "caller" or "context"
          peer,             \* the lengths the peer sends
          parsing,          \* ParseMessage runs
          state_,           \* "header" or "body"
          message_length_,
          message_body_,    \* bytes, by their numbers
          has_cb,           \* cb_ is set
          got               \* the messages given to cb_ (history)

context == <<state_, message_length_, message_body_, got>>
allVars == <<vars, owner, peer, parsing, has_cb, context>>

-----------------------------------------------------------------------------
(* Integers in the buffer.                                                  *)

\* What is left of x without its 0, 1, 2, ... least significant bytes.
Rest(x) ==
    LET rest[k \in 0 .. IntBytes] == IF k = 0 THEN x ELSE rest[k - 1] \div Base IN rest

\* The bytes of an int on this machine, the least significant first, and back: the
\* first bit of the last one is the sign.
BytesOf(x) == [k \in 1 .. IntBytes |-> Rest(x)[k - 1] % Base]
IntOf(bytes) ==
    LET int[k \in 0 .. IntBytes] ==
            IF k = 0 THEN IF 2 * bytes[IntBytes] < Base THEN 0 ELSE -1
                     ELSE Base * int[k - 1] + bytes[IntBytes + 1 - k]
    IN int[IntBytes]

\* x fits in IntBytes bytes.
IsInt(x) == 2 * Rest(x)[IntBytes - 1] \in -Base .. Base - 1

ASSUME ContextAssumption ==
    /\ IntBytes \in Nat \ {0} /\ Base \in Nat /\ Base > 1 /\ IntBytes \in Lens
    /\ Messages \subseteq Seq(Int)
    /\ \A lens \in Messages : \A k \in DOMAIN lens :
           /\ IsInt(lens[k])
           /\ lens[k] \in Lens \/ (lens[k] < 0 /\ k = Len(lens))

\* htobe and betoh swap the bytes.
HostToNetwork(x) == Reverse(BytesOf(x))
NetworkToHost(bytes) == IntOf(Reverse(bytes))

-----------------------------------------------------------------------------
(* What the peer sends.                                                     *)

BodyLen(lens, k) == IF lens[k] < 0 THEN 1 ELSE lens[k]

\* The number of the last byte of message k, and the numbers of its body.
End(lens, k) ==
    LET end[j \in 0 .. Len(lens)] ==
            IF j = 0 THEN 0 ELSE end[j - 1] + IntBytes + BodyLen(lens, j)
    IN end[k]
Body(lens, k) == [i \in 1 .. lens[k] |-> End(lens, k) - lens[k] + i]

\* The value of byte number i.
Wire(i) ==
    LET k == CHOOSE j \in DOMAIN peer : i <= End(peer, j) /\ i > End(peer, j - 1)
        at == i - End(peer, k - 1)
    IN IF at <= IntBytes THEN HostToNetwork(peer[k])[at] ELSE 0

\* The bodies of the first n messages, apart and piled up.
Bodies(lens, n) == [k \in 1 .. n |-> Body(lens, k)]
Pile(lens, n) ==
    LET pile[k \in 0 .. Len(lens)] ==
            IF k = 0 THEN <<>> ELSE pile[k - 1] \o Body(lens, k)
    IN pile[n]

-----------------------------------------------------------------------------
ContextInit ==
    /\ Init
    /\ owner \in {"caller", "context"}
    /\ peer \in IF owner = "caller" THEN {<<>>} ELSE Messages
    /\ has_cb \in IF owner = "caller" THEN {FALSE} ELSE BOOLEAN
    /\ parsing = FALSE
    /\ state_ = "header"
    /\ message_length_ = 0
    /\ message_body_ = <<>>
    /\ got = <<>>

\* The caller of a buffer without a TestContext.
CallerActs == owner = "caller" /\ Next /\ UNCHANGED <<owner, peer, parsing, has_cb, context>>

\* TcpConnection::OnRead reads a piece and calls ParseMessage.
OnRead(len) ==
    /\ owner = "context"
    /\ ~parsing
    /\ stamp + len <= End(peer, Len(peer))
    /\ ReadFd(len)
    /\ parsing' = TRUE
    /\ UNCHANGED <<owner, peer, has_cb, context>>

\* Mutant: the swap is forgotten.
PeekIntHost(b) == IntOf([k \in 1 .. IntBytes |-> Wire(b.bytes[b.reader + k - 1])])

PeekInt(b) == NetworkToHost([k \in 1 .. IntBytes |-> Wire(b.bytes[b.reader + k - 1])])

\* readInt32.
ReadInt == message_length_' = PeekInt(buffer) /\ Retrieve(IntBytes)

\* Mutant: ParseMessage returns after a header.
ParseHeaderReturns ==
    /\ parsing
    /\ state_ = "header"
    /\ ReadableBytes(buffer) >= IntBytes
    /\ ReadInt
    /\ state_' = "body"
    /\ parsing' = FALSE
    /\ UNCHANGED <<owner, peer, has_cb, message_body_, got>>

ParseHeader ==
    /\ parsing
    /\ state_ = "header"
    /\ ReadableBytes(buffer) >= IntBytes
    /\ ReadInt
    /\ state_' = "body"
    /\ UNCHANGED <<owner, peer, parsing, has_cb, message_body_, got>>

\* The length is compared as a size_t, so a negative one is never reached; one of
\* 0 is looked at only when there are more bytes.
ParseBody ==
    /\ parsing
    /\ state_ = "body"
    /\ ReadableBytes(buffer) > 0
    /\ message_length_ >= 0 /\ ReadableBytes(buffer) >= message_length_
    /\ LET body == message_body_ \o [i \in 1 .. message_length_ |-> Readable[i]]
       IN /\ message_body_' = IF has_cb THEN <<>> ELSE body
          /\ got' = IF has_cb THEN Append(got, body) ELSE got
    /\ Retrieve(message_length_)
    /\ message_length_' = 0
    /\ state_' = "header"
    /\ UNCHANGED <<owner, peer, parsing, has_cb>>

\* No byte is left, or too few for a header.
ParseReturn ==
    /\ parsing
    /\ \/ ReadableBytes(buffer) = 0
       \/ state_ = "header" /\ ReadableBytes(buffer) < IntBytes
    /\ parsing' = FALSE
    /\ UNCHANGED <<vars, owner, peer, has_cb, context>>

ParseMessage == ParseHeader \/ ParseBody \/ ParseReturn

ContextNext == CallerActs \/ (\E len \in Lens : OnRead(len)) \/ ParseMessage

ContextSpec == ContextInit /\ [][ContextNext]_allVars

\* The loop's thread runs.
ContextFairSpec == ContextSpec /\ WF_allVars(ParseMessage)

-----------------------------------------------------------------------------
\* The messages that come out are those that the peer sent, byte for byte and in
\* order, in whatever pieces they come and however the buffer moves and grows;
\* without a callback they pile up in message_body_ (TestContext.cc:10-47,
\* MsgBuffer.h:14-42, 234-303).
FramesInOrder ==
    \E n \in 0 .. Len(peer) :
        /\ \A k \in 1 .. n : peer[k] >= 0
        /\ IF has_cb THEN got = Bodies(peer, n) ELSE message_body_ = Pile(peer, n)

\* The parser goes round for ever on a body that is not complete.
Spinning ==
    /\ parsing /\ state_ = "body" /\ ReadableBytes(buffer) > 0
    /\ message_length_ < 0 \/ ReadableBytes(buffer) < message_length_

\* A message whose bytes have all come is given to the callback, unless the loop's
\* thread spins on part of it or of one before it; one of length 0 waits for
\* another byte (TestContext.cc:12-45).
FrameArrives ==
    \A n \in UNION {DOMAIN lens : lens \in Messages} :
        /\ has_cb /\ n \in DOMAIN peer /\ peer[n] >= 0
        /\ stamp >= End(peer, n) + IF peer[n] = 0 THEN 1 ELSE 0
        ~> Len(got) >= n \/ Spinning
=============================================================================
