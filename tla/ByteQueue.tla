----------------------------- MODULE ByteQueue -----------------------------
(***************************************************************************)
(* What MsgBuffer promises: a queue of bytes that are appended at the back  *)
(* and retrieved from the front, with room to prepend and to take back.     *)
(* Bytes are numbered in the order they come in, so that no two are equal.  *)
(***************************************************************************)
EXTENDS Naturals, Sequences

CONSTANT Lens  \* lengths of the calls

VARIABLES content,  \* the readable bytes, the next one to retrieve first
          stamp     \* bytes that came in so far

Fresh(len) == [i \in 1 .. len |-> stamp + i]

Init == content = <<>> /\ stamp = 0

Put(len) == content' = content \o Fresh(len) /\ stamp' = stamp + len

PutFirst(len) == content' = Fresh(len) \o content /\ stamp' = stamp + len

Get(len) ==
    /\ len <= Len(content)
    /\ content' = SubSeq(content, len + 1, Len(content))
    /\ UNCHANGED stamp

TakeBack(len) ==
    /\ len <= Len(content)
    /\ content' = SubSeq(content, 1, Len(content) - len)
    /\ UNCHANGED stamp

Next == \E len \in Lens : Put(len) \/ PutFirst(len) \/ Get(len) \/ TakeBack(len)

Spec == Init /\ [][Next]_<<content, stamp>>
=============================================================================
