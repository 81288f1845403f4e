---------------------------- MODULE LoopExecutor ----------------------------
(***************************************************************************)
(* What EventLoop::RunInLoop promises its callers, with no locks, pipes or  *)
(* epoll: every loop owns a queue; a function handed to a loop is executed  *)
(* by that loop, once, after everything that was queued before it.  A call  *)
(* made on the loop's own thread bypasses the queue.                        *)
(***************************************************************************)
EXTENDS Naturals, Sequences

CONSTANTS Loops,    \* the event loops, one thread each
          Funcs,    \* the functions handed to RunInLoop, each call distinct
          Target    \* Target[f]: the loop f is handed to, [Funcs -> Loops]

VARIABLES pending,  \* pending[l]: queued and not yet started, oldest first
          done      \* done[l]: started, in the order they were started

vars == <<pending, done>>

Items(s) == {s[i] : i \in DOMAIN s}

\* f has neither been queued nor started.
Fresh(f) == f \notin Items(pending[Target[f]]) \cup Items(done[Target[f]])

TypeOK == /\ pending \in [Loops -> Seq(Funcs)]
          /\ done \in [Loops -> Seq(Funcs)]

Init == /\ pending = [l \in Loops |-> <<>>]
        /\ done = [l \in Loops |-> <<>>]

Submit(f) ==
    /\ Fresh(f)
    /\ pending' = [pending EXCEPT ![Target[f]] = Append(@, f)]
    /\ UNCHANGED done

Execute(l) ==
    /\ pending[l] # <<>>
    /\ pending' = [pending EXCEPT ![l] = Tail(@)]
    /\ done' = [done EXCEPT ![l] = Append(@, Head(pending[l]))]

RunNow(f) ==
    /\ Fresh(f)
    /\ done' = [done EXCEPT ![Target[f]] = Append(@, f)]
    /\ UNCHANGED pending

Next == \/ \E f \in Funcs : Submit(f) \/ RunNow(f)
        \/ \E l \in Loops : Execute(l)

Spec == Init /\ [][Next]_vars
=============================================================================
