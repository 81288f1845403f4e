------------------------------ MODULE EventLoop ------------------------------
(***************************************************************************)
(* tmms::network::EventLoop: the loop thread of Loop(), the queue of        *)
(* functions that RunInLoop fills from other threads, the mutex around it,  *)
(* and the self-pipe (PipeEvent) that is meant to wake epoll_wait.          *)
(*                                                                         *)
(* A step is what one thread does between two points where another thread  *)
(* can interfere: the mutex operations, epoll_wait, the read and the write *)
(* of the pipe.  Sockets and timers appear only as the code that may call   *)
(* RunInLoop on the loop's thread while events are dispatched ("dispatch") *)
(* or while OnTimer runs ("timer").                                         *)
(*                                                                         *)
(* Kernel behaviour assumed (external): a pipe holds PipeCap 8-byte words; *)
(* a write to a full non-blocking pipe fails with EAGAIN; every successful *)
(* write re-arms the edge of an EPOLLET reader.                            *)
(***************************************************************************)
EXTENDS Naturals, Sequences, FiniteSets

CONSTANTS Loops,      \* the event loops; a loop also names its own thread
          Outsiders,  \* threads that run no event loop
          Funcs,      \* the functions handed to RunInLoop, each call distinct
          Target,     \* Target[f]: the loop f is handed to
          Caller,     \* Caller[f]: the thread, or the function, that makes the call
          PipeCap,    \* capacity of a wake-up pipe in 8-byte words
          Free,       \* an unlocked mutex
          NoFunc      \* a thread that is not inside RunInLoop

Threads == Loops \cup Outsiders

ASSUME LoopsAssumption ==
    /\ Target \in [Funcs -> Loops]
    /\ Caller \in [Funcs -> Threads \cup Funcs]
    /\ Threads \cap Funcs = {}
    /\ Loops \cap Outsiders = {}
    /\ Free \notin Threads
    /\ NoFunc \notin Funcs
ASSUME PipeAssumption == PipeCap \in Nat \ {0}

VARIABLES looping,    \* looping[l]: looping_
          pc,         \* pc[l]: where the loop thread is in Loop()
          functions,  \* functions[l]: functions_, the front first
          lock,       \* lock[l]: the thread holding lock_, or Free
          pipe,       \* pipe[l]: pipe_event_ exists and is registered
          pipeBytes,  \* pipeBytes[l]: 8-byte words in the pipe
          edge,       \* edge[l]: epoll has an unreported event for the pipe
          ready,      \* ready[l]: the pipe is in the batch being dispatched
          stack,      \* stack[l]: functions being executed, the innermost first
          at,         \* at[t]: where thread t is inside RunInLoop
          call,       \* call[t]: the function it is handing over
          posted,     \* functions whose RunInLoop call has been made
          ran         \* ran[l]: functions started, in order (history)

loopVars == <<looping, pc>>
pipeVars == <<pipe, pipeBytes, edge>>
vars == <<looping, pc, functions, lock, pipe, pipeBytes, edge, ready, stack,
          at, call, posted, ran>>

TypeOK ==
    /\ looping \in [Loops -> BOOLEAN]
    /\ pc \in [Loops -> {"idle", "check", "wait", "dispatch", "drain",
                         "running", "timer", "exited"}]
    /\ functions \in [Loops -> Seq(Funcs)]
    /\ lock \in [Loops -> Threads \cup {Free}]
    /\ pipe \in [Loops -> BOOLEAN]
    /\ pipeBytes \in [Loops -> 0 .. PipeCap]
    /\ edge \in [Loops -> BOOLEAN]
    /\ ready \in [Loops -> BOOLEAN]
    /\ stack \in [Loops -> Seq(Funcs)]
    /\ at \in [Threads -> {"none", "lock", "wake", "unlock"}]
    /\ call \in [Threads -> Funcs \cup {NoFunc}]
    /\ posted \in SUBSET Funcs
    /\ ran \in [Loops -> Seq(Funcs)]

Init ==
    /\ looping = [l \in Loops |-> FALSE]
    /\ pc = [l \in Loops |-> "idle"]
    /\ functions = [l \in Loops |-> <<>>]
    /\ lock = [l \in Loops |-> Free]
    /\ pipe = [l \in Loops |-> FALSE]
    /\ pipeBytes = [l \in Loops |-> 0]
    /\ edge = [l \in Loops |-> FALSE]
    /\ ready = [l \in Loops |-> FALSE]
    /\ stack = [l \in Loops |-> <<>>]
    /\ at = [t \in Threads |-> "none"]
    /\ call = [t \in Threads |-> NoFunc]
    /\ posted = {}
    /\ ran = [l \in Loops |-> <<>>]

-----------------------------------------------------------------------------
(* The functions and who calls RunInLoop with them.                         *)

Callees(f) == {g \in Funcs : Caller[g] = f}

\* Thread t is executing the code that hands f to RunInLoop.
MayCall(t, f) ==
    /\ f \notin posted
    /\ at[t] = "none"
    /\ IF t \in Loops /\ stack[t] # <<>>
         THEN Caller[f] = Head(stack[t])
         ELSE /\ Caller[f] = t
              /\ t \in Loops => pc[t] \in {"dispatch", "timer"}

\* The innermost function that l executes has made all its calls.
BodyDone(l) ==
    /\ at[l] = "none"
    /\ stack[l] # <<>>
    /\ Callees(Head(stack[l])) \subseteq posted

\* l is executing neither a function nor a call.
AtRest(l) == at[l] = "none" /\ stack[l] = <<>>

-----------------------------------------------------------------------------
(* RunInLoop and WakeUp.                                                    *)

\* IsInLoopThread(): f runs at once, inside whatever the loop is doing.
RunInLoopInline(t, f) ==
    /\ MayCall(t, f)
    /\ Target[f] = t
    /\ posted' = posted \cup {f}
    /\ stack' = [stack EXCEPT ![t] = <<f>> \o @]
    /\ ran' = [ran EXCEPT ![t] = Append(@, f)]
    /\ UNCHANGED <<looping, pc, functions, lock, pipe, pipeBytes, edge, ready,
                   at, call>>

\* Any other thread goes for lock_.
RunInLoopCall(t, f) ==
    /\ MayCall(t, f)
    /\ Target[f] # t
    /\ posted' = posted \cup {f}
    /\ at' = [at EXCEPT ![t] = "lock"]
    /\ call' = [call EXCEPT ![t] = f]
    /\ UNCHANGED <<looping, pc, functions, lock, pipe, pipeBytes, edge, ready,
                   stack, ran>>

\* lock_guard taken, functions_.push(f).
LockAndPush(t) ==
    /\ at[t] = "lock"
    /\ LET l == Target[call[t]] IN
         /\ lock[l] = Free
         /\ lock' = [lock EXCEPT ![l] = t]
         /\ functions' = [functions EXCEPT ![l] = Append(@, call[t])]
    /\ at' = [at EXCEPT ![t] = "wake"]
    /\ UNCHANGED <<looping, pc, pipe, pipeBytes, edge, ready, stack, call,
                   posted, ran>>

\* WakeUp: creates and registers the pipe the first time, then writes one
\* word; the result of the write is ignored, so a full pipe changes nothing.
WakeUp(t) ==
    /\ at[t] = "wake"
    /\ LET l == Target[call[t]] IN
         /\ pipe' = [pipe EXCEPT ![l] = TRUE]
         /\ IF pipeBytes[l] < PipeCap
              THEN /\ pipeBytes' = [pipeBytes EXCEPT ![l] = @ + 1]
                   /\ edge' = [edge EXCEPT ![l] = TRUE]
              ELSE UNCHANGED <<pipeBytes, edge>>
    /\ at' = [at EXCEPT ![t] = "unlock"]
    /\ UNCHANGED <<looping, pc, functions, lock, ready, stack, call, posted, ran>>

\* ~lock_guard, RunInLoop returns.
Unlock(t) ==
    /\ at[t] = "unlock"
    /\ lock' = [lock EXCEPT ![Target[call[t]]] = Free]
    /\ at' = [at EXCEPT ![t] = "none"]
    /\ call' = [call EXCEPT ![t] = NoFunc]
    /\ UNCHANGED <<looping, pc, functions, pipe, pipeBytes, edge, ready, stack,
                   posted, ran>>

-----------------------------------------------------------------------------
(* The loop thread.                                                         *)

\* Loop() is entered: looping_ = true, whatever Quit did before.
LoopStart(l) ==
    /\ pc[l] = "idle"
    /\ looping' = [looping EXCEPT ![l] = TRUE]
    /\ pc' = [pc EXCEPT ![l] = "check"]
    /\ UNCHANGED <<functions, lock, pipe, pipeBytes, edge, ready, stack, at,
                   call, posted, ran>>

\* while (looping_)
LoopCheck(l) ==
    /\ pc[l] = "check"
    /\ pc' = [pc EXCEPT ![l] = IF looping[l] THEN "wait" ELSE "exited"]
    /\ UNCHANGED <<looping, functions, lock, pipe, pipeBytes, edge, ready,
                   stack, at, call, posted, ran>>

\* Mutant: epoll_wait without a timeout.
EpollWaitForever(l) ==
    /\ pc[l] = "wait"
    /\ edge[l]
    /\ ready' = [ready EXCEPT ![l] = TRUE]
    /\ edge' = [edge EXCEPT ![l] = FALSE]
    /\ pc' = [pc EXCEPT ![l] = "dispatch"]
    /\ UNCHANGED <<looping, functions, lock, pipe, pipeBytes, stack, at, call,
                   posted, ran>>

\* Mutant: every registered event is dispatched, reported or not.
EpollWaitAll(l) ==
    /\ pc[l] = "wait"
    /\ ready' = [ready EXCEPT ![l] = pipe[l]]
    /\ edge' = [edge EXCEPT ![l] = FALSE]
    /\ pc' = [pc EXCEPT ![l] = "dispatch"]
    /\ UNCHANGED <<looping, functions, lock, pipe, pipeBytes, stack, at, call,
                   posted, ran>>

\* epoll_wait returns: an armed pipe is in the batch; without one the batch
\* holds other descriptors or, after the timeout, nothing.
EpollWait(l) ==
    /\ pc[l] = "wait"
    /\ ready' = [ready EXCEPT ![l] = edge[l]]
    /\ edge' = [edge EXCEPT ![l] = FALSE]
    /\ pc' = [pc EXCEPT ![l] = "dispatch"]
    /\ UNCHANGED <<looping, functions, lock, pipe, pipeBytes, stack, at, call,
                   posted, ran>>

\* epoll_wait fails (EINTR): the error is logged and the loop turns.
EpollError(l) ==
    /\ pc[l] = "wait"
    /\ pc' = [pc EXCEPT ![l] = "check"]
    /\ UNCHANGED <<looping, functions, lock, pipe, pipeBytes, edge, ready,
                   stack, at, call, posted, ran>>

\* PipeEvent::OnRead: one read of 8 bytes per reported edge.
PipeOnRead(l) ==
    /\ pc[l] = "dispatch"
    /\ AtRest(l)
    /\ ready[l]
    /\ ready' = [ready EXCEPT ![l] = FALSE]
    /\ pipeBytes' = [pipeBytes EXCEPT ![l] = IF @ > 0 THEN @ - 1 ELSE @]
    /\ UNCHANGED <<looping, pc, functions, lock, pipe, edge, stack, at, call,
                   posted, ran>>

\* Every event of the batch has been dispatched; RunFunctions is called.
DispatchEnd(l) ==
    /\ pc[l] = "dispatch"
    /\ AtRest(l)
    /\ ~ready[l]
    /\ pc' = [pc EXCEPT ![l] = "drain"]
    /\ UNCHANGED <<looping, functions, lock, pipe, pipeBytes, edge, ready,
                   stack, at, call, posted, ran>>

\* RunFunctions takes lock_ and keeps it while the functions run.
RunFunctionsLock(l) ==
    /\ pc[l] = "drain"
    /\ lock[l] = Free
    /\ lock' = [lock EXCEPT ![l] = l]
    /\ pc' = [pc EXCEPT ![l] = "running"]
    /\ UNCHANGED <<looping, functions, pipe, pipeBytes, edge, ready, stack, at,
                   call, posted, ran>>

\* f = functions_.front(); f(): the function stays in the queue while it runs.
RunFront(l) ==
    /\ pc[l] = "running"
    /\ AtRest(l)
    /\ functions[l] # <<>>
    /\ stack' = [stack EXCEPT ![l] = <<Head(functions[l])>>]
    /\ ran' = [ran EXCEPT ![l] = Append(@, Head(functions[l]))]
    /\ UNCHANGED <<looping, pc, functions, lock, pipe, pipeBytes, edge, ready,
                   at, call, posted>>

\* Mutant: the executed function is not popped.
FuncReturnNoPop(l) ==
    /\ BodyDone(l)
    /\ stack' = [stack EXCEPT ![l] = Tail(@)]
    /\ UNCHANGED <<looping, pc, functions, lock, pipe, pipeBytes, edge, ready,
                   at, call, posted, ran>>

\* A function returns; the outermost one in RunFunctions is popped.
FuncReturn(l) ==
    /\ BodyDone(l)
    /\ stack' = [stack EXCEPT ![l] = Tail(@)]
    /\ functions' = IF pc[l] = "running" /\ Len(stack[l]) = 1
                      THEN [functions EXCEPT ![l] = Tail(@)]
                      ELSE functions
    /\ UNCHANGED <<looping, pc, lock, pipe, pipeBytes, edge, ready, at, call,
                   posted, ran>>

\* Mutants: one function is executed per turn of the loop; lock_ is not released.
RunFunctionsUnlockEarly(l) ==
    /\ pc[l] = "running"
    /\ AtRest(l)
    /\ lock' = [lock EXCEPT ![l] = Free]
    /\ pc' = [pc EXCEPT ![l] = "timer"]
    /\ UNCHANGED <<looping, functions, pipe, pipeBytes, edge, ready, stack, at,
                   call, posted, ran>>

RunFunctionsKeepLock(l) ==
    /\ pc[l] = "running"
    /\ AtRest(l)
    /\ functions[l] = <<>>
    /\ pc' = [pc EXCEPT ![l] = "timer"]
    /\ UNCHANGED <<looping, functions, lock, pipe, pipeBytes, edge, ready,
                   stack, at, call, posted, ran>>

\* functions_ is empty: RunFunctions returns and releases lock_.
RunFunctionsUnlock(l) ==
    /\ pc[l] = "running"
    /\ AtRest(l)
    /\ functions[l] = <<>>
    /\ lock' = [lock EXCEPT ![l] = Free]
    /\ pc' = [pc EXCEPT ![l] = "timer"]
    /\ UNCHANGED <<looping, functions, pipe, pipeBytes, edge, ready, stack, at,
                   call, posted, ran>>

\* wheel_.OnTimer(now) has returned.
TimerEnd(l) ==
    /\ pc[l] = "timer"
    /\ AtRest(l)
    /\ pc' = [pc EXCEPT ![l] = "check"]
    /\ UNCHANGED <<looping, functions, lock, pipe, pipeBytes, edge, ready,
                   stack, at, call, posted, ran>>

\* Quit(), from any thread: nothing wakes the loop.
Quit(l) ==
    /\ looping' = [looping EXCEPT ![l] = FALSE]
    /\ UNCHANGED <<pc, functions, lock, pipe, pipeBytes, edge, ready, stack,
                   at, call, posted, ran>>

-----------------------------------------------------------------------------
CallStep(t) ==
    \/ \E f \in Funcs : RunInLoopInline(t, f) \/ RunInLoopCall(t, f)
    \/ LockAndPush(t)
    \/ WakeUp(t)
    \/ Unlock(t)

LoopStep(l) ==
    \/ LoopStart(l) \/ LoopCheck(l) \/ EpollWait(l)
    \/ PipeOnRead(l) \/ DispatchEnd(l)
    \/ RunFunctionsLock(l) \/ RunFront(l) \/ FuncReturn(l) \/ RunFunctionsUnlock(l)
    \/ TimerEnd(l)

Next ==
    \/ \E t \in Threads : CallStep(t)
    \/ \E l \in Loops : LoopStep(l) \/ EpollError(l) \/ Quit(l)

Spec == Init /\ [][Next]_vars

\* The scheduler runs every thread, a function that runs makes its calls, and
\* an armed pipe is reported in the end even if signals interrupt epoll_wait.
\* The mutex does not starve a poster while the loop keeps taking it.
\* A caller that stays away (an outsider, a handler) is allowed.
WakeFairness ==
    /\ \A t \in Threads : /\ SF_vars(LockAndPush(t))
                          /\ WF_vars(WakeUp(t) \/ Unlock(t))
    /\ \A l \in Loops : /\ WF_vars(LoopStep(l) /\ pc[l] # "wait")
                        /\ SF_vars(EpollWait(l) /\ edge[l])
    /\ \A l \in Loops, f \in Funcs :
         WF_vars(stack[l] # <<>> /\ (RunInLoopInline(l, f) \/ RunInLoopCall(l, f)))

\* epoll_wait without its timeout: only an armed pipe is sure to end it.
WakeSpec == Spec /\ WakeFairness

-----------------------------------------------------------------------------
(* Properties.                                                              *)

\* A wake-up is never lost: when a loop sits in epoll_wait and functions_ is
\* not empty, the pipe is armed or the poster is about to write to it, although
\* RunInLoop ignores a full pipe and OnRead takes one word per edge, leaving
\* the others behind (EventLoop.cc:195-198, PipeEvent.cc:35, 58).
WakePending ==
    \A l \in Loops :
      (pc[l] = "wait" /\ functions[l] # <<>>) =>
         edge[l] \/ \E t \in Threads : at[t] = "wake" /\ Target[call[t]] = l

\* The read in PipeEvent::OnRead never fails with EAGAIN: the error branch of
\* PipeEvent.cc:36-40 is dead code, whatever words were left unread before.
ReadFindsData == \A l \in Loops : ready[l] => pipeBytes[l] > 0

\* The queue and the executions are those of LoopExecutor: each function is
\* executed once, by its own loop, and queued ones in the order of the pushes,
\* although the running function is popped only after it returned
\* (EventLoop.cc:217-226).
Pending == [l \in Loops |-> IF pc[l] = "running" /\ stack[l] # <<>>
                              THEN Tail(functions[l]) ELSE functions[l]]
Executor == INSTANCE LoopExecutor WITH pending <- Pending, done <- ran
ImplementsExecutor == Executor!Spec

Ran(f) == \E i \in DOMAIN ran[Target[f]] : ran[Target[f]][i] = f

\* Two loops, each executing a function with its own lock_ held, wait for one
\* another's lock_: RunFunctions calls f() under the lock (EventLoop.cc:219-223).
Crossed ==
    \E l, m \in Loops :
      /\ l # m
      /\ pc[l] = "running" /\ at[l] = "lock" /\ Target[call[l]] = m
      /\ pc[m] = "running" /\ at[m] = "lock" /\ Target[call[m]] = l

\* A function handed to a loop runs even if epoll_wait has no timeout, unless
\* the loop has left Loop(): the pipe alone wakes it.  The one other thing that
\* can stop a function is that two loops whose queued functions post to each
\* other have crossed.
PostedRuns ==
    \A f \in Funcs : f \in posted ~> (Ran(f) \/ pc[Target[f]] = "exited" \/ Crossed)

\* With its timeout of 1000 ms epoll_wait always returns.
Timeout == \A l \in Loops : SF_vars(EpollWait(l))

\* Quit from any thread ends a loop that has entered Loop(), though nothing is
\* written to the pipe: the timeout of epoll_wait is what ends the wait.
QuitExits ==
    Timeout => \A l \in Loops :
        (pc[l] # "idle" /\ ~looping[l]) ~> (pc[l] = "exited" \/ Crossed)
=============================================================================
