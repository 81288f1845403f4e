-------------------------- MODULE EventLoopThread --------------------------
(***************************************************************************)
(* tmms::network::EventLoopThread: an object that owns a thread running an *)
(* EventLoop.  The constructor starts the thread, Run() lets it enter       *)
(* Loop() and waits for the loop to exist, the destructor quits the loop    *)
(* and joins the thread.                                                    *)
(*                                                                         *)
(* thread_ is declared, hence started, before lock_, condition_, once_,     *)
(* promise_loop_ and running_ are constructed.  The new thread may be so     *)
(* fast that it uses them first, which is undefined: the outcomes modelled *)
(* are that the memory reads as zeros or as a set running_, that the        *)
(* construction which follows forgets the owner of lock_, a registered      *)
(* waiter or a stored promise value, and that it happens to do no harm.     *)
(***************************************************************************)
EXTENDS Naturals

CONSTANTS Callers,      \* the threads that call Run()
          Owner         \* the caller that constructs and destroys the object

ASSUME ThreadAssumption == Owner \in Callers

VARIABLES built,     \* the constructor has initialised the members
          lock,      \* lock_ is held
          waiting,   \* condition_ knows the worker as a waiter
          running,   \* running_
          once,      \* once_
          promise,   \* promise_loop_ has a value
          loop,      \* loop_ is not null
          looping,   \* loop.looping_
          worker,    \* where StartEventLoop is
          at,        \* at[c]: where caller c is
          overtaken, \* a Quit came before looping_ = true (history)
          early      \* the thread started before the members were built (history)

vars == <<built, lock, waiting, running, once, promise, loop, looping, worker,
          at, overtaken, early>>

TypeOK ==
    /\ {built, lock, waiting, running, promise, loop, looping, overtaken, early} \subseteq BOOLEAN
    /\ once \in {"new", "busy", "done"}
    /\ worker \in {"start", "lock", "check", "wait", "publish", "set", "enter",
                   "loop", "leave", "done"}
    /\ at \in [Callers -> {"idle", "call", "signal", "get", "ran", "check",
                           "quit", "join", "end"}]

\* The raw memory of running_ is undetermined.
Init ==
    /\ built = FALSE
    /\ lock = FALSE
    /\ waiting = FALSE
    /\ running \in BOOLEAN
    /\ once = "new"
    /\ promise = FALSE
    /\ loop = FALSE
    /\ looping = FALSE
    /\ worker = "start"
    /\ at = [c \in Callers |-> "idle"]
    /\ overtaken = FALSE
    /\ early = FALSE

-----------------------------------------------------------------------------
(* The constructor.                                                         *)

\* The members after thread_ are initialised; what the thread had put into
\* them is wiped or, where the bytes agree, survives.
Construct ==
    /\ ~built
    /\ built' = TRUE
    /\ running' = FALSE
    /\ lock' \in {FALSE, lock}
    /\ waiting' \in {FALSE, waiting}
    /\ promise' \in {FALSE, promise}
    /\ UNCHANGED <<once, loop, looping, worker, at, overtaken, early>>

-----------------------------------------------------------------------------
(* StartEventLoop, on the new thread.                                       *)

\* EventLoop loop;
WorkerStart ==
    /\ worker = "start"
    /\ worker' = "lock"
    /\ early' = ~built
    /\ UNCHANGED <<built, lock, waiting, running, once, promise, loop, looping,
                   at, overtaken>>

\* unique_lock lk(lock_), also the re-acquisition inside condition_.wait.
WorkerLock ==
    /\ worker = "lock"
    /\ ~lock
    /\ lock' = TRUE
    /\ worker' = "check"
    /\ UNCHANGED <<built, waiting, running, once, promise, loop, looping, at,
                   overtaken, early>>

\* The predicate of condition_.wait.
WorkerCheck ==
    /\ worker = "check"
    /\ worker' = IF running THEN "publish" ELSE "wait"
    /\ IF running THEN UNCHANGED <<lock, waiting>>
                  ELSE lock' = FALSE /\ waiting' = TRUE
    /\ UNCHANGED <<built, running, once, promise, loop, looping, at, overtaken, early>>

\* Mutant: the loop is published after the promise is kept.
WorkerPublishLate ==
    /\ worker = "publish"
    /\ worker' = "set"
    /\ UNCHANGED <<built, lock, waiting, running, once, promise, loop, looping,
                   at, overtaken, early>>

\* loop_ = &loop;
WorkerPublish ==
    /\ worker = "publish"
    /\ loop' = TRUE
    /\ worker' = "set"
    /\ UNCHANGED <<built, lock, waiting, running, once, promise, looping, at,
                   overtaken, early>>

\* promise_loop_.set_value(1);
WorkerSetValue ==
    /\ worker = "set"
    /\ promise' = TRUE
    /\ worker' = "enter"
    /\ UNCHANGED <<built, lock, waiting, running, once, loop, looping, at,
                   overtaken, early>>

\* loop.Loop() begins: looping_ = true.
WorkerEnterLoop ==
    /\ worker = "enter"
    /\ looping' = TRUE
    /\ worker' = "loop"
    /\ UNCHANGED <<built, lock, waiting, running, once, promise, loop, at,
                   overtaken, early>>

\* Mutant: the loop ends by itself.
WorkerLeaveUnasked ==
    /\ worker = "loop"
    /\ worker' = "leave"
    /\ UNCHANGED <<built, lock, waiting, running, once, promise, loop, looping,
                   at, overtaken, early>>

\* while (looping_) ends.
WorkerLeaveLoop ==
    /\ worker = "loop"
    /\ ~looping
    /\ worker' = "leave"
    /\ UNCHANGED <<built, lock, waiting, running, once, promise, loop, looping,
                   at, overtaken, early>>

\* loop_ = nullptr, lk is released, loop is destroyed, the thread ends.
WorkerEnd ==
    /\ worker = "leave"
    /\ loop' = FALSE
    /\ lock' = FALSE
    /\ worker' = "done"
    /\ UNCHANGED <<built, waiting, running, once, promise, looping, at, overtaken, early>>

-----------------------------------------------------------------------------
(* Run(), Quit through Loop(), and the destructor.                          *)

Step(c, from, to) == at[c] = from /\ at' = [at EXCEPT ![c] = to]

CallRun(c) ==
    /\ built
    /\ Step(c, "idle", "call")
    /\ UNCHANGED <<built, lock, waiting, running, once, promise, loop, looping,
                   worker, overtaken, early>>

\* call_once: the first caller enters, the others wait until it is done.
CallOnce(c) ==
    /\ \/ once = "new" /\ once' = "busy" /\ Step(c, "call", "signal")
       \/ once = "done" /\ once' = once /\ Step(c, "call", "ran")
    /\ UNCHANGED <<built, lock, waiting, running, promise, loop, looping,
                   worker, overtaken, early>>

\* Mutant: notify_all is missing.
SignalSilently(c) ==
    /\ Step(c, "signal", "get")
    /\ ~lock
    /\ running' = TRUE
    /\ UNCHANGED <<built, lock, waiting, once, promise, loop, looping, worker,
                   overtaken, early>>

\* Under lock_: running_ = true; condition_.notify_all();
Signal(c) ==
    /\ Step(c, "signal", "get")
    /\ ~lock
    /\ running' = TRUE
    /\ waiting' = FALSE
    /\ worker' = IF waiting THEN "lock" ELSE worker
    /\ UNCHANGED <<built, lock, once, promise, loop, looping, overtaken, early>>

\* f.get() returns, and with it call_once and Run().
FutureGet(c) ==
    /\ Step(c, "get", "ran")
    /\ promise
    /\ once' = "done"
    /\ UNCHANGED <<built, lock, waiting, running, promise, loop, looping,
                   worker, overtaken, early>>

\* EventLoop::Quit, reached through a pointer to a loop in worker's stack.
QuitLoop ==
    /\ looping' = FALSE
    /\ overtaken' = (overtaken \/ worker = "enter")

\* A user of Loop() quits the loop: it reads loop_ and calls Quit in one go.
UserQuits(c) ==
    /\ c # Owner
    /\ at[Owner] \in {"idle", "call", "signal", "get", "ran"}
    /\ loop
    /\ Step(c, "ran", "end")
    /\ QuitLoop
    /\ UNCHANGED <<built, lock, waiting, running, once, promise, loop, worker, early>>

\* ~EventLoopThread, when no other caller uses the object: Run() has no more
\* to do, loop_ is tested.
Destroy ==
    /\ \A c \in Callers \ {Owner} : at[c] \in {"ran", "end"}
    /\ Step(Owner, "ran", "check")
    /\ UNCHANGED <<built, lock, waiting, running, once, promise, loop, looping,
                   worker, overtaken, early>>

DestroyCheck ==
    /\ at[Owner] = "check"
    /\ at' = [at EXCEPT ![Owner] = IF loop THEN "quit" ELSE "join"]
    /\ UNCHANGED <<built, lock, waiting, running, once, promise, loop, looping,
                   worker, overtaken, early>>

\* Mutant: the destructor joins without quitting.
DestroyNoQuit ==
    /\ Step(Owner, "quit", "join")
    /\ UNCHANGED <<built, lock, waiting, running, once, promise, loop, looping,
                   worker, overtaken, early>>

\* loop_->Quit();
DestroyQuit ==
    /\ Step(Owner, "quit", "join")
    /\ QuitLoop
    /\ UNCHANGED <<built, lock, waiting, running, once, promise, loop, worker, early>>

\* thread_.join();
Join ==
    /\ Step(Owner, "join", "end")
    /\ worker = "done"
    /\ UNCHANGED <<built, lock, waiting, running, once, promise, loop, looping,
                   worker, overtaken, early>>

-----------------------------------------------------------------------------
WorkerStep == WorkerStart \/ WorkerLock \/ WorkerCheck \/ WorkerPublish
              \/ WorkerSetValue \/ WorkerEnterLoop \/ WorkerLeaveLoop \/ WorkerEnd

RunStep(c) == CallOnce(c) \/ Signal(c) \/ FutureGet(c)

DestroyStep == DestroyCheck \/ DestroyQuit \/ Join

Next ==
    \/ Construct
    \/ WorkerStep
    \/ \E c \in Callers : CallRun(c) \/ RunStep(c) \/ UserQuits(c)
    \/ Destroy \/ DestroyStep

Spec == Init /\ [][Next]_vars

\* Every thread that can go on does.  Nobody has to call Run or destroy.
FairSpec == /\ Spec
            /\ WF_vars(Construct)
            /\ WF_vars(WorkerStep)
            /\ \A c \in Callers : WF_vars(RunStep(c))
            /\ WF_vars(DestroyStep)

-----------------------------------------------------------------------------
(* Properties.                                                              *)

\* Whoever has returned from Run() finds a loop behind Loop(), unless someone
\* has already quit it (EventLoopThread.cc:24-27, 41-43).
RunGivesLoop ==
    \A c \in Callers : at[c] = "ran" => (loop \/ worker = "done")

\* The loop is a local of the thread: the destructor's Quit, which follows the
\* test of loop_ without a lock, reaches a loop that still exists, unless
\* somebody else quit it before (EventLoopThread.cc:9-12, 37, 43-44).
QuitOnLiveLoop ==
    at[Owner] = "quit" => \/ worker \in {"enter", "loop"}
                          \/ \E c \in Callers : at[c] = "end"

\* The thread and a call of Run() never wait for each other, unless the thread has
\* outrun the constructor: whoever finds lock_ taken waits for the thread to test
\* running_ and give it up, for the thread keeps it for good only after the
\* signal; and no signal comes between its test and its wait, to be lost
\* (EventLoopThread.cc:18-29, 38-42).
RunIsServed ==
    ~early => \A c \in Callers :
                 /\ at[c] = "signal" /\ lock => worker = "check" /\ ~running
                 /\ at[c] = "get" /\ ~promise =>
                       /\ worker \in {"start", "lock", "check", "publish", "set"}
                       /\ running
                       /\ worker = "lock" => ~lock

\* A call of Run() returns, whoever else calls it and whenever the thread comes
\* to wait, unless the thread has outrun the constructor (EventLoopThread.cc:18-29,
\* 38-42; EventLoopThread.h:17-22).
RunReturns ==
    \A c \in Callers : at[c] = "call" ~> (at[c] \in {"ran", "check"} \/ early)

\* The destructor ends, unless its Quit came between set_value and the
\* looping_ = true of Loop() (EventLoopThread.cc:8-16, 42-43; EventLoop.cc:29).
DestroyEnds == at[Owner] = "check" ~> (at[Owner] = "end" \/ overtaken)
=============================================================================
