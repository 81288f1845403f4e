---------------------------- MODULE ThreadProofs ----------------------------
(***************************************************************************)
(* Theorems about the program's own threads.  EventLoopThread: for any     *)
(* number of callers of Run() and for every outcome of a thread that starts*)
(* before its members are built.  Housekeeping, the loop of main: for every*)
(* width of NowMs, any tasks and intervals, any calendar and every config. *)
(***************************************************************************)
EXTENDS EventLoopThread, Housekeeping, SequenceTheorems, WellFoundedInduction, TLAPS

-----------------------------------------------------------------------------
(* EventLoopThread.                                                        *)

Returned == {"ran", "check", "quit", "join", "end"}
Kept == {"enter", "loop", "leave", "done"}

\* Where the thread is tells what has been published: nobody has returned from Run()
\* before the promise was kept, and the thread never goes back behind it.
RunInv ==
    /\ at \in [Callers -> {"idle", "call", "signal", "get"} \cup Returned]
    /\ waiting => worker = "wait"
    /\ loop <=> worker \in {"set", "enter", "loop", "leave"}
    /\ promise \/ once = "done" => worker \in Kept
    /\ \A c \in Callers : at[c] \in Returned => worker \in Kept

\* The thread leaves the loop only when somebody has quit it.
QuitInv ==
    /\ \A c \in Callers : at[c] \in {"check", "quit", "join"} => c = Owner
    /\ worker \in {"leave", "done"} \/ (worker = "loop" /\ ~looping) =>
           \E c \in Callers : at[c] \in {"join", "end"}

IInv == RunInv /\ QuitInv

-----------------------------------------------------------------------------
\* The invariant holds at the start.
LEMMA InitInv == Init => IInv
BY DEF Init, IInv, RunInv, QuitInv, Returned, Kept

\* The steps of the constructor and of the thread.
LEMMA WorkerKeeps ==
  ASSUME IInv, Construct \/ WorkerStep
  PROVE  IInv'
<1> USE DEF IInv, RunInv, QuitInv, Returned, Kept
<1>1. CASE Construct
  <2>1. waiting' \in {FALSE, waiting} /\ promise' \in {FALSE, promise}
    BY <1>1 DEF Construct
  <2>2. /\ waiting' = FALSE \/ waiting' = waiting
        /\ promise' = FALSE \/ promise' = promise
    BY <2>1
  <2> QED
    BY <1>1, <2>2 DEF Construct
<1>2. CASE WorkerStart
  BY <1>2 DEF WorkerStart
<1>3. CASE WorkerLock
  BY <1>3 DEF WorkerLock
<1>4. CASE WorkerCheck
  BY <1>4 DEF WorkerCheck
<1>5. CASE WorkerPublish
  BY <1>5 DEF WorkerPublish
<1>6. CASE WorkerSetValue
  BY <1>6 DEF WorkerSetValue
<1>7. CASE WorkerEnterLoop
  BY <1>7 DEF WorkerEnterLoop
<1>8. CASE WorkerLeaveLoop
  BY <1>8 DEF WorkerLeaveLoop
<1>9. CASE WorkerEnd
  BY <1>9 DEF WorkerEnd
<1> QED
  BY <1>1, <1>2, <1>3, <1>4, <1>5, <1>6, <1>7, <1>8, <1>9 DEF WorkerStep

\* A caller goes from one place to the next.
LEMMA StepAt ==
  ASSUME IInv, NEW c \in Callers, NEW from,
         NEW to \in {"idle", "call", "signal", "get"} \cup Returned, Step(c, from, to)
  PROVE  /\ at' \in [Callers -> {"idle", "call", "signal", "get"} \cup Returned]
         /\ at[c] = from /\ at'[c] = to
         /\ \A d \in Callers \ {c} : at'[d] = at[d]
BY DEF IInv, RunInv, Step

\* The steps of those who run and quit the loop.
LEMMA CallersKeep ==
  ASSUME IInv,
         \/ \E c \in Callers : CallRun(c) \/ RunStep(c) \/ UserQuits(c)
         \/ Destroy \/ DestroyStep
  PROVE  IInv'
<1> USE DEF IInv, RunInv, QuitInv, Returned, Kept
<1>1. ASSUME NEW c \in Callers, CallRun(c) PROVE IInv'
  <2>1. Step(c, "idle", "call")
    BY <1>1 DEF CallRun
  <2> QED
    BY <1>1, <2>1, StepAt DEF CallRun
<1>2. ASSUME NEW c \in Callers, CallOnce(c) PROVE IInv'
  <2>1. CASE Step(c, "call", "signal")
    BY <1>2, <2>1, StepAt DEF CallOnce
  <2>2. CASE Step(c, "call", "ran") /\ once = "done"
    BY <1>2, <2>2, StepAt DEF CallOnce
  <2> QED
    BY <1>2, <2>1, <2>2 DEF CallOnce
<1>3. ASSUME NEW c \in Callers, Signal(c) PROVE IInv'
  <2>1. Step(c, "signal", "get")
    BY <1>3 DEF Signal
  <2> QED
    BY <1>3, <2>1, StepAt DEF Signal
<1>4. ASSUME NEW c \in Callers, FutureGet(c) PROVE IInv'
  <2>1. Step(c, "get", "ran")
    BY <1>4 DEF FutureGet
  <2> QED
    BY <1>4, <2>1, StepAt DEF FutureGet
<1>5. ASSUME NEW c \in Callers, UserQuits(c) PROVE IInv'
  <2>1. Step(c, "ran", "end")
    BY <1>5 DEF UserQuits
  <2> QED
    BY <1>5, <2>1, StepAt DEF UserQuits, QuitLoop
<1>6. CASE Destroy
  <2>1. Step(Owner, "ran", "check")
    BY <1>6 DEF Destroy
  <2> QED
    BY <1>6, <2>1, StepAt, ThreadAssumption DEF Destroy
<1>7. CASE DestroyCheck
  <2>1. Step(Owner, "check", "quit") \/ Step(Owner, "check", "join")
    BY <1>7 DEF DestroyCheck, Step
  <2> QED
    BY <1>7, <2>1, StepAt, ThreadAssumption DEF DestroyCheck
<1>8. CASE DestroyQuit
  <2>1. Step(Owner, "quit", "join")
    BY <1>8 DEF DestroyQuit
  <2> QED
    BY <1>8, <2>1, StepAt, ThreadAssumption DEF DestroyQuit, QuitLoop
<1>9. CASE Join
  <2>1. Step(Owner, "join", "end")
    BY <1>9 DEF Join
  <2> QED
    BY <1>9, <2>1, StepAt, ThreadAssumption DEF Join
<1> QED
  BY <1>1, <1>2, <1>3, <1>4, <1>5, <1>6, <1>7, <1>8, <1>9 DEF RunStep, DestroyStep

\* Every step keeps the invariant.
LEMMA Invariance == Spec => []IInv
<1>1. IInv /\ [Next]_vars => IInv'
  <2> SUFFICES ASSUME IInv, [Next]_vars PROVE IInv'
    OBVIOUS
  <2>1. CASE UNCHANGED vars
    BY <2>1 DEF vars, IInv, RunInv, QuitInv
  <2> QED
    BY <2>1, WorkerKeeps, CallersKeep DEF Next
<1> QED
  BY InitInv, <1>1, PTL DEF Spec

\* Whoever has returned from Run() finds a loop, unless it was quit.
THEOREM LoopIsThere == Spec => []RunGivesLoop
<1>1. IInv => RunGivesLoop
  BY DEF IInv, RunInv, Returned, Kept, RunGivesLoop
<1> QED
  BY <1>1, Invariance, PTL

\* The destructor's Quit reaches a loop that still exists, unless it was quit before.
THEOREM QuitReachesLoop == Spec => []QuitOnLiveLoop
<1>1. IInv => QuitOnLiveLoop
  <2> SUFFICES ASSUME IInv, at[Owner] = "quit"
               PROVE  worker \in {"enter", "loop"} \/ \E c \in Callers : at[c] = "end"
    BY DEF QuitOnLiveLoop
  <2>1. worker \in Kept
    BY ThreadAssumption DEF IInv, RunInv, Returned
  <2>2. CASE worker \in {"leave", "done"}
    BY <2>2 DEF IInv, QuitInv
  <2> QED
    BY <2>1, <2>2 DEF Kept
<1> QED
  BY <1>1, Invariance, PTL

\* While the thread has not outrun the constructor: it holds lock_ from its test to its
\* end, except while it waits, and waits only as long as nobody has set running_; it is
\* past the test only when somebody has; and one caller at most is inside call_once.
ServeInv ==
    /\ built \in BOOLEAN /\ lock \in BOOLEAN /\ waiting \in BOOLEAN /\ running \in BOOLEAN
    /\ promise \in BOOLEAN /\ early \in BOOLEAN
    /\ worker \in {"start", "lock", "wait", "check", "publish", "set"} \cup Kept
    /\ worker = "start" => ~early
    /\ ~early =>
         /\ worker # "start" => built
         /\ \A c \in Callers : at[c] # "idle" => built
         /\ lock => worker \in {"check", "publish", "set", "enter", "loop", "leave"}
         /\ worker \in {"check", "publish", "set", "enter", "loop", "leave"} => lock
         /\ worker = "wait" => waiting /\ ~running
         /\ worker \in {"publish", "set"} \cup Kept => running
         /\ worker \in Kept => promise
         /\ once = "new" /\ built => ~running
         /\ \A c \in Callers : /\ at[c] = "signal" => ~running
                               /\ at[c] = "get" => running
                               /\ at[c] \in {"signal", "get"} => once = "busy"
         /\ \A c, d \in Callers :
               at[c] \in {"signal", "get"} /\ at[d] \in {"signal", "get"} => c = d

\* It holds at the start, and every step keeps it.
LEMMA ServeStart == Init => ServeInv
BY DEF Init, ServeInv, Kept

\* The thread gives lock_ up only to wait, and it waits only if running_ was not set.
LEMMA ServeWorker ==
  ASSUME IInv, ServeInv, Construct \/ WorkerStep
  PROVE  ServeInv'
<1> USE DEF ServeInv, Kept
<1>1. CASE Construct
  <2>0. /\ lock' = FALSE \/ lock' = lock
        /\ waiting' = FALSE \/ waiting' = waiting
        /\ promise' = FALSE \/ promise' = promise
    BY <1>1, Zenon DEF Construct
  <2>1. /\ lock' \in BOOLEAN /\ waiting' \in BOOLEAN /\ promise' \in BOOLEAN
        /\ lock' => lock
    <3>1. lock' \in BOOLEAN /\ waiting' \in BOOLEAN /\ promise' \in BOOLEAN
      BY <2>0
    <3>2. lock' => lock
      BY <2>0, Zenon
    <3> QED
      BY <3>1, <3>2
  <2>2. /\ ~built /\ built' = TRUE /\ running' = FALSE
        /\ UNCHANGED <<once, worker, at, early>>
    BY <1>1 DEF Construct
  <2>3. ~early => worker = "start" /\ ~lock /\ \A c \in Callers : at[c] = "idle"
    BY <2>2
  <2> QED
    BY <2>1, <2>2, <2>3
<1>2. CASE WorkerStart
  <2>1. CASE built
    BY <1>2, <2>1 DEF WorkerStart
  <2>2. CASE ~built
    BY <1>2, <2>2 DEF WorkerStart
  <2> QED
    BY <2>1, <2>2
<1>3. CASE WorkerLock
  BY <1>3 DEF WorkerLock
<1>4. CASE WorkerCheck
  <2>1. CASE running
    BY <1>4, <2>1 DEF WorkerCheck
  <2>2. CASE ~running
    BY <1>4, <2>2 DEF WorkerCheck
  <2> QED
    BY <2>1, <2>2
<1>5. CASE WorkerPublish
  BY <1>5 DEF WorkerPublish
<1>6. CASE WorkerSetValue
  BY <1>6 DEF WorkerSetValue
<1>7. CASE WorkerEnterLoop
  BY <1>7 DEF WorkerEnterLoop
<1>8. CASE WorkerLeaveLoop
  BY <1>8 DEF WorkerLeaveLoop
<1>9. CASE WorkerEnd
  BY <1>9 DEF WorkerEnd
<1> QED
  BY <1>1, <1>2, <1>3, <1>4, <1>5, <1>6, <1>7, <1>8, <1>9 DEF WorkerStep

\* Only the caller that is inside call_once sets running_, and it wakes the thread with it.
LEMMA ServeCallers ==
  ASSUME IInv, ServeInv,
         \/ \E c \in Callers : CallRun(c) \/ RunStep(c) \/ UserQuits(c)
         \/ Destroy \/ DestroyStep
  PROVE  ServeInv'
<1> USE DEF ServeInv, Kept
<1>1. ASSUME NEW c \in Callers, CallRun(c) PROVE ServeInv'
  <2>1. Step(c, "idle", "call")
    BY <1>1 DEF CallRun
  <2> QED
    BY <1>1, <2>1, StepAt DEF CallRun
<1>2. ASSUME NEW c \in Callers, CallOnce(c) PROVE ServeInv'
  <2>1. CASE Step(c, "call", "signal") /\ once = "new" /\ once' = "busy"
    BY <1>2, <2>1, StepAt DEF CallOnce
  <2>2. CASE Step(c, "call", "ran") /\ once = "done" /\ once' = once
    BY <1>2, <2>2, StepAt DEF CallOnce, Returned
  <2> QED
    BY <1>2, <2>1, <2>2 DEF CallOnce
<1>3. ASSUME NEW c \in Callers, Signal(c) PROVE ServeInv'
  <2>1. Step(c, "signal", "get")
    BY <1>3 DEF Signal
  <2>2. waiting => worker = "wait"
    BY DEF IInv, RunInv
  <2>3. /\ at[c] = "signal" /\ at'[c] = "get"
        /\ \A d \in Callers : d # c => at'[d] = at[d]
    BY <2>1, StepAt
  <2>4. /\ running' = TRUE /\ waiting' = FALSE /\ ~lock
        /\ worker' = IF waiting THEN "lock" ELSE worker
        /\ UNCHANGED <<built, lock, once, promise, early>>
    BY <1>3 DEF Signal
  <2>5. ~early => worker # "wait" \/ waiting
    OBVIOUS
  <2> QED
    BY <2>2, <2>3, <2>4, <2>5
<1>4. ASSUME NEW c \in Callers, FutureGet(c) PROVE ServeInv'
  <2>1. Step(c, "get", "ran")
    BY <1>4 DEF FutureGet
  <2> QED
    BY <1>4, <2>1, StepAt DEF FutureGet, Returned
<1>5. ASSUME NEW c \in Callers, UserQuits(c) PROVE ServeInv'
  <2>1. Step(c, "ran", "end")
    BY <1>5 DEF UserQuits
  <2> QED
    BY <1>5, <2>1, StepAt DEF UserQuits, Returned
<1>6. CASE Destroy
  <2>1. Step(Owner, "ran", "check")
    BY <1>6 DEF Destroy
  <2> QED
    BY <1>6, <2>1, StepAt, ThreadAssumption DEF Destroy, Returned
<1>7. CASE DestroyCheck
  <2>1. Step(Owner, "check", "quit") \/ Step(Owner, "check", "join")
    BY <1>7 DEF DestroyCheck, Step
  <2> QED
    BY <1>7, <2>1, StepAt, ThreadAssumption DEF DestroyCheck, Returned
<1>8. CASE DestroyQuit
  <2>1. Step(Owner, "quit", "join")
    BY <1>8 DEF DestroyQuit
  <2> QED
    BY <1>8, <2>1, StepAt, ThreadAssumption DEF DestroyQuit, Returned
<1>9. CASE Join
  <2>1. Step(Owner, "join", "end")
    BY <1>9 DEF Join
  <2> QED
    BY <1>9, <2>1, StepAt, ThreadAssumption DEF Join, Returned
<1> QED
  BY <1>1, <1>2, <1>3, <1>4, <1>5, <1>6, <1>7, <1>8, <1>9 DEF RunStep, DestroyStep

\* The thread and a call of Run() never wait for each other, and the signal is never
\* lost, for any number of callers: this is why RunReturns holds.
THEOREM RunIsNeverStuck == Spec => []RunIsServed
<1>1. IInv /\ ServeInv /\ [Next]_vars => ServeInv'
  <2> SUFFICES ASSUME IInv, ServeInv, [Next]_vars PROVE ServeInv'
    OBVIOUS
  <2>1. CASE UNCHANGED vars
    BY <2>1 DEF vars, ServeInv
  <2> QED
    BY <2>1, ServeWorker, ServeCallers DEF Next
<1>2. IInv /\ ServeInv => RunIsServed
  <2> SUFFICES ASSUME IInv, ServeInv, ~early, NEW c \in Callers
               PROVE  /\ at[c] = "signal" /\ lock => worker = "check" /\ ~running
                      /\ at[c] = "get" /\ ~promise =>
                            /\ worker \in {"start", "lock", "check", "publish", "set"}
                            /\ running
                            /\ worker = "lock" => ~lock
    BY DEF RunIsServed
  <2> QED
    BY DEF ServeInv, Kept
<1> QED
  BY ServeStart, Invariance, <1>1, <1>2, PTL DEF Spec

-----------------------------------------------------------------------------
(* The names of the log.                                                   *)

\* The maximum of a set of positions is one of them, and no other is behind it.
LEMMA MaxIsLast ==
  ASSUME NEW n \in Nat, NEW S \in SUBSET (1 .. n), S # {}
  PROVE  Max(S) \in S /\ \A y \in S : y <= Max(S)
<1> DEFINE T == {n - i : i \in S}
<1>1. T \subseteq Nat /\ T # {}
  <2>1. \A i \in S : n - i \in Nat
    OBVIOUS
  <2>2. T # {}
    <3>1. PICK i \in S : TRUE
      OBVIOUS
    <3>2. n - i \in T
      OBVIOUS
    <3> QED
      BY <3>2
  <2> QED
    BY <2>1, <2>2
<1>2. PICK x \in T : \A y \in T : ~(<<y, x>> \in OpToRel(<, Nat))
  <2> HIDE DEF T
  <2> QED
    BY <1>1, NatLessThanWellFounded, WFMin
<1>3. \A y \in T : ~(y < x)
  <2> HIDE DEF T
  <2> QED
    BY <1>1, <1>2 DEF OpToRel
<1>4. PICK m \in S : x = n - m
  BY Zenon
<1>5. m \in S /\ \A y \in S : m >= y
  <2>1. \A y \in S : ~(n - y < n - m)
    BY <1>3, <1>4
  <2>2. m \in S
    BY <1>4, Zenon
  <2> QED
    BY <2>1, <2>2
<1> QED
  BY <1>5 DEF Max

\* FindLastOf finds a token of cs, and there is none behind it.
LEMMA LastIs ==
  ASSUME NEW T, NEW s \in Seq(T), NEW cs
  PROVE  LET p == FindLastOf(s, cs) IN
           /\ p \in 0 .. Len(s)
           /\ p # 0 => s[p] \in cs
           /\ \A i \in 1 .. Len(s) : i > p => s[i] \notin cs
<1> DEFINE I == {i \in 1 .. Len(s) : s[i] \in cs}
<1>1. FindLastOf(s, cs) = IF I # {} THEN Max(I) ELSE 0
  BY DEF FindLastOf, SelectLastInSeq
<1>2. CASE I = {}
  BY <1>1, <1>2
<1>3. CASE I # {}
  <2>1. Len(s) \in Nat /\ I \subseteq 1 .. Len(s)
    OBVIOUS
  <2>2. Max(I) \in I /\ \A y \in I : y <= Max(I)
    <3> HIDE DEF I
    <3> QED
      BY <1>3, <2>1, MaxIsLast
  <2> DEFINE p == FindLastOf(s, cs)
  <2>3. p \in I /\ \A y \in I : y <= p
    BY <1>1, <1>3, <2>2
  <2>4. p \in 1 .. Len(s) /\ s[p] \in cs
    BY <2>3
  <2>5. ASSUME NEW i \in 1 .. Len(s), i > p PROVE s[i] \notin cs
    <3>1. i \notin I
      <4> HIDE DEF p, I
      <4> QED
        BY <2>1, <2>3, <2>5
    <3> QED
      BY <3>1
  <2> HIDE DEF p
  <2> QED
    BY <2>4, <2>5 DEF p
<1> QED
  BY <1>2, <1>3

\* A part of a sequence.
LEMMA PartIs ==
  ASSUME NEW T, NEW s \in Seq(T), NEW m \in 1 .. Len(s) + 1, NEW n \in 0 .. Len(s), m <= n + 1
  PROVE  /\ SubSeq(s, m, n) \in Seq(T) /\ Len(SubSeq(s, m, n)) = n + 1 - m
         /\ \A i \in 1 .. n + 1 - m : SubSeq(s, m, n)[i] = s[m + i - 1]
<1>1. m \in Int /\ n \in Int /\ \A i \in m .. n : s[i] \in T
  BY ElementOfSeq
<1>2. /\ SubSeq(s, m, n) \in Seq(T)
      /\ Len(SubSeq(s, m, n)) = IF m <= n THEN n - m + 1 ELSE 0
      /\ \A i \in 1 .. n - m + 1 : SubSeq(s, m, n)[i] = s[m + i - 1]
  BY <1>1, SubSeqProperties
<1> QED
  BY <1>2

\* What RotateDays, RotateHours and RotateMinute make of a path is another path: the
\* separator that ends the directory is gone, and no name has one
\* (StringUtils.cc:44-86, FileMgr.cc:96-148).
LEMMA RotatedDiffers ==
  ASSUME NEW T, "." \in T, "/" \in T, NEW s \in Seq(T), s # <<>>, FindLastOf(s, Separators) # Len(s)
  PROVE  FilePath(s) \o FileName(s) \o Extension(s) # s
<1> DEFINE p == FindLastOf(s, Separators)
           name == FileNameExt(s)
           dot == StemDot(name)
<1>1. /\ p \in 0 .. Len(s)
      /\ p # 0 => s[p] \in Separators
      /\ \A i \in 1 .. Len(s) : i > p => s[i] \notin Separators
  BY LastIs
<1>2. p < Len(s) /\ Len(s) \in Nat
  BY <1>1
<1>3. FileNameExt(s) = SubSeq(s, p + 1, Len(s))
  BY <1>2 DEF FileNameExt
<1> HIDE DEF p
<1>4. /\ name \in Seq(T) /\ Len(name) = Len(s) - p
      /\ \A i \in 1 .. Len(s) - p : name[i] = s[p + i]
  <2>1. p + 1 \in 1 .. Len(s) + 1 /\ Len(s) \in 0 .. Len(s) /\ p + 1 <= Len(s) + 1
    BY <1>1, <1>2
  <2>2. /\ SubSeq(s, p + 1, Len(s)) \in Seq(T)
        /\ Len(SubSeq(s, p + 1, Len(s))) = Len(s) + 1 - (p + 1)
        /\ \A i \in 1 .. Len(s) + 1 - (p + 1) : SubSeq(s, p + 1, Len(s))[i] = s[p + 1 + i - 1]
    BY <2>1, PartIs
  <2> QED
    BY <1>1, <1>2, <1>3, <2>2
<1>5. dot = 0 \/ dot \in 2 .. Len(name)
  <2>1. FindLastOf(name, {"."}) \in 0 .. Len(name)
    BY <1>4, LastIs
  <2> QED
    BY <1>4, <2>1 DEF StemDot
<1> HIDE DEF name, dot
<1>6. /\ FileName(s) \in Seq(T) /\ Len(FileName(s)) >= 1 /\ Len(FileName(s)) \in Nat
      /\ FileName(s)[1] = s[p + 1]
  <2>1. name[1] = s[p + 1] /\ Len(name) \in Nat /\ Len(name) >= 1
    BY <1>1, <1>2, <1>4
  <2>2. CASE dot = 0
    BY <1>4, <2>1, <2>2 DEF FileName, dot, name
  <2>3. CASE dot # 0
    <3>1. FileName(s) = SubSeq(name, 1, dot - 1)
      BY <2>3 DEF FileName, dot, name
    <3>2. 1 \in 1 .. Len(name) + 1 /\ dot - 1 \in 0 .. Len(name) /\ 1 <= dot - 1 + 1
      BY <1>5, <2>1, <2>3
    <3>3. /\ SubSeq(name, 1, dot - 1) \in Seq(T)
          /\ Len(SubSeq(name, 1, dot - 1)) = dot - 1 + 1 - 1
          /\ \A i \in 1 .. dot - 1 + 1 - 1 : SubSeq(name, 1, dot - 1)[i] = name[1 + i - 1]
      BY <1>4, <3>2, PartIs
    <3>4. dot - 1 + 1 - 1 = dot - 1 /\ dot - 1 \in Nat /\ 1 \in 1 .. dot - 1 /\ 1 + 1 - 1 = 1
      BY <1>5, <2>3
    <3> QED
      BY <2>1, <3>1, <3>3, <3>4
  <2> QED
    BY <2>2, <2>3
<1>7. Extension(s) \in Seq(T)
  <2>1. CASE dot = 0
    BY <1>4, <2>1 DEF Extension, dot, name
  <2>2. CASE dot # 0
    <3>1. Extension(s) = SubSeq(name, dot + 1, Len(name))
      BY <2>2 DEF Extension, dot, name
    <3>2. dot + 1 \in 1 .. Len(name) + 1 /\ Len(name) \in 0 .. Len(name)
      BY <1>4, <1>5, <2>2
    <3> QED
      BY <1>4, <3>1, <3>2, PartIs
  <2> QED
    BY <2>1, <2>2
<1> DEFINE r == FilePath(s) \o FileName(s) \o Extension(s)
<1>8. ASSUME NEW d \in Nat, FilePath(s) \in Seq(T), Len(FilePath(s)) = d
      PROVE  /\ \A i \in 1 .. d : r[i] = FilePath(s)[i]
             /\ r[d + 1] = FileName(s)[1]
             /\ d + 1 <= Len(r)
  <2> DEFINE a == FilePath(s)
             b == FileName(s)
             c == Extension(s)
  <2> HIDE DEF a, b, c
  <2>1. \A x \in Seq(T), y \in Seq(T) :
          /\ x \o y \in Seq(T) /\ Len(x \o y) = Len(x) + Len(y)
          /\ \A i \in 1 .. Len(x) + Len(y) :
               (x \o y)[i] = IF i <= Len(x) THEN x[i] ELSE y[i - Len(x)]
    BY ConcatProperties
  <2>2. /\ a \in Seq(T) /\ b \in Seq(T) /\ c \in Seq(T)
        /\ Len(a) = d /\ Len(b) >= 1 /\ Len(b) \in Nat
    BY <1>6, <1>7, <1>8 DEF a, b, c
  <2> DEFINE ab == a \o b
  <2>3. /\ ab \in Seq(T)
        /\ Len(ab) = d + Len(b)
        /\ \A i \in 1 .. d + Len(b) : ab[i] = IF i <= d THEN a[i] ELSE b[i - d]
    <3>1. /\ ab \in Seq(T) /\ Len(ab) = Len(a) + Len(b)
          /\ \A i \in 1 .. Len(a) + Len(b) : ab[i] = IF i <= Len(a) THEN a[i] ELSE b[i - Len(a)]
      BY <2>1, <2>2, Zenon
    <3> HIDE DEF ab
    <3> QED
      BY <2>2, <3>1
  <2> HIDE DEF ab
  <2>4. /\ Len(ab \o c) = Len(ab) + Len(c) /\ Len(c) \in Nat
        /\ \A i \in 1 .. Len(ab) + Len(c) :
               (ab \o c)[i] = IF i <= Len(ab) THEN ab[i] ELSE c[i - Len(ab)]
    <3>1. /\ Len(ab \o c) = Len(ab) + Len(c)
          /\ \A i \in 1 .. Len(ab) + Len(c) :
               (ab \o c)[i] = IF i <= Len(ab) THEN ab[i] ELSE c[i - Len(ab)]
      BY <2>1, <2>2, <2>3, Zenon
    <3>2. Len(c) \in Nat
      BY <2>2
    <3> QED
      BY <3>1, <3>2
  <2>5. /\ \A i \in 1 .. d : (ab \o c)[i] = a[i]
        /\ (ab \o c)[d + 1] = b[1]
        /\ d + 1 <= Len(ab \o c)
    BY <2>2, <2>3, <2>4
  <2> QED
    BY <2>5 DEF a, b, c, ab
<1> SUFFICES ASSUME r = s PROVE FALSE
  OBVIOUS
<1> HIDE DEF r
<1>9. CASE p = 0
  <2>1. FilePath(s) = <<".", "/">>
    BY <1>9 DEF FilePath, p
  <2>2. FilePath(s) \in Seq(T) /\ Len(FilePath(s)) = 2 /\ FilePath(s)[2] = "/"
    <3>1. \A x, y \in T : /\ <<x, y>> \in Seq(T) /\ Len(<<x, y>>) = 2
                           /\ <<x, y>>[2] = y
      OBVIOUS
    <3> QED
      BY <2>1, <3>1, Zenon
  <2>3. r[2] = "/" /\ 3 <= Len(r)
    BY <1>8, <2>2
  <2>4. s[2] \in Separators /\ 2 \in 1 .. Len(s)
    BY <1>2, <2>3 DEF Separators
  <2> QED
    BY <1>1, <1>9, <2>4
<1>10. CASE p # 0
  <2>1. FilePath(s) = SubSeq(s, 1, p - 1)
    BY <1>10 DEF FilePath, p
  <2>2. 1 \in 1 .. Len(s) + 1 /\ p - 1 \in 0 .. Len(s) /\ 1 <= p - 1 + 1 /\ p - 1 + 1 - 1 = p - 1
        /\ p - 1 \in Nat /\ p - 1 + 1 = p
    BY <1>1, <1>2, <1>10
  <2>3. FilePath(s) \in Seq(T) /\ Len(FilePath(s)) = p - 1
    BY <2>1, <2>2, PartIs
  <2>4. r[p] = s[p + 1]
    BY <1>6, <1>8, <2>2, <2>3
  <2>5. s[p] \in Separators /\ p + 1 \in 1 .. Len(s) /\ p + 1 > p
    BY <1>1, <1>2, <1>10
  <2> QED
    BY <1>1, <2>4, <2>5
<1> QED
  BY <1>9, <1>10

-----------------------------------------------------------------------------
(* Housekeeping.                                                           *)

\* The task that has run and is not due again was restarted in time, or across a wrap.
TaskInv ==
    /\ TaskTypeOK
    /\ doing = "sleep" => left = {}
    /\ doing = "ran" => \A t \in cur \cap Restarting : t \in wrapped \/ when_[t] >= now

\* The file that fd_ is open on has a name: the log's, unless a rotation has moved it
\* and has not made the new file, or never will.
NamedInv ==
    LET log == names[file_path_]  moved == names[RotatedName] IN
    /\ RotatedName # file_path_
    /\ names \in [{file_path_, RotatedName} -> 0 .. Len(files)]
    /\ fd_ \in 1 .. Len(files) /\ fresh \in 1 .. Len(files)
    /\ log = moved => log = 0
    /\ CASE step = "dup2" -> log = fresh /\ moved = fd_
         [] step = "open" -> log = 0 /\ moved = fd_
         [] OTHER -> log = fd_ \/ (log = 0 /\ moved = fd_)
    /\ LinesIn(file_path_) + LinesIn(RotatedName) = written - overwritten

LogInv ==
    /\ rotateType_ \in {"none", "minute", "hour", "day"}
    /\ step \in {"none", "rename", "open", "dup2", "done"}
    /\ files \in Seq(Nat)
    /\ written \in 0 .. MaxLines /\ overwritten \in Nat
    /\ IF file_path_ = <<>> THEN /\ DOMAIN names = {} /\ fd_ = 0 /\ fresh = 0 /\ step = "none"
                                 /\ written = 0 /\ overwritten = 0
                            ELSE NamedInv

\* The log is open when tasks run.
ProgramInv ==
    /\ config_ \subseteq {LoadConfig(root) : root \in UNION ConfigFiles}
    /\ program \in {"config", "log", "run", "exit", "crash"}
    /\ program = "run" => file_path_ # <<>>

MainInv == TaskInv /\ LogInv /\ ProgramInv

\* An int16_t is in its range, and keeps a value that is.
LEMMA Int16Is ==
  ASSUME NEW x \in Int
  PROVE  /\ Int16(x) \in -Half .. Half - 1
         /\ x \in -Half .. Half - 1 => Int16(x) = x
<1>1. Half \in Nat \ {0}
  BY TaskAssumption
<1> DEFINE w == 2 * Half
<1>2. Half \in Int /\ w \in Nat /\ w > 0 /\ x + Half \in Int /\ w = Half + Half
  BY <1>1
<1>3. Int16(x) = ((x + Half) % w) - Half
  BY DEF Int16
<1> HIDE DEF w
<1>4. (x + Half) % w \in 0 .. w - 1
  BY <1>2
<1>5. x + Half \in 0 .. w - 1 => (x + Half) % w = x + Half
  BY <1>2
<1>6. (x + Half) % w \in Int /\ 0 <= (x + Half) % w /\ (x + Half) % w <= w - 1
  BY <1>2, <1>4
<1> DEFINE m == (x + Half) % w
<1> HIDE DEF m
<1> QED
  BY <1>2, <1>3, <1>5, <1>6 DEF m

\* The clock goes on in its period.
LEMMA ClockIs ==
  ASSUME TaskTypeOK, NEW d \in Nat
  PROVE  (clock + d) % Cycle \in 0 .. Cycle - 1 /\ NowMs \in -Half .. Half - 1
<1>1. Cycle \in Nat \ {0} /\ clock \in Int /\ clock + d \in Int
  BY TaskAssumption DEF TaskTypeOK
<1>2. (clock + d) % Cycle \in 0 .. Cycle - 1
  <2>1. \A y \in Int, c \in Nat \ {0} : y % c \in 0 .. c - 1
    OBVIOUS
  <2> QED
    BY <1>1, <2>1
<1> QED
  BY <1>1, <1>2, Int16Is DEF NowMs

\* A time is that of a task.
LEMMA WhenIs ==
  ASSUME TaskTypeOK, NEW t \in Tasks
  PROVE  /\ Int16(NowMs + Interval[t]) \in -Half .. Half - 1
         /\ NowMs + Interval[t] < Half /\ NowMs >= now => Int16(NowMs + Interval[t]) >= now
<1>1. Half \in Nat \ {0} /\ Interval[t] \in 1 .. Half - 1 /\ now \in -Half .. Half - 1
  BY TaskAssumption DEF TaskTypeOK
<1>2. NowMs \in -Half .. Half - 1
  BY ClockIs
<1>3. NowMs + Interval[t] \in Int
  BY <1>1, <1>2
<1> DEFINE k == NowMs + Interval[t]
<1>4. k \in -Half .. Half - 1 => Int16(k) = k
  BY <1>3, Int16Is
<1>5. k < Half /\ NowMs >= now => k \in -Half .. Half - 1 /\ k >= now
  BY <1>1, <1>2
<1>6. Int16(k) \in -Half .. Half - 1
  BY <1>3, Int16Is
<1> QED
  BY <1>4, <1>5, <1>6

\* A task is added.
LEMMA AddKeeps ==
  ASSUME TaskInv, NEW t \in Tasks, Add(t)
  PROVE  TaskInv'
<1>1. Int16(NowMs + Interval[t]) \in -Half .. Half - 1
  BY WhenIs DEF TaskInv
<1> QED
  BY <1>1 DEF TaskInv, TaskTypeOK, Add

\* A task is taken out of the set.
LEMMA ForgetIs ==
  ASSUME TaskInv, NEW t \in Tasks, Forget(t)
  PROVE  /\ tasks_' = tasks_ \ {t} /\ wrapped' \subseteq Restarting
         /\ when_' \in [Tasks -> -Half .. Half - 1]
<1>1. 0 \in -Half .. Half - 1
  BY TaskAssumption
<1> QED
  BY <1>1 DEF Forget, TaskInv, TaskTypeOK

\* A task is deleted.
LEMMA DelKeeps ==
  ASSUME TaskInv, NEW t \in Tasks, Del(t)
  PROVE  TaskInv'
<1>1. /\ tasks_' = tasks_ \ {t} /\ wrapped' \subseteq Restarting
      /\ when_' \in [Tasks -> -Half .. Half - 1]
  BY ForgetIs DEF Del
<1> QED
  BY <1>1 DEF TaskInv, TaskTypeOK, Del

\* OnWork begins.
LEMMA WorkLockKeeps ==
  ASSUME TaskInv, WorkLock
  PROVE  TaskInv'
<1>1. Sleep \in Nat
  BY TaskAssumption
<1>2. clock' \in 0 .. Cycle - 1
  BY <1>1, ClockIs DEF WorkLock, TaskInv
<1>3. now' \in -Half .. Half - 1
  <2>1. clock' \in Int
    BY <1>2
  <2> QED
    BY <2>1, Int16Is DEF WorkLock
<1> QED
  BY <1>2, <1>3 DEF TaskInv, TaskTypeOK, WorkLock

\* OnWork looks at a task.
LEMMA LookKeeps ==
  ASSUME TaskInv, NEW t \in Tasks, Look(t)
  PROVE  TaskInv'
<1>1. CASE Due(t)
  BY <1>1 DEF TaskInv, TaskTypeOK, Look
<1>2. CASE ~Due(t)
  BY <1>2 DEF TaskInv, TaskTypeOK, Look
<1> QED
  BY <1>1, <1>2

\* A callback takes time.
LEMMA BusyKeeps ==
  ASSUME TaskInv, Busy
  PROVE  TaskInv'
<1>1. clock' \in 0 .. Cycle - 1
  BY ClockIs DEF Busy, TaskInv
<1>2. busy' \in 0 .. MaxBusy
  BY TaskAssumption DEF Busy, TaskInv, TaskTypeOK
<1> QED
  BY <1>1, <1>2 DEF TaskInv, TaskTypeOK, Busy

\* A callback ends: the task it restarted is not due, unless NowMs wraps.
LEMMA CallbackKeeps ==
  ASSUME TaskInv, NEW t \in Tasks, Callback(t)
  PROVE  TaskInv'
<1> USE DEF Callback
<1>1. CASE t \notin Restarting
  BY <1>1 DEF TaskInv, TaskTypeOK
<1>2. CASE t \in Restarting
  <2> DEFINE k == Int16(NowMs + Interval[t])
  <2>1. /\ k \in -Half .. Half - 1
        /\ NowMs + Interval[t] < Half /\ NowMs >= now => k >= now
    BY WhenIs DEF TaskInv
  <2>2. /\ when_' = [when_ EXCEPT ![t] = k]
        /\ wrapped' = IF NowMs + Interval[t] >= Half \/ NowMs < now
                         THEN wrapped \cup {t} ELSE wrapped \ {t}
    BY <1>2 DEF Restart
  <2> HIDE DEF k
  <2>3. NowMs \in Int /\ Interval[t] \in Int /\ Half \in Int /\ now \in Int
    BY ClockIs, TaskAssumption DEF TaskInv, TaskTypeOK
  <2>4. t \in wrapped' \/ k >= now
    BY <2>1, <2>2, <2>3
  <2>5. when_' \in [Tasks -> -Half .. Half - 1] /\ when_'[t] = k /\ wrapped' \subseteq Restarting
    BY <1>2, <2>1, <2>2 DEF TaskInv, TaskTypeOK
  <2> QED
    BY <2>4, <2>5 DEF TaskInv, TaskTypeOK
<1> QED
  BY <1>1, <1>2

\* OnWork looks again at the task that has run.
LEMMA AfterRunKeeps ==
  ASSUME TaskInv, NEW t \in Tasks, AfterRun(t)
  PROVE  /\ TaskInv'
         /\ \A s \in Restarting : s \in tasks_ \ tasks_' => s \in wrapped
<1>1. CASE Due(t)
  <2>1. /\ tasks_' = tasks_ \ {t} /\ wrapped' \subseteq Restarting
        /\ when_' \in [Tasks -> -Half .. Half - 1]
    BY <1>1, ForgetIs DEF AfterRun
  <2>2. t \in Restarting => t \in wrapped
    <3>1. when_[t] < now /\ when_[t] \in Int /\ now \in Int
      BY <1>1, TaskAssumption DEF Due, TaskInv, TaskTypeOK
    <3> QED
      BY <3>1 DEF AfterRun, TaskInv
  <2> QED
    BY <2>1, <2>2 DEF TaskInv, TaskTypeOK, AfterRun
<1>2. CASE ~Due(t)
  BY <1>2 DEF TaskInv, TaskTypeOK, AfterRun
<1> QED
  BY <1>1, <1>2

\* OnWork ends.
LEMMA WorkUnlockKeeps ==
  ASSUME TaskInv, WorkUnlock
  PROVE  TaskInv'
<1>1. 0 \in -Half .. Half - 1 /\ 0 \in 0 .. MaxBusy
  BY TaskAssumption
<1> QED
  BY <1>1 DEF TaskInv, TaskTypeOK, WorkUnlock

\* Other steps leave the tasks alone.
LEMMA TasksRest ==
  ASSUME TaskInv, UNCHANGED taskVars
  PROVE  TaskInv'
BY DEF TaskInv, TaskTypeOK, taskVars

\* The log is opened: its name is not the one a rotation gives it.
LEMMA OpenIs ==
  ASSUME LogInv, NEW T, "." \in T, "/" \in T, NEW path \in Seq(T), GetFileLog(path),
         rotateType_' \in {"none", "minute", "hour", "day"}
  PROVE  LogInv' /\ file_path_' # <<>>
<1>1. /\ file_path_ = <<>> /\ path # <<>> /\ FindLastOf(path, Separators) # Len(path)
      /\ file_path_' = path
      /\ names' = [n \in {path, RotatedName'} |-> IF n = path THEN 1 ELSE 0]
      /\ files' = <<0>> /\ fd_' = 1 /\ fresh' = 1
      /\ UNCHANGED <<step, written, overwritten>>
  BY DEF GetFileLog, Open
<1>2. written = 0 /\ overwritten = 0 /\ step = "none" /\ written \in 0 .. MaxLines
  BY <1>1 DEF LogInv
<1>3. RotatedName' # file_path_'
  BY <1>1, RotatedDiffers DEF RotatedName
<1> DEFINE r == RotatedName
<1> HIDE DEF r
<1>4. r' # path
  BY <1>1, <1>3 DEF r
<1>5. /\ names' \in [{path, r'} -> 0 .. 1] /\ names'[path] = 1 /\ names'[r'] = 0
      /\ DOMAIN names' = {path, r'}
  BY <1>1, <1>4 DEF r
<1>6. files' \in Seq(Nat) /\ Len(files') = 1 /\ files'[1] = 0
  BY <1>1
<1>7. LinesIn(file_path_)' = 0 /\ LinesIn(r)' = 0
  BY <1>1, <1>5, <1>6 DEF LinesIn
<1>8. NamedInv'
  BY <1>1, <1>2, <1>4, <1>5, <1>6, <1>7 DEF NamedInv, r
<1> QED
  BY <1>1, <1>2, <1>6, <1>8 DEF LogInv

\* What the invariant says once the log is open.
LEMMA LogIs ==
  ASSUME LogInv, file_path_ # <<>>
  PROVE  NamedInv /\ files \in Seq(Nat) /\ Len(files) \in Nat /\ fd_ \in DOMAIN files
         /\ written \in Nat /\ overwritten \in Nat
BY LogAssumption DEF LogInv, NamedInv

\* One line more, or the lines of a file that is replaced.
LEMMA Counted ==
  ASSUME NEW a \in Nat, NEW b \in Nat, NEW w \in Nat, NEW o \in Nat, a + b = w - o
  PROVE  (a + 1) + b = w + 1 - o /\ a + (b + 1) = w + 1 - o /\ a = w - (o + b) /\ a + 0 = a /\ 0 + a = a
OBVIOUS

\* A line goes into the file that fd_ is open on, which has a name.
LEMMA WriteKeeps ==
  ASSUME LogInv, WriteLog
  PROVE  LogInv'
<1> DEFINE n == file_path_
           r == RotatedName
<1>1. n # <<>> /\ UNCHANGED <<file_path_, rotateType_, step, names, fd_, fresh, overwritten>>
      /\ written' = written + 1 /\ files' = [files EXCEPT ![fd_] = @ + 1] /\ written < MaxLines
  BY DEF WriteLog
<1>2. NamedInv /\ files \in Seq(Nat) /\ Len(files) \in Nat /\ fd_ \in DOMAIN files
      /\ written \in Nat /\ overwritten \in Nat
  BY <1>1, LogIs
<1>3. files' \in Seq(Nat) /\ Len(files') = Len(files)
      /\ \A i \in 1 .. Len(files) : files'[i] = IF i = fd_ THEN files[i] + 1 ELSE files[i]
  BY <1>1, <1>2
<1>4. r' = r
  BY <1>1 DEF RotatedName
<1>5. /\ r # n /\ names \in [{n, r} -> 0 .. Len(files)]
      /\ names[n] = names[r] => names[n] = 0
      /\ names[n] = fd_ \/ names[r] = fd_
      /\ LinesIn(n) + LinesIn(r) = written - overwritten
  <2>1. step = "dup2" \/ step = "open" \/ (step # "dup2" /\ step # "open")
    OBVIOUS
  <2> HIDE DEF r
  <2> QED
    BY <1>2, <2>1 DEF NamedInv, r
<1> HIDE DEF r
<1>6. /\ LinesIn(n) = IF names[n] = 0 THEN 0 ELSE files[names[n]]
      /\ LinesIn(r) = IF names[r] = 0 THEN 0 ELSE files[names[r]]
      /\ LinesIn(n)' = IF names[n] = 0 THEN 0 ELSE files'[names[n]]
      /\ LinesIn(r)' = IF names[r] = 0 THEN 0 ELSE files'[names[r]]
  BY <1>1, <1>4 DEF LinesIn
<1>7. LinesIn(n)' + LinesIn(r)' = written + 1 - overwritten
  <2>1. names[n] \in 0 .. Len(files) /\ names[r] \in 0 .. Len(files) /\ fd_ \in 1 .. Len(files)
    BY <1>2, <1>5
  <2>2. \A i \in 1 .. Len(files) : files[i] \in Nat
    BY <1>2
  <2>3. CASE names[n] = fd_
    <3>1. LinesIn(n)' = LinesIn(n) + 1 /\ LinesIn(r)' = LinesIn(r)
      BY <1>3, <1>5, <1>6, <2>1, <2>3
    <3>2. LinesIn(n) \in Nat /\ LinesIn(r) \in Nat
      BY <1>6, <2>1, <2>2
    <3> DEFINE a == LinesIn(n)
               b == LinesIn(r)
    <3>3. a \in Nat /\ b \in Nat /\ a + b = written - overwritten
      BY <1>5, <3>2
    <3>4. written \in Nat /\ overwritten \in Nat
      BY <1>2
    <3> HIDE DEF a, b
    <3>5. /\ (a + 1) + b = written + 1 - overwritten
          /\ a + (b + 1) = written + 1 - overwritten
      BY <3>3, <3>4, Counted
    <3> QED
      BY <3>1, <3>5 DEF a, b
  <2>4. CASE names[r] = fd_
    <3>1. LinesIn(r)' = LinesIn(r) + 1 /\ LinesIn(n)' = LinesIn(n)
      BY <1>3, <1>5, <1>6, <2>1, <2>4
    <3>2. LinesIn(n) \in Nat /\ LinesIn(r) \in Nat
      BY <1>6, <2>1, <2>2
    <3> DEFINE a == LinesIn(n)
               b == LinesIn(r)
    <3>3. a \in Nat /\ b \in Nat /\ a + b = written - overwritten
      BY <1>5, <3>2
    <3>4. written \in Nat /\ overwritten \in Nat
      BY <1>2
    <3> HIDE DEF a, b
    <3>5. /\ (a + 1) + b = written + 1 - overwritten
          /\ a + (b + 1) = written + 1 - overwritten
      BY <3>3, <3>4, Counted
    <3> QED
      BY <3>1, <3>5 DEF a, b
  <2> QED
    BY <1>5, <2>3, <2>4
<1>8. NamedInv'
  BY <1>1, <1>2, <1>3, <1>4, <1>7 DEF NamedInv, r
<1>9. written' \in 0 .. MaxLines
  BY <1>1, <1>2, LogAssumption
<1> QED
  BY <1>1, <1>3, <1>8, <1>9 DEF LogInv

\* OnCheck changes no file.
LEMMA CheckKeeps ==
  ASSUME LogInv, NEW c, OnCheck(c), file_path_ # <<>>
  PROVE  LogInv'
<1>1. /\ UNCHANGED <<file_path_, rotateType_, names, files, fd_, fresh, written, overwritten>>
      /\ step = "none" /\ step' \in {"rename", "done"}
  BY DEF OnCheck
<1>2. RotatedName' = RotatedName
  BY <1>1 DEF RotatedName
<1>3. LinesIn(file_path_)' = LinesIn(file_path_) /\ LinesIn(RotatedName)' = LinesIn(RotatedName)
  BY <1>1, <1>2 DEF LinesIn
<1>4. NamedInv'
  BY <1>1, <1>2, <1>3, LogIs DEF NamedInv
<1> QED
  BY <1>1, <1>4 DEF LogInv

\* rename: the lines of the file that is replaced are counted.
LEMMA RenameKeeps ==
  ASSUME LogInv, Rename, file_path_ # <<>>
  PROVE  LogInv'
<1> DEFINE n == file_path_
           r == RotatedName
<1>1. UNCHANGED <<file_path_, rotateType_, files, fd_, fresh, written>> /\ step = "rename"
  BY DEF Rename
<1>2. r' = r /\ NamedInv /\ Len(files) \in Nat /\ files \in Seq(Nat) /\ written \in Nat
      /\ overwritten \in Nat
  BY <1>1, LogIs DEF RotatedName
<1>3. CASE step' = "done" /\ UNCHANGED <<names, overwritten>>
  <2>1. LinesIn(n)' = LinesIn(n) /\ LinesIn(r)' = LinesIn(r)
    BY <1>1, <1>2, <1>3 DEF LinesIn
  <2>2. NamedInv'
    BY <1>1, <1>2, <1>3, <2>1 DEF NamedInv
  <2> QED
    BY <1>1, <1>3, <2>2 DEF LogInv
<1>4. CASE /\ names[n] # 0
           /\ names' = [m \in DOMAIN names |-> IF m = r THEN names[n] ELSE 0]
           /\ overwritten' = overwritten + LinesIn(r)
           /\ step' = "open"
  <2>1. /\ r # n /\ names \in [{n, r} -> 0 .. Len(files)]
        /\ names[n] = fd_ /\ fd_ \in 1 .. Len(files) /\ fresh \in 1 .. Len(files)
        /\ LinesIn(n) + LinesIn(r) = written - overwritten
    BY <1>1, <1>2, <1>4 DEF NamedInv
  <2> HIDE DEF r
  <2>2. names' \in [{n, r} -> 0 .. Len(files)] /\ names'[n] = 0 /\ names'[r] = fd_
    BY <1>2, <1>4, <2>1
  <2>3. LinesIn(n) = files[fd_] /\ LinesIn(n)' = 0 /\ LinesIn(r)' = files[fd_]
    BY <1>1, <1>2, <1>4, <2>1, <2>2 DEF LinesIn
  <2>4. LinesIn(r) \in Nat
    BY <1>2, <2>1 DEF LinesIn
  <2>5. LinesIn(n)' + LinesIn(r)' = written - overwritten' /\ overwritten' \in Nat
    <3>1. files[fd_] \in Nat
      BY <1>2, <2>1
    <3> DEFINE a == files[fd_]
               b == LinesIn(r)
    <3>4. a \in Nat /\ b \in Nat /\ a + b = written - overwritten
      BY <2>1, <2>3, <2>4, <3>1
    <3>5. written \in Nat /\ overwritten \in Nat
      BY <1>2
    <3>2. a = written - (overwritten + b)
      <4> HIDE DEF a, b
      <4> QED
        BY <3>4, <3>5, Counted
    <3>3. LinesIn(n)' + LinesIn(r)' = files[fd_]
      BY <2>3, <3>1
    <3> QED
      BY <1>2, <1>4, <2>4, <3>2, <3>3
  <2>6. NamedInv'
    BY <1>1, <1>2, <1>4, <2>1, <2>2, <2>5 DEF NamedInv, r
  <2> QED
    BY <1>1, <1>4, <2>5, <2>6 DEF LogInv
<1> QED
  BY <1>3, <1>4 DEF Rename

\* The new file is empty.
LEMMA OpenNewKeeps ==
  ASSUME LogInv, OpenNew, file_path_ # <<>>
  PROVE  LogInv'
<1> DEFINE n == file_path_
           r == RotatedName
<1>1. UNCHANGED <<file_path_, rotateType_, fd_, written, overwritten>> /\ step = "open"
  BY DEF OpenNew
<1>2. r' = r /\ NamedInv /\ Len(files) \in Nat /\ files \in Seq(Nat) /\ written \in Nat
      /\ overwritten \in Nat
  BY <1>1, LogIs DEF RotatedName
<1>3. /\ r # n /\ names \in [{n, r} -> 0 .. Len(files)]
      /\ names[n] = 0 /\ names[r] = fd_ /\ fd_ \in 1 .. Len(files) /\ fresh \in 1 .. Len(files)
      /\ LinesIn(n) + LinesIn(r) = written - overwritten
  BY <1>1, <1>2 DEF NamedInv
<1>4. CASE step' = "done" /\ UNCHANGED <<names, files, fresh>>
  <2>1. LinesIn(n)' = LinesIn(n) /\ LinesIn(r)' = LinesIn(r)
    BY <1>1, <1>2, <1>4 DEF LinesIn
  <2>2. NamedInv'
    BY <1>1, <1>2, <1>4, <2>1 DEF NamedInv
  <2> QED
    BY <1>1, <1>4, <2>2 DEF LogInv
<1>5. CASE /\ files' = Append(files, 0)
           /\ fresh' = Len(files')
           /\ names' = [names EXCEPT ![n] = fresh']
           /\ step' = "dup2"
  <2> HIDE DEF r
  <2> DEFINE k == Len(files)
  <2>1. /\ files' \in Seq(Nat) /\ Len(files') = k + 1 /\ files'[k + 1] = 0
        /\ \A i \in 1 .. k : files'[i] = files[i]
    BY <1>2, <1>5
  <2>2. fresh' = k + 1 /\ k \in Nat
    BY <1>2, <1>5, <2>1
  <2> HIDE DEF k
  <2>3. names' \in [{n, r} -> 0 .. k + 1] /\ names'[n] = k + 1 /\ names'[r] = fd_ /\ fd_ # k + 1
        /\ fd_ \in 1 .. k
    BY <1>3, <1>5, <2>2 DEF k
  <2>4. LinesIn(n) = 0 /\ LinesIn(r) = files[fd_]
    BY <1>3, <2>2 DEF LinesIn
  <2>5. LinesIn(n)' = 0 /\ LinesIn(r)' = files[fd_]
    BY <1>1, <1>2, <2>1, <2>2, <2>3 DEF LinesIn
  <2>6. LinesIn(n)' + LinesIn(r)' = written - overwritten
    BY <1>3, <2>4, <2>5
  <2>7. fd_ \in 1 .. k + 1 /\ k + 1 \in 1 .. k + 1
    BY <2>2, <2>3
  <2>8. NamedInv'
    BY <1>1, <1>2, <1>3, <1>5, <2>1, <2>2, <2>3, <2>6, <2>7 DEF NamedInv, r
  <2> QED
    BY <1>1, <1>5, <2>1, <2>8 DEF LogInv
<1> QED
  BY <1>4, <1>5 DEF OpenNew

\* dup2 makes fd_ the new file, which has the log's name.
LEMMA Dup2Keeps ==
  ASSUME LogInv, Dup2, file_path_ # <<>>
  PROVE  LogInv'
<1>1. /\ UNCHANGED <<file_path_, rotateType_, names, files, fresh, written, overwritten>>
      /\ step = "dup2" /\ step' = "done" /\ fd_' = fresh
  BY DEF Dup2
<1>2. RotatedName' = RotatedName
  BY <1>1 DEF RotatedName
<1>3. LinesIn(file_path_)' = LinesIn(file_path_) /\ LinesIn(RotatedName)' = LinesIn(RotatedName)
  BY <1>1, <1>2 DEF LinesIn
<1>4. NamedInv'
  BY <1>1, <1>2, <1>3, LogIs DEF NamedInv
<1> QED
  BY <1>1, <1>4 DEF LogInv

\* The check ends.
LEMMA EndKeeps ==
  ASSUME LogInv, file_path_ # <<>>, step = "done", step' = "none",
         UNCHANGED <<file_path_, rotateType_, names, files, fd_, fresh, written, overwritten>>
  PROVE  LogInv'
<1>1. RotatedName' = RotatedName
  BY DEF RotatedName
<1>2. LinesIn(file_path_)' = LinesIn(file_path_) /\ LinesIn(RotatedName)' = LinesIn(RotatedName)
  BY <1>1 DEF LinesIn
<1>3. NamedInv'
  BY <1>1, <1>2, LogIs DEF NamedInv
<1> QED
  BY <1>3 DEF LogInv

\* Other steps leave the log alone.
LEMMA LogRests ==
  ASSUME LogInv, UNCHANGED logVars
  PROVE  LogInv' /\ file_path_' = file_path_
<1>1. UNCHANGED <<file_path_, rotateType_, step, names, files, fd_, fresh, written, overwritten>>
  BY DEF logVars
<1>2. RotatedName' = RotatedName
  BY <1>1 DEF RotatedName
<1>3. LinesIn(file_path_)' = LinesIn(file_path_) /\ LinesIn(RotatedName)' = LinesIn(RotatedName)
  BY <1>1, <1>2 DEF LinesIn
<1>4. CASE file_path_ = <<>>
  BY <1>1, <1>4 DEF LogInv
<1>5. CASE file_path_ # <<>>
  <2>1. NamedInv'
    BY <1>1, <1>2, <1>3, <1>5, LogIs DEF NamedInv
  <2> QED
    BY <1>1, <1>5, <2>1 DEF LogInv
<1> QED
  BY <1>1, <1>4, <1>5

\* The invariant says that no line is lost.
LEMMA NotLost ==
  ASSUME LogInv
  PROVE  NoLineLost
<1>1. CASE file_path_ = <<>>
  BY <1>1 DEF LogInv, NoLineLost
<1>2. CASE file_path_ # <<>>
  BY <1>2, LogIs DEF NamedInv, NoLineLost
<1> QED
  BY <1>1, <1>2

\* The names that main makes of a config file are sequences of tokens.
LEMMA NameIs ==
  ASSUME ProgramInv, NEW config \in config_, NEW info \in config.log_info_
  PROVE  info.path \o info.name \in Seq(STRING \cup {".", "/"})
         /\ info.rotate_type \in {"none", "minute", "hour", "day"}
<1>1. PICK root \in UNION ConfigFiles : config = LoadConfig(root)
  BY Zenon DEF ProgramInv
<1>2. PICK log \in root.log : info = ParseLogInfo(log)
  <2>1. info \in {ParseLogInfo(log) : log \in root.log}
    BY <1>1 DEF LoadConfig
  <2> QED
    BY <2>1, Zenon
<1>3. log.path \subseteq Seq(STRING) /\ log.name \subseteq Seq(STRING)
  <2>1. (log.path \cup log.name) \subseteq Seq(STRING)
    BY <1>1, <1>2, MainAssumption, Zenon
  <2> QED
    BY <2>1
<1>4. ASSUME NEW value, value \subseteq Seq(STRING)
      PROVE  OrElse(value, <<>>) \in Seq(STRING)
  <2>1. CASE value = {}
    BY <2>1 DEF OrElse
  <2>2. CASE value # {}
    BY <1>4, <2>2 DEF OrElse
  <2> QED
    BY <2>1, <2>2
<1>5. info.path = OrElse(log.path, <<>>) /\ info.name = OrElse(log.name, <<>>)
      /\ info.rotate_type = RotateOf(OrElse(log.rotate, ""))
  BY <1>2 DEF ParseLogInfo
<1> DEFINE p == OrElse(log.path, <<>>)
           n == OrElse(log.name, <<>>)
<1> HIDE DEF p, n
<1>6. p \in Seq(STRING) /\ n \in Seq(STRING)
  BY <1>3, <1>4 DEF p, n
<1>7. \A s \in Seq(STRING) : s \in Seq(STRING \cup {".", "/"})
  OBVIOUS
<1>8. p \o n \in Seq(STRING \cup {".", "/"})
  BY <1>6, <1>7
<1>9. \A rt : RotateOf(rt) \in {"none", "minute", "hour", "day"}
  BY DEF RotateOf
<1> QED
  BY <1>5, <1>8, <1>9 DEF p, n

\* The invariant holds at the start.
LEMMA MainStart ==
  ASSUME MainInit
  PROVE  MainInv
<1>1. 0 \in -Half .. Half - 1 /\ 0 \in 0 .. MaxBusy /\ 0 \in 0 .. MaxLines
  BY TaskAssumption, LogAssumption
<1>2. TaskInv
  BY <1>1 DEF MainInit, TaskInit, TaskInv, TaskTypeOK
<1>3. LogInv
  BY <1>1 DEF MainInit, LogInit, LogInv
<1>4. ProgramInv
  BY DEF MainInit, ProgramInv
<1> QED
  BY <1>2, <1>3, <1>4 DEF MainInv

\* OnWork on the tasks.
TaskStep ==
    \/ WorkLock \/ WorkUnlock
    \/ \E t \in Tasks : Look(t) \/ AfterRun(t) \/ Callback(t)
    \/ Busy \/ \E t \in Tasks : Add(t) \/ Del(t)

\* Every step on the tasks keeps their invariant.
LEMMA TasksKeep ==
  ASSUME TaskInv, TaskStep
  PROVE  TaskInv'
BY WorkLockKeeps, WorkUnlockKeeps, LookKeeps, AfterRunKeeps, CallbackKeeps, BusyKeeps, AddKeeps,
   DelKeeps, Zenon DEF TaskStep

\* A step of main is one on the tasks, one on the log, or both.
LEMMA MainStep ==
  ASSUME MainInv, MainNext
  PROVE  MainInv'
<1>1. ASSUME UNCHANGED programVars
      PROVE  ProgramInv' \/ ~ (file_path_' = file_path_ \/ file_path_' # <<>>)
  BY <1>1 DEF MainInv, ProgramInv, programVars
<1>2. CASE LoadConfigFile
  <2>1. PICK file \in ConfigFiles : /\ config_' = {LoadConfig(root) : root \in file}
                                    /\ program' = IF file = {} THEN "exit" ELSE "log"
    BY <1>2 DEF LoadConfigFile
  <2>2. UNCHANGED taskVars /\ UNCHANGED logVars
    BY <1>2 DEF LoadConfigFile
  <2>3. config_' \subseteq {LoadConfig(root) : root \in UNION ConfigFiles}
    BY <2>1, Zenon
  <2>4. ProgramInv'
    BY <2>1, <2>3 DEF ProgramInv
  <2> QED
    BY <2>2, <2>4, TasksRest, LogRests DEF MainInv
<1>3. CASE OpenLog
  <2>1. UNCHANGED taskVars /\ config_' = config_
    BY <1>3 DEF OpenLog
  <2>2. CASE program' \in {"crash", "exit"} /\ UNCHANGED logVars
    <3>1. ProgramInv'
      BY <2>1, <2>2 DEF MainInv, ProgramInv
    <3> QED
      BY <2>1, <2>2, <3>1, TasksRest, LogRests DEF MainInv
  <2>3. CASE \E config \in config_ : \E info \in config.log_info_ :
               /\ GetFileLog(info.path \o info.name)
               /\ rotateType_' = info.rotate_type
               /\ program' = "run"
    <3>1. PICK config \in config_ : \E info \in config.log_info_ :
               /\ GetFileLog(info.path \o info.name)
               /\ rotateType_' = info.rotate_type
               /\ program' = "run"
      BY <2>3
    <3>2. PICK info \in config.log_info_ :
               /\ GetFileLog(info.path \o info.name)
               /\ rotateType_' = info.rotate_type
               /\ program' = "run"
      BY <3>1
    <3> DEFINE T == STRING \cup {".", "/"}
    <3>3. /\ info.path \o info.name \in Seq(T)
          /\ rotateType_' \in {"none", "minute", "hour", "day"}
      BY <3>2, NameIs DEF MainInv
    <3>4. "." \in T /\ "/" \in T
      OBVIOUS
    <3> HIDE DEF T
    <3>5. LogInv' /\ file_path_' # <<>>
      BY <3>2, <3>3, <3>4, OpenIs DEF MainInv
    <3>6. ProgramInv'
      BY <2>1, <3>2, <3>5 DEF MainInv, ProgramInv
    <3> QED
      BY <2>1, <3>5, <3>6, TasksRest DEF MainInv
  <2> QED
    BY <1>3, <2>2, <2>3, Zenon DEF OpenLog
<1>4. CASE OpenTestLog
  <2> DEFINE path == <<"test", ".", "log">>
             T == {"test", ".", "log", "/"}
  <2>1. path \in Seq(T) /\ "." \in T /\ "/" \in T
    OBVIOUS
  <2>2. /\ GetFileLog(path) /\ rotateType_' \in {"none", "minute", "hour", "day"}
        /\ program' = "run" /\ config_' = config_ /\ UNCHANGED taskVars
    BY <1>4 DEF OpenTestLog
  <2> HIDE DEF path, T
  <2>3. LogInv' /\ file_path_' # <<>>
    BY <2>1, <2>2, OpenIs DEF MainInv
  <2>4. ProgramInv'
    BY <2>2, <2>3 DEF MainInv, ProgramInv
  <2> QED
    BY <2>2, <2>3, <2>4, TasksRest DEF MainInv
<1>5. ASSUME TaskStep, UNCHANGED <<logVars, programVars>> PROVE MainInv'
  BY <1>1, <1>5, TasksKeep, LogRests DEF MainInv
<1>6. ASSUME program = "run", UNCHANGED programVars PROVE file_path_ # <<>> /\ UNCHANGED programVars
  BY <1>6 DEF MainInv, ProgramInv
<1>7. ASSUME program = "run", CheckRotation \/ Rotate PROVE MainInv'
  <2>1. file_path_ # <<>> /\ UNCHANGED taskVars /\ UNCHANGED programVars
    BY <1>6, <1>7 DEF CheckRotation, Rotate
  <2>2. LogInv' /\ file_path_' = file_path_
    BY <1>7, <2>1, CheckKeeps, RenameKeeps, OpenNewKeeps, Dup2Keeps
       DEF MainInv, CheckRotation, Rotate, OnCheck, Rename, OpenNew, Dup2
  <2> QED
    BY <1>1, <2>1, <2>2, TasksRest DEF MainInv
<1>8. ASSUME program = "run", CheckEnd PROVE MainInv'
  <2>1. /\ file_path_ # <<>> /\ UNCHANGED programVars /\ Callback(Check) /\ Check \in Tasks
        /\ step = "done" /\ step' = "none"
        /\ UNCHANGED <<file_path_, rotateType_, names, files, fd_, fresh, written, overwritten>>
    BY <1>8, MainAssumption, TaskAssumption DEF CheckEnd, MainInv, ProgramInv, programVars
  <2>2. LogInv'
    BY <2>1, EndKeeps DEF MainInv
  <2>3. TaskInv'
    BY <2>1, CallbackKeeps DEF MainInv
  <2> QED
    BY <1>1, <2>1, <2>2, <2>3 DEF MainInv
<1>9. ASSUME program = "run", WriteLog, UNCHANGED <<taskVars, programVars>> PROVE MainInv'
  <2>1. LogInv' /\ file_path_' = file_path_
    BY <1>9, WriteKeeps DEF MainInv, WriteLog
  <2> QED
    BY <1>1, <1>9, <2>1, TasksRest DEF MainInv
<1>10. CASE OnWork
  <2>1. \/ TaskStep /\ UNCHANGED <<logVars, programVars>>
        \/ program = "run" /\ (CheckRotation \/ Rotate)
        \/ program = "run" /\ CheckEnd
    BY <1>10, Zenon DEF OnWork, TaskStep
  <2> QED
    BY <1>5, <1>7, <1>8, <2>1
<1>11. CASE /\ Busy \/ \E t \in Tasks : Add(t) \/ Del(t)
            /\ UNCHANGED <<logVars, programVars>>
  BY <1>5, <1>11, Zenon DEF TaskStep
<1>12. CASE program = "run" /\ WriteLog /\ UNCHANGED <<taskVars, programVars>>
  BY <1>9, <1>12
<1> QED
  BY <1>2, <1>3, <1>4, <1>10, <1>11, <1>12, Zenon DEF MainNext

\* A step that changes nothing.
LEMMA MainStutters ==
  ASSUME MainInv, UNCHANGED mainVars
  PROVE  MainInv'
<1>1. UNCHANGED taskVars /\ UNCHANGED logVars /\ UNCHANGED programVars
  BY DEF mainVars
<1>2. ProgramInv'
  BY <1>1, LogRests DEF MainInv, ProgramInv, programVars
<1> QED
  BY <1>1, <1>2, TasksRest, LogRests DEF MainInv

\* Every step keeps the invariant.
LEMMA MainInvariant == MainSpec => []MainInv
<1>1. MainInv /\ [MainNext]_mainVars => MainInv'
  BY MainStep, MainStutters
<1> QED
  BY <1>1, MainStart, PTL DEF MainSpec

\* No line is lost, with any calendar, any number of rotations, and any rename or
\* open that fails (FileLog.cc:28-47, FileMgr.cc:96-148).
THEOREM LinesAreKept == MainSpec => []NoLineLost
<1>1. MainInv => NoLineLost
  BY NotLost DEF MainInv
<1> QED
  BY <1>1, MainInvariant, PTL

\* Only OnWork, after a callback, erases a task while doing is "ran".
LEMMA OnlyAfterRun ==
  ASSUME MainInv, [MainNext]_mainVars, doing = "ran", NEW t \in Restarting, t \in tasks_ \ tasks_'
  PROVE  t \in wrapped
<1>1. PICK s \in Tasks : AfterRun(s)
  <2>1. UNCHANGED taskVars => tasks_' = tasks_
    BY DEF taskVars
  <2>2. ~ UNCHANGED mainVars /\ ~ LoadConfigFile /\ ~ OpenLog /\ ~ OpenTestLog
    BY <2>1 DEF mainVars, LoadConfigFile, OpenLog, OpenTestLog
  <2>3. ~ CheckRotation /\ ~ Rotate /\ ~ CheckEnd /\ ~ UNCHANGED <<taskVars, programVars>>
    BY <2>1 DEF CheckRotation, Rotate, CheckEnd, Callback
  <2>4. ~ WorkLock /\ ~ WorkUnlock /\ ~ Busy
    BY DEF WorkLock, WorkUnlock, Busy
  <2>5. \A s \in Tasks : ~ Look(s) /\ ~ Callback(s) /\ ~ Add(s) /\ ~ Del(s)
    BY DEF Look, Callback, Add, Del
  <2> QED
    BY <2>2, <2>3, <2>4, <2>5, Zenon DEF MainNext, OnWork
<1> QED
  BY <1>1, AfterRunKeeps DEF MainInv

\* A task that restarts itself stays in the set unless NowMs wraps, for every width of
\* NowMs, every interval and any time that callbacks take (TaksMgr.cc:10-21).
THEOREM RestartKeepsTheTask == MainSpec => RestartedStays
<1>1. MainInv /\ [MainNext]_mainVars
        => [\A t \in Restarting : doing = "ran" /\ t \in tasks_ \ tasks_' => t \in wrapped]_mainVars
  BY OnlyAfterRun
<1> QED
  BY <1>1, MainInvariant, PTL DEF MainSpec, RestartedStays

\* The types of TaskMgr, LogFiles and Housekeeping; no more lines are overwritten than
\* written.
THEOREM MainTypes == MainSpec => []MainTypeOK
<1>1. MainInv => MainTypeOK
  <2> SUFFICES ASSUME MainInv PROVE MainTypeOK
    OBVIOUS
  <2>1. TaskTypeOK
    BY DEF MainInv, TaskInv
  <2>2. LogTypeOK
    <3>1. CASE file_path_ = <<>>
      BY <3>1, LogAssumption DEF MainInv, LogInv, LogTypeOK
    <3>2. CASE file_path_ # <<>>
      <4> DEFINE n == file_path_
                 r == RotatedName
      <4>1. /\ NamedInv /\ files \in Seq(Nat) /\ written \in 0 .. MaxLines /\ overwritten \in Nat
            /\ rotateType_ \in {"none", "minute", "hour", "day"}
            /\ step \in {"none", "rename", "open", "dup2", "done"}
        BY <3>2 DEF MainInv, LogInv
      <4>2. /\ names \in [{n, r} -> 0 .. Len(files)]
            /\ LinesIn(n) + LinesIn(r) = written - overwritten
            /\ fd_ \in 1 .. Len(files) /\ fresh \in 1 .. Len(files)
        BY <4>1 DEF NamedInv
      <4> HIDE DEF n, r
      <4>3. LinesIn(n) \in Nat /\ LinesIn(r) \in Nat
        BY <4>1, <4>2 DEF LinesIn
      <4> DEFINE a == LinesIn(n)
                 b == LinesIn(r)
      <4>4. a \in Nat /\ b \in Nat /\ a + b = written - overwritten /\ MaxLines \in Nat
        BY <4>2, <4>3, LogAssumption
      <4>5. overwritten \in 0 .. MaxLines
        <5> HIDE DEF a, b
        <5> QED
          BY <4>1, <4>4
      <4> QED
        BY <3>2, <4>1, <4>2, <4>5 DEF LogTypeOK, n, r
    <3> QED
      BY <3>1, <3>2
  <2> QED
    BY <2>1, <2>2 DEF MainInv, ProgramInv, MainTypeOK
<1> QED
  BY <1>1, MainInvariant, PTL
=============================================================================
