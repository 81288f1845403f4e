--------------------------- MODULE EventLoopProofs ---------------------------
(***************************************************************************)
(* Theorems about EventLoop, for any loops, threads, functions, calling     *)
(* pattern and pipe capacity.                                               *)
(***************************************************************************)
EXTENDS EventLoop, SequenceTheorems, TLAPS

\* The mutex of l is held by l exactly while it runs queued functions, and by
\* a poster exactly between its push and the end of RunInLoop.
LockInv ==
    /\ \A l \in Loops : pc[l] = "running" <=> lock[l] = l
    /\ \A l \in Loops, t \in Threads :
         t # l => (lock[l] = t <=> at[t] \in {"wake", "unlock"} /\ Target[call[t]] = l)
    /\ \A t \in Threads :
         at[t] # "none" => call[t] \in Funcs /\ Target[call[t]] # t

\* Every reported or pending edge stands for a word of its own in the pipe, and
\* a full pipe has an edge to report or a read to make.
PipeInv ==
    \A l \in Loops :
      /\ ready[l] => pc[l] = "dispatch" /\ pipeBytes[l] > 0
      /\ edge[l] => pipeBytes[l] > 0
      /\ edge[l] /\ ready[l] => pipeBytes[l] > 1
      /\ pipeBytes[l] = PipeCap => edge[l] \/ ready[l]

\* WakePending, from the moment RunFunctions leaves functions_ empty.
Owed(l) == pc[l] \in {"idle", "timer", "check", "wait"} /\ functions[l] # <<>>
Waking(t, l) == at[t] = "wake" /\ Target[call[t]] = l
WakeInv == \A l \in Loops : Owed(l) => edge[l] \/ \E t \in Threads : Waking(t, l)

\* Functions execute only where Loop() executes some, and the one that
\* RunFunctions executes is still in functions_.
QueueInv ==
    \A l \in Loops :
      stack[l] # <<>> =>
         /\ pc[l] \in {"dispatch", "running", "timer"}
         /\ pc[l] = "running" => functions[l] # <<>>

IndInv == TypeOK /\ LockInv /\ PipeInv /\ WakeInv /\ QueueInv

USE LoopsAssumption, PipeAssumption DEF LoopsAssumption, PipeAssumption, Threads

-----------------------------------------------------------------------------
\* A queue that was just pushed to is not empty.
LEMMA AppendNotEmpty == \A s \in Seq(Funcs), f \in Funcs : Append(s, f) # <<>>
  OBVIOUS

\* The tail of a queue is empty when the queue held one function.
LEMMA TailOfSingle == \A s \in Seq(Funcs) : s # <<>> =>
                         (Tail(s) = <<>> <=> Len(s) = 1)
<1> SUFFICES ASSUME NEW s \in Seq(Funcs), s # <<>>
             PROVE  Tail(s) = <<>> <=> Len(s) = 1
  OBVIOUS
<1>1. Tail(s) \in Seq(Funcs) /\ Len(Tail(s)) = Len(s) - 1 /\ Len(s) \in Nat
  OBVIOUS
<1>2. Tail(s) = <<>> <=> Len(Tail(s)) = 0
  BY <1>1, EmptySeq
<1> QED
  BY <1>1, <1>2

-----------------------------------------------------------------------------
\* The model starts in a state of the invariant.
LEMMA InitIndInv == Init => IndInv
  BY DEF Init, IndInv, TypeOK, LockInv, PipeInv, WakeInv, Owed, QueueInv

\* Every step preserves the types of the variables.
LEMMA TypeStep == ASSUME TypeOK, LockInv, QueueInv, [Next]_vars PROVE TypeOK'
<1> USE DEF TypeOK
<1>1. ASSUME NEW t \in Threads, NEW f \in Funcs, RunInLoopInline(t, f)
      PROVE  TypeOK'
  <2>1. t \in Loops
    BY <1>1 DEF RunInLoopInline
  <2>2. stack' \in [Loops -> Seq(Funcs)]
    <3>1. <<f>> \o stack[t] \in Seq(Funcs)
      BY <2>1
    <3> QED
      BY <1>1, <3>1 DEF RunInLoopInline
  <2>3. ran' \in [Loops -> Seq(Funcs)] /\ posted' \in SUBSET Funcs
    BY <1>1, <2>1 DEF RunInLoopInline
  <2> QED
    BY <1>1, <2>2, <2>3 DEF RunInLoopInline
<1>2. ASSUME NEW t \in Threads, NEW f \in Funcs, RunInLoopCall(t, f)
      PROVE  TypeOK'
  BY <1>2 DEF RunInLoopCall
<1>3. ASSUME NEW t \in Threads, LockAndPush(t) PROVE TypeOK'
  <2>1. call[t] \in Funcs /\ Target[call[t]] \in Loops
    BY <1>3 DEF LockInv, LockAndPush
  <2>2. functions' \in [Loops -> Seq(Funcs)] /\ lock' \in [Loops -> Threads \cup {Free}]
    BY <1>3, <2>1 DEF LockAndPush
  <2>3. at' \in [Threads -> {"none", "lock", "wake", "unlock"}]
    BY <1>3 DEF LockAndPush
  <2> QED
    BY <1>3, <2>2, <2>3 DEF LockAndPush
<1>4. ASSUME NEW t \in Threads, WakeUp(t) PROVE TypeOK'
  <2> DEFINE l == Target[call[t]]
  <2>1. l \in Loops
    BY <1>4 DEF LockInv, WakeUp
  <2>2. pipeBytes' \in [Loops -> 0 .. PipeCap] /\ edge' \in [Loops -> BOOLEAN]
    <3>1. CASE pipeBytes[l] < PipeCap
      <4>1. pipeBytes[l] + 1 \in 0 .. PipeCap
        BY <3>1, <2>1
      <4>2. /\ pipeBytes' = [pipeBytes EXCEPT ![l] = @ + 1]
            /\ edge' = [edge EXCEPT ![l] = TRUE]
        BY <1>4, <3>1 DEF WakeUp
      <4> HIDE DEF l
      <4> QED
        BY <4>1, <4>2
    <3>2. CASE ~(pipeBytes[l] < PipeCap)
      BY <1>4, <3>2 DEF WakeUp
    <3> QED
      BY <3>1, <3>2
  <2>3. pipe' \in [Loops -> BOOLEAN]
    BY <1>4, <2>1 DEF WakeUp
  <2>4. at' \in [Threads -> {"none", "lock", "wake", "unlock"}]
    BY <1>4 DEF WakeUp
  <2> QED
    BY <1>4, <2>2, <2>3, <2>4 DEF WakeUp
<1>5. ASSUME NEW t \in Threads, Unlock(t) PROVE TypeOK'
  BY <1>5 DEF Unlock
<1>6. ASSUME NEW l \in Loops, LoopStart(l) \/ LoopCheck(l) \/ DispatchEnd(l)
                              \/ TimerEnd(l) \/ EpollError(l) \/ Quit(l)
      PROVE  TypeOK'
  BY <1>6 DEF LoopStart, LoopCheck, DispatchEnd, TimerEnd, EpollError, Quit
<1>7. ASSUME NEW l \in Loops, EpollWait(l) PROVE TypeOK'
  BY <1>7 DEF EpollWait
<1>8. ASSUME NEW l \in Loops, PipeOnRead(l) PROVE TypeOK'
  BY <1>8 DEF PipeOnRead
<1>9. ASSUME NEW l \in Loops, RunFunctionsLock(l) PROVE TypeOK'
  BY <1>9 DEF RunFunctionsLock
<1>10. ASSUME NEW l \in Loops, RunFunctionsUnlock(l) PROVE TypeOK'
  BY <1>10 DEF RunFunctionsUnlock
<1>11. ASSUME NEW l \in Loops, RunFront(l) PROVE TypeOK'
  <2>1. Head(functions[l]) \in Funcs
    BY <1>11 DEF RunFront
  <2>2. stack' \in [Loops -> Seq(Funcs)]
    BY <1>11, <2>1 DEF RunFront
  <2>3. ran' \in [Loops -> Seq(Funcs)]
    BY <1>11, <2>1 DEF RunFront
  <2> QED
    BY <1>11, <2>2, <2>3 DEF RunFront
<1>12. ASSUME NEW l \in Loops, FuncReturn(l) PROVE TypeOK'
  <2>1. stack[l] # <<>> /\ Tail(stack[l]) \in Seq(Funcs)
    BY <1>12 DEF FuncReturn, BodyDone
  <2>2. pc[l] = "running" => Tail(functions[l]) \in Seq(Funcs)
    BY <2>1 DEF QueueInv
  <2>3. stack' \in [Loops -> Seq(Funcs)] /\ functions' \in [Loops -> Seq(Funcs)]
    BY <1>12, <2>1, <2>2 DEF FuncReturn
  <2> QED
    BY <1>12, <2>3 DEF FuncReturn
<1>13. CASE UNCHANGED vars
  BY <1>13 DEF vars
<1> QED
  BY <1>1, <1>2, <1>3, <1>4, <1>5, <1>6, <1>7, <1>8, <1>9, <1>10, <1>11,
     <1>12, <1>13 DEF Next, CallStep, LoopStep

\* Every step preserves the ownership of the mutexes.
LEMMA LockStep == ASSUME TypeOK, LockInv, [Next]_vars PROVE LockInv'
<1> USE DEF TypeOK, LockInv
<1>1. ASSUME NEW t \in Threads, NEW f \in Funcs,
             RunInLoopInline(t, f) \/ RunInLoopCall(t, f)
      PROVE  LockInv'
  <2>1. CASE RunInLoopInline(t, f)
    BY <2>1 DEF RunInLoopInline
  <2>2. CASE RunInLoopCall(t, f)
    <3>1. /\ at[t] = "none" /\ Target[f] # t /\ UNCHANGED <<pc, lock>>
          /\ at' = [at EXCEPT ![t] = "lock"]
          /\ call' = [call EXCEPT ![t] = f]
      BY <2>2 DEF RunInLoopCall, MayCall
    <3> QED
      BY <3>1
  <2> QED
    BY <1>1, <2>1, <2>2
<1>2. ASSUME NEW t \in Threads, LockAndPush(t) PROVE LockInv'
  <2>1. /\ at[t] = "lock" /\ call[t] \in Funcs
        /\ Target[call[t]] \in Loops /\ Target[call[t]] # t
        /\ lock[Target[call[t]]] = Free
        /\ lock' = [lock EXCEPT ![Target[call[t]]] = t]
        /\ at' = [at EXCEPT ![t] = "wake"]
        /\ UNCHANGED <<pc, call>>
    BY <1>2 DEF LockAndPush
  <2>2. (\A l \in Loops : pc[l] = "running" <=> lock[l] = l)'
    BY <2>1
  <2>3. (\A l \in Loops, u \in Threads :
           u # l => (lock[l] = u <=> at[u] \in {"wake", "unlock"} /\ Target[call[u]] = l))'
    BY <2>1
  <2>4. (\A u \in Threads : at[u] # "none" => call[u] \in Funcs /\ Target[call[u]] # u)'
    BY <2>1
  <2> QED
    BY <2>2, <2>3, <2>4
<1>3. ASSUME NEW t \in Threads, WakeUp(t) PROVE LockInv'
  <2>1. /\ at[t] = "wake" /\ at' = [at EXCEPT ![t] = "unlock"]
        /\ UNCHANGED <<pc, lock, call>>
    BY <1>3 DEF WakeUp
  <2>2. \A u \in Threads : /\ at'[u] \in {"wake", "unlock"} <=> at[u] \in {"wake", "unlock"}
                           /\ at'[u] = "none" <=> at[u] = "none"
    BY <2>1
  <2> QED
    BY <2>1, <2>2
<1>4. ASSUME NEW t \in Threads, Unlock(t) PROVE LockInv'
  <2>1. /\ at[t] = "unlock" /\ call[t] \in Funcs
        /\ Target[call[t]] \in Loops /\ Target[call[t]] # t
        /\ lock[Target[call[t]]] = t
        /\ lock' = [lock EXCEPT ![Target[call[t]]] = Free]
        /\ at' = [at EXCEPT ![t] = "none"]
        /\ call' = [call EXCEPT ![t] = NoFunc]
        /\ UNCHANGED pc
    BY <1>4 DEF Unlock
  <2>2. (\A l \in Loops : pc[l] = "running" <=> lock[l] = l)'
    BY <2>1
  <2>3. (\A l \in Loops, u \in Threads :
           u # l => (lock[l] = u <=> at[u] \in {"wake", "unlock"} /\ Target[call[u]] = l))'
    BY <2>1
  <2>4. (\A u \in Threads : at[u] # "none" => call[u] \in Funcs /\ Target[call[u]] # u)'
    BY <2>1
  <2> QED
    BY <2>2, <2>3, <2>4
<1>5. ASSUME NEW l \in Loops, LoopStart(l) \/ LoopCheck(l) \/ DispatchEnd(l)
                              \/ TimerEnd(l) \/ EpollError(l) \/ EpollWait(l)
      PROVE  LockInv'
  BY <1>5 DEF LoopStart, LoopCheck, DispatchEnd, TimerEnd, EpollError, EpollWait
<1>6. ASSUME NEW l \in Loops, PipeOnRead(l) \/ RunFront(l) \/ FuncReturn(l) \/ Quit(l)
      PROVE  LockInv'
  <2>1. UNCHANGED <<pc, lock, at, call>>
    BY <1>6 DEF PipeOnRead, RunFront, FuncReturn, Quit
  <2> QED
    BY <2>1
<1>7. ASSUME NEW l \in Loops, RunFunctionsLock(l) PROVE LockInv'
  BY <1>7, SMTT(30) DEF RunFunctionsLock
<1>8. ASSUME NEW l \in Loops, RunFunctionsUnlock(l) PROVE LockInv'
  BY <1>8 DEF RunFunctionsUnlock
<1>9. CASE UNCHANGED vars
  BY <1>9 DEF vars
<1> QED
  BY <1>1, <1>2, <1>3, <1>4, <1>5, <1>6, <1>7, <1>8, <1>9
     DEF Next, CallStep, LoopStep

\* Every step preserves the link between the words in a pipe and its edges.
LEMMA PipeStep == ASSUME TypeOK, LockInv, PipeInv, [Next]_vars PROVE PipeInv'
<1> USE DEF TypeOK, PipeInv
<1>1. ASSUME NEW t \in Threads, NEW f \in Funcs,
             RunInLoopInline(t, f) \/ RunInLoopCall(t, f)
      PROVE  PipeInv'
  BY <1>1 DEF RunInLoopInline, RunInLoopCall
<1>2. ASSUME NEW t \in Threads, LockAndPush(t) \/ Unlock(t) PROVE PipeInv'
  BY <1>2 DEF LockAndPush, Unlock
<1>3. ASSUME NEW t \in Threads, WakeUp(t) PROVE PipeInv'
  <2> DEFINE l == Target[call[t]]
  <2>1. l \in Loops /\ pc' = pc /\ ready' = ready
    BY <1>3 DEF LockInv, WakeUp
  <2>2. CASE pipeBytes[l] < PipeCap
    <3>1. /\ pipeBytes' = [pipeBytes EXCEPT ![l] = @ + 1]
          /\ edge' = [edge EXCEPT ![l] = TRUE]
      BY <1>3, <2>2 DEF WakeUp
    <3> HIDE DEF l
    <3> QED
      BY <2>1, <3>1
  <2>3. CASE ~(pipeBytes[l] < PipeCap)
    BY <1>3, <2>1, <2>3 DEF WakeUp
  <2> QED
    BY <2>2, <2>3
<1>4. ASSUME NEW l \in Loops, LoopStart(l) \/ LoopCheck(l) \/ TimerEnd(l)
                              \/ EpollError(l) \/ Quit(l)
      PROVE  PipeInv'
  BY <1>4 DEF LoopStart, LoopCheck, TimerEnd, EpollError, Quit
<1>5. ASSUME NEW l \in Loops, EpollWait(l) PROVE PipeInv'
  BY <1>5 DEF EpollWait
<1>6. ASSUME NEW l \in Loops, PipeOnRead(l) PROVE PipeInv'
  BY <1>6 DEF PipeOnRead
<1>7. ASSUME NEW l \in Loops, DispatchEnd(l) \/ RunFunctionsLock(l)
                              \/ RunFunctionsUnlock(l)
      PROVE  PipeInv'
  BY <1>7 DEF DispatchEnd, RunFunctionsLock, RunFunctionsUnlock
<1>8. ASSUME NEW l \in Loops, RunFront(l) \/ FuncReturn(l) PROVE PipeInv'
  <2>1. UNCHANGED <<pc, pipeBytes, edge, ready>>
    BY <1>8 DEF RunFront, FuncReturn
  <2> QED
    BY <2>1
<1>9. CASE UNCHANGED vars
  BY <1>9 DEF vars
<1> QED
  BY <1>1, <1>2, <1>3, <1>4, <1>5, <1>6, <1>7, <1>8, <1>9
     DEF Next, CallStep, LoopStep

\* Every step keeps the executing function in the queue.
LEMMA QueueStep == ASSUME TypeOK, LockInv, QueueInv, [Next]_vars PROVE QueueInv'
<1> USE DEF TypeOK, QueueInv
<1>1. ASSUME NEW t \in Threads, NEW f \in Funcs, RunInLoopInline(t, f)
      PROVE  QueueInv'
  BY <1>1 DEF RunInLoopInline, MayCall
<1>2. ASSUME NEW t \in Threads, NEW f \in Funcs, RunInLoopCall(t, f)
      PROVE  QueueInv'
  BY <1>2 DEF RunInLoopCall
<1>3. ASSUME NEW t \in Threads, LockAndPush(t) PROVE QueueInv'
  <2>1. /\ functions' = [functions EXCEPT ![Target[call[t]]] = Append(@, call[t])]
        /\ call[t] \in Funcs
    BY <1>3 DEF LockAndPush, LockInv
  <2>2. \A l \in Loops : functions[l] # <<>> => functions'[l] # <<>>
    <3>1. functions'[Target[call[t]]] = Append(functions[Target[call[t]]], call[t])
      BY <2>1
    <3>2. functions'[Target[call[t]]] # <<>>
      <4>1. functions[Target[call[t]]] \in Seq(Funcs)
        BY <2>1
      <4> QED
        BY <2>1, <3>1, <4>1, AppendNotEmpty
    <3>3. \A l \in Loops : l # Target[call[t]] => functions'[l] = functions[l]
      BY <2>1
    <3> QED
      BY <3>2, <3>3
  <2> QED
    BY <1>3, <2>2 DEF LockAndPush
<1>4. ASSUME NEW t \in Threads, WakeUp(t) \/ Unlock(t) PROVE QueueInv'
  BY <1>4 DEF WakeUp, Unlock
<1>5. ASSUME NEW l \in Loops, LoopStart(l) \/ LoopCheck(l) \/ EpollError(l)
                              \/ EpollWait(l) \/ RunFunctionsLock(l)
      PROVE  QueueInv'
  BY <1>5 DEF LoopStart, LoopCheck, EpollError, EpollWait, RunFunctionsLock
<1>6. ASSUME NEW l \in Loops, DispatchEnd(l) \/ TimerEnd(l) \/ RunFunctionsUnlock(l)
      PROVE  QueueInv'
  BY <1>6 DEF DispatchEnd, TimerEnd, RunFunctionsUnlock, AtRest
<1>7. ASSUME NEW l \in Loops, RunFront(l) PROVE QueueInv'
  BY <1>7 DEF RunFront
<1>8. ASSUME NEW l \in Loops, FuncReturn(l) PROVE QueueInv'
  <2>1. /\ stack[l] # <<>> /\ pc' = pc
        /\ stack' = [stack EXCEPT ![l] = Tail(@)]
        /\ \A m \in Loops : m # l => functions'[m] = functions[m]
        /\ functions'[l] = functions[l] \/ Len(stack[l]) = 1
    BY <1>8 DEF FuncReturn, BodyDone
  <2>2. Len(stack[l]) = 1 => stack'[l] = <<>>
    BY <2>1, TailOfSingle
  <2> QED
    BY <2>1, <2>2
<1>9. ASSUME NEW l \in Loops, PipeOnRead(l) \/ Quit(l) PROVE QueueInv'
  BY <1>9 DEF PipeOnRead, Quit
<1>10. CASE UNCHANGED vars
  BY <1>10 DEF vars
<1> QED
  BY <1>1, <1>2, <1>3, <1>4, <1>5, <1>6, <1>7, <1>8, <1>9, <1>10
     DEF Next, CallStep, LoopStep

\* A step that owes no new wake-up and takes none back preserves WakeInv.
LEMMA WakeFrame ==
    ASSUME WakeInv,
           \A l \in Loops : Owed(l)' => Owed(l),
           \A l \in Loops : edge[l] /\ Owed(l)' => edge'[l],
           \A l \in Loops, t \in Threads : Waking(t, l) => Waking(t, l)'
    PROVE  WakeInv'
  BY DEF WakeInv

\* Every step preserves the wake-up owed to a queue that is not empty.
LEMMA WakeStep == ASSUME IndInv, [Next]_vars PROVE WakeInv'
<1> USE DEF IndInv, TypeOK
<1>1. ASSUME NEW t \in Threads, NEW f \in Funcs,
             RunInLoopInline(t, f) \/ RunInLoopCall(t, f)
      PROVE  WakeInv'
  <2>1. /\ UNCHANGED <<pc, functions, edge>>
        /\ \A u \in Threads : at[u] = "wake" => at'[u] = "wake" /\ call'[u] = call[u]
    BY <1>1 DEF RunInLoopInline, RunInLoopCall, MayCall
  <2> QED
    BY <2>1, WakeFrame DEF Owed, Waking
<1>2. ASSUME NEW t \in Threads, LockAndPush(t) PROVE WakeInv'
  <2>1. /\ at'[t] = "wake" /\ call' = call /\ pc' = pc /\ edge' = edge
        /\ \A u \in Threads : at[u] = "wake" => at'[u] = "wake"
        /\ \A l \in Loops : l # Target[call[t]] => functions'[l] = functions[l]
    BY <1>2 DEF LockAndPush
  <2> QED
    BY <2>1 DEF WakeInv, Owed, Waking
<1>3. ASSUME NEW t \in Threads, WakeUp(t) PROVE WakeInv'
  <2> DEFINE k == Target[call[t]]
  <2>1. /\ k \in Loops /\ UNCHANGED <<pc, functions, ready, call>>
        /\ \A u \in Threads : u # t => at'[u] = at[u]
    BY <1>3 DEF LockInv, WakeUp
  <2>2. /\ \A l \in Loops : edge[l] => edge'[l]
        /\ edge'[k] \/ pipeBytes[k] = PipeCap
    <3>1. CASE pipeBytes[k] < PipeCap
      <4>1. edge' = [edge EXCEPT ![k] = TRUE]
        BY <1>3, <3>1 DEF WakeUp
      <4> HIDE DEF k
      <4> QED
        BY <2>1, <4>1
    <3>2. CASE ~(pipeBytes[k] < PipeCap)
      BY <1>3, <2>1, <3>2 DEF WakeUp
    <3> QED
      BY <3>1, <3>2
  <2>3. edge'[k] \/ ready[k]
    BY <2>1, <2>2 DEF PipeInv
  <2>4. ASSUME NEW l \in Loops, Owed(l)'
        PROVE  edge'[l] \/ \E u \in Threads : Waking(u, l)'
    <3>1. Owed(l)
      BY <2>1, <2>4 DEF Owed
    <3>2. CASE l = k
      BY <2>3, <3>1, <3>2 DEF PipeInv, Owed
    <3>3. CASE l # k
      BY <2>1, <2>2, <3>1, <3>3 DEF WakeInv, Waking
    <3> QED
      BY <3>2, <3>3
  <2> QED
    BY <2>4 DEF WakeInv
<1>4. ASSUME NEW t \in Threads, Unlock(t) PROVE WakeInv'
  <2>1. /\ UNCHANGED <<pc, functions, edge>>
        /\ \A u \in Threads : at[u] = "wake" => at'[u] = "wake" /\ call'[u] = call[u]
    BY <1>4 DEF Unlock
  <2> QED
    BY <2>1, WakeFrame DEF Owed, Waking
<1>5. ASSUME NEW l \in Loops, LoopStart(l) \/ LoopCheck(l) \/ TimerEnd(l)
                              \/ EpollError(l) \/ Quit(l)
      PROVE  WakeInv'
  <2>1. /\ UNCHANGED <<functions, edge, at, call>>
        /\ \A m \in Loops : m # l => pc'[m] = pc[m]
        /\ pc[l] \in {"idle", "timer", "check", "wait"} \/ pc' = pc
    BY <1>5 DEF LoopStart, LoopCheck, TimerEnd, EpollError, Quit
  <2> QED
    BY <2>1, WakeFrame DEF Owed, Waking
<1>6. ASSUME NEW l \in Loops, EpollWait(l) \/ PipeOnRead(l) \/ DispatchEnd(l)
                              \/ RunFunctionsLock(l)
      PROVE  WakeInv'
  <2>1. /\ UNCHANGED <<functions, at, call>>
        /\ \A m \in Loops : m # l => pc'[m] = pc[m] /\ edge'[m] = edge[m]
        /\ pc'[l] \in {"dispatch", "drain", "running"}
    BY <1>6 DEF EpollWait, PipeOnRead, DispatchEnd, RunFunctionsLock
  <2> QED
    BY <2>1, WakeFrame DEF Owed, Waking
<1>7. ASSUME NEW l \in Loops, RunFunctionsUnlock(l) PROVE WakeInv'
  <2>1. /\ UNCHANGED <<functions, edge, at, call>> /\ functions[l] = <<>>
        /\ \A m \in Loops : m # l => pc'[m] = pc[m]
    BY <1>7 DEF RunFunctionsUnlock
  <2> QED
    BY <2>1, WakeFrame DEF Owed, Waking
<1>8. ASSUME NEW l \in Loops, RunFront(l) PROVE WakeInv'
  <2>1. UNCHANGED <<pc, functions, edge, at, call>>
    BY <1>8 DEF RunFront
  <2> QED
    BY <2>1, WakeFrame DEF Owed, Waking
<1>9. ASSUME NEW l \in Loops, FuncReturn(l) PROVE WakeInv'
  <2>1. /\ UNCHANGED <<pc, edge, at, call>>
        /\ \A m \in Loops : functions'[m] = functions[m] \/ pc[m] = "running"
    BY <1>9 DEF FuncReturn
  <2> QED
    BY <2>1, WakeFrame DEF Owed, Waking
<1>10. CASE UNCHANGED vars
  BY <1>10, WakeFrame DEF vars, Owed, Waking
<1> QED
  BY <1>1, <1>2, <1>3, <1>4, <1>5, <1>6, <1>7, <1>8, <1>9, <1>10
     DEF Next, CallStep, LoopStep

-----------------------------------------------------------------------------
\* The inductive invariant holds in every reachable state of EventLoop.
LEMMA Invariance == Spec => []IndInv
<1>1. IndInv /\ [Next]_vars => IndInv'
  BY TypeStep, LockStep, PipeStep, QueueStep, WakeStep DEF IndInv
<1> QED
  BY <1>1, InitIndInv, PTL DEF Spec

\* The variables of Loop(), RunInLoop and the wake-up pipe keep their types; in
\* particular a pipe never holds more than PipeCap words.
THEOREM TypeCorrect == Spec => []TypeOK
  BY Invariance, PTL DEF IndInv

\* No wake-up is lost, for any number of posters and loops and any pipe size.
THEOREM WakeUpNotLost == Spec => []WakePending
<1>1. IndInv => WakePending
  BY DEF IndInv, WakeInv, Owed, Waking, WakePending
<1> QED
  BY <1>1, Invariance, PTL

\* PipeEvent::OnRead never meets an empty pipe.
THEOREM OnReadFindsData == Spec => []ReadFindsData
<1>1. IndInv => ReadFindsData
  BY DEF IndInv, PipeInv, ReadFindsData
<1> QED
  BY <1>1, Invariance, PTL

-----------------------------------------------------------------------------
(* EventLoop implements LoopExecutor.                                       *)

\* Only functions whose call was made are queued or were started, and one that
\* waits for the lock is in no queue, was not started and is in no other call.
HistoryInv ==
    /\ \A l \in Loops : Executor!Items(functions[l]) \subseteq posted
    /\ \A l \in Loops : Executor!Items(ran[l]) \subseteq posted
    /\ \A t \in Threads : at[t] = "lock" =>
         /\ call[t] \in posted
         /\ \A l \in Loops : /\ call[t] \notin Executor!Items(functions[l])
                             /\ call[t] \notin Executor!Items(ran[l])
    /\ \A t, u \in Threads :
         t # u /\ at[t] = "lock" /\ at[u] = "lock" => call[t] # call[u]

\* The members of a sequence that grows at the end or loses its front.
LEMMA ItemsAppend == \A s \in Seq(Funcs), f \in Funcs :
                        Executor!Items(Append(s, f)) = Executor!Items(s) \cup {f}
<1> SUFFICES ASSUME NEW s \in Seq(Funcs), NEW f \in Funcs
             PROVE  Executor!Items(Append(s, f)) = Executor!Items(s) \cup {f}
  OBVIOUS
<1>1. /\ DOMAIN Append(s, f) = 1 .. (Len(s) + 1) /\ DOMAIN s = 1 .. Len(s)
      /\ Len(s) \in Nat
      /\ \A i \in 1 .. Len(s) : Append(s, f)[i] = s[i]
      /\ Append(s, f)[Len(s) + 1] = f
  OBVIOUS
<1>2. ASSUME NEW x \in Executor!Items(Append(s, f))
      PROVE  x \in Executor!Items(s) \cup {f}
  <2>1. PICK i \in 1 .. (Len(s) + 1) : x = Append(s, f)[i]
    BY <1>1 DEF Executor!Items
  <2>2. i \in 1 .. Len(s) \/ i = Len(s) + 1
    BY <1>1
  <2> QED
    BY <1>1, <2>1, <2>2 DEF Executor!Items
<1>3. ASSUME NEW x \in Executor!Items(s) \cup {f}
      PROVE  x \in Executor!Items(Append(s, f))
  <2>1. CASE x = f
    BY <1>1, <2>1 DEF Executor!Items
  <2>2. CASE x \in Executor!Items(s)
    <3>1. PICK i \in 1 .. Len(s) : x = s[i]
      BY <1>1, <2>2 DEF Executor!Items
    <3>2. i \in DOMAIN Append(s, f) /\ x = Append(s, f)[i]
      BY <1>1, <3>1
    <3> QED
      BY <3>2 DEF Executor!Items
  <2> QED
    BY <1>3, <2>1, <2>2
<1> QED
  BY <1>2, <1>3

\* The functions in a queue are its first and those behind it.
LEMMA ItemsHeadTail == \A s \in Seq(Funcs) : s # <<>> =>
                          /\ Executor!Items(Tail(s)) \subseteq Executor!Items(s)
                          /\ Head(s) \in Executor!Items(s)
  BY DEF Executor!Items

\* There is none in an empty queue.
LEMMA ItemsEmpty == Executor!Items(<<>>) = {}
  BY DEF Executor!Items

\* The invariant holds at the start.
LEMMA InitHistory == Init => HistoryInv
  BY ItemsEmpty DEF Init, HistoryInv

\* Every step preserves HistoryInv.
LEMMA HistoryStep == ASSUME IndInv, HistoryInv, [Next]_vars PROVE HistoryInv'
<1> USE DEF IndInv, TypeOK, HistoryInv
<1>1. ASSUME NEW t \in Threads, NEW f \in Funcs, RunInLoopInline(t, f)
      PROVE  HistoryInv'
  <2>1. /\ t \in Loops /\ f \notin posted /\ posted' = posted \cup {f}
        /\ ran' = [ran EXCEPT ![t] = Append(@, f)]
        /\ UNCHANGED <<functions, at, call>>
    BY <1>1 DEF RunInLoopInline, MayCall
  <2>2. Executor!Items(ran'[t]) = Executor!Items(ran[t]) \cup {f}
    BY <2>1, ItemsAppend
  <2>3. \A l \in Loops : l # t => ran'[l] = ran[l]
    BY <2>1
  <2>4. \A l \in Loops : Executor!Items(ran'[l]) \subseteq Executor!Items(ran[l]) \cup {f}
    BY <2>2, <2>3
  <2>5. \A u \in Threads : at[u] = "lock" => call[u] # f
    BY <2>1
  <2>6. (\A l \in Loops : Executor!Items(functions[l]) \subseteq posted)'
    BY <2>1
  <2>7. (\A l \in Loops : Executor!Items(ran[l]) \subseteq posted)'
    BY <2>1, <2>4
  <2>8. (\A u \in Threads : at[u] = "lock" =>
           /\ call[u] \in posted
           /\ \A l \in Loops : /\ call[u] \notin Executor!Items(functions[l])
                               /\ call[u] \notin Executor!Items(ran[l]))'
    BY <2>1, <2>4, <2>5
  <2>9. (\A u, v \in Threads :
           u # v /\ at[u] = "lock" /\ at[v] = "lock" => call[u] # call[v])'
    BY <2>1
  <2> QED
    BY <2>6, <2>7, <2>8, <2>9
<1>2. ASSUME NEW t \in Threads, NEW f \in Funcs, RunInLoopCall(t, f)
      PROVE  HistoryInv'
  <2>1. /\ f \notin posted /\ posted' = posted \cup {f}
        /\ at' = [at EXCEPT ![t] = "lock"]
        /\ call' = [call EXCEPT ![t] = f]
        /\ UNCHANGED <<functions, ran>>
    BY <1>2 DEF RunInLoopCall, MayCall
  <2> QED
    BY <2>1
<1>3. ASSUME NEW t \in Threads, LockAndPush(t) PROVE HistoryInv'
  <2> DEFINE k == Target[call[t]]
  <2>1. /\ at[t] = "lock" /\ call[t] \in Funcs /\ k \in Loops
        /\ functions' = [functions EXCEPT ![k] = Append(@, call[t])]
        /\ at' = [at EXCEPT ![t] = "wake"]
        /\ UNCHANGED <<call, posted, ran>>
    BY <1>3 DEF LockAndPush, LockInv
  <2>2. Executor!Items(functions'[k]) = Executor!Items(functions[k]) \cup {call[t]}
    BY <2>1, ItemsAppend
  <2>3. \A l \in Loops : l # k => functions'[l] = functions[l]
    BY <2>1
  <2>4. \A u \in Threads : at'[u] = "lock" => at[u] = "lock" /\ u # t
    BY <2>1
  <2> HIDE DEF k
  <2>5. \A l \in Loops : Executor!Items(functions'[l])
                            \subseteq Executor!Items(functions[l]) \cup {call[t]}
    BY <2>2, <2>3
  <2>6. \A u \in Threads : at'[u] = "lock" => call[u] # call[t]
    BY <2>1, <2>4
  <2>7. (\A l \in Loops : Executor!Items(functions[l]) \subseteq posted)'
    BY <2>1, <2>5
  <2>8. (\A l \in Loops : Executor!Items(ran[l]) \subseteq posted)'
    BY <2>1
  <2>9. (\A u \in Threads : at[u] = "lock" =>
           /\ call[u] \in posted
           /\ \A l \in Loops : /\ call[u] \notin Executor!Items(functions[l])
                               /\ call[u] \notin Executor!Items(ran[l]))'
    BY <2>1, <2>4, <2>5, <2>6
  <2>10. (\A u, v \in Threads :
            u # v /\ at[u] = "lock" /\ at[v] = "lock" => call[u] # call[v])'
    BY <2>1, <2>4
  <2> QED
    BY <2>7, <2>8, <2>9, <2>10
<1>4. ASSUME NEW t \in Threads, WakeUp(t) \/ Unlock(t) PROVE HistoryInv'
  <2>1. /\ UNCHANGED <<functions, ran, posted>>
        /\ \A u \in Threads : at'[u] = "lock" => at[u] = "lock" /\ call'[u] = call[u]
    BY <1>4 DEF WakeUp, Unlock
  <2> QED
    BY <2>1
<1>5. ASSUME NEW l \in Loops, RunFront(l) PROVE HistoryInv'
  <2>1. /\ functions[l] # <<>> /\ functions[l] \in Seq(Funcs)
        /\ ran' = [ran EXCEPT ![l] = Append(@, Head(functions[l]))]
        /\ UNCHANGED <<functions, at, call, posted>>
    BY <1>5 DEF RunFront
  <2>2. /\ Head(functions[l]) \in Executor!Items(functions[l])
        /\ Head(functions[l]) \in Funcs
    BY <2>1, ItemsHeadTail
  <2>3. Executor!Items(ran'[l]) = Executor!Items(ran[l]) \cup {Head(functions[l])}
    BY <2>1, <2>2, ItemsAppend
  <2>4. \A m \in Loops : m # l => ran'[m] = ran[m]
    BY <2>1
  <2>5. \A m \in Loops : Executor!Items(ran'[m]) \subseteq
                             Executor!Items(ran[m]) \cup Executor!Items(functions[m])
    <3> TAKE m \in Loops
    <3> HIDE DEF IndInv, TypeOK, HistoryInv
    <3>1. CASE m = l
      BY <2>2, <2>3, <3>1
    <3>2. CASE m # l
      BY <2>4, <3>2
    <3> QED
      BY <3>1, <3>2
  <2> QED
    BY <2>1, <2>5
<1>6. ASSUME NEW l \in Loops, FuncReturn(l) PROVE HistoryInv'
  <2>1. /\ UNCHANGED <<ran, at, call, posted>>
        /\ \A m \in Loops : m # l => functions'[m] = functions[m]
        /\ \/ functions'[l] = functions[l]
           \/ functions'[l] = Tail(functions[l]) /\ functions[l] # <<>>
    BY <1>6 DEF FuncReturn, BodyDone, QueueInv
  <2>2. Executor!Items(functions'[l]) \subseteq Executor!Items(functions[l])
    <3>1. CASE functions'[l] = Tail(functions[l]) /\ functions[l] # <<>>
      <4>1. functions[l] \in Seq(Funcs)
        BY DEF TypeOK
      <4>2. Executor!Items(Tail(functions[l])) \subseteq Executor!Items(functions[l])
        BY <3>1, <4>1, ItemsHeadTail
      <4> QED
        BY <3>1, <4>2
    <3> QED
      BY <2>1, <3>1
  <2> QED
    BY <2>1, <2>2
<1>7. ASSUME NEW l \in Loops,
             LoopStart(l) \/ LoopCheck(l) \/ EpollWait(l) \/ EpollError(l)
             \/ PipeOnRead(l) \/ DispatchEnd(l) \/ RunFunctionsLock(l)
             \/ RunFunctionsUnlock(l) \/ TimerEnd(l) \/ Quit(l) \/ UNCHANGED vars
      PROVE  HistoryInv'
  <2>1. UNCHANGED <<functions, ran, at, call, posted>>
    BY <1>7 DEF LoopStart, LoopCheck, EpollWait, EpollError, PipeOnRead,
                DispatchEnd, RunFunctionsLock, RunFunctionsUnlock, TimerEnd,
                Quit, vars
  <2> QED
    BY <2>1
<1>8. CASE UNCHANGED vars
  BY <1>8 DEF vars
<1> QED
  BY <1>1, <1>2, <1>3, <1>4, <1>5, <1>6, <1>7, <1>8 DEF Next, CallStep, LoopStep

\* Every step of EventLoop is a step of LoopExecutor or changes nothing there.
LEMMA SimulationStep ==
    ASSUME IndInv, HistoryInv, [Next]_vars PROVE [Executor!Next]_(Executor!vars)
<1> USE DEF IndInv, TypeOK
<1> DEFINE Same(l) == Pending'[l] = Pending[l]
<1>0. ASSUME \A l \in Loops : Same(l) PROVE Pending' = Pending
  BY <1>0 DEF Pending
<1>1. ASSUME NEW t \in Threads, NEW f \in Funcs, RunInLoopInline(t, f)
      PROVE  Executor!RunNow(f)
  <2>1. /\ t \in Loops /\ Target[f] = t /\ f \notin posted
        /\ ran' = [ran EXCEPT ![t] = Append(@, f)]
        /\ stack' = [stack EXCEPT ![t] = <<f>> \o @]
        /\ UNCHANGED <<pc, functions>>
        /\ pc[t] = "running" => stack[t] # <<>>
    BY <1>1 DEF RunInLoopInline, MayCall
  <2>2. stack'[t] # <<>>
    BY <2>1
  <2>3. \A l \in Loops : Same(l)
    BY <2>1, <2>2 DEF Pending
  <2>4. Executor!Fresh(f)
    <3>1. Executor!Items(Pending[t]) \subseteq posted
      BY <2>1, ItemsHeadTail DEF Pending, HistoryInv, QueueInv
    <3> QED
      BY <2>1, <3>1 DEF Executor!Fresh, HistoryInv
  <2> QED
    BY <1>0, <2>1, <2>3, <2>4 DEF Executor!RunNow
<1>2. ASSUME NEW t \in Threads, LockAndPush(t) PROVE Executor!Submit(call[t])
  <2> DEFINE k == Target[call[t]]
  <2>1. /\ at[t] = "lock" /\ call[t] \in Funcs /\ k \in Loops /\ lock[k] = Free
        /\ functions' = [functions EXCEPT ![k] = Append(@, call[t])]
        /\ UNCHANGED <<pc, stack, ran>>
    BY <1>2 DEF LockAndPush, LockInv
  <2>2. pc[k] # "running"
    BY <2>1 DEF LockInv
  <2>3. Pending' = [Pending EXCEPT ![k] = Append(@, call[t])]
    BY <2>1, <2>2 DEF Pending
  <2>4. Executor!Fresh(call[t])
    BY <2>1, <2>2 DEF Executor!Fresh, HistoryInv, Pending
  <2> QED
    BY <2>1, <2>3, <2>4 DEF Executor!Submit
<1>3. ASSUME NEW l \in Loops, RunFront(l) PROVE Executor!Execute(l)
  <2>1. /\ pc[l] = "running" /\ stack[l] = <<>> /\ functions[l] # <<>>
        /\ stack' = [stack EXCEPT ![l] = <<Head(functions[l])>>]
        /\ ran' = [ran EXCEPT ![l] = Append(@, Head(functions[l]))]
        /\ UNCHANGED <<pc, functions>>
    BY <1>3 DEF RunFront, AtRest
  <2>2. Pending[l] = functions[l]
    BY <2>1 DEF Pending
  <2>3. Pending' = [Pending EXCEPT ![l] = Tail(@)]
    BY <2>1, <2>2 DEF Pending
  <2> QED
    BY <2>1, <2>2, <2>3 DEF Executor!Execute
<1>4. ASSUME NEW l \in Loops, FuncReturn(l) PROVE UNCHANGED <<Pending, ran>>
  <2>1. /\ UNCHANGED <<pc, ran>> /\ stack[l] # <<>>
        /\ stack' = [stack EXCEPT ![l] = Tail(@)]
        /\ functions' = IF pc[l] = "running" /\ Len(stack[l]) = 1
                          THEN [functions EXCEPT ![l] = Tail(@)]
                          ELSE functions
    BY <1>4 DEF FuncReturn, BodyDone
  <2>2. Len(stack[l]) = 1 <=> stack'[l] = <<>>
    BY <2>1, TailOfSingle
  <2>3. Same(l)
    BY <2>1, <2>2 DEF Pending
  <2>4. \A m \in Loops : m # l => Same(m)
    BY <2>1 DEF Pending
  <2> QED
    BY <1>0, <2>1, <2>3, <2>4
<1>5. ASSUME NEW l \in Loops,
             LoopStart(l) \/ LoopCheck(l) \/ EpollWait(l) \/ EpollError(l)
             \/ PipeOnRead(l) \/ DispatchEnd(l) \/ RunFunctionsLock(l)
             \/ RunFunctionsUnlock(l) \/ TimerEnd(l) \/ Quit(l)
      PROVE  UNCHANGED <<Pending, ran>>
  <2>1. /\ UNCHANGED <<functions, ran, stack>>
        /\ \A m \in Loops : m # l => pc'[m] = pc[m]
        /\ (pc[l] # "running" /\ pc'[l] # "running") \/ pc' = pc \/ stack[l] = <<>>
    BY <1>5 DEF LoopStart, LoopCheck, EpollWait, EpollError, PipeOnRead,
                DispatchEnd, RunFunctionsLock, RunFunctionsUnlock, TimerEnd,
                Quit, AtRest, QueueInv
  <2>2. \A m \in Loops : Same(m)
    BY <2>1 DEF Pending
  <2> QED
    BY <1>0, <2>1, <2>2
<1>6. ASSUME NEW t \in Threads,
             (\E f \in Funcs : RunInLoopCall(t, f)) \/ WakeUp(t) \/ Unlock(t)
      PROVE  UNCHANGED <<Pending, ran>>
  <2>1. UNCHANGED <<functions, ran, stack, pc>>
    BY <1>6 DEF RunInLoopCall, WakeUp, Unlock
  <2> QED
    BY <2>1 DEF Pending
<1>7. CASE UNCHANGED vars
  BY <1>7 DEF vars, Executor!vars, Pending
<1>8. ASSUME UNCHANGED <<Pending, ran>> PROVE UNCHANGED Executor!vars
  BY <1>8 DEF Executor!vars
<1>9. ASSUME NEW t \in Threads, LockAndPush(t) PROVE call[t] \in Funcs
  BY <1>9 DEF LockAndPush, LockInv
<1> QED
  BY <1>1, <1>2, <1>3, <1>4, <1>5, <1>6, <1>7, <1>8, <1>9
     DEF Next, CallStep, LoopStep, Executor!Next

\* EventLoop implements LoopExecutor: whatever the threads do, each function is
\* executed once, on its own loop, and queued ones in the order of the pushes.
THEOREM EventLoopImplementsExecutor == Spec => ImplementsExecutor
<1>1. Init => Executor!Init
  BY DEF Init, Executor!Init, Pending
<1>2. Init => HistoryInv
  BY InitHistory
<1>3. IndInv /\ HistoryInv /\ [Next]_vars => HistoryInv'
  BY HistoryStep
<1>4. IndInv /\ HistoryInv /\ [Next]_vars => [Executor!Next]_(Executor!vars)
  BY SimulationStep
<1> QED
  BY <1>1, <1>2, <1>3, <1>4, Invariance, PTL
     DEF Spec, ImplementsExecutor, Executor!Spec
=============================================================================
