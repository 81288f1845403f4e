------------------------------ MODULE TaskMgr ------------------------------
(***************************************************************************)
(* TaksMgr and its Tasks: a set of tasks under lock_, and OnWork, which runs *)
(* the tasks that are due and erases those that their callback did not      *)
(* restart.  Times are milliseconds in an int16_t; the true time, clock,     *)
(* goes round with a period of several wraps.                               *)
(*                                                                         *)
(* One thread sleeps and calls OnWork; others add and delete tasks.  lock_  *)
(* is held from WorkLock to WorkUnlock, callbacks included, so a callback    *)
(* must not add or delete.                                                  *)
(***************************************************************************)
EXTENDS Integers

CONSTANTS Tasks,
          Restarting,  \* the tasks whose callback calls Restart
          Interval,    \* Interval[t]: interval_ in milliseconds
          Half,        \* an int16_t is in -Half .. Half - 1 (2^15 in the code)
          Cycle,       \* period of clock
          Sleep,       \* sleep between two calls of OnWork
          MaxBusy      \* bound: milliseconds that callbacks take in one OnWork

ASSUME TaskAssumption ==
    /\ Restarting \subseteq Tasks
    /\ {Half, Sleep} \subseteq Nat \ {0} /\ MaxBusy \in Nat
    /\ Cycle \in Nat \ {0} /\ Cycle % (2 * Half) = 0
    /\ Interval \in [Tasks -> 1 .. Half - 1]

VARIABLES clock,   \* the true time
          tasks_,  \* tasks_
          when_,   \* when_[t]: when_ of a task in tasks_, 0 for the others
          doing,   \* where the thread is: "sleep", "scan", "run", "ran"
          now,     \* now of OnWork
          left,    \* tasks OnWork has not looked at yet
          cur,     \* the task whose callback runs, in a set
          busy,    \* milliseconds spent in this OnWork
          wrapped  \* tasks restarted across a wrap of NowMs (history)

taskVars == <<clock, tasks_, when_, doing, now, left, cur, busy, wrapped>>

Int16(x) == ((x + Half) % (2 * Half)) - Half
NowMs == Int16(clock)

TaskTypeOK ==
    /\ clock \in 0 .. Cycle - 1
    /\ tasks_ \subseteq Tasks
    /\ when_ \in [Tasks -> -Half .. Half - 1]
    /\ doing \in {"sleep", "scan", "run", "ran"}
    /\ now \in -Half .. Half - 1
    /\ left \subseteq tasks_
    /\ cur \subseteq left
    /\ (cur = {}) <=> doing \in {"sleep", "scan"}
    /\ busy \in 0 .. MaxBusy
    /\ wrapped \subseteq Restarting

TaskInit ==
    /\ clock \in 0 .. Cycle - 1
    /\ tasks_ = {}
    /\ when_ = [t \in Tasks |-> 0]
    /\ doing = "sleep"
    /\ now = 0
    /\ left = {}
    /\ cur = {}
    /\ busy = 0
    /\ wrapped = {}

-----------------------------------------------------------------------------
\* A task is made and added.
Add(t) ==
    /\ doing = "sleep"
    /\ t \notin tasks_
    /\ when_' = [when_ EXCEPT ![t] = Int16(NowMs + Interval[t])]
    /\ tasks_' = tasks_ \cup {t}
    /\ UNCHANGED <<clock, doing, now, left, cur, busy, wrapped>>

Forget(t) ==
    /\ tasks_' = tasks_ \ {t}
    /\ when_' = [when_ EXCEPT ![t] = 0]
    /\ wrapped' = wrapped \ {t}

Del(t) ==
    /\ doing = "sleep"
    /\ t \in tasks_
    /\ Forget(t)
    /\ UNCHANGED <<clock, doing, now, left, cur, busy>>

\* The sleep ends; OnWork takes lock_ and reads the clock.
WorkLock ==
    /\ doing = "sleep"
    /\ doing' = "scan"
    /\ clock' = (clock + Sleep) % Cycle
    /\ now' = Int16(clock')
    /\ left' = tasks_
    /\ UNCHANGED <<tasks_, when_, cur, busy, wrapped>>

Due(t) == when_[t] < now

\* Mutant: OnWork stops at the first task that is not due.
LookOrStop(t) ==
    /\ doing = "scan"
    /\ t \in left
    /\ IF Due(t) THEN doing' = "run" /\ cur' = {t} /\ left' = left
                 ELSE left' = {} /\ UNCHANGED <<doing, cur>>
    /\ UNCHANGED <<clock, tasks_, when_, now, busy, wrapped>>

\* The next task, in any order, is run if it is due.
Look(t) ==
    /\ doing = "scan"
    /\ t \in left
    /\ IF Due(t) THEN doing' = "run" /\ cur' = {t} /\ left' = left
                 ELSE left' = left \ {t} /\ UNCHANGED <<doing, cur>>
    /\ UNCHANGED <<clock, tasks_, when_, now, busy, wrapped>>

\* A callback takes time.
Busy ==
    /\ doing = "run"
    /\ busy < MaxBusy
    /\ busy' = busy + 1
    /\ clock' = (clock + 1) % Cycle
    /\ UNCHANGED <<tasks_, when_, doing, now, left, cur, wrapped>>

\* Task::Restart.  NowMs wraps on the way to the new time, or has since OnWork read it.
Restart(t) ==
    /\ when_' = [when_ EXCEPT ![t] = Int16(NowMs + Interval[t])]
    /\ wrapped' = IF NowMs + Interval[t] >= Half \/ NowMs < now
                     THEN wrapped \cup {t} ELSE wrapped \ {t}

\* The callback of t ends, with Restart if it calls it at all.
Callback(t) ==
    /\ doing = "run"
    /\ cur = {t}
    /\ doing' = "ran"
    /\ IF t \in Restarting THEN Restart(t) ELSE UNCHANGED <<when_, wrapped>>
    /\ UNCHANGED <<clock, tasks_, now, left, cur, busy>>

\* Mutant: a task that has run is erased without a second look.
AfterRunErase(t) ==
    /\ doing = "ran"
    /\ cur = {t}
    /\ doing' = "scan"
    /\ cur' = {}
    /\ left' = left \ {t}
    /\ Forget(t)
    /\ UNCHANGED <<clock, now, busy>>

\* A task that is still due is erased.
AfterRun(t) ==
    /\ doing = "ran"
    /\ cur = {t}
    /\ doing' = "scan"
    /\ cur' = {}
    /\ left' = left \ {t}
    /\ IF Due(t) THEN Forget(t) ELSE UNCHANGED <<tasks_, when_, wrapped>>
    /\ UNCHANGED <<clock, now, busy>>

WorkUnlock ==
    /\ doing = "scan"
    /\ left = {}
    /\ doing' = "sleep"
    /\ now' = 0
    /\ busy' = 0
    /\ UNCHANGED <<clock, tasks_, when_, left, cur, wrapped>>
=============================================================================
