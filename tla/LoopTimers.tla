----------------------------- MODULE LoopTimers -----------------------------
(***************************************************************************)
(* The timers of an EventLoop under its real clock: every turn of Loop()    *)
(* reads TTime::NowMs, which returns the milliseconds as an int16_t, and    *)
(* hands the value to TimingWheel::OnTimer.                                 *)
(***************************************************************************)
EXTENDS TimingWheel

CONSTANTS Starts,    \* low 16 bits of the clock when the loop starts
          Gaps,      \* milliseconds between two turns of the loop
          MaxTurns   \* bound: turns explored, 0 for no bound

\* The values of 16 bits.
Values16 == 65536
Bits16 == 0 .. Values16 - 1

ASSUME ClockAssumption ==
    /\ Starts \subseteq Bits16
    /\ Gaps \subseteq Nat \ {0}
    /\ MaxTurns \in Nat

VARIABLES clock,   \* low 16 bits of the true time in milliseconds
          owed,    \* owed[e]: true milliseconds that e must still wait (ghost)
          turns    \* turns of the loop so far

allVars == <<vars, clock, owed, turns>>

\* TTime::NowMs: the conversion keeps 16 bits, with a sign.
NowMs(c) == IF c < 32768 THEN c ELSE c - Values16

LoopInit ==
    /\ Init
    /\ clock \in Starts
    /\ owed = [e \in Entries |-> 0]
    /\ turns = 0

\* What a delay of d ticks promises in true time: a timer may come early by the
\* tick it is queued in and, from a minute on, by the ticks already spent of the
\* current minute.
Promised(d) == TickMs * Later(0, d - IF d < kTimingMinute THEN 1 ELSE kTimingMinute)

\* The functions on timers that a handler of the loop calls.
LoopRunAfter(e, d) ==
    /\ RunAfter(e, d)
    /\ owed' = [owed EXCEPT ![e] = Promised(d)]
    /\ UNCHANGED <<clock, turns>>

LoopRunEvery(e, p) ==
    /\ RunEvery(e, p)
    /\ owed' = [owed EXCEPT ![e] = Promised(p)]
    /\ UNCHANGED <<clock, turns>>

LoopExtendLife(e, d) ==
    /\ ExtendLife(e, d)
    /\ owed' = [owed EXCEPT ![e] = Later(@, Promised(d))]
    /\ UNCHANGED <<clock, turns>>

\* One turn of Loop(), gap milliseconds after the previous one.
Turn(gap) ==
    /\ turns < MaxTurns \/ MaxTurns = 0
    /\ turns' = IF MaxTurns = 0 THEN 0 ELSE turns + 1
    /\ clock' = (clock + gap) % Values16
    /\ OnTimer(NowMs(clock'))
    /\ owed' = [e \in Entries |->
                  IF e \in {f.entry : f \in fired'} /\ again[e] > 0 THEN Promised(again[e])
                  ELSE Later(0, owed[e] - gap)]

LoopNext ==
    \/ \E e \in Entries, d \in Delays : LoopRunAfter(e, d) \/ LoopExtendLife(e, d)
    \/ \E e \in Entries, p \in Intervals : LoopRunEvery(e, p)
    \/ \E gap \in Gaps : Turn(gap)

LoopSpec == LoopInit /\ [][LoopNext]_allVars

\* epoll_wait returns after 1000 ms at the latest, so the loop keeps turning.
LoopFairSpec == LoopSpec /\ WF_allVars(\E gap \in Gaps : Turn(gap))

-----------------------------------------------------------------------------
\* A timer never runs before what its delay promises has passed in true time:
\* although the clock wraps every 65536 ms, two ticks are never less than TickMs
\* apart (TTime.cc:8-13, TimingWheel.cc:74-84).
NeverEarly ==
    [][\A gap \in Gaps : Turn(gap) => \A f \in fired' : owed[f.entry] <= gap]_allVars

\* A RunEvery timer runs again and again: "RunEvery 1s now:" is printed every
\* second in EventLoopThreadTest.cc:58-59.
EveryKeepsFiring ==
    \A e \in Entries : again[e] > 0 ~> \E f \in fired : f.entry = e
=============================================================================
