---------------------------- MODULE TimingWheel ----------------------------
(***************************************************************************)
(* tmms::network::TimingWheel: the four wheels of one EventLoop, advanced   *)
(* by OnTimer and filled by InsertEntry, RunAfter and RunEvery.  Everything *)
(* here runs on the loop's thread, one handler at a time; LoopTimers adds   *)
(* the loop's clock and composes the steps.                                 *)
(*                                                                         *)
(* A slot of a wheel is a set of shared pointers.  An entry is kept alive   *)
(* by its cells and its callback runs in its destructor, that is when the  *)
(* last cell holding it is dropped.  A cell of the minute, hour or day      *)
(* wheel is a cascade: when it is dropped it inserts its entry again with   *)
(* the rest of the delay.                                                   *)
(*                                                                         *)
(* InsertEntry with delay 0 writes through slot 0 - 1 of the second wheel,  *)
(* outside the deque: the process dies, or survives with the entry in no   *)
(* slot.  Both outcomes are modelled.                                       *)
(***************************************************************************)
EXTENDS Integers, FiniteSets

CONSTANTS Entries,         \* the timers
          kTimingMinute, kTimingHour, kTimingDay,  \* seconds, as in the header
          DayWheel,        \* slots of the day wheel
          TickMs,          \* milliseconds of clock that make a tick
          Delays,          \* delays handed to RunAfter and InsertEntry
          Intervals,       \* intervals handed to RunEvery
          MaxTick          \* bound: ticks explored

ASSUME WheelAssumption ==
    /\ {kTimingMinute, kTimingHour, kTimingDay} \subseteq Nat \ {0}
    /\ kTimingMinute < kTimingHour /\ kTimingHour < kTimingDay
    /\ kTimingHour % kTimingMinute = 0 /\ kTimingDay % kTimingHour = 0
ASSUME DelayAssumption ==
    /\ DayWheel \in Nat \ {0}
    /\ TickMs \in Nat \ {0}
    /\ Delays \subseteq Nat
    /\ Intervals \subseteq 1 .. (kTimingDay * (DayWheel + 1) - 1)

VARIABLES last_ts,   \* last_ts_: the clock at the latest tick
          tick,      \* tick_
          cells,     \* Wheels_: which slot holds which entry
          again,     \* again[e]: the interval of a RunEvery timer, 0 for the others
          deadline,  \* deadline[e]: tick of the latest expiry asked for (ghost)
          fired,     \* timers whose callback ran in the latest step (history)
          halted     \* the write outside the second wheel killed the process

vars == <<last_ts, tick, cells, again, deadline, fired, halted>>

WheelOf(d) == IF d < kTimingMinute THEN "second"
              ELSE IF d < kTimingHour THEN "minute"
              ELSE IF d < kTimingDay THEN "hour" ELSE "day"

Unit == [second |-> 1, minute |-> kTimingMinute, hour |-> kTimingHour,
         day |-> kTimingDay]

Slots == [second |-> kTimingMinute, minute |-> kTimingHour \div kTimingMinute,
          hour |-> kTimingDay \div kTimingHour, day |-> DayWheel]

TypeOK ==
    /\ last_ts \in Int
    /\ tick \in Nat
    /\ \A c \in cells : /\ c.wheel \in DOMAIN Unit
                        /\ c.slot \in 0 .. Slots[c.wheel] - 1
                        /\ c.rest \in 0 .. Unit[c.wheel] - 1
                        /\ c.entry \in Entries
    /\ again \in [Entries -> {0} \cup Intervals]
    /\ deadline \in [Entries -> Nat]
    /\ \A f \in fired : f.entry \in Entries /\ f.due \in Nat
    /\ halted \in BOOLEAN

Init ==
    /\ last_ts = 0
    /\ tick = 0
    /\ cells = {}
    /\ again = [e \in Entries |-> 0]
    /\ deadline = [e \in Entries |-> 0]
    /\ fired = {}
    /\ halted = FALSE

-----------------------------------------------------------------------------
(* InsertEntry.                                                             *)

\* Mutant: the slot is not counted from 0.
PlaceOneLater(e, d) ==
    IF d = 0 \/ d \div kTimingDay > DayWheel THEN {}
    ELSE LET w == WheelOf(d) IN
         {[wheel |-> w, slot |-> d \div Unit[w], rest |-> d % Unit[w], entry |-> e]}

\* The slot for a delay: none for 0 (outside the deque) nor beyond the day
\* wheel (refused).
Place(e, d) ==
    IF d = 0 \/ d \div kTimingDay > DayWheel THEN {}
    ELSE LET w == WheelOf(d) IN
         {[wheel |-> w, slot |-> d \div Unit[w] - 1, rest |-> d % Unit[w], entry |-> e]}

Holds(cs, e) == \E c \in cs : c.entry = e
Entered(cs) == {c.entry : c \in cs}
Armed(e) == Holds(cells, e)
Later(a, b) == IF a < b THEN b ELSE a

\* InsertEntry(delay, entry): an entry that no slot takes and nothing else
\* holds is destroyed on return, so its callback runs at once.
InsertEntry(e, d) ==
    /\ cells' = cells \cup Place(e, d)
    /\ deadline' = [deadline EXCEPT ![e] = IF Armed(e) THEN Later(@, tick + d)
                                                       ELSE tick + d]
    /\ fired' = {[entry |-> x, due |-> tick + d] : x \in {e} \ Entered(cells')}
    /\ halted' \in IF d = 0 THEN BOOLEAN ELSE {FALSE}

RunAfter(e, d) ==
    /\ ~halted
    /\ ~Armed(e)
    /\ InsertEntry(e, d)
    /\ again' = [again EXCEPT ![e] = 0]
    /\ UNCHANGED <<last_ts, tick>>

RunEvery(e, p) ==
    /\ ~halted
    /\ ~Armed(e)
    /\ InsertEntry(e, p)
    /\ again' = [again EXCEPT ![e] = p]
    /\ UNCHANGED <<last_ts, tick>>

\* The entry of an idle timeout is inserted once more while it is alive
\* (TcpConnection::ExtendLife, UdpSocket::EntendLife).
ExtendLife(e, d) ==
    /\ ~halted
    /\ Armed(e)
    /\ again[e] = 0
    /\ InsertEntry(e, d)
    /\ UNCHANGED <<last_ts, tick, again>>

-----------------------------------------------------------------------------
(* PopUp and OnTimer.                                                       *)

Front(cs, w) == {c \in cs : c.wheel = w /\ c.slot = 0}

\* Mutant: the front is popped twice.
PopUpTwice(cs, w) ==
    {IF c.wheel = w THEN [c EXCEPT !.slot = @ - 2] ELSE c :
       c \in {x \in cs : x.wheel = w => x.slot > 1}}

\* PopUp rotates the wheel before the front slot's entries are destroyed.
PopUp(cs, w) ==
    {IF c.wheel = w THEN [c EXCEPT !.slot = @ - 1] ELSE c : c \in cs \ Front(cs, w)}

\* The slower wheel that moves with tick t: tests in the order of the code.
SlowWheel(t) == IF t % kTimingMinute = 0 THEN "minute"
                ELSE IF t % kTimingHour = 0 THEN "hour"
                ELSE IF t % kTimingDay = 0 THEN "day" ELSE "none"

\* Mutant: the interval counts the tick that runs the callback.
RearmEarly(es) == UNION {Place(e, again[e] - 1) : e \in {x \in es : again[x] > 0}}

\* The cells of the RunEvery timers among es, inserted again by the callback.
Rearm(es) == UNION {Place(e, again[e]) : e \in {x \in es : again[x] > 0}}

\* What the cascades in cs insert when they are destroyed.
Cascade(cs) == UNION {Place(c.entry, c.rest) : c \in cs}

\* One tick: the second wheel, then the slower wheel whose turn it is.
Tick ==
    LET t == tick + 1
        second == PopUp(cells, "second")
        ran1 == Entered(Front(cells, "second")) \ Entered(second)
        cells1 == second \cup Rearm(ran1)
        due1 == [e \in Entries |-> IF e \in ran1 /\ again[e] > 0
                                     THEN t + again[e] ELSE deadline[e]]
        gone == Front(cells1, SlowWheel(t))
        cells2 == PopUp(cells1, SlowWheel(t)) \cup Cascade(gone)
        ran2 == Entered(gone) \ Entered(cells2)
    IN /\ tick' = t
       /\ cells' = cells2 \cup Rearm(ran2)
       /\ deadline' = [e \in Entries |-> IF e \in ran2 /\ again[e] > 0
                                           THEN t + again[e] ELSE due1[e]]
       /\ fired' = {[entry |-> e, due |-> deadline[e]] : e \in ran1}
                     \cup {[entry |-> e, due |-> due1[e]] : e \in ran2}
       /\ halted' \in IF \E c \in gone : c.rest = 0 THEN BOOLEAN ELSE {FALSE}

\* Mutant: last_ts_ keeps the value of the first call.
OnTimerKeepLast(now) ==
    /\ ~halted
    /\ LET last == IF last_ts = 0 THEN now ELSE last_ts IN
         /\ last_ts' = last
         /\ IF now - last < TickMs
              THEN fired' = {} /\ UNCHANGED <<tick, cells, deadline, halted>>
              ELSE tick < MaxTick /\ Tick
    /\ UNCHANGED again

OnTimer(now) ==
    /\ ~halted
    /\ LET last == IF last_ts = 0 THEN now ELSE last_ts IN
         IF now - last < TickMs
           THEN /\ last_ts' = last
                /\ fired' = {}
                /\ UNCHANGED <<tick, cells, deadline, halted>>
           ELSE /\ tick < MaxTick
                /\ last_ts' = now
                /\ Tick
    /\ UNCHANGED again

-----------------------------------------------------------------------------
(* Properties.  Delays are counted in ticks.                                *)

\* Waits in the wheel of hours or of days, which never moves: every multiple of an
\* hour is one of a minute, and the tests are else-branches (TimingWheel.cc:86-97).
Stuck(e) == \E c \in cells : c.entry = e /\ c.wheel \in {"hour", "day"}

\* A timer that is still waiting is not past the latest expiry asked for, unless
\* it was asked for an hour ahead or more, and a callback never runs late: the
\* cascade makes none late.  It may be early, by at most kTimingMinute ticks: the
\* slot of the minute wheel is chosen without the ticks already spent of the
\* current minute (TimingWheel.cc:20-24, 85-97).  With an extended life this
\* counts from the last extension: the end of the first cell does not destroy it.
\* A delay that the day wheel refuses, which no instance has, is not kept at all.
NeverLate ==
    ~halted =>
      /\ \A e \in Entries : Armed(e) => (tick < deadline[e] \/ Stuck(e))
      /\ \A f \in fired : tick <= f.due /\ f.due <= tick + kTimingMinute

\* A RunEvery timer is always queued again by its own callback; it is lost
\* neither by the tick that runs it nor by a cascade of the same tick
\* (TimingWheel.cc:120-124).
EveryStaysArmed ==
    ~halted => \A e \in Entries : again[e] > 0 => Armed(e)

\* A timer that was waiting and no longer is has run its callback, and one
\* whose callback has run is gone or was queued anew: nothing is dropped
\* silently, and a second reference keeps the callback from running.
VanishesOnlyByFiring ==
    [][\A e \in Entries :
         (Armed(e) /\ ~halted') =>
            (Armed(e)' <=> (again[e] > 0 \/ e \notin {f.entry : f \in fired'}))]_vars
=============================================================================
