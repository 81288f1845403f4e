\* Small wheels (3 ticks to the minute, 3 minutes to the hour, 2 hours to the
\* day) and a delay of more than an hour; the clock starts far from and just before
\* its wrap.
SPECIFICATION LoopSpec
CONSTANTS
    e1 = e1
    e2 = e2
    Entries = {e1, e2}
    kTimingMinute = 3
    kTimingHour = 9
    kTimingDay = 18
    DayWheel = 2
    TickMs = 1000
    Delays = {1, 8, 10}
    Intervals = {1, 5}
    MaxTick = 9
    Starts = {30000, 64036}
    Gaps = {500, 1000}
    MaxTurns = 9
SYMMETRY EntrySymmetry
INVARIANTS
    NeverLate
    EveryStaysArmed
PROPERTIES
    VanishesOnlyByFiring
    NeverEarly
CHECK_DEADLOCK FALSE
