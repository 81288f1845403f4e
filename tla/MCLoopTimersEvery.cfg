\* One RunEvery(1) timer, one turn a second.
SPECIFICATION LoopFairSpec
CONSTANTS
    e1 = e1
    e2 = e2
    Entries = {e1}
    kTimingMinute = 60
    kTimingHour = 3600
    kTimingDay = 86400
    DayWheel = 30
    TickMs = 1000
    Delays = {}
    Intervals = {1}
    MaxTick = 200
    Starts = {1000}
    Gaps = {1000}
    MaxTurns = 0
PROPERTIES
    EveryKeepsFiring
CHECK_DEADLOCK FALSE
