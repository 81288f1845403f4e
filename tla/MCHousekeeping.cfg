\* A clock that wraps every 12 ms, minutes of 3 ms, two minutes to the hour, two
\* hours to the day, two days.
SPECIFICATION MainFairSpec
CONSTANTS
    check = check
    other = other
    Tasks = {check, other}
    Restarting = {check}
    Check = check
    Interval <- MCInterval
    Half = 6
    Cycle = 24
    Sleep = 2
    MaxBusy = 1
    Minute = 3
    Hour = 6
    Day = 12
    ConfigFiles <- MCConfigFiles
    MaxLines = 2
INVARIANTS
    NoLineLost
PROPERTIES
    RestartedStays
    RunsAgain
CHECK_DEADLOCK FALSE
