\* Two loops whose functions post to each other, and an inline call; a pipe of one word.
SPECIFICATION WakeSpec
CONSTANTS
    l1 = l1
    l2 = l2
    t1 = t1
    f1 = f1
    f2 = f2
    f3 = f3
    f4 = f4
    f5 = f5
    Free = Free
    NoFunc = NoFunc
    Loops = {l1, l2}
    Outsiders = {t1}
    Funcs = {f1, f2, f3, f4, f5}
    Target <- CrossTarget
    Caller <- CrossCaller
    PipeCap = 1
INVARIANTS
    WakePending
    ReadFindsData
PROPERTIES
    ImplementsExecutor
    PostedRuns
    QuitExits
