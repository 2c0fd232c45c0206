CONSTANTS
    Procs = {p1, p2, p3}
    Tasks = {t1, t2}
    MaxBreaks = 2
    MaxLosses = 2
    NoProc = NoProc
    NoTask = NoTask
SPECIFICATION FairSpec
INVARIANTS
    HandedOutOnce
    
PROPERTIES
    
    ReleasedGetsNoWork
CHECK_DEADLOCK FALSE
