CONSTANTS
    Procs = {p1}
    Tasks = {t1}
    MaxBreaks = 1
    MaxLosses = 0
    NoProc = NoProc
    NoTask = NoTask
SPECIFICATION FairSpec
PROPERTIES
    AssignedIsClaimed
CHECK_DEADLOCK FALSE
