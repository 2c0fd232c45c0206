CONSTANTS
    Agents = {a1, a2}
    Tasks = {t1}
    Instances = {i1, i2}
    Workspaces = {}
    Durations = {1, 4}
    MaxTaskLease = 3
    LostAfter = 2
    MaxTime = 4
    MaxStepsBack = 1
    NoTask = NoTask
    NoAgent = NoAgent
    NoInstance = NoInstance
    NoWorkspace = NoWorkspace
SPECIFICATION FairSpec
INVARIANTS
    LeaseWithinCap
PROPERTIES
    NothingMovesBack
    OpenTaskEndsOrIsReported
    TaskOfSilentWorkerEnds
