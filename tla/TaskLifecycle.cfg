CONSTANTS
    Agents = {a1, a2}
    Tasks = {t1, t2}
    Instances = {i1, i2}
    Workspaces = {w1}
    Durations = {1}
    MaxTaskLease = 2
    LostAfter = 1
    MaxTime = 3
    MaxStepsBack = 0
    NoTask = NoTask
    NoAgent = NoAgent
    NoInstance = NoInstance
    NoWorkspace = NoWorkspace
SPECIFICATION Spec
SYMMETRY Symmetry
INVARIANTS
    TypeOK
    AgentTaskAgreement
    ReportedOnce
    WorkspaceExclusive
PROPERTIES
    ReleaseIsFinal
    TerminalIsFinal
