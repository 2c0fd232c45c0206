SPECIFICATION Spec
CONSTANTS
    MaxCommits = 3
    MaxPushes = 1
    MaxMain = 2
    MaxFixtures = 2
    Networked = TRUE
INVARIANTS
    IssueConsumedOnce
    MergedWasGreen
    OneDisturbanceEach
    RecordedDisturbanceIsReal
CHECK_DEADLOCK FALSE
