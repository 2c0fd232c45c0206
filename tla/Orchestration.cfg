SPECIFICATION Spec
CONSTANTS
    MaxEvents = 8
    MaxCrashes = 2
    MaxRestarts = 1
    MaxExpiries = 2
INVARIANTS
    AssignedOnce
    DoneIsOver
    AckedIsDone

    
CHECK_DEADLOCK FALSE
