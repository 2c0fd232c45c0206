SPECIFICATION SupervisionSpec
CONSTANTS
    Versions = {0, 1, 2, 4, 5, 6, 8, 11, 12}
    Top = 2
    Mark = 3
    MaxEvents = 1
    Workers = {bob}
INVARIANTS
    CurrentIsWhole
    ServesReadyState
PROPERTIES
    HubDoesNotOutliveSession
    RunCloses
CHECK_DEADLOCK FALSE
