SPECIFICATION Spec
CONSTANTS
    Versions = {4}
    Top = 2
    Mark = 3
    MaxEvents = 2
INVARIANT RerunCarriesValues
CHECK_DEADLOCK FALSE
