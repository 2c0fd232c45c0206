CONSTANTS
    Waiters = {w1, w2}
    Writers = {x1, x2}
    MaxItems = 3
SPECIFICATION FairWaitSpec
INVARIANTS
    NoLostWakeup
PROPERTIES
    SleeperIsWoken
