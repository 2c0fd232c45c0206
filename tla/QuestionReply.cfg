CONSTANTS
    Questions = {"q1", "q2"}
    MaxHeld = 1
    MaxAsks = 4
    MaxDisconnects = 2
SPECIFICATION FairSpec
INVARIANTS
    QuestionAskedOnce
    RepliesAnswerNewest
    
PROPERTIES
    PendingAnswerIsHeard
CHECK_DEADLOCK FALSE
