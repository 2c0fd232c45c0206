CONSTANTS
    Notes = {"n1", "n2"}
    Results = {"r1", "r2"}
    MaxOps = 4
    MaxLosses = 1
SPECIFICATION Spec
INVARIANTS
    EffectOnce
    AnswersAreTrue
    OneResult
    ResubmissionIsRecognised
