CONSTANTS
    Requests = {q1}
    Worlds <- ShippedWorld
    Half = 2
    None = none
    SlowStorage = FALSE
    MaxSignals = 1
SPECIFICATION Spec
INVARIANTS
    FallbackAnswers
