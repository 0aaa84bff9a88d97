CONSTANTS
    Requests = {q1, q2}
    Worlds <- SomeWorlds
    Half = 2
    None = none
    SlowStorage = TRUE
    MaxSignals = 2
SPECIFICATION LiveSpec
INVARIANTS
    TypeOK
    ServesAsAsked
    CleanExitAnswersAll
    ServedVerifies
    SignalKept
PROPERTIES
    SignalStops
