CONSTANTS
    Ids <- FourIds
    Record = {r1}
    None = none
    PageSize = 3
    Backend = "postgres"
    Reuse = FALSE
    Corrupt <- FirstId
    PutResults <- SomePutResults
    ListFails = 1
SPECIFICATION LiveSpec
INVARIANTS
    TypeOK
    PassCovers
    FailuresHandled
    FailedOnce
    NeverBlocked
PROPERTIES
    PassEnds
