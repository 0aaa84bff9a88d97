CONSTANTS
    Ids <- TwoIds
    Record = {r1}
    None = none
    PageSize = 1
    Backend = "postgres"
    Reuse = FALSE
    Corrupt <- NoIds
    PutResults <- SomePutResults
    ListFails = 0
SPECIFICATION Spec
INVARIANT
    AllFailuresHandled
