CONSTANTS
    Ids <- ThreeIds
    Record = {r1}
    None = none
    PageSize = 1
    Backend = "bolt"
    Reuse = TRUE
    Corrupt <- NoIds
    PutResults <- SomePutResults
    ListFails = 0
SPECIFICATION Spec
INVARIANT
    PassCovers
