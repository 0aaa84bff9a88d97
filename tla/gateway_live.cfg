CONSTANTS
    Ids <- OneId
    Urls <- OneId
    Key <- Spelled
    Foreign <- NoIds
    Seqs <- TwoSeqs
    Values = {v}
    Opaque = opaque
    None = none
    Putters = {p1}
    Getters <- Nobody
    Workers = {w1}
    Backend = "bolt"
    Faults <- NoFaults
    Reuse = FALSE
    PageSize = 1
    PutResults <- SomePutResults
    ListFails = 1
SPECIFICATION LiveSpec
PROPERTIES
    AckedReachesDHT
    ServiceRelies
    PassRelies
