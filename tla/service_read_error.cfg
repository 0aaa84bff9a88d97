CONSTANTS
    id1 = id1
    id2 = id2
    alias = alias
    Ids <- OneId
    Urls <- OneUrl
    Key <- Decode
    Foreign <- NoIds
    Seqs <- OneSeq
    Values = {v}
    Opaque = opaque
    None = none
    Putters = {p1}
    Getters = {g1}
    Workers = {w1}
    Bolt = TRUE
    Faults <- OnlyRead
SPECIFICATION Spec
INVARIANT
    NotFoundMeansUnpublished
