CONSTANTS
    id1 = id1
    id2 = id2
    alias = alias
    Ids <- TwoIds
    Urls <- ThreeUrls
    Key <- Decode
    Foreign <- OnlyId2
    Seqs <- OneSeq
    Values = {v}
    Opaque = opaque
    None = none
    Putters = {p1}
    Getters = {g1}
    Workers = {w1}
    Bolt = TRUE
    Faults <- NoFaults
SPECIFICATION Spec
SYMMETRY Slots
INVARIANTS
    ServedIsStored
    NotFoundMeansUnpublished
    TypeOK
