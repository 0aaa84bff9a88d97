CONSTANTS
    id1 = id1
    id2 = id2
    alias = alias
    Ids <- OneId
    Urls <- OneUrl
    Key <- Decode
    Foreign <- NoIds
    Seqs <- TwoSeqs
    Values = {v}
    Opaque = opaque
    None = none
    Putters = {p1, p2}
    Getters = {g1}
    Workers = {w1, w2}
    Bolt = FALSE
    Faults <- NotRead
SPECIFICATION Spec
SYMMETRY Slots
INVARIANT
    AckedIsStored
PROPERTY
    Contract
