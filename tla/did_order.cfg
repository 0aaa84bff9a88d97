CONSTANTS
    Tokens <- AllTokens
    Keys <- AllKeys
    IdentityKey <- K0
    Inputs <- Documents
    Orders <- BothOrders
SPECIFICATION Spec
CHECK_DEADLOCK FALSE
INVARIANTS
    ReferencesResolve
