CONSTANTS
    Tokens <- AllTokens
    Keys <- AllKeys
    IdentityKey <- K0
    Inputs <- Documents
    Orders <- PackedOnly
SPECIFICATION Spec
CHECK_DEADLOCK FALSE
INVARIANTS
    RoundTrip
    SameAuthority
    ReferencesResolve
