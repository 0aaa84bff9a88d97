CONSTANTS
    Adds = {a1, a2, a3}
    Gets = {g1}
SPECIFICATION Spec
INVARIANTS
    TypeOK
    AddedIsKept
