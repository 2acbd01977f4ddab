SPECIFICATION Spec
CONSTANTS
    Processes = {p1, p2}
    Queries <- OneQuery
    L1TTL = 1
    DefaultTTL = 2
    L2TTL = 3
    MaxRequest = 1
    None = None
SYMMETRY ProcessSymmetry
INVARIANTS
    TypeOK
    StalenessBounded
    RedisIsInvalidated
    OldListsExpire
