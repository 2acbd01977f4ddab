SPECIFICATION Spec
CONSTANTS
    Keys = {k1, k2, k3, k4}
    Values = {v1, v2}
    Threads = {t1}
    Capacity = 3
    TTLs <- UntilTick
    Nodes = {n1, n2, n3, n4}
    Head = Head
    Tail = Tail
    None = None
SYMMETRY Symmetry
INVARIANTS
    TypeOK
    WellLinked
PROPERTY
    ImplementsRecency
