SPECIFICATION Spec
CONSTANTS
    Threads = {t1, t2}
    Clients = {c1}
    Cost = 2
    Burst = 3
    CleanupInterval = 4
    Limiters = {l1, l2}
    Buckets = {b1, b2, b3, b4, b5}
    None = None
SYMMETRY Symmetry
INVARIANTS
    TypeOK
    AdmissionBound
PROPERTY
    DeniedOnlyWhenSpent
