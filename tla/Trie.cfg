\* A thread that writes and one that reads without the lock.
SPECIFICATION Spec
CONSTANTS
    Threads = {t1, t2}
    Writers = {t1}
    Readers = {t2}
    Chars = {"a", "b", "c"}
    Texts = {1, 2, 3, 4}
    Key <- Spelling
    Batches <- Insertions
    Limits = {2}
    MaxOverlap = 1
    MaxCopies = 2
    None = None
INVARIANTS TypeOK WellFormed ReadsAreRegular
