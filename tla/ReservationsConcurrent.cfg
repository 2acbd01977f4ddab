\* Whatever a command and the task do overlaps, and keeps running.
SPECIFICATION FairSpec
CONSTANTS
    Users = {u1}
    Books = {b1}
    Workers = {w1, w2}
    Copies <- OneCopy
    LoanDays = 1
    ExtraDays <- OneDay
    Routes = {"reserve", "return", "extend", "overdue"}
    Faults = FALSE
    None = None
    MaxNow = 2
    MaxDue = 2
    MaxReservations = 2
    MaxCopies = 2
INVARIANTS StaleOnlyInFlight PromisesKept
PROPERTIES EffectsFollow OnlyForward
CHECK_DEADLOCK FALSE
