\* Two readers race for the last copy.
SPECIFICATION Spec
CONSTANTS
    Users = {u1, u2}
    Books = {b1}
    Workers = {w1, w2}
    Copies <- OneCopy
    LoanDays = 1
    ExtraDays <- OneDay
    Routes = {"reserve"}
    Faults = FALSE
    None = None
    MaxNow = 0
    MaxDue = 2
    MaxReservations = 2
    MaxCopies = 2
INVARIANTS NoOverlending
CHECK_DEADLOCK FALSE
