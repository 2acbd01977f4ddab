\* A reader returns a book and extends the loan at the same time.
SPECIFICATION Spec
CONSTANTS
    Users = {u1}
    Books = {b1}
    Workers = {w1, w2}
    Copies <- OneCopy
    LoanDays = 1
    ExtraDays <- OneDay
    Routes = {"reserve", "return", "extend"}
    Faults = FALSE
    None = None
    MaxNow = 0
    MaxDue = 2
    MaxReservations = 1
    MaxCopies = 1
PROPERTIES ReturnedIsFinal
CHECK_DEADLOCK FALSE
