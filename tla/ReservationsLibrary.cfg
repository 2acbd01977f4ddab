\* Two processes of two readers overlap as they like, on every route but extend(), and die.
SPECIFICATION Spec
CONSTANTS
    Users = {u1, u2}
    Books = {b1}
    Workers = {w1, w2}
    Copies <- TwoCopies
    LoanDays = 1
    ExtraDays <- OneDay
    Routes = {"reserve", "return", "overdue", "patch_reservation", "delete_reservation", "patch_book", "delete_book"}
    Faults = TRUE
    None = None
    MaxNow = 2
    MaxDue = 2
    MaxReservations = 2
    MaxCopies = 1
SYMMETRY PeopleSymmetry
CONSTRAINT OneMishap
VIEW TablesAndJobs
INVARIANTS TypeOK ReturnedIffStamped
    OverdueIsAnnounced CopiesAccounted OneActivePerReader
PROPERTIES ImplementsLending OnlyForward
CHECK_DEADLOCK FALSE
