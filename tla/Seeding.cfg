SPECIFICATION FairSpec
CONSTANTS
    Books = {b1}
    Readers = {u1}
    Rates = {1}
    Handlers = {h1}
    Workers = {w1}
    Rebuild = Rebuild
    Seeder = Seeder
    Seed = Seed
    SeedMassive = SeedMassive
    None = None
    MaxReservations = 1
    MaxQueue = 1
    MaxBusy = 2
    MaxFailures = 1
INVARIANTS
    AnalyticsTypeOK
    SummariesAreRight
PROPERTY
    CaughtUp
