\* Three threads share a breaker; the service breaks down and recovers at will.
SPECIFICATION BusySpec
CONSTANTS
    Callers = {c1, c2, c3}
    Threshold = 2
    Recovery = 2
    MaxRetries = 1
INVARIANTS BreakerTypeOK ClosedBelowThreshold
PROPERTIES HalfOpenFailureReopens FailFast CallsEnd Recovers
