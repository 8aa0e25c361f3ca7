SPECIFICATION Spec
CHECK_DEADLOCK FALSE
CONSTANTS
    Lease = {l1, l2}
    Matches = 1
    NoMatch = none
    Rate <- MCOneRate
    EstSeconds = 2
    Tasks = 2
    Hour = 2
    MaxSeconds = 3
    Grant = 4
INVARIANTS
    AcceptedWorkIsPaid
