SPECIFICATION Spec
CHECK_DEADLOCK FALSE
CONSTANTS
    Lease = {l1, l2}
    Matches = 2
    NoMatch = none
    Rate <- MCRate
    EstSeconds = 2
    Tasks = 2
    Hour = 2
    MaxSeconds = 3
    Grant = 4
INVARIANTS
    BooksBalance
    CreditOnlyForAcceptedWork
    FinishedLeaseHoldsNothing
PROPERTIES
    OnlyInferenceIsCorrected
    KeepsBook
