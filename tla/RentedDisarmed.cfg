SPECIFICATION FairSpec
CONSTANTS
    Rental = {r1}
    Sweep = {w1}
    Settle = {}
    NoRental = none
    Lagging = {}
    Armed = FALSE
    NotFoundIsGone = FALSE
    MaxClaims = 1
    MaxFaults = 1
PROPERTIES
    LeaseEnds
