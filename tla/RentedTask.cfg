SPECIFICATION Spec
CONSTANTS
    Rental = {r1}
    Sweep = {w1}
    Settle = {s1}
    NoRental = none
    Lagging = {}
    Armed = TRUE
    NotFoundIsGone = FALSE
    MaxClaims = 1
    MaxFaults = 0
PROPERTIES
    NoTaskDestroyed
