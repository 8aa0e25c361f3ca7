SPECIFICATION Spec
CONSTANTS
    Rental = {r1}
    Sweep = {w1}
    Settle = {s1}
    NoRental = none
    Lagging = {}
    Armed = TRUE
    NotFoundIsGone = TRUE
    MaxClaims = 1
    MaxFaults = 1
INVARIANTS
    IInv
    NothingBillsBehindAClosedRow
    ReleasedAtIsEvidence
PROPERTIES
    OnlyItsAcquisitionReopensARow
    KeepsLiability
