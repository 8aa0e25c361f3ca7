SPECIFICATION FairSpec
CHECK_DEADLOCK FALSE
CONSTANTS
    Request = {q1}
    MaxFaults = 1
    MaxCrashes = 1
    MaxJobs = 2
INVARIANTS
    TerminatedIsOver
    HibernatedIsNotBilled
    OneEvaluation
PROPERTIES
    SandboxEndsGone
    KeepsSessionBook
