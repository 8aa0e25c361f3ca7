SPECIFICATION Spec
CHECK_DEADLOCK FALSE
CONSTANTS
    Request = {q1, q2}
    MaxFaults = 0
    MaxCrashes = 0
    MaxJobs = 2
INVARIANTS
    OneEvaluationJob
