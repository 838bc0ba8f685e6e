\* Two requests, two workers, two dispatches, one fault.
SPECIFICATION Spec
CONSTANTS
    Reqs = {r1, r2}
    Workers = {w1, w2}
    Jobs = {j1, j2}
    NoJob = NoJob
    MaxRetries = 0
    MaxFaults = 1
SYMMETRY Symmetry
INVARIANTS
    TypeOK
    Recoverable
    SuccessMeansCommitted
    ApprovedIsCompliant
PROPERTIES
    ApprovedStays
CHECK_DEADLOCK FALSE
