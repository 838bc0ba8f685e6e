\* Liveness: one request at a time, two dispatches, one fault.
SPECIFICATION FairSpec
CONSTANTS
    Reqs = {r1}
    Workers = {w1}
    Jobs = {j1, j2}
    NoJob = NoJob
    MaxRetries = 1
    MaxFaults = 1
PROPERTIES
    GenerationSettles
CHECK_DEADLOCK FALSE
