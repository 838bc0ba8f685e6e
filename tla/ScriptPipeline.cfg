\* Liveness: one request at a time, two workers, one question, two faults.
SPECIFICATION FairSpec
CONSTANTS
    Reqs = {r1}
    Workers = {w1, w2}
    Users = {u1}
    Questions = {q1}
    MaxMark = 0
    NoMark = NoMark
    MaxFaults = 2
PROPERTIES
    PipelineEnds
CHECK_DEADLOCK FALSE
