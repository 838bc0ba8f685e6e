\* Two overlapping requests, one worker, two questions marked 0 or 1, one fault.
SPECIFICATION Spec
CONSTANTS
    Reqs = {r1, r2}
    Workers = {w1}
    Users = {u1}
    Questions = {q1, q2}
    MaxMark = 1
    NoMark = NoMark
    MaxFaults = 1
SYMMETRY Symmetry
INVARIANTS
    TypeOK
    GatedComplete
PROPERTIES
    LedgerOnce
    SubmittedStays
CHECK_DEADLOCK FALSE
