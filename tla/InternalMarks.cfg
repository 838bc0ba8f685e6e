\* Two overlapping requests on two components of 0..1, two maxima.
SPECIFICATION Spec
CONSTANTS
    Reqs = {r1, r2}
    Parts = {p1, p2}
    MaxMark = 1
    Maxima = {1, 2}
    NoMark = NoMark
INVARIANTS
    TypeOK
    TotalWasValid
PROPERTIES
    LockedImmutable
CHECK_DEADLOCK FALSE
