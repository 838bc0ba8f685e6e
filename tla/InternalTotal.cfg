\* One request at a time: edits between submission and lock.
SPECIFICATION Spec
CONSTANTS
    Reqs = {r1}
    Parts = {p1, p2}
    MaxMark = 1
    Maxima = {2}
    NoMark = NoMark
INVARIANTS
    LockedTotalIsSum
CHECK_DEADLOCK FALSE
