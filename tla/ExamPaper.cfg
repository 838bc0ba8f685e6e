\* Two overlapping requests, one worker, one fault.
SPECIFICATION Spec
CONSTANTS
    Reqs = {r1, r2}
    Workers = {w1}
    Questions = {q1, q2}
    Users = {u1}
    NoUser = NoUser
    NoQuestion = NoQuestion
    NoMsg = NoMsg
    MaxVer = 1
    MaxTime = 1
    MaxFaults = 1
SYMMETRY Symmetry
INVARIANTS
    TypeOK
    HumanGates
    PaperSound
PROPERTIES
    FollowsLifecycle
CHECK_DEADLOCK FALSE
