\* Liveness: one request at a time, two workers, two faults.
SPECIFICATION FairSpec
CONSTANTS
    Reqs = {r1}
    Workers = {w1, w2}
    Questions = {q1}
    Users = {}
    NoUser = NoUser
    NoQuestion = NoQuestion
    NoMsg = NoMsg
    MaxVer = 1
    MaxTime = 2
    MaxFaults = 2
PROPERTIES
    QueuedWorkEnds
CHECK_DEADLOCK FALSE
