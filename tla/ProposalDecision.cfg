\* A proposal whose evaluation is still queued when the guide decides.
SPECIFICATION ResearchSpec
CONSTANTS
    Reqs = {r1, r2}
    Workers = {w1}
    Slots = {m1}
    None = None
    MaxRetries = 1
    MaxFaults = 1
    Documents = {1}
    MaxFiles = 1
PROPERTIES
    DecisionStands
CHECK_DEADLOCK FALSE
