\* Two overlapping requests and one failure or overlap at a time; three semesters
\* with one section each, two students, a window of two ticks, a file of three rows, two
\* people at the gates; two addresses, one identifier and a file of two rows of accounts.
SPECIFICATION Spec
CONSTANTS
    Reqs = {r1, r2}
    Workers = {w1}
    Slots = {m1}
    None = None
    MaxRetries = 1
    MaxFaults = 1
    Tenants = {t1, t2}
    Semesters = {1, 2, 3}
    Names = {A}
    Faculties = {f1, f2}
    MaxChanges = 2
    Students = {s1, s2}
    Attendees = {a1, a2}
    Window = 2
    MaxNow = 3
    Profiles = {1, 2, 3}
    Usns = {u1, u2}
    People = {p1, p2}
    NoOne = NoOne
    Boxes = {b1, b2}
    Identifiers = {i1}
    MaxRows = 2
INVARIANTS
    TypeOK
    TenantUsable
    HierarchySound
    SavesInWindow
    ImportsComplete
    TwoPeople
    SchemaAgrees
PROPERTIES
    PromotedOnce
SYMMETRY Symmetry
CHECK_DEADLOCK FALSE
