\* Two requests on the declaration, which overlap while it has no rows, one on its
\* one component, two grace entries.
SPECIFICATION Spec
CONSTANTS
    MarksReqs = {m1}
    Courses = {k1}
    Names = {n1}
    MaxMark = 2
    MarkValues = {1}
    NoMark = NoMark
    NoComp = NoComp
    Reqs = {r1, r2}
    RowsRace = FALSE
    Logs = {l1, l2}
    PassPercent = 60
    Absent = Absent
    NoRow = NoRow
    NoCourse = NoCourse
    NoLog = NoLog
SYMMETRY Symmetry
INVARIANTS
    TypeOK
    ResultGates
    ResultsAgree
PROPERTIES
    LockedIsFinal
    LockedMarksStay
CHECK_DEADLOCK FALSE
