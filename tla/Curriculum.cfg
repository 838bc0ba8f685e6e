\* Two overlapping requests, one worker, one message and one failure at a time;
\* two versions of a syllabus and of a kit, one package with two faculty notes,
\* two submissions, two research documents, one viva; AI answers of up to three
\* slides and two or three other items; one export, of up to three runs, and one upload.
SPECIFICATION Spec
CONSTANTS
    Reqs = {r1, r2}
    Workers = {w1}
    Slots = {m1}
    None = None
    MaxRetries = 1
    MaxFaults = 1
    Syllabi = {1, 2}
    Kits = {1, 2}
    Packages = {1}
    Notes = {n1, n2}
    Students = {s1}
    Submissions = {1, 2}
    MaxRubric = 2
    Documents = {1, 2}
    MaxFiles = 2
    Vivas = {1}
    Questions = {q1}
    MaxSlides = 3
    MaxItems = 2
    MinParts = 4
    MaxMark = 2
    MaxScored = 3
    ExportJobs = {j1}
    Uploads = {u1}
    ExportKeys = {1, 2, 3}
INVARIANTS
    TypeOK
    ReviewedIsCompliant
    RowsAgree
    DecisionsHold
    AnswersFit
PROPERTIES
    KeepContracts
    HumanWorkStands
    GenerationSettles
CHECK_DEADLOCK FALSE
