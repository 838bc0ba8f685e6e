--------------------------- MODULE CurriculumDuties ---------------------------
(***************************************************************************)
(* Programs, syllabi and course kits: the steps of people, from the        *)
(* routers of M01, M02 and M03.  Where a step starts a new version, the    *)
(* record followed from there on is the new one.                           *)
(***************************************************************************)
EXTENDS Duties

(* M01: an ADMIN or a DEAN writes, a DEAN decides.                         *)

WritesPrograms(p, S) == May(p, {"ADMIN", "DEAN"}) /\ Is("program", S)

CreateProgram(p) == WritesPrograms(p, {"NONE"}) /\ Starts(p, "DRAFT", p, {})

UpdateProgram(p) == WritesPrograms(p, {"DRAFT"}) /\ Handles(p, "DRAFT")

DeleteProgram(p) == WritesPrograms(p, {"DRAFT"}) /\ Removes

DispatchAiGeneration(p) ==
    WritesPrograms(p, {"DRAFT", "GENERATION_FAILED"}) /\ Handles(p, "GENERATING")

ProgramGenerated ==
    Is("program", {"GENERATING"}) /\ \E s \in {"PENDING_APPROVAL", "GENERATION_FAILED"} : Becomes(s)

DecidesPrograms(p) == May(p, {"DEAN"}) /\ Is("program", {"PENDING_APPROVAL"})

ApproveProgram(p) == DecidesPrograms(p) /\ Handles(p, "APPROVED")

RejectProgram(p) == DecidesPrograms(p) /\ Handles(p, "DRAFT")

ForkProgram(p) == WritesPrograms(p, {"APPROVED"}) /\ Starts(p, "DRAFT", p, {})

EditProgramOutcomes(p) == WritesPrograms(p, {"DRAFT"}) /\ Handles(p, stage)

\* Courses are still edited while the program waits for the decision.
EditCourses(p) == WritesPrograms(p, {"DRAFT", "PENDING_APPROVAL"}) /\ Handles(p, stage)

ProgramStep(p) ==
    \/ CreateProgram(p) \/ UpdateProgram(p) \/ DeleteProgram(p) \/ DispatchAiGeneration(p)
    \/ ApproveProgram(p) \/ RejectProgram(p) \/ ForkProgram(p)
    \/ EditProgramOutcomes(p) \/ EditCourses(p)

----------------------------------------------------------------------------
(* M02: an ADMIN or a FACULTY writes, a DEAN decides, locks and unlocks.   *)

WritesSyllabi(p, S) == May(p, {"ADMIN", "FACULTY"}) /\ Is("syllabus", S)

EditsSyllabi(p) == WritesSyllabi(p, {"DRAFT"}) /\ Handles(p, "DRAFT")

\* A FACULTY has the course by an assignment (Academics).
CreateSyllabus(p) == WritesSyllabi(p, {"NONE"}) /\ Starts(p, "DRAFT", p, {})

UpdateSyllabus(p) == EditsSyllabi(p)

DeleteSyllabus(p) == WritesSyllabi(p, {"DRAFT"}) /\ Removes

GenerateSyllabus(p) == WritesSyllabi(p, {"DRAFT"}) /\ Handles(p, "AI_GENERATING")

SyllabusGenerated == Is("syllabus", {"AI_GENERATING"}) /\ Becomes("DRAFT")

SubmitSyllabusForReview(p) == WritesSyllabi(p, {"DRAFT"}) /\ Handles(p, "PENDING_REVIEW")

DecidesSyllabi(p, S) == May(p, {"DEAN"}) /\ Is("syllabus", S)

ApproveSyllabus(p) == DecidesSyllabi(p, {"PENDING_REVIEW"}) /\ Handles(p, "DEAN_APPROVED")

\* The dean who rejects is the creator of the draft that follows.
RejectSyllabus(p) == DecidesSyllabi(p, {"PENDING_REVIEW"}) /\ Starts(p, "DRAFT", p, {})

LockSyllabus(p) == DecidesSyllabi(p, {"DEAN_APPROVED"}) /\ Handles(p, "DEAN_LOCKED")

UnlockSyllabus(p) == DecidesSyllabi(p, {"DEAN_LOCKED"}) /\ Handles(p, "DEAN_APPROVED")

ForkSyllabus(p) ==
    /\ WritesSyllabi(p, {"DRAFT", "PENDING_REVIEW", "DEAN_APPROVED", "DEAN_LOCKED"})
    /\ Starts(p, "DRAFT", p, {})

EditOutcomes(p) == EditsSyllabi(p)

EditMappings(p) == EditsSyllabi(p)

EditUnits(p) == EditsSyllabi(p)

EditReferences(p) == EditsSyllabi(p)

SyllabusStep(p) ==
    \/ CreateSyllabus(p) \/ UpdateSyllabus(p) \/ DeleteSyllabus(p) \/ GenerateSyllabus(p)
    \/ SubmitSyllabusForReview(p) \/ ApproveSyllabus(p) \/ RejectSyllabus(p)
    \/ LockSyllabus(p) \/ UnlockSyllabus(p) \/ ForkSyllabus(p)
    \/ EditOutcomes(p) \/ EditMappings(p) \/ EditUnits(p) \/ EditReferences(p)

----------------------------------------------------------------------------
(* M03: an ADMIN or a FACULTY does everything.                             *)

WritesKits(p, S) == May(p, {"ADMIN", "FACULTY"}) /\ Is("kit", S)

EditsKits(p) == WritesKits(p, {"DRAFT"}) /\ Handles(p, "DRAFT")

CreateKit(p) == WritesKits(p, {"NONE"}) /\ Starts(p, "DRAFT", p, {})

UpdateKit(p) == EditsKits(p)

DeleteKit(p) == WritesKits(p, {"DRAFT"}) /\ Removes

GenerateKit(p) == WritesKits(p, {"DRAFT"}) /\ Handles(p, "AI_GENERATING")

KitGenerated == Is("kit", {"AI_GENERATING"}) /\ Becomes("DRAFT")

PublishKit(p) == WritesKits(p, {"DRAFT"}) /\ Handles(p, "PUBLISHED")

ArchiveKit(p) == WritesKits(p, {"PUBLISHED"}) /\ Handles(p, "ARCHIVED")

ForkKit(p) == WritesKits(p, {"DRAFT", "PUBLISHED", "ARCHIVED"}) /\ Starts(p, "DRAFT", p, {})

EditSlides(p) == EditsKits(p)

EditQuizlets(p) == EditsKits(p)

EditAssignments(p) == EditsKits(p)

KitStep(p) ==
    \/ CreateKit(p) \/ UpdateKit(p) \/ DeleteKit(p) \/ GenerateKit(p) \/ PublishKit(p)
    \/ ArchiveKit(p) \/ ForkKit(p) \/ EditSlides(p) \/ EditQuizlets(p) \/ EditAssignments(p)

CurriculumStep ==
    \/ \E p \in People : ProgramStep(p) \/ SyllabusStep(p) \/ KitStep(p)
    \/ ProgramGenerated \/ SyllabusGenerated \/ KitGenerated
=============================================================================
