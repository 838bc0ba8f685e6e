------------------------------ MODULE ExamDuties ------------------------------
(***************************************************************************)
(* Exam papers and internal marks (M08), scanned scripts (M09), marks      *)
(* components and results (M11): the steps of people.                      *)
(***************************************************************************)
EXTENDS Duties

(* M08: papers of the BOARD_EXAM and of the INTERNAL workflow.             *)

Papers == {"board_paper", "internal_paper"}

Unsubmitted == {"GENERATED", "BOARD_RETURNED"}

IsPaper(S) == kind \in Papers /\ stage \in S

SetsPapers(p, S) == May(p, {"ADMIN", "FACULTY"}) /\ IsPaper(S)

BoardOf(p, S) == May(p, {"BOARD", "ADMIN"}) /\ IsPaper(S)

CreateExamPaper(p) ==
    May(p, {"ADMIN", "FACULTY", "BOARD"}) /\ IsPaper({"NONE"}) /\ Starts(p, "GENERATING", p, {})

PaperGenerated == IsPaper({"GENERATING"}) /\ \E s \in {"GENERATED", "FAILED"} : Becomes(s)

\* Any teacher edits, deletes and regenerates, not the creator only.
EditQuestion(p) == SetsPapers(p, Unsubmitted) /\ Handles(p, stage)

DeleteQuestion(p) == EditQuestion(p)

RegenerateQuestion(p) == EditQuestion(p)

\* Submitting, approving and the sections are the creator's.
ConfigureSections(p) ==
    SetsPapers(p, {"DRAFT"} \cup Unsubmitted) /\ owner = p /\ Handles(p, stage)

SubmitPaper(p) ==
    SetsPapers(p, Unsubmitted) /\ kind = "board_paper" /\ owner = p /\ Handles(p, "SUBMITTED")

FacultyApprove(p) ==
    SetsPapers(p, Unsubmitted) /\ kind = "internal_paper" /\ owner = p /\ Handles(p, "BOARD_APPROVED")

BoardDecision(p, s) == BoardOf(p, {"SUBMITTED"}) /\ Handles(p, s)

\* Whoever it is: the creator of the paper is not refused.
AssignScrutinizer(p, u) == BoardOf(p, {"SUBMITTED"}) /\ kind = "board_paper" /\ Gives({u})

Scrutinize(p, s) == SetsPapers(p, {"SUBMITTED"}) /\ p \in given /\ Handles(p, s)

\* An INTERNAL paper too: the header of the router says that its faculty seals it, the
\* role table of the endpoint that the board does.
SealPaper(p) == BoardOf(p, {"BOARD_APPROVED"}) /\ Handles(p, "SEALED")

ReleasePaper(p) == BoardOf(p, {"SEALED"}) /\ Handles(p, "RELEASED")

ReleaseOnTime == IsPaper({"SEALED"}) /\ Becomes("RELEASED")

PaperStep(p) ==
    \/ CreateExamPaper(p) \/ EditQuestion(p) \/ DeleteQuestion(p) \/ RegenerateQuestion(p)
    \/ ConfigureSections(p) \/ SubmitPaper(p) \/ FacultyApprove(p)
    \/ \E s \in {"BOARD_APPROVED", "BOARD_RETURNED"} : BoardDecision(p, s)
    \/ \E u \in People : AssignScrutinizer(p, u)
    \/ \E s \in {"SUBMITTED", "BOARD_RETURNED"} : Scrutinize(p, s)
    \/ SealPaper(p) \/ ReleasePaper(p)

----------------------------------------------------------------------------
(* M08: the internal marks of a student.                                   *)

EntersMarks(p, S) == May(p, {"ADMIN", "FACULTY"}) /\ Is("marks", S)

\* A record that is there already is updated.
CreateInternalMarks(p) ==
    \/ EntersMarks(p, {"NONE"}) /\ Starts(p, "PENDING", p, {})
    \/ EntersMarks(p, {"PENDING", "FACULTY_SUBMITTED"}) /\ Handles(p, stage)

UpdateInternalMarks(p) == EntersMarks(p, {"PENDING", "FACULTY_SUBMITTED"}) /\ Handles(p, stage)

SubmitInternalMarks(p) == EntersMarks(p, {"PENDING"}) /\ Handles(p, "FACULTY_SUBMITTED")

\* Mutant: the lock asks for the roles of the submission.
LockInternalMarksMutant(p) == EntersMarks(p, {"FACULTY_SUBMITTED"}) /\ Handles(p, "DEAN_LOCKED")

LockInternalMarks(p) ==
    May(p, {"DEAN", "ADMIN"}) /\ Is("marks", {"FACULTY_SUBMITTED"}) /\ Handles(p, "DEAN_LOCKED")

----------------------------------------------------------------------------
(* M09: a scanned script; given is its evaluators.                         *)

Reviewable == {"SCORED", "REVIEW_REQUIRED"}

Unfinished == {"PENDING", "QUALITY_FAILED", "FAILED", "MARKS_SUBMITTED"} \cup Reviewable

UploadScript(p) == May(p, {"ADMIN", "BOARD"}) /\ Is("script", {"NONE"}) /\ Starts(p, "PENDING", p, {})

ScriptProcessed ==
    Is("script", {"PENDING"}) /\ \E s \in {"QUALITY_FAILED", "FAILED"} \cup Reviewable : Becomes(s)

OverrideQualityFailed(p) ==
    May(p, {"ADMIN"}) /\ Is("script", {"QUALITY_FAILED"}) /\ Handles(p, "PENDING")

\* One evaluator and perhaps a second, of any role, until the board is done.
AssignScriptEvaluators(p, e, f) ==
    May(p, {"ADMIN", "BOARD"}) /\ Is("script", Unfinished) /\ Gives({e, f})

Evaluates(p) == May(p, {"ADMIN", "FACULTY"}) /\ Is("script", Reviewable)

\* Marks are anybody's to enter, and the evaluators' to submit.
UpdateMarks(p) == Evaluates(p) /\ Handles(p, stage)

AcceptSuggestions(p) == Evaluates(p) /\ Handles(p, stage)

SubmitScriptMarks(p) == Evaluates(p) /\ p \in given /\ Handles(p, "MARKS_SUBMITTED")

BoardFinalise(p) ==
    May(p, {"BOARD", "ADMIN"}) /\ Is("script", {"MARKS_SUBMITTED"}) /\ Handles(p, "BOARD_FINALISED")

----------------------------------------------------------------------------
(* M11: a component of internal marks.                                     *)

\* created_by is asked of a FACULTY only, and nobody else of the tenant passes.
OwnsComponent(p, S) ==
    /\ May(p, {"FACULTY"}) /\ Is("component", S)
    /\ office[p] = "FACULTY" => owner = p

CreateComponent(p) == May(p, {"FACULTY"}) /\ Is("component", {"NONE"}) /\ Starts(p, "DRAFT", p, {})

UpdateComponent(p) == OwnsComponent(p, {"DRAFT"}) /\ Handles(p, "DRAFT")

DeleteComponent(p) == OwnsComponent(p, {"DRAFT"}) /\ Removes

PublishComponent(p) == OwnsComponent(p, {"DRAFT"}) /\ Handles(p, "PUBLISHED")

EntersEntries(p) == OwnsComponent(p, {"DRAFT", "PUBLISHED"}) /\ Handles(p, stage)

BulkEnterMarks(p) == EntersEntries(p)

EditEntry(p) == EntersEntries(p)

ImportCommit(p) == EntersEntries(p)

ManagesComponent(p, S) == May(p, {"ADMIN", "DEAN"}) /\ Is("component", S)

LockComponent(p) == ManagesComponent(p, {"PUBLISHED"}) /\ Handles(p, "LOCKED")

ReopenComponent(p) == ManagesComponent(p, {"LOCKED"}) /\ Handles(p, "PUBLISHED")

----------------------------------------------------------------------------
(* M11: the declaration of results.                                        *)

Manages(p, S) == May(p, {"ADMIN", "DEAN"}) /\ Is("results", S)

Deans(p, S) == May(p, {"DEAN"}) /\ Is("results", S)

Open == {"DRAFT", "VERIFIED", "PUBLISHED"}

CreateDeclaration(p) == Manages(p, {"NONE"}) /\ Starts(p, "DRAFT", p, {})

UpdateDeclaration(p) == Manages(p, {"DRAFT"}) /\ Handles(p, "DRAFT")

DeleteDeclaration(p) == Manages(p, {"DRAFT"}) /\ Removes

EnterExternalMarks(p) == Manages(p, Open) /\ Handles(p, stage)

ComputeResults(p) == Manages(p, Open) /\ Handles(p, stage)

\* These two ask for rows to work on, and for no status.
ComputeSgpaCgpa(p) == Manages(p, Open \cup {"LOCKED"}) /\ Handles(p, stage)

ComputeRanks(p) == Manages(p, Open \cup {"LOCKED"}) /\ Handles(p, stage)

ApplyGrace(p) == Deans(p, {"DRAFT", "VERIFIED"}) /\ Handles(p, stage)

RevokeGrace(p) == Deans(p, {"DRAFT", "VERIFIED"}) /\ Handles(p, stage)

VerifyDeclaration(p) == Deans(p, {"DRAFT"}) /\ Handles(p, "VERIFIED")

RevertToDraft(p) == Manages(p, {"VERIFIED"}) /\ Handles(p, "DRAFT")

PublishDeclaration(p) == Manages(p, {"VERIFIED"}) /\ Handles(p, "PUBLISHED")

LockDeclaration(p) == May(p, {"ADMIN"}) /\ Is("results", {"PUBLISHED"}) /\ Handles(p, "LOCKED")

----------------------------------------------------------------------------
MarksStep(p) ==
    \/ CreateInternalMarks(p) \/ UpdateInternalMarks(p)
    \/ SubmitInternalMarks(p) \/ LockInternalMarks(p)

ScriptStep(p) ==
    \/ UploadScript(p) \/ OverrideQualityFailed(p)
    \/ \E e, f \in People : AssignScriptEvaluators(p, e, f)
    \/ UpdateMarks(p) \/ AcceptSuggestions(p) \/ SubmitScriptMarks(p) \/ BoardFinalise(p)

ComponentStep(p) ==
    \/ CreateComponent(p) \/ UpdateComponent(p) \/ DeleteComponent(p) \/ PublishComponent(p)
    \/ BulkEnterMarks(p) \/ EditEntry(p) \/ ImportCommit(p)
    \/ LockComponent(p) \/ ReopenComponent(p)

DeclarationStep(p) ==
    \/ CreateDeclaration(p) \/ UpdateDeclaration(p) \/ DeleteDeclaration(p)
    \/ EnterExternalMarks(p) \/ ComputeResults(p) \/ ComputeSgpaCgpa(p) \/ ComputeRanks(p)
    \/ ApplyGrace(p) \/ RevokeGrace(p) \/ VerifyDeclaration(p) \/ RevertToDraft(p)
    \/ PublishDeclaration(p) \/ LockDeclaration(p)

ExamStep ==
    \/ \E p \in People :
          PaperStep(p) \/ MarksStep(p) \/ ScriptStep(p) \/ ComponentStep(p) \/ DeclarationStep(p)
    \/ PaperGenerated \/ ReleaseOnTime \/ ScriptProcessed
=============================================================================
