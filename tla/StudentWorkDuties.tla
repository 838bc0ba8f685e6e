-------------------------- MODULE StudentWorkDuties --------------------------
(***************************************************************************)
(* What a student hands in: a lab submission (M06), and a research problem *)
(* with its document and its viva (M07), followed one after the other.     *)
(***************************************************************************)
EXTENDS Duties

Teachers == {"ADMIN", "FACULTY"}

(* M06: the assignment of a lab, its evaluators and one submission.        *)

EditsLab(p, S) == May(p, Teachers) /\ Is("lab", S)

CreateLab(p) == EditsLab(p, {"NONE"}) /\ Starts(p, "DRAFT", p, {})

UpdateLab(p) == EditsLab(p, {"DRAFT"}) /\ Handles(p, "DRAFT")

PublishLab(p) == EditsLab(p, {"DRAFT"}) /\ Handles(p, "PUBLISHED")

CloseLab(p) == EditsLab(p, {"PUBLISHED"}) /\ Handles(p, "CLOSED")

Handed == {"SUBMITTED", "EVALUATED", "REVIEWED", "RATIFIED"}

AnyLab == {"DRAFT", "PUBLISHED", "CLOSED"} \cup Handed

\* Nobody asks what role the evaluator has.
AssignLabEvaluator(p, e) == EditsLab(p, AnyLab) /\ e \notin given /\ Gives(given \cup {e})

RemoveLabEvaluator(p, e) == EditsLab(p, AnyLab) /\ e \in given /\ Gives(given \ {e})

\* From here on the record is the submission.
SubmitLab(p) ==
    /\ May(p, {"STUDENT"}) /\ Is("lab", {"PUBLISHED"})
    /\ Starts(p, "SUBMITTED", p, given)

LabEvaluated == Is("lab", {"SUBMITTED"}) /\ Becomes("EVALUATED")

\* To look at an evaluated submission is to mark it REVIEWED.
OpenReviewPanel(p) ==
    /\ May(p, Teachers \cup {"DEAN"}) /\ Is("lab", {"EVALUATED"})
    /\ Becomes("REVIEWED")

\* The scope of the evaluator is asked for after that mark is committed.
EvaluatorReviewPanel(p) ==
    May(p, {"EVALUATOR"}) /\ Is("lab", {"EVALUATED"}) /\ Becomes("REVIEWED")

UpdateScores(p) == EditsLab(p, {"EVALUATED", "REVIEWED"}) /\ Handles(p, stage)

RecommendScores(p) ==
    /\ May(p, {"EVALUATOR"}) /\ Is("lab", {"EVALUATED", "REVIEWED"})
    /\ p \in given
    /\ Handles(p, stage)

RatifySubmission(p) == EditsLab(p, {"EVALUATED", "REVIEWED"}) /\ Handles(p, "RATIFIED")

LabStep(p) ==
    \/ CreateLab(p) \/ UpdateLab(p) \/ PublishLab(p) \/ CloseLab(p) \/ SubmitLab(p)
    \/ \E e \in People : AssignLabEvaluator(p, e) \/ RemoveLabEvaluator(p, e)
    \/ OpenReviewPanel(p) \/ EvaluatorReviewPanel(p) \/ UpdateScores(p)
    \/ RecommendScores(p) \/ RatifySubmission(p)

----------------------------------------------------------------------------
(* M07: owner is the guide, given the student.                             *)

Documented == {"DOC_SUBMITTED", "DOC_EVALUATED", "DOC_REVISION_REQUESTED", "DOC_APPROVED"}

\* The sessions with the student's consent, or conducted by the guide.
Consented == {"IN_PROGRESS", "COMPLETED", "VIVA_EVALUATED", "GUIDE_RATIFIED"}

Guides(p, S) ==
    May(p, {"ADMIN", "FACULTY", "GUIDE"}) /\ Is("research", S) /\ owner = p

IsStudentOf(p, S) == May(p, {"STUDENT"}) /\ Is("research", S) /\ p \in given

\* The person named as the guide is a GUIDE when the proposal is made.
SubmitProposal(p, g) ==
    /\ May(p, {"STUDENT"}) /\ Is("research", {"NONE"})
    /\ office[g] = "GUIDE"
    /\ Starts(p, "PENDING_REVIEW", g, {p})

\* A problem of the guide's own has no student, and no step leads out of DRAFT.
StoreAiProblem(p) ==
    /\ May(p, {"ADMIN", "FACULTY", "GUIDE"}) /\ Is("research", {"NONE"})
    /\ Starts(p, "DRAFT", p, {})

DecideProblem(p, s) == Guides(p, {"PENDING_REVIEW", "REVISION_REQUESTED"}) /\ Handles(p, s)

SubmitResearchDocument(p) ==
    IsStudentOf(p, {"ACCEPTED"} \cup Documented) /\ Handles(p, "DOC_SUBMITTED")

\* Whatever the status of the document is.
SetFileUrl(p) == IsStudentOf(p, Documented) /\ Handles(p, "DOC_SUBMITTED")

DocumentEvaluated == Is("research", {"DOC_SUBMITTED"}) /\ Becomes("DOC_EVALUATED")

ReviewResearchDocument(p, s) == Guides(p, {"DOC_EVALUATED"}) /\ Handles(p, s)

ScheduleViva(p) == Guides(p, {"DOC_APPROVED"}) /\ Handles(p, "SCHEDULED")

\* Whatever the status of the session is.
ConsentToViva(p) == IsStudentOf(p, Consented \cup {"SCHEDULED"}) /\ Handles(p, "IN_PROGRESS")

RespondInViva(p) == IsStudentOf(p, {"SCHEDULED", "IN_PROGRESS"}) /\ Handles(p, stage)

CompleteViva(p) == IsStudentOf(p, Consented) /\ Handles(p, "COMPLETED")

ConductViva(p) == Guides(p, {"SCHEDULED"}) /\ Handles(p, "COMPLETED")

VivaEvaluated == Is("research", {"COMPLETED"}) /\ Becomes("VIVA_EVALUATED")

RatifyVivaSession(p) == Guides(p, {"VIVA_EVALUATED"}) /\ Handles(p, "GUIDE_RATIFIED")

ResearchStep(p) ==
    \/ \E g \in People : SubmitProposal(p, g)
    \/ StoreAiProblem(p)
    \/ \E s \in {"ACCEPTED", "REVISION_REQUESTED", "REJECTED"} : DecideProblem(p, s)
    \/ SubmitResearchDocument(p) \/ SetFileUrl(p)
    \/ \E s \in {"DOC_APPROVED", "DOC_REVISION_REQUESTED"} : ReviewResearchDocument(p, s)
    \/ ScheduleViva(p) \/ ConsentToViva(p) \/ RespondInViva(p) \/ CompleteViva(p)
    \/ ConductViva(p) \/ RatifyVivaSession(p)

StudentWorkStep ==
    \/ \E p \in People : LabStep(p) \/ ResearchStep(p)
    \/ LabEvaluated \/ DocumentEvaluated \/ VivaEvaluated
=============================================================================
