----------------------------- MODULE MCCurriculum -----------------------------
(***************************************************************************)
(* The components with one AI task each and a human after it, in one run:  *)
(* syllabi, course kits, learning packages, lab submissions, research      *)
(* documents and vivas; a question to the AI providers, and the files of   *)
(* uploads and exports, by themselves.                                     *)
(* They share no row, so a behaviour is one of one component: the union of *)
(* their state spaces, not the product.                                    *)
(***************************************************************************)
EXTENDS Syllabus, CourseKit, LearningPackage, LabSubmission, ResearchDocument, VivaSession,
        AiAnswers, Exports

VARIABLE component

package == <<pkg, mixed>>
lab == <<asg, sub>>
research == <<problem, doc, refiled>>
vivas == <<viva, reopened>>

curriculum == <<component, syl, kit, package, lab, research, vivas, ask, files, backend>>

Init ==
    /\ component \in {"syllabus", "kit", "package", "lab", "research", "viva", "answers", "uploads", "exports"}
    /\ SyllabusInit /\ KitInit /\ PackageInit /\ LabInit /\ ResearchInit /\ VivaInit /\ AskInit
    /\ ExportsInit

Next ==
    /\ UNCHANGED component
    /\ \/ component = "syllabus" /\ SyllabusNext /\ UNCHANGED <<kit, package, lab, research, vivas, ask, files>>
       \/ component = "kit" /\ KitNext /\ UNCHANGED <<syl, package, lab, research, vivas, ask, files>>
       \/ component = "package" /\ PackageNext /\ UNCHANGED <<syl, kit, lab, research, vivas, ask, files>>
       \/ component = "lab" /\ LabNext /\ UNCHANGED <<syl, kit, package, research, vivas, ask, files>>
       \/ component = "research" /\ ResearchNext /\ UNCHANGED <<syl, kit, package, lab, vivas, ask, files>>
       \/ component = "viva" /\ VivaNext /\ UNCHANGED <<syl, kit, package, lab, research, ask, files>>
       \/ component = "answers" /\ AskNext /\ UNCHANGED <<syl, kit, package, lab, research, vivas, files>>
       \/ component = "uploads" /\ UploadsNext /\ UNCHANGED <<syl, kit, package, lab, research, vivas, ask>>
       \/ component = "exports" /\ ExportsNext /\ UNCHANGED <<syl, kit, package, lab, research, vivas, ask>>

\* The fairness of the components, of which a behaviour has one.
Work(w) ==
    /\ \/ component = "syllabus" /\ SyllabusTask(w)
       \/ component = "kit" /\ KitTask(w)
       \/ component = "lab" /\ LabTask(w)
       \/ component = "research" /\ ResearchTask(w)
       \/ component = "viva" /\ VivaTask(w)
       \/ component = "exports" /\ ExportTask(w)
    /\ UNCHANGED <<req, raced>>

TakeUp(m) ==
    \E w \in Workers :
        /\ \/ component = "syllabus" /\ StartGeneration(w, m)
           \/ component = "kit" /\ StartKit(w, m)
        /\ UNCHANGED <<req, raced>>

Spec ==
    /\ Init /\ [][Next]_curriculum
    /\ EnvironmentFairness
    /\ \A w \in Workers : WF_backend(Work(w))
    /\ \A m \in Slots : SF_backend(TakeUp(m))
    /\ WF_files(component = "exports" /\ Sweep)

----------------------------------------------------------------------------
\* Every component keeps the types of its rows, requests, messages and tasks.
TypeOK ==
    CASE component = "syllabus" -> SyllabusTypeOK
      [] component = "kit" -> KitTypeOK
      [] component = "package" -> PackageTypeOK
      [] component = "lab" -> LabTypeOK
      [] component = "research" -> ResearchTypeOK
      [] component = "viva" -> VivaTypeOK
      [] component = "answers" -> AskTypeOK
      [] component \in {"uploads", "exports"} -> ExportsTypeOK

\* Rows that are written by different requests and tasks agree: the versions of a
\* syllabus are in order, a unit has one published kit, a package counts its items, the
\* object store, the asset rows and the jobs agree on a file.
RowsAgree == VersionsOrdered /\ OnePublishedKit /\ ItemCountRight /\ FilesAgree

\* What was decided on is what was evaluated: the lab scores of the ledger, the
\* file of a document, the answers of a viva.
DecisionsHold == GradesAgree /\ ApprovedFileEvaluated /\ VivaJudgedWhole

\* Refinement: syllabi, kits and packages follow DocumentContract.
KeepContracts == SyllabusKeepsContract /\ KitKeepsContract /\ PackageKeepsContract

\* No task undoes what a human did: edits of a syllabus, grades of a lab, the
\* approval of a document and the ratification of a viva.
HumanWorkStands == EditsStay /\ GradesStand /\ ApprovalStands /\ RatifiedStays

\* What waits for its task: a syllabus or kit that is generated, a submission or
\* document that is evaluated, a viva whose recording is processed.
Pending(d) ==
    \/ component = "syllabus" /\ d \in Syllabi /\ syl[d].status = "AI_GENERATING"
    \/ component = "kit" /\ d \in Kits /\ kit[d].status = "AI_GENERATING"
    \/ component = "lab" /\ d \in Submissions /\ sub[d].status = "EVALUATING"
    \/ component = "research" /\ d \in Documents /\ doc[d].status = "EVALUATING"
    \/ component = "viva" /\ d \in Vivas /\ viva[d].status = "ASR_PROCESSING"

\* Nothing is left AI_GENERATING, EVALUATING or ASR_PROCESSING, unless its
\* message was lost on the way or a failure was not recorded: the dispatched
\* task ends in a commit or in the reset of the except branch, through retries,
\* crashes and redeliveries.  An export's job ends in any case, the sweep sees to it.
GenerationSettles ==
    /\ \A d \in Syllabi \cup Kits \cup Submissions \cup Documents \cup Vivas :
          Pending(d) ~> (~Pending(d) \/ d \in lost)
    /\ \A j \in ExportJobs : job[j].status \in Live ~> job[j].status \notin Live
=============================================================================
