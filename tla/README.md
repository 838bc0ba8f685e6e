# Vidya: a verification project

TLA+ models of the academic workflows of Vidya, the TLC runs that check them on
small instances, and TLAPS proofs of the properties that matter most. Paths are
relative to `src/backend/app/` unless they start with `src/`. Line ranges of every
definition are in `PROJECT.json` under `map`.

## 1. The system

Vidya is a multi-tenant FastAPI application over PostgreSQL (one schema per
tenant) with Celery workers on Redis. Each academic module is a service class
over a repository, called by a router; long work (AI generation, OCR, scoring,
release, export) is a Celery task. The recurring rule is "AI advises, humans
decide": tasks move a record up to a gate, and only people move it through.

| Component | State it keeps | Operations | Modelled in |
|---|---|---|---|
| M01 program advisor (`modules/m01_program_advisor`, `workers/heavy/program_structure.py`) | `programs` and its courses | dispatch, generate, approve, reject, edit, delete (fork is in `CurriculumDuties` only) | `ProgramGeneration` |
| M02 syllabus (`modules/m02_syllabus`, `workers/heavy/syllabus_generation.py`) | `syllabi` with outcomes, mappings, units | create, edit, delete, generate, submit, approve, reject, lock, unlock, fork | `Syllabus` |
| M03 course kit (`modules/m03_course_kit`, `workers/heavy/course_kit_generation.py`) | `course_kits` with slides, quizlets, assignments | create, edit, delete, generate, publish, archive, fork | `CourseKit` |
| M05 learning materials (`modules/m05_learning_materials`, `workers/heavy/curate_learning_package.py`) | `learning_packages`, their items, the index | curate, index, add and remove items, mark as outdated | `LearningPackage` |
| M06 labs (`modules/m06_labs_evaluator`, `workers/heavy/evaluate_lab_submission.py`) | assignments, submissions, evaluations, grade ledger | create to close, submit, evaluate, review, scores, ratify | `LabSubmission` |
| M07 research (`modules/m07_research_supervision`, three tasks) | problems, documents, viva sessions | propose, decide, submit, review; schedule, consent, respond, complete, conduct, ratify | `ResearchDocument`, `VivaSession` |
| M08 exam papers (`modules/m08_exam_setter`, three tasks) | `exam_papers`, `exam_questions`, `question_bank` | create, edit, delete, regenerate, submit, board decision, faculty approval, scrutiny, seal, forced and timed release | `ExamPaper` |
| M08 internal marks (same service) | `internal_marks_summary` | create or update, update, submit, lock | `InternalMarks` |
| M09 paper admin (`modules/m09_paper_admin`, three tasks) | `scanned_scripts`, `script_evaluations`, `exam_score_ledger` | ingest, assign, quality override, three tasks, marks, accept suggestions, submit, finalise | `PaperAdmin`, `ScoreLedger` |
| M11 marks components (`modules/m11_sis/marks_*.py`) | `sis_marks_components`, `sis_marks_entries` | create, publish, lock, reopen, delete, enter marks | `MarksComponent` |
| M11 results (`modules/m11_sis/results_*.py`) | declarations, external marks, subject and semester results, grace log | create, update, verify, publish, lock, revert, delete, external marks, compute, grace, revoke, SGPA | `ResultDeclaration` |
| M11 attendance (`modules/m11_sis/attendance_*.py`) | sessions and records | create, mark, edit, reopen, with the edit window | `Attendance` |
| M11 enrollment, rollover, directory | one enrollment per student; profiles | enroll, unenroll, move, rollover; upsert, import | `Enrollment`, `StudentDirectory` |
| Academics (`modules/m_academics`) | batches, semesters, sections, faculty assignments | create, deactivate, reactivate, assign, revoke | `Academics` |
| Tenants (`core/tenants`) | `tenants`, their schemas and administrators | provision, retry, change of status, delete, restore | `TenantProvisioning` |
| Onboarding (`core/onboarding`, `core/auth`) | `users` | generate, import, create and update by hand | `Onboarding` |
| Roles (`core/auth`, every router) | the role of a user | `require_roles` and what services ask for besides | `Duties`, `CurriculumDuties`, `StudentWorkDuties`, `ExamDuties`, `Gatekeepers` |
| AI providers (`ai_provider.py` of M01 to M03, the services and tasks of the others) | none | the chain of providers, reading and repairing an answer, what stands in for one | `DraftAnswers`, `ScoreAnswers`, `AiAnswers` |
| Storage and exports (`core/storage`, three export tasks) | the object store, `storage_assets`, `task_jobs` | upload, confirm, delete, export | `Exports` |
| Celery base task and cleanup (`workers/base_task.py`, `workers/heavy/stale_task_cleanup.py`) | `task_jobs` | before_start, on_success, on_failure, retry, cleanup | `ProgramGeneration`, `Exports`, `Backend` |
| Migrations (`src/backend/alembic`) | the schema, `alembic_version` | upgrade head, downgrade -1 | `RelationalSchema`, `Migrations`, `DeclaredSchema`, `SchemaLifecycle` |
| M10 bell curve, M11 exam sessions and hall tickets | | see section 7 | no |
| sessions, tokens and OTP, notifications, audit log, e-mail, monitoring, HTTP edge, frontend, infrastructure | | see section 7 | no |

How they interact: routers call services; services share the tenant's database
and nothing else; a service commits and then publishes a Celery message, or
publishes and then commits; a task opens its own sessions; M09 reads the M08
paper's questions; M11 results sum the M11 components' entries; enrollments hang
below the sections of Academics; a syllabus lock outdates learning packages; the
cleanup reverts M01 programs through the payload of a job row, and fails the jobs
of exports.

What is hard about it:

* **Check, then write.** Most handlers read a row, check its status in Python
  and later update it by primary key, without a row lock, a version column or a
  status in the WHERE clause, and sessions run READ COMMITTED. A request is two
  steps in the models, the check and the write, and other requests run in between.
* **At-least-once tasks.** `task_acks_late` is set and `task_reject_on_worker_lost`
  is not (`workers/celery_app.py`): a dead worker's message comes back, a dead
  pool process's message is acknowledged, and a message may be delivered twice.
* **Several commits.** Job row, entity, object and message are separate things,
  and a crash can fall between any two of them. A rollover, an import and a
  provisioning commit step by step.
* **Long protocols.** Submit, return, resubmit; grant, revoke and grant grace
  marks again; lock, reopen, lock: each call is legal on its own.
* **Answers of a model.** What a provider returns is text that may be missing
  half of what was asked for, and it becomes rows, marks and question papers.

`PROJECT.json` lists the hazards with their lines and the properties aimed at
each.

## 2. The modules

**Exams and results.** `ExamPaper`, `InternalMarks`, `ProgramGeneration` and
`PaperAdmin` each model one row family with its requests, its tasks and the
broker. `ResultDeclaration` EXTENDS `MarksComponent` and composes the two: its
next-state relation interleaves declaration steps with `MarksNext`, because compute
reads what the component requests write. `PaperAdmin` takes `ScoreLedger` with
INSTANCE and is shown to implement it: a ledger row is written once, in one step
with the final marks, with their sum as its total.

**Backend.** What the other components share is in `Backend`: requests with a check
and a write, the broker, the workers, and the failures of both. `Syllabus`,
`CourseKit`, `LearningPackage`, `LabSubmission`, `ResearchDocument`, `VivaSession`,
`TenantProvisioning`, `Academics`, `Attendance`, `StudentDirectory`, `Onboarding` and
`Exports` EXTEND it; each keeps its rows in variables of its own and builds its
actions from `Begin`, `End`, `EndPublishing`, `Take`, `Goto`, `Finish` and `Retry`.
`Enrollment` EXTENDS `Academics`, whose sections it puts students in.

**The document contract.** `DocumentContract` says what the services promise of a
document that an AI task drafts and a human releases: a generation starts on a
draft and gives back a draft, and what is released stays released. `Syllabus`,
`CourseKit` and `LearningPackage` implement it, each by an INSTANCE that maps its
statuses to stages. A document on which a failure or an overlap has voided the
promise maps to the stage "open", so the refinement says exactly when it holds.

**The people.** `Duties` and its extensions see a record of any module as a stage,
and each handler as one step of one person who has, or has not, the role the
router asks for and the place in the record the service asks for. How requests
overlap is left to the component modules. That a FACULTY is assigned to the
course is abstracted. `Gatekeepers` puts the three families together.

**The answers.** `DraftAnswers` (programs, syllabi, kits, questions) and `ScoreAnswers`
(marks and evaluations) translate what the code makes of an answer (defaults, clamps, renumbering, matching by name, the
compliance check that refuses it) as operators on small records; `AiAnswers` is
the state machine around them: which provider is asked, what is passed on to the
next, what stands in when none answers. It refines the step "the AI call succeeds
or fails" that the tasks of the other modules take.

**The files.** `Exports` has three stores and no transaction over them: the object
store, `storage_assets` and the job row, with the sweep of `stale_task_cleanup`
beside the task. A kit's file is the set of reserved parts it shows.

**The schema.** `Migrations` lists, revision by revision, what each migration does to
tables, columns, foreign keys, enum types and row values; `DeclaredSchema` lists what
the ORM models and the raw SQL expect; `SchemaLifecycle` runs upgrade head and
downgrade -1, each one transaction, and compares the two. The two lists are
tables of facts by nature and the longest modules here.

`MCExamPaper` and `MCPaperAdmin` add symmetry sets; `ProgramGeneration` and
`ResultDeclaration` have theirs (`Symmetry`) in themselves, so that the theorems are
about the very modules TLC runs. `MCCurriculum` and `MCAdministration` put components
together. These share no row, so the variable `component` picks one and a behaviour is
one of that component: TLC covers the union of the state spaces, not the product. The
`.cfg` files give the constants.

`*Proofs` modules hold theorems and what they rest on: one for each of `ExamPaper`,
`InternalMarks`, `ProgramGeneration`, `PaperAdmin` and `ResultDeclaration`;
`AdministrationProofs` for the components of `MCAdministration` except the schema;
`CurriculumProofs` for `Syllabus`, `CourseKit`, `LearningPackage` and `Exports`; and
`StudentWorkProofs`, over it, for `LabSubmission`, `ResearchDocument`, `VivaSession`, the
types of `AiAnswers`, and what `MCCurriculum` states of all components together.

Correspondence, in every module:

* row variables are the columns that some guard or property reads;
* `req` maps a request to what it asked for and what it read; the steps that begin
  and end one are its first SELECT and its COMMIT or ROLLBACK; `Abandon` is a
  process death or a failing statement in between;
* `exec` and `msg`, `msgs` or `queue` are the workers and the broker;
  `WorkerCrash`, `ProcessLost` and `Redeliver` are their failures;
* `faults` caps failures with `MaxFaults`; in the modules over `Backend` an overlap
  of two requests counts as one;
* variables marked *history* only record what happened, and no guard reads them.
  `raced` is an overlap of requests, `again` a repeated message, `lost` and `stray`
  messages lost or late, `mixed` a request that overlapped a curation, `refiled`
  a file sent again, `reopened` a viva given consent or a recording again,
  `touched` a tenant retried or patched, `orphaned` a node activated without a look
  at its parent, `manual` an account written by hand, `outlived` an EVALUATOR that
  was there at a downgrade. With them a property can say "unless". Each names a
  path on which the code does not keep the promise (section 7); everything else
  is checked without an exception. `gates`, `done`, `valid`, `revoked`, `promoted`,
  `report`, `kept`, `refused`, `hands` and `moved` record results, not excuses.

Abstractions. Text, wording, audit rows and notifications are left out. A
question's content is a number that changes. Marks are small numbers, grade
bands are one pass percentage, and one student stands for the class where rows
of different students never meet. In `ResultDeclaration` and `TenantProvisioning`,
SQLAlchemy's habit of writing only the columns that changed since they were read
is modelled (`Flush`, `Flushed`), because two overlapping writers then mix their
columns. compute reads its tables one after the other; the model reads them in
one step. In `PaperAdmin`, a marks write is one step because its row locks last
until the COMMIT. The content of a syllabus or a kit is whether it passes its
compliance check. The exam session a declaration belongs to is taken to exist.

## 3. The runs

| Run | Instance | Shows |
|---|---|---|
| `ExamPaper` | 2 requests, 1 worker, 2 questions, 1 fault | type, `HumanGates`, `PaperSound` (`PendingJustified`, `ReviewedHasQuestions`, `BankedOnce`), `FollowsLifecycle` |
| `ExamRelease` | 1 request, 2 workers, 2 faults, fairness | `QueuedWorkEnds` (`SealedIsReleased`, `GenerationEnds`) |
| `InternalMarks` | 2 requests, 2 components of 0..1, maxima 1 and 2 | type, `TotalWasValid`, `LockedImmutable` |
| `InternalTotal` | one request at a time | **violated**: `LockedTotalIsSum` |
| `ProgramGeneration` | 2 requests, 2 workers, 2 dispatches, 1 fault | type, `Recoverable`, `SuccessMeansCommitted`, `ApprovedIsCompliant`, `ApprovedStays` |
| `ProgramSettles` | 1 request, 1 worker, 2 dispatches, 1 retry, 1 fault, fairness | `GenerationSettles` |
| `PaperAdmin` | 2 requests, 1 worker, 2 questions, 1 fault | type, `GatedComplete`, `LedgerOnce` (refinement), `SubmittedStays` (`MarksStay`, `GateStays`) |
| `ScriptPipeline` | 1 request, 2 workers, 1 question, 2 faults, fairness | `PipelineEnds` |
| `Results` | 2 declaration requests (`RowsRace = FALSE`), 1 component request, 1 course with 1 component, 2 grace entries | type, `ResultGates`, `ResultsAgree` (`GraceMatchesLog`, `ResultsAddUp`, `OnlyLockedCounts`), `LockedIsFinal`, `LockedMarksStay` |
| `Curriculum` | 2 requests, 1 worker, 1 message, 1 retry, 1 fault, fairness; per component see below | type, `ReviewedIsCompliant`, `RowsAgree`, `DecisionsHold`, `AnswersFit`, `KeepContracts` (refinement), `HumanWorkStands`, `GenerationSettles` |
| `ProposalDecision` | 2 requests, 1 worker, 1 proposal | **violated**: `DecisionStands` |
| `Administration` | 2 requests, 1 fault; per component see below | type, `TenantUsable`, `HierarchySound`, `SavesInWindow`, `ImportsComplete` (`ImportComplete`, `OnboardingComplete`), `PromotedOnce`, `TwoPeople`, `SchemaAgrees` |

The conjunctions of `Curriculum`: `RowsAgree` is `VersionsOrdered` (a syllabus version
forks a decided one), `OnePublishedKit` (of a unit), `ItemCountRight` (of a package) and
`FilesAgree` (object store, asset rows, jobs). `DecisionsHold` is `GradesAgree`,
`ApprovedFileEvaluated` and `VivaJudgedWhole`. `HumanWorkStands` is `EditsStay`,
`GradesStand`, `ApprovalStands` and `RatifiedStays`. `KeepContracts` is the three
refinements of `DocumentContract`.

Its instance: two versions of a syllabus and of a unit's kit, one package with two
faculty notes, two submissions of one student, two research documents with two
files, one viva with one question; AI answers of up to three slides or scored items
and two other items; one export job with up to three runs and one upload.
`Administration`: two tenants; three semesters with one section each, two students,
two faculty; an attendance sheet of two with a window of two of three ticks; an
import of three rows over two USNs; two people at the gates; an account file of two
rows over two addresses in two spellings and one identifier; two schemas (`public`
and a tenant's) through all revisions.

Why the bounds are enough. A race needs two requests, and the models have no
counter of requests: a third would repeat what one of the two does. Two workers
are needed only where a message can run twice at once; elsewhere one is enough for
a crash and a redelivery. Two questions, items or rows tell "some" from "all"
apart. One fault separates any two commits, and the liveness runs have two, or a
retry, so that a redelivered task can fail. Three semesters let a rollover run
twice, three file rows let two of them collide under a third. In `Results`, two
requests on the declaration overlap each other and a component request, but only
while the declaration has no external marks (`RowsRace = FALSE`): what they can do to
its gates, a revert, a deletion and a new declaration under a pending decision
included, needs no rows. With rows they take turns, as everything that
`ResultsAgree` and `LockedIsFinal` say is excused by an overlap anyway; theorem
`GatesHold` holds for both values of `RowsRace` and any number of requests. Two log
entries are enough for grant, revoke, grant. `PassPercent = 60` over
marks 0..2 makes grace marks decide a pass and overshoot the maximum. `AiAnswers`
takes every answer of its bounded shape: missing fields, wrong kinds, repeated ids,
scores outside their range, and too many and too few of everything.

`CHECK_DEADLOCK FALSE` everywhere: a released paper, a finalised script or a
locked record may well be the end, and bounded identifiers run out.

Fairness. Requests that passed their check and task bodies that run finish their
step; an idle worker takes a message; a dead worker's message is given back
(Redis visibility timeout); time passes. These are what the API process, Celery
and the broker do as long as they live, and the faults are the exceptions. Users
owe nothing: no `Check`, and no `Begin`, is fair. In the modules over `Backend`,
`Publish` has strong fairness because `Slots` is a bound of the model and the queue
has none; taking a message has it because a worker that is busy with another
message comes back to this one; labs, research and vivas do without. `PipelineEnds` does not even assume redelivery.
`GenerationSettles` also assumes, for programs and exports, that Celery beat runs
`stale_task_cleanup` every five minutes, as the `beat_schedule` in
`workers/celery_app.py` says; no deployment file of the repository starts beat
(`src/docker-compose.yml` starts workers only), so the property holds of the schedule
and not of those deployments. The `lost` escapes in the liveness
properties name the losses `acks_late` cannot undo: a pool process that dies with an
acknowledged message, a publication that failed after its commit, and the failure
handler that failed itself.

## 4. What the violated runs say

* `LockedTotalIsSum`: `update` accepts FACULTY_SUBMITTED records and leaves
  `total_internal`, so the Dean locks a stale total (`modules/m08_exam_setter/service.py:893`).
* `DecisionStands`: `evaluate_research_proposal` ends by setting PENDING_REVIEW
  whatever the guide decided while the model was asked
  (`workers/heavy/evaluate_research_proposal.py:128`), where the model says that
  only the decision endpoint moves the status and "Celery tasks write only AI
  scores" (`modules/m07_research_supervision/models.py:88`).

`ImportComplete`, in the run `Administration`, promises less than an import announces:
it says which rows an ended import has updated, namely the valid ones up to the first
whose transaction failed, and that a USN is refused in an import only after an overlap.

## 5. What is proved

Theorems hold for every number of requests, workers, questions, courses, students,
tenants, people and faults, under the named assumptions on constants only: bounds are
natural numbers, sets that are summed over are finite, and None, the value of "no row"
and "no operation", is none of the rows, operations and numbers it stands beside.

No property below is inductive. The code checks in one statement and writes in a
later one without looking again, so every invariant has three parts. It gives the
shape of the rows and of what requests and tasks remember. It says what a request or
a task under way can rely on: that what it read is still so, as long as nothing has
overlapped or been repeated. And it says why that is so: a request is then the only
one. Where a history variable excuses a behaviour, the invariant keeps what holds
nevertheless. TLC has checked the invariants on the instances of section 3.

* `ExamPaperProofs`: `TypeCorrect`; `GatesHold`, which proves `HumanGates` together with
  `PendingJustified`; `SoundHolds` (`PaperSound`); `LifecycleHolds` (`FollowsLifecycle`).
  `HumanGates` alone is not inductive: a pending write moves the status whatever the
  row has become, so the invariant says that what the request found at its check
  (which decisions had been taken, which workflow the paper has) still holds. The
  decisions recorded in `gates` never go away and the workflow of a paper never
  changes, which is why the check-then-write style is safe here. The step proof has
  a lemma for checks, one for writes, one for workers, and `OpenStep` for the steps
  that leave the gates alone. The other two are about
  what happens without overlap or a second generation, from `Tidy`: one request at a
  time has still to write and finds the status it checked, generation is in one place
  (with the request that creates the paper, in the queue or with one worker) and the
  status goes with it, and a paper under review has questions.
* `InternalMarksProofs`: `TypeCorrect`; `TotalHolds` (the total a request carries was a
  total of the row while it was PENDING); `LockHolds`, an action property, from the
  invariant that without overlap a pending request is alone and the row has the
  status it asked for.
* `ProgramGenerationProofs`: `TypeCorrect`; `SuccessHolds` (a worker past the commit
  of its body has its job among those done, `Committed`); `RecoverableHolds` (the job of
  the last dispatch is there and has not committed, `Current`); `CompliantHolds` and
  `ApprovedHolds`, from `Orderly`: a job is in one place, work is pending only for the last
  dispatch of a program that generates, and what a request's check found is still so,
  so no write comes to an approved program from behind.
* `PaperAdminProofs`: `TypeCorrect`; `GatedHolds` (marks are only overlaid, never taken
  away, so a submission's completeness check is not undone); `SubmittedHolds`
  (`MarksStay` and `GateStays`), from `Orderly`: without overlap or a stray task a message
  is under way only while the script is in the pipeline (`Pushed`), so none reaches a
  submitted one; `Implements`, the refinement of `ScoreLedger`: initial states map to
  initial states, `FinaliseRecords` maps `board_finalise` to `Record`, and `OthersStutter`
  the rest.
* `ResultDeclarationProofs`: `GatesHold`, from the invariant that a pending publish or
  lock finds its gates still there; `LockedHolds`, from `Solo`: without overlap a pending
  request is the only one and the status is still one that its check asked for,
  so on a LOCKED declaration only `compute_sgpa_cgpa` is left, which does not touch
  what the property names. `CheckStarts` reduces the eleven kinds of check to one
  relation between kind and status (`Asks`). `LockedMarksHold` is the same argument for
  the components (`ComponentInv`). `TypeCorrect` and `AgreeHolds` (`ResultsAgree`) need
  facts about sums over finite sets: that one is a natural number, that it is the sum
  of two when the set or the terms are split, and that it depends on the terms in
  the set only. `Agreeing` then says of every result that its grace marks are those of
  the one entry of the log that is not revoked, and of a request that what it is
  about to write (`Fresh`) adds up over rows that are locked.
* `CurriculumProofs`, documents: `ReviewedCompliant`, `PublishedKit`, and the refinements
  `SyllabusImplements` and `KitImplements` of `DocumentContract`. None is inductive, as
  writes and tasks look at no status. The invariant has two parts. `Owned`, about
  requests, messages and workers alone and proved once for all components: without
  overlap one request at most is between its check and its write, and a generation
  that is not repeated has one publication or one message, which the worker that
  runs it holds. `SyllabusGood` and `KitGood` add, for every document that is not in
  `again`: what a request's check found still holds, a row with a generation under
  way says AI_GENERATING, what was released is compliant; `KitsApart` adds that a kit
  is found fit for publication only while no other is published. After an overlap
  (`raced`) nothing is left but the records' shape, and every stage is "open". The
  shape is stated over an arbitrary set of names, since version numbers and
  retries matter to none of it.
* `CurriculumProofs`, versions: `VersionsOrderedAlways` and `EditsStayAlways`, from
  `VersionsInv`. That a copy is above its original holds whatever overlaps
  (`CopiesLater`), because a request remembers both; that versions differ
  (`VersionsApart`) and that a row under generation has no edits to lose (`EditsLast`)
  need that nothing does.
* `CurriculumProofs`, packages: `ItemCountAlways` and the refinement `PackageImplements`,
  from `PackageInv`. Two task types work on a package, and a curation commits at its
  end only, so `Owned` is too much to ask: `Sole` says the same of one task type, and holds
  whatever requests overlap. `PackageSafe` adds what publications, messages and
  workers of each type can rely on; `AllCounted` that what a request or a curation read
  of the count is still true when it writes, for packages not in `mixed`.
* `CurriculumProofs`, files: `FilesInv`, on which `FilesAgree` rests. Three stores are
  written one after the other and no write looks at another store, so the invariant
  says of every run how far it got (`FilesExecSound`), of every job whose file it names
  (`JobGood`), of every file that it has a row, a run that is to write it, or a
  failure behind it (`FileGood`), and that a job not run again has no file while a run
  is still ahead (`OneFile`). It rests on `ExportNames`: keys of uploads and of exports
  differ, since each holds a uuid of its own.
* `StudentWorkProofs`, each component: `GradesAgreeAlways` and `GradesStandAlways` from
  `LabInv`, `ApprovedFileEvaluatedAlways` and `ApprovalStandsAlways` from `DocInv`,
  `VivaJudgedAlways` and `RatifiedStaysAlways` from `VivaInv`. Each invariant has the shape;
  what no overlap breaks (`LabSound`, `DocSound`, `VivaSound`: nothing is graded, approved
  or ratified that was not evaluated, and no request or task is on its way to do so); and
  `Owned` with what a check found and still finds (`LabGood`, `DocGood`, `VivaGood`). For
  labs, the ratification remembers the score it will enter, so the score must not move
  before its commit, and `AssignmentGood` says why the ledger's maximum is the rubric's. For
  documents, `DocNumbered` says that the versions are 1 to n and that a request which
  is to write the next one has n + 1. `again`, `refiled` and `reopened` take out the rows of
  which the code itself allows more.
* `StudentWorkProofs`, together: `DecisionsHoldAlways`, `HumanWorkStandsAlways`,
  `KeepContractsAlways` and `RowsAgreeAlways`, the properties of `MCCurriculum` as its run
  checks them. A behaviour is of one component, so `HumanWorkInv`, `DocumentsInv` and
  `RowsInv` say that this one keeps its invariant and the others their first rows. For the
  contracts the exceptions are stated of the history variables, so `HistoryGrows` says
  that no step takes back what the history says.
* `StudentWorkProofs`, types: `TypesAlways`, the type invariant of `MCCurriculum`, from
  `TypesInv`. The invariants above type a row over any set of names; this one gives every
  column its own. What a request keeps of its check (`mem`) has the type that its operation
  writes, so the types say it operation by operation, and the same of what a worker
  noted by task. A version is no larger than the number of rows in use, since each
  row takes the next number of its course and no row is used twice; that a
  publication, a message and a running task are on a row needs the invariants above
  (`HumanWorkInv`, `RowsInv`), which are conjuncts of `TypesInv`. Of `AiAnswers` it types the
  providers left to ask, the failures and the answer, and rests on `AskNames`: None is
  not the name of a provider or an outcome.
* `AdministrationProofs`: `UsableAlways` (`TenantUsable`), `HierarchyAlways`
  (`HierarchySound`), `PromotedOnceAlways` (`PromotedOnce`), `WindowAlways`
  (`SavesInWindow`) and `ImportsAlways` (`ImportsComplete`), for every component of
  `MCAdministration` that has requests. `Serving` says what these components share, and a few
  lemmas about `Begin`, `End`, `Abandon` and a request that goes on are proved once for all.
  Each component then has an invariant of its own. `TenantInv`: how far the
  provisioning of a tenant has got (`ProvisionedSoFar`) holds even when requests
  overlap, because its steps add and a deletion leaves the schema; that the status
  has not moved needs that they do not. `AttendanceInv`: the rows (`AttendanceRows`)
  survive any overlap, the window (`WindowRead`) does not. `AcademicsInv`: what a check
  found of the parent, the children or the other assignments is still so
  (`NodeRead`). `RosterInv`: the rows a rollover has still to write are as it planned them
  (`Rolling`). `DirectoryInv`: what an import has done is what its
  valid rows before the rest allow, whatever overlaps or fails (`ImportSoFar`), and alone it
  can write the rest row by row, because its rows differ among themselves and from the
  table (`ImportRest`). `OnboardingInv`: the
  accounts a commit is about to insert are new to the table and to each other, as
  imports compare them (`NewAccounts`). `SoundSteps` puts them together: a step is one of the
  component's, and the rows of the others rest.
  The gates (`TwoPeopleAlways`) are a component of their own: `TwoPeople` speaks of the last gate
  only, so `GatesInv` keeps for every stage what is known of the hands it went
  through: who made it (`Makers`, past the stages `Unmade`) and who judged it
  (`Judges`). One lemma for a hand that moves a record on and one for a hand that
  starts one reduce the handlers of all modules to a look at three tables.

Attempts that failed have changed the model. The bound on `promoted` in the type
invariant of `Enrollment` was the number of semesters, which more requests than
semesters exceed, and is gone; and several modules needed it said that None is
not one of their names, which TLC's model values had silently given them. `Exports` needed
that the two sets of keys are apart, which its configuration had given it as well. The
type invariant bounded `item_count` of a package by the items there can be, which is
false: two removals at once write the same count, one more than the items left, the
next addition counts on from there, and with enough requests there is no bound. It is
a natural number now, and how far it agrees with the items is `ItemCountAlways`.

Sums and induction. The library's induction theorems take an operator as a parameter,
which no installed prover can instantiate. For sums over finite sets
`ResultDeclarationProofs` goes around them: `MapThenSumSet` is a CHOOSE of a function on the
finite subsets, so that one exists is shown by taking a least counterexample of a
well-founded order on these sets, with the set of counterexamples, not a predicate, as
the thing the theorem `WFMin` is about.

## 6. What is only model-checked

* Liveness and everything with ENABLED: `QueuedWorkEnds`, `PipelineEnds`,
  `GenerationSettles`. They are out of the prover's reach.
* `AnswersFit`, which is about folds, filters and sorts of sequences of answers, with TLC
  over every answer of a bounded shape. What they compute for every sequence is
  induction over data, which is out of the prover's reach too.
* `SchemaAgrees` has one instance, the repository's migrations, and TLC covers it
  completely. The type invariant of `MCAdministration` includes the schema's and stays with
  it; the types of the other components are conjuncts of the invariants of section 5.

## 7. Observations about the code, and what is not modelled

Where a history variable of section 2 excuses a behaviour, this is the path:

* *Exams.* Stale cleanup reverts by payload whatever the program became, and a late
  or repeated `generate_program_structure` moves an APPROVED program back to
  PENDING_APPROVAL (`stray`). A regeneration accepted in GENERATED writes its
  question after the paper was submitted (`workers/heavy/regenerate_exam_question.py:210`).
  An exception in the revert UPDATE of the cleanup aborts all of it.
* *M09.* A repeated quality or OCR task, or an override that overlaps, takes a
  MARKS_SUBMITTED or finalised script back (`stray`, `raced`); the second scoring then
  meets the unique key. Seal, ingest and override publish after their commit
  without a guard. A scan without text goes to review with no rows
  (`workers/heavy/ocr_scanned_script.py:203`). assign_evaluator works after
  MARKS_SUBMITTED and takes a user of any role.
* *M11 results.* compute sums LOCKED components and does not ask whether the others
  are locked (`modules/m11_sis/results_service.py:590`); revoke says it recomputes (`:868`)
  and does not; verify accepts a declaration without computed results; absent
  courses are left out of the overall status; grace marks above 100 percent fall in
  no band and fail; external marks and compute are allowed on PUBLISHED;
  compute_sgpa_cgpa and compute_ranks do not ask for the status; a deleted component
  that was locked by an overlapping request still counts; grace after publication
  says "Revert to DRAFT first" (`:765`), and revert takes VERIFIED only (`:414`).
* *M02, M03.* reject forks a draft and leaves the rejected version PENDING_REVIEW,
  where approve still takes it; a failed generation puts a reviewed version back to
  DRAFT; create_kit always makes version 1, whatever its docstring says; kits are
  deleted with the syllabus that a cascade takes.
* *M05.* CURATING is set and overwritten in one transaction, so nobody sees it; a
  redelivered curation puts a READY package back to PENDING; `item_count` is
  read, changed and written (`mixed`).
* *M06.* A redelivered evaluation puts an evaluated or ratified submission back to
  SUBMITTED for good (`again`); `human_score or ai_score` drops a human 0; the GET of the
  review panel marks REVIEWED before it checks the scope, and in a race undoes
  RATIFIED; job polling imports `async_session_public`, which does not exist
  (`modules/m06_labs_evaluator/router.py:758`).
* *M07.* update_file_url looks at no status (`refiled`); consent and complete of a viva
  look at none either (`reopened`); a failing process_viva_session leaves
  ASR_PROCESSING; an AI-generated problem stays DRAFT, no step leads out.
* *Attendance.* Reopening before the first mark makes the window run from the
  reopening; nothing writes LOCKED; a list that names a student twice edits without
  a reason in the first mark; the errors of the shortage warning's SQL are swallowed.
* *Enrollment.* The rollover is documented as idempotent; a rerun after a partial
  failure promotes moved students again when the next semester is active, and
  two rollovers at once promote twice. generate_semesters and updates with
  `is_active=TRUE` do not look at the parent (`orphaned`). One PRIMARY faculty and "no
  duplicate" hold by check only.
* *Directory, accounts.* The preview of an import looks at no lengths
  (`modules/m11_sis/directory_schemas.py:122`), so a value longer than its column fails in
  the flush; any exception of a row is caught (`modules/m11_sis/bulk_import_service.py:373`)
  and the session is not rolled back, so all later rows fail too and the import still
  ends normally (`failed`); a swap of two USNs in one file is refused by the preview;
  accounts made by hand are compared by exact address, imported ones in lower case,
  and nothing makes an identifier unique (`manual`).
* *Tenants.* A PERMANENTLY_DELETED tenant comes back through DELETE and restore; a
  process that dies in the migrations leaves PROVISIONING, which retry refuses;
  retry seeds no administrator; PATCH sets ACTIVE, INACTIVE or ARCHIVED from any
  status (`touched`); an activation that ends after a deletion overwrites it;
  `management/upgrade_all_tenants.py` leaves out INACTIVE and DELETED tenants, which may
  return with an old schema, and exits with 0 after skipped ones.
* *Roles.* A BOARD user may create an exam paper that only its FACULTY or ADMIN
  creator may submit, so it is stuck; any FACULTY edits questions and enters script
  marks; the scrutinizer may be the creator; `src/Vidya-PRD.md:905` gives the
  syllabus lock to the Institution Admin and the router to the DEAN only; ADMIN
  passes the BOARD's gates. For INTERNAL papers the repository disagrees with itself:
  `modules/m08_exam_setter/router.py:15` ("Faculty creates → faculty_approve (Gate 1) →
  Faculty seals"), `modules/m08_exam_setter/models.py:14` and `:184`,
  `src/backend/tests/modules/m08_exam_setter/test_unit.py:965` and
  `src/docs/saas-walkthrough.md:267` say that the faculty seals; line 8 of the same header
  and the endpoint (`router.py:575`, `_board_dep()`) give the seal to BOARD and ADMIN.
  `Gatekeepers` takes the endpoint's roles. Under the documented ones `TwoPeople` would be
  violated: one FACULTY creates, approves and seals a paper, which then releases itself.
  PROJECT.json records it as a finding of the run `Administration`.
* *AI answers.* A safety block of Gemini is taken for a quota error, because the
  text of the exception says "quota", and always falls back; a rubric item without a
  criterion id takes the first unmatched name, which another item may name by id;
  NaN scores clamp to full marks; a script answer without marks is scored 0;
  program structures of Gemini are not clamped; generated outcome codes may collide
  with given ones, where the unique constraint fails the task; `_is_soft_violation`
  says that no quizlets raise, and they do not; viva items are paired by position;
  types of questions are not checked.
* *Exports, storage.* The header of `workers/heavy/course_kit_export.py` says that notes
  and answers are left out for a dean, but `_render_generic` (line 829) shows notes for
  slides without bullets, and the PDF prints answer explanations; an object is put
  before its row commits, so a failure leaves an orphan; a failure after the commit
  leaves a listed file and a FAILED job, and a retry a second file; the sweep's
  UPDATE has no status in it, so it fails a job that has just succeeded; unlike what
  comments say, no retention job exists; sizes and types given by the client are not
  verified.
* *Schema.* A downgrade is refused only for an EVALUATOR user who outlives the enum
  value (`outlived`); `evaluator_assignments.assigned_by_user_id` has a foreign key in
  the database only; M10's raw INSERT names a column that `public.task_jobs` lacks
  (`modules/m10_bell_curve/repository.py:301`).

Not modelled, and why:

* M11 exam sessions and hall tickets: no route, service or repository commits
  (`modules/m11_sis/exam_router.py`, `modules/m11_sis/hallticket_router.py`), and several services call
  `AuditService.log` with arguments it does not take (`modules/m11_sis/exam_service.py:306`).
  Nothing they do outlives the request, so there is nothing to model.
* M10: the trigger imports `async_session_public`, which `app.database` does not define
  (`modules/m10_bell_curve/service.py:90`), so no analysis starts. The statistics are
  floating-point arithmetic.
* Sessions, tokens, passwords and OTP (outside the academic workflows; the role of a
  request is in `Duties`), notifications and the audit log (appends in sessions of
  their own that no workflow reads back), e-mail, monitoring, the HTTP edge and
  database sessions (I/O), frontend and infrastructure.
* Within the modelled components: the question bank's own operations, fork of M01,
  update_component, grading policies, ranks and grade cards, references of a
  syllabus, Q&A sessions of a package, the evaluators' scopes and the sandbox of M06,
  percentages and shortage reports of attendance, departments and programs of
  Academics (the same code once more), enrollment of imported accounts, indexes,
  defaults and nullability of the schema, the layout of exported files.

## 8. Plan

Written and checked so far: the exam and result modules (`ExamPaper`,
`InternalMarks`, `ProgramGeneration`, `PaperAdmin` over `ScoreLedger`, `MarksComponent`,
`ResultDeclaration`), then `Backend` and the components over it, the document
contract with three refinements, the people, the answers, the files and the schema.

Left to model: fork of M01, the question bank, grading policies and ranks,
the sandbox and scopes of M06, attendance percentages.

Left to prove: nothing the runs check that is in the prover's reach; section 6 lists the rest.

## 9. Running it

    tlc -workers 2 -config ExamPaper.cfg MCExamPaper.tla
    tlc -workers 2 -config InternalMarks.cfg InternalMarks.tla
    tlc -workers 2 -config Results.cfg ResultDeclaration.tla
    tlapm AdministrationProofs.tla

Runs of `ExamPaper`, `PaperAdmin`, `MCCurriculum` and `MCAdministration` are on their `MC`
module, the others on the component's own; `PROJECT.json` names module and
configuration of each. The longest runs (`Curriculum`, `ExamPaper`, `ProgramGeneration`,
`ProgramSettles`) take one to three minutes with two workers. The longest proofs,
from nothing and with two threads: `StudentWorkProofs` eighteen minutes,
`CurriculumProofs` eleven, `AdministrationProofs` and `ResultDeclarationProofs` five to seven.
