----------------------------- MODULE ExamPaper -----------------------------
(***************************************************************************)
(* M08 Exam Setter: one exam paper, the API requests that act on it and    *)
(* the Celery tasks that generate, regenerate and release it.              *)
(*                                                                         *)
(* Every handler of ExamService reads the paper row, checks its status in  *)
(* Python and then issues an UPDATE whose WHERE clause names the id only,  *)
(* so a handler is two steps here: XxxCheck (the SELECTs and the early     *)
(* returns; the request is then pending in req) and XxxWrite (the UPDATE   *)
(* and its COMMIT).  Under READ COMMITTED other requests and tasks run     *)
(* between the two.  A handler that returns an error changes nothing and   *)
(* is no step.                                                             *)
(*                                                                         *)
(* Celery runs with acks_late on Redis: a message stays with the worker    *)
(* that holds it until the task body ends, and is delivered again when     *)
(* that worker dies or the visibility timeout passes.  When only the pool  *)
(* process running the body dies, the worker acknowledges the message:     *)
(* task_reject_on_worker_lost is not set.                                  *)
(***************************************************************************)
EXTENDS Naturals, FiniteSets

CONSTANTS
    Reqs,       \* concurrent API requests
    Workers,    \* Celery worker processes
    Questions,  \* ids a question row can have
    Users,      \* faculty who can be made scrutinizer
    NoUser, NoQuestion, NoMsg,
    MaxVer,     \* bound: contents a question row can take
    MaxTime,    \* bound: the clock
    MaxFaults   \* bound: crashes, lost requests, retries, early redeliveries

ASSUME BoundsAssumption ==
    /\ MaxVer \in Nat \ {0}
    /\ MaxTime \in Nat
    /\ MaxFaults \in Nat

ASSUME NamesAssumption ==
    /\ NoUser \notin Users
    /\ NoQuestion \notin Questions
    /\ {"none", "queued"} \cap Workers = {}

VARIABLES
    status, workflow, scrutinizer, releaseAt,  \* the exam_papers row
    ver,      \* exam_questions rows: 0 is no row, otherwise its content
    bank,     \* question_bank rows promoted from each question
    req,      \* the API requests between their check and their write
    msgs,     \* broker: "none", "queued", or the worker holding the message
    exec,     \* the task body each worker is in, and how far it got
    now, faults,
    gates,    \* history: the human decisions written so far
    raced,    \* history: requests overlapped, or generation was redelivered
    lost      \* history: a task ended and left no trace in the database

row == <<status, workflow, scrutinizer, releaseAt>>
history == <<gates, raced, lost>>
vars == <<row, ver, bank, req, msgs, exec, now, faults, history>>

----------------------------------------------------------------------------
(* Values.                                                                 *)

Status == {"NONE", "DRAFT", "GENERATING", "GENERATED", "FAILED", "SUBMITTED",
           "BOARD_APPROVED", "BOARD_RETURNED", "SEALED", "RELEASED"}

ExamWorkflow == {"INTERNAL", "BOARD_EXAM"}

Editable == {"GENERATED", "BOARD_RETURNED"}

Ops == {"idle", "createJob", "dispatch", "submit", "board", "facultyApprove",
        "assign", "scrutinize", "edit", "delete", "seal", "schedule",
        "forceRelease"}

Request == [op : Ops, q : Questions \cup {NoQuestion}, u : Users \cup {NoUser},
            ok : BOOLEAN, at : 0..MaxTime]

Asked(op) == [op |-> op, q |-> NoQuestion, u |-> NoUser, ok |-> FALSE, at |-> 0]

GenMsg == [kind |-> "generate", q |-> NoQuestion, eta |-> 0]
RegenMsg(q) == [kind |-> "regenerate", q |-> q, eta |-> 0]
ReleaseMsg(at) == [kind |-> "release", q |-> NoQuestion, eta |-> at]

Msgs == {GenMsg} \cup {RegenMsg(q) : q \in Questions}
        \cup {ReleaseMsg(at) : at \in 0..MaxTime}

Phases == {"idle", "generating", "saved", "regenerating", "releasing"}

IdleExec == [m |-> NoMsg, phase |-> "idle"]

Gates == {"submit", "boardApprove", "facultyApprove", "seal", "forceRelease"}

BankCap == 2  \* bound: bank counts saturate here

Present == {q \in Questions : ver[q] > 0}

----------------------------------------------------------------------------
TypeOK ==
    /\ status \in Status
    /\ workflow \in ExamWorkflow
    /\ scrutinizer \in Users \cup {NoUser}
    /\ releaseAt \in 0..MaxTime
    /\ ver \in [Questions -> 0..MaxVer]
    /\ bank \in [Questions -> 0..BankCap]
    /\ req \in [Reqs -> Request]
    /\ msgs \in [Msgs -> {"none", "queued"} \cup Workers]
    /\ exec \in [Workers -> [m : Msgs \cup {NoMsg}, phase : Phases]]
    /\ now \in 0..MaxTime
    /\ faults \in 0..MaxFaults
    /\ gates \in SUBSET Gates
    /\ raced \in BOOLEAN
    /\ lost \in BOOLEAN

Init ==
    /\ status = "NONE"
    /\ workflow \in ExamWorkflow
    /\ scrutinizer = NoUser
    /\ releaseAt = 0
    /\ ver = [q \in Questions |-> 0]
    /\ bank = [q \in Questions |-> 0]
    /\ req = [r \in Reqs |-> Asked("idle")]
    /\ msgs = [m \in Msgs |-> "none"]
    /\ exec = [w \in Workers |-> IdleExec]
    /\ now = 0
    /\ faults = 0
    /\ gates = {}
    /\ raced = FALSE
    /\ lost = FALSE

----------------------------------------------------------------------------
(* Parts of the handlers.                                                  *)

\* Requests that have still to write the paper or its questions.
Writing(s) == req[s].op \notin {"idle", "schedule"}

\* The checks passed: the request is pending.  Overlap with another pending
\* request is recorded.
Begin(r, a) ==
    /\ req[r].op = "idle"
    /\ req' = [req EXCEPT ![r] = a]
    /\ raced' = (raced \/ \E s \in Reqs \ {r} : Writing(s))
    /\ UNCHANGED <<row, ver, bank, msgs, exec, now, faults, gates, lost>>

\* The request has committed and answers.
End(r) == req' = [req EXCEPT ![r] = Asked("idle")]

PromoteFromPaper ==
    bank' = [q \in Questions |->
                IF q \in Present /\ bank[q] < BankCap THEN bank[q] + 1 ELSE bank[q]]

\* The task body of w ended: the delivery it holds, if still its own, is
\* acknowledged.
AckBy(w) == [msgs EXCEPT ![exec[w].m] = IF @ = w THEN "none" ELSE @]

\* The task asks for a retry: the same message is published again.
RetryBy(w) == [msgs EXCEPT ![exec[w].m] = "queued"]

Done(w) == exec' = [exec EXCEPT ![w] = IdleExec]

Fault == faults < MaxFaults /\ faults' = faults + 1

----------------------------------------------------------------------------
(* ExamService.create: the paper is committed as DRAFT, then the job and   *)
(* GENERATING, then the message is published; a broker error is written    *)
(* back as FAILED.                                                         *)

CreatePaper(r) ==
    /\ status = "NONE"
    /\ req[r].op = "idle"
    /\ status' = "DRAFT"
    /\ req' = [req EXCEPT ![r] = Asked("createJob")]
    /\ UNCHANGED <<workflow, scrutinizer, releaseAt, ver, bank, msgs, exec, now,
                   faults, history>>

\* Mutant: the paper takes the job's status instead of its own.
CreateJobMutant(r) ==
    /\ req[r].op = "createJob"
    /\ status' = "PENDING"
    /\ req' = [req EXCEPT ![r] = Asked("dispatch")]
    /\ UNCHANGED <<workflow, scrutinizer, releaseAt, ver, bank, msgs, exec, now,
                   faults, history>>

CreateJob(r) ==
    /\ req[r].op = "createJob"
    /\ status' = "GENERATING"
    /\ req' = [req EXCEPT ![r] = Asked("dispatch")]
    /\ UNCHANGED <<workflow, scrutinizer, releaseAt, ver, bank, msgs, exec, now,
                   faults, history>>

DispatchGeneration(r) ==
    /\ req[r].op = "dispatch"
    /\ msgs' = [msgs EXCEPT ![GenMsg] = "queued"]
    /\ End(r)
    /\ UNCHANGED <<row, ver, bank, exec, now, faults, history>>

QueueUnavailable(r) ==
    /\ req[r].op = "dispatch"
    /\ status' = "FAILED"
    /\ End(r)
    /\ UNCHANGED <<workflow, scrutinizer, releaseAt, ver, bank, msgs, exec, now,
                   faults, history>>

----------------------------------------------------------------------------
(* Question editing, allowed in GENERATED and BOARD_RETURNED.              *)

UpdateQuestionCheck(r, q) ==
    /\ status \in Editable
    /\ q \in Present
    /\ Begin(r, [Asked("edit") EXCEPT !.q = q])

\* An UPDATE of a row deleted meanwhile matches nothing.
UpdateQuestionWrite(r) ==
    /\ req[r].op = "edit"
    /\ \E v \in 1..MaxVer :
          ver' = [ver EXCEPT ![req[r].q] = IF @ = 0 THEN 0 ELSE v]
    /\ End(r)
    /\ UNCHANGED <<row, bank, msgs, exec, now, faults, history>>

DeleteQuestionCheck(r, q) ==
    /\ status \in Editable
    /\ q \in Present
    /\ Begin(r, [Asked("delete") EXCEPT !.q = q])

DeleteQuestionWrite(r) ==
    /\ req[r].op = "delete"
    /\ ver' = [ver EXCEPT ![req[r].q] = 0]
    /\ End(r)
    /\ UNCHANGED <<row, bank, msgs, exec, now, faults, history>>

\* The router queues a regeneration; the worker validates again.  Bound: one
\* regeneration of a question is in flight at a time.
RegenerateQuestion(q) ==
    /\ status \in Editable
    /\ q \in Present
    /\ msgs[RegenMsg(q)] = "none"
    /\ msgs' = [msgs EXCEPT ![RegenMsg(q)] = "queued"]
    /\ UNCHANGED <<row, ver, bank, req, exec, now, faults, history>>

----------------------------------------------------------------------------
(* The human gates.                                                        *)

SubmitForReviewCheck(r) ==
    /\ workflow # "INTERNAL"
    /\ status \in Editable
    /\ Present # {}
    /\ Begin(r, Asked("submit"))

SubmitForReviewWrite(r) ==
    /\ req[r].op = "submit"
    /\ status' = "SUBMITTED"
    /\ gates' = gates \cup {"submit"}
    /\ End(r)
    /\ UNCHANGED <<workflow, scrutinizer, releaseAt, ver, bank, msgs, exec, now,
                   faults, raced, lost>>

BoardDecideCheck(r, approved) ==
    /\ status = "SUBMITTED"
    /\ Begin(r, [Asked("board") EXCEPT !.ok = approved])

BoardDecideWrite(r) ==
    /\ req[r].op = "board"
    /\ \/ /\ req[r].ok
          /\ status' = "BOARD_APPROVED"
          /\ gates' = gates \cup {"boardApprove"}
          /\ PromoteFromPaper
       \/ /\ ~req[r].ok
          /\ status' = "BOARD_RETURNED"
          /\ UNCHANGED <<gates, bank>>
    /\ End(r)
    /\ UNCHANGED <<workflow, scrutinizer, releaseAt, ver, msgs, exec, now, faults,
                   raced, lost>>

\* Mutant: the workflow is not checked, so a BOARD_EXAM paper skips the board.
FacultyApproveCheckMutant(r) ==
    /\ status \in Editable
    /\ Present # {}
    /\ Begin(r, Asked("facultyApprove"))

FacultyApproveCheck(r) ==
    /\ workflow = "INTERNAL"
    /\ status \in Editable
    /\ Present # {}
    /\ Begin(r, Asked("facultyApprove"))

FacultyApproveWrite(r) ==
    /\ req[r].op = "facultyApprove"
    /\ status' = "BOARD_APPROVED"
    /\ gates' = gates \cup {"facultyApprove"}
    /\ End(r)
    /\ UNCHANGED <<workflow, scrutinizer, releaseAt, ver, bank, msgs, exec, now,
                   faults, raced, lost>>

AssignScrutinizerCheck(r, u) ==
    /\ workflow = "BOARD_EXAM"
    /\ status = "SUBMITTED"
    /\ Begin(r, [Asked("assign") EXCEPT !.u = u])

AssignScrutinizerWrite(r) ==
    /\ req[r].op = "assign"
    /\ scrutinizer' = req[r].u
    /\ End(r)
    /\ UNCHANGED <<status, workflow, releaseAt, ver, bank, msgs, exec, now, faults,
                   history>>

\* Mutant: the scrutinizer can still return a paper the board has approved.
ScrutinizeCheckMutant(r, u, approved) ==
    /\ scrutinizer = u
    /\ Begin(r, [Asked("scrutinize") EXCEPT !.u = u, !.ok = approved])

ScrutinizeCheck(r, u, approved) ==
    /\ scrutinizer = u
    /\ status = "SUBMITTED"
    /\ Begin(r, [Asked("scrutinize") EXCEPT !.u = u, !.ok = approved])

ScrutinizeWrite(r) ==
    /\ req[r].op = "scrutinize"
    /\ status' = IF req[r].ok THEN status ELSE "BOARD_RETURNED"
    /\ End(r)
    /\ UNCHANGED <<workflow, scrutinizer, releaseAt, ver, bank, msgs, exec, now,
                   faults, history>>

\* Mutant: a paper that came back from the board can be sealed.
SealCheckMutant(r, at) ==
    /\ at > now
    /\ status \in {"BOARD_APPROVED", "BOARD_RETURNED"}
    /\ Begin(r, [Asked("seal") EXCEPT !.at = at])

SealCheck(r, at) ==
    /\ at > now
    /\ status = "BOARD_APPROVED"
    /\ Begin(r, [Asked("seal") EXCEPT !.at = at])

SealWrite(r) ==
    /\ req[r].op = "seal"
    /\ status' = "SEALED"
    /\ releaseAt' = req[r].at
    /\ gates' = gates \cup {"seal"}
    /\ req' = [req EXCEPT ![r].op = "schedule"]
    /\ UNCHANGED <<workflow, scrutinizer, ver, bank, msgs, exec, now, faults, raced, lost>>

\* The release task is published after the commit, with release_at as ETA.
SealSchedule(r) ==
    /\ req[r].op = "schedule"
    /\ msgs' = [msgs EXCEPT ![ReleaseMsg(req[r].at)] = "queued"]
    /\ End(r)
    /\ UNCHANGED <<row, ver, bank, exec, now, faults, history>>
ForceReleaseCheck(r) ==
    /\ status = "SEALED"
    /\ Begin(r, Asked("forceRelease"))

ForceReleaseWrite(r) ==
    /\ req[r].op = "forceRelease"
    /\ status' = "RELEASED"
    /\ gates' = gates \cup {"forceRelease"}
    /\ End(r)
    /\ UNCHANGED <<workflow, scrutinizer, releaseAt, ver, bank, msgs, exec, now,
                   faults, raced, lost>>

----------------------------------------------------------------------------
(* generate_exam_paper: three commits (GENERATING; the questions;          *)
(* GENERATED), and FAILED on any exception, which keeps what was committed.*)

GenerationStart(w) ==
    /\ exec[w] = IdleExec
    /\ msgs[GenMsg] = "queued"
    /\ msgs' = [msgs EXCEPT ![GenMsg] = w]
    /\ exec' = [exec EXCEPT ![w] = [m |-> GenMsg, phase |-> "generating"]]
    /\ status' = "GENERATING"
    /\ UNCHANGED <<workflow, scrutinizer, releaseAt, ver, bank, req, now, faults,
                   history>>

GenerationSave(w) ==
    /\ exec[w].phase = "generating"
    /\ \E G \in SUBSET (Questions \ Present) \ {{}} :
          ver' = [q \in Questions |-> IF q \in G THEN 1 ELSE ver[q]]
    /\ exec' = [exec EXCEPT ![w].phase = "saved"]
    /\ UNCHANGED <<row, bank, req, msgs, now, faults, history>>
GenerationFinish(w) ==
    /\ exec[w].phase = "saved"
    /\ status' = "GENERATED"
    /\ msgs' = AckBy(w)
    /\ Done(w)
    /\ UNCHANGED <<workflow, scrutinizer, releaseAt, ver, bank, req, now, faults,
                   history>>

\* A transient error is retried; any other ends the task.  The write of
\* FAILED is itself best effort.
GenerationFail(w) ==
    /\ exec[w].phase \in {"generating", "saved"}
    /\ \/ status' = "FAILED" /\ UNCHANGED lost
       \/ lost' = TRUE /\ UNCHANGED status
    /\ \/ msgs' = AckBy(w) /\ UNCHANGED faults
       \/ msgs' = RetryBy(w) /\ Fault
    /\ Done(w)
    /\ UNCHANGED <<workflow, scrutinizer, releaseAt, ver, bank, req, now, gates, raced>>

----------------------------------------------------------------------------
(* regenerate_exam_question: validate, call the model, update the row.     *)

RegenerationStart(w, q) ==
    /\ exec[w] = IdleExec
    /\ msgs[RegenMsg(q)] = "queued"
    /\ status \in Editable
    /\ q \in Present
    /\ msgs' = [msgs EXCEPT ![RegenMsg(q)] = w]
    /\ exec' = [exec EXCEPT ![w] = [m |-> RegenMsg(q), phase |-> "regenerating"]]
    /\ UNCHANGED <<row, ver, bank, req, now, faults, history>>

\* The paper is no longer editable or the question is gone: the task fails.
RegenerationReject(w, q) ==
    /\ exec[w] = IdleExec
    /\ msgs[RegenMsg(q)] = "queued"
    /\ status \notin Editable \/ q \notin Present
    /\ msgs' = [msgs EXCEPT ![RegenMsg(q)] = "none"]
    /\ UNCHANGED <<row, ver, bank, req, exec, now, faults, history>>

RegenerationFinish(w) ==
    /\ exec[w].phase = "regenerating"
    /\ \E v \in 1..MaxVer :
          ver' = [ver EXCEPT ![exec[w].m.q] = IF @ = 0 THEN 0 ELSE v]
    /\ msgs' = AckBy(w)
    /\ Done(w)
    /\ UNCHANGED <<row, bank, req, now, faults, history>>

RegenerationFail(w) ==
    /\ exec[w].phase = "regenerating"
    /\ \/ msgs' = AckBy(w) /\ UNCHANGED faults
       \/ msgs' = RetryBy(w) /\ Fault
    /\ Done(w)
    /\ UNCHANGED <<row, ver, bank, req, now, history>>

----------------------------------------------------------------------------
(* release_exam_paper, at its ETA: ExamService.release.                    *)

ReleaseStart(w, at) ==
    /\ exec[w] = IdleExec
    /\ msgs[ReleaseMsg(at)] = "queued"
    /\ at <= now
    /\ status = "SEALED"
    /\ releaseAt <= now
    /\ msgs' = [msgs EXCEPT ![ReleaseMsg(at)] = w]
    /\ exec' = [exec EXCEPT ![w] = [m |-> ReleaseMsg(at), phase |-> "releasing"]]
    /\ UNCHANGED <<row, ver, bank, req, now, faults, history>>

\* Mutant: the task treats its own release time as too early.
ReleaseSkipMutant(w, at) ==
    /\ exec[w] = IdleExec
    /\ msgs[ReleaseMsg(at)] = "queued"
    /\ at <= now
    /\ status # "SEALED" \/ releaseAt >= now
    /\ msgs' = [msgs EXCEPT ![ReleaseMsg(at)] = "none"]
    /\ UNCHANGED <<row, ver, bank, req, exec, now, faults, history>>

\* Not sealed (already released): return.  TOO_EARLY is no transient error:
\* the task fails and is not retried.
ReleaseSkip(w, at) ==
    /\ exec[w] = IdleExec
    /\ msgs[ReleaseMsg(at)] = "queued"
    /\ at <= now
    /\ status # "SEALED" \/ releaseAt > now
    /\ msgs' = [msgs EXCEPT ![ReleaseMsg(at)] = "none"]
    /\ UNCHANGED <<row, ver, bank, req, exec, now, faults, history>>

ReleaseFinish(w) ==
    /\ exec[w].phase = "releasing"
    /\ status' = "RELEASED"
    /\ msgs' = AckBy(w)
    /\ Done(w)
    /\ UNCHANGED <<workflow, scrutinizer, releaseAt, ver, bank, req, now, faults,
                   history>>

\* A transient error: retried, at most five times (MaxFaults stays below).
ReleaseRetry(w) ==
    /\ exec[w].phase = "releasing"
    /\ Fault
    /\ msgs' = RetryBy(w)
    /\ Done(w)
    /\ UNCHANGED <<row, ver, bank, req, now, history>>

----------------------------------------------------------------------------
(* The environment.                                                        *)

\* The API process dies or the database call fails: the request is gone,
\* what it committed stays.
Abandon(r) ==
    /\ req[r].op # "idle"
    /\ Fault
    /\ End(r)
    /\ UNCHANGED <<row, ver, bank, msgs, exec, now, history>>

\* The container of a worker dies in a task body: the message stays
\* unacknowledged.
WorkerCrash(w) ==
    /\ exec[w] # IdleExec
    /\ Fault
    /\ Done(w)
    /\ UNCHANGED <<row, ver, bank, req, msgs, now, history>>

\* The pool process dies in a task body and the worker acknowledges for it.
ProcessLost(w) ==
    /\ exec[w] # IdleExec
    /\ Fault
    /\ msgs' = AckBy(w)
    /\ Done(w)
    /\ lost' = TRUE
    /\ UNCHANGED <<row, ver, bank, req, now, gates, raced>>

\* Redis delivers an unacknowledged message again: its worker died, or the
\* body outlived the visibility timeout (a fault).
Redeliver(m) ==
    /\ msgs[m] \in Workers
    /\ \/ exec[msgs[m]].m # m /\ UNCHANGED faults
       \/ exec[msgs[m]].m = m /\ Fault
    /\ msgs' = [msgs EXCEPT ![m] = "queued"]
    /\ raced' = (raced \/ m = GenMsg)
    /\ UNCHANGED <<row, ver, bank, req, exec, now, gates, lost>>

Tick ==
    /\ now < MaxTime
    /\ now' = now + 1
    /\ UNCHANGED <<row, ver, bank, req, msgs, exec, faults, history>>

----------------------------------------------------------------------------
Check(r) ==
    \/ \E q \in Questions : UpdateQuestionCheck(r, q) \/ DeleteQuestionCheck(r, q)
    \/ SubmitForReviewCheck(r)
    \/ FacultyApproveCheck(r)
    \/ ForceReleaseCheck(r)
    \/ \E ok \in BOOLEAN : BoardDecideCheck(r, ok)
    \/ \E u \in Users : AssignScrutinizerCheck(r, u)
    \/ \E u \in Users, ok \in BOOLEAN : ScrutinizeCheck(r, u, ok)
    \/ \E at \in 0..MaxTime : SealCheck(r, at)

Write(r) ==
    \/ CreateJob(r) \/ DispatchGeneration(r) \/ QueueUnavailable(r)
    \/ UpdateQuestionWrite(r) \/ DeleteQuestionWrite(r)
    \/ SubmitForReviewWrite(r) \/ BoardDecideWrite(r) \/ FacultyApproveWrite(r)
    \/ AssignScrutinizerWrite(r) \/ ScrutinizeWrite(r)
    \/ SealWrite(r) \/ SealSchedule(r) \/ ForceReleaseWrite(r)

Take(w) ==
    \/ GenerationStart(w)
    \/ \E q \in Questions : RegenerationStart(w, q) \/ RegenerationReject(w, q)
    \/ \E at \in 0..MaxTime : ReleaseStart(w, at) \/ ReleaseSkip(w, at)

Work(w) ==
    \/ GenerationSave(w) \/ GenerationFinish(w) \/ GenerationFail(w)
    \/ RegenerationFinish(w) \/ RegenerationFail(w)
    \/ ReleaseFinish(w) \/ ReleaseRetry(w)

Next ==
    \/ \E r \in Reqs : CreatePaper(r) \/ Check(r) \/ Write(r) \/ Abandon(r)
    \/ \E q \in Questions : RegenerateQuestion(q)
    \/ \E w \in Workers : Take(w) \/ Work(w) \/ WorkerCrash(w) \/ ProcessLost(w)
    \/ \E m \in Msgs : Redeliver(m)
    \/ Tick

Spec == Init /\ [][Next]_vars
----------------------------------------------------------------------------
(* Fairness: a live API process and a live worker finish the step they are *)
(* in, an idle worker takes a due message, the broker gives a dead         *)
(* worker's message back, and time passes.  Users owe nothing: no Check.   *)

FairSpec ==
    /\ Spec
    /\ \A r \in Reqs : WF_vars(Write(r))
    /\ \A w \in Workers : WF_vars(Take(w)) /\ WF_vars(Work(w))
    /\ \A m \in Msgs : WF_vars(Redeliver(m))
    /\ WF_vars(Tick)

----------------------------------------------------------------------------
(* Properties.                                                             *)

\* The decisions a paper's own workflow asks for before it counts as approved.
Approval ==
    IF workflow = "INTERNAL" THEN {"facultyApprove"} ELSE {"submit", "boardApprove"}

\* AI advises, humans decide: whatever requests overlap, crash or are lost and
\* however often tasks are redelivered, a paper is only ever under review,
\* approved, sealed or released when the people its workflow names have taken
\* each earlier decision (the gates of ExamService, service.py).
HumanGates ==
    /\ status = "SUBMITTED" => "submit" \in gates
    /\ status \in {"BOARD_APPROVED", "SEALED", "RELEASED"} => Approval \subseteq gates
    /\ status \in {"SEALED", "RELEASED"} => "seal" \in gates

\* What a request or a task body found when it was checked and still relies on
\* when it writes is not undone in between, whoever else writes the row: no
\* handler repeats its check, the UPDATE names only the id.
PendingJustified ==
    /\ status = "SUBMITTED" => workflow # "INTERNAL"
    /\ \A r \in Reqs :
          /\ req[r].op = "submit" => workflow # "INTERNAL"
          /\ req[r].op = "board" => workflow # "INTERNAL" /\ "submit" \in gates
          /\ req[r].op = "facultyApprove" => workflow = "INTERNAL"
          /\ req[r].op = "seal" => Approval \subseteq gates
          /\ req[r].op = "forceRelease" => Approval \cup {"seal"} \subseteq gates
    /\ \A w \in Workers :
          exec[w].phase = "releasing" => Approval \cup {"seal"} \subseteq gates

\* The life of a paper as ExamPaperStatus and the task headers document it.
Lifecycle ==
    {<<"NONE", "DRAFT">>, <<"DRAFT", "GENERATING">>, <<"GENERATING", "GENERATED">>,
     <<"GENERATING", "FAILED">>, <<"FAILED", "GENERATING">>,
     <<"SUBMITTED", "BOARD_APPROVED">>, <<"SUBMITTED", "BOARD_RETURNED">>,
     <<"BOARD_APPROVED", "SEALED">>, <<"SEALED", "RELEASED">>}
    \cup Editable \X {IF workflow = "INTERNAL" THEN "BOARD_APPROVED" ELSE "SUBMITTED"}

LifecycleStep == status' # status => raced \/ <<status, status'>> \in Lifecycle

\* As long as no two requests overlapped and generation was not redelivered,
\* the status only moves along the documented lifecycle, although task bodies,
\* lost requests, worker crashes and retries interleave with the requests: in
\* particular nothing leaves RELEASED, and only a release leaves SEALED.
FollowsLifecycle == [][LifecycleStep]_vars

\* Without overlapping requests a paper under review or later has at least one
\* question: the NO_QUESTIONS checks of submit_for_review and faculty_approve
\* are not undone by a deletion or a failed generation.
ReviewedHasQuestions ==
    ~raced /\ status \in {"SUBMITTED", "BOARD_APPROVED", "SEALED", "RELEASED"}
        => Present # {}

\* Without overlapping requests board_decide promotes a question to the bank at
\* most once, through any number of returns and resubmissions, and an INTERNAL
\* paper promotes none.
BankedOnce ==
    ~raced => \A q \in Questions :
                  bank[q] <= IF workflow = "INTERNAL" THEN 0 ELSE 1

\* What is checked of a paper stays true of it: the three together.
PaperSound == PendingJustified /\ ReviewedHasQuestions /\ BankedOnce

\* A sealed paper whose release task reached the broker is released, through
\* container crashes, redeliveries and retries, unless requests overlapped or
\* the task itself was lost with its pool process.
SealedIsReleased ==
    (status = "SEALED" /\ msgs[ReleaseMsg(releaseAt)] # "none")
        ~> (status # "SEALED" \/ raced \/ lost)

\* A paper whose generation task reached the broker does not stay GENERATING,
\* through container crashes, retries and redeliveries, unless the task was
\* lost with its pool process or could not write FAILED: that is all that
\* acks_late leaves to chance.
GenerationEnds ==
    (status = "GENERATING" /\ msgs[GenMsg] # "none")
        ~> (status # "GENERATING" \/ lost)

\* What the queue has been given to do with a paper is done: neither the
\* generation nor the delayed release leaves the paper waiting for ever.
QueuedWorkEnds == SealedIsReleased /\ GenerationEnds
=============================================================================
