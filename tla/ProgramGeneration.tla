------------------------- MODULE ProgramGeneration -------------------------
(***************************************************************************)
(* M01 Program Advisor: one program, the requests that act on it, and the  *)
(* background machinery that generates its structure: the task_jobs rows   *)
(* that VidyaTask keeps (before_start, on_success, on_failure), Celery     *)
(* with acks_late, and the beat task stale_task_cleanup, which fails jobs  *)
(* that look stuck and reverts the program they belong to.                 *)
(*                                                                         *)
(* As in ExamPaper, a request is a check and a later write.  VidyaTask     *)
(* writes the job row in transactions of its own, before and after the     *)
(* task body, and swallows their errors.  The cleanup reads the stuck jobs *)
(* and updates them without looking again.                                 *)
(***************************************************************************)
EXTENDS Naturals, FiniteSets, TLC

CONSTANTS
    Reqs,        \* concurrent API requests
    Workers,     \* Celery worker processes
    Jobs,        \* ids a task_jobs row can have
    NoJob,
    MaxRetries,  \* max_retries of the task
    MaxFaults    \* bound: crashes, lost requests and writes, early redeliveries

ASSUME GenerationAssumption ==
    /\ MaxRetries \in Nat
    /\ MaxFaults \in Nat
    /\ NoJob \notin Jobs
    /\ {"none", "queued"} \cap Workers = {}

VARIABLES
    status,     \* programs.status; "GONE" once deleted
    compliant,  \* whether run_compliance_check passes on the stored structure
    job,        \* task_jobs.status of each job; "NONE" is no row
    old,        \* the job is past its PENDING or RUNNING timeout
    msg,        \* broker: "none", "queued", or the worker holding the message
    retries,    \* retries the message has behind it
    exec,       \* the job each worker is in, and how far it got
    selected,   \* jobs the running cleanup has read
    req,        \* the API requests between their check and their write
    faults,
    cur,        \* history: the job of the last dispatch
    done,       \* history: jobs whose body has committed
    raced,      \* history: two requests overlapped
    stray,      \* history: a message was redelivered, or a job cleaned up
                \*   that was not stuck
    lost        \* history: nothing is left that would end the last dispatch

program == <<status, compliant>>
queue == <<msg, retries, exec>>
history == <<cur, done, raced, stray, lost>>
vars == <<program, job, old, queue, selected, req, faults, history>>

----------------------------------------------------------------------------
ProgramStatus == {"DRAFT", "AI_GENERATING", "GENERATION_FAILED",
                  "PENDING_APPROVAL", "APPROVED"}

Live == {"PENDING", "RUNNING"}
TaskStatus == Live \cup {"SUCCESS", "FAILED"}

Ops == {"idle", "dispatch", "publish", "approve", "reject", "edit", "delete"}

Phases == {"idle", "running", "committed", "failed", "reverting"}

Asked(op) == [op |-> op, job |-> NoJob]
IdleExec == [job |-> NoJob, phase |-> "idle"]

TypeOK ==
    /\ status \in ProgramStatus \cup {"GONE"}
    /\ compliant \in BOOLEAN
    /\ job \in [Jobs -> TaskStatus \cup {"NONE"}]
    /\ old \in [Jobs -> BOOLEAN]
    /\ msg \in [Jobs -> {"none", "queued"} \cup Workers]
    /\ retries \in [Jobs -> 0..MaxRetries]
    /\ exec \in [Workers -> [job : Jobs \cup {NoJob}, phase : Phases]]
    /\ selected \in SUBSET Jobs
    /\ req \in [Reqs -> [op : Ops, job : Jobs \cup {NoJob}]]
    /\ faults \in 0..MaxFaults
    /\ cur \in Jobs \cup {NoJob}
    /\ done \in SUBSET Jobs
    /\ raced \in BOOLEAN /\ stray \in BOOLEAN /\ lost \in BOOLEAN

\* create_program has stored a DRAFT.
Init ==
    /\ status = "DRAFT"
    /\ compliant \in BOOLEAN
    /\ job = [j \in Jobs |-> "NONE"]
    /\ old = [j \in Jobs |-> FALSE]
    /\ msg = [j \in Jobs |-> "none"]
    /\ retries = [j \in Jobs |-> 0]
    /\ exec = [w \in Workers |-> IdleExec]
    /\ selected = {}
    /\ req = [r \in Reqs |-> Asked("idle")]
    /\ faults = 0
    /\ cur = NoJob
    /\ done = {}
    /\ raced = FALSE /\ stray = FALSE /\ lost = FALSE

----------------------------------------------------------------------------
(* Parts of the handlers.                                                  *)

Begin(r, op) ==
    /\ req[r].op = "idle"
    /\ req' = [req EXCEPT ![r] = Asked(op)]
    /\ raced' = (raced \/ \E s \in Reqs \ {r} : req[s].op \notin {"idle", "publish"})
    /\ UNCHANGED <<program, job, old, queue, selected, faults, cur, done, stray, lost>>

End(r) == req' = [req EXCEPT ![r] = Asked("idle")]

\* UPDATE programs SET status = s WHERE id = ...: a deleted row stays deleted.
Put(s) == status' = IF status = "GONE" THEN "GONE" ELSE s

AckBy(w) == [msg EXCEPT ![exec[w].job] = IF @ = w THEN "none" ELSE @]
Done(w) == exec' = [exec EXCEPT ![w] = IdleExec]

Fault == faults < MaxFaults /\ faults' = faults + 1

\* _write_status: the job row takes s, or the error is logged and swallowed.
WriteStatus(j, s) ==
    \/ job' = [job EXCEPT ![j] = s] /\ UNCHANGED faults
    \/ Fault /\ UNCHANGED job

\* History: worker w leaves its job with no message and no job row the cleanup
\* would pick up.
Forget(w) ==
    lost' = (lost \/ (job[exec[w].job] \notin Live /\ msg'[exec[w].job] = "none"))

----------------------------------------------------------------------------
(* ProgramService.dispatch_ai_generation: the job row and AI_GENERATING    *)
(* are committed together, then the task is published.                     *)

DispatchCheck(r) ==
    /\ status \in {"DRAFT", "GENERATION_FAILED"}
    /\ Begin(r, "dispatch")

DispatchWrite(r) ==
    /\ req[r].op = "dispatch"
    /\ \/ /\ status # "GONE"
          /\ \E j \in Jobs :
                /\ job[j] = "NONE"
                /\ job' = [job EXCEPT ![j] = "PENDING"]
                /\ req' = [req EXCEPT ![r] = [op |-> "publish", job |-> j]]
                /\ cur' = j
          /\ status' = "AI_GENERATING"
       \/ /\ status = "GONE"
          /\ End(r)
          /\ UNCHANGED <<status, job, cur>>
    /\ UNCHANGED <<compliant, old, queue, selected, faults, done, raced, stray, lost>>

PublishGeneration(r) ==
    /\ req[r].op = "publish"
    /\ msg' = [msg EXCEPT ![req[r].job] = "queued"]
    /\ End(r)
    /\ UNCHANGED <<program, job, old, retries, exec, selected, faults, history>>

----------------------------------------------------------------------------
(* The Dean's decision and the edits.                                      *)

ApproveCheck(r) ==
    /\ status = "PENDING_APPROVAL"
    /\ compliant
    /\ Begin(r, "approve")

ApproveWrite(r) ==
    /\ req[r].op = "approve"
    /\ Put("APPROVED")
    /\ End(r)
    /\ UNCHANGED <<compliant, job, old, queue, selected, faults, history>>

\* Mutant: an approved program can be rejected.
RejectCheckMutant(r) ==
    /\ status \in {"PENDING_APPROVAL", "APPROVED"}
    /\ Begin(r, "reject")

RejectCheck(r) ==
    /\ status = "PENDING_APPROVAL"
    /\ Begin(r, "reject")

RejectWrite(r) ==
    /\ req[r].op = "reject"
    /\ Put("DRAFT")
    /\ End(r)
    /\ UNCHANGED <<compliant, job, old, queue, selected, faults, history>>

\* Mutant: courses of an approved program can still be edited.
EditCourseCheckMutant(r) ==
    /\ status \in {"DRAFT", "PENDING_APPROVAL", "APPROVED"}
    /\ Begin(r, "edit")

\* add_course, update_course, delete_course
EditCourseCheck(r) ==
    /\ status \in {"DRAFT", "PENDING_APPROVAL"}
    /\ Begin(r, "edit")

\* update_program, add_outcome, update_outcome, delete_outcome
EditDraftCheck(r) ==
    /\ status = "DRAFT"
    /\ Begin(r, "edit")

\* Any edit can make the structure compliant or break it.
EditWrite(r) ==
    /\ req[r].op = "edit"
    /\ compliant' \in BOOLEAN
    /\ End(r)
    /\ UNCHANGED <<status, job, old, queue, selected, faults, history>>

DeleteCheck(r) ==
    /\ status = "DRAFT"
    /\ Begin(r, "delete")

DeleteWrite(r) ==
    /\ req[r].op = "delete"
    /\ status' = "GONE"
    /\ End(r)
    /\ UNCHANGED <<compliant, job, old, queue, selected, faults, history>>

----------------------------------------------------------------------------
(* generate_program_structure under VidyaTask.                             *)

\* before_start: RUNNING, with a new started_at.
BeforeStart(w, j) ==
    /\ exec[w] = IdleExec
    /\ msg[j] = "queued"
    /\ msg' = [msg EXCEPT ![j] = w]
    /\ exec' = [exec EXCEPT ![w] = [job |-> j, phase |-> "running"]]
    /\ WriteStatus(j, "RUNNING")
    /\ old' = [old EXCEPT ![j] = @ /\ job'[j] # "RUNNING"]
    /\ UNCHANGED <<program, retries, selected, req, history>>

\* _run_generation replaces the AI courses and moves the program on, in one
\* commit and whatever its status has become.
RunGeneration(w) ==
    /\ exec[w].phase = "running"
    /\ status # "GONE"
    /\ status' = "PENDING_APPROVAL"
    /\ compliant' \in BOOLEAN
    /\ exec' = [exec EXCEPT ![w].phase = "committed"]
    /\ done' = done \cup {exec[w].job}
    /\ UNCHANGED <<job, old, msg, retries, selected, req, faults, cur, raced, stray, lost>>

\* Any other error, or a transient one after max_retries.
GenerationError(w) ==
    /\ exec[w].phase = "running"
    /\ exec' = [exec EXCEPT ![w].phase = "failed"]
    /\ UNCHANGED <<program, job, old, msg, retries, selected, req, faults, history>>

\* Mutant: one retry too many.
OnRetryMutant(w) ==
    /\ exec[w].phase = "running"
    /\ retries[exec[w].job] <= MaxRetries
    /\ retries' = [retries EXCEPT ![exec[w].job] = @ + 1]
    /\ msg' = [msg EXCEPT ![exec[w].job] = "queued"]
    /\ Done(w)
    /\ UNCHANGED <<program, job, old, selected, req, faults, history>>

\* autoretry_for: the message is published again.
OnRetry(w) ==
    /\ exec[w].phase = "running"
    /\ retries[exec[w].job] < MaxRetries
    /\ retries' = [retries EXCEPT ![exec[w].job] = @ + 1]
    /\ msg' = [msg EXCEPT ![exec[w].job] = "queued"]
    /\ Done(w)
    /\ UNCHANGED <<program, job, old, selected, req, faults, history>>

OnSuccess(w) ==
    /\ exec[w].phase = "committed"
    /\ WriteStatus(exec[w].job, "SUCCESS")
    /\ msg' = AckBy(w)
    /\ Done(w)
    /\ UNCHANGED <<program, old, retries, selected, req, history>>

\* Mutant: a failed job is reported as done.
OnFailureMutant(w) ==
    /\ exec[w].phase = "failed"
    /\ WriteStatus(exec[w].job, "SUCCESS")
    /\ exec' = [exec EXCEPT ![w].phase = "reverting"]
    /\ UNCHANGED <<program, old, msg, retries, selected, req, history>>

OnFailure(w) ==
    /\ exec[w].phase = "failed"
    /\ WriteStatus(exec[w].job, "FAILED")
    /\ exec' = [exec EXCEPT ![w].phase = "reverting"]
    /\ UNCHANGED <<program, old, msg, retries, selected, req, history>>

\* Mutant: the task was published without its _revert_* arguments.
RevertEntityStatusMutant(w) ==
    /\ exec[w].phase = "reverting"
    /\ msg' = AckBy(w)
    /\ Done(w)
    /\ UNCHANGED <<program, job, old, retries, selected, req, faults, history>>

\* _revert_entity_status, whose error is swallowed too.
RevertEntityStatus(w) ==
    /\ exec[w].phase = "reverting"
    /\ msg' = AckBy(w)
    /\ \/ Put("GENERATION_FAILED") /\ UNCHANGED <<faults, lost>>
       \/ Fault /\ Forget(w) /\ UNCHANGED status
    /\ Done(w)
    /\ UNCHANGED <<compliant, job, old, retries, selected, req, cur, done, raced, stray>>

----------------------------------------------------------------------------
(* stale_task_cleanup.                                                     *)

\* 10 minutes after created_at, or 30 after started_at.
Age(j) ==
    /\ job[j] \in Live
    /\ ~old[j]
    /\ old' = [old EXCEPT ![j] = TRUE]
    /\ UNCHANGED <<program, job, queue, selected, req, faults, history>>

\* Mutant: only RUNNING jobs are looked for.
CleanupSelectMutant ==
    /\ selected = {}
    /\ selected' = {j \in Jobs : job[j] = "RUNNING" /\ old[j]}
    /\ selected' # {}
    /\ UNCHANGED <<program, job, old, queue, req, faults, history>>

CleanupSelect ==
    /\ selected = {}
    /\ selected' = {j \in Jobs : job[j] \in Live /\ old[j]}
    /\ selected' # {}
    /\ UNCHANGED <<program, job, old, queue, req, faults, history>>

\* The job is no stuck one: it is superseded, about to be published, the broker
\* has its message, or it has ended.
NotStuck(j) ==
    \/ j # cur
    \/ \E r \in Reqs : req[r].job = j
    \/ msg[j] # "none"
    \/ job[j] \notin Live
    \/ j \in done

\* One transaction: the jobs FAILED, their programs reverted.
CleanupCommit ==
    /\ selected # {}
    /\ job' = [j \in Jobs |-> IF j \in selected THEN "FAILED" ELSE job[j]]
    /\ Put("GENERATION_FAILED")
    /\ selected' = {}
    /\ stray' = (stray \/ \E j \in selected : NotStuck(j))
    /\ UNCHANGED <<compliant, old, queue, req, faults, cur, done, raced, lost>>

----------------------------------------------------------------------------
(* The environment.                                                        *)

Abandon(r) ==
    /\ req[r].op # "idle"
    /\ Fault
    /\ End(r)
    /\ UNCHANGED <<program, job, old, queue, selected, history>>

\* The cleanup's transaction is rolled back.
CleanupAbort ==
    /\ selected # {}
    /\ Fault
    /\ selected' = {}
    /\ UNCHANGED <<program, job, old, queue, req, history>>

\* The container of a worker dies: the message stays unacknowledged.
WorkerCrash(w) ==
    /\ exec[w] # IdleExec
    /\ Fault
    /\ UNCHANGED msg
    /\ Forget(w)
    /\ Done(w)
    /\ UNCHANGED <<program, job, old, retries, selected, req, cur, done, raced, stray>>

\* The pool process dies: the worker acknowledges the message for it.
ProcessLost(w) ==
    /\ exec[w] # IdleExec
    /\ Fault
    /\ msg' = AckBy(w)
    /\ Forget(w)
    /\ Done(w)
    /\ UNCHANGED <<program, job, old, retries, selected, req, cur, done, raced, stray>>

\* The worker died, or the visibility timeout passed (a fault).
Redeliver(j) ==
    /\ msg[j] \in Workers
    /\ \/ exec[msg[j]].job # j /\ UNCHANGED faults
       \/ exec[msg[j]].job = j /\ Fault
    /\ msg' = [msg EXCEPT ![j] = "queued"]
    /\ stray' = TRUE
    /\ UNCHANGED <<program, job, old, retries, exec, selected, req, cur, done, raced, lost>>

----------------------------------------------------------------------------
Check(r) ==
    \/ DispatchCheck(r) \/ ApproveCheck(r) \/ RejectCheck(r)
    \/ EditCourseCheck(r) \/ EditDraftCheck(r) \/ DeleteCheck(r)

Write(r) ==
    \/ DispatchWrite(r) \/ PublishGeneration(r) \/ ApproveWrite(r) \/ RejectWrite(r)
    \/ EditWrite(r) \/ DeleteWrite(r)

Work(w) ==
    \/ RunGeneration(w) \/ GenerationError(w) \/ OnRetry(w)
    \/ OnSuccess(w) \/ OnFailure(w) \/ RevertEntityStatus(w)

Cleanup == CleanupSelect \/ CleanupCommit

Next ==
    \/ \E r \in Reqs : Check(r) \/ Write(r) \/ Abandon(r)
    \/ \E w \in Workers : Work(w) \/ WorkerCrash(w) \/ ProcessLost(w)
    \/ \E w \in Workers, j \in Jobs : BeforeStart(w, j)
    \/ \E j \in Jobs : Age(j) \/ Redeliver(j)
    \/ Cleanup \/ CleanupAbort

Spec == Init /\ [][Next]_vars

\* Requests and task bodies that run finish their step, an idle worker takes a
\* queued message, the broker gives a dead worker's message back, jobs age and
\* beat runs the cleanup every five minutes (celery_app's beat_schedule).
FairSpec ==
    /\ Spec
    /\ \A r \in Reqs : WF_vars(Write(r))
    /\ \A w \in Workers : WF_vars(Work(w)) /\ WF_vars(\E j \in Jobs : BeforeStart(w, j))
    /\ \A j \in Jobs : WF_vars(Age(j)) /\ WF_vars(Redeliver(j))
    /\ WF_vars(Cleanup)

\* Requests, workers and jobs are interchangeable.
Symmetry == Permutations(Reqs) \cup Permutations(Workers) \cup Permutations(Jobs)

----------------------------------------------------------------------------
(* Properties.                                                             *)

\* A program that is AI_GENERATING can always still leave that state: the job
\* of its last dispatch is one stale_task_cleanup will find, or its message is
\* still in the broker, or a worker is about to revert it.  Only an error or a
\* kill between on_failure's two writes (lost) breaks this, whatever crashes,
\* lost publications, swallowed writes and redeliveries happen.
Recoverable ==
    status = "AI_GENERATING" /\ ~lost =>
        \/ job[cur] \in Live
        \/ msg[cur] # "none"
        \/ \E w \in Workers : exec[w] = [job |-> cur, phase |-> "reverting"]

\* A job is SUCCESS only after its body committed, whichever worker ran it and
\* whatever the cleanup did in between.
SuccessMeansCommitted == \A j \in Jobs : job[j] = "SUCCESS" => j \in done

\* Without overlapping requests or a stray task an approved program is one that
\* passes the compliance check: approve's check is not undone by an edit.
ApprovedIsCompliant == status = "APPROVED" /\ ~raced /\ ~stray => compliant

\* An approved program stays approved as long as requests do not overlap, no
\* message is redelivered and the cleanup takes no live, ended or superseded job
\* for a stuck one: retries, crashes and lost requests alone never demote it.
ApprovedStays == [][status = "APPROVED" /\ status' # status => raced \/ stray']_vars

\* Generation settles: a program does not stay AI_GENERATING, although the
\* publication, the worker or a status write may be lost.
GenerationSettles == status = "AI_GENERATING" ~> (status # "AI_GENERATING" \/ lost)
=============================================================================
