----------------------------- MODULE PaperAdmin -----------------------------
(***************************************************************************)
(* M09: one scanned answer script, from its upload through the Celery      *)
(* tasks that check, read and score the scan, to the evaluator's gate      *)
(* (submit_marks) and the Board's gate (board_finalise), which writes the  *)
(* score ledger.                                                           *)
(*                                                                         *)
(* A request is its SELECT and checks (XxxCheck) and later its writes and  *)
(* COMMIT (XxxWrite).  The writes of marks lock the rows they touch until  *)
(* the COMMIT, so a write is one step; the UPDATE of scanned_scripts names *)
(* only the id.  The three tasks of the pipeline never look at the status  *)
(* they find: each writes its own and publishes the next task.  A message  *)
(* is acknowledged after its body (task_acks_late), so a message whose     *)
(* worker dies, or runs too long, is delivered again.                      *)
(***************************************************************************)
EXTENDS Naturals, FiniteSets

CONSTANTS
    Reqs,       \* concurrent API requests
    Workers,    \* Celery worker processes
    Users,      \* evaluators
    Questions,  \* questions a paper can have
    MaxMark,    \* bound: the marks of a question
    NoMark,     \* NULL
    MaxFaults   \* bound: crashes, lost answers, redeliveries, retries

ASSUME PaperAdminAssumption ==
    /\ IsFiniteSet(Questions)
    /\ MaxMark \in Nat
    /\ NoMark \notin Nat
    /\ MaxFaults \in Nat

VARIABLES
    status,     \* scanned_scripts.status; "NONE" is no row
    text,       \* ocr_text is there
    assigned,   \* evaluator_id and second_evaluator_id
    paper,      \* the questions of the exam paper
    rows,       \* script_evaluations: the questions that have a row,
    mark,       \*   their evaluator_marks
    final,      \*   and their final_marks
    total,      \* exam_score_ledger.total_marks
    queue,      \* messages in the broker, by task
    exec,       \* what each worker runs
    req,        \* the requests between their check and their write
    faults,
    raced,      \* history: two requests overlapped
    stray,      \* history: a task ran again, or was started, after the script moved on
    lost        \* history: a message or a request is gone for good

script == <<status, text, assigned, paper>>
evaluations == <<rows, mark, final>>
broker == <<queue, exec>>
history == <<raced, stray, lost>>
vars == <<script, evaluations, total, broker, req, faults, history>>

\* What the ledger promises: total and final refine ScoreLedger's.
Ledger == INSTANCE ScoreLedger

----------------------------------------------------------------------------
ScriptStatus == {"PENDING", "QUALITY_CHECKING", "QUALITY_FAILED", "OCR_PROCESSING",
                 "PROCESSING", "SCORED", "FAILED", "REVIEW_REQUIRED",
                 "MARKS_SUBMITTED", "BOARD_FINALISED"}

Markable == {"SCORED", "REVIEW_REQUIRED"}
Gated == {"MARKS_SUBMITTED", "BOARD_FINALISED"}
InPipeline == {"PENDING", "QUALITY_CHECKING", "OCR_PROCESSING", "PROCESSING"}

Tasks == {"quality", "ocr", "score"}

Ops == {"idle", "setJob", "dispatch", "assign", "mark", "submit",
        "finalise", "override", "dispatchOcr"}

Request == [op : Ops, given : Ledger!Marks, users : SUBSET Users]

Asked(op) == [op |-> op, given |-> Ledger!Nothing, users |-> {}]

\* A body runs, has saved its result but not published the next task, or has
\* only its acknowledgement left.
Phases == {"idle", "running", "saved", "over"}

IdleExec == [task |-> "quality", phase |-> "idle", text |-> FALSE]

TypeOK ==
    /\ status \in ScriptStatus \cup {"NONE"}
    /\ text \in BOOLEAN
    /\ assigned \in SUBSET Users
    /\ paper \in SUBSET Questions /\ rows \in {{}, paper}
    /\ mark \in Ledger!Marks /\ final \in Ledger!Marks
    /\ total \in {Ledger!SumOf(m) : m \in Ledger!Marks} \cup {NoMark}
    /\ queue \in [Tasks -> Nat]
    /\ exec \in [Workers -> [task : Tasks, phase : Phases, text : BOOLEAN]]
    /\ req \in [Reqs -> Request]
    /\ faults \in 0..MaxFaults
    /\ raced \in BOOLEAN /\ stray \in BOOLEAN /\ lost \in BOOLEAN

Init ==
    /\ status = "NONE"
    /\ text = FALSE
    /\ assigned = {}
    /\ paper \in SUBSET Questions /\ rows = {}
    /\ mark = Ledger!Nothing /\ final = Ledger!Nothing
    /\ total = NoMark
    /\ queue = [t \in Tasks |-> 0]
    /\ exec = [w \in Workers |-> IdleExec]
    /\ req = [r \in Reqs |-> Asked("idle")]
    /\ faults = 0
    /\ raced = FALSE /\ stray = FALSE /\ lost = FALSE

----------------------------------------------------------------------------
(* Parts of the handlers.                                                  *)

\* The checks passed: the request has still to write.
Begin(r, a) ==
    /\ req[r].op = "idle"
    /\ req' = [req EXCEPT ![r] = a]
    /\ raced' = (raced \/ \E s \in Reqs \ {r} : req[s].op # "idle")
    /\ UNCHANGED <<script, evaluations, total, broker, faults, stray, lost>>

End(r) == req' = [req EXCEPT ![r] = Asked("idle")]

Publish(t) == queue' = [queue EXCEPT ![t] = @ + 1]

Fault == faults < MaxFaults /\ faults' = faults + 1

\* bulk_update_evaluator_marks: the marks given for questions that have a row.
Overlay(given) ==
    [q \in Questions |-> IF q \in rows /\ given[q] # NoMark THEN given[q] ELSE mark[q]]

\* evaluator_marks of every row is set, and there is a row.
Complete(m) == rows # {} /\ \A q \in rows : m[q] # NoMark

----------------------------------------------------------------------------
(* ingest_script: the script, then its job and PROCESSING, then the task:  *)
(* scoring at once for a script without a file.                            *)

CreateScript(r) ==
    /\ status = "NONE"
    /\ req[r].op = "idle"
    /\ status' = "PENDING"
    /\ req' = [req EXCEPT ![r] = Asked("setJob")]
    /\ UNCHANGED <<text, assigned, paper, evaluations, total, broker, faults, history>>

SetEvalJob(r) ==
    /\ req[r].op = "setJob"
    /\ status' = "PROCESSING"
    /\ req' = [req EXCEPT ![r] = Asked("dispatch")]
    /\ UNCHANGED <<text, assigned, paper, evaluations, total, broker, faults, history>>

DispatchScript(r) ==
    /\ req[r].op = "dispatch"
    /\ Publish("quality") \/ Publish("score")
    /\ End(r)
    /\ UNCHANGED <<script, evaluations, total, exec, faults, history>>

----------------------------------------------------------------------------
(* The Admin: evaluators, and the override of a failed quality check.      *)

AssignEvaluatorCheck(r, users) ==
    /\ status \notin {"NONE", "BOARD_FINALISED"}
    /\ Cardinality(users) \in 1..2
    /\ Begin(r, [Asked("assign") EXCEPT !.users = users])

AssignEvaluatorWrite(r) ==
    /\ req[r].op = "assign"
    /\ assigned' = req[r].users
    /\ End(r)
    /\ UNCHANGED <<status, text, paper, evaluations, total, broker, faults, history>>

OverrideQualityCheck(r) ==
    /\ status = "QUALITY_FAILED"
    /\ Begin(r, Asked("override"))

OverrideQualityWrite(r) ==
    /\ req[r].op = "override"
    /\ status' = "OCR_PROCESSING"
    /\ req' = [req EXCEPT ![r] = Asked("dispatchOcr")]
    /\ stray' = (stray \/ status # "QUALITY_FAILED")
    /\ UNCHANGED <<text, assigned, paper, evaluations, total, broker, faults, raced, lost>>

OverrideQualityDispatch(r) ==
    /\ req[r].op = "dispatchOcr"
    /\ Publish("ocr")
    /\ End(r)
    /\ UNCHANGED <<script, evaluations, total, exec, faults, history>>

----------------------------------------------------------------------------
(* The evaluator.  Only submit_marks asks who is assigned.                 *)

UpdateMarksCheck(r, given) ==
    /\ status \in Markable
    /\ given # Ledger!Nothing
    /\ Begin(r, [Asked("mark") EXCEPT !.given = given])

\* accept_suggestions saves the ai_suggested_marks, any marks here, of the
\* questions that have one.
AcceptSuggestionsCheck(r, suggested) ==
    /\ status \in Markable
    /\ Begin(r, [Asked("mark") EXCEPT !.given = suggested])

UpdateMarksWrite(r) ==
    /\ req[r].op = "mark"
    /\ mark' = Overlay(req[r].given)
    /\ End(r)
    /\ UNCHANGED <<script, rows, final, total, broker, faults, history>>

\* Mutant: a finalised script can be submitted again.
SubmitMarksCheckMutant(r, u, given) ==
    /\ u \in assigned
    /\ status \in Markable \cup {"BOARD_FINALISED"}
    /\ given # Ledger!Nothing
    /\ Begin(r, [Asked("submit") EXCEPT !.given = given])

SubmitMarksCheck(r, u, given) ==
    /\ u \in assigned
    /\ status \in Markable
    /\ given # Ledger!Nothing
    /\ Begin(r, [Asked("submit") EXCEPT !.given = given])

\* Mutant: the completeness check looks only at the questions given.
SubmitMarksWriteMutant(r) ==
    /\ req[r].op = "submit"
    /\ LET new == Overlay(req[r].given)
       IN  /\ rows # {}
           /\ mark' = new
           /\ status' = "MARKS_SUBMITTED"
    /\ End(r)
    /\ UNCHANGED <<text, assigned, paper, rows, final, total, broker,
                   faults, history>>

\* NO_EVALUATIONS and INCOMPLETE_MARKS roll the marks back.
SubmitMarksWrite(r) ==
    /\ req[r].op = "submit"
    /\ LET new == Overlay(req[r].given)
       IN  \/ /\ Complete(new)
              /\ mark' = new
              /\ status' = "MARKS_SUBMITTED"
           \/ /\ ~Complete(new)
              /\ UNCHANGED <<mark, status>>
    /\ End(r)
    /\ UNCHANGED <<text, assigned, paper, rows, final, total, broker,
                   faults, history>>

----------------------------------------------------------------------------
(* The Board.                                                              *)

BoardFinaliseCheck(r) ==
    /\ status = "MARKS_SUBMITTED"
    /\ Begin(r, Asked("finalise"))

\* Mutant: the ledger row is updated when it is already there.
BoardFinaliseWriteMutant(r) ==
    /\ req[r].op = "finalise"
    /\ final' = [q \in Questions |-> IF q \in rows THEN mark[q] ELSE NoMark]
    /\ total' = Ledger!SumOf(final')
    /\ status' = "BOARD_FINALISED"
    /\ End(r)
    /\ UNCHANGED <<text, assigned, paper, rows, mark, broker, faults, history>>

\* exam_score_ledger.script_id is unique: a second row rolls everything back.
BoardFinaliseWrite(r) ==
    /\ req[r].op = "finalise"
    /\ \/ /\ total = NoMark
          /\ final' = [q \in Questions |-> IF q \in rows THEN mark[q] ELSE NoMark]
          /\ total' = Ledger!SumOf(final')
          /\ status' = "BOARD_FINALISED"
       \/ /\ total # NoMark
          /\ UNCHANGED <<final, total, status>>
    /\ End(r)
    /\ UNCHANGED <<text, assigned, paper, rows, mark, broker, faults, history>>

----------------------------------------------------------------------------
(* The tasks.                                                              *)

Take(w, t) ==
    /\ exec[w] = IdleExec
    /\ queue[t] > 0
    /\ queue' = [queue EXCEPT ![t] = @ - 1]
    /\ exec' = [exec EXCEPT ![w] = [task |-> t, phase |-> "running", text |-> text]]

Runs(w, t, phase) == exec[w].task = t /\ exec[w].phase = phase

Goto(w, phase) == exec' = [exec EXCEPT ![w].phase = phase]

\* detect_scan_quality
QualityStart(w) ==
    /\ Take(w, "quality")
    /\ status' = "QUALITY_CHECKING"
    /\ UNCHANGED <<text, assigned, paper, evaluations, total, req, faults, history>>

QualityResult(w) ==
    /\ Runs(w, "quality", "running")
    /\ \/ status' = "OCR_PROCESSING" /\ Goto(w, "saved")
       \/ status' = "QUALITY_FAILED" /\ Goto(w, "over")
    /\ UNCHANGED <<text, assigned, paper, evaluations, total, queue, req,
                   faults, history>>

\* ocr_scanned_script, which first writes ocr_status only
OcrStart(w) ==
    /\ Take(w, "ocr")
    /\ UNCHANGED <<script, evaluations, total, req, faults, history>>

OcrResult(w) ==
    /\ Runs(w, "ocr", "running")
    /\ text' \in BOOLEAN
    /\ \/ text' /\ status' = "PROCESSING" /\ Goto(w, "saved")
       \/ ~text' /\ status' = "REVIEW_REQUIRED" /\ Goto(w, "over")
    /\ UNCHANGED <<assigned, paper, evaluations, total, queue, req, faults, history>>

\* Mutant: the next task is never published.
ChainMutant(w) ==
    /\ exec[w].phase = "saved"
    /\ Goto(w, "over")
    /\ UNCHANGED <<script, evaluations, total, queue, req, faults, history>>

\* Quality publishes OCR, OCR publishes scoring.
Chain(w) ==
    /\ exec[w].phase = "saved"
    /\ Publish(IF exec[w].task = "quality" THEN "ocr" ELSE "score")
    /\ Goto(w, "over")
    /\ UNCHANGED <<script, evaluations, total, req, faults, history>>

\* score_scanned_script: the text is the one it loaded.
ScoreStart(w) ==
    /\ Take(w, "score")
    /\ UNCHANGED <<script, evaluations, total, req, faults, history>>

\* Mutant: only the questions the scorer answered get a row.
ScoreResultMutant(w) ==
    /\ Runs(w, "score", "running")
    /\ paper # {} /\ rows = {}
    /\ rows' \in SUBSET paper
    /\ status' = IF exec[w].text THEN "SCORED" ELSE "REVIEW_REQUIRED"
    /\ Goto(w, "over")
    /\ UNCHANGED <<text, assigned, paper, mark, final, total, queue, req,
                   faults, history>>

ScoreResult(w) ==
    /\ Runs(w, "score", "running")
    /\ paper # {} /\ rows = {}
    /\ rows' = paper
    /\ status' = IF exec[w].text THEN "SCORED" ELSE "REVIEW_REQUIRED"
    /\ Goto(w, "over")
    /\ UNCHANGED <<text, assigned, paper, mark, final, total, queue, req,
                   faults, history>>

ScoreNoQuestions(w) ==
    /\ Runs(w, "score", "running")
    /\ paper = {}
    /\ status' = "REVIEW_REQUIRED"
    /\ Goto(w, "over")
    /\ UNCHANGED <<text, assigned, paper, evaluations, total, queue, req,
                   faults, history>>

\* The rows are there: the flush breaks their unique key, and the session with
\* it, so that set_failed raises too and is swallowed.
ScoreDuplicate(w) ==
    /\ Runs(w, "score", "running")
    /\ rows # {}
    /\ Goto(w, "over")
    /\ UNCHANGED <<script, evaluations, total, queue, req, faults, history>>

\* Any other exception: FAILED, unless that write fails as well; a transient
\* one is tried again.
TaskFail(w) ==
    /\ exec[w].phase \in {"running", "saved"}
    /\ \/ status' = "FAILED" /\ UNCHANGED <<queue, faults, lost>>
       \/ status' = "FAILED" /\ Publish(exec[w].task) /\ Fault /\ UNCHANGED lost
       \/ lost' = TRUE /\ Fault /\ UNCHANGED <<status, queue>>
    /\ exec' = [exec EXCEPT ![w] = IdleExec]
    /\ UNCHANGED <<text, assigned, paper, evaluations, total, req,
                   raced, stray>>

\* The body returned: the message is acknowledged.
Ack(w) ==
    /\ exec[w].phase = "over"
    /\ exec' = [exec EXCEPT ![w] = IdleExec]
    /\ UNCHANGED <<script, evaluations, total, queue, req, faults, history>>

----------------------------------------------------------------------------
(* The environment.                                                        *)

\* The API process dies, or a database or broker call raises.
Abandon(r) ==
    /\ req[r].op # "idle"
    /\ Fault
    /\ End(r)
    /\ lost' = (lost \/ req[r].op \in {"setJob", "dispatch", "dispatchOcr"})
    /\ UNCHANGED <<script, evaluations, total, broker, raced, stray>>

\* A worker's container dies: its message comes back.
WorkerCrash(w) ==
    /\ exec[w] # IdleExec
    /\ Fault
    /\ Publish(exec[w].task)
    /\ exec' = [exec EXCEPT ![w] = IdleExec]
    /\ stray' = (stray \/ exec[w].phase = "over")
    /\ UNCHANGED <<script, evaluations, total, req, raced, lost>>

\* The pool process dies: the message is acknowledged for it.
ProcessLost(w) ==
    /\ exec[w] # IdleExec
    /\ Fault
    /\ exec' = [exec EXCEPT ![w] = IdleExec]
    /\ lost' = TRUE
    /\ UNCHANGED <<script, evaluations, total, queue, req, raced, stray>>

\* The body outlives the visibility timeout.
Redeliver(w) ==
    /\ exec[w] # IdleExec
    /\ Fault
    /\ Publish(exec[w].task)
    /\ stray' = TRUE
    /\ UNCHANGED <<script, evaluations, total, exec, req, raced, lost>>

----------------------------------------------------------------------------
Check(r) ==
    \/ \E users \in SUBSET Users : AssignEvaluatorCheck(r, users)
    \/ \E given \in Ledger!Marks :
          UpdateMarksCheck(r, given) \/ AcceptSuggestionsCheck(r, given)
    \/ \E u \in Users, given \in Ledger!Marks : SubmitMarksCheck(r, u, given)
    \/ BoardFinaliseCheck(r)
    \/ OverrideQualityCheck(r)

Write(r) ==
    \/ SetEvalJob(r) \/ DispatchScript(r)
    \/ AssignEvaluatorWrite(r) \/ OverrideQualityWrite(r) \/ OverrideQualityDispatch(r)
    \/ UpdateMarksWrite(r) \/ SubmitMarksWrite(r) \/ BoardFinaliseWrite(r)

Start(w) == QualityStart(w) \/ OcrStart(w) \/ ScoreStart(w)

Work(w) ==
    \/ QualityResult(w) \/ OcrResult(w) \/ Chain(w)
    \/ ScoreResult(w) \/ ScoreNoQuestions(w) \/ ScoreDuplicate(w)
    \/ TaskFail(w) \/ Ack(w)

Next ==
    \/ \E r \in Reqs : CreateScript(r) \/ Check(r) \/ Write(r) \/ Abandon(r)
    \/ \E w \in Workers : \/ Start(w) \/ Work(w)
                          \/ WorkerCrash(w) \/ ProcessLost(w) \/ Redeliver(w)

Spec == Init /\ [][Next]_vars

\* A request and a body that run reach their end, an idle worker takes a message.
FairSpec ==
    /\ Spec
    /\ \A r \in Reqs : WF_vars(Write(r))
    /\ \A w \in Workers : WF_vars(Start(w)) /\ WF_vars(Work(w))

----------------------------------------------------------------------------
(* Properties.                                                             *)

\* A script behind the evaluator's gate has a mark for every question, whatever
\* overlaps it, runs twice or fails.
GatedComplete == status \in Gated => Complete(mark)

\* The ledger row is written once, complete, in one step with the final marks,
\* and stays: board_finalise implements ScoreLedger.
LedgerOnce == Ledger!Spec

\* Between the gates, and after them, nothing changes the evaluator's marks,
\* unless requests overlapped or a task ran after the script had moved on: the
\* Board decides on what was submitted.
MarksStay == [][mark' # mark => status \in Markable \/ raced \/ stray]_vars

\* A gate once passed stays passed, unless requests overlapped or a task ran
\* after the script had moved on.
GateStays ==
    [][status' # status /\ status \in Gated =>
          status' = "BOARD_FINALISED" \/ raced \/ stray]_vars

\* What was submitted and what was decided on it stay: both together.
SubmittedStays == MarksStay /\ GateStays

\* Every uploaded script leaves the pipeline, for a person to act on, unless a
\* message or a request was lost, or a task ran after the script had moved on.
PipelineEnds == status \in InPipeline ~> (status \notin InPipeline \/ lost \/ stray)
=============================================================================
