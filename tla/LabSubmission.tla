---------------------------- MODULE LabSubmission ----------------------------
(***************************************************************************)
(* M06: one lab assignment, the submissions to it, their evaluation by the *)
(* evaluate_lab_submission task and the grade ledger.  A rubric has one    *)
(* criterion of weight one, so that a score and its weighted sum are the   *)
(* same; the scope of the evaluators is left out.                          *)
(***************************************************************************)
EXTENDS Backend

CONSTANTS
    Students,
    Submissions,  \* bound: ids 1..n, given out in order
    MaxRubric     \* bound: the marks of a rubric

ASSUME LabAssumption ==
    /\ Submissions \subseteq Nat \ {0}
    /\ MaxRubric \in Nat \ {0}

VARIABLES
    asg,   \* the assignment: its status, the marks of its rubric, max_marks
    sub    \* the submissions, each with its evaluation and its ledger row

labVars == <<asg, sub, backend>>

LabOps == {"update_assignment", "publish_assignment", "close_assignment", "submit_lab", "open_review",
           "update_scores", "ratify_lab"}

Scores == 0..1

ASSUME LabNames == None \notin LabOps /\ None \notin Scores /\ None \notin Submissions

NoEvaluation == [ai |-> None, human |-> None]

NoSubmission == [student |-> None, status |-> "NONE", eval |-> NoEvaluation, ledger |-> None]

LabTypeOK ==
    /\ asg \in [status : {"DRAFT", "PUBLISHED", "CLOSED"}, rubric : 0..MaxRubric, max_marks : 0..MaxRubric]
    /\ sub \in [Submissions ->
                  [student : Students \cup {None},
                   status : {"NONE", "SUBMITTED", "EVALUATING", "EVALUATED", "REVIEWED", "RATIFIED"},
                   eval : [ai : Scores \cup {None}, human : Scores \cup {None}],
                   ledger : Scores \cup {None}]]
    /\ BackendTypeOK(LabOps, {"evaluate_lab_submission"}, Submissions,
                     {"running", "failed", "refused"}, Students \cup 0..MaxRubric, {})

LabInit ==
    /\ asg = [status |-> "DRAFT", rubric |-> 0, max_marks |-> 0]
    /\ sub = [s \in Submissions |-> NoSubmission]
    /\ BackendInit

----------------------------------------------------------------------------
(* The assignment.                                                         *)

UpdateAssignment(r) ==
    asg.status = "DRAFT" /\ Begin(r, "update_assignment", None, None) /\ UNCHANGED <<asg, sub>>

WriteUpdateAssignment(r) ==
    /\ req[r].op = "update_assignment"
    /\ \E n \in 1..MaxRubric : asg' = [asg EXCEPT !.rubric = n]
    /\ End(r)
    /\ UNCHANGED sub

\* max_marks is computed from the rubric that the check read.
PublishAssignment(r) ==
    /\ asg.status = "DRAFT" /\ asg.rubric > 0
    /\ Begin(r, "publish_assignment", None, asg.rubric)
    /\ UNCHANGED <<asg, sub>>

WritePublishAssignment(r) ==
    /\ req[r].op = "publish_assignment"
    /\ asg' = [asg EXCEPT !.status = "PUBLISHED", !.max_marks = req[r].mem]
    /\ End(r)
    /\ UNCHANGED sub

CloseAssignment(r) ==
    asg.status = "PUBLISHED" /\ Begin(r, "close_assignment", None, None) /\ UNCHANGED <<asg, sub>>

WriteCloseAssignment(r) ==
    /\ req[r].op = "close_assignment"
    /\ asg' = [asg EXCEPT !.status = "CLOSED"]
    /\ End(r)
    /\ UNCHANGED sub

----------------------------------------------------------------------------
(* The students and the faculty.                                           *)

FreshSubmission == {s \in Submissions : sub[s].status = "NONE"
                        /\ \A t \in Submissions : t < s => sub[t].status # "NONE"}

\* One submission per student, by a check only.
SubmitLab(r, st) ==
    /\ asg.status = "PUBLISHED"
    /\ \A s \in Submissions : sub[s].student # st
    /\ Begin(r, "submit_lab", None, st)
    /\ UNCHANGED <<asg, sub>>

\* The row, its job and EVALUATING in one transaction.
WriteSubmission(r) ==
    /\ req[r].op = "submit_lab"
    /\ \E s \in FreshSubmission :
          /\ sub' = [sub EXCEPT ![s].student = req[r].mem, ![s].status = "EVALUATING"]
          /\ EndPublishing(r, s, "evaluate_lab_submission")
    /\ UNCHANGED asg

\* The review panel: a GET that marks what it shows.
OpenReview(r, s) ==
    sub[s].status = "EVALUATED" /\ Begin(r, "open_review", s, None) /\ UNCHANGED <<asg, sub>>

WriteReview(r) ==
    /\ req[r].op = "open_review"
    /\ sub' = [sub EXCEPT ![req[r].on].status = "REVIEWED"]
    /\ End(r)
    /\ UNCHANGED asg

Reviewable(s) == sub[s].status \in {"EVALUATED", "REVIEWED"} /\ sub[s].eval # NoEvaluation

UpdateScores(r, s) ==
    Reviewable(s) /\ Begin(r, "update_scores", s, None) /\ UNCHANGED <<asg, sub>>

WriteScores(r) ==
    /\ req[r].op = "update_scores"
    /\ \E score \in Scores : sub' = [sub EXCEPT ![req[r].on].eval.human = score]
    /\ End(r)
    /\ UNCHANGED asg

\* _compute_overall_human_score takes a human score of 0 for none at all.
FinalScore(e) == IF e.human \in {None, 0} THEN e.ai ELSE e.human

\* The final score is the one of the evaluation that the check read.
Ratify(r, s) ==
    /\ Reviewable(s)
    /\ sub[s].ledger = None
    /\ Begin(r, "ratify_lab", s, FinalScore(sub[s].eval))
    /\ UNCHANGED <<asg, sub>>

\* uq_grade_ledger_submission refuses a second row.
WriteRatify(r) ==
    /\ req[r].op = "ratify_lab"
    /\ sub' = IF sub[req[r].on].ledger # None THEN sub
              ELSE [sub EXCEPT ![req[r].on].ledger = req[r].mem, ![req[r].on].status = "RATIFIED"]
    /\ End(r)
    /\ UNCHANGED asg

LabRequest(r) ==
    \/ UpdateAssignment(r) \/ WriteUpdateAssignment(r)
    \/ PublishAssignment(r) \/ WritePublishAssignment(r)
    \/ CloseAssignment(r) \/ WriteCloseAssignment(r)
    \/ \E st \in Students : SubmitLab(r, st)
    \/ \E s \in Submissions : OpenReview(r, s) \/ UpdateScores(r, s) \/ Ratify(r, s)
    \/ WriteSubmission(r) \/ WriteReview(r) \/ WriteScores(r) \/ WriteRatify(r)

----------------------------------------------------------------------------
(* evaluate_lab_submission asks for no status.                             *)

StartEvaluation(w, m) ==
    /\ Take(w, m, "evaluate_lab_submission", "running", None)
    /\ sub' = [sub EXCEPT ![msg[m].to].status = "EVALUATING"]
    /\ UNCHANGED <<asg, again, lost, faults>>

\* The scan, the similarity check and the model, then the evaluation's row; a
\* second row is refused by uq_lab_evaluations_submission.
CommitEvaluation(w) ==
    LET s == exec[w].to IN
    /\ In(w, "evaluate_lab_submission", "running")
    /\ \/ /\ sub[s].eval = NoEvaluation
          /\ \E score \in Scores :
                sub' = [sub EXCEPT ![s].status = "EVALUATED", ![s].eval = [ai |-> score, human |-> None]]
          /\ Finish(w)
       \/ /\ sub[s].eval # NoEvaluation
          /\ Goto(w, "refused", None)
          /\ UNCHANGED <<sub, msg, again>>
    /\ UNCHANGED <<asg, lost, faults>>

FailEvaluation(w) ==
    /\ In(w, "evaluate_lab_submission", "running")
    /\ Fault
    /\ Goto(w, "failed", None)
    /\ UNCHANGED <<asg, sub, msg, again, lost>>

EvaluationRaised(w) ==
    In(w, "evaluate_lab_submission", "failed") \/ In(w, "evaluate_lab_submission", "refused")

\* A connection error is retried, a refused row is not.
EndRaised(w) ==
    \/ exec[w].phase = "failed" /\ Retry(w)
    \/ Finish(w)

\* The except branch: SUBMITTED, whatever the status is.
ResetSubmission(w) ==
    /\ EvaluationRaised(w)
    /\ sub' = [sub EXCEPT ![exec[w].to].status = "SUBMITTED"]
    /\ EndRaised(w)
    /\ UNCHANGED <<asg, lost, faults>>

\* The outage that failed the evaluation fails the reset too; that error is
\* logged and swallowed.
ResetSubmissionFails(w) ==
    /\ In(w, "evaluate_lab_submission", "failed")
    /\ \/ Retry(w) /\ UNCHANGED lost
       \/ Finish(w) /\ lost' = lost \cup {exec[w].to}
    /\ UNCHANGED <<asg, sub, faults>>

LabTask(w) ==
    \/ \E m \in Slots : StartEvaluation(w, m)
    \/ CommitEvaluation(w) \/ FailEvaluation(w)
    \/ ResetSubmission(w) \/ ResetSubmissionFails(w)

----------------------------------------------------------------------------
LabNext ==
    \/ \E r \in Reqs : LabRequest(r) /\ UNCHANGED queue
    \/ \E w \in Workers : LabTask(w) /\ UNCHANGED <<req, raced>>
    \/ Environment /\ UNCHANGED <<asg, sub>>

\* A worker that is up takes messages and ends its tasks.
LabFairness == \A w \in Workers : WF_labVars(LabTask(w) /\ UNCHANGED <<req, raced>>)

LabSpec == LabInit /\ [][LabNext]_labVars /\ EnvironmentFairness /\ LabFairness
----------------------------------------------------------------------------
(* Properties.                                                             *)

\* The ledger, the evaluation and the status agree: what was evaluated has an
\* evaluation and max_marks is the rubric's sum; the grade of the ledger is the
\* score of the evaluation and its submission is RATIFIED; a student has one
\* submission.  Requests that overlap break the last three and the rubric's,
\* a repeated evaluation resets a RATIFIED submission.
GradesAgree ==
    /\ raced \/ asg.status = "DRAFT" \/ asg.max_marks = asg.rubric
    /\ \A s \in Submissions :
          /\ sub[s].status \in {"EVALUATED", "REVIEWED", "RATIFIED"} => sub[s].eval # NoEvaluation
          /\ sub[s].status = "RATIFIED" => sub[s].ledger # None
          /\ raced \/ sub[s].ledger \in {None, FinalScore(sub[s].eval)}
          /\ raced \/ s \in again \/ sub[s].ledger = None \/ sub[s].status = "RATIFIED"
          /\ raced \/ sub[s].student = None
                   \/ \A t \in Submissions \ {s} : sub[t].student # sub[s].student

\* A grade in the ledger never changes and the AI's score under it neither,
\* whatever overlaps and however often the evaluation runs.
GradesStand ==
    [][\A s \in Submissions :
          /\ sub[s].ledger # None => sub'[s].ledger = sub[s].ledger
          /\ sub[s].eval # NoEvaluation => sub'[s].eval.ai = sub[s].eval.ai]_labVars
=============================================================================
